-------------------------------- MODULE ItBasic --------------------------------
(*****************************************************************************)
(* The basic IT decoders that keep nothing between calls: FTP, SSH, NTP,     *)
(* syslog, RADIUS and ICMP (it_basic/), IGMP, TFTP and TACACS+. Each is an   *)
(* operator from the message, as far as it was captured, to the events       *)
(* pushed.                                                                   *)
(*****************************************************************************)
EXTENDS Decoding

-----------------------------------------------------------------------------
(***************************************************************************)
(* The decoders of FTP, SSH, NTP, syslog, RADIUS and ICMP, which keep      *)
(* nothing between calls.                                                  *)
(* A message is given by what a reader of all its bytes finds in it; "len" *)
(* is how many of them were captured. A word that was cut reads as the     *)
(* word Cut.                                                               *)
(***************************************************************************)

Cut == "cut"

Absent == "none"

(***************************************************************************)
(* FTP: the first line of the chunk, a reply or a command.                 *)
(***************************************************************************)
IsReply(c) == c.kind = "reply" /\ c.len >= 4

\* Three or four letters pass for a command, be they all of the word or not.
IsCommand(c) == c.kind = "command" /\ Min({c.len, c.word.size}) \in 3..4

Argument(c) ==
    LET start == c.word.size + 1
    IN  IF c.len <= start \/ c.argument.size = 0 THEN <<>>
        ELSE IF c.len < start + c.argument.size THEN <<Cut>> ELSE <<c.argument.value>>

OnFtp(c) ==
    IF IsReply(c)
    THEN Told(c, "reply", c.code, <<>>) \o If(c.code = "220", Asset(c, c.src))
    ELSE IF IsCommand(c)
    THEN Told(c, IF c.len < c.word.size THEN Cut ELSE c.word.value, "request", Argument(c))
    ELSE Anomaly(c, "medium")

(***************************************************************************)
(* SSH: a banner line, behind "c.at" bytes of other lines.  The version of *)
(* the protocol ends with a dash.                                          *)
(***************************************************************************)
Banner(c) == c.text /\ c.len >= c.at + 4 + c.version + 1

OnSsh(c) ==
    If(Banner(c), Told(c, "banner", "ok", <<>>) \o Asset(c, IF c.sport = 22 THEN c.src ELSE c.dst))

(***************************************************************************)
(* NTP.                                                                    *)
(***************************************************************************)
Server == 4

NtpReadable(c) == c.len >= 48 /\ c.version \in 2..4

OnNtp(c) ==
    IF ~NtpReadable(c)
    THEN Anomaly(c, "low")
    ELSE Told(c, IF c.mode \in 1..7 THEN c.mode ELSE Unknown,
              IF c.mode = Server THEN "response" ELSE "request", <<>>)
         \o If(c.mode = Server /\ c.stratum \in 1..15, Asset(c, c.src))

(***************************************************************************)
(* Syslog: a priority in angle brackets, then the new or the old form.     *)
(***************************************************************************)
\* The new form is known by a digit and a blank; a blank at the end is trimmed away.
IsRfc5424(c) == c.form = 5424 /\ c.len > c.close + 3

\* The old form always has a host name: the first word, whatever it is.
HasHostname(c) == IsRfc5424(c) => c.len > c.host.at /\ ~(c.host.value = "-" /\ c.len > c.host.at)

SyslogReadable(c) == c.text /\ c.len > c.close /\ c.close \in 2..4 /\ c.pri \in 0..191

OnSyslog(c) ==
    IF ~SyslogReadable(c)
    THEN Anomaly(c, "low")
    ELSE Told(c, "syslog_message", c.pri % 8, <<ToString(c.pri \div 8)>>) \o If(HasHostname(c), Asset(c, c.src))

(***************************************************************************)
(* RADIUS: all of the message or nothing of it.  An attribute too short    *)
(* for itself or longer than the message ends the list.                    *)
(***************************************************************************)
ItBasicUserName == 1

NasIpAddress == 4

Attributes(c) ==
    LET Size(a) == a.size
        Need(a) == IF a.size < 2 THEN c.length + 1 ELSE a.size
    IN  Within(c.attributes, Need, Size, c.length - 20)

\* A later attribute overrides; an address has four bytes.
AttributeOf(attributes, type, sizes) ==
    LET at == {n \in DOMAIN attributes : attributes[n].type = type /\ attributes[n].size \in sizes}
    IN  IF at = {} THEN <<>> ELSE <<attributes[Max(at)].value>>

RadiusStatus(code) ==
    IF code \in {2, 5, 41, 44} THEN "accept" ELSE IF code \in {3, 42, 45} THEN "reject" ELSE "request"

OnRadius(c) ==
    LET attributes == Attributes(c)
        nas == AttributeOf(attributes, NasIpAddress, {6})
    IN  IF c.len < 20 \/ c.length \notin 20..4096 \/ c.length > c.len
        THEN Anomaly(c, "medium")
        ELSE Told(c, IF c.code \in (1..5) \cup (11..13) \cup (40..45) THEN c.code ELSE Unknown,
                  RadiusStatus(c.code), AttributeOf(attributes, ItBasicUserName, 2..255))
             \o If(c.code = 1, ForEach(nas, LAMBDA ip : Asset(c, ip)))

(***************************************************************************)
(* ICMP.                                                                   *)
(***************************************************************************)
IcmpTypes == {0, 3, 4, 5, 8, 9, 10, 11, 12, 13, 14, 17, 18, 30}

Unreachable == 3

IcmpStatus(c) ==
    IF c.type # Unreachable THEN "ok" ELSE IF c.code \in (0..7) \cup {9, 10, 13} THEN "named" ELSE ""

IcmpReadable(c) == c.len >= 4

OnIcmp(c) == If(IcmpReadable(c), Told(c, IF c.type \in IcmpTypes THEN c.type ELSE Unknown, IcmpStatus(c), <<>>))

-----------------------------------------------------------------------------
(***************************************************************************)
(* The IGMP decoder: queries, reports and leaves, and the joins that a     *)
(* report tells. It keeps nothing between calls.                           *)
(***************************************************************************)

Query == 17

V1Report == 18

V2Report == 22

Leave == 23

V3Report == 34

MinV1V2Len == 8

MinV3QueryLen == 12

RecordHdrLen == 8

\* MODE_IS_INCLUDE, CHANGE_TO_INCLUDE, ALLOW_NEW_SOURCES.
IsJoinRecordType(t) == t \in {1, 3, 5}

\* Only the long form of a query has sources; cut short, it passes for an older version.
QueryKind(c) ==
    IF c.group = "none" THEN "general"
    ELSE IF c.len >= MinV3QueryLen /\ c.sources > 0 THEN "group_and_source_specific"
    ELSE "group_specific"

DecodeQuery(c) ==
    If(c.len >= MinV3QueryLen /\ c.len < MinV3QueryLen + 4 * c.sources, Anomaly(c, "low"))
    \o Told(c, <<Query, QueryKind(c)>>, "observed", IF c.group = "none" THEN <<>> ELSE <<c.group>>)

Join(c, group) == Topology(c, "multicast_join", c.src, group)

DecodeReport(c) == Told(c, <<c.type, "report">>, "observed", <<c.group>>) \o Join(c, c.group)

DecodeLeave(c) == Told(c, <<Leave, "leave">>, "observed", <<c.group>>)

\* The group records that are all there; the auxiliary data of the last one need not be.
Records(c) ==
    LET Need(r) == RecordHdrLen + 4 * r.sources
        Size(r) == Need(r) + 4 * r.aux
    IN  Within(c.records, Need, Size, c.len - MinV1V2Len)

\* group_refs: each group once, in the order of its first record.
Groups(records) == FoldLeft(LAMBDA gs, r : IF Contains(gs, r.group) THEN gs ELSE Append(gs, r.group), <<>>, records)

DecodeV3Report(c) ==
    LET records == Records(c)
    IN  If(Len(records) < Len(c.records), Anomaly(c, "low"))
        \o Told(c, <<V3Report, "report">>, "observed", Groups(records))
        \o ForEach(records, LAMBDA r : If(IsJoinRecordType(r.type), Join(c, r.group)))

IgmpOnDatagram(c) ==
    IF c.len < MinV1V2Len THEN Anomaly(c, "low")
    ELSE CASE c.type = Query -> DecodeQuery(c)
           [] c.type \in {V1Report, V2Report} -> DecodeReport(c)
           [] c.type = Leave -> DecodeLeave(c)
           [] c.type = V3Report -> DecodeV3Report(c)
           [] OTHER -> Anomaly(c, "low")

-----------------------------------------------------------------------------
(***************************************************************************)
(* The TFTP decoder: requests with their file names, and errors. It keeps  *)
(* nothing between calls.                                                  *)
(***************************************************************************)

ReadRequest == 1

WriteRequest == 2

Data == 3

Ack == 4

Error == 5

\* A name and a mode end with a zero byte each.
ParseRequest(c) ==
    IF c.len < 2 + c.file.size + 1 \/ c.len < 2 + c.file.size + 1 + c.mode + 1
    THEN Anomaly(c, "low")
    ELSE Told(c, c.opcode, "observed", <<c.file.value>>)
         \o If(c.opcode = WriteRequest /\ c.file.firmware, Anomaly(c, "high"))
         \o Asset(c, c.dst)

TftpOnDatagram(c) ==
    IF c.len < 2 THEN Anomaly(c, "low")
    ELSE CASE c.opcode \in {ReadRequest, WriteRequest} -> ParseRequest(c)
           [] c.opcode = Error -> IF c.len < 5 THEN Anomaly(c, "low") ELSE Told(c, Error, "failed", <<>>)
           [] c.opcode \in {Data, Ack} -> Anomaly(c, "low")
           [] OTHER -> Told(c, Unknown, "observed", <<>>)

-----------------------------------------------------------------------------
(***************************************************************************)
(* The TACACS+ decoder: a header per chunk, whose body is read only when   *)
(* it is the start of an authentication and not obfuscated.                *)
(***************************************************************************)

HeaderLen == 12

MajorVersion == 12

Authen == 1

\* A packet type and its place in the exchange: first, even (the server's) or odd.
Operation(c) ==
    IF c.pkt_type \notin 1..3 THEN <<Unknown, 0>>
    ELSE IF c.seq_no = 1 THEN <<c.pkt_type, 1>>
    ELSE IF c.pkt_type = Authen /\ c.seq_no % 2 = 1 THEN <<c.pkt_type, 3>>
    ELSE <<c.pkt_type, 2>>

StartsAuthen(c) == c.pkt_type = Authen /\ c.seq_no = 1

\* AuthenStartBody::parse, on what is there of the claimed body.
TacacsUserName(c) ==
    LET there == Min({c.len - HeaderLen, c.body_length})
    IN  If(there >= 8 /\ there >= 8 + c.names_len, <<c.user>>)

\* A wrong version or length is an anomaly, and the packet is told all the same.
OnStreamChunk(c) ==
    IF c.len < HeaderLen
    THEN Anomaly(c, "low")
    ELSE If(c.major_ver # MajorVersion, Anomaly(c, "medium"))
         \o If(c.len - HeaderLen # c.body_length, Anomaly(c, "low"))
         \o Told(c, Operation(c), "observed", If(StartsAuthen(c) /\ c.unencrypted, TacacsUserName(c)))
         \o If(StartsAuthen(c), Asset(c, c.dst) \o Asset(c, c.src))

=============================================================================
