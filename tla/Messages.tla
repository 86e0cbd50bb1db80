------------------------------ MODULE Messages ------------------------------
(***************************************************************************)
(* The decoders that keep nothing between calls, each on frames of its     *)
(* protocol.  The engine hands over whatever follows the headers in the    *)
(* captured bytes: a capture with a snapshot length ends a message early,  *)
(* a segment without data brings an empty payload, and the padding of a    *)
(* short Ethernet frame follows the message, since no length of the IP or  *)
(* UDP header is looked at.  A behaviour hands one decoder one frame as it *)
(* looks with no byte captured, then with one more each step up to the     *)
(* whole message, and then with padding.                                   *)
(***************************************************************************)
EXTENDS Decoding

CONSTANTS
    Traffic,  \* for each decoder, whole messages
    Padding   \* the most bytes of padding behind a message

ASSUME PaddingAssumption == Padding \in Nat

VARIABLES
    decoder,  \* the decoder that is called
    frame,    \* the message, all of it
    shown,    \* how many bytes the payload has
    out       \* the events of the call

callVars == <<decoder, frame, shown, out>>

LinkLayer == INSTANCE LinkLayer
ItBasic == INSTANCE ItBasic
ItApp == INSTANCE ItApp
OtDevice == INSTANCE OtDevice
OtControl == INSTANCE OtControl

DecodeLink(name, c) ==
    CASE name = "arp" -> LinkLayer!OnArp(c)
      [] name = "cdp" -> LinkLayer!OnCdp(c)
      [] name = "lldp" -> LinkLayer!OnLldp(c)
      [] name = "lacp" -> LinkLayer!OnLacp(c)
      [] name = "mrp" -> LinkLayer!OnMrp(c)
      [] name = "prp" -> LinkLayer!OnPrp(c)
      [] name = "stp" -> LinkLayer!OnStp(c)
      [] name = "mstp" -> LinkLayer!OnMstp(c)
      [] name = "pvst" -> LinkLayer!OnPvst(c)
      [] name = "vtp" -> LinkLayer!OnVtp(c)

DecodeIt(name, c) ==
    CASE name = "ftp" -> ItBasic!OnFtp(c)
      [] name = "ssh" -> ItBasic!OnSsh(c)
      [] name = "ntp" -> ItBasic!OnNtp(c)
      [] name = "syslog" -> ItBasic!OnSyslog(c)
      [] name = "radius" -> ItBasic!OnRadius(c)
      [] name = "icmp" -> ItBasic!OnIcmp(c)
      [] name = "igmp" -> ItBasic!IgmpOnDatagram(c)
      [] name \in {"mdns", "wsd"} -> ItApp!DiscoveryOnDatagram(c)
      [] name = "mqtt_sn" -> ItApp!MqttSnOnDatagram(c)
      [] name \in {"dns", "dns_multicast", "dns_tcp"} -> ItApp!DnsOnDatagram(c)
      [] name = "dhcp" -> ItApp!DhcpOnDatagram(c)
      [] name = "snmp" -> ItApp!SnmpOnDatagram(c)
      [] name = "tls" -> ItApp!OnTls(c)
      [] name = "http" -> ItApp!WebOnHttp(c)
      [] name \in {"nbns", "nbds"} -> ItApp!NetBiosOnDatagram(c)
      [] name = "ntlmssp" -> ItApp!OnStreamChunk(c)
      [] name = "tftp" -> ItBasic!TftpOnDatagram(c)
      [] name = "tacacs" -> ItBasic!OnStreamChunk(c)
      [] name = "smb" -> OtDevice!OnSmb(c)

DecodeOt(name, c) ==
    CASE name = "gvcp" -> OtDevice!GvcpOnDatagram(c)
      [] name = "opc_classic" -> OtDevice!OpcClassicOnStreamChunk(c)
      [] name = "powerlink" -> OtDevice!PowerlinkOnDatagram(c)
      [] name = "tristation" -> OtDevice!TriStationOnDatagram(c)
      [] name = "ab_csp" -> OtDevice!AbCspOnStreamChunk(c)
      [] name = "iec104" -> OtControl!Iec104OnStreamChunk(c)
      [] name = "dnp3" -> OtControl!Dnp3OnStreamChunk(c)
      [] name = "dnp3_sav5" -> OtControl!OnSecureChunk(c)
      [] name = "hart_ip" -> OtDevice!HartIpOnDatagram(c)
      [] name = "hart_ip_tcp" -> OtDevice!HartIpOnStreamChunk(c)
      [] name = "mms" -> OtControl!Iec61850OnStreamChunk(c)
      [] name = "goose" -> OtControl!Iec61850OnDatagram(c)
      [] name \in {"fins", "fins_tcp"} -> OtDevice!Handle(c)
      [] name = "s7comm" -> OtControl!S7commOnStreamChunk(c)
      [] name = "ethercat" -> OtDevice!EthercatOnDatagram(c)
      [] name = "profinet" -> OtDevice!ProfinetOnDatagram(c)
      [] name \in {"bacnet", "bacnet_l2"} -> OtControl!BacnetOnDatagram(c)
      [] name = "codesys" -> OtDevice!OnCodesys(c)
      [] name = "iolink" -> OtDevice!OnIoLink(c)
      [] name = "cclink" -> OtDevice!OnCclink(c)

LinkNames == {"arp", "cdp", "lldp", "lacp", "mrp", "prp", "stp", "mstp", "pvst", "vtp"}

ItNames ==
    {"ftp", "ssh", "ntp", "syslog", "radius", "icmp", "igmp", "mdns", "wsd", "mqtt_sn", "dns", "dns_multicast",
     "dns_tcp", "dhcp", "snmp", "tls", "http", "nbns", "nbds", "ntlmssp", "tftp", "tacacs", "smb"}

Decode(name, c) ==
    IF name \in LinkNames THEN DecodeLink(name, c) ELSE IF name \in ItNames THEN DecodeIt(name, c) ELSE DecodeOt(name, c)

Captured(c, len) == [c EXCEPT !.len = len]

InitCall ==
    /\ decoder \in DOMAIN Traffic
    /\ frame \in Traffic[decoder]
    /\ shown = 0
    /\ out = Decode(decoder, Captured(frame, 0))

\* One byte more is captured, of the message or of the padding behind it.
Show ==
    /\ shown < frame.len + Padding
    /\ shown' = shown + 1
    /\ out' = Decode(decoder, Captured(frame, shown + 1))
    /\ UNCHANGED <<decoder, frame>>

-----------------------------------------------------------------------------
What(events, family) == {events[n].what : n \in {m \in DOMAIN events : events[m].family = family}}

Transactions(events) == SelectSeq(events, LAMBDA e : e.family = "protocol_transaction")

Findings(events) == SelectSeq(events, LAMBDA e : e.family # "parse_anomaly")

Whole == Decode(decoder, frame)

\* The decoders that pass over what they cannot read.
Quiet ==
    {"lacp", "mrp", "prp", "mstp", "pvst", "vtp", "ssh", "icmp", "mdns", "tls", "http", "ntlmssp", "smb", "opc_classic", "dnp3_sav5",
     "hart_ip", "hart_ip_tcp", "mms", "goose", "fins", "fins_tcp", "s7comm", "ethercat", "profinet"}

\* A frame leaves a trace: whatever is captured of it, at least one byte, its decoder tells something or reports
\* an anomaly; one that passes over what it cannot read does so with messages captured whole.
AccountedFor ==
    shown > 0 => \/ out # <<>>
                 \/ decoder \in Quiet /\ (frame.sound => shown < frame.len)

\* What a decoder takes from the header until it has read better.
Provisional ==
    CASE decoder \in {"mrp", "prp"} -> {frame.smac}
      [] decoder = "dhcp" -> {frame.yiaddr, frame.siaddr, frame.giaddr}
      [] decoder \in {"syslog", "dns_multicast"} -> {frame.src}
      [] OTHER -> {}

\* What stands for a word that was not captured, or only in part.
Stopgaps == {"none", "cut", "0", ""}

KeepsAssets == \A a \in What(out, "asset_observation") : a \in Provisional \/ a \in What(out', "asset_observation")

KeepsTopology ==
    \A t \in What(out, "topology_observation") : \E u \in What(out', "topology_observation") :
        /\ u[2] = t[2] \/ t[2] \in Provisional
        /\ u[3] = t[3] \/ t[3] \in Provisional \cup Stopgaps

KeepsTransactions ==
    LET before == Transactions(out)
        after == Transactions(out')
    IN  /\ Len(before) <= Len(after)
        /\ \A n \in DOMAIN before :
             ToSet(before[n].what.refs) \subseteq ToSet(after[n].what.refs) \cup Provisional \cup Stopgaps

\* The decoders whose reading of a cut message another byte overturns: one option that is cut spoils all of a
\* DHCP message, a PROFINET header is taken for payload, an EtherCAT frame is read from its header on.
Overturning == {"dhcp", "profinet", "ethercat"}

\* A longer capture tells more: every asset, link, artifact, transaction and object that is told from a capture
\* of a sound message is also told from one with a byte more.
MoreIsTold ==
    [][frame.sound /\ decoder \notin Overturning =>
       /\ KeepsAssets
       /\ KeepsTopology
       /\ KeepsTransactions
       /\ What(out, "extracted_artifact") \subseteq What(out', "extracted_artifact")]_callVars

\* The decoders that take a missing field for a value of it.
Guessing ==
    {"wsd", "mqtt_sn", "ftp", "igmp", "http", "dns_tcp", "dhcp", "profinet", "powerlink", "dnp3", "ethercat", "s7comm"}

\* A frame that was cut is not taken for another: what is told of it has the operation and the status
\* that the whole frame has.
CutNotMistaken ==
    shown < frame.len /\ decoder \notin Guessing =>
        LET told == Transactions(out)
            real == Transactions(Whole)
        IN  \A n \in DOMAIN told : /\ n \in DOMAIN real
                                   /\ told[n].what.operation = real[n].what.operation
                                   /\ told[n].what.status = real[n].what.status

\* The decoders that compare the length in the message with that of the payload.
ComparesLengths == {"mqtt_sn", "tacacs", "ab_csp"}

\* The decoders that take the padding for a part of the message.
ReadsPadding == {"profinet", "fins", "bacnet_l2"}

\* Padding is not data: behind a whole message it changes no finding, and brings no anomaly except where the
\* decoder compares the lengths.
PaddingTellsNoMore ==
    shown > frame.len /\ frame.sound =>
        /\ decoder \notin ReadsPadding => Findings(out) = Findings(Whole)
        /\ decoder \notin ComparesLengths => What(out, "parse_anomaly") = What(Whole, "parse_anomaly")

\* What is reported on purpose, sound as it is.
Noted ==
    \/ decoder = "tftp" /\ frame.opcode \in {3, 4}
    \/ decoder = "ntlmssp" /\ 80 \in {frame.sport, frame.dport}
    \/ decoder = "nbns" /\ \E n \in DOMAIN frame.entries : ~frame.entries[n].question

\* No false alarm: a message that its protocol allows, captured whole, is at most a high one, which warns of what it asks for.
WholeIsClean == shown = frame.len /\ frame.sound /\ ~Noted => What(out, "parse_anomaly") \subseteq {"high"}

\* However little is captured of a frame, it leaves a trace, and not that of another message.
CutIsAccounted == AccountedFor /\ CutNotMistaken

\* A whole message is enough: it causes no false alarm, and what lies behind it tells nothing.
WholeIsEnough == WholeIsClean /\ PaddingTellsNoMore
=============================================================================
