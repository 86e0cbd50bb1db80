------------------------------- MODULE LinkLayer -------------------------------
(***************************************************************************)
(* The decoders of frames below IP: ARP, CDP, LLDP, LACP, MRP, PRP, the    *)
(* spanning tree protocols and VTP. None keeps anything between calls, so  *)
(* each handler goes from the frame straight to its events.                *)
(* A frame is given by what a reader of all its bytes finds in it; "len"   *)
(* is how many of them were captured. A TLV has its type, the bytes it     *)
(* claims in all and its value.                                            *)
(***************************************************************************)
EXTENDS Decoding

Absent == "none"

OrElse(value, other) == IF value = Absent THEN other ELSE value

\* The value of the last TLV of "T" that has at least "min" bytes: a later one overrides.
Latest(tlvs, T, min) ==
    LET at == {n \in DOMAIN tlvs : tlvs[n].type \in T /\ tlvs[n].size >= min}
    IN  IF at = {} THEN Absent ELSE tlvs[Max(at)].value

\* The TLVs a loop reads that stops at the end marker, at one too short for its own header, and at
\* one that is not all there.
Tlvs(c, header, fixed) ==
    LET end == SelectInSeq(c.tlvs, LAMBDA t : t.type = 0)
        all == IF end = 0 THEN c.tlvs ELSE SubSeq(c.tlvs, 1, end - 1)
        Size(t) == t.size
        Need(t) == IF t.size < header THEN c.len + 1 ELSE t.size
    IN  Within(all, Need, Size, c.len - fixed)

ArpReadable(c) == c.len >= 28

OnArp(c) ==
    IF ~ArpReadable(c)
    THEN Anomaly(c, "medium")
    ELSE Asset(c, c.sender.mac)
         \o Topology(c, IF c.op = 2 THEN "arp_reply" ELSE "arp_request", c.sender.ip, c.target)

\* CDP has no end marker: type 0 is a type like any other.
CdpTlvs(c) ==
    LET Size(t) == t.size
        Need(t) == IF t.size < 4 THEN c.len + 1 ELSE t.size
    IN  Within(c.tlvs, Need, Size, c.len - 4)

DeviceId == 1

OnCdp(c) ==
    LET device == Latest(CdpTlvs(c), {DeviceId}, 4)
    IN  IF c.len < 4 \/ device \in {Absent, ""}
        THEN Anomaly(c, "medium")
        ELSE Asset(c, device) \o Topology(c, "cdp_neighbor", c.smac, device)

ChassisId == 1

\* A chassis ID needs a byte behind its subtype.
OnLldp(c) ==
    LET chassis == Latest(Tlvs(c, 2, 0), {ChassisId}, 4)
    IN  IF chassis \in {Absent, ""}
        THEN Anomaly(c, "medium")
        ELSE Asset(c, chassis) \o Topology(c, "lldp_neighbor", c.smac, chassis)

LacpHeader == 42

PartnerOffset(c) == 2 + c.actor.size

\* The collector's TLV is looked for behind the partner's.
CollectorOffset(c) == PartnerOffset(c) + 2 + c.partner.size

MaxDelay(c) ==
    IF c.collector.at = CollectorOffset(c) /\ c.collector.at + 4 <= c.len /\ c.collector.size >= 4
    THEN c.collector.value
    ELSE Absent

LacpReadable(c) ==
    /\ c.len >= LacpHeader
    /\ c.subtype = 1
    /\ c.actor.type = 1 /\ c.actor.size >= 20
    /\ PartnerOffset(c) + 22 <= c.len
    /\ c.partner.type = 2 /\ c.partner.size >= 20

OnLacp(c) ==
    If(LacpReadable(c),
       Topology(c, <<"lacp_bond", MaxDelay(c)>>, c.actor.value, c.partner.value)
       \o Asset(c, c.actor.value) \o Asset(c, c.partner.value))

MrpTest == 1

MrpCommon == 5

\* The first TLV names the frame; a test is too short for its MAC below 14 bytes of value.
MrpSource(tlvs) ==
    LET at == {n \in DOMAIN tlvs : \/ tlvs[n].type = MrpTest /\ tlvs[n].size >= 18
                                   \/ tlvs[n].type \in 2..4 /\ tlvs[n].size >= 10}
    IN  IF at = {} THEN Absent ELSE tlvs[Max(at)].value

OnMrp(c) ==
    LET tlvs == Tlvs(c, 4, 2)
        local == OrElse(MrpSource(tlvs), c.smac)
    IN  If(c.len >= 5 /\ tlvs # <<>>,
           Topology(c, <<"mrp", IF tlvs[1].type \in 1..5 THEN tlvs[1].type ELSE Unknown>>, local,
                    Latest(tlvs, {MrpCommon}, 22))
           \o Asset(c, local))

NodeTypes == 20..23

RedBox == 30

SupervisionType(tlvs) ==
    LET at == {n \in DOMAIN tlvs : tlvs[n].type \in NodeTypes}
    IN  IF at = {} THEN Unknown ELSE tlvs[Max(at)].type

\* A supervision frame is told even if no TLV of it is left.
OnPrp(c) ==
    LET tlvs == Tlvs(c, 4, 4)
        local == OrElse(Latest(tlvs, NodeTypes, 10), c.smac)
    IN  If(c.len >= 6,
           Topology(c, <<"prp", SupervisionType(tlvs)>>, local, Latest(tlvs, {RedBox}, 10)) \o Asset(c, local))

Bpdu(c, min) == c.len >= min /\ c.id = 0

OnStp(c) ==
    IF Bpdu(c, 35)
    THEN Asset(c, c.bridge) \o Topology(c, "stp_topology", c.bridge, c.root)
    ELSE Anomaly(c, "medium")

\* The same frames reach the MSTP decoder, which leaves the older versions alone.
MstiRecords(c) ==
    LET mcid == 37
        room == Min({c.len, mcid + c.version3}) - (mcid + 51 + 13)
    IN  IF c.len >= mcid + 51 /\ room > 0 THEN room \div 16 ELSE 0

OnMstp(c) ==
    If(Bpdu(c, 38) /\ c.version >= 3,
       Topology(c, <<"mstp_bpdu", MstiRecords(c)>>, c.bridge, c.root) \o Asset(c, c.bridge))

\* RSTP has one byte more ahead of the VLAN's TLV.
OriginatingVlan(c) ==
    LET at == IF c.version >= 2 /\ c.len >= 36 THEN 36 ELSE 35
    IN  IF c.len >= at + 6 /\ c.vlan.at = at THEN c.vlan.value ELSE Absent

OnPvst(c) ==
    If(Bpdu(c, 35), Topology(c, <<"pvst_bpdu", OriginatingVlan(c)>>, c.bridge, c.root) \o Asset(c, c.bridge))

\* The VLANs of a subset advertisement; an entry is listed only if six bytes were captured.
Vlans(c) ==
    LET Size(v) == v.size
        Need(v) == IF v.size < 4 THEN c.len + 1 ELSE v.size
        At(n) == 40 + FoldLeft(LAMBDA sum, v : sum + v.size, 0, SubSeq(c.vlans, 1, n - 1))
        read == IF c.code = 2 THEN Within(c.vlans, Need, Size, c.len - 40) ELSE <<>>
    IN  ForEach([n \in DOMAIN read |-> n], LAMBDA n : If(At(n) + 6 <= c.len, <<read[n].id>>))

VtpReadable(c) == c.len >= 36 /\ c.version \in 1..3 /\ c.domain.size <= 32

OnVtp(c) ==
    If(VtpReadable(c),
       Told(c, IF c.code \in 1..4 THEN c.code ELSE Unknown, "ok", <<c.domain.value>> \o Vlans(c))
       \o Asset(c, c.smac))

=============================================================================
