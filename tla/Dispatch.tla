------------------------------ MODULE Dispatch ------------------------------
(***************************************************************************)
(* How process_packet_record (src/engine/mod.rs) takes a frame apart: what *)
(* the link header, the VLAN tags and the IP and transport headers leave   *)
(* for the decoders, and which anomaly the engine reports by itself.       *)
(*                                                                         *)
(* A frame is a record of what the code tells apart:                       *)
(*   link       LinkType                                                   *)
(*   short      the link header is not complete                            *)
(*   type       the ethertype after the VLAN tags, or an 802.3 length      *)
(*   hidden     the ethertype detect_prefixed_l3_payload finds, or 0       *)
(*   smac, dmac, sip, dip, sport, dport                                    *)
(*   l3, l4     "ok", or what is wrong with the header at that level       *)
(*   proto      the IP protocol number                                     *)
(*   llc        <<dsap, ssap>>; snap is <<oui, pid>> or <<>>               *)
(*   findings   what stovetop and bilgepump's inspect_l2_frame report      *)
(*   body       the payload, as the decoders read it                       *)
(* Addresses are sequences of text fragments, as DedupTable has them.      *)
(***************************************************************************)
EXTENDS Naturals, Sequences

IPv4 == 2048    \* 0x0800
ARP == 2054     \* 0x0806
LLDP == 35020   \* 0x88CC
MaxLength == 1500

ZeroMac == <<"00:00:00:00:00:00">>
Unknown == <<"unknown">>

\* decode_raw_ip, decode_linux_sll, decode_linux_sll2 and the Ethernet arm:
\* a header that is not there counts as ethertype 0 without a payload.
OuterType(f) == IF f.short THEN 0 ELSE f.type

\* The frame carries a pseudo-header ahead of its L3 payload.
Prefixed(f) ==
    /\ f.link = "Ethernet"
    /\ OuterType(f) \notin {IPv4, ARP, LLDP}
    /\ f.hidden # 0

Ethertype(f) == IF Prefixed(f) THEN f.hidden ELSE OuterType(f)

Bodiless(f) == ~Prefixed(f) /\ (f.short \/ f.l3 = "empty")

\* src_mac and dst_mac: zero where there is no outer Ethernet identity.
HasMacs(f) == f.link = "Ethernet" /\ ~Prefixed(f)

Macs(f) == IF HasMacs(f) THEN <<f.smac, f.dmac>> ELSE <<ZeroMac, ZeroMac>>

-----------------------------------------------------------------------------

Ipv4(f) == ~Bodiless(f) /\ Ethertype(f) = IPv4

\* The transport header is reached.
Ipv4Of(f, proto) == Ipv4(f) /\ f.l3 = "ok" /\ f.proto = proto

\* The anomaly that ends the dissection of the frame, or "none".
Fault(f) ==
    CASE Bodiless(f) -> "ethernet frame shorter than 14 bytes"
      [] Ipv4(f) /\ f.l3 = "short" -> "ipv4 packet shorter than minimum header"
      [] Ipv4(f) /\ f.l3 = "ihl" -> "invalid ipv4 header length"
      [] Ipv4Of(f, 6) /\ f.l4 = "short" -> "tcp header shorter than minimum length"
      [] Ipv4Of(f, 6) /\ f.l4 = "offset" -> "invalid tcp data offset"
      [] Ipv4Of(f, 17) /\ f.l4 = "short" -> "udp header shorter than minimum length"
      [] ~Bodiless(f) /\ Ethertype(f) <= MaxLength /\ f.l3 = "short" ->
            "802.3 llc frame shorter than minimum header"
      [] OTHER -> "none"

\* What interest_matches compares the decoders' interests with.
Offers(f) ==
    {<<"EtherType", Ethertype(f)>>} \cup
    (IF Ethertype(f) = IPv4
     THEN {<<"IpProto", f.proto>>} \cup
          (CASE f.proto = 6 -> {<<"TcpPort", f.sport>>, <<"TcpPort", f.dport>>}
             [] f.proto = 17 -> {<<"UdpPort", f.sport>>, <<"UdpPort", f.dport>>}
             [] OTHER -> {})
     ELSE IF Ethertype(f) <= MaxLength
     THEN {<<"Llc", f.llc>>} \cup (IF f.snap = <<>> THEN {} ELSE {<<"Snap", f.snap>>})
     ELSE {})

\* The decoder is called for the frame.
Claims(interest, f) == Fault(f) = "none" /\ interest \cap Offers(f) # {}

\* Whether the arm of the match reports a frame that no decoder claims, and
\* as what: TCP, UDP, ICMP, ARP and LLDP frames pass in silence.
Unsupported(f) ==
    LET e == Ethertype(f) IN
    CASE e \in {ARP, LLDP} -> "none"
      [] e = IPv4 -> IF f.proto \in {1, 6, 17} THEN "none"
                     ELSE "unsupported ipv4 transport protocol"
      [] e \notin {ARP, LLDP, IPv4} /\ e > MaxLength -> "unsupported ethertype"
      [] e <= MaxLength -> "unsupported 802.3 llc protocol"

\* make_ip_session_key, make_layer2_session_key: the same both ways.
Session(f) ==
    IF Ethertype(f) = IPv4
    THEN CASE f.proto = 6 -> <<"tcp", {<<f.sip, f.sport>>, <<f.dip, f.dport>>}>>
           [] f.proto = 17 -> <<"udp", {<<f.sip, f.sport>>, <<f.dip, f.dport>>}>>
           [] f.proto = 1 -> <<"icmp", {<<f.sip, 0>>, <<f.dip, 0>>}>>
           [] OTHER -> <<"ip", {<<f.sip, 0>>, <<f.dip, 0>>}>>
    ELSE <<CASE Ethertype(f) > MaxLength -> <<"ethertype", Ethertype(f)>>
             [] Ethertype(f) <= MaxLength /\ f.snap # <<>> -> <<"snap", f.snap>>
             [] OTHER -> <<"llc", f.llc>>,
           {Macs(f)[1], Macs(f)[2]}>>

=============================================================================
