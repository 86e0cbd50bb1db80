------------------------------ MODULE Walkers -------------------------------
(***************************************************************************)
(* The loops that walk over the bytes of a message by lengths and offsets  *)
(* the message itself gives: one operator per loop, from the state before  *)
(* a turn of the loop to the state after it.  Offsets count from zero, as  *)
(* in the code.                                                            *)
(*                                                                         *)
(*   at      the cursor                                                    *)
(*   hops    turns that count against the limit of the name readers        *)
(*   jumped  a name's pointer was followed; end: where the name ends       *)
(*   out     what was read, in order                                       *)
(*   need    how many bytes the payload must have for the reads so far     *)
(*           that the code does not check itself: indexing and slicing     *)
(*           stop the program when the payload is shorter                  *)
(***************************************************************************)
EXTENDS Integers, FiniteSets, Sequences

CONSTANT HopLimit

ASSUME HopLimitAssumption == HopLimit \in Nat

Start(at) ==
    [at |-> at, hops |-> 0, jumped |-> FALSE, end |-> at, out |-> <<>>, need |-> 0, status |-> "reading"]

Done(s) == [s EXCEPT !.status = "done"]

Failed(s) == [s EXCEPT !.status = "failed"]

\* The byte at an offset; what is read beyond the payload shows in "need" only.
Byte(d, i) == IF i < Len(d) THEN d[i + 1] ELSE 0

Bytes(d, i, n) == SubSeq(d, i + 1, i + n)

Reads(s, n) == [s EXCEPT !.need = IF @ < n THEN n ELSE @]

\* from_utf8, of bytes that are ASCII or occur in no text: 128 to 193 never start a character.
IsText(bytes) == \A n \in DOMAIN bytes : bytes[n] < 128

\* The number that up to four bytes make.
BigEndian(bytes) ==
    LET FromEnd(n) == IF n < Len(bytes) THEN bytes[Len(bytes) - n] ELSE 0
    IN  FromEnd(0) + 256 * (FromEnd(1) + 256 * (FromEnd(2) + 256 * FromEnd(3)))

(***************************************************************************)
(* Names of DNS and of mDNS.  A pointer has its two high bits set.         *)
(***************************************************************************)
IsPointer(b) == b >= 192

Target(d, at) == (Byte(d, at) % 64) * 256 + Byte(d, at + 1)

EndAt(s, end) == IF s.jumped THEN s.end ELSE end

\* Mutant: the end follows every pointer, not only the first.
JumpMovingEnd(d, s) ==
    [Reads(s, s.at + 2) EXCEPT !.at = Target(d, s.at), !.jumped = TRUE, !.end = s.at + 2, !.hops = @ + 1]

\* Mutant: pointers do not count as hops.
JumpUncounted(d, s) ==
    [Reads(s, s.at + 2) EXCEPT !.at = Target(d, s.at), !.jumped = TRUE, !.end = EndAt(s, s.at + 2)]

Jump(d, s) ==
    [Reads(s, s.at + 2) EXCEPT !.at = Target(d, s.at), !.jumped = TRUE, !.end = EndAt(s, s.at + 2), !.hops = @ + 1]

Label(d, s) ==
    LET size == Byte(d, s.at)
        read == Reads(s, s.at + 1)
    IN  IF s.at + 1 + size > Len(d) \/ ~IsText(Bytes(d, s.at + 1, size)) THEN Failed(read)
        ELSE [Reads(s, s.at + 1 + size) EXCEPT !.at = @ + 1 + size, !.hops = @ + 1,
                                               !.out = Append(@, Bytes(d, s.at + 1, size))]

DnsName(d, s) ==
    IF s.at >= Len(d) \/ s.hops > HopLimit THEN Failed(s)
    ELSE IF Byte(d, s.at) = 0 THEN Done([Reads(s, s.at + 1) EXCEPT !.end = EndAt(s, s.at + 1)])
    ELSE IF ~IsPointer(Byte(d, s.at)) THEN Label(d, s)
    ELSE IF s.at + 1 >= Len(d) THEN Failed(Reads(s, s.at + 1))
    ELSE Jump(d, s)

\* The copy in the discovery decoder tests a pointer where it is, not where it leads.
MdnsName(d, s) ==
    IF s.at >= Len(d) \/ s.hops > HopLimit THEN Failed(s)
    ELSE IF Byte(d, s.at) = 0 THEN Done([Reads(s, s.at + 1) EXCEPT !.end = EndAt(s, s.at + 1)])
    ELSE IF ~IsPointer(Byte(d, s.at)) THEN Label(d, s)
    ELSE IF s.at + 1 >= Len(d) THEN Failed(Reads(s, s.at + 1))
    ELSE IF Target(d, s.at) >= Len(d) THEN Failed(Reads(s, s.at + 2))
    ELSE Jump(d, s)

\* parse_dns_name_no_compression: no pointers, no limit, and the root is no name.
PlainName(d, s) ==
    IF s.at >= Len(d) THEN Failed(s)
    ELSE IF Byte(d, s.at) = 0
    THEN IF s.out = <<>> THEN Failed(Reads(s, s.at + 1)) ELSE Done([Reads(s, s.at + 1) EXCEPT !.end = s.at + 1])
    ELSE IF IsPointer(Byte(d, s.at)) THEN Failed(Reads(s, s.at + 1))
    ELSE Label(d, s)

(***************************************************************************)
(* Lists of entries, each behind its length.                               *)
(***************************************************************************)
TxtEntry(d, s) ==
    LET size == Byte(d, s.at)
        next == s.at + 1 + size
    IN  IF s.at >= Len(d) THEN Done(s)
        ELSE IF next > Len(d) THEN Done(Reads(s, s.at + 1))
        ELSE [Reads(s, next) EXCEPT !.at = next,
                                    !.out = IF IsText(Bytes(d, s.at + 1, size)) THEN Append(@, Bytes(d, s.at + 1, size)) ELSE @]

\* parse_av_pairs: every read is checked.  Pair 0 ends the list; a length is little-endian.
AvPair(d, s) ==
    LET id == Byte(d, s.at) + 256 * Byte(d, s.at + 1)
        next == s.at + 4 + Byte(d, s.at + 2) + 256 * Byte(d, s.at + 3)
    IN  IF s.at + 4 > Len(d) \/ id = 0 \/ next > Len(d) THEN Done(s)
        ELSE [s EXCEPT !.at = next, !.out = Append(@, <<id, Bytes(d, s.at + 4, next - s.at - 4)>>)]

\* Mutant: a parameter that ends with the payload is taken for one that is cut.
CotpParameterShort(d, s) ==
    LET next == s.at + 2 + Byte(d, s.at + 1)
    IN  IF s.at + 1 >= Len(d) \/ next >= Len(d) THEN Done(s)
        ELSE [Reads(s, next) EXCEPT !.at = next, !.out = Append(@, <<Byte(d, s.at), Bytes(d, s.at + 2, next - s.at - 2)>>)]

\* parse_cotp_layout: the parameters of a connection PDU that ends where the payload does.
CotpParameter(d, s) ==
    LET next == s.at + 2 + Byte(d, s.at + 1)
    IN  IF s.at + 1 >= Len(d) THEN Done(s)
        ELSE IF next > Len(d) THEN Done(Reads(s, s.at + 2))
        ELSE [Reads(s, next) EXCEPT !.at = next, !.out = Append(@, <<Byte(d, s.at), Bytes(d, s.at + 2, next - s.at - 2)>>)]

\* extract_object_groups: a header and its range are passed over, the objects are not.
RangeBytes(qualifier) ==
    LET code == (qualifier % 128) \div 16
    IN  IF code < 2 THEN 2 ELSE IF code < 4 THEN 4 ELSE IF code < 6 THEN 8 ELSE 0

ObjectHeader(d, s) ==
    LET group == Byte(d, s.at)
        range == RangeBytes(Byte(d, s.at + 2))
        read == [Reads(s, s.at + 3) EXCEPT !.out = IF \E n \in DOMAIN @ : @[n] = group THEN @ ELSE Append(@, group)]
    IN  IF s.at + 2 >= Len(d) THEN Done(s)
        ELSE IF range = 0 THEN Done(read)
        ELSE [read EXCEPT !.at = @ + 3 + range]

\* parse_dhcp: zero pads, 255 ends the list.  An option that is cut spoils all.
DhcpOption(d, s) ==
    LET code == Byte(d, s.at)
        next == s.at + 2 + Byte(d, s.at + 1)
    IN  IF s.at >= Len(d) THEN Done(s)
        ELSE IF code = 0 THEN [Reads(s, s.at + 1) EXCEPT !.at = @ + 1]
        ELSE IF code = 255 THEN Done(Reads(s, s.at + 1))
        ELSE IF s.at + 1 >= Len(d) THEN Failed(Reads(s, s.at + 1))
        ELSE IF next > Len(d) THEN Failed(Reads(s, s.at + 2))
        ELSE [Reads(s, next) EXCEPT !.at = next, !.out = Append(@, <<code, Bytes(d, s.at + 2, next - s.at - 2)>>)]

\* The LLDP loop: seven bits of type, nine of length; type 0 ends the list.
LldpTlv(d, s) ==
    LET type == Byte(d, s.at) \div 2
        next == s.at + 2 + (Byte(d, s.at) % 2) * 256 + Byte(d, s.at + 1)
    IN  IF s.at + 2 > Len(d) THEN Done(s)
        ELSE IF next > Len(d) THEN Done(Reads(s, s.at + 2))
        ELSE IF type = 0 THEN Done(Reads(s, next))
        ELSE [Reads(s, next) EXCEPT !.at = next, !.out = Append(@, <<type, Bytes(d, s.at + 2, next - s.at - 2)>>)]

(***************************************************************************)
(* The variable bindings of SNMP, a list that ends with the payload.       *)
(***************************************************************************)
TlvHeader(d, at) ==
    LET first == Byte(d, at + 1)
        more == IF first < 128 THEN 0 ELSE first % 128
        ok == at + 2 <= Len(d) /\ (first >= 128 => more \in 1..4 /\ at + 2 + more <= Len(d))
        value == at + 2 + more
        size == IF first < 128 THEN first ELSE IF ok THEN BigEndian(Bytes(d, at + 2, more)) ELSE 0
    IN  [ok |-> ok, tag |-> Byte(d, at), value |-> value, end |-> value + size]

TlvBody(d, at, end) ==
    LET h == TlvHeader(d, at) IN [h EXCEPT !.ok = @ /\ h.end <= end /\ h.end <= Len(d)]

\* oid_to_string: behind the first byte, what follows the last byte with its high bit clear is
\* zero as a u32, of which the seven bits of a byte leave the top as others come behind it.
IsOid(bytes) ==
    LET kept(behind) == IF behind < 4 THEN 128 ELSE IF behind = 4 THEN 16 ELSE 1
    IN  /\ bytes # <<>>
        /\ \A n \in 2..Len(bytes) :
                (\A m \in n..Len(bytes) : bytes[m] >= 128) => bytes[n] % kept(Len(bytes) - n) = 0

IsValue(tag, bytes) ==
    CASE tag = 6 -> IsOid(bytes)
      [] tag = 2 -> bytes # <<>>
      [] tag = 64 -> Len(bytes) = 4
      [] OTHER -> TRUE

Content(d, h) == Bytes(d, h.value, h.end - h.value)

VarBind(d, s) ==
    LET seq == TlvHeader(d, s.at)
        oid == TlvBody(d, seq.value, seq.end)
        value == TlvBody(d, oid.end, seq.end)
    IN  IF s.at >= Len(d) THEN Done(s)
        ELSE IF ~seq.ok \/ seq.tag # 48 \/ seq.end > Len(d) THEN Failed(s)
        ELSE IF ~oid.ok \/ oid.tag # 6 THEN Failed(s)
        ELSE IF ~IsOid(Content(d, oid)) \/ ~value.ok THEN Failed(Reads(s, oid.end))
        ELSE IF ~IsValue(value.tag, Content(d, value)) THEN Failed(Reads(s, value.end))
        ELSE [Reads(s, value.end) EXCEPT !.at = seq.end, !.out = Append(@, <<Content(d, oid), Content(d, value)>>)]

(***************************************************************************)
(* Scanners: a byte that looks like a tag, with a length that fits, is     *)
(* taken for one wherever it stands; any other byte is passed over alone.  *)
(***************************************************************************)
Fits(d, s) == Byte(d, s.at + 1) > 0 /\ s.at + 2 + Byte(d, s.at + 1) <= Len(d)

Scan(d, s, fields, wanted) ==
    LET size == Byte(d, s.at + 1)
        next == s.at + 2 + size
        hit == Fits(d, s) /\ <<Byte(d, s.at), size>> \in fields
        out == Append(s.out, <<Byte(d, s.at), Bytes(d, s.at + 2, size)>>)
    IN  IF s.at + 1 >= Len(d) THEN Done(s)
        ELSE IF ~hit THEN [Reads(s, s.at + 2) EXCEPT !.at = @ + 1]
        ELSE [Reads(s, next) EXCEPT !.at = next, !.out = out,
                                    !.status = IF wanted \subseteq {out[n][1] : n \in DOMAIN out} THEN "done" ELSE @]

\* extract_goose_sequence_numbers: the test flag, the state number and the sequence number.
GooseFields == {<<134, 1>>} \cup ({137, 138} \X (1..4))

GooseField(d, s) == Scan(d, s, GooseFields, {137, 138})

\* extract_sv_sample_fields: the sample counter and its synchronisation.
SvFields == {<<130, 2>>, <<133, 1>>}

SvField(d, s) == Scan(d, s, SvFields, {130, 133})

\* extract_mms_invoke_id: the first integer of one to four bytes among the first sixteen bytes.
InvokeIdWindow == 16

InvokeId(d, s) ==
    LET size == Byte(d, s.at + 1)
    IN  IF s.at >= Len(d) \/ s.at >= InvokeIdWindow THEN Failed(s)
        ELSE IF Byte(d, s.at) # 2 THEN [Reads(s, s.at + 1) EXCEPT !.at = @ + 1]
        ELSE IF s.at + 1 >= Len(d) THEN Failed(Reads(s, s.at + 1))
        ELSE IF size \notin 1..4 THEN [Reads(s, s.at + 1) EXCEPT !.at = @ + 1]
        ELSE IF s.at + 2 + size > Len(d) THEN Failed(Reads(s, s.at + 1))
        ELSE Done([Reads(s, s.at + 1) EXCEPT !.out = <<BigEndian(Bytes(d, s.at + 2, size))>>])

(***************************************************************************)
(* extract_l4_payload of the streaming classifier: from an IP packet to    *)
(* the payload behind its TCP or UDP header.  "at" is where the headers    *)
(* read so far end; "out" has the headers of an IPv6 chain, and at the end *)
(* the ports.                                                              *)
(***************************************************************************)
Word(d, i) == 256 * Byte(d, i) + Byte(d, i + 1)

Tcp == 6

Udp == 17

\* parse_l4_ports: behind the IP headers, the ports and the size of the last header.
ParseL4Ports(d, s, proto) ==
    LET size == IF proto = Tcp THEN 4 * (Byte(d, s.at + 12) \div 16) ELSE 8
        room == Len(d) - s.at
    IN  IF proto \notin {Tcp, Udp} \/ room < (IF proto = Tcp THEN 20 ELSE 8) THEN Failed(s)
        ELSE IF proto = Tcp /\ (size < 20 \/ room < size) THEN Failed(Reads(s, s.at + 13))
        ELSE Done([Reads(s, s.at + size) EXCEPT !.at = @ + size, !.out = <<Word(d, s.at), Word(d, s.at + 2)>>])

\* extract_l4_payload_v4: a fragment with an offset has no header behind it.
IpV4(d, s) ==
    LET ihl == 4 * (Byte(d, 0) % 16)
    IN  IF Len(d) < 20 \/ ihl < 20 \/ Len(d) < ihl THEN Failed(Reads(s, 1))
        ELSE IF Word(d, 6) % 8192 # 0 THEN Failed(Reads(s, 8))
        ELSE ParseL4Ports(d, [Reads(s, ihl) EXCEPT !.at = ihl], Byte(d, 9))

ChainLimit == 8

Extensions == {0, 43, 60}

\* A turn of the loop in extract_l4_payload_v6: an extension header gives the next one and its own size.
Extension(d, s) ==
    LET next == s.at + 8 * (Byte(d, s.at + 1) + 1)
        header == s.out[Len(s.out)]
    IN  IF s.hops = ChainLimit THEN Failed(s)
        ELSE IF header \notin Extensions THEN ParseL4Ports(d, s, header)
        ELSE IF Len(d) < s.at + 2 THEN Failed(s)
        ELSE IF Len(d) < next THEN Failed(Reads(s, s.at + 2))
        ELSE [Reads(s, s.at + 2) EXCEPT !.at = next, !.hops = @ + 1, !.out = Append(@, Byte(d, s.at))]

ExtractL4Payload(d, s) ==
    LET version == Byte(d, 0) \div 16
    IN  IF d = <<>> \/ version \notin {4, 6} THEN Failed(s)
        ELSE IF version = 4 THEN IpV4(d, s)
        ELSE IF s.at > 0 THEN Extension(d, s)
        ELSE IF Len(d) < 40 THEN Failed(Reads(s, 1))
        ELSE [Reads(s, 7) EXCEPT !.at = 40, !.out = <<Byte(d, 6)>>]
=============================================================================
