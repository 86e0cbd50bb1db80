---------------------------- MODULE CaptureFile -----------------------------
(***************************************************************************)
(* The reader of capture files: the magic word, then block after block of  *)
(* a pcapng file, or the global header and packet after packet of a        *)
(* classic one.  A file f has its "format", its list of "blocks" and "len",*)
(* how many of its bytes there are; it may end anywhere.  A block has its  *)
(* type, the size its header gives, and what else the reader looks at.     *)
(*                                                                         *)
(*   at          where the reader is; block: which block starts there      *)
(*   got         how much of the header was read: reads may be short       *)
(*   interfaces  the link types of the interface blocks so far             *)
(*   out         the packets handed on                                     *)
(***************************************************************************)
EXTENDS Integers, Sequences

LinkTypes == {"ethernet", "raw_ip", "linux_sll", "linux_sll2"}

Start ==
    [at |-> 0, block |-> 1, got |-> 0, phase |-> "magic", interfaces |-> <<>>, out |-> <<>>, status |-> "reading"]

Done(s) == [s EXCEPT !.status = "done"]

Failed(s) == [s EXCEPT !.status = "failed"]

PcapngHeader == 8

PcapHeader == 16

GlobalHeader == 24

HeaderSize(f, s) ==
    IF s.phase = "magic" THEN 4 ELSE IF f.format = "pcapng" THEN PcapngHeader ELSE PcapHeader

OnMagic(f, s) ==
    CASE f.format = "pcapng" -> [s EXCEPT !.got = 0, !.phase = "header"]
      [] f.format = "pcap" -> [s EXCEPT !.got = 0, !.phase = "global"]
      [] OTHER -> Failed(s)

MinBlock == 12

MinPacketBlock == 32

\* The packet lies between the 28 bytes before it and the 4 of the trailer.
DataStart == 28

Trailer == 4

\* Mutant: the trailer is not taken off.
PacketFitsToEnd(b) == DataStart + b.captured <= b.size

PacketFits(b) == DataStart + b.captured <= b.size - Trailer

Passed(s, size) == [s EXCEPT !.at = @ + size, !.block = @ + 1, !.got = 0]

LinkOf(f, s, b) ==
    IF b.interface + 1 \in DOMAIN s.interfaces THEN s.interfaces[b.interface + 1] ELSE "ethernet"

\* pcapng_interface_linktype and pcapng_packet_record.
OnBlock(f, s, b) ==
    CASE b.type = "interface" ->
           [Passed(s, b.size) EXCEPT !.interfaces = Append(@, IF b.link \in LinkTypes THEN b.link ELSE "ethernet")]
      [] b.type = "packet" ->
           IF b.size < MinPacketBlock \/ ~PacketFits(b) THEN Failed(s)
           ELSE [Passed(s, b.size) EXCEPT !.out = Append(@, [block |-> s.block, link |-> LinkOf(f, s, b)])]
      [] OTHER -> Passed(s, b.size)

\* read_pcapng_block: lengths are little-endian; those of a big-endian section are far too large.
ReadPcapngBlock(f, s) ==
    LET b == f.blocks[s.block]
    IN  IF b.big \/ b.size < MinBlock \/ s.at + b.size > f.len THEN Failed(s) ELSE OnBlock(f, s, b)

\* read_pcap_global_header
ReadPcapGlobalHeader(f, s) ==
    IF f.len < GlobalHeader \/ ~f.version \/ f.link \notin LinkTypes THEN Failed(s)
    ELSE [s EXCEPT !.at = GlobalHeader, !.phase = "header"]

\* read_pcap_packet, behind its header.
ReadPcapPacket(f, s) ==
    LET size == PcapHeader + f.blocks[s.block].captured
    IN  IF s.at + size > f.len THEN Failed(s)
        ELSE [Passed(s, size) EXCEPT !.out = Append(@, [block |-> s.block, link |-> f.link])]

HeaderRead(f, s) ==
    CASE s.phase = "magic" -> OnMagic(f, s)
      [] s.phase = "header" /\ f.format = "pcapng" -> ReadPcapngBlock(f, s)
      [] s.phase = "header" /\ f.format = "pcap" -> ReadPcapPacket(f, s)

\* No byte where a header should start ends the file; there must be a magic word.
AtEnd(s) == IF s.got > 0 \/ s.phase = "magic" THEN Failed(s) ELSE Done(s)

Pieces(f, s) ==
    LET left == f.len - s.at - s.got
        wanted == HeaderSize(f, s) - s.got
    IN  1..(IF left < wanted THEN left ELSE wanted)

\* read_exact_or_eof: one read of any size, and what follows once the header is complete.
ReadExactOrEof(f, s) ==
    IF Pieces(f, s) = {} THEN {AtEnd(s)}
    ELSE {IF s.got + n = HeaderSize(f, s) THEN HeaderRead(f, s) ELSE [s EXCEPT !.got = @ + n] : n \in Pieces(f, s)}

Turns(f, s) == IF s.phase = "global" THEN {ReadPcapGlobalHeader(f, s)} ELSE ReadExactOrEof(f, s)
=============================================================================
