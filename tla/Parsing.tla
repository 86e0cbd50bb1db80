------------------------------ MODULE Parsing -------------------------------
(***************************************************************************)
(* What the loops over bytes and blocks tell, against definitions of what  *)
(* their input says.                                                       *)
(***************************************************************************)
EXTENDS Loops, SequencesExt

\* The whole loop as a function of its input.
RECURSIVE Rest(_, _, _)
Rest(w, d, s) == IF s.status # "reading" THEN s ELSE Rest(w, d, WalkerStep(w, d, s))

Outcome(w, d, at) == Rest(w, d, Start(at))

Over == state.status # "reading"

(***************************************************************************)
(* Properties of the walkers.                                              *)
(***************************************************************************)
\* parse_dns_name exists twice, and once without pointers: "dns.rs has equivalent logic" (discovery.rs).
\* The copies read the same names to the same end, and the third agrees where no byte is a pointer.
CopiesAgree ==
    walker = "dns_name" /\ Over =>
        LET copy == Outcome("mdns_name", input, start)
            plain == Outcome("plain_name", input, start)
        IN  /\ copy.status = state.status
            /\ state.status = "done" => copy.out = state.out /\ copy.end = state.end
            /\ ((\A n \in DOMAIN input : ~IsPointer(input[n])) /\ state.out # <<>>)
                  => plain.status = state.status /\ plain.out = state.out

\* What a list reader tells is what the payload starts with, entry behind entry, and it stops only where
\* no whole entry follows (or at the mark that ends the list).
Encoded(w, e) ==
    CASE w = "av_pairs" -> <<e[1] % 256, e[1] \div 256, Len(e[2]), 0>> \o e[2]
      [] w = "cotp" -> <<e[1], Len(e[2])>> \o e[2]
      [] w = "lldp" -> <<e[1] * 2, Len(e[2])>> \o e[2]

IsEndMark(w, e) == w # "cotp" /\ e[1] = 0

ReadsBack ==
    walker \in Lists /\ state.status = "done" =>
        LET told == FlattenSeq([n \in DOMAIN state.out |-> Encoded(walker, state.out[n])])
            left == SubSeq(input, Len(told) + 1, Len(input))
            ids == IF walker = "lldp" THEN {b \div 2 : b \in ToSet(left)}
                   ELSE {b + c : b \in ToSet(left), c \in {0} \cup {256 * x : x \in ToSet(left)}}
        IN  /\ IsPrefix(told, input)
            /\ \A id \in ids, n \in 0..Len(left) :
                  LET header == Len(Encoded(walker, <<id, <<>>>>))
                      e == <<id, SubSeq(left, header + 1, header + n)>>
                  IN  header + n <= Len(left) /\ IsPrefix(Encoded(walker, e), left) => IsEndMark(walker, e)

\* A payload that was cut tells the first of what the whole payload tells, and nothing else.  Scanners
\* are left out: a cut can make them take a byte inside a value for a tag.
CutReadsLess ==
    walker \in Walking \ Scanners /\ state.status = "done" =>
        \A n \in start..(Len(input) - 1) :
            LET cut == Outcome(walker, SubSeq(input, 1, n), start)
            IN  cut.status = "done" =>
                    IF walker \in Names THEN cut.out = state.out /\ cut.end = state.end
                    ELSE IsPrefix(cut.out, state.out)

\* A payload that is a sequence of elements none of which holds a byte that looks like a field's tag: the
\* scanner finds the fields among the elements, up to the one that completes the set.
Tags == [goose |-> {134, 137, 138}, sv |-> {130, 133}]

Wanted == [goose |-> {137, 138}, sv |-> {130, 133}]

RECURSIVE Elements(_)
Elements(d) ==
    IF d = <<>> THEN {<<>>}
    ELSE IF Len(d) < 3 \/ d[2] = 0 \/ Len(d) < 2 + d[2] THEN {}
    ELSE {<<<<d[1], SubSeq(d, 3, 2 + d[2])>>>> \o rest : rest \in Elements(SubSeq(d, 3 + d[2], Len(d)))}

IsFieldOf(w, e) == <<e[1], Len(e[2])>> \in (IF w = "goose" THEN GooseFields ELSE SvFields)

UpToComplete(w, fields) ==
    LET TagsOf(n) == {fields[m][1] : m \in 1..n}
        complete == {n \in DOMAIN fields : Wanted[w] \subseteq TagsOf(n)}
    IN  IF complete = {} THEN fields
        ELSE SubSeq(fields, 1, CHOOSE n \in complete : \A m \in complete : n <= m)

ScanFindsElements ==
    walker \in Scanners /\ Over =>
        \A elements \in Elements(input) :
            (\A n \in DOMAIN elements : ToSet(elements[n][2]) \cap Tags[walker] = {})
            => state.out = UpToComplete(walker, SelectSeq(elements, LAMBDA e : IsFieldOf(walker, e)))

\* The packet with an extension header of one or two units put behind its IPv6 header.
Extended(d, units) ==
    SubSeq(d, 1, 6) \o <<60>> \o SubSeq(d, 8, 40) \o <<d[7], units>> \o [n \in 1..(6 + 8 * units) |-> 0]
        \o SubSeq(d, 41, Len(d))

\* extract_l4_payload looks through extension headers: one more, while the chain is below its limit, leaves
\* the ports and the payload as they are, and what has no payload without it has none with it.
LooksThroughExtensions ==
    walker = "l4" /\ Over /\ Len(input) >= 40 /\ input[1] \div 16 = 6 =>
        \A units \in 0..1 :
            LET longer == Outcome("l4", Extended(input, units), 0)
            IN  /\ longer.status = "done" => state.status = "done"
                /\ state.status = "done" /\ state.hops < ChainLimit - 1 =>
                      longer.status = "done" /\ longer.out = state.out /\ longer.at = state.at + 8 * (units + 1)

(***************************************************************************)
(* Properties of the capture reader.                                       *)
(***************************************************************************)
Sound(f, b) ==
    f.format = "pcapng" => ~b.big /\ b.size >= 12 /\ (b.type = "packet" => b.size >= 32 + b.captured)

\* How many blocks there are, from the first on, that are sound and wholly in the file.
WholeBlocks(f) ==
    CHOOSE n \in 0..Len(f.blocks) :
        /\ \A m \in 1..n : Sound(f, f.blocks[m]) /\ EndOf(f, m) <= f.len
        /\ n < Len(f.blocks) => ~Sound(f, f.blocks[n + 1]) \/ EndOf(f, n + 1) > f.len

Opens(f) ==
    CASE f.format = "pcapng" -> f.len >= 4
      [] f.format = "pcap" -> f.len >= 24 /\ f.version /\ f.link \in Capture!LinkTypes
      [] OTHER -> FALSE

\* However the reads are split, the packets of the whole blocks are handed on, in order and each once, and
\* the file is accepted only if it ends where a block ends: a capture that was cut inside a block, or whose
\* block claims more than it has, fails (read_pcapng_block, pcapng_packet_record, read_pcap_packet).
ReadsWholeBlocks ==
    walker = "capture" /\ Over =>
        LET n == WholeBlocks(input)
            packets == SelectSeq([m \in 1..n |-> m], LAMBDA m : input.blocks[m].type = "packet")
        IN  IF ~Opens(input) THEN state.status = "failed" /\ state.out = <<>>
            ELSE /\ [m \in DOMAIN state.out |-> state.out[m].block] = packets
                 /\ state.status = (IF EndOf(input, n) = input.len THEN "done" ELSE "failed")

\* A packet of a file with one section is decoded with the link type of the interface it names, as the
\* comment in read_capture_packets says ("interface_id indexes into this list"); a file with several
\* sections is left out, because the list is not started again with a section.
LinkAsDeclared ==
    walker = "capture" /\ input.format = "pcapng"
    /\ Len(SelectSeq(input.blocks, LAMBDA b : b.type = "section")) <= 1 =>
        \A n \in DOMAIN state.out :
            LET before == SubSeq(input.blocks, 1, state.out[n].block)
                declared == SelectSeq(before, LAMBDA b : b.type = "interface")
                named == Last(before).interface + 1
            IN  state.out[n].link = IF named \in DOMAIN declared /\ declared[named].link \in Capture!LinkTypes
                                    THEN declared[named].link ELSE "ethernet"

(***************************************************************************)
(* The properties taken together, loop by loop.                            *)
(***************************************************************************)
\* What the loops tell is what the payload says: both copies of a reader tell the same, the lists and
\* the scanners exactly the entries that are there, and from a cut payload the first of them; and the
\* headers between a packet and its payload do not change the payload.
ReadsAsWritten == CopiesAgree /\ ReadsBack /\ CutReadsLess /\ ScanFindsElements /\ LooksThroughExtensions

\* The packets of a capture are handed on whole, in order and with the link type of their interface.
PacketsAsWritten == ReadsWholeBlocks /\ LinkAsDeclared
=============================================================================
