----------------------------- MODULE MCParsing ------------------------------
(***************************************************************************)
(* Small inputs: for each walker, all payloads up to a length over the few *)
(* bytes its loop tells apart; capture files of up to four blocks that end *)
(* anywhere in their last block.  A behaviour runs one loop to its end, or *)
(* hands one decoder one frame; what it does not run stays at the end of a *)
(* run of its own.                                                         *)
(***************************************************************************)
EXTENDS Parsing, MCMessages

UpTo(bytes, n) == UNION {[1..m -> bytes] : m \in 0..n}

\* Two fields in each order, with a value that holds a tag or not, and a cut.
SvPairs ==
    {SubSeq(d, 1, n) : n \in 5..7,
                       d \in {<<130, 2, v, 1, 133, 1, 1>> : v \in {1, 133}} \cup {<<133, 1, 1, 130, 2, v, 1>> : v \in {1, 133}}}

VarBinds ==
    {<<48, n, 6, m, a>> \o rest : n \in {5, 6, 129}, m \in {0, 1, 2}, a \in {1, 129},
                                  rest \in UpTo({2, 1, 64}, 3) \cup {<<5, 0, 48, 1, 6>>, <<5, 0, 48, 5, 6, 1, 1, 5, 0>>}}
    \cup {<<48, 11, 6, 7, 1, b, c, 128, 128, 128, 128, 5, 0>> : b, c \in {129, 144}}
    \cup UpTo({48, 2, 6}, 3) \cup {<<48, 132, 0, 0, 0, 5, 6, 1, 1, 5, 0>>, <<48, 133, 0, 0, 0, 0, 5>>}

Zeros(n) == [k \in 1..n |-> 0]

\* The ports 1 and 2; a TCP header of four times this many bytes.
Segment(words, payload) == <<0, 1, 0, 2>> \o Zeros(8) \o <<16 * words>> \o Zeros(7) \o Zeros(payload)

V4(words, fragment, proto, rest) == <<64 + words, 0, 0, 0, 0, 0>> \o fragment \o <<0, proto>> \o Zeros(10) \o rest

\* A chain of extension headers of one or two units, the last of which names a protocol.
V6(chain, proto, rest) ==
    LET names == Append([n \in DOMAIN chain |-> chain[n][1]], proto)
        headers == [n \in DOMAIN chain |-> <<names[n + 1], chain[n][2]>> \o Zeros(6 + 8 * chain[n][2])]
    IN  <<96, 0, 0, 0, 0, 0, names[1]>> \o Zeros(33) \o FoldLeft(LAMBDA d, h : d \o h, <<>>, headers) \o rest

Short == UNION {[1..n -> {<<0, 0>>, <<43, 1>>, <<60, 0>>, <<44, 0>>}] : n \in 0..2}

Long == {[k \in 1..n |-> <<60, 0>>] : n \in 6..9}

IpPackets ==
    {<<>>, <<80>>}
    \cup {V4(w, f, p, Segment(5, 1)) : w \in {4, 5, 6}, f \in {<<0, 0>>, <<32, 0>>, <<0, 1>>}, p \in {1, 6, 17}}
    \cup {V4(5, <<0, 0>>, 6, Segment(w, 4)) : w \in 4..7}
    \cup {V6(c, p, Segment(5, 1)) : c \in Short \cup Long, p \in {6, 17, 50, 58}}

\* Whole, or cut at or beside the end of a header.
CutPackets ==
    IpPackets \cup UNION {{SubSeq(d, 1, n) : n \in {1, 19, 20, 27, 39, 40, 41, 47, 48, 55, 60, 64, 75} \cap 1..Len(d)} :
                            d \in IpPackets}

MCPayloads ==
    [w \in Walking |->
        CASE w \in Names -> UpTo({0, 1, 2, 192, 255}, 4) \cup [1..5 -> {0, 1, 4, 192}]
          [] w = "txt" -> UpTo({0, 1, 2, 193}, 5)
          [] w = "av_pairs" -> UpTo({0, 1}, 9)
          [] w = "cotp" -> UpTo({0, 1, 2, 193}, 5)
          [] w = "dhcp" -> UpTo({0, 1, 2, 255}, 5)
          [] w = "lldp" -> UpTo({0, 1, 2, 3}, 5)
          [] w = "dnp3" -> UpTo({0, 1, 32, 96}, 3) \cup UpTo({1, 32}, 9)
          [] w = "snmp" -> VarBinds
          [] w = "goose" -> UpTo({1, 134, 137, 138}, 6)
          [] w = "sv" -> UpTo({1, 2, 130, 133}, 4) \cup SvPairs
          [] w = "l4" -> CutPackets
          [] w = "mms" -> UpTo({0, 1, 2, 5}, 5)]

MCOffsets == [w \in Walking |-> IF w \in Names \ {"plain_name"} THEN 0..2 ELSE {0}]

Block(type, size, captured, interface, link) ==
    [type |-> type, size |-> size, captured |-> captured, interface |-> interface, link |-> link, big |-> FALSE]

Section == Block("section", 28, 0, 0, "none")

BigSection == [Section EXCEPT !.big = TRUE]

Interface(link) == Block("interface", 20, 0, 0, link)

Packet(size, captured, interface) == Block("packet", size, captured, interface, "none")

Kinds ==
    {Section, BigSection, Interface("ethernet"), Interface("raw_ip"), Interface("unknown"),
     Packet(36, 4, 0), Packet(36, 3, 1), Packet(36, 5, 0), Packet(32, 0, 1), Packet(28, 0, 0),
     Block("other", 12, 0, 0, "none"), Block("other", 11, 0, 0, "none")}

\* A file of these blocks that ends anywhere in the last of them.
Cuts(format, version, link, blocks, from, to) ==
    {[format |-> format, version |-> version, link |-> link, blocks |-> blocks, len |-> n] : n \in from..to}

SizeOf(blocks) == FoldLeft(LAMBDA sum, b : sum + b.size, 0, blocks)

PcapngBlocks ==
    {<<Section>>} \cup {<<Section, a>> : a \in Kinds} \cup {<<Section, Interface("raw_ip"), a>> : a \in Kinds}
    \cup {<<Section, Interface("raw_ip"), Packet(36, 4, 0), a>> : a \in Kinds}
    \cup {<<Section, Interface("ethernet"), Interface("raw_ip"), Packet(36, 3, 1)>>, <<Section, Interface("unknown"), Packet(36, 4, 0)>>}

PcapBlocks == {<<>>} \cup {<<Packet(0, n, 0)>> : n \in 0..2} \cup {<<Packet(0, n, 0), Packet(0, 1, 0)>> : n \in 0..2}

MCCaptures ==
    UNION ({Cuts("pcapng", TRUE, "none", bs, SizeOf(Front(bs)), SizeOf(bs)) : bs \in PcapngBlocks}
           \cup {Cuts("pcap", v, l, bs, 0, 24 + FoldLeft(LAMBDA sum, b : sum + 16 + b.captured, 0, bs)) :
                    v \in BOOLEAN, l \in {"raw_ip", "unknown"}, bs \in PcapBlocks}
           \cup {Cuts("other", TRUE, "none", <<>>, 0, 5)})

-----------------------------------------------------------------------------
\* The loop has read an empty name.
LoopOver ==
    /\ walker = "plain_name"
    /\ input = <<>>
    /\ start = 0
    /\ state = Outcome(walker, input, start)

\* The call has a whole frame and all of its padding.
CallOver ==
    /\ decoder = "stp"
    /\ frame = CHOOSE f \in Traffic[decoder] : f.sound
    /\ shown = frame.len + Padding
    /\ out = Decode(decoder, Captured(frame, shown))

MCInit == (Init /\ CallOver) \/ (InitCall /\ LoopOver)

MCNext == (Turn /\ UNCHANGED callVars) \/ (Show /\ UNCHANGED vars)

MCSpec == MCInit /\ [][MCNext]_<<vars, callVars>> /\ WF_vars(Turn)
=============================================================================
