------------------------------- MODULE Loops --------------------------------
(***************************************************************************)
(* The loops over bytes and blocks that take their steps from the input    *)
(* itself, each run on every input of a set, one turn of the loop at a     *)
(* time, and what keeps them inside their input.  The loops are sequential *)
(* code that nothing else waits for or holds up, so a loop that can take a *)
(* turn takes it: Turn is weakly fair.                                     *)
(***************************************************************************)
EXTENDS Walkers

Capture == INSTANCE CaptureFile

CONSTANTS
    Payloads,   \* for each walker the set of its inputs
    Offsets,    \* for each walker the offsets it may start at
    Captures    \* the capture files

VARIABLES
    walker,     \* which loop runs
    input,      \* the payload, or the file
    start,      \* the offset it starts at
    state

vars == <<walker, input, start, state>>

Names == {"dns_name", "mdns_name", "plain_name"}

\* Lists whose entries follow one another from the start on.
Lists == {"av_pairs", "cotp", "lldp"}

Scanners == {"goose", "sv"}

Walking == Names \cup Lists \cup Scanners \cup {"txt", "dhcp", "dnp3", "snmp", "mms", "l4"}

WalkerStep(w, d, s) ==
    CASE w = "dns_name" -> DnsName(d, s)
      [] w = "mdns_name" -> MdnsName(d, s)
      [] w = "plain_name" -> PlainName(d, s)
      [] w = "txt" -> TxtEntry(d, s)
      [] w = "av_pairs" -> AvPair(d, s)
      [] w = "cotp" -> CotpParameter(d, s)
      [] w = "dnp3" -> ObjectHeader(d, s)
      [] w = "dhcp" -> DhcpOption(d, s)
      [] w = "lldp" -> LldpTlv(d, s)
      [] w = "snmp" -> VarBind(d, s)
      [] w = "goose" -> GooseField(d, s)
      [] w = "sv" -> SvField(d, s)
      [] w = "mms" -> InvokeId(d, s)
      [] w = "l4" -> ExtractL4Payload(d, s)

InitWalk ==
    /\ walker \in Walking
    /\ input \in Payloads[walker]
    /\ start \in Offsets[walker]
    /\ state = Start(start)

InitCapture ==
    /\ walker = "capture"
    /\ input \in Captures
    /\ start = 0
    /\ state = Capture!Start

Init == InitWalk \/ InitCapture

Walk ==
    /\ walker \in Walking
    /\ state.status = "reading"
    /\ state' = WalkerStep(walker, input, state)
    /\ UNCHANGED <<walker, input, start>>

ReadCapture ==
    /\ walker = "capture"
    /\ state.status = "reading"
    /\ state' \in Capture!Turns(input, state)
    /\ UNCHANGED <<walker, input, start>>

Turn == Walk \/ ReadCapture

Spec == Init /\ [][Turn]_vars /\ WF_vars(Turn)

(***************************************************************************)
(* The inputs.                                                             *)
(***************************************************************************)
Width(f, b) == IF f.format = "pcapng" THEN b.size ELSE 16 + b.captured

\* Where each block ends.
Ends(f) ==
    LET E[n \in 0..Len(f.blocks)] ==
            IF n = 0 THEN IF f.format = "pcap" THEN 24 ELSE 0 ELSE E[n - 1] + Width(f, f.blocks[n])
    IN  E
EndOf(f, n) == Ends(f)[n]

\* Payloads are bytes, and a packet is read from its start on.  A file holds blocks and nothing else.
ASSUME InputsAssumption ==
    /\ \A w \in Walking : Payloads[w] \subseteq Seq(0..255) /\ Offsets[w] \subseteq Nat
    /\ Offsets["l4"] \subseteq {0}
    /\ \A f \in Captures :
         /\ f.len \in Nat /\ Len(f.blocks) \in Nat
         /\ \A n \in 1..Len(f.blocks) : f.blocks[n].size \in Nat /\ f.blocks[n].captured \in Nat
         /\ f.format \in {"pcap", "pcapng"} => f.len <= EndOf(f, Len(f.blocks))

(***************************************************************************)
(* Properties.                                                             *)
(***************************************************************************)
\* The cursors stay numbers that are not negative and the loops in one of three conditions.
TypeOK ==
    /\ walker \in Walking \cup {"capture"}
    /\ state.status \in {"reading", "done", "failed"}
    /\ state.at \in Nat
    /\ walker \in Walking => state.need \in Nat /\ state.hops \in Nat
    /\ walker \in {"dns_name", "mdns_name"} => state.hops <= HopLimit + 1
    /\ walker = "l4" => state.hops <= ChainLimit
    /\ walker = "capture" => /\ state.got \in 0..15
                             /\ \A n \in DOMAIN state.out : state.out[n].link \in Capture!LinkTypes

\* No loop indexes or slices beyond the payload, whatever lengths and pointers the payload gives
\* (a read beyond it would stop the program: Rust checks every index).
ReadsInside == walker \in Walking => state.need <= Len(input)

\* Every loop ends: no length of zero and no pointer to an earlier name keeps it going.
Terminates == <>(state.status # "reading")

\* The caller goes on behind what was read: the end that parse_dns_name tells is behind the start and inside
\* the message, also when the name continued at a pointer, and the payload that extract_l4_payload finds
\* starts inside the packet.
EndsInside ==
    /\ walker \in {"dns_name", "mdns_name"} /\ state.status = "done" => state.end \in (start + 1)..Len(input)
    /\ walker = "l4" /\ state.status = "done" => state.at \in 28..Len(input)

\* The loops stay inside their input, and the offset their caller goes on from is inside it too.
StaysInside == TypeOK /\ ReadsInside /\ EndsInside
=============================================================================
