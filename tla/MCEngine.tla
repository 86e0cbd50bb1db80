------------------------------ MODULE MCEngine ------------------------------
(***************************************************************************)
(* Engine for TLC: frames of two Modbus transactions in one session, one   *)
(* of them a write, a WinRM session over TLS, and frames without a session *)
(* that are claimed, unsupported or damaged.                               *)
(***************************************************************************)
EXTENDS Engine

CONSTANTS
    Names,          \* which of the frames below are captured
    Others          \* which are captured only in a first stream of few frames

Ethernet ==
    [link |-> "Ethernet", short |-> FALSE, type |-> IPv4, hidden |-> 0,
     smac |-> <<"m1">>, dmac |-> <<"m2">>, sip |-> <<"a">>, dip |-> <<"b">>,
     sport |-> 0, dport |-> 0, l3 |-> "ok", l4 |-> "ok", proto |-> 6,
     llc |-> <<0, 0>>, snap |-> <<>>, findings |-> <<>>, body |-> <<>>]

Request(tid, op) ==
    [Ethernet EXCEPT !.sport = 40000, !.dport = 502,
                     !.body = [ok |-> TRUE, tid |-> tid, op |-> op]]

Response(tid, op) ==
    [Ethernet EXCEPT !.sip = <<"b">>, !.dip = <<"a">>, !.sport = 502, !.dport = 40000,
                     !.body = [ok |-> TRUE, tid |-> tid, op |-> op]]

Captured ==
    [read |-> Request(1, "read"),
     read2 |-> [Request(1, "read") EXCEPT !.link = "LinuxSll"],
     answer |-> Response(1, "read"),
     write |-> Request(2, "write"),
     written |-> Response(2, "write"),
     ack |-> [Request(1, "read") EXCEPT !.body.ok = FALSE],
     https |-> [Ethernet EXCEPT !.sport = 40001, !.dport = 5986],
     wsman |-> [Ethernet EXCEPT !.sport = 40001, !.dport = 5985,
                    !.body = [http |-> TRUE, wsman |-> TRUE, op |-> "winrm_pull"]],
     arp |-> [Ethernet EXCEPT !.type = ARP, !.body = [yields |-> <<"asset">>],
                              !.findings = <<"padding">>],
     gre |-> [Ethernet EXCEPT !.proto = 47],
     vlan |-> [Ethernet EXCEPT !.type = 33024],
     prefixed |-> [Request(1, "read") EXCEPT !.type = 100, !.hidden = IPv4],
     icmp |-> [Ethernet EXCEPT !.proto = 1, !.body = [oddities |-> <<"redirect">>]],
     runt |-> [Ethernet EXCEPT !.short = TRUE],
     badip |-> [Ethernet EXCEPT !.l3 = "ihl"],
     llc |-> [Ethernet EXCEPT !.type = 60, !.llc = <<66, 66>>]]

MCFrame == {Captured[n] : n \in Names \cup Others}

MCStateless == {<<"EtherType", ARP>>, <<"EtherType", LLDP>>}

\* A capture with one of the other frames has one stream of MaxOthers frames.
MaxOthers == 2

NextFrame ==
    IF Len(log) < MaxOthers /\ stream.no = 1 THEN MCFrame
    ELSE IF \E i \in 1 .. Len(log) : log[i].frame \in {Captured[n] : n \in Others} THEN {}
    ELSE {Captured[n] : n \in Names}

MCNext ==
    \/ \E now \in WallClock : Open(now)
    \/ \E f \in NextFrame, ts \in Time : Push(f, ts)
    \/ \E keys \in Orders(Expired(modbus, stream.last)) :
            Finish(keys) \/ FinishRefused(keys)
    \/ Abandon

MCSpec == Init /\ [][MCNext]_vars

=============================================================================
