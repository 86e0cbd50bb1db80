---------------------------- MODULE MCBilgepump -----------------------------
(* Inputs for model-checking Bilgepump.                                    *)
EXTENDS Bilgepump, TLC

AMac == CHOOSE m \in Mac : TRUE

\* Gratuitous frames, and frames sent for another host (proxy ARP).
ArpTraffic ==
    {[src |-> m, mac |-> o, ip |-> i,
      kind |-> IF m = o THEN "gratuitous" ELSE "other"] :
        m, o \in Mac, i \in Ip}

Lease(m, i) ==
    [kind |-> "ack", src |-> m, client |-> m, server |-> None, ip |-> i]

\* Leases, one of them without an address, and the other messages.
DhcpTraffic ==
    {Lease(AMac, i) : i \in Ip \cup {None}} \cup
    {[kind |-> k, src |-> AMac, client |-> AMac, server |-> s, ip |-> None] :
        k \in {"client", "offer"}, s \in Server}

LldpTraffic == [mac : {AMac}, id : Identity]

CdpTraffic == [mac : {AMac}, id : Identity \cup {NoName}]

AllChecks == Check

\* One pair is known-good.
BlessedPair == {CHOOSE p \in Mac \X Ip : TRUE}

=============================================================================
