------------------------------ MODULE Decoders ------------------------------
(***************************************************************************)
(* The decoders that remember something of the traffic (requests that      *)
(* wait, sessions, known endpoints, half a handshake, counters,            *)
(* definitions), each on its own: any sequence of chunks of several        *)
(* sessions, with idle flushes in between.  "log" is the history: each     *)
(* call, what it pushed, and the tables before it.                         *)
(***************************************************************************)
EXTENDS Decoding

CONSTANTS AdsPendingCap, AdsMaxDataLen, MaxPending, MaxFileNames, BannerLen, WordLen,
          ReportEvery, SeqModulus, TemplateCap, ReadsCap,
          Chunks,       \* for each decoder under study, the chunks it may be given
          FlushTimes,   \* the times an idle flush may carry
          MaxSteps      \* for each decoder, the bound on the length of a history

ASSUME DecodersAssumption ==
    /\ {AdsPendingCap, MaxPending, MaxFileNames, BannerLen, WordLen, ReportEvery, SeqModulus, TemplateCap, ReadsCap}
          \subseteq Nat \ {0}
    /\ AdsMaxDataLen \in Nat
    /\ MaxSteps \in [DOMAIN Chunks -> Nat]

VARIABLES decoder, state, log

vars == <<decoder, state, log>>

OtPairing == INSTANCE OtPairing
ItPairing == INSTANCE ItPairing
ItSessions == INSTANCE ItSessions
OtSessions == INSTANCE OtSessions
Definitions == INSTANCE Definitions

New(d) ==
    CASE d = "ads" -> OtPairing!AdsNew
      [] d = "melsec" -> OtPairing!MelsecNew
      [] d = "umas" -> OtPairing!UmasNew
      [] d = "roc_plus" -> OtPairing!RocPlusNew
      [] d = "ge_srtp" -> OtPairing!GeSrtpNew
      [] d = "modbus_udp" -> OtPairing!ModbusUdpNew
      [] d = "dcerpc" -> ItPairing!DceRpcNew
      [] d = "diameter" -> ItPairing!DiameterNew
      [] d = "smb2" -> ItPairing!Smb2New
      [] d = "ldap" -> ItPairing!LdapNew
      [] d = "rdp" -> ItSessions!RdpNew
      [] d = "vnc" -> ItSessions!VncNew
      [] d = "smtp" -> ItSessions!SmtpNew
      [] d = "openvpn" -> ItSessions!OpenVpnNew
      [] d = "quic" -> ItSessions!QuicNew
      [] d = "ike" -> ItSessions!IkeNew
      [] d = "wireguard" -> ItSessions!WireGuardNew
      [] d = "radsec" -> ItSessions!RadSecNew
      [] d = "coap" -> ItSessions!CoapNew
      [] d = "amqp" -> ItSessions!AmqpNew
      [] d = "bacnet_sc" -> OtSessions!BacnetScNew
      [] d = "kerberos" -> ItSessions!KerberosNew
      [] d = "opc_ua_pubsub" -> OtSessions!PubSubNew
      [] d = "cip_safety" -> OtSessions!CipSafetyNew
      [] d = "ff_hse" -> OtSessions!FfHseNew
      [] d = "osi_pi" -> OtSessions!OsiPiNew
      [] d = "vnet_ip" -> OtSessions!VnetIpNew
      [] d = "sip_rtp" -> ItSessions!SipRtpNew
      [] d = "avtp" -> OtSessions!AvtpNew
      [] d = "sercos" -> OtSessions!SercosNew
      [] d = "eip_io" -> OtSessions!EipIoNew
      [] d = "ptp" -> OtSessions!PtpNew
      [] d = "netflow" -> Definitions!NetFlowNew
      [] d = "synchrophasor" -> Definitions!SynchrophasorNew
      [] d = "opc_ua" -> Definitions!OpcUaNew
      [] d = "ethernet_ip" -> Definitions!EthernetIpNew

OnChunk(d, s, c) ==
    CASE d = "ads" -> OtPairing!AdsOnStreamChunk(s, c)
      [] d = "melsec" -> OtPairing!MelsecOnStreamChunk(s, c)
      [] d = "umas" -> OtPairing!UmasOnStreamChunk(s, c)
      [] d = "roc_plus" -> OtPairing!RocPlusOnStreamChunk(s, c)
      [] d = "ge_srtp" -> OtPairing!GeSrtpOnStreamChunk(s, c)
      [] d = "modbus_udp" -> OtPairing!OnDatagram(s, c)
      [] d = "dcerpc" -> ItPairing!DceRpcOnStreamChunk(s, c)
      [] d = "diameter" -> ItPairing!DiameterOnStreamChunk(s, c)
      [] d = "smb2" -> ItPairing!Smb2OnStreamChunk(s, c)
      [] d = "ldap" -> ItPairing!LdapOnStreamChunk(s, c)
      [] d = "rdp" -> ItSessions!RdpOnStreamChunk(s, c)
      [] d = "vnc" -> ItSessions!VncOnStreamChunk(s, c)
      [] d = "smtp" -> ItSessions!SmtpOnStreamChunk(s, c)
      [] d = "openvpn" -> ItSessions!OpenVpnOnStreamChunk(s, c)
      [] d = "quic" -> ItSessions!QuicOnDatagram(s, c)
      [] d = "ike" -> ItSessions!IkeOnDatagram(s, c)
      [] d = "wireguard" -> ItSessions!WireGuardOnDatagram(s, c)
      [] d = "radsec" -> ItSessions!RadSecOnStreamChunk(s, c)
      [] d = "coap" -> ItSessions!CoapOnDatagram(s, c)
      [] d = "amqp" -> ItSessions!AmqpOnStreamChunk(s, c)
      [] d = "bacnet_sc" -> OtSessions!BacnetScOnStreamChunk(s, c)
      [] d = "kerberos" -> IF c.udp THEN ItSessions!KerberosOnDatagram(s, c) ELSE ItSessions!KerberosOnStreamChunk(s, c)
      [] d = "opc_ua_pubsub" -> OtSessions!PubSubOnDatagram(s, c)
      [] d = "cip_safety" -> OtSessions!CipSafetyOnStreamChunk(s, c)
      [] d = "ff_hse" -> OtSessions!Handle(s, c)
      [] d = "osi_pi" -> OtSessions!OsiPiOnStreamChunk(s, c)
      [] d = "vnet_ip" -> OtSessions!VnetIpOnDatagram(s, c)
      [] d = "sip_rtp" -> ItSessions!SipRtpOnDatagram(s, c)
      [] d = "avtp" -> OtSessions!AvtpOnDatagram(s, c)
      [] d = "sercos" -> OtSessions!SercosOnDatagram(s, c)
      [] d = "eip_io" -> OtSessions!EipIoOnDatagram(s, c)
      [] d = "ptp" -> OtSessions!PtpOnDatagram(s, c)
      [] d = "netflow" -> Definitions!OnDatagram(s, c)
      [] d = "synchrophasor" -> Definitions!Handle(s, c)
      [] d = "opc_ua" -> Definitions!OpcUaOnStreamChunk(s, c)
      [] d = "ethernet_ip" -> Definitions!EthernetIpOnStreamChunk(s, c)

\* A decoder without an idle flush of its own has the trait's, which does nothing.
OnIdleFlush(d, s, ts) ==
    CASE d = "ads" -> OtPairing!AdsOnIdleFlush(s, ts)
      [] d = "melsec" -> OtPairing!MelsecOnIdleFlush(s, ts)
      [] d = "umas" -> OtPairing!UmasOnIdleFlush(s, ts)
      [] d = "roc_plus" -> OtPairing!RocPlusOnIdleFlush(s, ts)
      [] d = "ge_srtp" -> OtPairing!GeSrtpOnIdleFlush(s, ts)
      [] d = "modbus_udp" -> OtPairing!ModbusUdpOnIdleFlush(s, ts)
      [] d = "dcerpc" -> ItPairing!OnIdleFlush(s, ts)
      [] d = "netflow" -> Definitions!OnIdleFlush(s)
      [] OTHER -> {To(s, <<>>)}

-----------------------------------------------------------------------------
Init == decoder \in DOMAIN Chunks /\ state = New(decoder) /\ log = <<>>

Record(in, r) ==
    /\ state' = r.state
    /\ log' = Append(log, [in |-> in, out |-> r.out, before |-> state])
    /\ UNCHANGED decoder

\* One chunk or datagram; its frame number is its place in the history.
Chunk(f) ==
    LET c == [no |-> Len(log) + 1, flush |-> FALSE] @@ f
    IN  \E r \in OnChunk(decoder, state, c) : Record(c, r)

\* The engine flushes when a segment ends; the decoder lives on.
IdleFlush(ts) ==
    \E r \in OnIdleFlush(decoder, state, ts) : Record([no |-> Len(log) + 1, flush |-> TRUE, ts |-> ts], r)

Next ==
    /\ Len(log) < MaxSteps[decoder]
    /\ \/ \E f \in Chunks[decoder] : Chunk(f)
       \/ \E ts \in FlushTimes : IdleFlush(ts)

Spec == Init /\ [][Next]_vars

-----------------------------------------------------------------------------
Steps == DOMAIN log

\* The tables after step j.
After(j) == IF j = Len(log) THEN state ELSE log[j + 1].before

\* All events of the history, in order, each with the step that pushed it.
Pushed ==
    FlattenSeq([j \in Steps |-> [p \in DOMAIN log[j].out |-> [step |-> j, event |-> log[j].out[p]]]])

Of(family) == SelectSeq(Pushed, LAMBDA x : x.event.family = family)

\* The chunks of the history, all of them or those of one session.
AllSteps == SelectSeq([n \in Steps |-> n], LAMBDA n : ~log[n].in.flush)

StepsOf(k) == SelectSeq(AllSteps, LAMBDA n : log[n].in.session = k)

Payloads(steps) == FlattenSeq([n \in DOMAIN steps |-> log[steps[n]].in.payload])

Whats(events) == [n \in DOMAIN events |-> events[n].what]

\* The transactions of some steps, and of one call with all their payloads in one chunk.
ToldBy(steps) ==
    Whats(SelectSeq(FlattenSeq([n \in DOMAIN steps |-> log[steps[n]].out]),
                    LAMBDA e : e.family = "protocol_transaction"))

AtOnce(steps) ==
    LET c == [log[steps[1]].in EXCEPT !.payload = Payloads(steps)]
        r == CHOOSE r \in OnChunk(decoder, New(decoder), c) : TRUE
    IN  Whats(SelectSeq(r.out, LAMBDA e : e.family = "protocol_transaction"))

Sessions == {log[n].in.session : n \in ToSet(AllSteps)}

\* An RDP frame without a code leaves the frames behind it for the next chunk.
Codeless(steps) ==
    decoder = "rdp" /\ \E n \in ToSet(steps) : \E u \in ToSet(log[n].in.payload) : u.code = "none"

\* Cutting a stream into chunks changes nothing.  What the SMB2 decoder still buffers of a
\* session is what framing its whole stream at once would leave over, and a session's OpenVPN
\* packets are those of its whole stream, whatever other sessions send in between.  Of ADS, RDP
\* and VNC, whose decoders keep one buffer, the same is said of a capture of one session.
ChunkingIsInvisible ==
    /\ decoder = "smb2" =>
        \A k \in DOMAIN state.buffers : state.buffers[k] = Remainder(Payloads(StepsOf(k)), 1)
    /\ decoder = "openvpn" =>
        \A k \in Sessions : (\A n \in ToSet(StepsOf(k)) : ~log[n].in.udp) => ToldBy(StepsOf(k)) = AtOnce(StepsOf(k))
    /\ Cardinality(Sessions) = 1 =>
        /\ decoder = "ads" => state.buf = Remainder(Payloads(AllSteps), OtPairing!AdsMinFrame)
        /\ decoder \in {"rdp", "vnc"} /\ ~Codeless(AllSteps) => ToldBy(AllSteps) = AtOnce(AllSteps)

-----------------------------------------------------------------------------
(* What the documentation says and the code does not do.                   *)

\* CONTRIBUTING-DECODERS.md: "buffer per-session bytes and extract complete PDUs before
\* parsing".  What the RDP and the VNC decoder tell of a session is what its own bytes spell,
\* and ADS holds no bytes back when each session's own bytes are whole frames.
SessionsBuffered ==
    /\ decoder \in {"rdp", "vnc"} =>
        \A k \in Sessions : ~Codeless(StepsOf(k)) => ToldBy(StepsOf(k)) = AtOnce(StepsOf(k))
    /\ /\ decoder = "ads"
       /\ \A k \in Sessions : Remainder(Payloads(StepsOf(k)), OtPairing!AdsMinFrame) = <<>>
       => state.buf = <<>>
=============================================================================
