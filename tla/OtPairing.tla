------------------------------- MODULE OtPairing -------------------------------
(*****************************************************************************)
(* The OT decoders that park a request until its response comes: ADS,        *)
(* MELSEC, UMAS, ROC Plus, GE-SRTP and Modbus over UDP. Each has its tables  *)
(* (New), one operator per handler, and the caps and flushes of its own.     *)
(*****************************************************************************)
EXTENDS Decoding

CONSTANTS AdsPendingCap,   \* ADS_PENDING_CAP
          AdsMaxDataLen,   \* ADS_MAX_DATA_LEN
          MaxPending       \* MAX_PENDING

-----------------------------------------------------------------------------
(***************************************************************************)
(* The Beckhoff ADS/AMS decoder: one reassembly buffer for every stream,   *)
(* requests parked until the response with their invoke id.                *)
(* A unit is half of the smallest frame, ADS_MIN_FRAME; a frame of one     *)
(* unit is shorter than its own header.                                    *)
(***************************************************************************)

AdsNew == [buf |-> <<>>, pending |-> <<>>, seen_netids |-> {}]

AdsMinFrame == 2

KnownCommands == 1..9

\* cmd_operation: one label for every command id outside the table.
AdsOperation(cmd) == IF cmd \in KnownCommands THEN cmd ELSE Unknown

UnpairedTx(c, operation, status) == Transaction(c, operation, status)

\* A response takes its request out; the error code of the response is the status.
AdsResponse(s, c, h, out) ==
    LET key == <<c.session, h.target, h.invoke>>
        req == s.pending[key]
    IN  IF key \in DOMAIN s.pending
        THEN To([s EXCEPT !.pending = Without(@, {key})],
                out \o UnpairedTx(req, req.op, IF h.error THEN "ads_error" ELSE "ok"))
        ELSE To(s, out \o UnpairedTx(c, AdsOperation(h.cmd), "response_only"))

\* A full table first gives up whichever entry the map lists first.
Evictions(s) ==
    IF Cardinality(DOMAIN s.pending) >= AdsPendingCap THEN {{k} : k \in DOMAIN s.pending} ELSE {{}}

Request(s, c, h, out) ==
    LET key == <<c.session, h.source, h.invoke>>
    IN  {To([s EXCEPT !.pending = Insert(Without(@, E), key, [no |-> c.no, op |-> AdsOperation(h.cmd)])], out) :
            E \in Evictions(s)}

Process(s, c, h) ==
    LET odd == If(h.reserved, Anomaly(c, "medium"))
        out == odd \o If(h.cmd \notin KnownCommands, Anomaly(c, "low"))
                   \o If(h.source \notin s.seen_netids, Asset(c, h.source))
        t == [s EXCEPT !.seen_netids = @ \cup {h.source}]
    IN  IF h.size < AdsMinFrame THEN {To(s, odd \o Anomaly(c, "medium"))}
        ELSE IF h.data_len > AdsMaxDataLen THEN {To(s, odd \o Anomaly(c, "high"))}
        ELSE IF h.response THEN {AdsResponse(t, c, h, out)}
        ELSE Request(t, c, h, out)

AdsOnStreamChunk(s, c) ==
    LET buf == s.buf \o c.payload
    IN  Through(LAMBDA t, h : Process(t, c, h),
                [s EXCEPT !.buf = Remainder(buf, AdsMinFrame)], Frames(buf, AdsMinFrame))

AdsOnIdleFlush(s, ts) ==
    {To([s EXCEPT !.pending = <<>>], out) : out \in Drained(s.pending, DOMAIN s.pending, "request_only")}

-----------------------------------------------------------------------------
(***************************************************************************)
(* The Mitsubishi SLMP decoder: one frame per chunk, requests parked by    *)
(* session and serial number.                                              *)
(***************************************************************************)

MelsecNew == [pending |-> <<>>, observed_assets |-> {}]

MinFrameLen == 13

ReadCpuModel == 257

\* slmp_operation_name: the batch commands are known with a subcommand of words or bits.
MelsecKnown(cmd, sub) ==
    \/ cmd \in {1025, 5121} /\ sub \in {1, 3}
    \/ cmd \in {1027, 5122, 1052, 5148, 6160, 6161, 6162, 6163, 6164, ReadCpuModel}

MelsecOperation(cmd, sub) == IF MelsecKnown(cmd, sub) THEN cmd ELSE Unknown

\* The label of a response whose command is not known: it does not carry one.
SlmpResponse == -2

PendingKey(c) == <<c.session, c.serial>>

HandleRequest(s, c) ==
    IF c.len < MinFrameLen + 6 THEN To(s, Anomaly(c, "medium"))
    ELSE To([s EXCEPT !.pending = Insert(@, PendingKey(c),
                [no |-> c.no, op |-> MelsecOperation(c.cmd, c.sub), cmd |-> c.cmd, last_seen |-> c.ts])],
            If(~MelsecKnown(c.cmd, c.sub), Anomaly(c, "low")))

\* The model is reported with the request's envelope, under the address the response came from.
Paired(s, c, req) ==
    LET names == req.cmd = ReadCpuModel /\ c.end_code = 0
    IN  To([s EXCEPT !.pending = Without(@, {PendingKey(c)}),
                     !.observed_assets = IF names THEN @ \cup {c.src} ELSE @],
           Transaction(req, req.op, IF c.end_code = 0 THEN "ok" ELSE "slmp_error")
           \o If(names /\ c.src \notin s.observed_assets, Asset(req, c.src)))

HandleResponse(s, c) ==
    IF c.len < MinFrameLen + 2 THEN To(s, Anomaly(c, "medium"))
    ELSE IF PendingKey(c) \in DOMAIN s.pending THEN Paired(s, c, s.pending[PendingKey(c)])
    ELSE To(s, Transaction(c, SlmpResponse, "response_only"))

MelsecOnStreamChunk(s, c) ==
    {IF c.len < MinFrameLen THEN To(s, <<>>)
     ELSE CASE c.subheader = "request" -> HandleRequest(s, c)
            [] c.subheader = "response" -> HandleResponse(s, c)
            [] OTHER -> To(s, Anomaly(c, "medium"))}

\* Only a request dated a whole second or more after the flush stays.
MelsecOnIdleFlush(s, ts) ==
    LET expired == {k \in DOMAIN s.pending : NumSeconds(ts - s.pending[k].last_seen) >= 0}
    IN  {To([s EXCEPT !.pending = Without(@, expired)], out) :
            out \in Drained(s.pending, expired, "request_only")}

-----------------------------------------------------------------------------
(***************************************************************************)
(* The Schneider UMAS decoder, on the port it shares with Modbus.          *)
(***************************************************************************)

UmasNew == [pending |-> <<>>]

TakeReservation == 17

Downloads == {41, 42, 43}

StartStop == {64, 65}

AuthRequest == 253

\* is_known_subfn
UmasKnown == (1..4) \cup {6} \cup (16..19) \cup (32..43) \cup {64, 65, 80, 88, 112, 113, 115, 253, 254}

UmasOperation(subfn) == IF subfn \in UmasKnown THEN subfn ELSE Unknown

\* emit_tx
EmitTx(c, operation, status) == Transaction(c, operation, status)

Skipped(c) == c.len < 10 \/ c.protocol_id # 0 \/ c.fc \notin {90, 218}

Warning(c) ==
    IF c.subfn \in StartStop \cup Downloads THEN Anomaly(c, "high")
    ELSE IF c.subfn = AuthRequest THEN Anomaly(c, "medium")
    ELSE If(c.subfn \notin UmasKnown, Anomaly(c, "low"))

UmasPark(s, c) ==
    To([s EXCEPT !.pending = Insert(@, <<c.session, c.pair_id>>, [no |-> c.no, op |-> UmasOperation(c.subfn)])],
       Warning(c) \o If(c.subfn = TakeReservation, Asset(c, c.src) \o Asset(c, c.dst)))

\* A response nobody waits for is reported with the same status as a paired one.
Answer(s, c) ==
    LET key == <<c.session, c.pair_id>>
        status == IF c.fc = 218 THEN "umas_exception" ELSE "ok"
    IN  IF key \in DOMAIN s.pending
        THEN To([s EXCEPT !.pending = Without(@, {key})], EmitTx(s.pending[key], s.pending[key].op, status))
        ELSE To(s, EmitTx(c, UmasOperation(c.subfn), status))

IsRequest(c) == c.dport = 502 /\ c.sport # 502

UmasOnStreamChunk(s, c) ==
    {IF Skipped(c) THEN To(s, <<>>)
     ELSE IF IsRequest(c) /\ c.fc = 90 THEN UmasPark(s, c)
     ELSE Answer(s, c)}

UmasOnIdleFlush(s, ts) ==
    {To(UmasNew, out) : out \in Drained(s.pending, DOMAIN s.pending, "request_only")}

-----------------------------------------------------------------------------
(***************************************************************************)
(* The Emerson ROC Plus decoder.  Nothing in a frame tells a request from  *)
(* a response: a frame answers a parked one with its addresses swapped and *)
(* its opcode, and is parked, and reported at once, when there is none.    *)
(***************************************************************************)

RocPlusNew == [pending |-> <<>>]

RocPlusMinFrame == 8

Login == 17

RocPlusKnown == {0, 6, 7, 10, 11, 17, 18, 50, 105, 108, 118, 119, 121, 122, 126, 128, 137, 138}

Control == {7, 11, 138}

RocPlusOperation(opcode) == IF opcode \in RocPlusKnown THEN opcode ELSE Unknown

RequestKey(c) == <<c.session, c.from, c.to, c.opcode>>

ResponseKeyUnswapped(c) == RequestKey(c)

ResponseKey(c) == <<c.session, c.to, c.from, c.opcode>>

EmitTxn(c, opcode, status) == Transaction(c, opcode, status)

Warnings(c) ==
    If(6 + c.data_length + 2 > c.len, Anomaly(c, "medium"))
    \o If(c.opcode \notin RocPlusKnown, Anomaly(c, "low"))
    \o If(c.opcode \in Control, Anomaly(c, "high"))
    \o If(c.opcode = Login, Asset(c, c.src) \o Asset(c, c.dst))

Pair(s, c) ==
    LET key == ResponseKey(c)
    IN  IF key \in DOMAIN s.pending
        THEN To([s EXCEPT !.pending = Without(@, {key})], EmitTxn(s.pending[key], s.pending[key].op, "ok"))
        ELSE To([s EXCEPT !.pending = Insert(@, RequestKey(c), [no |-> c.no, op |-> RocPlusOperation(c.opcode)])],
                EmitTxn(c, RocPlusOperation(c.opcode), "observed"))

RocPlusOnStreamChunk(s, c) ==
    {IF c.len < RocPlusMinFrame THEN To(s, If(c.len > 0, Anomaly(c, "medium")))
     ELSE LET r == Pair(s, c) IN To(r.state, Warnings(c) \o r.out)}

\* A parked frame was reported when it came, and is reported once more here.
RocPlusOnIdleFlush(s, ts) ==
    {To(RocPlusNew, out) : out \in Drained(s.pending, DOMAIN s.pending, "observed")}

-----------------------------------------------------------------------------
(***************************************************************************)
(* The GE SRTP decoder: one header per chunk, requests parked by session   *)
(* and sequence number.                                                    *)
(***************************************************************************)

GeSrtpNew == [pending |-> <<>>]

HeaderLen == 56

GeSrtpKnown == {3, 4, 6, 7, 24, 27, 33, 78, 192}

GeSrtpOperation(service) == IF service \in GeSrtpKnown THEN service ELSE Unknown

EmitTransaction(c, operation, status) == Transaction(c, operation, status)

ResponseKeeping(s, c, out) ==
    LET key == <<c.session, c.seq>>
    IN  IF key \in DOMAIN s.pending
        THEN To(s, out \o EmitTransaction(s.pending[key], s.pending[key].op, "ok"))
        ELSE To(s, out \o EmitTransaction(c, GeSrtpOperation(c.service), "response_only"))

GeSrtpResponse(s, c, out) ==
    LET key == <<c.session, c.seq>>
    IN  IF key \in DOMAIN s.pending
        THEN To([s EXCEPT !.pending = Without(@, {key})],
                out \o EmitTransaction(s.pending[key], s.pending[key].op,
                                       IF c.status = 0 THEN "ok" ELSE "srtp_status"))
        ELSE To(s, out \o EmitTransaction(c, GeSrtpOperation(c.service), "response_only"))

GeSrtpOnStreamChunk(s, c) ==
    LET out == If(c.service \notin GeSrtpKnown, Anomaly(c, "low"))
    IN  {IF c.len < HeaderLen THEN To(s, If(c.len > 0, Anomaly(c, "medium")))
         ELSE CASE c.msg_type = 2 ->
                     To([s EXCEPT !.pending = Insert(@, <<c.session, c.seq>>,
                                                     [no |-> c.no, op |-> GeSrtpOperation(c.service)])], out)
                [] c.msg_type = 3 -> GeSrtpResponse(s, c, out)
                [] OTHER -> To(s, out \o EmitTransaction(c, GeSrtpOperation(c.service), "request_only"))}

GeSrtpOnIdleFlush(s, ts) ==
    {To(GeSrtpNew, out) : out \in Drained(s.pending, DOMAIN s.pending, "request_only")}

-----------------------------------------------------------------------------
(***************************************************************************)
(* The Modbus/UDP decoder: one frame per datagram, requests parked by      *)
(* addresses and transaction id in a table that forgets the oldest.        *)
(***************************************************************************)

ModbusUdpNew == [pending |-> <<>>, order |-> <<>>]

ModbusUdpKnown == (1..6) \cup {15, 16, 22, 23, 43}

ModbusUdpOperation(fc) == IF fc \in ModbusUdpKnown THEN fc ELSE Unknown

\* A full table gives up its oldest entry, also when the request replaces an entry.
ModbusUdpPark(s, key, req) ==
    LET full == Cardinality(DOMAIN s.pending) >= MaxPending /\ s.order # <<>>
        pending == IF full THEN Without(s.pending, {Head(s.order)}) ELSE s.pending
        order == IF full THEN Tail(s.order) ELSE s.order
    IN  [s EXCEPT !.pending = Insert(pending, key, req),
                  !.order = Append(IF key \in DOMAIN pending THEN SelectSeq(order, LAMBDA k : k # key)
                                   ELSE order, key)]

PopLeavingOrder(s, key) == [s EXCEPT !.pending = Without(@, {key})]

Pop(s, key) ==
    [s EXCEPT !.pending = Without(@, {key}), !.order = SelectSeq(@, LAMBDA k : k # key)]

NoAddress == -1

\* req_addr_qty: the start address, where the function has one and the frame holds it.
StartAddr(c) ==
    IF \/ c.fc \in (1..6) \cup {15, 16, 23} /\ c.pdu_len >= 5
       \/ c.fc = 22 /\ c.pdu_len >= 3
    THEN c.addr ELSE NoAddress

\* resp_values: the number of registers, none when the byte count is odd or not all there.
Registers(c) ==
    IF c.fc \in {3, 4, 23} /\ c.pdu_len >= 2 /\ c.pdu_len - 2 >= c.byte_count /\ c.byte_count % 2 = 0
    THEN c.byte_count \div 2 ELSE 0

\* emit_readings: one reading per register, the address held at the largest 16-bit value.
EmitReadings(c, env, start) ==
    LET base == IF start = NoAddress THEN 0 ELSE start
    IN  [i \in 1..Registers(c) |->
            Event("process_reading", env, IF base + i - 1 > 65535 THEN 65535 ELSE base + i - 1)]

TxEvent(c, operation, status) == Transaction(c, operation, status)

\* The request a datagram of the other direction answers.
Asked(c) == <<c.dst, c.src, c.txn>>

Exception(s, c, out) ==
    IF Asked(c) \in DOMAIN s.pending
    THEN LET req == s.pending[Asked(c)] IN To(Pop(s, Asked(c)), out \o TxEvent(req, req.op, "exception"))
    ELSE To(s, out \o TxEvent(c, ModbusUdpOperation(c.fc - 128), "exception"))

ModbusUdpResponse(s, c, out) ==
    IF Asked(c) \in DOMAIN s.pending
    THEN LET req == s.pending[Asked(c)]
         IN  To(Pop(s, Asked(c)), out \o EmitReadings(c, req, req.start) \o TxEvent(req, req.op, "ok"))
    ELSE To(s, out \o EmitReadings(c, c, NoAddress) \o TxEvent(c, ModbusUdpOperation(c.fc), "response_only"))

OnDatagram(s, c) ==
    LET odd == If(6 + c.mbap_len # c.len, Anomaly(c, "medium"))
        out == odd \o If(c.fc \notin ModbusUdpKnown, Anomaly(c, "low"))
    IN  {IF c.len < 8 \/ c.protocol_id # 0 THEN To(s, Anomaly(c, "medium"))
         ELSE IF c.fc \in {90, 218} THEN To(s, odd)
         ELSE IF c.fc >= 128 THEN Exception(s, c, odd)
         ELSE IF c.dport = 502 /\ c.sport # 502
         THEN To(ModbusUdpPark(s, <<c.src, c.dst, c.txn>>, [no |-> c.no, op |-> ModbusUdpOperation(c.fc), start |-> StartAddr(c)]), out)
         ELSE ModbusUdpResponse(s, c, out)}

ModbusUdpOnIdleFlush(s, ts) ==
    {To(ModbusUdpNew, out) : out \in Drained(s.pending, DOMAIN s.pending, "request_only")}

=============================================================================
