------------------------------- MODULE Modbus -------------------------------
(***************************************************************************)
(* ModbusDecoder (src/engine/decoders/ot/modbus.rs) as operators on its    *)
(* table of requests that wait for their response.  A chunk is a record    *)
(*   no, ts, session, src, dst, sport, dport                               *)
(*   body       [ok, tid, op]: whether the dissector parses the payload,   *)
(*              its transaction and unit id, and its function code         *)
(* An event is a record                                                    *)
(*   ts, src, dst, rest      what should_emit makes of its envelope        *)
(*   what                    its family and status                         *)
(*   req, resp               the numbers of the frames it reports, or 0    *)
(***************************************************************************)
EXTENDS Integers, Sequences

CONSTANT Second     \* the ticks of a second

ASSUME SecondAssumption == Second \in Nat \ {0}

NoRequests == [k \in {} |-> 0]

Key(c) == <<c.session, c.body.tid>>

IsRequest(c) == c.dport = 502 /\ c.sport # 502

\* Mutant: the first request with a key stays.
PendFirst(pending, c) ==
    [k \in DOMAIN pending \cup {Key(c)} |->
        IF k \in DOMAIN pending THEN pending[k]
        ELSE [no |-> c.no, ts |-> c.ts, src |-> c.src, dst |-> c.dst,
              ports |-> <<c.sport, c.dport>>, op |-> c.body.op]]

Pend(pending, c) ==
    [k \in DOMAIN pending \cup {Key(c)} |->
        IF k = Key(c)
        THEN [no |-> c.no, ts |-> c.ts, src |-> c.src, dst |-> c.dst,
              ports |-> <<c.sport, c.dport>>, op |-> c.body.op]
        ELSE pending[k]]

Remove(pending, K) == [k \in DOMAIN pending \ K |-> pending[k]]

\* Mutant: a response is matched by a copy of the pending request.
AfterChunkKept(pending, c) ==
    IF c.body.ok /\ IsRequest(c) THEN Pend(pending, c) ELSE pending

\* The table after on_stream_chunk: a request takes the place of one with the
\* same key, a response removes its request.
AfterChunk(pending, c) ==
    CASE ~c.body.ok -> pending
      [] c.body.ok /\ IsRequest(c) -> Pend(pending, c)
      [] c.body.ok /\ ~IsRequest(c) -> Remove(pending, {Key(c)})

-----------------------------------------------------------------------------

Transaction(ports, op) == <<ports, "protocol_transaction:modbus", op>>

FromRequest(p, what, rest, resp) ==
    [ts |-> p.ts, src |-> p.src, dst |-> p.dst, rest |-> rest, what |-> what,
     req |-> p.no, resp |-> resp]

FromChunk(c, what, rest, resp) ==
    [ts |-> c.ts, src |-> c.src, dst |-> c.dst, rest |-> rest, what |-> what,
     req |-> 0, resp |-> resp]

Identity(ports, asset) == <<ports, "asset_observation:modbus", asset>>

\* A response and the request it answers: the transaction, the identity the
\* device gave and the payload that was written, all at the time and with the
\* addresses of the request.
Paired(p, c) ==
    <<FromRequest(p, "paired", Transaction(p.ports, p.op), c.no)>>
    \o (IF c.body.op # "identify" THEN <<>>
        ELSE <<FromRequest(p, "identity", Identity(p.ports, c.src), c.no)>>)
    \o (IF c.body.op # "write" THEN <<>>
        ELSE <<FromRequest(p, "artifact",
                   <<p.ports, "extracted_artifact:modbus_write_payload", Key(c)>>, c.no)>>)

Unpaired(c) ==
    <<FromChunk(c, "unpaired", Transaction(<<c.sport, c.dport>>, c.body.op), c.no)>>
    \o (IF c.body.op # "identify" THEN <<>>
        ELSE <<FromChunk(c, "identity", Identity(<<c.sport, c.dport>>, c.src), c.no)>>)

Garbled(c) ==
    FromChunk(c, "anomaly",
        <<<<c.sport, c.dport>>, "parse_anomaly:modbus", "failed to parse modbus payload">>, 0)

\* The events of on_stream_chunk.
ChunkEvents(pending, c) ==
    CASE ~c.body.ok -> <<Garbled(c)>>
      [] c.body.ok /\ IsRequest(c) -> <<>>
      [] c.body.ok /\ ~IsRequest(c) /\ Key(c) \in DOMAIN pending ->
            Paired(pending[Key(c)], c)
      [] c.body.ok /\ ~IsRequest(c) /\ Key(c) \notin DOMAIN pending -> Unpaired(c)

-----------------------------------------------------------------------------

\* The requests on_idle_flush takes: those for which the whole seconds since
\* they were seen, rounded towards zero, are not negative.
Expired(pending, now) == {k \in DOMAIN pending : now - pending[k].ts > -Second}

\* A request reported without a response.
Partial(p) == FromRequest(p, "partial", Transaction(p.ports, p.op), 0)

=============================================================================
