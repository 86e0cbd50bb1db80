------------------------------- MODULE Engine -------------------------------
(***************************************************************************)
(* DpiEngine (src/engine/mod.rs): streams of frames, from a capture file   *)
(* or a live session, are dissected into events, which pass the            *)
(* deduplication, gather in a batch and go to a sink that may refuse.      *)
(*                                                                         *)
(* The deduplication table and the decoders belong to the engine and       *)
(* outlive a stream; the batch, the counters and the timestamp that drives *)
(* idle eviction belong to the stream.  Of the decoders, Modbus and WinRM  *)
(* are modelled with their state; a decoder without state stands for the   *)
(* others and gives the events that the frame's body names.                *)
(***************************************************************************)
EXTENDS Dispatch, Modbus, WinRm, DedupTable, FiniteSets

CONSTANTS
    Frame,          \* the frames that may be captured, see Dispatch
    Stateless,      \* the interests of the decoders without state
    BatchSize,      \* DpiEngine::batch_size
    WallClock,      \* the values Utc::now() may have when a stream opens
    Skew,           \* how far a frame's timestamp may lag behind the latest
    MaxTime,        \* bound on the frames' timestamps
    MaxFrames,      \* bound on the number of frames
    MaxStreams      \* bound on the number of streams

ASSUME EngineAssumption ==
    /\ BatchSize \in Nat \ {0}
    /\ WallClock \subseteq Nat
    /\ Skew \in Nat /\ MaxTime \in Nat /\ MaxFrames \in Nat /\ MaxStreams \in Nat
    /\ \A f \in Frame :
        /\ f.findings \in Seq(STRING)
        /\ Claims(Stateless, f) => f.body.yields \in Seq(STRING)
        /\ Ipv4Of(f, 1) => f.body.oddities \in Seq(STRING)

VARIABLES
    seen,           \* DedupEngine::seen
    modbus,         \* ModbusDecoder::pending
    winrm,          \* WinRmDecoder::sessions
    stream,         \* StreamState and the state of its caller
    checkpoint,     \* the SegmentCheckpoint of the last finished stream
    log,            \* history: the frames pushed, of all streams
    made,           \* history: the events made, in order
    dropped,        \* history: the numbers of the events found duplicate
    delivered,      \* history: the numbers of the events the sink accepted
    lost            \* history: the numbers of events that went with a batch

vars == <<seen, modbus, winrm, stream, checkpoint, log, made, dropped, delivered, lost>>

Time == 0 .. MaxTime

Elements(s) == {s[i] : i \in 1 .. Len(s)}

-----------------------------------------------------------------------------
(* One frame: process_packet_record.                                       *)

\* The StreamChunk that the decoders see.
Chunk(f, ts, no) ==
    [no |-> no, ts |-> ts, session |-> Session(f),
     src |-> IF Ethertype(f) = IPv4 THEN f.sip ELSE Macs(f)[1],
     dst |-> IF Ethertype(f) = IPv4 THEN f.dip ELSE Macs(f)[2],
     sport |-> IF Ethertype(f) = IPv4 /\ f.proto \in {6, 17} THEN f.sport ELSE 0,
     dport |-> IF Ethertype(f) = IPv4 /\ f.proto \in {6, 17} THEN f.dport ELSE 0,
     body |-> f.body]

ModbusInterest == {<<"TcpPort", 502>>}
WinRmInterest == {<<"TcpPort", 5985>>, <<"TcpPort", 5986>>}

Anomaly(ts, ends, decoder, reason) ==
    [ts |-> ts, src |-> ends[1], dst |-> ends[2],
     rest |-> <<<<0, 0>>, decoder, reason>>, what |-> "anomaly",
     req |-> 0, resp |-> 0]

\* Stovetop's and bilgepump's view of the Ethernet frame.
Inspected(f, ts) ==
    IF f.link # "Ethernet" \/ Bodiless(f) THEN <<>>
    ELSE [i \in 1 .. Len(f.findings) |->
            Anomaly(ts, Macs(f), "parse_anomaly:inspector", f.findings[i])]

\* Mutant: a frame that no decoder claims is passed over.
ReportedFaultOnly(f, ts, unclaimed) ==
    IF Fault(f) # "none"
    THEN <<Anomaly(ts, <<Unknown, Unknown>>, "parse_anomaly:engine", Fault(f))>>
    ELSE <<>>

\* An anomaly of the engine itself: an unusable header has no addresses, an
\* unsupported protocol those of the link layer.
Reported(f, ts, unclaimed) ==
    IF Fault(f) # "none"
    THEN <<Anomaly(ts, <<Unknown, Unknown>>, "parse_anomaly:engine", Fault(f))>>
    ELSE IF unclaimed /\ Unsupported(f) # "none"
    THEN <<Anomaly(ts, Macs(f), "parse_anomaly:engine", Unsupported(f))>>
    ELSE <<>>

\* Events of decoders without state; for an ARP or LLDP frame this includes
\* what bilgepump's observe_arp and observe_lldp report after them.
StatelessEvents(c) ==
    [i \in 1 .. Len(c.body.yields) |->
        [ts |-> c.ts, src |-> c.src, dst |-> c.dst,
         rest |-> <<<<c.sport, c.dport>>, "stateless", c.body.yields[i]>>,
         what |-> "observation", req |-> 0, resp |-> 0]]

\* icmpeeker's view of an ICMP message, after the decoders.
Peeked(f, ts) ==
    IF ~Ipv4Of(f, 1) THEN <<>>
    ELSE [i \in 1 .. Len(f.body.oddities) |->
            Anomaly(ts, <<f.sip, f.dip>>, "parse_anomaly:icmpeeker", f.body.oddities[i])]

Unclaimed(f) ==
    ~Claims(ModbusInterest \cup WinRmInterest \cup Stateless, f)

\* The events of a frame, the decoders called in the order of their names.
FrameEvents(f, ts, no) ==
    LET c == Chunk(f, ts, no) IN
    Inspected(f, ts)
    \o (IF Claims(Stateless, f) THEN StatelessEvents(c) ELSE <<>>)
    \o (IF Claims(ModbusInterest, f) THEN ChunkEvents(modbus, c) ELSE <<>>)
    \o (IF Claims(WinRmInterest, f) THEN WinRmEvents(winrm, c) ELSE <<>>)
    \o Peeked(f, ts)
    \o Reported(f, ts, Unclaimed(f))

-----------------------------------------------------------------------------
(* The events of a frame pass the deduplication one after the other.       *)

\* Mutant: an event is pushed ahead of those before it.
SiftedAhead(prev, e, n) ==
    [table |-> After(prev.table, e.ts, e),
     out |-> IF IsDuplicate(prev.table, e.ts, e) THEN prev.out
             ELSE <<n>> \o prev.out]

\* should_emit for event e, whose number is n, after the events before it:
\* the deduplication table and the numbers of the events that are pushed.
Sifted(prev, e, n) ==
    [table |-> After(prev.table, e.ts, e),
     out |-> IF IsDuplicate(prev.table, e.ts, e) THEN prev.out
             ELSE Append(prev.out, n)]

\* should_emit for each event in turn; event i has the number first + i.
Sift(table, events, first) ==
    LET S[i \in 0 .. Len(events)] ==
            IF i = 0 THEN [table |-> table, out |-> <<>>]
            ELSE Sifted(S[i-1], events[i], first + i)
    IN S[Len(events)]

-----------------------------------------------------------------------------
(* The life of a stream.                                                   *)

NoStream ==
    [status |-> "none", pending |-> <<>>, frames |-> 0, emitted |-> 0,
     last |-> 0, latest |-> 0, no |-> 0, base |-> 0, first |-> 0]

Init ==
    /\ seen = Empty
    /\ modbus = NoRequests
    /\ winrm = {}
    /\ stream = NoStream
    /\ checkpoint = [frames |-> 0, emitted |-> 0]
    /\ log = <<>>
    /\ made = <<>>
    /\ dropped = {}
    /\ delivered = <<>>
    /\ lost = {}

\* StreamState::new, by process_segment or live_session.  base, first and
\* latest are history: what was delivered and logged before, and the latest
\* timestamp.
Open(now) ==
    /\ stream.status # "open"
    /\ stream.no < MaxStreams
    /\ stream' = [status |-> "open", pending |-> <<>>,
                  frames |-> 0, emitted |-> 0, last |-> now,
                  latest |-> stream.latest, no |-> stream.no + 1,
                  base |-> Len(delivered), first |-> Len(log)]
    /\ UNCHANGED <<seen, modbus, winrm, checkpoint, log, made, dropped, delivered, lost>>

\* Up to the batch threshold, ingest_frame is the same whatever becomes of
\* the batch: out and table are what Sift gives for the events.
Ingest(f, ts, events, sifted) ==
    /\ stream.status = "open"
    /\ Len(log) < MaxFrames
    /\ ts + Skew >= stream.latest
    /\ LET c == Chunk(f, ts, Len(log) + 1) IN
        /\ modbus' = IF Claims(ModbusInterest, f) THEN AfterChunk(modbus, c) ELSE modbus
        /\ winrm' = WinRmEvict(IF Claims(WinRmInterest, f)
                               THEN WinRmSessions(winrm, c) ELSE winrm)
    /\ seen' = sifted.table
    /\ log' = Append(log, [frame |-> f, ts |-> ts])
    /\ made' = made \o events
    /\ dropped' = dropped \cup
        ((Len(made) + 1 .. Len(made) + Len(events)) \ Elements(sifted.out))
    /\ UNCHANGED checkpoint

\* The stream after ingest_frame; sent is how many events were flushed.
Ingested(ts, events, pending, sent) ==
    [stream EXCEPT !.pending = pending,
                   !.frames = @ + 1,
                   !.emitted = @ + sent,
                   !.last = IF events = <<>> THEN @ ELSE events[1].ts,
                   !.latest = IF ts > @ THEN ts ELSE @]

Full(pending) == Len(pending) >= BatchSize

\* The batch is not full yet.
Keep(ts, events, pending) ==
    /\ ~Full(pending)
    /\ stream' = Ingested(ts, events, pending, 0)
    /\ UNCHANGED <<delivered, lost>>

\* flush_batch with a sink that accepts the batch.
Send(ts, events, pending) ==
    /\ Full(pending)
    /\ stream' = Ingested(ts, events, <<>>, Len(pending))
    /\ delivered' = delivered \o pending
    /\ UNCHANGED lost

\* flush_batch with a sink that refuses: the batch is already taken out of
\* the stream.  The owner of a LiveSession may go on; process_segment,
\* process_frames and process_frame Abandon the stream.
Refuse(ts, events, pending) ==
    /\ Full(pending)
    /\ stream' = Ingested(ts, events, <<>>, 0)
    /\ lost' = lost \cup Elements(pending)
    /\ UNCHANGED delivered

\* ingest_frame.
Push(f, ts) ==
    LET events == FrameEvents(f, ts, Len(log) + 1)
        sifted == Sift(seen, events, Len(made))
        pending == stream.pending \o sifted.out
    IN  /\ Ingest(f, ts, events, sifted)
        /\ \/ Keep(ts, events, pending)
           \/ Send(ts, events, pending)
           \/ Refuse(ts, events, pending)

-----------------------------------------------------------------------------
(* finalize_stream.                                                        *)

\* The orders in which a HashMap may give the keys K.
Orders(K) == {q \in [1 .. Cardinality(K) -> K] : Elements(q) = K}

\* Mutant: the flush empties the table, whatever it reports.
DrainCleared(keys) ==
    /\ stream.status = "open"
    /\ keys \in Orders(Expired(modbus, stream.last))
    /\ modbus' = NoRequests
    /\ winrm' = WinRmEvict(winrm)
    /\ made' = made \o [i \in 1 .. Len(keys) |-> Partial(modbus[keys[i]])]
    /\ UNCHANGED <<seen, log, dropped>>

\* on_idle_flush and evict_idle of the decoders; keys is the order in which
\* the requests are reported.  Their events do not pass the deduplication.
Drain(keys) ==
    /\ stream.status = "open"
    /\ keys \in Orders(Expired(modbus, stream.last))
    /\ modbus' = Remove(modbus, Elements(keys))
    /\ winrm' = WinRmEvict(winrm)
    /\ made' = made \o [i \in 1 .. Len(keys) |-> Partial(modbus[keys[i]])]
    /\ UNCHANGED <<seen, log, dropped>>

\* Mutant: what was pending before is forgotten.
DrainedOnly(keys) == [i \in 1 .. Len(keys) |-> Len(made) + i]

Drained(keys) ==
    stream.pending \o [i \in 1 .. Len(keys) |-> Len(made) + i]

\* Mutant: the checkpoint counts only the last batch.
TotalLast(emitted, pending) == pending

\* state.events_emitted.max(final_pending)
Total(emitted, pending) == IF emitted > pending THEN emitted ELSE pending

\* finalize_stream when there is nothing left, or the sink accepts it.
Finish(keys) ==
    LET pending == Drained(keys)
        emitted == stream.emitted + Len(pending)
    IN  /\ Drain(keys)
        /\ delivered' = delivered \o pending
        /\ stream' = [stream EXCEPT !.status = "finished", !.pending = <<>>,
                                    !.emitted = emitted]
        /\ checkpoint' = [frames |-> stream.frames,
                          emitted |-> Total(emitted, Len(pending))]
        /\ UNCHANGED lost

\* finalize_stream when the sink refuses the last batch.
FinishRefused(keys) ==
    LET pending == Drained(keys) IN
    /\ Drain(keys)
    /\ pending # <<>>
    /\ lost' = lost \cup Elements(pending)
    /\ stream' = [stream EXCEPT !.status = "aborted", !.pending = <<>>]
    /\ UNCHANGED <<checkpoint, delivered>>

\* The capture cannot be read further, the caller gives up on an error of the
\* sink, or a live session is dropped: what is pending goes with it, without
\* finalize_stream, and the decoders keep what they have.
Abandon ==
    /\ stream.status = "open"
    /\ lost' = lost \cup Elements(stream.pending)
    /\ stream' = [stream EXCEPT !.status = "aborted", !.pending = <<>>]
    /\ UNCHANGED <<seen, modbus, winrm, checkpoint, log, made, dropped, delivered>>

Next ==
    \/ \E now \in WallClock : Open(now)
    \/ \E f \in Frame, ts \in Time : Push(f, ts)
    \/ \E keys \in Orders(Expired(modbus, stream.last)) :
            Finish(keys) \/ FinishRefused(keys)
    \/ Abandon

Spec == Init /\ [][Next]_vars

-----------------------------------------------------------------------------

Number == 1 .. Len(made)

\* Events, tables and counters have their types, and the containers hold
\* numbers of events that were made.
TypeOK ==
    /\ \A h \in DOMAIN seen : seen[h] \in Time
    /\ \A k \in DOMAIN modbus : modbus[k].no \in 1 .. Len(log) /\ modbus[k].ts \in Time
    /\ stream \in [status : {"none", "open", "finished", "aborted"},
                   pending : Seq(Number), frames : Nat, emitted : Nat,
                   last : Nat, latest : Time, no : 0 .. MaxStreams,
                   base : Nat, first : Nat]
    /\ checkpoint \in [frames : Nat, emitted : Nat]
    /\ Len(log) <= MaxFrames
    /\ delivered \in Seq(Number)
    /\ dropped \subseteq Number /\ lost \subseteq Number

\* What the sink sees is what Delivery promises: batches in the order the
\* events were made, no event twice, none after its batch was refused.
Conduit == INSTANCE Delivery WITH made <- Len(made), queue <- stream.pending
Delivers == Conduit!Spec

\* No event vanishes: each one that ingest_frame or finalize_stream makes is
\* found duplicate, pending, delivered, or lost with the batch it was in.
Accounted ==
    /\ Number = dropped \cup Elements(stream.pending) \cup Elements(delivered) \cup lost
    /\ dropped \cap (Elements(stream.pending) \cup Elements(delivered) \cup lost) = {}

\* The memory-bounded back-pressure of process_streaming: between two calls
\* fewer events wait than make a batch, also after the sink refused one.
BackPressure == Len(stream.pending) < BatchSize

\* The checkpoint of a finished stream counts its frames, and the events the
\* sink accepted during the stream, although refused batches are not counted
\* and finalize_stream takes a maximum.
CheckpointExact ==
    stream.status = "finished" =>
        /\ checkpoint.emitted = Len(delivered) - stream.base
        /\ checkpoint.frames = Len(log) - stream.first

\* Frame i is a Modbus message; its place in the decoder's table.
IsModbus(i) == Claims(ModbusInterest, log[i].frame) /\ log[i].frame.body.ok
LoggedChunk(i) == Chunk(log[i].frame, log[i].ts, i)

\* A Modbus request is reported at most once, with its response or as a
\* partial request, even when streams are abandoned in between.
ReportedOnce ==
    \A i, j \in Number :
        /\ made[i].what \in {"paired", "partial"}
        /\ made[j].what \in {"paired", "partial"}
        /\ made[i].req = made[j].req
        => i = j

\* A response is paired with the latest request of its session, transaction
\* and unit: no other request or response with that key lies between them.
PairsLatest ==
    \A n \in Number : made[n].what = "paired" =>
        LET q == made[n].req
            r == made[n].resp
        IN  /\ q \in 1 .. r - 1 /\ r \in 1 .. Len(log)
            /\ IsModbus(q) /\ IsRequest(LoggedChunk(q))
            /\ IsModbus(r) /\ ~IsRequest(LoggedChunk(r))
            /\ Key(LoggedChunk(q)) = Key(LoggedChunk(r))
            /\ \A i \in q + 1 .. r - 1 :
                    IsModbus(i) => Key(LoggedChunk(i)) # Key(LoggedChunk(r))

\* No Modbus request is forgotten, however streams end: it waits in the
\* decoder's table, or it was reported, or a later request took its key.
RequestsKept ==
    \A i \in 1 .. Len(log) :
        IsModbus(i) /\ IsRequest(LoggedChunk(i)) =>
            \/ \E k \in DOMAIN modbus : modbus[k].no = i
            \/ \E n \in Number : made[n].what \in {"paired", "partial"} /\ made[n].req = i
            \/ \E j \in i + 1 .. Len(log) :
                    /\ IsModbus(j) /\ IsRequest(LoggedChunk(j))
                    /\ Key(LoggedChunk(j)) = Key(LoggedChunk(i))

\* finalize_stream says that it drains the decoders: no request of the
\* stream stays behind unreported.
FinishDrains == stream.status = "finished" => DOMAIN modbus = {}

\* A frame of an unsupported protocol that no decoder claims, and the anomaly
\* that says so.
Stray(f) == Fault(f) = "none" /\ Unclaimed(f) /\ Unsupported(f) # "none"
Notice(f, ts) == Anomaly(ts, Macs(f), "parse_anomaly:engine", Unsupported(f))

\* Among the events N is the notice of frame i, or one just like it that was
\* made in the same second.
NoticeIn(N, i) ==
    \E n \in N :
        /\ BucketOf(made[n].ts) = BucketOf(log[i].ts)
        /\ [made[n] EXCEPT !.ts = 0] = Notice(log[i].frame, 0)

\* The operator sees a frame of an unsupported protocol that no decoder
\* claims: the sink has its notice or one just like it of the same second, or
\* will have it with the batch of the open stream.  The one exception is a
\* notice that was lost with a refused batch or an abandoned stream, which
\* keeps those like it from the sink for the rest of the second.
UnclaimedReported ==
    \A i \in 1 .. Len(log) :
        Stray(log[i].frame) /\ ~NoticeIn(lost, i) =>
            \/ NoticeIn(Elements(delivered), i)
            \/ stream.status = "open" /\ NoticeIn(Elements(stream.pending), i)

=============================================================================
