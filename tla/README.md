# A verification project for marlinspike-dpi

marlinspike-dpi reads captured network traffic and turns it into *Bronze events*: protocol
transactions, asset observations, process readings, anomalies. This directory holds TLA+
models of its stateful parts, the TLC configurations that check them on small instances, and
TLAPS proofs of the properties that matter most for every value of the constants. Paths like
`engine/mod.rs` are below `src/src/`.

## 1. The system and its parts

A capture (pcap, pcapng, or single frames from a live source) enters `DpiEngine`
(`engine/mod.rs`). `ingest_frame` takes a frame through `process_packet_record`: the link
layer is unwrapped, the layer-2 monitor and the frame inspector look at it, IPv4 and TCP or
UDP headers are checked, and the payload is offered to every registered decoder whose
interest (EtherType, LLC, SNAP, port) matches. The events are deduplicated (`should_emit`), collected in
a batch, and handed to the caller's sink, which may refuse a batch. `finalize_stream` flushes
the decoders and the last batch and returns a checkpoint.

| part | state | module |
|---|---|---|
| streams, batches, checkpoints (`engine/mod.rs`) | stream counters, last timestamp, batch | `Engine`, abstractly `Delivery` |
| frame dispatch (`engine/mod.rs`) | none | `Dispatch`, used by `Engine` |
| deduplication (`dedup.rs`) | seen hashes with times | `DedupTable`, alone in `Dedup`, used by `Engine` |
| Modbus and WinRM decoders | waiting requests; one-shot guards | `Modbus`, `WinRm`, used by `Engine` |
| MQTT and Sparkplug B (`mqtt.rs`, `sparkplug/`) | sessions with alias tables, bdSeq, gap flag; sweep counter | `SessionStore`, `Sparkplug` |
| bilgepump, the layer-2 monitor (`bilgepump/`) | bindings, windows, STP root, identities | `RateCounter`, `Bilgepump` |
| streaming classifier (`engine/streaming.rs`) | flow table with verdicts and a tick | `DpiSession` |
| decoders that pair requests and responses: ADS, MELSEC, UMAS, ROC Plus, GE-SRTP, Modbus/UDP; DCE/RPC, Diameter, SMB2, LDAP | pending tables, reassembly buffers, names | `OtPairing`; `ItPairing` |
| decoders of sessions and handshakes: RDP, VNC, SMTP, OpenVPN, QUIC, IKE, WireGuard, RadSec, CoAP, AMQP, Kerberos, SIP/RTP; BACnet/SC, OPC UA PubSub, CIP Safety, FF HSE, OSI PI, Vnet/IP, AVTP, SERCOS III, EtherNet/IP I/O, PTP | buffers, handshake states, known endpoints, counters | `ItSessions`; `OtSessions` |
| decoders that read traffic by earlier definitions: NetFlow/IPFIX, synchrophasor, OPC UA, PCCC and EtherNet/IP | templates, configurations, pending reads | `Definitions` |
| decoders without state: link layer; IT; OT | none | `LinkLayer`; `ItBasic`, `ItApp`; `OtDevice`, `OtControl` |
| loops over bytes in dissectors and decoders, and `extract_l4_payload` | a cursor | `Walkers`, run by `Loops` |
| capture reader (`engine/mod.rs`) | position, interface list | `CaptureFile`, run by `Loops` |
| dissector registry, stovetop, icmpeeker, renderers, schema, CLI, FFI, Python binding, corpus | | not modelled, see section 7 |

What is hard here. Nothing runs concurrently: an engine is `&mut self` from end to end. The
interleavings are those of the *traffic*: frames of many sessions in any order, with capture
timestamps that step back, sessions whose beginning or end the capture did not see, messages cut
between segments or by the snapshot length, tables at their caps, and a sink that refuses in the
middle of a stream. All eviction is driven by the capture's own clock. Nothing is written to disk
and nothing restarts, so there is no crash recovery to check. Between calls nothing must happen
*eventually*: every call returns when its work is done and the next step is the caller's; what must
have happened by the end of a stream is stated as safety (`RequestsKept`, `CheckpointExact`).
Inside a call the loops over bytes must end, which `Terminates` states.

## 2. How the modules correspond to the code

An action is one call of a public method or one message to a handler, with everything the
call does. `PROJECT.json` maps every definition to its lines, except the named literals (sets of
codes, limits): their values stand in the lines of the definitions that use them. Definitions whose
comment says *Mutant* are deliberately wrong variants; no specification uses them.

**DpiSession.** `tracked`, `entry` and `tick` are `DpiSession::flows` and `tick`; the one
action `Feed` has the cases of `feed`: a settled flow, a packet without payload, a payload that is
classified or not, and the eviction of the least recently seen flow. A packet is what `feed`
can tell of it.

**DedupTable, Dedup.** The table is a function from hashes to times. `Hash` keeps what the
code feeds to SHA-256, the two addresses run together; SHA-256 itself is taken as injective.
`Dedup` drives the table with timestamps that lag by up to `Skew`; its specification is `DedupSpec`.

**RateCounter, Bilgepump.** `RateCounter` is the sliding window (prune at the front only, as
in the code). `Bilgepump` has one action per observer and `EvictExpired`, over a log of
observations that the properties use as reference: an alert is right if the log calls for it.
Timestamps may step back; a window that is pruned at the front only then counts an observation that
is too old by no more than the lag, or misses one that an earlier, later-stamped observation pruned.
`RateAlertsDue` allows for that lag and for nothing else. For floods and starvation it states the documented
bound: what exceeds the threshold is alerted, what stays below it is not (section 4).

**Dispatch, Modbus, WinRm, Engine.** `Dispatch` defines which decoders a frame is offered to;
`Modbus` and `WinRm` define the events and the next table of a chunk; `Engine` composes them
with `DedupTable` into the stream life cycle: `Open`, `Push` (keep, send, or refuse the
batch), `Finish`, `FinishRefused`, `Abandon`. Events are numbered as they are made, so that
"the same event" has a meaning across batch, sink and losses. Other decoders appear as
`Stateless` interests whose events are part of the frame.

**Delivery.** What the engine promises its sink: events arrive in the order they are made,
each at most once; a batch is handed over or lost as a whole. `Engine!Delivers` is that
specification under the mapping made -> number of events made, queue -> the stream's batch.

**SessionStore, Sparkplug.** `SessionStore` has the methods of `SessionState` and
`SessionStore` as operators (`MakeRoom` returns a set of tables: a hash map may break ties in
any way); `Sparkplug` has one action per kind of message, a step for MQTT packets that are no
Sparkplug publish, and the on-demand sweep. Protobuf and metric values are left out; a metric
is its optional name and alias.

**Decoding, and the decoders' modules.** `Decoding` holds what the decoders share: the events (family,
frame, and what they say), `To` (the pair of next state and events), tables as functions, cutting a
buffer into frames, and `Through`, which takes items through a handler one by one. Each decoder is a pair `New` and `On...` (of the state and a
chunk) in the module of its family; the module has a section per decoder. Where two decoders of a
module have an operator of the same name, the name carries the decoder's. A result that the code
leaves to a hash map's order is a set of results. A chunk is a record of the fields that the
handler tests; a stream payload is a sequence of units, each a frame or a part of one.

**Decoders, Pairing, Sessions.** `Decoders` runs one of 36 stateful decoders on any sequence of chunks
with idle flushes in between and keeps the history of calls, events and tables; `Pairing` and `Sessions`
state what the decoders owe, from the history.

**Messages.** One of 46 stateless decoders gets one message as it looks with no byte captured, then one
more, up to the whole message and then padding: what the engine hands over when a capture is cut or a
short frame is padded, since it looks at no length of the IP or UDP header (`mod.rs:854`, `mod.rs:905`).

**Walkers, CaptureFile, Loops, Parsing.** `Walkers` has an operator per loop, from the state before a turn
to the state after it, on bytes; `need` records how far unchecked indexing and slicing reached.
`CaptureFile` is the reader of pcap and pcapng, with reads that return any number of bytes. `Loops` is the
machine that takes either from turn to turn, and says that they stay inside their input and end;
`Parsing` says what they tell, against recursive definitions of what is written in the input.

## 3. Runs

| run | expectation | question |
|---|---|---|
| `tables` | pass | Is the flow table bounded, eviction really LRU, an answer final while the flow is tracked, the number of attempts limited? Is an event emitted once per bucket, and nothing dropped but for an emitted event that hashes alike, when timestamps step back? |
| `dedup_repeats` | violation | Is only a repeat of an emitted event dropped? |
| `bilgepump` | pass | Are spoofing and conflict alerts raised exactly when the observations call for them, and rate alerts (flood, flapping, starvation) when their thresholds do? |
| `bilgepump_blessed` | violation | Is a takeover of a blessed address alerted? |
| `engine` | pass | Is every event delivered once and in order, dropped as duplicate or lost with its batch; are checkpoints exact, Modbus requests paired with the latest, reported once and never forgotten? Does every frame that no decoder claims come to the operator's notice? |
| `engine_drain` | violation | Does finishing a stream drain the Modbus decoder? |
| `sparkplug` | pass | Is an alias reported only under a name of its own current session, each gap announced exactly once, a stale BIRTH dropped, the table bounded, an idle session swept? |
| `sparkplug_equal` | violation | Is a BIRTH with the bdSeq of the one in effect ignored? |
| `decoders` | pass | Does each stateful decoder report a request once, pair it within its session, keep its tables in step and bounded, tell endpoints once, keep sessions apart, not care how the stream of a session is cut, stay silent behind STARTTLS, count and sample exactly, and read traffic by the latest definition? |
| `pccc` | violation | Does a successful PCCC read give readings? |
| `shared_buffers` | violation | Is the stream of each session buffered by itself? |
| `parsing` | pass | Does every loop over bytes end, read inside its input and tell what is written there, and does the capture reader hand on exactly the whole packets with their interface's link type? Is a cut message told as no other, told the more the more of it is captured, and a whole one enough: no false alarm, and padding no data? |

Bounds. Each table gets one more key than it has room for, so that evictions happen, and each
threshold and attempt limit is two, so that one below, at and above it are reached. Times
range past every window and may step back by `Skew`, so that every comparison with a window
is met on both sides. `engine` has two streams of three frames in all with batches of two: a
batch is filled by one frame and by two, refused in either, and what one stream leaves behind
meets the next. Of sixteen kinds of frames, seven come anywhere; a capture with one of the
others, which differ in link type, transport or fault, is a single stream of two frames (`MaxOthers`). `sparkplug` has four packets of three sessions: enough to insert, evict and
return. `decoders` gives each decoder histories of three or four calls over two sessions (650,000
states): enough for a request, its repetition, another session's message between, and the answer or
a flush; for a definition, its change and its use; and for a table of two to overflow. Caps, sampling
periods and counters are scaled down (`ReportEvery`, `SeqModulus`, `TemplateCap`...), each named in
`Decoders`. `parsing` has over two hundred messages at every length up to eight bytes of padding, and takes all payloads up to five to nine bytes over the values a loop tells apart, IP packets
with up to nine extension headers, and capture files of up to four blocks that end anywhere;
`HopLimit` is three instead of the code's 128. No run uses symmetry. Deadlock checking is off where the bounds end a run or the call has returned, and
on in `bilgepump`, which can always evict. `tables` and `parsing` each hold machines that share nothing: a
behaviour runs one of them while the other rests in a state of its own (`MCTables`, `MCParsing`).

Fairness. Only `parsing` assumes any: weak fairness of the turn of a loop, that is, a running call goes
on. It is the scheduling of straight-line code.

Exceptions. `Messages` names the decoders to which a property does not apply, and why, in sets
(`Quiet`, `Guessing`, `Overturning`, `ReadsPadding`, `ComparesLengths`, `Noted`): each is a fact about the code, listed in
section 4, and TLC refutes the property if a decoder is taken out of its set.

## 4. What the violations show, and what else was met

* `bilgepump_blessed`: a binding made by a blessed pair stays blessed when another MAC takes
  the address (`arp.rs:83`), and no later claim is alerted.
* `engine_drain`: `finalize_stream` flushes with the timestamp of the last frame that *gave an
  event*; a Modbus request gives none, so a later request stays behind (`mod.rs:508`).
* `pccc`: the reply to a PCCC read is looked up under the address of its sender
  (`ot/ethernet_ip.rs:180`), the request is stored under the other side's; no reading is reported.
* `dedup_repeats`: `compute_hash` feeds source and destination to the hasher without a separator
  (`dedup.rs:79`), so an event between 10.0.0.11 and 2.0.0.2 is dropped as a repeat of one between 10.0.0.1
  and 12.0.0.2, where `dedup.rs:3` and the repository's README (line 380) hash the fields of a tuple.
* `shared_buffers`: ADS, RDP and VNC keep one buffer for all streams (`ot/ads.rs:46`, `rdp.rs:326`,
  `vnc.rs:86`), RDP and VNC one handshake as well, so two sessions are decoded as one; the contributors'
  guide asks for per-session buffers (`docs/CONTRIBUTING-DECODERS.md:205`), and `rdp.rs:42` and `vnc.rs:57`
  call that state per-session. What the buffers do owe, a stream cut anywhere read alike, `ChunkingIsInvisible` checks
  with one session.
* `sparkplug_equal`: a BIRTH with an *equal* bdSeq takes effect (`sparkplug/state.rs:85`), where
  `sparkplug/state.rs:59` says "strictly-newer" and `sparkplug/decoder.rs:138` "Older or equal ... ignore".
  After a DEATH it should, as a test has it (`sparkplug/state.rs:276`), and the property excuses that.

Disagreements between text and code that have no run of their own:

* Engine and deduplication: `dedup.rs:23` speaks of a window where the bucket decides; the key of a
  transaction holds protocol and operation only. `evict_idle` runs after every frame and
  the WinRM decoder clears its guards in it (`winrm.rs:411`), so a TLS session is announced per frame,
  where `winrm.rs:271` has a one-shot guard. `feed` answers `NeedMore` on the last attempt when a
  packet has no payload (`streaming.rs:70`). `extract_l4_payload` says it returns nothing for fragments
  (`streaming.rs:244`); the first fragment passes, since only the offset is tested (`streaming.rs:266`).
  An unclaimed transport gives an anomaly "so the operator sees" it (`mod.rs:979`); when the sink refuses
  the batch with it, the deduplication drops those like it for the rest of the second, so that the operator
  sees none. `UnclaimedReported` excuses exactly those.
* bilgepump: reply counters and the STP root survive every eviction (`arp.rs:127`, against
  `config.rs:66`); blessed pairs still raise gratuitous and flood alerts (`config.rs:5`); the flood and
  the starvation threshold are met by `>=` and documented as "exceeding" (`config.rs:24`, `config.rs:53`), so the
  alert comes one message early; `RateCounter` says it returns "the count within the window" (`state.rs:74`) and
  overcounts when timestamps step back, since it prunes at the front only. `RateAlertsDue` leaves both open; the STP, DHCP and CDP
  observers are never called by the engine (`monitor.rs:3`).
* Sparkplug: `sparkplug/decoder.rs:31` calls the
  evictions future work that `state.rs` implements.
* Capture reader: the interface list is not started again with a section (`mod.rs:1418`), so the packets of a
  second section get the link types of the first; a big-endian pcapng section fails (`mod.rs:1514`).
* Shared state: Diameter requests wait under the hop-by-hop id alone (`diameter.rs:385`); AMQP and CoAP
  keep one flag per decoder for what they say is emitted "once per session" (`amqp.rs:359`, `coap.rs:169`).
* Bounds: SMB2 calls its table of waiting requests "LRU-bounded" and "bounded to 1024 entries" (`smb2.rs:110`,
  `smb2.rs:178`; `CHANGELOG.md:137`) and nothing bounds it, so `TablesKept` says of it only that it holds
  exactly the unanswered requests; the time to live of OPC UA reads is enforced by a method that only a test
  calls (`opc_ua/state.rs:96`).
* Counters: a lone Connected Data Item of EtherNet/IP carries 16 bits, which are widened to 32
  (`ot/eip_io.rs:288`), so that its wrap is reported as a gap; the runs have the 32-bit counter only.
* Cut messages: one cut option spoils a whole DHCP message (`dissectors/dhcp.rs:71`); a missing field is
  told as a value of it by DNP3 and S7comm (function 0), POWERLINK (SDO), MQTT-SN (success), and a cut
  IGMPv3 query as an older one; EtherCAT and DNS over TCP misread. PROFINET, FINS and BACnet on
  Ethernet take padding for data.
* Readers: the GOOSE and SV scanners step into values they do not know, and the GOOSE scanner stops at two
  fields where its comment says "all three" (`dissectors/iec61850.rs:590`); the data of DNP3 objects is not
  skipped; DNS answers are matched with questions by position; NetBIOS response records are read as
  questions (`netbios.rs:281`); the LACP collector is read at a fixed offset (`dissectors/lacp.rs:98`);
  the SSH banner is given to the destination (`dissectors/ssh.rs`); SNMPv3 is never parsed; `gvcp.rs:45`
  counts 176 bytes where the fields need 232; AB-CSP pairs nothing, where
  `docs/parse-depth-matrix.md:56` says it does; mDNS is claimed by two decoders, MSTP by two.

## 5. Proofs

TLAPS checks the theorems below for every value of the constants that satisfies the named
assumptions; the assumptions of the component modules are evaluated by TLC in every run. Each
proof shows that an inductive invariant holds initially and is kept by every action, with one
lemma per action.

**TableProofs** has the three specifications that stand alone.
*DpiSession*: type correctness, `FlowTableBounded`, `MostRecentlyFedKept` (eviction is
LRU), `AnswersMatchCache`, `AttemptsBounded`, `SettledIsFinal`. None of them is inductive
alone: that eviction is LRU needs the ticks in the table to be distinct and below the session's tick,
and the bound needs the table's domain to be finite; `FlowsKept` says both.
*Dedup*: `OncePerBucket` under `WindowOutlastsBucket` (the eviction window is at least
a bucket plus the lag of the timestamps), and `DropsOnlyAlike` without any assumption: what is dropped
comes behind an emitted event of the same bucket, ports and family whose addresses run together alike.
`SeenKept` says that what was emitted in a bucket is still in the table while the bucket can recur, and
that everything in the table was emitted.
*Delivery* keeps what arrived and what waits in one increasing line, apart from what was lost (`Lined`),
hence `InOrder` and `Apart`. It is reached as `Conduit`, as from `Engine`.

**BilgepumpProofs**: type correctness; `SpoofExact` under `TtlsNested` (the retention
outlasts the ARP TTL plus the lag) and without blessed pairs, by an invariant (`IInv`) that relates each
binding to the last claim of its address in the log of observations: a missing binding means
that the last claim is too old to matter; and `ConflictsReported`, without any assumption. Its invariant
`CInv` says that the record of a MAC in the table of LLDP or CDP identities is its last advertisement
in the log, and that a MAC without a record has no advertisement young enough to be compared.

**BilgepumpRateProofs**: `RateAlertsDue` under `WindowsNested` (`FlapWindow + Skew < DefaultTtl`:
a flap tracker outlives its window, so that evicting it loses nothing that still counts; the code's
defaults, 30 and 600 seconds, leave nine minutes for the lag). `RInv` says that every window holds, in the
order of the log, exactly the entries of the log that it counts but for those that are *gone*: a later
counted entry lies more than the window after them, or the tracker was evicted past its TTL
(`Windowed`). `PruneCut` says what `RateCounter::prune` removes, `RecordedEntry` what recording does to
the correspondence, `WindowIsExact` and `LagBounds` that the length of the window then lies between the
count that the log gives with and without allowance for the lag, `LatestRaised` that the alert of an
observation is right when it is made, and `RaisedIsSettled` that later entries do not change that.

**EngineProofs, EngineReportProofs**: the engine's type invariant `TypeInv`,
`Accounted` (no event vanishes), and the step simulation give `Spec => Delivers`; the promises
of `Delivery` then hold of the engine (`SinkInOrder`), by the argument of `TableProofs` with the engine's batch
and number of events in their places. `Tally` relates the counters of the
open stream to frames and deliveries and gives `CheckpointExact` and `BackPressure`. `Requests` says that every
request in the Modbus table is the latest of its key in the log and has not been reported; it gives `ReportedOnce` and `PairsLatest`.
`AllKept`, the same as `RequestsKept`, is inductive: an entry leaves the table only with the event that reports it, or
for a later request of its key.
`UnclaimedReported` holds under `FixedWidth` (the text of a MAC address has one width, as `format_mac`
writes it): the deduplication hashes two addresses run together, and could otherwise take a notice for
one between other addresses. `Notices` says that every hash in the table, and the hash of every event
made, is the hash of an event that passed; that an event which names the engine as its decoder is an
anomaly between two addresses; and that each stray frame in the log has its notice among the events
made. With `Accounted`, and `Closed` (a stream that is not open has no batch), what passed is delivered, lost or in the
open batch.

**SparkplugProofs**: a key without a session is as good as a fresh session, so every step is
one log entry that changes the session of one key and resets those it evicts (`StepOf`).
Three invariants say that the table knows what the log says: the bdSeq of the BIRTH in effect
(`BirthKnown`), whether the anomaly was raised (`GapKnown`), and for each alias the name it
was last given (`NameKnown`). They give `StaleBirthsDropped`, `GapOncePerEpoch` and
`ResolvesWithinSession`; `SessionsBounded` follows from counting the table when room is made.
`IdleSessionsSwept` follows from `SweepKnown`: the publishes since the last sweep are as many as the
counter says, fewer than `SweepEvery`, and what a sweep left is young or was spoken for since. All hold
for any packets, brokers, times, time to live, cap and sweep period, under the assumption
that exactly one end of a flow has an MQTT port.

**LoopsProofs**: `StaysInside` for every payload of bytes, every offset and every capture file
(`InputsAssumption`: payloads are bytes, a packet is read from its start, a file is its blocks and ends
within them), and `AtHeaders`, that the capture reader never loses its place between blocks. The invariant
`LoopKept` has a clause for each kind of reader: all have read inside their payload (`Inside`); a name that
followed a pointer knows its end, one that did not is at or behind its start (`InName`); between turns the
packet's cursor is at its start or behind the IPv6 header (`InPacket`); the reader of a file is at the
sum of the sizes of the blocks it passed (`InFile`). One lemma per loop shows that a turn keeps it.

**Lists** holds facts on sequences and on the size of finite sets, and that a nonempty set of naturals has
a least element, which stands in for induction: a recursive function is reasoned about at the least number
where it would differ. `InLineStep` says of any two sequences and sets that a step of `Delivery` keeps them in
line; `TableProofs` and `EngineReportProofs` both use it. The facts on
cardinality are proved from its definition: a set has n elements when the numbers up to n count it (`Sized`),
only one number does (`SizedOnce`), and that is what `Cardinality` gives (`CardinalityIsSize`).

## 6. What is only model-checked

* `ToldOnce`, `ResponsesPaired`, `TablesKept`, `NamesFollowCreates`, `ChunkingIsInvisible` and the
  properties of `Sessions` (run `decoders`), and `CutIsAccounted`, `WholeIsEnough` and `MoreIsTold` (run `parsing`): the
  decoders are operators that fold a chunk's items, and flatten and filter what they gave; what a fold
  computes for every input takes an induction over data that is out of the prover's reach.
* `ReadsAsWritten` and `PacketsAsWritten` (run `parsing`): the reference they compare with is recursive, and
  what the loops tell is the whole of their run, not of a step.
* Everything the violations show, which is about existence.
* Liveness: `Terminates` of `parsing`.
* `NamesFollowCreates` follows the names of files; the paths of trees that SMB2 keeps beside them are in the
  model and no property speaks of them. `PacketsAsWritten` speaks of capture files with one section.

## 7. What is not modelled

Left out of the models that exist: bilgepump's state in `Engine` (its alerts are part of a frame there);
checksums; IPv4 fragments, which the engine treats like whole packets; the values of attributes and the
wording of anomalies; in `Engine`, all decoders but Modbus and WinRM, which appear as interests (each is
driven alone in `Decoders` or `Messages`: a decoder sees nothing of the others). The MQTT decoder looks
at the first packet of a segment only, so a step of `Sparkplug` is a segment. In the stateless decoders
a message is its header fields and the sizes of its parts; the bytes of the parts are in `Walkers`
where a loop takes its steps from them. Of the lists of entries that are read by a fixed step, the
decoders' modules have the entries.

Not modelled at all:

* the dissector registry and the classifier's name table: built once from literals, then a first-match
  search; `DpiSession` takes the answer as an input;
* stovetop and icmpeeker: threshold tests on one frame, entropy and checksums; `Engine` has their outcome
  as part of a frame;
* the renderers (Influx line protocol, OCSF, Zeek): formatting;
* the Bronze schema: data types and serialisation;
* CLI, FFI, Python binding, corpus tools: input and output around one call.
