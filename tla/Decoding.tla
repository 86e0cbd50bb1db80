------------------------------ MODULE Decoding ------------------------------
(***************************************************************************)
(* What the session decoders share: the events they push, the outcome of   *)
(* one call, and the tables and buffers they keep between calls.           *)
(*                                                                         *)
(* A decoder is a record of tables.  Each of its handlers (on_datagram,    *)
(* on_stream_chunk, on_idle_flush) is an operator from the tables and the  *)
(* chunk to the SET of outcomes the code may have: a choice only where the *)
(* code iterates over a hash map.  A chunk carries "no", the frame number  *)
(* of its envelope, so that an event tells which frame it reports.         *)
(***************************************************************************)
EXTENDS Integers, Sequences, FiniteSets, SequencesExt

To(s, out) == [state |-> s, out |-> out]

If(p, out) == IF p THEN out ELSE <<>>

\* The event families; "c" is the chunk, or the parked request, whose envelope it gets.
Event(family, c, what) == [family |-> family, frame |-> c.no, what |-> what]

Anomaly(c, severity) == <<Event("parse_anomaly", c, severity)>>

Asset(c, key) == <<Event("asset_observation", c, key)>>

Transaction(c, operation, status) == <<Event("protocol_transaction", c, <<operation, status>>)>>

Topology(c, type, local, remote) == <<Event("topology_observation", c, <<type, local, remote>>)>>

\* A transaction of a decoder that keeps no state, with the objects it names.
Told(c, operation, status, refs) ==
    <<Event("protocol_transaction", c, [operation |-> operation, status |-> status, refs |-> refs])>>

Artifact(c, kind) == <<Event("extracted_artifact", c, kind)>>

\* The key of a chunk's two ends: an IPv4 address, and the hardware address for anything else.
ContextAssetKey(c) == IF c.ip = "v4" THEN c.src ELSE c.smac

ContextRemoteAssetKey(c) == IF c.ip = "v4" THEN c.dst ELSE c.dmac

\* Operation codes are natural numbers; one label stands for all that have no name of their own.
Unknown == -1

\* The outcomes of calling a handler once for each of "items", in order.
Through(Handler(_, _), s, items) ==
    FoldLeft(LAMBDA rs, i : UNION {{To(q.state, r.out \o q.out) : q \in Handler(r.state, i)} : r \in rs},
             {To(s, <<>>)}, items)

\* Hash maps.
Insert(t, k, v) == [x \in DOMAIN t \cup {k} |-> IF x = k THEN v ELSE t[x]]

Without(t, K) == [x \in DOMAIN t \ K |-> t[x]]

Lookup(t, k, absent) == IF k \in DOMAIN t THEN t[k] ELSE absent

\* The orders in which a hash map may hand out the keys "K".
Orders(K) == {o \in [1..Cardinality(K) -> K] : IsInjective(o)}

\* What draining a table reports: every entry of "K", in some order, with one status.
Drained(t, K, status) ==
    {FlattenSeq([i \in DOMAIN o |-> Transaction(t[o[i]], t[o[i]].op, status)]) : o \in Orders(K)}

\* Time counts ticks; chrono's num_seconds drops the fraction, towards zero.
TicksPerSecond == 2

NumSeconds(d) == IF d >= 0 THEN d \div TicksPerSecond ELSE -((-d) \div TicksPerSecond)

\* A parse loop over items of which only "room" bytes were captured: it reads the items up to the
\* first whose needed bytes are not all there.
Within(items, Need(_), Size(_), room) ==
    LET At[n \in 0..Len(items)] == IF n = 0 THEN 0 ELSE At[n - 1] + Size(items[n])
    IN  SubSeq(items, 1, Max({n \in 0..Len(items) : \A m \in 1..n : At[m - 1] + Need(items[m]) <= room}))

\* The events of each item, in order.
ForEach(items, Of(_)) == FlattenSeq([n \in DOMAIN items |-> Of(items[n])])

(***************************************************************************)
(* A reassembly buffer is a sequence of units.  Each unit tells what a     *)
(* header read at it would say: "size" is the number of units its message  *)
(* would take, "min" the least number a header can be read from (at least  *)
(* one).  A unit that continues a message is also such a unit: what it     *)
(* says is what the decoder sees once it has lost the message's start.     *)
(***************************************************************************)
Starts(buf, min) ==
    LET From[n \in 0..Len(buf)] ==
            IF Len(buf) - n < min \/ Len(buf) - n < buf[n + 1].size
            THEN <<>>
            ELSE <<n + 1>> \o From[n + buf[n + 1].size]
    IN  From[0]

\* The headers of the messages a drain loop takes out, and what it leaves.
Frames(buf, min) == LET at == Starts(buf, min) IN [i \in DOMAIN at |-> buf[at[i]]]

Remainder(buf, min) ==
    LET at == Starts(buf, min)
    IN  IF at = <<>> THEN buf ELSE SubSeq(buf, Last(at) + buf[Last(at)].size, Len(buf))

\* A drain loop that may stop early.  A header that is not "Readable" never completes.  "Take"
\* handles one message and says whether the loop goes on; the rest stays in the buffer.
Taking(state, out, stop) == [state |-> state, out |-> out, stop |-> stop]

Drain(Take(_, _), Readable(_), s, buf, min) ==
    LET framed == [i \in DOMAIN buf |->
                      IF Readable(buf[i]) THEN buf[i] ELSE [buf[i] EXCEPT !.size = Len(buf) + 1]]
        Step(a, n) == LET t == Take(a.state, buf[n])
                      IN  IF a.stop THEN a
                          ELSE [state |-> t.state, out |-> a.out \o t.out, stop |-> t.stop, next |-> n + buf[n].size]
        r == FoldLeft(Step, [state |-> s, out |-> <<>>, stop |-> FALSE, next |-> 1], Starts(framed, min))
    IN  [state |-> r.state, out |-> r.out, stop |-> r.stop, rest |-> SubSeq(buf, r.next, Len(buf))]
=============================================================================
