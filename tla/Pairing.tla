------------------------------ MODULE Pairing -------------------------------
(*****************************************************************************)
(* What the decoders owe that pair requests with responses.                  *)
(*****************************************************************************)
EXTENDS Decoders

\* The requests that wait in a table, by key, as the frames they came in.
Parked(t) == {<<k, t[k].no>> : k \in DOMAIN t}

Waiting(d, s) ==
    CASE d = "dcerpc" -> {<<"bind", w>> : w \in Parked(s.binds)} \cup {<<"request", w>> : w \in Parked(s.reqs)}
      [] d = "ldap" -> UNION {{<<k, w>> : w \in Parked(s.sessions[k].pending)} : k \in DOMAIN s.sessions}
      [] OTHER -> {<<"request", w>> : w \in Parked(s.pending)}

Transactions == Of("protocol_transaction")

WaitsBefore(j) == Waiting(decoder, log[j].before)

WaitsAfter(j) == Waiting(decoder, After(j))

\* The decoders that report a request when it is answered or given up.
ReportLate == {"ads", "melsec", "umas", "roc_plus", "ge_srtp", "modbus_udp", "dcerpc"}

\* The ones among them whose chunks hold one frame, and what the protocol pairs by: the
\* identity of the request a chunk makes, and of the request it answers.
OneFrame == ReportLate \ {"ads"}

RequestId(c) ==
    CASE decoder = "melsec" -> <<c.session, c.serial>>
      [] decoder = "umas" -> <<c.session, c.pair_id>>
      [] decoder = "roc_plus" -> <<c.session, c.from, c.to, c.opcode>>
      [] decoder = "ge_srtp" -> <<c.session, c.seq>>
      [] decoder = "modbus_udp" -> <<c.src, c.dst, c.txn>>
      [] decoder = "dcerpc" -> <<c.session, c.call_id, c.ptype \in {"request", "response", "fault"}>>

AnswerId(c) ==
    CASE decoder = "roc_plus" -> <<c.session, c.to, c.from, c.opcode>>
      [] decoder = "modbus_udp" -> <<c.dst, c.src, c.txn>>
      [] OTHER -> RequestId(c)

\* The requests that wait, as the frames they came in.
WaitingFrames(waits) == {w[2][2] : w \in waits}

\* The tables hold frames that came, in an order the decoder's own bookkeeping agrees with:
\* the queue beside the Modbus/UDP table lists exactly its keys, oldest first.
QueueInStep ==
    /\ decoder \in ReportLate => WaitingFrames(Waiting(decoder, state)) \subseteq Steps
    /\ decoder = "modbus_udp" =>
        /\ ToSet(state.order) = DOMAIN state.pending
        /\ \A i, j \in DOMAIN state.order :
                i < j => state.pending[state.order[i]].no < state.pending[state.order[j]].no

\* The number of frames that end in the i-th chunk.
Carried(i) ==
    IF decoder = "ads"
    THEN LET upto(n) == Len(Frames(Payloads(SelectSeq(AllSteps, LAMBDA m : m <= n)), OtPairing!AdsMinFrame))
         IN  upto(i) - upto(i - 1)
    ELSE 1

\* A frame is reported once: a request by the response that takes it out of the table or by
\* the flush that gives it up, never by both, and no response is reported twice.  Only ROC
\* Plus, which reports a frame when it parks it, may report it once more.
ReportedOnce ==
    decoder \in ReportLate =>
        \A i \in Steps :
            Len(SelectSeq(Transactions, LAMBDA x : x.event.frame = i))
                <= IF decoder = "roc_plus" THEN 2 ELSE Carried(i)

\* A response is reported with the envelope of a request it answers, and of several with
\* the same identity it is the last: never another session's, never an overwritten one.
PairsLatest ==
    decoder \in OneFrame =>
        \A x \in ToSet(Transactions) :
            LET i == x.event.frame
                j == x.step
            IN  i < j /\ ~log[j].in.flush =>
                    /\ RequestId(log[i].in) = AnswerId(log[j].in)
                    /\ \A k \in (i + 1)..(j - 1) :
                            k \in WaitingFrames(WaitsAfter(k)) => RequestId(log[k].in) # RequestId(log[i].in)

\* A response is reported as an orphan only if no request it answers was waiting.
OrphansAreReal ==
    decoder \in OneFrame =>
        \A x \in ToSet(Transactions) :
            x.event.what[2] = "response_only" =>
                \A i \in WaitingFrames(WaitsBefore(x.step)) : RequestId(log[i].in) # AnswerId(log[x.step].in)

Full(j) ==
    \/ decoder = "ads" /\ Cardinality(WaitsBefore(j) \cup WaitsAfter(j)) > AdsPendingCap
    \/ decoder = "modbus_udp" /\ Cardinality(WaitsBefore(j) \cup WaitsAfter(j)) > MaxPending

\* A request leaves the table of a decoder that reports it late only by being reported, by
\* being replaced by a later request with its key, or, in the two tables that have a bound,
\* by eviction when the table is full.
LeavesForAReason ==
    decoder \in ReportLate =>
        \A j \in Steps : \A w \in WaitsBefore(j) \ WaitsAfter(j) :
            \/ \E p \in DOMAIN log[j].out :
                    log[j].out[p].family = "protocol_transaction" /\ log[j].out[p].frame = w[2][2]
            \/ \E v \in WaitsAfter(j) : v[1] = w[1] /\ v[2][1] = w[2][1]
            \/ Full(j)

\* An idle flush leaves nothing waiting in a decoder that reports late, but for the
\* requests dated a whole second or more after the flush.
FlushEmpties ==
    decoder \in ReportLate =>
        \A j \in Steps : log[j].in.flush =>
            \A i \in WaitingFrames(WaitsAfter(j)) :
                decoder \in {"melsec", "dcerpc"} /\ log[i].in.ts - log[j].in.ts >= TicksPerSecond

\* The tables that the code bounds keep their bound: the waiting requests of ADS and
\* Modbus/UDP, and the names of open files that an SMB2 session keeps.
BoundsKept ==
    /\ decoder = "ads" => Cardinality(DOMAIN state.pending) <= AdsPendingCap
    /\ decoder = "modbus_udp" => Cardinality(DOMAIN state.pending) <= MaxPending
    /\ decoder = "smb2" =>
        \A k \in DOMAIN state.sessions : Cardinality(DOMAIN state.sessions[k].file_names) <= MaxFileNames

\* The waiting requests of SMB2 have no bound, although smb2.rs speaks of an "LRU-bounded
\* pending-request map": the table holds every request that its session has not answered
\* since, and no other, until the decoder goes.
UnansweredWait ==
    decoder = "smb2" =>
        LET t == Transactions
            Id(n) == <<log[t[n].step].in.session, t[n].event.what.id>>
            Asks(n) == t[n].event.what.status = "request_pending"
        IN  DOMAIN state.pending =
                {Id(n) : n \in {m \in DOMAIN t : /\ Asks(m)
                                                 /\ \A l \in m + 1 .. Len(t) : Id(l) = Id(m) => Asks(l)}}

Assets == Of("asset_observation")

\* What makes two asset observations the same one, for the decoders that report each once.
AssetId(x) ==
    CASE decoder \in {"ads", "melsec"} -> x.event.what
      [] decoder = "smb2" -> log[x.step].in.session
      [] decoder = "ldap" -> <<log[x.step].in.session, 636 \in {log[x.step].in.sport, log[x.step].in.dport}>>
      [] decoder = "diameter" -> 5868 \in {log[x.step].in.sport, log[x.step].in.dport}

Announces(x) ==
    \/ decoder \in {"ads", "melsec", "smb2", "diameter"}
    \/ decoder = "ldap" /\ (x.event.what \notin {<<"client", log[x.step].in.src>>})

\* An ADS net id and a MELSEC CPU are observed once, an SMB2 and an LDAP server once per
\* session, a Diameter peer once for the life of the decoder.
PeersOnce ==
    \A m, n \in DOMAIN Assets :
        Announces(Assets[m]) /\ Announces(Assets[n]) /\ AssetId(Assets[m]) = AssetId(Assets[n]) => m = n

InSession(k) == SelectSeq(Transactions, LAMBDA x : log[x.step].in.session = k)

LastOf(S) == CHOOSE n \in S : \A m \in S : m <= n

Uses == {"close_request", "read_request", "write_request", "ioctl_request"}

\* A name on an SMB2 read, write, close or control request is the one the latest successful
\* CREATE of its own session gave that file id; and a CREATE response is named by the latest
\* request of its session that had its message id.
NamesFollowCreates ==
    decoder = "smb2" =>
        \A k \in DOMAIN state.buffers :
            LET t == InSession(k)
                Named(n) == {m \in 1..(n - 1) : /\ t[m].event.what.op = "create_response"
                                                /\ t[m].event.what.file # "none"
                                                /\ t[m].event.what.file_id = t[n].event.what.file_id}
                Asked(n) == {m \in 1..(n - 1) : /\ t[m].event.what.status = "request_pending"
                                                /\ t[m].event.what.id = t[n].event.what.id}
            IN  \A n \in DOMAIN t : LET e == t[n].event.what IN
                    /\ e.op \in Uses /\ e.file # "none" =>
                            Named(n) # {} /\ t[LastOf(Named(n))].event.what.file = e.file
                    /\ e.op = "create_response" /\ e.file # "none" =>
                            /\ Asked(n) # {}
                            /\ LET a == t[LastOf(Asked(n))].event.what
                               IN  e.file = IF a.op = "create_request" THEN a.file ELSE a.tree

-----------------------------------------------------------------------------
\* Nothing is told twice: no frame, whether request or response, and no asset.
ToldOnce == ReportedOnce /\ PeersOnce

\* Requests and responses meet: a response is told with the latest request it answers, and as
\* an orphan only if none was waiting.
ResponsesPaired == PairsLatest /\ OrphansAreReal

\* The tables of waiting requests: the queue beside a table stays in step with it, a request
\* leaves for a reason that the report shows, and a flush leaves none behind; what the code
\* bounds stays within its bound, and the SMB2 table, which it does not, holds exactly the
\* requests that are still unanswered.
TablesKept == QueueInStep /\ BoundsKept /\ UnansweredWait /\ LeavesForAReason /\ FlushEmpties
=============================================================================
