------------------------- MODULE EngineReportProofs -------------------------
(***************************************************************************)
(* What Engine reports: of the Modbus requests, and of the frames that     *)
(* nothing claims, whatever the deduplication keeps from the sink.         *)
(***************************************************************************)
EXTENDS EngineProofs

-----------------------------------------------------------------------------
(* The Modbus requests and what is reported of them.                       *)

\* IsModbus and LoggedChunk for a log l.
ModbusIn(l, i) == Claims(ModbusInterest, l[i].frame) /\ l[i].frame.body.ok
ChunkIn(l, i) == Chunk(l[i].frame, l[i].ts, i)

\* Frame q is a request with key k, and the last frame so far with that key.
Waits(l, q, k) ==
    /\ ModbusIn(l, q) /\ IsRequest(ChunkIn(l, q)) /\ Key(ChunkIn(l, q)) = k
    /\ \A i \in q + 1 .. Len(l) : ModbusIn(l, i) => Key(ChunkIn(l, i)) # k

\* Frame r answers the request q, with nothing of that key between them.
Latest(l, q, r) ==
    /\ q \in 1 .. r - 1 /\ r \in 1 .. Len(l)
    /\ ModbusIn(l, q) /\ IsRequest(ChunkIn(l, q))
    /\ ModbusIn(l, r) /\ ~IsRequest(ChunkIn(l, r))
    /\ Key(ChunkIn(l, q)) = Key(ChunkIn(l, r))
    /\ \A i \in q + 1 .. r - 1 : ModbusIn(l, i) => Key(ChunkIn(l, i)) # Key(ChunkIn(l, r))

\* The events e report no request twice, and the request q not at all.
Once(e) ==
    \A i, j \in 1 .. Len(e) :
        Report(e[i]) /\ Report(e[j]) /\ e[i].req = e[j].req => i = j
Unreported(e, q) == \A i \in 1 .. Len(e) : Report(e[i]) => e[i].req # q

\* What event e reports is in the log l.
Logged(l, e) ==
    /\ Report(e) => e.req \in 1 .. Len(l)
    /\ e.what = "paired" => Latest(l, e.req, e.resp)

\* The table holds requests that wait and were not reported yet; what was
\* reported is in the log.
Requests ==
    /\ \A k \in DOMAIN modbus :
            Waits(log, modbus[k].no, k) /\ Unreported(made, modbus[k].no)
    /\ \A n \in 1 .. Len(made) : Logged(log, made[n])
    /\ Once(made)

LEMMA RequestsSuffice ==
    ASSUME Requests
    PROVE  ReportedOnce /\ PairsLatest
<1>1. ReportedOnce
  BY Zenon DEF Requests, ReportedOnce, Once, Report, Number
<1>2. PairsLatest
  BY Zenon DEF Requests, PairsLatest, Logged, Latest, Number, IsModbus, LoggedChunk, ModbusIn, ChunkIn
<1> QED BY <1>1, <1>2, Zenon

\* A longer log.
LEMMA LogGrows ==
    ASSUME NEW l, NEW m, Len(l) \in Nat, Len(m) = Len(l) + 1,
           \A i \in 1 .. Len(l) : m[i] = l[i]
    PROVE  /\ \A q, r : Latest(l, q, r) => Latest(m, q, r)
           /\ \A q, k : /\ q \in 1 .. Len(l) /\ Waits(l, q, k)
                        /\ ModbusIn(m, Len(l) + 1) => Key(ChunkIn(m, Len(l) + 1)) # k
                        => Waits(m, q, k)
<1>1. \A i \in 1 .. Len(l) :
        (ModbusIn(m, i) <=> ModbusIn(l, i)) /\ ChunkIn(m, i) = ChunkIn(l, i)
  BY Zenon DEF ModbusIn, ChunkIn
<1>2. ASSUME NEW q, NEW r, Latest(l, q, r)
      PROVE  Latest(m, q, r)
  <2>1. q \in 1 .. r - 1 /\ r \in 1 .. Len(l)
    BY <1>2, Zenon DEF Latest
  <2>2. r \in 1 .. Len(m) /\ q \in 1 .. Len(l)
        /\ \A i \in q + 1 .. r - 1 : i \in 1 .. Len(l)
    BY <2>1
  <2> QED BY <1>1, <1>2, <2>1, <2>2, Zenon DEF Latest
<1>3. ASSUME NEW q, NEW k, q \in 1 .. Len(l), Waits(l, q, k),
             ModbusIn(m, Len(l) + 1) => Key(ChunkIn(m, Len(l) + 1)) # k
      PROVE  Waits(m, q, k)
  <2>1. ASSUME NEW i \in q + 1 .. Len(m), ModbusIn(m, i)
        PROVE  Key(ChunkIn(m, i)) # k
    <3>1. i = Len(l) + 1 \/ (i \in q + 1 .. Len(l) /\ i \in 1 .. Len(l))
      BY <1>3
    <3> QED BY <3>1, <2>1, <1>1, <1>3, Zenon DEF Waits
  <2> QED BY <2>1, <1>1, <1>3, Zenon DEF Waits
<1> QED BY <1>2, <1>3, Zenon

\* More events.
LEMMA EventsGrow ==
    ASSUME NEW e, NEW s, IsList(e), IsList(s)
    PROVE  /\ \A q : Unreported(e, q) /\ Unreported(s, q) => Unreported(e \o s, q)
           /\ /\ Once(e) /\ Once(s)
              /\ \A i \in 1 .. Len(s) : Report(s[i]) => Unreported(e, s[i].req)
              => Once(e \o s)
<1> DEFINE t == e \o s
<1>1. Len(e) \in Nat /\ Len(s) \in Nat
  BY ListLen, Zenon
<1>2. \A i \in 1 .. Len(t) :
            IF i <= Len(e) THEN t[i] = e[i]
            ELSE i - Len(e) \in 1 .. Len(s) /\ t[i] = s[i - Len(e)]
  BY ListConcat, Zenon
<1>3. Len(t) = Len(e) + Len(s)
  BY ListConcat, Zenon
<1> HIDE DEF t
<1>4. ASSUME NEW i \in 1 .. Len(t)
      PROVE  \/ i \in 1 .. Len(e) /\ t[i] = e[i]
             \/ i - Len(e) \in 1 .. Len(s) /\ t[i] = s[i - Len(e)]
  <2>1. i <= Len(e) => i \in 1 .. Len(e)
    BY <1>1, <1>3, SMTT(30)
  <2> QED BY <1>2, <2>1, Zenon
<1>5. ASSUME NEW q, Unreported(e, q), Unreported(s, q)
      PROVE  Unreported(t, q)
  BY <1>4, <1>5, Zenon DEF Unreported
<1>6. ASSUME Once(e), Once(s),
             \A i \in 1 .. Len(s) : Report(s[i]) => Unreported(e, s[i].req),
             NEW i \in 1 .. Len(t), NEW j \in 1 .. Len(t),
             Report(t[i]), Report(t[j]), t[i].req = t[j].req
      PROVE  i = j
  <2>1. CASE i \in 1 .. Len(e) /\ t[i] = e[i] /\ j \in 1 .. Len(e) /\ t[j] = e[j]
    BY <1>6, <2>1, Zenon DEF Once
  <2>2. CASE /\ i - Len(e) \in 1 .. Len(s) /\ t[i] = s[i - Len(e)]
             /\ j - Len(e) \in 1 .. Len(s) /\ t[j] = s[j - Len(e)]
    <3>1. i - Len(e) = j - Len(e)
      BY <1>6, <2>2, Zenon DEF Once
    <3> QED BY <3>1, <1>1, <1>3, SMTT(30)
  <2>3. CASE /\ i \in 1 .. Len(e) /\ t[i] = e[i]
             /\ j - Len(e) \in 1 .. Len(s) /\ t[j] = s[j - Len(e)]
    BY <1>6, <2>3, Zenon DEF Unreported
  <2>4. CASE /\ j \in 1 .. Len(e) /\ t[j] = e[j]
             /\ i - Len(e) \in 1 .. Len(s) /\ t[i] = s[i - Len(e)]
    BY <1>6, <2>4, Zenon DEF Unreported
  <2> QED BY <1>4, <2>1, <2>2, <2>3, <2>4, Zenon
<1>7. ASSUME Once(e), Once(s),
             \A i \in 1 .. Len(s) : Report(s[i]) => Unreported(e, s[i].req)
      PROVE  Once(t)
  BY <1>6, <1>7, Zenon DEF Once
<1> QED BY <1>5, <1>7, Zenon DEF t

LEMMA LoggedConcat ==
    ASSUME NEW e, NEW s, IsList(e), IsList(s), NEW l,
           \A i \in 1 .. Len(e) : Logged(l, e[i]),
           \A i \in 1 .. Len(s) : Logged(l, s[i])
    PROVE  \A i \in 1 .. Len(e \o s) : Logged(l, (e \o s)[i])
<1> TAKE i \in 1 .. Len(e \o s)
<1>1. Len(e) \in Nat
  BY ListLen, Zenon
<1>2. IF i <= Len(e) THEN (e \o s)[i] = e[i]
      ELSE i - Len(e) \in 1 .. Len(s) /\ (e \o s)[i] = s[i - Len(e)]
  BY ListConcat, Zenon
<1>3. i <= Len(e) => i \in 1 .. Len(e)
  <2>1. Len(e \o s) = Len(e) + Len(s) /\ Len(s) \in Nat
    BY ListConcat, ListLen, Zenon
  <2> QED BY <1>1, <2>1
<1> QED BY <1>2, <1>3, Zenon

\* The reports among the events of one frame.
LEMMA QuietReports ==
    ASSUME NEW s, NEW l, Quiet(s)
    PROVE  /\ IsList(s) /\ Once(s) /\ \A q : Unreported(s, q)
           /\ \A i \in 1 .. Len(s) : ~Report(s[i]) /\ Logged(l, s[i])
BY Zenon DEF Quiet, Once, Unreported, Logged, Report

LEMMA PairReports ==
    ASSUME NEW s, NEW l, NEW q, NEW r, OnePair(s, q, r), q \in 1 .. Len(l), Latest(l, q, r)
    PROVE  /\ IsList(s) /\ Once(s) /\ \A x : x # q => Unreported(s, x)
           /\ \A i \in 1 .. Len(s) : Logged(l, s[i]) /\ (Report(s[i]) => s[i].req = q)
<1>1. PICK k \in 1 .. Len(s) :
        /\ s[k].what = "paired" /\ s[k].req = q /\ s[k].resp = r
        /\ \A i \in 1 .. Len(s) : i # k => ~Report(s[i])
  BY Zenon DEF OnePair
<1>2. ASSUME NEW i \in 1 .. Len(s)
      PROVE  Logged(l, s[i]) /\ (Report(s[i]) => s[i].req = q)
  <2>1. CASE i = k
    BY <1>1, <2>1, Zenon DEF Logged
  <2>2. CASE i # k
    BY <1>1, <2>2, Zenon DEF Logged, Report
  <2> QED BY <2>1, <2>2, Zenon
<1>3. Once(s)
  BY <1>1, Zenon DEF Once
<1>4. \A x : x # q => Unreported(s, x)
  BY <1>2, Zenon DEF Unreported
<1>5. IsList(s)
  BY Zenon DEF OnePair
<1> QED BY <1>2, <1>3, <1>4, <1>5, Zenon

\* A frame keeps Requests: a request that is pended is new, and a request
\* that is answered leaves the table.
LEMMA PushRequests ==
    ASSUME TypeInv, Requests, NEW f \in Frame, NEW ts \in Time, Push(f, ts)
    PROVE  Requests'
<1> DEFINE n == Len(log) + 1
           c == Chunk(f, ts, n)
           s == FrameEvents(f, ts, n)
<1>1. /\ Len(log) \in Nat /\ Len(log') = n
      /\ log'[n] = [frame |-> f, ts |-> ts]
      /\ \A i \in 1 .. Len(log) : log'[i] = log[i]
  BY TableTyped, Zenon
<1>2. /\ \A q, r : Latest(log, q, r) => Latest(log', q, r)
      /\ \A q, k : /\ q \in 1 .. Len(log) /\ Waits(log, q, k)
                   /\ ModbusIn(log', n) => Key(ChunkIn(log', n)) # k
                   => Waits(log', q, k)
  BY <1>1, LogGrows, Zenon
<1>3. ChunkIn(log', n) = c /\ (ModbusIn(log', n) <=> Claims(ModbusInterest, f) /\ c.body.ok)
  <2>1. log'[n].frame = f /\ log'[n].ts = ts
    BY <1>1
  <2>2. c.body = f.body
    BY Zenon DEF Chunk
  <2> QED BY <2>1, <2>2, Zenon DEF ChunkIn, ModbusIn
<1>4. /\ modbus' = IF Claims(ModbusInterest, f) THEN AfterChunk(modbus, c) ELSE modbus
      /\ made' = made \o s
  BY Zenon DEF Push, Ingest
<1>5. c.no = n
  BY Zenon DEF Chunk
<1>6. IsList(made) /\ IsList(log)
      /\ \A k \in DOMAIN modbus : modbus[k].no \in 1 .. Len(log)
  BY Zenon DEF TypeInv, TypeOK
<1>7. \A q : q \in 1 .. Len(log) => q \in 1 .. Len(log') /\ q # n
  BY <1>1
<1>8. ASSUME NEW i \in 1 .. Len(made) PROVE Logged(log', made[i])
  <2>1. Logged(log, made[i])
    BY Zenon DEF Requests
  <2> HIDE DEF n, c, s
  <2> QED BY <1>2, <1>7, <2>1, Zenon DEF Logged
<1>9. \A k \in DOMAIN modbus :
        Waits(log, modbus[k].no, k) /\ Unreported(made, modbus[k].no)
  BY Zenon DEF Requests
<1>10. IF Answers(f, ts, n) THEN OnePair(s, modbus[Key(c)].no, n) ELSE Quiet(s)
  <2>1. \A k \in DOMAIN modbus : modbus[k].ts \in Time
    BY Zenon DEF TypeInv, TypeOK
  <2> QED BY <2>1, FrameReports, Zenon
<1>11. Answers(f, ts, n) <=>
        /\ Claims(ModbusInterest, f) /\ c.body.ok /\ ~IsRequest(c)
        /\ Key(c) \in DOMAIN modbus
  BY Zenon DEF Answers
<1>12. Unreported(made, n)
  BY <1>7, Zenon DEF Requests, Unreported, Logged
<1> HIDE DEF c, s, n
<1>13. SUFFICES /\ IsList(s) /\ Once(s)
                /\ \A i \in 1 .. Len(s) :
                    /\ Logged(log', s[i])
                    /\ Report(s[i]) => Unreported(made, s[i].req)
                /\ \A k \in DOMAIN modbus' :
                    /\ Waits(log', modbus'[k].no, k)
                    /\ Unreported(made, modbus'[k].no) /\ Unreported(s, modbus'[k].no)
  <2>1. Once(made')
    BY <1>4, <1>6, <1>13, EventsGrow, Zenon DEF Requests
  <2>2. \A k \in DOMAIN modbus' : Unreported(made', modbus'[k].no)
    BY <1>4, <1>6, <1>13, EventsGrow, Zenon
  <2>3. \A i \in 1 .. Len(made') : Logged(log', made'[i])
    BY <1>4, <1>6, <1>8, <1>13, LoggedConcat, Zenon
  <2> QED BY <1>13, <2>1, <2>2, <2>3, Zenon DEF Requests
<1>14. CASE ~(Claims(ModbusInterest, f) /\ c.body.ok)
  <2>1. modbus' = modbus
    BY <1>4, <1>14, Zenon DEF AfterChunk
  <2>2. Quiet(s)
    BY <1>10, <1>11, <1>14, Zenon
  <2>3. \A k \in DOMAIN modbus : Waits(log', modbus[k].no, k)
    BY <1>2, <1>3, <1>6, <1>9, <1>14, Zenon
  <2> QED BY <1>9, <2>1, <2>2, <2>3, QuietReports, Zenon
<1>15. CASE Claims(ModbusInterest, f) /\ c.body.ok /\ IsRequest(c)
  <2>1. modbus' = Pend(modbus, c)
    BY <1>4, <1>15, Zenon DEF AfterChunk
  <2>2. /\ DOMAIN modbus' = DOMAIN modbus \cup {Key(c)}
        /\ modbus'[Key(c)].no = n
        /\ \A k \in DOMAIN modbus : k # Key(c) => modbus'[k] = modbus[k]
    BY <1>5, <2>1, Zenon DEF Pend
  <2>3. Quiet(s)
    BY <1>10, <1>11, <1>15, Zenon
  <2>4. Waits(log', n, Key(c))
    <3>1. \A i \in n + 1 .. Len(log') : FALSE
      BY <1>1 DEF n
    <3> QED BY <1>3, <1>15, <3>1, Zenon DEF Waits
  <2>5. ASSUME NEW k \in DOMAIN modbus, k # Key(c)
        PROVE  Waits(log', modbus[k].no, k)
    BY <1>2, <1>3, <1>6, <1>9, <2>5, Zenon
  <2>6. ASSUME NEW k \in DOMAIN modbus'
        PROVE  Waits(log', modbus'[k].no, k) /\ Unreported(made, modbus'[k].no)
    <3>1. CASE k = Key(c)
      BY <1>12, <2>2, <2>4, <3>1, Zenon
    <3>2. CASE k # Key(c)
      BY <1>9, <2>2, <2>5, <3>2, Zenon
    <3> QED BY <3>1, <3>2, Zenon
  <2> QED BY <2>3, <2>6, QuietReports, Zenon
<1>16. CASE Claims(ModbusInterest, f) /\ c.body.ok /\ ~IsRequest(c)
  <2>1. modbus' = Remove(modbus, {Key(c)})
    BY <1>4, <1>16, Zenon DEF AfterChunk
  <2>2. \A k \in DOMAIN modbus' :
            k \in DOMAIN modbus /\ k # Key(c) /\ modbus'[k] = modbus[k]
    BY <2>1, Zenon DEF Remove
  <2>3. ASSUME NEW k \in DOMAIN modbus'
        PROVE  Waits(log', modbus'[k].no, k) /\ Unreported(made, modbus'[k].no)
    BY <1>2, <1>3, <1>6, <1>9, <2>2, Zenon
  <2>4. CASE Key(c) \notin DOMAIN modbus
    <3>1. Quiet(s)
      BY <1>10, <1>11, <2>4, Zenon
    <3> QED BY <2>3, <3>1, QuietReports, Zenon
  <2>5. CASE Key(c) \in DOMAIN modbus
    <3> DEFINE q == modbus[Key(c)].no
    <3>1. OnePair(s, q, n)
      BY <1>10, <1>11, <1>16, <2>5, Zenon
    <3>2. q \in 1 .. Len(log) /\ Waits(log, q, Key(c)) /\ Unreported(made, q)
      BY <1>6, <1>9, <2>5, Zenon
    <3> HIDE DEF q
    <3>3. Latest(log', q, n)
      <4>1. q \in 1 .. n - 1 /\ n \in 1 .. Len(log')
            /\ \A i \in q + 1 .. n - 1 : i \in q + 1 .. Len(log) /\ i \in 1 .. Len(log)
        <5>1. Len(log) \in Nat /\ n = Len(log) + 1 /\ Len(log') = n /\ q \in 1 .. Len(log)
          BY <1>1, <3>2, Zenon DEF n
        <5> QED BY ONLY <5>1
      <4>2. \A i \in 1 .. Len(log) :
                (ModbusIn(log', i) <=> ModbusIn(log, i)) /\ ChunkIn(log', i) = ChunkIn(log, i)
        BY <1>1, Zenon DEF ModbusIn, ChunkIn
      <4> QED BY <1>3, <1>16, <3>2, <4>1, <4>2, Zenon DEF Latest, Waits
    <3>4. q \in 1 .. Len(log')
      BY <1>7, <3>2, Zenon
    <3>5. /\ IsList(s) /\ Once(s) /\ \A x : x # q => Unreported(s, x)
          /\ \A i \in 1 .. Len(s) : Logged(log', s[i]) /\ (Report(s[i]) => s[i].req = q)
      BY <3>1, <3>3, <3>4, PairReports, Zenon
    <3>6. ASSUME NEW k \in DOMAIN modbus'
          PROVE  modbus'[k].no # q
      <4>1. Waits(log, modbus[k].no, k) /\ k # Key(c) /\ modbus'[k] = modbus[k]
        BY <1>9, <2>2, Zenon
      <4> QED BY <3>2, <4>1, Zenon DEF Waits
    <3> QED BY <2>3, <3>2, <3>5, <3>6, Zenon
  <2> QED BY <2>4, <2>5, Zenon
<1> QED BY <1>14, <1>15, <1>16, Zenon

\* finalize_stream keeps Requests: each request it reports leaves the table.
LEMMA FinishRequests ==
    ASSUME TypeInv, Requests, NEW keys \in Orders(Expired(modbus, stream.last)),
           Finish(keys) \/ FinishRefused(keys)
    PROVE  Requests'
<1> DEFINE s == Partials(keys)
<1>1. /\ Len(keys) \in Nat
      /\ \A i \in 1 .. Len(keys) : keys[i] \in DOMAIN modbus
      /\ \A i, j \in 1 .. Len(keys) : keys[i] = keys[j] => i = j
      /\ IsList(s) /\ Len(s) = Len(keys)
  BY FinishMoves, Zenon
<1>2. /\ modbus' = Remove(modbus, Elements(keys)) /\ log' = log
      /\ made' = made \o s
  BY Zenon DEF Finish, FinishRefused, Drain, Partials
<1>3. \A i \in 1 .. Len(keys) :
        s[i].what = "partial" /\ s[i].req = modbus[keys[i]].no
  BY Zenon DEF Partials, Partial, FromRequest
<1> HIDE DEF s
<1>4. /\ IsList(made)
      /\ \A k \in DOMAIN modbus : modbus[k].no \in 1 .. Len(log)
  BY Zenon DEF TypeInv, TypeOK
<1>5. /\ \A k \in DOMAIN modbus :
            Waits(log, modbus[k].no, k) /\ Unreported(made, modbus[k].no)
      /\ \A n \in 1 .. Len(made) : Logged(log, made[n])
      /\ Once(made)
  BY Zenon DEF Requests
<1>6. \A k, l \in DOMAIN modbus : modbus[k].no = modbus[l].no => k = l
  BY <1>5, Zenon DEF Waits
<1>7. Once(s)
  BY <1>1, <1>3, <1>6 DEF Once
<1>8. \A i \in 1 .. Len(s) : Unreported(made, s[i].req) /\ Logged(log, s[i])
  BY <1>1, <1>3, <1>4, <1>5, Zenon DEF Logged
<1>9. \A k \in DOMAIN modbus' :
        k \in DOMAIN modbus /\ k \notin Elements(keys) /\ modbus'[k] = modbus[k]
  BY <1>2, Zenon DEF Remove
<1>10. ASSUME NEW k \in DOMAIN modbus'
       PROVE  Unreported(s, modbus'[k].no)
  <2>1. ASSUME NEW i \in 1 .. Len(s)
        PROVE  s[i].req # modbus'[k].no
    <3>1. keys[i] \in DOMAIN modbus /\ keys[i] \in Elements(keys)
          /\ s[i].req = modbus[keys[i]].no
      BY <1>1, <1>3, Zenon DEF Elements
    <3> QED BY <3>1, <1>6, <1>9
  <2> QED BY <2>1, Zenon DEF Unreported
<1>11. Once(made')
  BY <1>1, <1>2, <1>4, <1>5, <1>7, <1>8, EventsGrow, Zenon
<1>12. \A k \in DOMAIN modbus' : Unreported(made', modbus'[k].no)
  BY <1>1, <1>2, <1>4, <1>5, <1>9, <1>10, EventsGrow, Zenon
<1>13. \A i \in 1 .. Len(made') : Logged(log', made'[i])
  BY <1>1, <1>2, <1>4, <1>5, <1>8, LoggedConcat, Zenon
<1> QED BY <1>2, <1>5, <1>9, <1>11, <1>12, <1>13, Zenon DEF Requests

LEMMA RequestsInvariant == Spec => [](TypeInv /\ Requests)
<1>1. Init => TypeInv /\ Requests
  <2>1. Init => Requests
    BY DEF Init, Requests, NoRequests, Once
  <2> QED BY <2>1, InitType, Zenon
<1>2. ASSUME TypeInv, Requests, [Next]_vars
      PROVE  Requests'
  <2>1. ASSUME UNCHANGED <<modbus, log, made>>
        PROVE  Requests'
    BY <1>2, <2>1, Zenon DEF Requests
  <2>2. ASSUME NEW now \in WallClock, Open(now)
        PROVE  Requests'
    BY <2>1, <2>2, Zenon DEF Open
  <2>3. CASE Abandon
    BY <2>1, <2>3, Zenon DEF Abandon
  <2>4. CASE UNCHANGED vars
    BY <2>1, <2>4, Zenon DEF vars
  <2> QED BY <1>2, <2>2, <2>3, <2>4, PushRequests, FinishRequests, Zenon DEF Next
<1>3. TypeInv /\ Requests /\ [Next]_vars => (TypeInv /\ Requests)'
  BY <1>2, TypeStep, Zenon
<1> QED BY <1>1, <1>3, PTL DEF Spec

\* No Modbus request is reported twice, neither by two responses, nor by a
\* response and the idle flush, nor by the flushes of two streams.
THEOREM RequestsReportedOnce == Spec => []ReportedOnce
<1>1. TypeInv /\ Requests => ReportedOnce
  BY RequestsSuffice, Zenon
<1> QED BY <1>1, RequestsInvariant, PTL

\* A response is paired with the latest request of its session, transaction
\* and unit, however frames of other sessions and other streams intervene.
THEOREM ResponsesPairLatest == Spec => []PairsLatest
<1>1. TypeInv /\ Requests => PairsLatest
  BY RequestsSuffice, Zenon
<1> QED BY <1>1, RequestsInvariant, PTL

-----------------------------------------------------------------------------
(* No request is forgotten.                                                *)

\* A later request took the key of request q; the table t holds request q.
Superseded(l, q) ==
    \E j \in q + 1 .. Len(l) :
        ModbusIn(l, j) /\ IsRequest(ChunkIn(l, j)) /\ Key(ChunkIn(l, j)) = Key(ChunkIn(l, q))
Held(t, q) == \E k \in DOMAIN t : t[k].no = q

\* What became of request q.
Accountable(l, t, e, q) == Held(t, q) \/ ~Unreported(e, q) \/ Superseded(l, q)

AllKept ==
    \A q \in 1 .. Len(log) :
        ModbusIn(log, q) /\ IsRequest(ChunkIn(log, q)) => Accountable(log, modbus, made, q)

LEMMA AllKeptSuffices ==
    ASSUME AllKept
    PROVE  RequestsKept
BY Zenon
DEF AllKept, RequestsKept, Accountable, Held, Unreported, Superseded, Report, Number,
    IsModbus, LoggedChunk, ModbusIn, ChunkIn

\* What was reported stays reported.
LEMMA ReportsStay ==
    ASSUME NEW e, NEW s, IsList(e), IsList(s), NEW q,
           ~Unreported(e, q) \/ ~Unreported(s, q)
    PROVE  ~Unreported(e \o s, q)
<1> DEFINE t == e \o s
<1>1. /\ Len(e) \in Nat /\ Len(s) \in Nat /\ Len(t) = Len(e) + Len(s)
  BY ListConcat, ListLen, Zenon
<1>2. \A i \in 1 .. Len(t) :
            IF i <= Len(e) THEN t[i] = e[i]
            ELSE i - Len(e) \in 1 .. Len(s) /\ t[i] = s[i - Len(e)]
  BY ListConcat, Zenon
<1> HIDE DEF t
<1>3. \A i \in 1 .. Len(e) : i \in 1 .. Len(t) /\ i <= Len(e)
  BY <1>1
<1>4. \A i \in 1 .. Len(s) :
        /\ i + Len(e) \in 1 .. Len(t) /\ ~(i + Len(e) <= Len(e))
        /\ (i + Len(e)) - Len(e) = i
  BY <1>1
<1>5. \A i \in 1 .. Len(e) : i \in 1 .. Len(t) /\ t[i] = e[i]
  BY <1>2, <1>3, Zenon
<1>6. \A i \in 1 .. Len(s) : i + Len(e) \in 1 .. Len(t) /\ t[i + Len(e)] = s[i]
  BY <1>2, <1>4, Zenon
<1>7. ~Unreported(t, q)
  BY <1>5, <1>6, Zenon DEF Unreported
<1> QED BY <1>7, Zenon DEF t

\* A frame keeps every request: one that leaves the table is reported with its
\* response, or gives way to the new one.
LEMMA PushKept ==
    ASSUME TypeInv, Requests, AllKept, NEW f \in Frame, NEW ts \in Time, Push(f, ts)
    PROVE  AllKept'
<1> DEFINE n == Len(log) + 1
           c == Chunk(f, ts, n)
           s == FrameEvents(f, ts, n)
<1>1. /\ Len(log) \in Nat /\ Len(log') = n
      /\ log'[n] = [frame |-> f, ts |-> ts]
      /\ \A i \in 1 .. Len(log) : log'[i] = log[i]
  BY TableTyped, Zenon
<1>2. ChunkIn(log', n) = c /\ (ModbusIn(log', n) <=> Claims(ModbusInterest, f) /\ c.body.ok)
  <2>1. log'[n].frame = f /\ log'[n].ts = ts
    BY <1>1
  <2>2. c.body = f.body
    BY Zenon DEF Chunk
  <2> QED BY <2>1, <2>2, Zenon DEF ChunkIn, ModbusIn
<1>3. /\ modbus' = IF Claims(ModbusInterest, f) THEN AfterChunk(modbus, c) ELSE modbus
      /\ made' = made \o s
  BY Zenon DEF Push, Ingest
<1>4. c.no = n
  BY Zenon DEF Chunk
<1>5. IF Answers(f, ts, n) THEN OnePair(s, modbus[Key(c)].no, n) ELSE Quiet(s)
  <2>1. \A k \in DOMAIN modbus : modbus[k].ts \in Time
    BY Zenon DEF TypeInv, TypeOK
  <2> QED BY <2>1, FrameReports, Zenon
<1>6. Answers(f, ts, n) <=>
        /\ Claims(ModbusInterest, f) /\ c.body.ok /\ ~IsRequest(c)
        /\ Key(c) \in DOMAIN modbus
  BY Zenon DEF Answers
<1>7. IsList(made) /\ IsList(s)
  BY <1>5, Zenon DEF TypeInv, TypeOK, OnePair, Quiet
<1>8. \A i \in 1 .. Len(log) :
        (ModbusIn(log', i) <=> ModbusIn(log, i)) /\ ChunkIn(log', i) = ChunkIn(log, i)
  BY <1>1, Zenon DEF ModbusIn, ChunkIn
<1>9. \A q \in 1 .. Len(log) :
        /\ n \in q + 1 .. Len(log')
        /\ \A j \in q + 1 .. Len(log) : j \in q + 1 .. Len(log') /\ j \in 1 .. Len(log)
  BY <1>1
<1>10. \A q \in 1 .. Len(log') : q \in 1 .. Len(log) \/ q = n
  BY <1>1
<1> HIDE DEF n, c, s
<1>11. ASSUME NEW q \in 1 .. Len(log), Superseded(log, q)
       PROVE  Superseded(log', q)
  BY <1>8, <1>9, <1>11, Zenon DEF Superseded
<1>12. ASSUME NEW q, ~Unreported(made, q) \/ ~Unreported(s, q)
       PROVE  ~Unreported(made', q)
  BY <1>3, <1>7, <1>12, ReportsStay, Zenon
<1>13. ASSUME ModbusIn(log', n), IsRequest(ChunkIn(log', n))
       PROVE  modbus' = Pend(modbus, c) /\ Held(modbus', n)
  <2>1. modbus' = Pend(modbus, c)
    BY <1>2, <1>3, <1>13, Zenon DEF AfterChunk
  <2>2. Key(c) \in DOMAIN modbus' /\ modbus'[Key(c)].no = n
    BY <1>4, <2>1, Zenon DEF Pend
  <2> QED BY <2>1, <2>2, Zenon DEF Held
<1>14. ASSUME NEW k \in DOMAIN modbus,
              modbus[k].no \in 1 .. Len(log)
       PROVE  Accountable(log', modbus', made', modbus[k].no)
  <2> DEFINE q == modbus[k].no
  <2>1. Key(ChunkIn(log, q)) = k
    BY Zenon DEF Requests, Waits
  <2>2. CASE ~(Claims(ModbusInterest, f) /\ c.body.ok)
    <3>1. modbus' = modbus
      BY <1>3, <2>2, Zenon DEF AfterChunk
    <3> QED BY <3>1, Zenon DEF Accountable, Held
  <2>3. CASE Claims(ModbusInterest, f) /\ c.body.ok /\ IsRequest(c)
    <3>1. modbus' = Pend(modbus, c)
      BY <1>3, <2>3, Zenon DEF AfterChunk
    <3>2. CASE k # Key(c)
      <4>1. k \in DOMAIN modbus' /\ modbus'[k] = modbus[k]
        BY <3>1, <3>2, Zenon DEF Pend
      <4> QED BY <4>1, Zenon DEF Accountable, Held
    <3>3. CASE k = Key(c)
      <4>1. Superseded(log', q)
        BY <1>2, <1>8, <1>9, <1>14, <2>1, <2>3, <3>3, Zenon DEF Superseded
      <4> QED BY <4>1, Zenon DEF Accountable
    <3> QED BY <3>2, <3>3, Zenon
  <2>4. CASE Claims(ModbusInterest, f) /\ c.body.ok /\ ~IsRequest(c)
    <3>1. modbus' = Remove(modbus, {Key(c)})
      BY <1>3, <2>4, Zenon DEF AfterChunk
    <3>2. CASE k # Key(c)
      <4>1. k \in DOMAIN modbus' /\ modbus'[k] = modbus[k]
        BY <3>1, <3>2, Zenon DEF Remove
      <4> QED BY <4>1, Zenon DEF Accountable, Held
    <3>3. CASE k = Key(c)
      <4>1. OnePair(s, q, n)
        BY <1>5, <1>6, <2>4, <3>3, Zenon
      <4>2. ~Unreported(s, q)
        BY <4>1, Zenon DEF OnePair, Unreported, Report
      <4>3. ~Unreported(made', q)
        BY <1>12, <4>2, Zenon
      <4> QED BY <4>3, Zenon DEF Accountable
    <3> QED BY <3>2, <3>3, Zenon
  <2> QED BY <2>2, <2>3, <2>4, Zenon
<1>15. ASSUME NEW q \in 1 .. Len(log'), ModbusIn(log', q), IsRequest(ChunkIn(log', q))
       PROVE  Accountable(log', modbus', made', q)
  <2>1. CASE q = n
    BY <1>13, <1>15, <2>1, Zenon DEF Accountable
  <2>2. CASE q \in 1 .. Len(log)
    <3>1. Accountable(log, modbus, made, q)
      BY <1>8, <1>15, <2>2, Zenon DEF AllKept
    <3>2. CASE Held(modbus, q)
      BY <1>14, <2>2, <3>2, Zenon DEF Held
    <3>3. CASE ~Unreported(made, q)
      BY <1>12, <3>3, Zenon DEF Accountable
    <3>4. CASE Superseded(log, q)
      BY <1>11, <2>2, <3>4, Zenon DEF Accountable
    <3> QED BY <3>1, <3>2, <3>3, <3>4, Zenon DEF Accountable
  <2> QED BY <1>10, <2>1, <2>2, Zenon
<1> QED BY <1>15, Zenon DEF AllKept

\* finalize_stream keeps every request: those that it takes are reported.
LEMMA FinishKept ==
    ASSUME TypeInv, AllKept, NEW keys \in Orders(Expired(modbus, stream.last)),
           Finish(keys) \/ FinishRefused(keys)
    PROVE  AllKept'
<1> DEFINE s == Partials(keys)
<1>1. IsList(s) /\ Len(s) = Len(keys) /\ IsList(made)
  BY FinishMoves, Zenon DEF TypeInv, TypeOK
<1>2. /\ modbus' = Remove(modbus, Elements(keys)) /\ log' = log
      /\ made' = made \o s
  BY Zenon DEF Finish, FinishRefused, Drain, Partials
<1>3. \A i \in 1 .. Len(keys) : Report(s[i]) /\ s[i].req = modbus[keys[i]].no
  BY Zenon DEF Partials, Partial, FromRequest, Report
<1> HIDE DEF s
<1>4. ASSUME NEW q, ~Unreported(made, q) \/ ~Unreported(s, q)
      PROVE  ~Unreported(made', q)
  BY <1>1, <1>2, <1>4, ReportsStay, Zenon
<1>5. ASSUME NEW k \in DOMAIN modbus
      PROVE  Held(modbus', modbus[k].no) \/ ~Unreported(s, modbus[k].no)
  <2>1. CASE k \in Elements(keys)
    BY <1>1, <1>3, <2>1, Zenon DEF Elements, Unreported
  <2>2. CASE k \notin Elements(keys)
    <3>1. k \in DOMAIN modbus' /\ modbus'[k] = modbus[k]
      BY <1>2, <2>2, Zenon DEF Remove
    <3> QED BY <3>1, Zenon DEF Held
  <2> QED BY <2>1, <2>2, Zenon
<1>6. ASSUME NEW q, Accountable(log, modbus, made, q)
      PROVE  Accountable(log, modbus', made', q)
  <2>1. CASE Held(modbus, q)
    BY <1>4, <1>5, <2>1, Zenon DEF Held, Accountable
  <2>2. CASE ~Unreported(made, q)
    BY <1>4, <2>2, Zenon DEF Accountable
  <2>3. CASE Superseded(log, q)
    BY <2>3, Zenon DEF Accountable
  <2> QED BY <1>6, <2>1, <2>2, <2>3, Zenon DEF Accountable
<1> QED BY <1>2, <1>6, Zenon DEF AllKept

\* No Modbus request is forgotten, however many streams are finished, refused
\* or abandoned: until it is reported or a later request takes its key it
\* waits in the table, where the next flush finds it.
THEOREM RequestsAreKept == Spec => []RequestsKept
<1>1. Init => AllKept
  BY DEF Init, AllKept
<1>2. ASSUME TypeInv, Requests, AllKept, [Next]_vars
      PROVE  AllKept'
  <2>1. ASSUME UNCHANGED <<modbus, log, made>>
        PROVE  AllKept'
    BY <1>2, <2>1, Zenon DEF AllKept
  <2>2. ASSUME NEW now \in WallClock, Open(now)
        PROVE  AllKept'
    BY <2>1, <2>2, Zenon DEF Open
  <2>3. CASE Abandon
    BY <2>1, <2>3, Zenon DEF Abandon
  <2>4. CASE UNCHANGED vars
    BY <2>1, <2>4, Zenon DEF vars
  <2> QED BY <1>2, <2>2, <2>3, <2>4, PushKept, FinishKept, Zenon DEF Next
<1>3. (TypeInv /\ Requests) /\ AllKept /\ [Next]_vars => AllKept'
  BY <1>2, Zenon
<1>4. AllKept => RequestsKept
  BY AllKeptSuffices, Zenon
<1> QED BY <1>1, <1>3, <1>4, RequestsInvariant, PTL DEF Spec

-----------------------------------------------------------------------------
(* What the deduplication keeps from the sink.                             *)

\* The hash that should_emit looks up for an event.
HashOf(e) == Hash(e.ts, e)

\* An event with the hash h passed the deduplication.
Passed(events, drops, h) ==
    \E n \in 1 .. Len(events) : n \notin drops /\ HashOf(events[n]) = h

\* The hash h was in the table before, or is that of one of the first n events
\* and that event is pushed.
Known(table, events, first, out, n, h) ==
    \/ h \in DOMAIN table
    \/ \E j \in 1 .. n : first + j \in Elements(out) /\ HashOf(events[j]) = h

\* The state s of Sift after n events holds known hashes, and so do they.
Explained(s, table, events, first, n) ==
    /\ s.out \in Seq(Nat)
    /\ \A h \in DOMAIN s.table : Known(table, events, first, s.out, n, h)
    /\ \A j \in 1 .. n : Known(table, events, first, s.out, n, HashOf(events[j]))

LEMMA SiftedExplained ==
    ASSUME NEW table, NEW events, NEW first \in Nat, NEW n \in Nat \ {0}, NEW s,
           Explained(s, table, events, first, n - 1)
    PROVE  Explained(Sifted(s, events[n], first + n), table, events, first, n)
<1> DEFINE e == events[n]
           t == Sifted(s, e, first + n)
           h == HashOf(e)
<1>1. /\ DOMAIN t.table = Kept(s.table, e.ts) \cup {h}
      /\ t.out = IF h \in Kept(s.table, e.ts) THEN s.out ELSE Append(s.out, first + n)
  BY Zenon DEF Sifted, After, IsDuplicate, HashOf
<1>2. Kept(s.table, e.ts) \subseteq DOMAIN s.table
  BY Zenon DEF Kept
<1>3. s.out \in Seq(Nat)
  BY Zenon DEF Explained
<1>4. /\ t.out \in Seq(Nat)
      /\ Elements(s.out) \subseteq Elements(t.out)
      /\ h \in Kept(s.table, e.ts) \/ first + n \in Elements(t.out)
  <2> DEFINE o == s.out
             p == Append(o, first + n)
  <2>1. /\ p \in Seq(Nat) /\ Len(p) = Len(o) + 1 /\ p[Len(o) + 1] = first + n
        /\ \A i \in 1 .. Len(o) : p[i] = o[i]
        /\ Len(o) \in Nat
    BY <1>3
  <2> HIDE DEF p
  <2>2. Elements(o) \subseteq Elements(p) /\ first + n \in Elements(p)
    <3> HIDE DEF o
    <3>1. Len(o) + 1 \in 1 .. Len(p)
      BY <2>1
    <3>2. first + n \in Elements(p)
      BY <2>1, <3>1, Zenon DEF Elements
    <3>3. \A i \in 1 .. Len(o) : i \in 1 .. Len(p)
      BY <2>1
    <3>4. Elements(o) \subseteq Elements(p)
      BY <2>1, <3>3, Zenon DEF Elements
    <3> QED BY <3>2, <3>4, Zenon
  <2>3. t.out = o \/ t.out = p
    BY <1>1, Zenon DEF p
  <2> HIDE DEF t, h
  <2> QED BY <1>1, <1>3, <2>1, <2>2, <2>3, Zenon DEF p
<1> HIDE DEF t
<1>5. ASSUME NEW x, Known(table, events, first, s.out, n - 1, x)
      PROVE  Known(table, events, first, t.out, n, x)
  <2>1. \A j \in 1 .. n - 1 : j \in 1 .. n
    OBVIOUS
  <2> QED BY <1>4, <1>5, <2>1, Zenon DEF Known
<1>6. Known(table, events, first, t.out, n, h)
  <2>1. CASE h \in Kept(s.table, e.ts)
    <3>1. Known(table, events, first, s.out, n - 1, h)
      BY <1>2, <2>1, Zenon DEF Explained
    <3> QED BY <3>1, <1>5, Zenon
  <2>2. CASE first + n \in Elements(t.out)
    <3>1. n \in 1 .. n
      OBVIOUS
    <3> QED BY <2>2, <3>1, Zenon DEF Known
  <2> QED BY <1>4, <2>1, <2>2, Zenon
<1>7. \A x \in DOMAIN t.table : Known(table, events, first, t.out, n, x)
  BY <1>1, <1>2, <1>5, <1>6, Zenon DEF Explained
<1>8. ASSUME NEW j \in 1 .. n
      PROVE  Known(table, events, first, t.out, n, HashOf(events[j]))
  <2>1. j \in 1 .. n - 1 \/ j = n
    OBVIOUS
  <2> QED BY <2>1, <1>5, <1>6, Zenon DEF Explained
<1>9. Explained(t, table, events, first, n)
  BY <1>4, <1>7, <1>8, Zenon DEF Explained
<1> QED BY <1>9, Zenon DEF t

\* should_emit drops an event only for one with its hash that is pushed, or
\* was entered in the table by an earlier frame.
LEMMA SiftExplained ==
    ASSUME NEW table, NEW events, NEW first \in Nat, Len(events) \in Nat
    PROVE  Explained(Sift(table, events, first), table, events, first, Len(events))
<1>1. PICK S : /\ Sift(table, events, first) = S[Len(events)]
               /\ S[0] = [table |-> table, out |-> <<>>]
               /\ \A i \in 1 .. Len(events) :
                        S[i] = Sifted(S[i-1], events[i], first + i)
  BY SiftUnfold
<1> DEFINE Bad == {i \in 0 .. Len(events) : ~Explained(S[i], table, events, first, i)}
<1>2. SUFFICES Bad = {}
  BY <1>1, <1>2
<1>3. SUFFICES ASSUME Bad # {} PROVE FALSE
  BY Zenon
<1>4. PICK m \in Bad : \A y \in Bad : m <= y
  <2>1. Bad \in SUBSET Nat
    OBVIOUS
  <2> HIDE DEF Bad
  <2> QED BY <2>1, <1>3, LeastNat, Zenon
<1>5. m \in 0 .. Len(events) /\ ~Explained(S[m], table, events, first, m)
  BY <1>4, Zenon
<1>6. CASE m = 0
  <2>1. Explained([table |-> table, out |-> <<>>], table, events, first, 0)
    BY DEF Explained, Known
  <2> QED BY <1>1, <1>5, <1>6, <2>1, ZenonT(30)
<1>7. CASE m # 0
  <2>1. m - 1 \in 0 .. Len(events) /\ m - 1 \notin Bad
    <3> HIDE DEF Bad
    <3> QED BY <1>4, <1>5, <1>7
  <2>2. Explained(S[m-1], table, events, first, m - 1)
    BY <2>1, Zenon
  <2>3. m \in Nat \ {0} /\ S[m] = Sifted(S[m-1], events[m], first + m)
    BY <1>1, <1>5, <1>7
  <2> HIDE DEF Bad
  <2> QED BY <1>5, <2>2, <2>3, SiftedExplained, Zenon
<1> QED BY <1>6, <1>7, Zenon

\* A text of fixed width, as format_mac writes it: one fragment.
Fragment(a) == \E x : a = <<x>>
FixedWidth == \A f \in Frame : HasMacs(f) => Fragment(f.smac) /\ Fragment(f.dmac)

\* An event that names the engine as its decoder is an anomaly between two
\* addresses of fixed width.
Signed(e) ==
    e.rest[2] = "parse_anomaly:engine" =>
        \E ts, src, dst, reason :
            /\ Fragment(src) /\ Fragment(dst)
            /\ e = Anomaly(ts, <<src, dst>>, "parse_anomaly:engine", reason)

AllSigned(s) == IsList(s) /\ \A i \in 1 .. Len(s) : Signed(s[i])

LEMMA SignedNone == AllSigned(<<>>)
BY DEF AllSigned, IsList

LEMMA SignedOne ==
    ASSUME NEW e, Signed(e)
    PROVE  AllSigned(<<e>>)
<1>1. IsList(<<e>>) /\ Len(<<e>>) = 1 /\ <<e>>[1] = e
  <2>1. <<e>> \in Seq({e})
    OBVIOUS
  <2> QED BY <2>1, SeqIsList, Zenon
<1>2. \A i \in 1 .. 1 : i = 1
  OBVIOUS
<1> QED BY <1>1, <1>2, Zenon DEF AllSigned

LEMMA SignedMap ==
    ASSUME NEW n \in Nat, NEW s, s = [i \in 1 .. n |-> s[i]],
           \A i \in 1 .. n : Signed(s[i])
    PROVE  AllSigned(s)
<1>1. IsList(s) /\ Len(s) = n
  <2>1. DOMAIN s = 1 .. n
    BY Zenon
  <2> QED BY <2>1, FunctionIsList, Zenon
<1> QED BY <1>1, Zenon DEF AllSigned

LEMMA SignedConcat ==
    ASSUME NEW s, NEW t, AllSigned(s), AllSigned(t)
    PROVE  AllSigned(s \o t)
<1>1. IsList(s) /\ IsList(t)
  BY Zenon DEF AllSigned
<1>2. Len(s) \in Nat /\ Len(t) \in Nat
  BY <1>1, ListLen, Zenon
<1>3. ASSUME NEW i \in 1 .. Len(s \o t)
      PROVE  Signed((s \o t)[i])
  <2>1. IF i <= Len(s) THEN (s \o t)[i] = s[i]
        ELSE i - Len(s) \in 1 .. Len(t) /\ (s \o t)[i] = t[i - Len(s)]
    BY <1>1, ListConcat, Zenon
  <2>2. CASE i <= Len(s)
    <3>1. i \in 1 .. Len(s)
      BY <1>2, <2>2
    <3> QED BY <2>1, <2>2, <3>1, Zenon DEF AllSigned
  <2>3. CASE ~(i <= Len(s))
    BY <2>1, <2>3, Zenon DEF AllSigned
  <2> QED BY <2>2, <2>3, Zenon
<1> QED BY <1>1, <1>3, ListConcat, Zenon DEF AllSigned

\* Events of others.
LEMMA OthersSigned ==
    ASSUME NEW e, NEW ports, NEW d, NEW key, e.rest = <<ports, d, key>>,
           d # "parse_anomaly:engine"
    PROVE  Signed(e)
BY DEF Signed

LEMMA InspectedSigned ==
    ASSUME NEW f \in Frame, NEW ts
    PROVE  AllSigned(Inspected(f, ts))
<1> DEFINE s == [i \in 1 .. Len(f.findings) |->
                    Anomaly(ts, Macs(f), "parse_anomaly:inspector", f.findings[i])]
<1>1. Len(f.findings) \in Nat
  BY EngineAssumption
<1>2. AllSigned(s)
  <2>1. ASSUME NEW i \in 1 .. Len(f.findings) PROVE Signed(s[i])
    <3>1. s[i].rest = <<<<0, 0>>, "parse_anomaly:inspector", f.findings[i]>>
      BY Zenon DEF Anomaly
    <3> HIDE DEF s
    <3> QED BY <3>1 DEF Signed
  <2>2. s = [i \in 1 .. Len(f.findings) |-> s[i]]
    BY Zenon
  <2> HIDE DEF s
  <2> QED BY <1>1, <2>1, <2>2, SignedMap, Zenon
<1> QED BY <1>2, SignedNone, Zenon DEF Inspected

LEMMA StatelessSigned ==
    ASSUME NEW f \in Frame, NEW ts, NEW no, Claims(Stateless, f)
    PROVE  AllSigned(StatelessEvents(Chunk(f, ts, no)))
<1> DEFINE c == Chunk(f, ts, no)
           s == StatelessEvents(c)
           n == Len(c.body.yields)
<1>1. n \in Nat
  BY EngineAssumption DEF Chunk
<1>3. ASSUME NEW i \in 1 .. n PROVE Signed(s[i])
  <2> HIDE DEF c
  <2>1. s[i].rest = <<<<c.sport, c.dport>>, "stateless", c.body.yields[i]>>
    BY Zenon DEF StatelessEvents
  <2> HIDE DEF s
  <2> QED BY <2>1 DEF Signed
<1>4. s = [i \in 1 .. n |-> s[i]]
  <2> HIDE DEF c
  <2> QED BY Zenon DEF StatelessEvents
<1> HIDE DEF s, n
<1>5. AllSigned(s)
  BY <1>1, <1>3, <1>4, SignedMap, Zenon
<1> QED BY <1>5, Zenon DEF s

LEMMA PeekedSigned ==
    ASSUME NEW f \in Frame, NEW ts
    PROVE  AllSigned(Peeked(f, ts))
<1>1. CASE ~Ipv4Of(f, 1)
  BY <1>1, SignedNone, Zenon DEF Peeked
<1>2. CASE Ipv4Of(f, 1)
  <2> DEFINE s == [i \in 1 .. Len(f.body.oddities) |->
                    Anomaly(ts, <<f.sip, f.dip>>, "parse_anomaly:icmpeeker",
                            f.body.oddities[i])]
  <2>1. Len(f.body.oddities) \in Nat
    BY <1>2, EngineAssumption
  <2>2. ASSUME NEW i \in 1 .. Len(f.body.oddities) PROVE Signed(s[i])
    <3>1. s[i].rest = <<<<0, 0>>, "parse_anomaly:icmpeeker", f.body.oddities[i]>>
      BY Zenon DEF Anomaly
    <3> HIDE DEF s
    <3> QED BY <3>1 DEF Signed
  <2>3. s = [i \in 1 .. Len(f.body.oddities) |-> s[i]]
    BY Zenon
  <2>4. Peeked(f, ts) = s
    BY <1>2, Zenon DEF Peeked
  <2> HIDE DEF s
  <2> QED BY <2>1, <2>2, <2>3, <2>4, SignedMap, Zenon
<1> QED BY <1>1, <1>2, Zenon

LEMMA ReportedSigned ==
    ASSUME FixedWidth, NEW f \in Frame, NEW ts, NEW u
    PROVE  AllSigned(Reported(f, ts, u))
<1>1. ASSUME NEW src, NEW dst, NEW r, Fragment(src), Fragment(dst)
      PROVE  AllSigned(<<Anomaly(ts, <<src, dst>>, "parse_anomaly:engine", r)>>)
  <2>1. Signed(Anomaly(ts, <<src, dst>>, "parse_anomaly:engine", r))
    BY <1>1, Zenon DEF Signed
  <2> QED BY <2>1, SignedOne, Zenon
<1>2. Fragment(Unknown) /\ Fragment(ZeroMac)
  BY Zenon DEF Fragment, Unknown, ZeroMac
<1>3. ASSUME NEW r
      PROVE  AllSigned(<<Anomaly(ts, Macs(f), "parse_anomaly:engine", r)>>)
  <2>1. CASE HasMacs(f)
    BY <1>1, <2>1, Zenon DEF Macs, FixedWidth
  <2>2. CASE ~HasMacs(f)
    BY <1>1, <1>2, <2>2, Zenon DEF Macs
  <2> QED BY <2>1, <2>2, Zenon
<1>4. ASSUME NEW r
      PROVE  AllSigned(<<Anomaly(ts, <<Unknown, Unknown>>, "parse_anomaly:engine", r)>>)
  BY <1>1, <1>2
<1> QED BY <1>3, <1>4, SignedNone, Zenon DEF Reported

LEMMA WinRmSigned ==
    ASSUME NEW sessions, NEW c
    PROVE  AllSigned(WinRmEvents(sessions, c))
<1>1. ASSUME NEW what, NEW d, NEW key, d # "parse_anomaly:engine"
      PROVE  AllSigned(<<Winrm(c, what, <<d, key>>)>>)
  <2>1. Winrm(c, what, <<d, key>>).rest = <<<<c.sport, c.dport>>, d, key>>
    BY Zenon DEF Winrm
  <2>2. Signed(Winrm(c, what, <<d, key>>))
    BY <1>1, <2>1, OthersSigned, Zenon
  <2> QED BY <2>2, SignedOne, Zenon
<1>2. /\ "asset_observation:winrm" # "parse_anomaly:engine"
      /\ "protocol_transaction:winrm" # "parse_anomaly:engine"
      /\ "parse_anomaly:winrm" # "parse_anomaly:engine"
  BY Zenon
<1>3. AllSigned(<<Asset(c)>>) /\ AllSigned(<<HttpsSession(c)>>)
  BY <1>1, <1>2, Zenon DEF Asset, HttpsSession
<1>4. AllSigned(PlainEvents(c))
  <2>1. AllSigned(<<Winrm(c, "wsman", <<"protocol_transaction:winrm", c.body.op>>)>>)
    BY <1>1, <1>2, Zenon
  <2>2. AllSigned(<<Winrm(c, "anomaly", <<"parse_anomaly:winrm", "not HTTP">>)>>)
    BY <1>1, <1>2, Zenon
  <2>3. CASE c.body.wsman
    BY <2>1, <2>3, Zenon DEF PlainEvents
  <2>4. CASE ~c.body.wsman /\ ~c.body.http
    BY <2>2, <2>4, Zenon DEF PlainEvents
  <2>5. CASE ~c.body.wsman /\ c.body.http
    <3>1. PlainEvents(c) = <<>>
      BY <2>5, Zenon DEF PlainEvents
    <3> QED BY <3>1, SignedNone, Zenon
  <2> QED BY <2>3, <2>4, <2>5, Zenon
<1> QED BY <1>3, <1>4, SignedNone, SignedConcat DEF WinRmEvents

LEMMA ModbusSigned ==
    ASSUME NEW pending, NEW c
    PROVE  AllSigned(ChunkEvents(pending, c))
<1>1. ASSUME NEW what, NEW ports, NEW d, NEW key, NEW resp, d # "parse_anomaly:engine"
      PROVE  AllSigned(<<FromChunk(c, what, <<ports, d, key>>, resp)>>)
  <2>1. FromChunk(c, what, <<ports, d, key>>, resp).rest = <<ports, d, key>>
    BY Zenon DEF FromChunk
  <2>2. Signed(FromChunk(c, what, <<ports, d, key>>, resp))
    BY <1>1, <2>1, OthersSigned, Zenon
  <2> QED BY <2>2, SignedOne, Zenon
<1>2. ASSUME NEW p, NEW what, NEW ports, NEW d, NEW key, NEW resp,
             d # "parse_anomaly:engine"
      PROVE  AllSigned(<<FromRequest(p, what, <<ports, d, key>>, resp)>>)
  <2>1. FromRequest(p, what, <<ports, d, key>>, resp).rest = <<ports, d, key>>
    BY Zenon DEF FromRequest
  <2>2. Signed(FromRequest(p, what, <<ports, d, key>>, resp))
    BY <1>2, <2>1, OthersSigned, Zenon
  <2> QED BY <2>2, SignedOne, Zenon
<1>3. /\ "protocol_transaction:modbus" # "parse_anomaly:engine"
      /\ "asset_observation:modbus" # "parse_anomaly:engine"
      /\ "extracted_artifact:modbus_write_payload" # "parse_anomaly:engine"
      /\ "parse_anomaly:modbus" # "parse_anomaly:engine"
  BY Zenon
<1>4. AllSigned(<<Garbled(c)>>)
  BY <1>1, <1>3, Zenon DEF Garbled
<1>5. AllSigned(Unpaired(c))
  <2>1. AllSigned(<<FromChunk(c, "unpaired",
                        Transaction(<<c.sport, c.dport>>, c.body.op), c.no)>>)
    BY <1>1, <1>3, Zenon DEF Transaction
  <2>2. AllSigned(<<FromChunk(c, "identity",
                        Identity(<<c.sport, c.dport>>, c.src), c.no)>>)
    BY <1>1, <1>3, Zenon DEF Identity
  <2> QED BY <2>1, <2>2, SignedNone, SignedConcat, Zenon DEF Unpaired
<1>6. ASSUME NEW p PROVE AllSigned(Paired(p, c))
  <2>1. AllSigned(<<FromRequest(p, "paired", Transaction(p.ports, p.op), c.no)>>)
    BY <1>2, <1>3, Zenon DEF Transaction
  <2>2. AllSigned(<<FromRequest(p, "identity", Identity(p.ports, c.src), c.no)>>)
    BY <1>2, <1>3, Zenon DEF Identity
  <2>3. AllSigned(<<FromRequest(p, "artifact",
            <<p.ports, "extracted_artifact:modbus_write_payload", Key(c)>>, c.no)>>)
    BY <1>2, <1>3, Zenon
  <2> QED BY <2>1, <2>2, <2>3, SignedNone, SignedConcat, Zenon DEF Paired
<1>7. CASE ~c.body.ok
  BY <1>4, <1>7, Zenon DEF ChunkEvents
<1>8. CASE c.body.ok /\ IsRequest(c)
  <2>1. ChunkEvents(pending, c) = <<>>
    BY <1>8, Zenon DEF ChunkEvents
  <2> QED BY <2>1, SignedNone, Zenon
<1>9. CASE c.body.ok /\ ~IsRequest(c) /\ Key(c) \notin DOMAIN pending
  <2>1. ChunkEvents(pending, c) = Unpaired(c)
    BY <1>9, Zenon DEF ChunkEvents
  <2> QED BY <2>1, <1>5, Zenon
<1>10. CASE c.body.ok /\ ~IsRequest(c) /\ Key(c) \in DOMAIN pending
  <2>1. ChunkEvents(pending, c) = Paired(pending[Key(c)], c)
    BY <1>10, Zenon DEF ChunkEvents
  <2> QED BY <2>1, <1>6, Zenon
<1> QED BY <1>7, <1>8, <1>9, <1>10, Zenon

LEMMA ConcatAt ==
    ASSUME NEW s, NEW t, IsList(s), IsList(t), NEW j \in 1 .. Len(t)
    PROVE  Len(s \o t) = Len(s) + Len(t) /\ (s \o t)[Len(s) + j] = t[j]
<1> DEFINE u == s \o t
           k == Len(s) + j
<1>1. /\ Len(u) = Len(s) + Len(t)
      /\ \A i \in 1 .. Len(u) :
            IF i <= Len(s) THEN u[i] = s[i]
            ELSE i - Len(s) \in 1 .. Len(t) /\ u[i] = t[i - Len(s)]
  BY ListConcat, Zenon
<1>2. Len(s) \in Nat /\ Len(t) \in Nat
  BY ListLen, Zenon
<1>3. k \in 1 .. Len(u) /\ ~(k <= Len(s)) /\ k - Len(s) = j
  BY <1>1, <1>2
<1> HIDE DEF u, k
<1>4. u[k] = t[j]
  BY <1>1, <1>3, Zenon
<1> QED BY <1>1, <1>4, Zenon DEF u, k

\* The events of a frame are signed, and a stray one's notice is among them.
LEMMA FrameSigned ==
    ASSUME FixedWidth, NEW f \in Frame, NEW ts, NEW no
    PROVE  /\ AllSigned(FrameEvents(f, ts, no))
           /\ Stray(f) => \E j \in 1 .. Len(FrameEvents(f, ts, no)) :
                                FrameEvents(f, ts, no)[j] = Notice(f, ts)
<1> DEFINE c == Chunk(f, ts, no)
           A == Inspected(f, ts)
           B == IF Claims(Stateless, f) THEN StatelessEvents(c) ELSE <<>>
           C == IF Claims(ModbusInterest, f) THEN ChunkEvents(modbus, c) ELSE <<>>
           D == IF Claims(WinRmInterest, f) THEN WinRmEvents(winrm, c) ELSE <<>>
           E == Peeked(f, ts)
           F == Reported(f, ts, Unclaimed(f))
           G == (((A \o B) \o C) \o D) \o E
<1>1. FrameEvents(f, ts, no) = G \o F
  BY Zenon DEF FrameEvents
<1>2. AllSigned(A) /\ AllSigned(B) /\ AllSigned(E) /\ AllSigned(F)
  BY InspectedSigned, StatelessSigned, PeekedSigned, ReportedSigned, SignedNone, Zenon
<1>3. AllSigned(C) /\ AllSigned(D)
  BY ModbusSigned, WinRmSigned, SignedNone, Zenon
<1>4. Stray(f) => F = <<Notice(f, ts)>>
  BY Zenon DEF Stray, Reported, Notice
<1> HIDE DEF A, B, C, D, E, F
<1>5. AllSigned(G)
  BY <1>2, <1>3, SignedConcat, Zenon
<1> HIDE DEF G
<1>6. AllSigned(G \o F)
  BY <1>2, <1>5, SignedConcat, Zenon
<1>7. ASSUME Stray(f)
      PROVE  \E j \in 1 .. Len(G \o F) : (G \o F)[j] = Notice(f, ts)
  <2>1. F = <<Notice(f, ts)>>
    BY <1>4, <1>7, Zenon
  <2>2. Len(F) = 1 /\ F[1] = Notice(f, ts)
    BY <2>1, Zenon
  <2>3. IsList(G) /\ IsList(F) /\ Len(G) \in Nat
    BY <1>2, <1>5, ListLen, Zenon DEF AllSigned
  <2>4. Len(G \o F) = Len(G) + 1 /\ (G \o F)[Len(G) + 1] = F[1]
    <3>1. 1 \in 1 .. Len(F)
      BY <2>2
    <3>2. Len(G \o F) = Len(G) + Len(F) /\ (G \o F)[Len(G) + 1] = F[1]
      BY <2>3, <3>1, ConcatAt
    <3> QED BY <3>2, <2>2, Zenon
  <2>5. Len(G) + 1 \in 1 .. Len(G \o F)
    BY <2>3, <2>4
  <2> QED BY <2>2, <2>4, <2>5, Zenon
<1> QED BY <1>1, <1>6, <1>7, Zenon

\* Every hash in the table, and that of every event, belongs to an event that
\* was not dropped; the events are signed; each stray frame has its notice.
Noticed(l, events) ==
    \A i \in 1 .. Len(l) :
        Stray(l[i].frame) =>
            \E n \in 1 .. Len(events) : events[n] = Notice(l[i].frame, l[i].ts)

Notices ==
    /\ \A h \in DOMAIN seen : Passed(made, dropped, h)
    /\ \A n \in Number : Passed(made, dropped, HashOf(made[n]))
    /\ \A i \in 1 .. Len(log) : log[i].frame \in Frame
    /\ AllSigned(made)
    /\ Noticed(log, made)

\* Nothing is pending once a stream has ended.
Closed == stream.status # "open" => stream.pending = <<>>

LEMMA ClosedStep ==
    ASSUME TypeInv, Closed, [Next]_vars
    PROVE  Closed'
<1>1. stream \in StreamOf(Seq(Number))
  BY Zenon DEF TypeInv, TypeOK, StreamOf
<1>2. ASSUME NEW now \in WallClock, Open(now)
      PROVE  Closed'
  BY <1>2, Zenon DEF Open, Closed
<1>3. ASSUME NEW f \in Frame, NEW ts \in Time, Push(f, ts)
      PROVE  Closed'
  BY <1>3, PushCounts, Zenon DEF Closed
<1>4. ASSUME NEW keys, Finish(keys) \/ FinishRefused(keys)
      PROVE  Closed'
  BY <1>1, <1>4, ZenonT(30) DEF Finish, FinishRefused, StreamOf, Closed
<1>5. CASE Abandon
  BY <1>1, <1>5, Zenon DEF Abandon, StreamOf, Closed
<1>6. CASE UNCHANGED vars
  BY <1>6, Zenon DEF vars, Closed
<1> QED BY <1>2, <1>3, <1>4, <1>5, <1>6, Zenon DEF Next

\* The notice of a stray frame, or one with its hash, passed.
LEMMA NoticesSuffice ==
    ASSUME TypeInv, Accounted, FixedWidth, Closed, Notices
    PROVE  UnclaimedReported
<1> DEFINE Waiting == Elements(stream.pending)
           Sent == Elements(delivered)
<1>1. SUFFICES ASSUME NEW i \in 1 .. Len(log), Stray(log[i].frame)
      PROVE  \E n \in Waiting \cup Sent \cup lost :
                /\ BucketOf(made[n].ts) = BucketOf(log[i].ts)
                /\ [made[n] EXCEPT !.ts = 0] = Notice(log[i].frame, 0)
  <2>1. Elements(<<>>) = {}
    BY DEF Elements
  <2>2. stream.status = "open" \/ \A n : n \notin Waiting
    BY <2>1, Zenon DEF Closed
  <2>3. ASSUME NEW i \in 1 .. Len(log), Stray(log[i].frame)
        PROVE  NoticeIn(Waiting, i) \/ NoticeIn(Sent, i) \/ NoticeIn(lost, i)
    <3> HIDE DEF Waiting, Sent
    <3> QED BY <1>1, <2>3, Zenon DEF NoticeIn
  <2>4. stream.status = "open" \/ \A i : ~NoticeIn(Waiting, i)
    <3> HIDE DEF Waiting
    <3> QED BY <2>2, Zenon DEF NoticeIn
  <2> QED BY <2>3, <2>4, Zenon DEF UnclaimedReported
<1> DEFINE f == log[i].frame
           e == Notice(f, log[i].ts)
<1>2. f \in Frame
  BY Zenon DEF Notices
<1>3. PICK k \in Number : made[k] = e
  BY <1>1, Zenon DEF Notices, Noticed, Number
<1>4. PICK n \in Number : n \notin dropped /\ HashOf(made[n]) = HashOf(e)
  BY <1>3, Zenon DEF Notices, Passed, Number
<1>5. n \in Waiting \cup Sent \cup lost
  BY <1>4, Zenon DEF Accounted
<1> HIDE DEF Waiting, Sent
<1>6. PICK x, y : Macs(f) = <<<<x>>, <<y>>>>
  <2>1. CASE HasMacs(f)
    BY <1>2, <2>1, ZenonT(30) DEF FixedWidth, Fragment, Macs
  <2>2. CASE ~HasMacs(f)
    BY <2>2, Zenon DEF Macs, ZeroMac
  <2> QED BY <2>1, <2>2, Zenon
<1>7. /\ e.ts = log[i].ts /\ e.src = <<x>> /\ e.dst = <<y>>
      /\ e.rest = <<<<0, 0>>, "parse_anomaly:engine", Unsupported(f)>>
  BY <1>6 DEF Notice, Anomaly
<1> HIDE DEF e
<1>8. /\ BucketOf(made[n].ts) = BucketOf(log[i].ts)
      /\ made[n].src \o made[n].dst = <<x>> \o <<y>>
      /\ made[n].rest = <<<<0, 0>>, "parse_anomaly:engine", Unsupported(f)>>
  BY <1>4, <1>7, Zenon DEF HashOf, Hash
<1>9. PICK ts, u, v, reason :
        made[n] = Anomaly(ts, <<<<u>>, <<v>>>>, "parse_anomaly:engine", reason)
  <2>1. made[n].rest[2] = "parse_anomaly:engine"
    BY <1>8
  <2>2. Signed(made[n])
    BY Zenon DEF Notices, AllSigned, Number
  <2> QED BY <2>1, <2>2, Zenon DEF Signed, Fragment
<1>10. u = x /\ v = y /\ reason = Unsupported(f)
  <2>1. /\ made[n].src = <<u>> /\ made[n].dst = <<v>>
        /\ made[n].rest = <<<<0, 0>>, "parse_anomaly:engine", reason>>
    BY <1>9 DEF Anomaly
  <2>2. <<u>> \o <<v>> = <<x>> \o <<y>>
    BY <1>8, <2>1, Zenon
  <2>3. ASSUME NEW a, NEW b PROVE (<<a>> \o <<b>>)[1] = a /\ (<<a>> \o <<b>>)[2] = b
    <3>1. <<a>> \in Seq({a, b}) /\ <<b>> \in Seq({a, b})
      OBVIOUS
    <3> QED BY <3>1
  <2>4. u = x /\ v = y
    <3>1. (<<u>> \o <<v>>)[1] = u /\ (<<u>> \o <<v>>)[2] = v
      BY <2>3, Zenon
    <3>2. (<<x>> \o <<y>>)[1] = x /\ (<<x>> \o <<y>>)[2] = y
      BY <2>3, Zenon
    <3> QED BY <2>2, <3>1, <3>2, Zenon
  <2> QED BY <1>8, <2>1, <2>4
<1>11. [made[n] EXCEPT !.ts = 0] = Notice(f, 0)
  BY <1>6, <1>9, <1>10 DEF Notice, Anomaly
<1> QED BY <1>5, <1>8, <1>11, Zenon

\* A step keeps the events that were made and what became of them.
LEMMA PassedGrows ==
    ASSUME TypeInv, NEW events, NEW out, Moves(events, out), NEW h,
           Passed(made, dropped, h)
    PROVE  Passed(made', dropped', h)
<1>1. PICK n \in 1 .. Len(made) : n \notin dropped /\ HashOf(made[n]) = h
  BY Zenon DEF Passed
<1>2. /\ Len(made) \in Nat /\ Len(events) \in Nat /\ Len(made') = Len(made) + Len(events)
  BY MovesTyped, Zenon
<1>3. made'[n] = made[n]
  BY ListConcat, Zenon DEF TypeInv, Moves
<1>4. n \in 1 .. Len(made') /\ n \notin Len(made) + 1 .. Len(made) + Len(events)
  BY <1>2
<1>5. n \notin dropped'
  BY <1>1, <1>4, Zenon DEF Moves
<1> QED BY <1>1, <1>3, <1>4, <1>5, ZenonT(30) DEF Passed

\* An event that is pushed has passed.
LEMMA PassedNew ==
    ASSUME TypeInv, NEW events, NEW out, Moves(events, out),
           NEW j \in 1 .. Len(events), Len(made) + j \in Elements(out)
    PROVE  Passed(made', dropped', HashOf(events[j]))
<1>1. /\ Len(made) \in Nat /\ Len(events) \in Nat /\ Len(made') = Len(made) + Len(events)
  BY MovesTyped, Zenon
<1>2. made'[Len(made) + j] = events[j]
  BY ConcatAt, Zenon DEF TypeInv, Moves
<1>3. Len(made) + j \in 1 .. Len(made') /\ Len(made) + j \notin Number
  BY <1>1 DEF Number
<1>4. Len(made) + j \notin dropped'
  BY <1>3, Zenon DEF Moves, TypeInv, TypeOK
<1> QED BY <1>2, <1>3, <1>4, Zenon DEF Passed

\* If every new event passed, or one with its hash did, then so it is of all.
LEMMA PassedAll ==
    ASSUME TypeInv, NEW events, NEW out, Moves(events, out),
           \A n \in Number : Passed(made, dropped, HashOf(made[n])),
           \A j \in 1 .. Len(events) : Passed(made', dropped', HashOf(events[j]))
    PROVE  \A n \in Number' : Passed(made', dropped', HashOf(made'[n]))
<1> TAKE n \in Number'
<1>1. /\ Len(made) \in Nat /\ Len(events) \in Nat /\ Len(made') = Len(made) + Len(events)
  BY MovesTyped, Zenon
<1>2. n \in 1 .. Len(made')
  BY Zenon DEF Number
<1>3. IF n <= Len(made) THEN made'[n] = made[n]
      ELSE n - Len(made) \in 1 .. Len(events) /\ made'[n] = events[n - Len(made)]
  <2>1. made' = made \o events /\ IsList(made) /\ IsList(events)
    BY Zenon DEF Moves, TypeInv
  <2> QED BY <1>2, <2>1, ListConcat, Zenon
<1>4. CASE n <= Len(made)
  <2>1. n \in Number
    BY <1>1, <1>2, <1>4 DEF Number
  <2>2. Passed(made', dropped', HashOf(made[n]))
    BY <2>1, PassedGrows, Zenon
  <2> QED BY <2>2, <1>3, <1>4, ZenonT(30)
<1>5. CASE ~(n <= Len(made))
  BY <1>3, <1>5, Zenon
<1> QED BY <1>4, <1>5, Zenon

LEMMA NoticedGrows ==
    ASSUME NEW l, NEW events, NEW more, IsList(events), IsList(more), Noticed(l, events)
    PROVE  Noticed(l, events \o more)
<1>1. /\ \A n \in 1 .. Len(events) : (events \o more)[n] = events[n]
      /\ Len(events \o more) = Len(events) + Len(more)
      /\ Len(events) \in Nat /\ Len(more) \in Nat
  BY ListConcat, ListLen, ZenonT(30)
<1>2. \A n \in 1 .. Len(events) : n \in 1 .. Len(events \o more)
  BY <1>1
<1> QED BY <1>1, <1>2, Zenon DEF Noticed

LEMMA PushNotices ==
    ASSUME TypeInv, FixedWidth, Notices, NEW f \in Frame, NEW ts \in Time, Push(f, ts)
    PROVE  Notices'
<1> DEFINE events == FrameEvents(f, ts, Len(log) + 1)
           sifted == Sift(seen, events, Len(made))
           out == sifted.out
<1>1. Moves(events, out)
  BY PushMoves, Zenon
<1>2. AllSigned(events) /\ (Stray(f) => \E j \in 1 .. Len(events) : events[j] = Notice(f, ts))
  BY FrameSigned, Zenon
<1>3. seen' = sifted.table /\ log' = Append(log, [frame |-> f, ts |-> ts])
  BY Zenon DEF Push, Ingest
<1> HIDE DEF events
<1>4. /\ Len(made) \in Nat /\ Len(events) \in Nat /\ Len(made') = Len(made) + Len(events)
  BY <1>1, MovesTyped, Zenon
<1>5. Explained(sifted, seen, events, Len(made), Len(events))
  BY <1>4, SiftExplained, Zenon
<1> HIDE DEF sifted
<1>6. ASSUME NEW h, Known(seen, events, Len(made), out, Len(events), h)
      PROVE  Passed(made', dropped', h)
  <2>1. CASE h \in DOMAIN seen
    <3>1. Passed(made, dropped, h)
      BY <2>1, Zenon DEF Notices
    <3> QED BY <3>1, <1>1, PassedGrows, Zenon
  <2>2. ASSUME NEW j \in 1 .. Len(events), Len(made) + j \in Elements(out),
               HashOf(events[j]) = h
        PROVE  Passed(made', dropped', h)
    BY <2>2, <1>1, PassedNew, Zenon
  <2> QED BY <1>6, <2>1, <2>2, Zenon DEF Known
<1>7. \A h \in DOMAIN seen' : Passed(made', dropped', h)
  BY <1>3, <1>5, <1>6, Zenon DEF Explained
<1>8. \A n \in Number' : Passed(made', dropped', HashOf(made'[n]))
  <2>1. \A j \in 1 .. Len(events) : Passed(made', dropped', HashOf(events[j]))
    BY <1>5, <1>6, Zenon DEF Explained
  <2>2. \A n \in Number : Passed(made, dropped, HashOf(made[n]))
    BY Zenon DEF Notices
  <2> QED BY <1>1, <2>1, <2>2, PassedAll, Zenon
<1>9. AllSigned(made')
  BY <1>1, <1>2, SignedConcat, Zenon DEF Notices, Moves
<1>10. /\ Len(log) \in Nat /\ Len(log') = Len(log) + 1
       /\ \A i \in 1 .. Len(log) : log'[i] = log[i]
       /\ log'[Len(log) + 1] = [frame |-> f, ts |-> ts]
  <2> DEFINE e == [frame |-> f, ts |-> ts]
  <2>1. log \in Seq(Members(log))
    BY Zenon DEF TypeInv, IsList
  <2>2. log \in Seq(Members(log) \cup {e}) /\ e \in Members(log) \cup {e}
    <3> HIDE DEF e
    <3> QED BY <2>1, SeqWiden, Zenon
  <2> HIDE DEF e
  <2> QED BY <1>3, <2>2 DEF e
<1>11. \A i \in 1 .. Len(log') : i \in 1 .. Len(log) \/ i = Len(log) + 1
  BY <1>10
<1>12. \A i \in 1 .. Len(log') : log'[i].frame \in Frame
  BY <1>10, <1>11 DEF Notices
<1>13. Noticed(log', made')
  <2>1. Noticed(log, made')
    BY <1>1, NoticedGrows, Zenon DEF Notices, Moves, TypeInv
  <2>2. Stray(f) => \E n \in 1 .. Len(made') : made'[n] = Notice(f, ts)
    <3>1. \A j \in 1 .. Len(events) : made'[Len(made) + j] = events[j]
      BY <1>1, ConcatAt DEF TypeInv, Moves
    <3>2. \A j \in 1 .. Len(events) : Len(made) + j \in 1 .. Len(made')
      BY <1>4
    <3> QED BY <1>2, <3>1, <3>2, Zenon
  <2>3. ASSUME NEW i \in 1 .. Len(log'), Stray(log'[i].frame)
        PROVE  \E n \in 1 .. Len(made') : made'[n] = Notice(log'[i].frame, log'[i].ts)
    <3>1. CASE i \in 1 .. Len(log)
      <4>1. log'[i] = log[i]
        BY <3>1, <1>10, Zenon
      <4> QED BY <4>1, <3>1, <2>1, <2>3, Zenon DEF Noticed
    <3>2. CASE i = Len(log) + 1
      <4>1. log'[i].frame = f /\ log'[i].ts = ts
        BY <3>2, <1>10
      <4> QED BY <4>1, <2>2, <2>3, Zenon
    <3> QED BY <1>11, <3>1, <3>2, Zenon
  <2> QED BY <2>3, Zenon DEF Noticed
<1> QED BY <1>7, <1>8, <1>9, <1>12, <1>13, Zenon DEF Notices

\* The requests that finalize_stream reports pass without should_emit.
LEMMA FinishNotices ==
    ASSUME TypeInv, Notices, NEW keys \in Orders(Expired(modbus, stream.last)),
           Finish(keys) \/ FinishRefused(keys)
    PROVE  Notices'
<1> DEFINE events == Partials(keys)
           out == Fresh(keys)
<1>1. /\ Moves(events, out) /\ Len(keys) \in Nat
      /\ IsList(events) /\ Len(events) = Len(keys)
  BY FinishMoves, Zenon
<1>2. seen' = seen /\ log' = log
  BY Zenon DEF Finish, FinishRefused, Drain
<1>3. AllSigned(events)
  <2>1. ASSUME NEW i \in 1 .. Len(keys) PROVE Signed(events[i])
    <3> DEFINE p == modbus[keys[i]]
    <3>1. events[i] = Partial(p)
      BY Zenon DEF Partials
    <3> HIDE DEF p
    <3>2. Partial(p).rest = <<p.ports, "protocol_transaction:modbus", p.op>>
      BY Zenon DEF Partial, FromRequest, Transaction
    <3>3. "protocol_transaction:modbus" # "parse_anomaly:engine"
      BY Zenon
    <3>4. Signed(Partial(p))
      BY <3>2, <3>3, OthersSigned, Zenon
    <3> QED BY <3>1, <3>4, Zenon
  <2> HIDE DEF events
  <2> QED BY <1>1, <2>1, Zenon DEF AllSigned
<1>4. \A j \in 1 .. Len(events) : Len(made) + j \in Elements(out)
  <2>1. out = [i \in 1 .. Len(keys) |-> Len(made) + i]
    BY Zenon DEF Fresh
  <2>2. Len(out) = Len(keys)
    <3>1. DOMAIN out = 1 .. Len(keys) /\ out = [i \in 1 .. Len(keys) |-> out[i]]
      BY <2>1, Zenon
    <3> HIDE DEF out
    <3> QED BY <1>1, <3>1, FunctionIsList, Zenon
  <2> HIDE DEF out, events
  <2> QED BY <1>1, <2>1, <2>2, Zenon DEF Elements
<1> HIDE DEF events, out
<1>5. \A j \in 1 .. Len(events) : Passed(made', dropped', HashOf(events[j]))
  BY <1>1, <1>4, PassedNew, Zenon
<1>6. \A n \in Number' : Passed(made', dropped', HashOf(made'[n]))
  <2>1. \A n \in Number : Passed(made, dropped, HashOf(made[n]))
    BY Zenon DEF Notices
  <2> QED BY <1>1, <1>5, <2>1, PassedAll, Zenon
<1>7. \A h \in DOMAIN seen' : Passed(made', dropped', h)
  BY <1>1, <1>2, PassedGrows, Zenon DEF Notices
<1>8. AllSigned(made')
  BY <1>1, <1>3, SignedConcat, Zenon DEF Notices, Moves
<1>9. Noticed(log', made')
  BY <1>1, <1>2, NoticedGrows, Zenon DEF Notices, Moves, TypeInv
<1> QED BY <1>2, <1>6, <1>7, <1>8, <1>9, Zenon DEF Notices

\* Where addresses have a fixed width, the operator sees every frame of an
\* unsupported protocol that no decoder claims: its notice, or one between
\* the same addresses with the same reason and of the same second, reached
\* the sink or waits for it in the open stream, unless such a notice was lost
\* with a refused batch or an abandoned stream.
THEOREM StraysAreReported == ASSUME FixedWidth PROVE Spec => []UnclaimedReported
<1>1. Init => TypeInv /\ Accounted /\ Closed /\ Notices
  <2>1. Init => Accounted
    BY DEF Init, Accounted, Number, Elements, NoStream
  <2>2. Init => Notices
    BY SignedNone DEF Init, Notices, Number, Noticed, Empty
  <2>3. Init => Closed
    BY DEF Init, NoStream, Closed
  <2> QED BY <2>1, <2>2, <2>3, InitType, Zenon
<1>2. ASSUME TypeInv, Notices, [Next]_vars
      PROVE  Notices'
  <2>1. ASSUME UNCHANGED <<seen, log, made, dropped>>
        PROVE  Notices'
    BY <1>2, <2>1, Zenon DEF Notices, Number
  <2>2. ASSUME NEW now \in WallClock, Open(now)
        PROVE  Notices'
    BY <2>1, <2>2, Zenon DEF Open
  <2>3. CASE Abandon
    BY <2>1, <2>3, Zenon DEF Abandon
  <2>4. CASE UNCHANGED vars
    BY <2>1, <2>4, Zenon DEF vars
  <2> QED BY <1>2, <2>2, <2>3, <2>4, PushNotices, FinishNotices, Zenon DEF Next
<1>3. TypeInv /\ Accounted /\ Closed /\ Notices /\ [Next]_vars
        => (TypeInv /\ Accounted /\ Closed /\ Notices)'
  BY <1>2, TypeStep, AccountedStep, ClosedStep, Zenon
<1>4. TypeInv /\ Accounted /\ Closed /\ Notices => UnclaimedReported
  BY NoticesSuffice, Zenon
<1> QED BY <1>1, <1>3, <1>4, PTL DEF Spec

=============================================================================
