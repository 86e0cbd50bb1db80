---------------------------- MODULE EngineProofs ----------------------------
(***************************************************************************)
(* What Engine does, for all values of its constants.                      *)
(***************************************************************************)
EXTENDS Engine, Lists

-----------------------------------------------------------------------------
(* The deduplication of a frame's events.                                  *)

\* S is the state of Sift after each of the first n events.
Sifting(S, table, events, first, n) ==
    S = [i \in 0 .. n |-> IF i = 0 THEN [table |-> table, out |-> <<>>]
                          ELSE Sifted(S[i-1], events[i], first + i)]

\* The recursion of Sift defines a function.
LEMMA SiftExists ==
    ASSUME NEW table, NEW events, NEW first, NEW n \in Nat
    PROVE  \E S : Sifting(S, table, events, first, n)
<1> DEFINE Start == [table |-> table, out |-> <<>>]
           Bad == {m \in Nat : ~ \E S : Sifting(S, table, events, first, m)}
<1>1. SUFFICES Bad = {}
  BY <1>1, Zenon
<1>2. SUFFICES ASSUME Bad # {} PROVE FALSE
  BY Zenon
<1>3. PICK m \in Bad : \A y \in Bad : m <= y
  <2>1. Bad \in SUBSET Nat
    BY Zenon
  <2> HIDE DEF Bad
  <2> QED BY <2>1, <1>2, LeastNat, Zenon
<1>4. m \in Nat
  BY <1>3, Zenon
<1>5. CASE m = 0
  <2> DEFINE S == [i \in 0 .. 0 |-> Start]
  <2>1. S = [i \in 0 .. 0 |-> IF i = 0 THEN Start
                              ELSE Sifted(S[i-1], events[i], first + i)]
    OBVIOUS
  <2> HIDE DEF S
  <2> QED BY <1>3, <1>5, <2>1, Zenon DEF Sifting
<1>6. CASE m # 0
  <2>1. m - 1 \in Nat /\ m - 1 \notin Bad
    <3> HIDE DEF Bad
    <3> QED BY <1>3, <1>4, <1>6
  <2>2. PICK T : Sifting(T, table, events, first, m - 1)
    BY <2>1, Zenon
  <2> DEFINE S == [i \in 0 .. m |-> IF i = m THEN Sifted(T[m-1], events[m], first + m)
                                    ELSE T[i]]
  <2>3. \A i \in 0 .. m - 1 : S[i] = T[i]
    BY <1>4
  <2>4. \A i \in 0 .. m - 1 : T[i] = IF i = 0 THEN Start
                                     ELSE Sifted(T[i-1], events[i], first + i)
    BY <2>2, Zenon DEF Sifting
  <2>5. \A i \in 0 .. m : S[i] = IF i = 0 THEN Start
                                 ELSE Sifted(S[i-1], events[i], first + i)
    <3> TAKE i \in 0 .. m
    <3>1. CASE i = m
      <4>1. S[m] = Sifted(T[m-1], events[m], first + m)
        BY <1>4
      <4>2. S[m-1] = T[m-1]
        BY <1>4, <1>6, <2>3
      <4> HIDE DEF S, Start
      <4> QED BY <3>1, <4>1, <4>2, <1>6, Zenon
    <3>2. CASE i # m /\ i = 0
      <4> HIDE DEF S, Start
      <4>1. 0 \in 0 .. m - 1
        BY <1>4, <1>6
      <4> QED BY <3>2, <4>1, <2>3, <2>4, Zenon
    <3>3. CASE i # m /\ i # 0
      <4>1. i \in 0 .. m - 1 /\ i - 1 \in 0 .. m - 1
        BY <3>3, <1>4
      <4>2. S[i] = T[i] /\ S[i-1] = T[i-1]
        BY <4>1, <2>3, Zenon
      <4> HIDE DEF S, Start
      <4> QED BY <3>3, <4>1, <4>2, <2>4, Zenon
    <3> QED BY <3>1, <3>2, <3>3, Zenon
  <2>6. S = [i \in 0 .. m |-> S[i]]
    BY Zenon
  <2>7. Sifting(S, table, events, first, m)
    <3> HIDE DEF S
    <3> QED BY <2>5, <2>6, Zenon DEF Sifting
  <2> HIDE DEF S
  <2> QED BY <1>3, <2>7, Zenon
<1> QED BY <1>5, <1>6, Zenon

\* Sift unfolded: it starts with the table and passes the events in turn.
LEMMA SiftUnfold ==
    ASSUME NEW table, NEW events, NEW first, Len(events) \in Nat
    PROVE  \E S : /\ Sift(table, events, first) = S[Len(events)]
                  /\ S[0] = [table |-> table, out |-> <<>>]
                  /\ \A i \in 1 .. Len(events) :
                        S[i] = Sifted(S[i-1], events[i], first + i)
<1> DEFINE S == CHOOSE S : Sifting(S, table, events, first, Len(events))
<1>1. Sift(table, events, first) = S[Len(events)]
  BY Zenon DEF Sift, Sifting
<1>2. Sifting(S, table, events, first, Len(events))
  BY SiftExists, Zenon
<1> HIDE DEF S
<1> QED BY <1>1, <1>2 DEF Sifting

\* q is an increasing sequence of numbers from lo to hi.
Ordered(q, lo, hi) ==
    /\ q \in Seq(Nat)
    /\ \A i \in 1 .. Len(q) : q[i] \in lo .. hi
    /\ \A i, j \in 1 .. Len(q) : i < j => q[i] < q[j]

\* One event adds its number at the end, or nothing.
LEMMA SiftedOrdered ==
    ASSUME NEW prev, NEW e, NEW lo \in Nat, NEW n \in Nat, lo <= n,
           Ordered(prev.out, lo, n - 1)
    PROVE  Ordered(Sifted(prev, e, n).out, lo, n)
<1> DEFINE q == prev.out
<1>1. /\ q \in Seq(Nat)
      /\ \A i \in 1 .. Len(q) : q[i] \in lo .. n - 1
      /\ \A i, j \in 1 .. Len(q) : i < j => q[i] < q[j]
  BY Zenon DEF Ordered
<1>2. CASE IsDuplicate(prev.table, e.ts, e)
  <2>1. Sifted(prev, e, n).out = q
    BY <1>2, Zenon DEF Sifted
  <2> HIDE DEF q
  <2> QED BY <1>1, <2>1 DEF Ordered
<1>3. CASE ~IsDuplicate(prev.table, e.ts, e)
  <2>1. Sifted(prev, e, n).out = Append(q, n)
    BY <1>3, Zenon DEF Sifted
  <2> HIDE DEF q
  <2>2. /\ Append(q, n) \in Seq(Nat)
        /\ Len(Append(q, n)) = Len(q) + 1
        /\ \A i \in 1 .. Len(q) : Append(q, n)[i] = q[i]
        /\ Append(q, n)[Len(q) + 1] = n
        /\ Len(q) \in Nat
    BY <1>1
  <2>3. ASSUME NEW a, a = Append(q, n) PROVE Ordered(a, lo, n)
    <3>1. /\ a \in Seq(Nat) /\ Len(a) = Len(q) + 1 /\ a[Len(q) + 1] = n
          /\ \A i \in 1 .. Len(q) : a[i] = q[i]
      BY <2>2, <2>3, Zenon
    <3>2. \A i \in 1 .. Len(a) : a[i] \in lo .. n
      <4> TAKE i \in 1 .. Len(a)
      <4>1. i \in 1 .. Len(q) \/ i = Len(q) + 1
        BY <3>1, <2>2
      <4> QED BY <4>1, <3>1, <1>1, SMTT(30)
    <3>3. \A i, j \in 1 .. Len(a) : i < j => a[i] < a[j]
      <4> TAKE i, j \in 1 .. Len(a)
      <4> HAVE i < j
      <4>1. i \in 1 .. Len(q) + 1 /\ j \in 1 .. Len(q) + 1
        BY <3>1, Zenon
      <4>2. i \in 1 .. Len(q) /\ (j \in 1 .. Len(q) \/ j = Len(q) + 1)
        BY <4>1, <2>2, SMTT(30)
      <4> QED BY <4>2, <3>1, <1>1, SMTT(30)
    <3> QED BY <3>1, <3>2, <3>3, Zenon DEF Ordered
  <2> QED BY <2>1, <2>3, Zenon
<1> QED BY <1>2, <1>3, Zenon

\* Sift keeps, in order, some of the numbers it gives the events.
LEMMA SiftOrdered ==
    ASSUME NEW table, NEW events, NEW first \in Nat, Len(events) \in Nat
    PROVE  Ordered(Sift(table, events, first).out, first + 1, first + Len(events))
<1>1. PICK S : /\ Sift(table, events, first) = S[Len(events)]
               /\ S[0] = [table |-> table, out |-> <<>>]
               /\ \A i \in 1 .. Len(events) :
                        S[i] = Sifted(S[i-1], events[i], first + i)
  BY SiftUnfold
<1> DEFINE Bad == {i \in 0 .. Len(events) : ~Ordered(S[i].out, first + 1, first + i)}
<1>2. SUFFICES Bad = {}
  BY <1>1, <1>2
<1>3. SUFFICES ASSUME Bad # {} PROVE FALSE
  BY Zenon
<1>4. PICK m \in Bad : \A y \in Bad : m <= y
  <2>1. Bad \in SUBSET Nat
    OBVIOUS
  <2> HIDE DEF Bad
  <2> QED BY <2>1, <1>3, LeastNat, Zenon
<1>5. m \in 0 .. Len(events) /\ ~Ordered(S[m].out, first + 1, first + m)
  BY <1>4, Zenon
<1>6. CASE m = 0
  <2>1. S[0].out = <<>>
    BY <1>1
  <2>2. Ordered(<<>>, first + 1, first + 0)
    BY DEF Ordered
  <2> QED BY <1>5, <1>6, <2>1, <2>2, Zenon
<1>7. CASE m # 0
  <2>1. m - 1 \in 0 .. Len(events) /\ m - 1 \notin Bad
    <3> HIDE DEF Bad
    <3> QED BY <1>4, <1>5, <1>7
  <2>2. Ordered(S[m-1].out, first + 1, (first + m) - 1)
    BY <2>1, <1>5
  <2>3. S[m] = Sifted(S[m-1], events[m], first + m)
    BY <1>1, <1>5, <1>7
  <2>4. first + 1 \in Nat /\ first + m \in Nat /\ first + 1 <= first + m
    BY <1>5, <1>7
  <2> HIDE DEF Bad
  <2> QED BY <1>5, <2>2, <2>3, <2>4, SiftedOrdered, Zenon
<1> QED BY <1>6, <1>7, Zenon

\* A table whose entries are timestamps of events.
Timed(table) == \A h \in DOMAIN table : table[h] \in Time

LEMMA SiftTimed ==
    ASSUME NEW table, NEW events, NEW first, Len(events) \in Nat, Timed(table),
           \A i \in 1 .. Len(events) : events[i].ts \in Time
    PROVE  Timed(Sift(table, events, first).table)
<1>1. PICK S : /\ Sift(table, events, first) = S[Len(events)]
               /\ S[0] = [table |-> table, out |-> <<>>]
               /\ \A i \in 1 .. Len(events) :
                        S[i] = Sifted(S[i-1], events[i], first + i)
  BY SiftUnfold
<1> DEFINE Bad == {i \in 0 .. Len(events) : ~Timed(S[i].table)}
<1>2. SUFFICES Bad = {}
  BY <1>1, <1>2
<1>3. SUFFICES ASSUME Bad # {} PROVE FALSE
  BY Zenon
<1>4. PICK m \in Bad : \A y \in Bad : m <= y
  <2>1. Bad \in SUBSET Nat
    OBVIOUS
  <2> HIDE DEF Bad
  <2> QED BY <2>1, <1>3, LeastNat, Zenon
<1>5. m \in 0 .. Len(events) /\ ~Timed(S[m].table)
  BY <1>4, Zenon
<1>6. CASE m = 0
  BY <1>1, <1>5, <1>6
<1>7. CASE m # 0
  <2>1. m - 1 \in 0 .. Len(events) /\ m - 1 \notin Bad
    <3> HIDE DEF Bad
    <3> QED BY <1>4, <1>5, <1>7
  <2>2. Timed(S[m-1].table)
    BY <2>1, Zenon
  <2>3. S[m].table = After(S[m-1].table, events[m].ts, events[m])
    <3>1. m \in 1 .. Len(events)
      BY <1>5, <1>7
    <3>2. S[m] = Sifted(S[m-1], events[m], first + m)
      BY <1>1, <3>1, Zenon
    <3> QED BY <3>2 DEF Sifted
  <2>4. events[m].ts \in Time
    BY <1>5, <1>7
  <2>5. Timed(After(S[m-1].table, events[m].ts, events[m]))
    BY <2>2, <2>4, Zenon DEF After, Kept, Timed
  <2> QED BY <1>5, <2>3, <2>5, Zenon
<1> QED BY <1>6, <1>7, Zenon

-----------------------------------------------------------------------------
(* The events of a frame.                                                  *)

\* The event reports a Modbus request.
Report(e) == e.what \in {"paired", "partial"}

\* Events of which none reports a Modbus request.
Quiet(s) == IsList(s) /\ \A i \in 1 .. Len(s) : s[i].ts \in Time /\ ~Report(s[i])

\* Events of which one reports the request req, with the response resp.
OnePair(s, req, resp) ==
    /\ IsList(s)
    /\ \A i \in 1 .. Len(s) : s[i].ts \in Time
    /\ \E k \in 1 .. Len(s) :
        /\ s[k].what = "paired" /\ s[k].req = req /\ s[k].resp = resp
        /\ \A i \in 1 .. Len(s) : i # k => ~Report(s[i])

LEMMA QuietNone == Quiet(<<>>)
BY DEF Quiet, IsList

LEMMA QuietOne ==
    ASSUME NEW e, e.ts \in Time, ~Report(e)
    PROVE  Quiet(<<e>>)
<1>1. IsList(<<e>>) /\ Len(<<e>>) = 1 /\ <<e>>[1] = e
  <2>1. <<e>> \in Seq({e})
    OBVIOUS
  <2> QED BY <2>1, SeqIsList, Zenon
<1>2. \A i \in 1 .. 1 : i = 1
  OBVIOUS
<1> QED BY <1>1, <1>2, Zenon DEF Quiet

LEMMA QuietMap ==
    ASSUME NEW n \in Nat, NEW s, s = [i \in 1 .. n |-> s[i]],
           \A i \in 1 .. n : s[i].ts \in Time /\ ~Report(s[i])
    PROVE  Quiet(s)
<1>1. IsList(s) /\ Len(s) = n
  <2>1. DOMAIN s = 1 .. n
    BY Zenon
  <2> QED BY <2>1, FunctionIsList, Zenon
<1> QED BY <1>1, Zenon DEF Quiet

LEMMA QuietConcat ==
    ASSUME NEW s, NEW t, Quiet(s), Quiet(t)
    PROVE  Quiet(s \o t)
<1>1. IsList(s) /\ IsList(t)
  BY Zenon DEF Quiet
<1>2. Len(s) \in Nat /\ Len(t) \in Nat
  BY <1>1, ListLen, Zenon
<1>3. ASSUME NEW i \in 1 .. Len(s \o t)
      PROVE  (s \o t)[i].ts \in Time /\ ~Report((s \o t)[i])
  <2>1. IF i <= Len(s) THEN (s \o t)[i] = s[i]
        ELSE i - Len(s) \in 1 .. Len(t) /\ (s \o t)[i] = t[i - Len(s)]
    BY <1>1, ListConcat, Zenon
  <2>2. CASE i <= Len(s)
    <3>1. i \in 1 .. Len(s)
      BY <1>2, <2>2
    <3> QED BY <2>1, <2>2, <3>1, Zenon DEF Quiet
  <2>3. CASE ~(i <= Len(s))
    BY <2>1, <2>3, Zenon DEF Quiet
  <2> QED BY <2>2, <2>3, Zenon
<1> QED BY <1>1, <1>3, ListConcat, Zenon DEF Quiet

LEMMA PairThenQuiet ==
    ASSUME NEW s, NEW t, NEW q, NEW r, OnePair(s, q, r), Quiet(t)
    PROVE  OnePair(s \o t, q, r)
<1>1. IsList(s) /\ IsList(t)
  BY Zenon DEF Quiet, OnePair
<1>2. Len(s) \in Nat /\ Len(t) \in Nat
  BY <1>1, ListLen, Zenon
<1>3. PICK k \in 1 .. Len(s) :
        /\ s[k].what = "paired" /\ s[k].req = q /\ s[k].resp = r
        /\ \A i \in 1 .. Len(s) : i # k => ~Report(s[i])
  BY Zenon DEF OnePair
<1>4. ASSUME NEW i \in 1 .. Len(s \o t)
      PROVE  (s \o t)[i].ts \in Time /\ (i # k => ~Report((s \o t)[i]))
  <2>1. IF i <= Len(s) THEN (s \o t)[i] = s[i]
        ELSE i - Len(s) \in 1 .. Len(t) /\ (s \o t)[i] = t[i - Len(s)]
    BY <1>1, ListConcat, Zenon
  <2>2. CASE i <= Len(s)
    <3>1. i \in 1 .. Len(s)
      BY <1>2, <2>2
    <3> QED BY <2>1, <2>2, <3>1, <1>3, Zenon DEF OnePair
  <2>3. CASE ~(i <= Len(s))
    BY <2>1, <2>3, Zenon DEF Quiet
  <2> QED BY <2>2, <2>3, Zenon
<1>5. k \in 1 .. Len(s \o t) /\ (s \o t)[k] = s[k]
  <2>1. Len(s \o t) = Len(s) + Len(t) /\ (s \o t)[k] = s[k]
    BY <1>1, ListConcat
  <2> QED BY <2>1, <1>2
<1>6. IsList(s \o t)
  BY <1>1, ListConcat, Zenon
<1> QED BY <1>3, <1>4, <1>5, <1>6, Zenon DEF OnePair

LEMMA QuietThenPair ==
    ASSUME NEW s, NEW t, NEW q, NEW r, Quiet(s), OnePair(t, q, r)
    PROVE  OnePair(s \o t, q, r)
<1>1. IsList(s) /\ IsList(t)
  BY Zenon DEF Quiet, OnePair
<1>2. Len(s) \in Nat /\ Len(t) \in Nat
  BY <1>1, ListLen, Zenon
<1>3. PICK k \in 1 .. Len(t) :
        /\ t[k].what = "paired" /\ t[k].req = q /\ t[k].resp = r
        /\ \A i \in 1 .. Len(t) : i # k => ~Report(t[i])
  BY Zenon DEF OnePair
<1>4. ASSUME NEW i \in 1 .. Len(s \o t)
      PROVE  (s \o t)[i].ts \in Time /\ (i # Len(s) + k => ~Report((s \o t)[i]))
  <2>1. IF i <= Len(s) THEN (s \o t)[i] = s[i]
        ELSE i - Len(s) \in 1 .. Len(t) /\ (s \o t)[i] = t[i - Len(s)]
    BY <1>1, ListConcat, Zenon
  <2>2. CASE i <= Len(s)
    <3>1. i \in 1 .. Len(s)
      BY <1>2, <2>2
    <3> QED BY <2>1, <2>2, <3>1, Zenon DEF Quiet
  <2>3. CASE ~(i <= Len(s))
    <3>1. i # Len(s) + k => i - Len(s) # k
      BY <1>2
    <3> QED BY <2>1, <2>3, <3>1, <1>3, Zenon DEF OnePair
  <2> QED BY <2>2, <2>3, Zenon
<1>5. Len(s) + k \in 1 .. Len(s \o t) /\ (s \o t)[Len(s) + k] = t[k]
  <2>1. Len(s \o t) = Len(s) + Len(t) /\ (s \o t)[Len(s) + k] = t[k]
    BY <1>1, ListConcat
  <2> QED BY <2>1, <1>2
<1>6. IsList(s \o t)
  BY <1>1, ListConcat, Zenon
<1> QED BY <1>3, <1>4, <1>5, <1>6, Zenon DEF OnePair

\* The chunk of frame f answers a request that waits.
Answers(f, ts, no) ==
    LET c == Chunk(f, ts, no) IN
    /\ Claims(ModbusInterest, f)
    /\ c.body.ok /\ ~IsRequest(c)
    /\ Key(c) \in DOMAIN modbus

LEMMA InspectedQuiet ==
    ASSUME NEW f \in Frame, NEW ts \in Time
    PROVE  Quiet(Inspected(f, ts))
<1> DEFINE s == [i \in 1 .. Len(f.findings) |->
                    Anomaly(ts, Macs(f), "parse_anomaly:inspector", f.findings[i])]
<1>1. Len(f.findings) \in Nat
  BY EngineAssumption
<1>2. Quiet(s)
  <2>1. \A i \in 1 .. Len(f.findings) : s[i].ts \in Time /\ ~Report(s[i])
    BY Zenon DEF Anomaly, Report
  <2>2. s = [i \in 1 .. Len(f.findings) |-> s[i]]
    BY Zenon
  <2> HIDE DEF s
  <2> QED BY <1>1, <2>1, <2>2, QuietMap, Zenon
<1> QED BY <1>2, QuietNone, Zenon DEF Inspected

LEMMA StatelessQuiet ==
    ASSUME NEW f \in Frame, NEW ts \in Time, NEW no, Claims(Stateless, f)
    PROVE  Quiet(StatelessEvents(Chunk(f, ts, no)))
<1> DEFINE c == Chunk(f, ts, no)
           s == StatelessEvents(c)
           n == Len(c.body.yields)
<1>1. n \in Nat
  BY EngineAssumption DEF Chunk
<1>2. c.ts = ts
  BY Zenon DEF Chunk
<1>3. \A i \in 1 .. n : s[i].ts \in Time /\ ~Report(s[i])
  <2> HIDE DEF c
  <2> QED BY <1>2, Zenon DEF StatelessEvents, Report
<1>4. s = [i \in 1 .. n |-> s[i]]
  <2> HIDE DEF c
  <2> QED BY Zenon DEF StatelessEvents
<1> HIDE DEF s, n
<1>5. Quiet(s)
  BY <1>1, <1>3, <1>4, QuietMap, Zenon
<1> QED BY <1>5, Zenon DEF s

LEMMA PeekedQuiet ==
    ASSUME NEW f \in Frame, NEW ts \in Time
    PROVE  Quiet(Peeked(f, ts))
<1>1. CASE ~Ipv4Of(f, 1)
  BY <1>1, QuietNone, Zenon DEF Peeked
<1>2. CASE Ipv4Of(f, 1)
  <2> DEFINE s == [i \in 1 .. Len(f.body.oddities) |->
                    Anomaly(ts, <<f.sip, f.dip>>, "parse_anomaly:icmpeeker",
                            f.body.oddities[i])]
  <2>1. Len(f.body.oddities) \in Nat
    BY <1>2, EngineAssumption
  <2>2. \A i \in 1 .. Len(f.body.oddities) : s[i].ts \in Time /\ ~Report(s[i])
    BY Zenon DEF Anomaly, Report
  <2>3. s = [i \in 1 .. Len(f.body.oddities) |-> s[i]]
    BY Zenon
  <2>4. Peeked(f, ts) = s
    BY <1>2, Zenon DEF Peeked
  <2> HIDE DEF s
  <2> QED BY <2>1, <2>2, <2>3, <2>4, QuietMap, Zenon
<1> QED BY <1>1, <1>2, Zenon

LEMMA ReportedQuiet ==
    ASSUME NEW f \in Frame, NEW ts \in Time, NEW u
    PROVE  Quiet(Reported(f, ts, u))
<1>1. ASSUME NEW ends, NEW d, NEW r
      PROVE  Quiet(<<Anomaly(ts, ends, d, r)>>)
  <2>1. Anomaly(ts, ends, d, r).ts \in Time /\ ~Report(Anomaly(ts, ends, d, r))
    BY Zenon DEF Anomaly, Report
  <2> QED BY <2>1, QuietOne, Zenon
<1> QED BY <1>1, QuietNone, Zenon DEF Reported

LEMMA WinRmQuiet ==
    ASSUME NEW sessions, NEW c, c.ts \in Time
    PROVE  Quiet(WinRmEvents(sessions, c))
<1>1. ASSUME NEW what, NEW key, what \notin {"paired", "partial"}
      PROVE  Quiet(<<Winrm(c, what, key)>>)
  <2>1. Winrm(c, what, key).ts \in Time /\ ~Report(Winrm(c, what, key))
    BY <1>1, Zenon DEF Winrm, Report
  <2> QED BY <2>1, QuietOne, Zenon
<1>2. Quiet(<<Asset(c)>>)
  <2>1. "asset" \notin {"paired", "partial"}
    BY Zenon
  <2> QED BY <1>1, <2>1, Zenon DEF Asset
<1>3. Quiet(<<HttpsSession(c)>>)
  <2>1. "https" \notin {"paired", "partial"}
    BY Zenon
  <2> QED BY <1>1, <2>1, Zenon DEF HttpsSession
<1>4. Quiet(PlainEvents(c))
  <2>1. "wsman" \notin {"paired", "partial"} /\ "anomaly" \notin {"paired", "partial"}
    BY Zenon
  <2>2. CASE c.body.wsman
    <3>1. PlainEvents(c) =
            <<Winrm(c, "wsman", <<"protocol_transaction:winrm", c.body.op>>)>>
      BY <2>2, Zenon DEF PlainEvents
    <3> QED BY <3>1, <2>1, <1>1, Zenon
  <2>3. CASE ~c.body.wsman /\ ~c.body.http
    <3>1. PlainEvents(c) =
            <<Winrm(c, "anomaly", <<"parse_anomaly:winrm", "not HTTP">>)>>
      BY <2>3, Zenon DEF PlainEvents
    <3> QED BY <3>1, <2>1, <1>1, Zenon
  <2>4. CASE ~c.body.wsman /\ c.body.http
    <3>1. PlainEvents(c) = <<>>
      BY <2>4, Zenon DEF PlainEvents
    <3> QED BY <3>1, QuietNone, Zenon
  <2> QED BY <2>2, <2>3, <2>4, Zenon
<1> QED BY <1>2, <1>3, <1>4, QuietNone, QuietConcat DEF WinRmEvents

\* A response with a request pending gives one report of it; every other
\* Modbus payload gives none.
LEMMA ModbusReports ==
    ASSUME NEW pending, NEW c, c.ts \in Time,
           \A k \in DOMAIN pending : pending[k].ts \in Time
    PROVE  IF c.body.ok /\ ~IsRequest(c) /\ Key(c) \in DOMAIN pending
           THEN OnePair(ChunkEvents(pending, c), pending[Key(c)].no, c.no)
           ELSE Quiet(ChunkEvents(pending, c))
<1>1. ASSUME NEW what, NEW rest, NEW resp, what \notin {"paired", "partial"}
      PROVE  Quiet(<<FromChunk(c, what, rest, resp)>>)
  <2>1. /\ FromChunk(c, what, rest, resp).ts \in Time
        /\ ~Report(FromChunk(c, what, rest, resp))
    BY <1>1, Zenon DEF FromChunk, Report
  <2> QED BY <2>1, QuietOne, Zenon
<1>2. /\ "identity" \notin {"paired", "partial"} /\ "artifact" \notin {"paired", "partial"}
      /\ "unpaired" \notin {"paired", "partial"} /\ "anomaly" \notin {"paired", "partial"}
  BY Zenon
<1>3. CASE ~c.body.ok
  <2>1. ChunkEvents(pending, c) = <<Garbled(c)>>
    BY <1>3, Zenon DEF ChunkEvents
  <2> QED BY <2>1, <1>1, <1>2, <1>3, Zenon DEF Garbled
<1>4. CASE c.body.ok /\ IsRequest(c)
  <2>1. ChunkEvents(pending, c) = <<>>
    BY <1>4, Zenon DEF ChunkEvents
  <2> QED BY <2>1, <1>4, QuietNone, Zenon
<1>5. CASE c.body.ok /\ ~IsRequest(c) /\ Key(c) \notin DOMAIN pending
  <2>1. ChunkEvents(pending, c) = Unpaired(c)
    BY <1>5, Zenon DEF ChunkEvents
  <2>2. Quiet(Unpaired(c))
    BY <1>1, <1>2, QuietNone, QuietConcat, Zenon DEF Unpaired
  <2> QED BY <2>1, <2>2, <1>5, Zenon
<1>6. CASE c.body.ok /\ ~IsRequest(c) /\ Key(c) \in DOMAIN pending
  <2> DEFINE p == pending[Key(c)]
             t == FromRequest(p, "paired", Transaction(p.ports, p.op), c.no)
  <2>1. ChunkEvents(pending, c) = Paired(p, c)
    BY <1>6, Zenon DEF ChunkEvents
  <2>2. ASSUME NEW what, NEW rest, NEW resp, what \notin {"paired", "partial"}
        PROVE  Quiet(<<FromRequest(p, what, rest, resp)>>)
    <3>1. /\ FromRequest(p, what, rest, resp).ts \in Time
          /\ ~Report(FromRequest(p, what, rest, resp))
      BY <1>6, <2>2, Zenon DEF FromRequest, Report
    <3> QED BY <3>1, QuietOne, Zenon
  <2>3. OnePair(<<t>>, p.no, c.no)
    <3>1. t.ts \in Time /\ t.what = "paired" /\ t.req = p.no /\ t.resp = c.no
      BY <1>6, Zenon DEF FromRequest
    <3> HIDE DEF t, p
    <3>2. IsList(<<t>>) /\ Len(<<t>>) = 1 /\ <<t>>[1] = t
      <4>1. <<t>> \in Seq({t})
        OBVIOUS
      <4> QED BY <4>1, SeqIsList, Zenon
    <3>3. \A i \in 1 .. 1 : i = 1
      OBVIOUS
    <3>4. 1 \in 1 .. Len(<<t>>)
      BY <3>2
    <3> QED BY <3>1, <3>2, <3>3, <3>4, Zenon DEF OnePair
  <2>4. OnePair(Paired(p, c), p.no, c.no)
    <3> DEFINE a == IF c.body.op # "identify" THEN <<>>
                    ELSE <<FromRequest(p, "identity", Identity(p.ports, c.src), c.no)>>
               b == IF c.body.op # "write" THEN <<>>
                    ELSE <<FromRequest(p, "artifact",
                            <<p.ports, "extracted_artifact:modbus_write_payload", Key(c)>>,
                            c.no)>>
    <3>1. Quiet(a) /\ Quiet(b)
      BY <2>2, <1>2, QuietNone, Zenon
    <3>2. Paired(p, c) = (<<t>> \o a) \o b
      BY Zenon DEF Paired
    <3> HIDE DEF a, b, t
    <3>3. OnePair(<<t>> \o a, p.no, c.no)
      BY <2>3, <3>1, PairThenQuiet, Zenon
    <3> QED BY <3>1, <3>2, <3>3, PairThenQuiet, Zenon
  <2> QED BY <2>1, <2>4, <1>6, Zenon
<1> QED BY <1>3, <1>4, <1>5, <1>6, Zenon

\* What a frame may give: one report, of the request that it answers.
LEMMA FrameReports ==
    ASSUME NEW f \in Frame, NEW ts \in Time, NEW no,
           \A k \in DOMAIN modbus : modbus[k].ts \in Time
    PROVE  IF Answers(f, ts, no)
           THEN OnePair(FrameEvents(f, ts, no), modbus[Key(Chunk(f, ts, no))].no, no)
           ELSE Quiet(FrameEvents(f, ts, no))
<1> DEFINE c == Chunk(f, ts, no)
           A == Inspected(f, ts)
           B == IF Claims(Stateless, f) THEN StatelessEvents(c) ELSE <<>>
           C == IF Claims(ModbusInterest, f) THEN ChunkEvents(modbus, c) ELSE <<>>
           D == IF Claims(WinRmInterest, f) THEN WinRmEvents(winrm, c) ELSE <<>>
           E == Peeked(f, ts)
           F == Reported(f, ts, Unclaimed(f))
           q == modbus[Key(c)].no
<1>1. c.ts = ts /\ c.no = no
  BY Zenon DEF Chunk
<1>2. FrameEvents(f, ts, no) = ((((A \o B) \o C) \o D) \o E) \o F
  BY Zenon DEF FrameEvents
<1>3. Quiet(A) /\ Quiet(E) /\ Quiet(F)
  BY InspectedQuiet, PeekedQuiet, ReportedQuiet, Zenon
<1>4. Quiet(B)
  BY StatelessQuiet, QuietNone, Zenon
<1>5. Quiet(D)
  <2>1. c.ts \in Time
    BY <1>1, Zenon
  <2> HIDE DEF c
  <2> QED BY <2>1, WinRmQuiet, QuietNone, Zenon
<1>6. IF Answers(f, ts, no) THEN OnePair(C, q, no) ELSE Quiet(C)
  <2>1. c.ts \in Time
    BY <1>1, Zenon
  <2>2. Answers(f, ts, no) <=>
            /\ Claims(ModbusInterest, f)
            /\ c.body.ok /\ ~IsRequest(c) /\ Key(c) \in DOMAIN modbus
    BY Zenon DEF Answers
  <2> HIDE DEF c
  <2>3. IF c.body.ok /\ ~IsRequest(c) /\ Key(c) \in DOMAIN modbus
        THEN OnePair(ChunkEvents(modbus, c), modbus[Key(c)].no, c.no)
        ELSE Quiet(ChunkEvents(modbus, c))
    BY <2>1, ModbusReports, Zenon
  <2> QED BY <1>1, <2>2, <2>3, QuietNone, Zenon
<1> HIDE DEF A, B, C, D, E, F, q
<1>7. Quiet(A \o B)
  BY <1>3, <1>4, QuietConcat, Zenon
<1>8. CASE Answers(f, ts, no)
  <2>1. OnePair((A \o B) \o C, q, no)
    BY <1>6, <1>7, <1>8, QuietThenPair, Zenon
  <2>2. OnePair(((A \o B) \o C) \o D, q, no)
    BY <2>1, <1>5, PairThenQuiet, Zenon
  <2>3. OnePair((((A \o B) \o C) \o D) \o E, q, no)
    BY <2>2, <1>3, PairThenQuiet, Zenon
  <2>4. OnePair(((((A \o B) \o C) \o D) \o E) \o F, q, no)
    BY <2>3, <1>3, PairThenQuiet, Zenon
  <2> QED BY <2>4, <1>2, <1>8, Zenon DEF q
<1>9. CASE ~Answers(f, ts, no)
  <2>1. Quiet((A \o B) \o C)
    BY <1>6, <1>7, <1>9, QuietConcat, Zenon
  <2>2. Quiet(((A \o B) \o C) \o D)
    BY <2>1, <1>5, QuietConcat, Zenon
  <2>3. Quiet((((A \o B) \o C) \o D) \o E)
    BY <2>2, <1>3, QuietConcat, Zenon
  <2>4. Quiet(((((A \o B) \o C) \o D) \o E) \o F)
    BY <2>3, <1>3, QuietConcat, Zenon
  <2> QED BY <2>4, <1>2, <1>9, Zenon
<1> QED BY <1>8, <1>9, Zenon

-----------------------------------------------------------------------------
(* What a step does with the events it makes.                              *)

\* What is needed, besides TypeOK, to keep it.
TypeInv ==
    /\ TypeOK
    /\ IsList(made) /\ IsList(log)
    /\ IsFiniteSet(DOMAIN modbus)
    /\ stream.status # "open" => stream.pending = <<>>

\* A step makes the events, keeps the numbers out of them, and lets the
\* batch wait, go out or get lost.
Moves(events, out) ==
    LET q == stream.pending \o out IN
    /\ IsList(events)
    /\ Ordered(out, Len(made) + 1, Len(made) + Len(events))
    /\ made' = made \o events
    /\ dropped' = dropped \cup ((Len(made) + 1 .. Len(made) + Len(events)) \ Elements(out))
    /\ \/ stream'.pending = q /\ delivered' = delivered /\ lost' = lost
       \/ stream'.pending = <<>> /\ delivered' = delivered \o q /\ lost' = lost
       \/ stream'.pending = <<>> /\ delivered' = delivered /\ lost' = lost \cup Elements(q)

LEMMA SeqNarrow ==
    ASSUME NEW S, NEW T, NEW s \in Seq(S), \A i \in 1 .. Len(s) : s[i] \in T
    PROVE  s \in Seq(T)
<1>1. Len(s) \in Nat /\ DOMAIN s = 1 .. Len(s) /\ s = [i \in 1 .. Len(s) |-> s[i]]
  OBVIOUS
<1> QED BY <1>1

\* The elements of a concatenation.
LEMMA ElementsConcat ==
    ASSUME NEW S, NEW s \in Seq(S), NEW t \in Seq(S)
    PROVE  Elements(s \o t) = Elements(s) \cup Elements(t)
<1>1. IsList(s) /\ IsList(t)
  BY SeqIsList, Zenon
<1>2. Members(s \o t) = Members(s) \cup Members(t)
  BY <1>1, ListConcat, Zenon
<1> QED BY <1>2, Zenon DEF Members, Elements

LEMMA SeqWiden ==
    ASSUME NEW S, NEW T, S \subseteq T
    PROVE  Seq(S) \subseteq Seq(T)
OBVIOUS

\* The numbers a step hands on are numbers of events that were made.
LEMMA MovesTyped ==
    ASSUME TypeInv, NEW events, NEW out, Moves(events, out)
    PROVE  /\ IsList(made')
           /\ Len(made') = Len(made) + Len(events)
           /\ Len(made) \in Nat /\ Len(events) \in Nat
           /\ Number \subseteq Number'
           /\ stream.pending \in Seq(Number') /\ out \in Seq(Number')
           /\ delivered \in Seq(Number')
           /\ stream'.pending \in Seq(Number') /\ delivered' \in Seq(Number')
           /\ dropped' \subseteq Number' /\ lost' \subseteq Number'
<1>1. IsList(made') /\ Len(made') = Len(made) + Len(events)
  BY ListConcat, Zenon DEF TypeInv, Moves
<1>2. Len(made) \in Nat /\ Len(events) \in Nat
  BY ListLen, Zenon DEF TypeInv, Moves
<1>3. Number = 1 .. Len(made) /\ Number' = 1 .. Len(made) + Len(events)
  BY <1>1, Zenon DEF Number
<1>4. Number \subseteq Number'
  BY <1>2, <1>3
<1>5. out \in Seq(Number')
  <2>1. \A i \in 1 .. Len(out) : out[i] \in Number'
    BY <1>2, <1>3 DEF Moves, Ordered
  <2> QED BY <2>1, SeqNarrow, Zenon DEF Moves, Ordered
<1>6. stream.pending \in Seq(Number') /\ delivered \in Seq(Number')
  <2>1. stream.pending \in Seq(Number) /\ delivered \in Seq(Number)
    BY Zenon DEF TypeInv, TypeOK
  <2> QED BY <2>1, <1>4, SeqWiden, Zenon
<1>7. ASSUME NEW s \in Seq(Number') PROVE Elements(s) \subseteq Number'
  BY DEF Elements
<1>8. stream.pending \o out \in Seq(Number')
  BY <1>5, <1>6
<1>9. stream'.pending \in Seq(Number') /\ delivered' \in Seq(Number')
  <2> DEFINE q == stream.pending \o out
  <2>1. \/ stream'.pending = q /\ delivered' = delivered
        \/ stream'.pending = <<>> /\ delivered' = delivered \o q
        \/ stream'.pending = <<>> /\ delivered' = delivered
    BY Zenon DEF Moves
  <2>2. q \in Seq(Number')
    BY <1>8, Zenon
  <2> HIDE DEF q
  <2>3. <<>> \in Seq(Number') /\ delivered \o q \in Seq(Number')
    BY <1>6, <2>2
  <2> QED BY <1>6, <2>1, <2>2, <2>3, Zenon
<1>10. lost' \subseteq Number'
  <2>1. lost \subseteq Number'
    BY <1>4, Zenon DEF TypeInv, TypeOK
  <2>2. Elements(stream.pending \o out) \subseteq Number'
    BY <1>7, <1>8, Zenon
  <2> QED BY <2>1, <2>2, Zenon DEF Moves
<1>11. dropped' \subseteq Number'
  <2>1. dropped \subseteq Number'
    BY <1>4, Zenon DEF TypeInv, TypeOK
  <2>2. Len(made) + 1 .. Len(made) + Len(events) \subseteq Number'
    BY <1>2, <1>3
  <2>3. dropped' = dropped \cup
            ((Len(made) + 1 .. Len(made) + Len(events)) \ Elements(out))
    BY Zenon DEF Moves
  <2> QED BY <2>1, <2>2, <2>3, Zenon
<1> QED BY <1>1, <1>2, <1>4, <1>5, <1>6, <1>9, <1>10, <1>11, Zenon

\* What Push does.
LEMMA PushMoves ==
    ASSUME TypeInv, NEW f \in Frame, NEW ts \in Time, Push(f, ts)
    PROVE  LET events == FrameEvents(f, ts, Len(log) + 1)
           IN  /\ \A i \in 1 .. Len(events) : events[i].ts \in Time
               /\ Timed(seen')
               /\ Moves(events, Sift(seen, events, Len(made)).out)
<1> DEFINE events == FrameEvents(f, ts, Len(log) + 1)
           sifted == Sift(seen, events, Len(made))
           q == stream.pending \o sifted.out
<1>1. /\ Ingest(f, ts, events, sifted)
      /\ Keep(ts, events, q) \/ Send(ts, events, q) \/ Refuse(ts, events, q)
  BY Zenon DEF Push
<1>2. IsList(events) /\ \A i \in 1 .. Len(events) : events[i].ts \in Time
  <2>1. \A k \in DOMAIN modbus : modbus[k].ts \in Time
    BY Zenon DEF TypeInv, TypeOK
  <2> QED BY <2>1, FrameReports, Zenon DEF Quiet, OnePair
<1> HIDE DEF events
<1>3. Len(events) \in Nat /\ Len(made) \in Nat
  BY <1>2, ListLen, Zenon DEF TypeInv
<1>4. Timed(sifted.table)
  BY <1>2, <1>3, SiftTimed, Zenon DEF TypeInv, TypeOK, Timed
<1>5. Ordered(sifted.out, Len(made) + 1, Len(made) + Len(events))
  BY <1>3, SiftOrdered, Zenon
<1> HIDE DEF sifted
<1>6. seen' = sifted.table /\ made' = made \o events
      /\ dropped' = dropped \cup
            ((Len(made) + 1 .. Len(made) + Len(events)) \ Elements(sifted.out))
  BY <1>1, Zenon DEF Ingest
<1>7. ASSUME NEW x, NEW n PROVE Ingested(ts, events, x, n).pending = x
  BY Zenon DEF Ingested, TypeInv, TypeOK
<1>8. \/ stream'.pending = q /\ delivered' = delivered /\ lost' = lost
      \/ stream'.pending = <<>> /\ delivered' = delivered \o q /\ lost' = lost
      \/ stream'.pending = <<>> /\ delivered' = delivered /\ lost' = lost \cup Elements(q)
  <2> HIDE DEF q
  <2> QED BY <1>1, <1>7, Zenon DEF Keep, Send, Refuse
<1>9. Moves(events, sifted.out)
  BY <1>2, <1>5, <1>6, <1>8, Zenon DEF Moves
<1> QED BY <1>2, <1>4, <1>6, <1>9, Zenon DEF events, sifted

\* The keys that finalize_stream reports: each expired one, once.
LEMMA OrdersOnce ==
    ASSUME NEW K, IsFiniteSet(K), NEW keys \in Orders(K)
    PROVE  /\ IsList(keys) /\ Len(keys) \in Nat
           /\ \A i \in 1 .. Len(keys) : keys[i] \in K
           /\ \A i, j \in 1 .. Len(keys) : keys[i] = keys[j] => i = j
           /\ Elements(keys) = K
<1> DEFINE n == Cardinality(K)
<1>1. n \in Nat
  BY FS_CardinalityType, Zenon
<1>2. keys \in [1 .. n -> K] /\ Elements(keys) = K
  BY Zenon DEF Orders
<1> HIDE DEF n
<1>3. IsList(keys) /\ Len(keys) = n
  <2>1. DOMAIN keys = 1 .. n /\ keys = [i \in 1 .. n |-> keys[i]]
    BY <1>2, Zenon
  <2> QED BY <1>1, <2>1, FunctionIsList, Zenon
<1>4. \A k \in K : \E i \in 1 .. n : keys[i] = k
  BY <1>2, <1>3, Zenon DEF Elements
<1>5. IsFiniteSet(1 .. n) /\ Cardinality(1 .. n) = n
  BY <1>1, FS_Interval
<1>6. n = Cardinality(K)
  BY Zenon DEF n
<1>7. \A i, j \in 1 .. n : keys[i] = keys[j] => i = j
  <2> DEFINE I == 1 .. n
  <2>1. Onto(keys, I, K) /\ IsFiniteSet(I)
    BY <1>2, <1>4, <1>5, Zenon DEF Onto
  <2>2. Cardinality(K) = Cardinality(I)
    BY <1>5, <1>6, Zenon
  <2> HIDE DEF I
  <2>3. Cardinality(K) = Cardinality(I) <=> \A i, j \in I : keys[i] = keys[j] => i = j
    BY <2>1, FS_Onto, Zenon
  <2>4. \A i, j \in I : keys[i] = keys[j] => i = j
    BY <2>2, <2>3, Zenon
  <2> QED BY <2>4, Zenon DEF I
<1> QED BY <1>1, <1>2, <1>3, <1>7, Zenon

\* The events of finalize_stream.
Partials(keys) == [i \in 1 .. Len(keys) |-> Partial(modbus[keys[i]])]
Fresh(keys) == [i \in 1 .. Len(keys) |-> Len(made) + i]

\* What finalize_stream does.
LEMMA FinishMoves ==
    ASSUME TypeInv, NEW keys \in Orders(Expired(modbus, stream.last)),
           Finish(keys) \/ FinishRefused(keys)
    PROVE  /\ IsList(keys) /\ Len(keys) \in Nat
           /\ \A i \in 1 .. Len(keys) : keys[i] \in DOMAIN modbus
           /\ \A i, j \in 1 .. Len(keys) : keys[i] = keys[j] => i = j
           /\ Elements(keys) = Expired(modbus, stream.last)
           /\ IsList(Partials(keys)) /\ Len(Partials(keys)) = Len(keys)
           /\ Moves(Partials(keys), Fresh(keys))
<1> DEFINE K == Expired(modbus, stream.last)
           P == Partials(keys)
           F == Fresh(keys)
           n == Len(keys)
           q == stream.pending \o F
<1>1. IsFiniteSet(K)
  <2>1. K \subseteq DOMAIN modbus
    BY Zenon DEF Expired
  <2> QED BY <2>1, FS_Subset, Zenon DEF TypeInv
<1>2. /\ IsList(keys) /\ n \in Nat
      /\ \A i \in 1 .. n : keys[i] \in K
      /\ \A i, j \in 1 .. n : keys[i] = keys[j] => i = j
      /\ Elements(keys) = K
  BY <1>1, OrdersOnce, Zenon
<1>3. \A i \in 1 .. n : keys[i] \in DOMAIN modbus
  BY <1>2, Zenon DEF Expired
<1>4. IsList(P) /\ Len(P) = n
  <2>1. DOMAIN P = 1 .. n /\ P = [i \in 1 .. n |-> P[i]]
    BY Zenon DEF Partials
  <2> HIDE DEF P, n
  <2> QED BY <1>2, <2>1, FunctionIsList, Zenon
<1>5. Len(made) \in Nat
  BY ListLen, Zenon DEF TypeInv
<1>6. /\ F \in Seq(Nat) /\ Len(F) = n /\ \A i \in 1 .. n : F[i] = Len(made) + i
  <2>1. F = [i \in 1 .. n |-> Len(made) + i]
    BY Zenon DEF Fresh
  <2> HIDE DEF F, n
  <2>2. F \in [1 .. n -> Nat]
    BY <2>1, <1>5, <1>2
  <2> QED BY <1>2, <2>1, <2>2
<1>7. Ordered(F, Len(made) + 1, Len(made) + Len(P))
  <2> HIDE DEF F, P, n
  <2> QED BY <1>2, <1>4, <1>5, <1>6, SMTT(30) DEF Ordered
<1>8. (Len(made) + 1 .. Len(made) + Len(P)) \ Elements(F) = {}
  <2>1. ASSUME NEW x \in Len(made) + 1 .. Len(made) + Len(P)
        PROVE  x \in Elements(F)
    <3> HIDE DEF F, P, n
    <3>1. x - Len(made) \in 1 .. n
      BY <1>2, <1>4, <1>5
    <3>2. F[x - Len(made)] = x
      BY <3>1, <1>5, <1>6
    <3> QED BY <3>1, <3>2, <1>6, Zenon DEF Elements
  <2> QED BY <2>1, Zenon
<1>9. made' = made \o P /\ dropped' = dropped /\ Drained(keys) = q
  BY Zenon DEF Finish, FinishRefused, Drain, Drained, Partials, Fresh
<1>10. \/ stream'.pending = q /\ delivered' = delivered /\ lost' = lost
       \/ stream'.pending = <<>> /\ delivered' = delivered \o q /\ lost' = lost
       \/ stream'.pending = <<>> /\ delivered' = delivered /\ lost' = lost \cup Elements(q)
  <2> HIDE DEF q
  <2> QED BY <1>9, Zenon DEF Finish, FinishRefused, TypeInv, TypeOK
<1>11. Moves(P, F)
  <2> HIDE DEF P, F
  <2> QED BY <1>4, <1>7, <1>8, <1>9, <1>10, Zenon DEF Moves
<1> QED BY <1>2, <1>3, <1>4, <1>11, Zenon

\* A step without events.
LEMMA NothingMoves ==
    ASSUME TypeInv, made' = made, dropped' = dropped, delivered' = delivered,
           \/ stream'.pending = stream.pending /\ lost' = lost
           \/ stream'.pending = <<>> /\ lost' = lost \cup Elements(stream.pending)
    PROVE  Moves(<<>>, <<>>)
<1>1. Len(made) \in Nat
  BY ListLen, Zenon DEF TypeInv
<1>2. made \o <<>> = made /\ stream.pending \o <<>> = stream.pending
  <2>1. made \in Seq(Members(made)) /\ stream.pending \in Seq(Number)
    BY Zenon DEF TypeInv, TypeOK, IsList
  <2> QED BY <2>1
<1>3. IsList(<<>>)
  BY DEF IsList
<1>4. Ordered(<<>>, Len(made) + 1, Len(made) + Len(<<>>))
  BY DEF Ordered
<1>5. (Len(made) + 1 .. Len(made) + Len(<<>>)) \ Elements(<<>>) = {}
  BY <1>1
<1> QED BY <1>2, <1>3, <1>4, <1>5, Zenon DEF Moves

\* Every step moves events in one of these ways.
LEMMA NextMoves ==
    ASSUME TypeInv, [Next]_vars
    PROVE  \E events, out : Moves(events, out)
<1>1. ASSUME NEW now \in WallClock, Open(now)
      PROVE  Moves(<<>>, <<>>)
  BY <1>1, NothingMoves, Zenon DEF Open, TypeInv
<1>2. ASSUME NEW f \in Frame, NEW ts \in Time, Push(f, ts)
      PROVE  \E events, out : Moves(events, out)
  BY <1>2, PushMoves, Zenon
<1>3. ASSUME NEW keys \in Orders(Expired(modbus, stream.last)),
             Finish(keys) \/ FinishRefused(keys)
      PROVE  \E events, out : Moves(events, out)
  BY <1>3, FinishMoves, Zenon
<1>4. CASE Abandon
  <2>1. stream'.pending = <<>>
    BY <1>4, Zenon DEF Abandon, TypeInv, TypeOK
  <2> QED BY <1>4, <2>1, NothingMoves, Zenon DEF Abandon
<1>5. CASE UNCHANGED vars
  BY <1>5, NothingMoves, Zenon DEF vars
<1> QED BY <1>1, <1>2, <1>3, <1>4, <1>5, Zenon DEF Next

LEMMA InitType ==
    ASSUME Init
    PROVE  TypeInv
<1>1. MaxTime \in Nat /\ MaxStreams \in Nat /\ MaxFrames \in Nat
  BY EngineAssumption, Zenon
<1>2. TypeOK
  BY <1>1 DEF Init, TypeOK, Empty, NoRequests, NoStream, Time, Number
<1>3. IsList(<<>>)
  BY DEF IsList
<1>4. IsFiniteSet(DOMAIN NoRequests)
  BY FS_EmptySet, Zenon DEF NoRequests
<1> QED BY <1>2, <1>3, <1>4, Zenon DEF TypeInv, Init, NoStream

\* The Modbus table after a frame.
LEMMA TableTyped ==
    ASSUME TypeInv, NEW f \in Frame, NEW ts \in Time, Push(f, ts)
    PROVE  /\ Len(log) \in Nat /\ Len(log') = Len(log) + 1 /\ IsList(log')
           /\ log'[Len(log) + 1] = [frame |-> f, ts |-> ts]
           /\ \A i \in 1 .. Len(log) : log'[i] = log[i]
           /\ IsFiniteSet(DOMAIN modbus')
           /\ \A k \in DOMAIN modbus' :
                modbus'[k].no \in 1 .. Len(log') /\ modbus'[k].ts \in Time
<1> DEFINE c == Chunk(f, ts, Len(log) + 1)
           r == [frame |-> f, ts |-> ts]
<1>1. /\ modbus' = IF Claims(ModbusInterest, f) THEN AfterChunk(modbus, c) ELSE modbus
      /\ log' = Append(log, r)
  BY Zenon DEF Push, Ingest
<1>2. Len(log) \in Nat /\ Len(log') = Len(log) + 1 /\ IsList(log')
      /\ log'[Len(log) + 1] = r /\ \A i \in 1 .. Len(log) : log'[i] = log[i]
  <2> HIDE DEF r
  <2>1. log \in Seq(Members(log) \cup {r})
    <3>1. Members(log) \subseteq Members(log) \cup {r}
      BY Zenon
    <3>2. log \in Seq(Members(log))
      BY Zenon DEF TypeInv, IsList
    <3> QED BY <3>1, <3>2, SeqWiden, Zenon
  <2> DEFINE S == Members(log) \cup {r}
  <2>2. r \in S
    BY Zenon
  <2> HIDE DEF S
  <2>3. Append(log, r) \in Seq(S)
    BY <2>1, <2>2 DEF S
  <2>4. /\ Len(log) \in Nat /\ Len(Append(log, r)) = Len(log) + 1
        /\ Append(log, r)[Len(log) + 1] = r
        /\ \A i \in 1 .. Len(log) : Append(log, r)[i] = log[i]
    BY <2>1, <2>2 DEF S
  <2>5. IsList(Append(log, r))
    BY <2>3, SeqIsList, Zenon
  <2> QED BY <1>1, <2>4, <2>5, Zenon
<1>3. c.no = Len(log) + 1 /\ c.ts = ts
  BY Zenon DEF Chunk
<1> HIDE DEF c, r
<1>4. /\ IsFiniteSet(DOMAIN modbus)
      /\ \A k \in DOMAIN modbus : modbus[k].no \in 1 .. Len(log) /\ modbus[k].ts \in Time
  BY Zenon DEF TypeInv, TypeOK
<1>5. \A n \in 1 .. Len(log) : n \in 1 .. Len(log')
  BY <1>2
<1>6. CASE modbus' = modbus
  BY <1>2, <1>4, <1>5, <1>6, Zenon DEF r
<1>7. CASE modbus' = Pend(modbus, c)
  <2>1. DOMAIN modbus' = DOMAIN modbus \cup {Key(c)}
    BY <1>7, Zenon DEF Pend
  <2>2. modbus'[Key(c)].no = Len(log) + 1 /\ modbus'[Key(c)].ts = ts
    BY <1>3, <1>7, Zenon DEF Pend
  <2>3. \A k \in DOMAIN modbus : k # Key(c) => modbus'[k] = modbus[k]
    BY <1>7, Zenon DEF Pend
  <2>4. IsFiniteSet(DOMAIN modbus')
    BY <1>4, <2>1, FS_AddElement, Zenon
  <2>5. Len(log) + 1 \in 1 .. Len(log')
    BY <1>2
  <2>6. ASSUME NEW k \in DOMAIN modbus'
        PROVE  modbus'[k].no \in 1 .. Len(log') /\ modbus'[k].ts \in Time
    <3>1. k = Key(c) \/ k \in DOMAIN modbus
      BY <2>1, Zenon
    <3> QED BY <3>1, <2>2, <2>3, <2>5, <1>4, <1>5, Zenon
  <2> QED BY <1>2, <2>4, <2>6, Zenon DEF r
<1>8. CASE modbus' = Remove(modbus, {Key(c)})
  <2>1. DOMAIN modbus' \subseteq DOMAIN modbus
    BY <1>8, Zenon DEF Remove
  <2>2. \A k \in DOMAIN modbus' : modbus'[k] = modbus[k]
    BY <1>8, Zenon DEF Remove
  <2>3. IsFiniteSet(DOMAIN modbus')
    BY <1>4, <2>1, FS_Subset, Zenon
  <2> QED BY <1>2, <1>4, <1>5, <2>1, <2>2, <2>3, ZenonT(30) DEF r
<1>9. modbus' = modbus \/ modbus' = Pend(modbus, c) \/ modbus' = Remove(modbus, {Key(c)})
  BY <1>1, Zenon DEF AfterChunk
<1> QED BY <1>6, <1>7, <1>8, <1>9, Zenon

\* A stream whose batch is one of B.
StreamOf(B) ==
    [status : {"none", "open", "finished", "aborted"},
     pending : B, frames : Nat, emitted : Nat,
     last : Nat, latest : Time, no : 0 .. MaxStreams,
     base : Nat, first : Nat]

LEMMA StreamChanges ==
    ASSUME NEW A, NEW B, NEW s \in StreamOf(A), NEW p \in B, NEW n \in Nat
    PROVE  /\ [s EXCEPT !.status = "finished", !.pending = p, !.emitted = n]
                    \in StreamOf(B)
           /\ [s EXCEPT !.status = "aborted", !.pending = p] \in StreamOf(B)
           /\ \A m \in Nat, t \in Nat, l \in Time :
                [s EXCEPT !.pending = p, !.frames = m, !.emitted = n,
                          !.last = t, !.latest = l] \in StreamOf(B)
BY Zenon DEF StreamOf

\* TypeInv but for the numbers of events.
TypeRest ==
    /\ Timed(seen)
    /\ \A k \in DOMAIN modbus : modbus[k].no \in 1 .. Len(log) /\ modbus[k].ts \in Time
    /\ stream \in StreamOf(Seq(Number))
    /\ checkpoint \in [frames : Nat, emitted : Nat]
    /\ Len(log) <= MaxFrames /\ IsList(log)
    /\ IsFiniteSet(DOMAIN modbus)
    /\ stream.status # "open" => stream.pending = <<>>

LEMMA TypeStep ==
    ASSUME TypeInv, [Next]_vars
    PROVE  TypeInv'
<1>1. PICK events, out : Moves(events, out)
  BY NextMoves, Zenon
<1>2. /\ IsList(made') /\ Number \subseteq Number'
      /\ stream.pending \in Seq(Number')
      /\ stream'.pending \in Seq(Number') /\ delivered' \in Seq(Number')
      /\ dropped' \subseteq Number' /\ lost' \subseteq Number'
  BY <1>1, MovesTyped, Zenon
<1>3. MaxTime \in Nat /\ MaxStreams \in Nat /\ MaxFrames \in Nat /\ WallClock \subseteq Nat
  BY EngineAssumption, Zenon
<1>4. TypeRest
  BY Zenon DEF TypeInv, TypeOK, StreamOf, TypeRest, Timed
<1>5. Len(delivered) \in Nat /\ Len(log) \in Nat /\ Len(stream.pending) \in Nat
  <2>1. Len(log) \in Nat
    BY ListLen, Zenon DEF TypeInv
  <2> QED BY <2>1 DEF TypeInv, TypeOK
<1>6. SUFFICES TypeRest'
  BY <1>2, <1>6, Zenon DEF TypeInv, TypeOK, TypeRest, StreamOf, Timed
<1>7. stream \in StreamOf(Seq(Number)) /\ stream \in StreamOf(Seq(Number'))
  <2>1. stream \in StreamOf(Seq(Number))
    BY <1>4, Zenon DEF TypeRest
  <2> QED BY <1>2, <2>1, Zenon DEF StreamOf
<1> DEFINE B == Seq(Number')
<1>8. <<>> \in B
  OBVIOUS
<1> HIDE DEF B
<1>9. CASE \E now \in WallClock : Open(now)
  <2>1. PICK now \in WallClock : Open(now)
    BY <1>9, Zenon
  <2>2. /\ stream.latest \in Time /\ stream.no + 1 \in 0 .. MaxStreams
        /\ now \in Nat
    BY <2>1, <1>3, <1>7, SMTT(30) DEF Open, StreamOf
  <2>3. stream' \in StreamOf(B) /\ stream'.pending = <<>>
    BY <2>1, <2>2, <1>5, <1>8, Zenon DEF Open, StreamOf
  <2>4. TypeRest /\ UNCHANGED <<seen, modbus, checkpoint, log>>
    BY <1>4, <2>1, Zenon DEF Open
  <2> QED BY <2>3, <2>4, Zenon DEF TypeRest, Timed, B
<1>10. ASSUME NEW f \in Frame, NEW ts \in Time, Push(f, ts)
       PROVE  TypeRest'
  <2> DEFINE es == FrameEvents(f, ts, Len(log) + 1)
             o == Sift(seen, es, Len(made)).out
             q == stream.pending \o o
  <2>1. /\ \A i \in 1 .. Len(es) : es[i].ts \in Time
        /\ Timed(seen')
        /\ Moves(es, o)
    BY <1>10, PushMoves, Zenon
  <2>2. /\ stream.status = "open" /\ Len(log) < MaxFrames /\ UNCHANGED checkpoint
        /\ Keep(ts, es, q) \/ Send(ts, es, q) \/ Refuse(ts, es, q)
    BY <1>10, Zenon DEF Push, Ingest
  <2>3. IsList(es)
    BY <2>1, Zenon DEF Moves
  <2> HIDE DEF es, o
  <2>4. es = <<>> \/ es[1].ts \in Time
    BY <2>1, <2>3 DEF IsList
  <2>5. o \in Seq(Number')
    BY <2>1, MovesTyped, Zenon
  <2>6. q \in Seq(Number')
    BY <1>2, <2>5
  <2> HIDE DEF q
  <2>7. Len(q) \in Nat /\ q \in B
    BY <2>6 DEF B
  <2>8. ASSUME NEW x \in B, NEW n \in Nat
        PROVE  /\ Ingested(ts, es, x, n) \in StreamOf(B)
               /\ Ingested(ts, es, x, n).status = "open"
    <3> DEFINE last == IF es = <<>> THEN stream.last ELSE es[1].ts
               latest == IF ts > stream.latest THEN ts ELSE stream.latest
    <3>1. /\ stream.frames + 1 \in Nat /\ stream.emitted + n \in Nat
          /\ last \in Nat /\ latest \in Time
      <4>1. stream.frames \in Nat /\ stream.emitted \in Nat
            /\ stream.last \in Nat /\ stream.latest \in Time
        BY <1>7, Zenon DEF StreamOf
      <4>2. Time \subseteq Nat
        BY <1>3 DEF Time
      <4>3. stream.frames + 1 \in Nat /\ stream.emitted + n \in Nat
        BY <4>1
      <4>4. last \in Nat
        BY <2>4, <4>1, <4>2, Zenon
      <4>5. latest \in Time
        BY <4>1, Zenon
      <4> QED BY <4>3, <4>4, <4>5, Zenon
    <3> DEFINE m == stream.frames + 1
               e == stream.emitted + n
    <3>2. Ingested(ts, es, x, n) =
            [stream EXCEPT !.pending = x, !.frames = m, !.emitted = e,
                           !.last = last, !.latest = latest]
      BY Zenon DEF Ingested
    <3>3. Ingested(ts, es, x, n).status = stream.status
      BY <1>7, Zenon DEF Ingested, StreamOf
    <3>4. m \in Nat /\ e \in Nat /\ last \in Nat /\ latest \in Time
      BY <3>1, Zenon
    <3> HIDE DEF last, latest, m, e
    <3>5. [stream EXCEPT !.pending = x, !.frames = m, !.emitted = e,
                         !.last = last, !.latest = latest] \in StreamOf(B)
      BY <1>7, <3>4, StreamChanges, Zenon
    <3> QED BY <2>2, <3>2, <3>3, <3>5, Zenon
  <2>9. stream' \in StreamOf(B) /\ stream'.status = "open"
    <3>1. 0 \in Nat
      BY Zenon
    <3> QED BY <2>2, <2>7, <2>8, <1>8, <3>1, Zenon DEF Keep, Send, Refuse
  <2>10. Len(log') <= MaxFrames
    <3>1. Len(log') = Len(log) + 1
      BY <1>10, TableTyped, Zenon
    <3> QED BY <3>1, <2>2, <1>3, <1>5
  <2>11. checkpoint' \in [frames : Nat, emitted : Nat]
    BY <1>4, <2>2, Zenon DEF TypeRest
  <2>12. /\ IsList(log') /\ IsFiniteSet(DOMAIN modbus')
         /\ \A k \in DOMAIN modbus' :
                modbus'[k].no \in 1 .. Len(log') /\ modbus'[k].ts \in Time
    BY <1>10, TableTyped, Zenon
  <2> QED BY <2>1, <2>9, <2>10, <2>11, <2>12, Zenon DEF TypeRest, Timed, B
<1>11. ASSUME NEW keys \in Orders(Expired(modbus, stream.last)),
              Finish(keys) \/ FinishRefused(keys)
       PROVE  TypeRest'
  <2>1. Len(Drained(keys)) \in Nat
    <3>1. Moves(Partials(keys), Fresh(keys))
      BY <1>11, FinishMoves, Zenon
    <3>2. Fresh(keys) \in Seq(Number')
      BY <3>1, MovesTyped, Zenon
    <3>3. Drained(keys) = stream.pending \o Fresh(keys)
      BY Zenon DEF Drained, Fresh
    <3> QED BY <1>2, <3>2, <3>3
  <2>2. seen' = seen /\ log' = log /\ modbus' = Remove(modbus, Elements(keys))
    BY <1>11, Zenon DEF Finish, FinishRefused, Drain
  <2>3. /\ DOMAIN modbus' \subseteq DOMAIN modbus
        /\ \A k \in DOMAIN modbus' : modbus'[k] = modbus[k]
    BY <2>2, Zenon DEF Remove
  <2>4. IsFiniteSet(DOMAIN modbus')
    BY <2>3, FS_Subset, Zenon DEF TypeInv
  <2>5. stream.frames \in Nat /\ stream.emitted \in Nat
    BY <1>7, Zenon DEF StreamOf
  <2>6. stream' \in StreamOf(B)
    <3>1. \/ stream' = [stream EXCEPT !.status = "finished", !.pending = <<>>,
                                      !.emitted = stream.emitted + Len(Drained(keys))]
          \/ stream' = [stream EXCEPT !.status = "aborted", !.pending = <<>>]
      BY <1>11, Zenon DEF Finish, FinishRefused
    <3> DEFINE e == stream.emitted + Len(Drained(keys))
    <3>2. e \in Nat
      BY <2>1, <2>5
    <3> HIDE DEF e
    <3>3. [stream EXCEPT !.status = "finished", !.pending = <<>>, !.emitted = e]
            \in StreamOf(B)
      BY <1>7, <1>8, <3>2, StreamChanges, Zenon
    <3>4. [stream EXCEPT !.status = "aborted", !.pending = <<>>] \in StreamOf(B)
      BY <1>7, <1>8, <3>2, StreamChanges, Zenon
    <3> QED BY <3>1, <3>3, <3>4, Zenon DEF e
  <2>7. stream'.pending = <<>>
    BY <1>7, <1>11, Zenon DEF Finish, FinishRefused, StreamOf
  <2>8. checkpoint' \in [frames : Nat, emitted : Nat]
    <3>1. CASE Finish(keys)
      <4>1. Total(stream.emitted + Len(Drained(keys)), Len(Drained(keys))) \in Nat
        BY <2>1, <2>5 DEF Total
      <4> QED BY <2>5, <3>1, <4>1, Zenon DEF Finish
    <3>2. CASE FinishRefused(keys)
      BY <1>4, <3>2, Zenon DEF FinishRefused, TypeRest
    <3> QED BY <1>11, <3>1, <3>2, Zenon
  <2>9. Timed(seen') /\ Len(log') <= MaxFrames /\ IsList(log')
    BY <1>4, <2>2, Zenon DEF TypeRest
  <2>10. \A k \in DOMAIN modbus' :
            modbus'[k].no \in 1 .. Len(log') /\ modbus'[k].ts \in Time
    BY <1>4, <2>2, <2>3, Zenon DEF TypeRest
  <2> QED BY <2>4, <2>6, <2>7, <2>8, <2>9, <2>10, ZenonT(30) DEF TypeRest, Timed, B
<1>12. CASE Abandon
  <2>1. stream' \in StreamOf(B)
    <3>1. 0 \in Nat
      BY Zenon
    <3> QED BY <1>7, <1>8, <1>12, <3>1, StreamChanges, Zenon DEF Abandon
  <2>2. stream'.pending = <<>>
    BY <1>7, <1>12, Zenon DEF Abandon, StreamOf
  <2>3. TypeRest /\ UNCHANGED <<seen, modbus, checkpoint, log>>
    BY <1>4, <1>12, Zenon DEF Abandon
  <2> QED BY <2>1, <2>2, <2>3, Zenon DEF TypeRest, Timed, B
<1>13. CASE UNCHANGED vars
  BY <1>4, <1>13, Zenon DEF vars, TypeRest, Timed, Number
<1> QED BY <1>9, <1>10, <1>11, <1>12, <1>13, Zenon DEF Next

\* Events, tables and counters keep their types, for every number of frames
\* and streams, every batch size and every sink: the numbers waiting,
\* delivered, dropped or lost are those of events that were made.
THEOREM TypeCorrect == Spec => []TypeOK
<1>1. Init => TypeInv
  BY InitType, Zenon
<1>2. TypeInv /\ [Next]_vars => TypeInv'
  BY TypeStep, Zenon
<1>3. TypeInv => TypeOK
  BY Zenon DEF TypeInv
<1> QED BY <1>1, <1>2, <1>3, PTL, SMTT(30) DEF Spec

-----------------------------------------------------------------------------
(* The way of the events to the sink.                                      *)

LEMMA AccountedStep ==
    ASSUME TypeInv, Accounted, [Next]_vars
    PROVE  Accounted'
<1>1. PICK events, out : Moves(events, out)
  BY NextMoves, Zenon
<1> DEFINE n == Len(made)
           m == Len(events)
           N == n + 1 .. n + m
           O == Elements(out)
           P == Elements(stream.pending)
           D == Elements(delivered)
<1>2. /\ n \in Nat /\ m \in Nat /\ Len(made') = n + m
      /\ stream.pending \in Seq(Number') /\ out \in Seq(Number')
      /\ delivered \in Seq(Number')
  BY <1>1, MovesTyped, Zenon
<1>3. Number' = Number \cup N /\ Number \cap N = {}
  <2>1. Number = 1 .. n /\ Number' = 1 .. n + m
    BY <1>2, Zenon DEF Number
  <2> HIDE DEF n, m
  <2> QED BY <1>2, <2>1
<1>4. O \subseteq N
  BY <1>1, Zenon DEF Moves, Ordered, Elements
<1>5. P \subseteq Number /\ D \subseteq Number
      /\ dropped \subseteq Number /\ lost \subseteq Number
  BY SMTT(30) DEF TypeInv, TypeOK, Elements
<1> DEFINE q == stream.pending \o out
<1>6. Elements(q) = P \cup O /\ q \in Seq(Number')
  <2>1. q \in Seq(Number')
    BY <1>2
  <2> QED BY <1>2, <2>1, ElementsConcat
<1>7. Elements(delivered \o q) = D \cup (P \cup O)
  <2> HIDE DEF q
  <2>1. Elements(delivered \o q) = D \cup Elements(q)
    BY <1>2, <1>6, ElementsConcat
  <2> QED BY <2>1, <1>6, Zenon
<1>8. Elements(<<>>) = {}
  BY DEF Elements
<1>9. /\ dropped' = dropped \cup (N \ O)
      /\ \/ stream'.pending = q /\ delivered' = delivered /\ lost' = lost
         \/ stream'.pending = <<>> /\ delivered' = delivered \o q /\ lost' = lost
         \/ stream'.pending = <<>> /\ delivered' = delivered /\ lost' = lost \cup Elements(q)
  BY <1>1, Zenon DEF Moves
<1> DEFINE P2 == Elements(stream'.pending)
           D2 == Elements(delivered')
<1>10. \/ P2 = P \cup O /\ D2 = D /\ lost' = lost
       \/ P2 = {} /\ D2 = D \cup (P \cup O) /\ lost' = lost
       \/ P2 = {} /\ D2 = D /\ lost' = lost \cup (P \cup O)
  <2> HIDE DEF q, P, D, O
  <2> QED BY <1>6, <1>7, <1>8, <1>9, Zenon DEF D
<1>11. /\ Number = dropped \cup P \cup D \cup lost
       /\ dropped \cap (P \cup D \cup lost) = {}
  BY Zenon DEF Accounted
<1> HIDE DEF N, O, P, D, P2, D2
<1>12. /\ Number' = dropped' \cup P2 \cup D2 \cup lost'
       /\ dropped' \cap (P2 \cup D2 \cup lost') = {}
  <2>1. dropped' = dropped \cup (N \ O)
    BY <1>9, Zenon
  <2> QED BY <1>3, <1>4, <1>5, <1>10, <1>11, <2>1, Zenon
<1> QED BY <1>12, Zenon DEF Accounted, P2, D2

\* No event vanishes without a trace: whatever the capture, the batch size
\* and the sink, each event that was made was dropped as a duplicate, or is
\* waiting, delivered, or lost with its batch, and no duplicate goes out.
THEOREM AllAccounted == Spec => []Accounted
<1>1. Init => TypeInv /\ Accounted
  BY InitType DEF Init, Accounted, Number, Elements, NoStream
<1>2. TypeInv /\ Accounted /\ [Next]_vars => (TypeInv /\ Accounted)'
  BY TypeStep, AccountedStep, Zenon
<1> QED BY <1>1, <1>2, PTL, SMTT(30) DEF Spec

\* New numbers continue a sequence of old ones.
LEMMA ContinuesConcat ==
    ASSUME NEW s \in Seq(Nat), NEW events, NEW out,
           Len(made) \in Nat, Len(events) \in Nat, Len(made') = Len(made) + Len(events),
           Ordered(out, Len(made) + 1, Len(made) + Len(events))
    PROVE  Conduit!Continues(s \o out, s)
<1>0. s \o out \in Seq(Nat)
  BY DEF Ordered
<1>1. IsList(s) /\ IsList(out)
  BY SeqIsList, Zenon DEF Ordered
<1>2. /\ Len(s \o out) = Len(s) + Len(out)
      /\ \A i \in 1 .. Len(s) : (s \o out)[i] = s[i]
      /\ \A i \in 1 .. Len(s \o out) :
            IF i <= Len(s) THEN (s \o out)[i] = s[i]
            ELSE i - Len(s) \in 1 .. Len(out) /\ (s \o out)[i] = out[i - Len(s)]
  BY <1>1, ListConcat
<1>3. Len(s) \in Nat /\ Len(out) \in Nat
  BY <1>1, ListLen, Zenon
<1> DEFINE l == s \o out
<1> HIDE DEF l
<1>4. ASSUME NEW i \in Len(s) + 1 .. Len(l)
      PROVE  i - Len(s) \in 1 .. Len(out) /\ l[i] = out[i - Len(s)]
  <2>1. i \in 1 .. Len(l) /\ ~(i <= Len(s))
    BY <1>2, <1>3, SMTT(30) DEF l
  <2> QED BY <1>2, <2>1, Zenon DEF l
<1>5. \A i \in Len(s) + 1 .. Len(l) : l[i] \in Len(made) + 1 .. Len(made')
  BY <1>4, Zenon DEF Ordered
<1>6. \A i, j \in Len(s) + 1 .. Len(l) : i < j => l[i] < l[j]
  <2> TAKE i, j \in Len(s) + 1 .. Len(l)
  <2> HAVE i < j
  <2>1. i - Len(s) < j - Len(s)
    BY <1>3
  <2> QED BY <1>4, <2>1, Zenon DEF Ordered
<1>7. Len(l) >= Len(s) /\ \A i \in 1 .. Len(s) : l[i] = s[i]
  BY <1>2, <1>3 DEF l
<1>8. Conduit!Continues(l, s)
  BY <1>0, <1>5, <1>6, <1>7, Zenon DEF Conduit!Continues, l
<1> QED BY <1>8, Zenon DEF l

LEMMA DeliversStep ==
    ASSUME TypeInv, [Next]_vars
    PROVE  Conduit!Next
<1>1. PICK events, out : Moves(events, out)
  BY NextMoves, Zenon
<1>2. /\ Len(made) \in Nat /\ Len(events) \in Nat /\ Len(made') = Len(made) + Len(events)
      /\ stream.pending \in Seq(Number') /\ out \in Seq(Number')
      /\ delivered \in Seq(Number')
  BY <1>1, MovesTyped, Zenon
<1>3. Ordered(out, Len(made) + 1, Len(made) + Len(events))
  BY <1>1, Zenon DEF Moves
<1> DEFINE q == stream.pending \o out
<1>4. Len(made') \in Nat /\ Len(made') >= Len(made)
  BY <1>2
<1>8. stream.pending \in Seq(Nat) /\ delivered \in Seq(Nat)
  <2>1. Number' \subseteq Nat
    BY DEF Number
  <2> QED BY <1>2, <2>1, SeqWiden, Zenon
<1>5. CASE stream'.pending = q /\ delivered' = delivered /\ lost' = lost
  <2>1. Conduit!Continues(q, stream.pending)
    BY <1>2, <1>3, <1>8, ContinuesConcat, Zenon
  <2> HIDE DEF q
  <2>2. Conduit!Keep
    BY <1>5, <2>1, Zenon DEF Conduit!Keep, Conduit!Continues
  <2> QED BY <1>4, <2>2, Zenon DEF Conduit!Next
<1>6. CASE stream'.pending = <<>> /\ delivered' = delivered \o q /\ lost' = lost
  <2>1. delivered \o q = (delivered \o stream.pending) \o out
    <3>1. ASSUME NEW S, NEW s \in Seq(S), NEW t \in Seq(S), NEW u \in Seq(S)
          PROVE  s \o (t \o u) = (s \o t) \o u
      BY ConcatAssociative, SMTT(30)
    <3>2. PICK p : p = stream.pending
      BY Zenon
    <3>3. delivered \in Seq(Number') /\ p \in Seq(Number') /\ out \in Seq(Number')
      BY <1>2, <3>2, Zenon
    <3>4. delivered \o (p \o out) = (delivered \o p) \o out
      BY <3>1, <3>3
    <3> QED BY <3>2, <3>4, Zenon
  <2>2. delivered \o stream.pending \in Seq(Nat)
    BY <1>8
  <2>3. Conduit!Continues((delivered \o stream.pending) \o out, delivered \o stream.pending)
    <3> DEFINE s == delivered \o stream.pending
    <3> HIDE DEF s
    <3>1. Conduit!Continues(s \o out, s)
      BY <1>2, <1>3, <2>2, ContinuesConcat, Zenon DEF s
    <3> QED BY <3>1, Zenon DEF s
  <2>4. Conduit!HandOver
    BY <1>6, <2>1, <2>3, Zenon DEF Conduit!HandOver, Conduit!Continues
  <2> QED BY <1>4, <2>4, Zenon DEF Conduit!Next
<1>7. CASE /\ stream'.pending = <<>> /\ delivered' = delivered
           /\ lost' = lost \cup Elements(q)
  <2>1. Elements(q) = Elements(stream.pending) \cup Elements(out)
    BY <1>2, ElementsConcat
  <2>2. Elements(out) \subseteq Len(made) + 1 .. Len(made')
    BY <1>2, <1>3, Zenon DEF Ordered, Elements
  <2>3. \A s : Conduit!Elements(s) = Elements(s)
    BY Zenon DEF Conduit!Elements, Elements
  <2> HIDE DEF q
  <2>4. Conduit!Lose
    BY <1>7, <2>1, <2>2, <2>3, Zenon DEF Conduit!Lose
  <2> QED BY <1>4, <2>4, Zenon DEF Conduit!Next
<1> QED BY <1>1, <1>5, <1>6, <1>7, Zenon DEF Moves

\* The engine implements Delivery: ingest_frame and finalize_stream only ever
\* append to the batch in the order in which the events are made, and the
\* batch goes out, or is lost, as a whole.
THEOREM EngineDelivers == Spec => Delivers
<1>1. Init => TypeInv /\ Conduit!Init
  BY InitType DEF Init, Conduit!Init, NoStream
<1>2. TypeInv /\ [Next]_vars => TypeInv'
  BY TypeStep, Zenon
<1>3. TypeInv /\ [Next]_vars => [Conduit!Next]_Conduit!vars
  BY DeliversStep, Zenon
<1> QED BY <1>1, <1>2, <1>3, PTL, SMTT(30) DEF Spec, Delivers, Conduit!Spec

-----------------------------------------------------------------------------
(* What the sink gets.                                                     *)

\* What the sink has and the batch after it are one increasing sequence of
\* numbers of events that were made, and none of them is lost.
Lined == InLine(Len(made), delivered, stream.pending, lost)

LEMMA LinedStep ==
    ASSUME Lined, [Conduit!Next]_Conduit!vars
    PROVE  Lined'
<1> DEFINE p == stream.pending
<1>1. CASE UNCHANGED Conduit!vars
  BY <1>1, Zenon DEF Conduit!vars, Lined
<1>2. CASE Conduit!Next
  <2>1. Len(made)' \in Nat /\ Len(made)' >= Len(made)
    BY <1>2, Zenon DEF Conduit!Next
  <2>2. \/ Continued(p', p, Len(made), Len(made)') /\ delivered' = delivered /\ lost' = lost
        \/ /\ Continued(delivered', delivered \o p, Len(made), Len(made)')
           /\ p' = <<>> /\ lost' = lost
        \/ /\ lost' \subseteq lost \cup Members(p) \cup (Len(made) + 1 .. Len(made)')
           /\ p' = <<>> /\ delivered' = delivered
    BY <1>2, ZenonT(30) DEF Conduit!Next, Conduit!Keep, Conduit!HandOver, Conduit!Lose,
                Conduit!Continues, Conduit!Elements, Continued, Members
  <2> QED BY <2>1, <2>2, InLineStep, Zenon DEF Lined
<1> QED BY <1>1, <1>2, Zenon

\* As the engine implements Delivery, the sink gets the events in the order in
\* which they were made, none twice, and none that was lost with an earlier batch.
THEOREM SinkInOrder == Spec => [](Conduit!InOrder /\ Conduit!Apart)
<1>1. Conduit!Init => Lined
  BY DEF Conduit!Init, Lined, InLine, Rising
<1>2. Lined /\ [Conduit!Next]_Conduit!vars => Lined'
  BY LinedStep, Zenon
<1>3. Lined => Conduit!InOrder /\ Conduit!Apart
  <2>1. \A s : Conduit!Elements(s) = Members(s)
    BY Zenon DEF Conduit!Elements, Members
  <2>2. \A s : Rising(s) => Conduit!Increasing(s)
    BY Zenon DEF Conduit!Increasing, Rising
  <2> QED BY <2>1, <2>2, InLineApart, Zenon DEF Lined, Conduit!InOrder, Conduit!Apart
<1> QED BY <1>1, <1>2, <1>3, EngineDelivers, PTL DEF Delivers, Conduit!Spec

-----------------------------------------------------------------------------
(* The counters of a stream.                                               *)

\* The counters of a stream count what happened since it was opened.
Counted ==
    stream.status \in {"open", "finished"} =>
        /\ stream.emitted = Len(delivered) - stream.base
        /\ stream.frames = Len(log) - stream.first

Tally == Counted /\ CheckpointExact /\ BackPressure

\* What a frame does to the counters.
LEMMA PushCounts ==
    ASSUME TypeInv, NEW f \in Frame, NEW ts \in Time, Push(f, ts)
    PROVE  /\ stream.status = "open" /\ stream'.status = "open"
           /\ stream'.base = stream.base /\ stream'.first = stream.first
           /\ stream'.frames = stream.frames + 1
           /\ stream'.emitted - stream.emitted = Len(delivered') - Len(delivered)
           /\ Len(stream'.pending) < BatchSize
<1> DEFINE es == FrameEvents(f, ts, Len(log) + 1)
           o == Sift(seen, es, Len(made)).out
           q == stream.pending \o o
<1>1. Moves(es, o)
  BY PushMoves, Zenon
<1>2. /\ stream.status = "open"
      /\ Keep(ts, es, q) \/ Send(ts, es, q) \/ Refuse(ts, es, q)
  BY Zenon DEF Push, Ingest
<1>3. /\ stream.pending \in Seq(Number') /\ o \in Seq(Number')
      /\ delivered \in Seq(Number')
  BY <1>1, MovesTyped, Zenon
<1> HIDE DEF es, o
<1>4. q \in Seq(Number')
  BY <1>3
<1> HIDE DEF q
<1>5. /\ Len(q) \in Nat /\ Len(delivered) \in Nat
      /\ Len(delivered \o q) = Len(delivered) + Len(q)
  BY <1>3, <1>4
<1>6. stream \in StreamOf(Seq(Number)) /\ stream.emitted \in Nat /\ BatchSize \in Nat \ {0}
  BY EngineAssumption, Zenon DEF TypeInv, TypeOK, StreamOf
<1>7. ASSUME NEW x, NEW n
      PROVE  LET s == Ingested(ts, es, x, n) IN
             /\ s.status = "open"
             /\ s.base = stream.base /\ s.first = stream.first
             /\ s.frames = stream.frames + 1 /\ s.emitted = stream.emitted + n
             /\ s.pending = x
  BY <1>2, <1>6, Zenon DEF Ingested, StreamOf
<1>8. CASE Keep(ts, es, q)
  <2>1. /\ stream' = Ingested(ts, es, q, 0) /\ delivered' = delivered
        /\ ~(Len(q) >= BatchSize)
    BY <1>8, Zenon DEF Keep, Full
  <2>2. Len(q) < BatchSize /\ (stream.emitted + 0) - stream.emitted = 0
        /\ Len(delivered) - Len(delivered) = 0
    BY <1>5, <1>6, <2>1
  <2>3. /\ stream'.status = "open"
        /\ stream'.base = stream.base /\ stream'.first = stream.first
        /\ stream'.frames = stream.frames + 1 /\ stream'.emitted = stream.emitted + 0
        /\ stream'.pending = q
    BY <1>7, <2>1
  <2> QED BY <1>2, <2>1, <2>2, <2>3, Zenon
<1>9. CASE Send(ts, es, q)
  <2>1. /\ stream' = Ingested(ts, es, <<>>, Len(q))
        /\ delivered' = delivered \o q
    BY <1>9, Zenon DEF Send
  <2>2. /\ Len(<<>>) < BatchSize
        /\ (stream.emitted + Len(q)) - stream.emitted = Len(delivered \o q) - Len(delivered)
    BY <1>5, <1>6
  <2> QED BY <1>2, <1>7, <2>1, <2>2
<1>10. CASE Refuse(ts, es, q)
  <2>1. /\ stream' = Ingested(ts, es, <<>>, 0)
        /\ delivered' = delivered
    BY <1>10, Zenon DEF Refuse
  <2>2. /\ Len(<<>>) < BatchSize
        /\ (stream.emitted + 0) - stream.emitted = Len(delivered) - Len(delivered)
    BY <1>5, <1>6
  <2> QED BY <1>2, <1>7, <2>1, <2>2
<1> QED BY <1>2, <1>8, <1>9, <1>10, Zenon

LEMMA TallyStep ==
    ASSUME TypeInv, Tally, [Next]_vars
    PROVE  Tally'
<1>1. /\ stream \in StreamOf(Seq(Number))
      /\ BatchSize \in Nat \ {0}
      /\ Len(delivered) \in Nat /\ Len(<<>>) = 0
  <2>1. stream \in StreamOf(Seq(Number)) /\ delivered \in Seq(Number)
    BY Zenon DEF TypeInv, TypeOK, StreamOf
  <2>2. BatchSize \in Nat \ {0}
    BY EngineAssumption, Zenon
  <2> QED BY <2>1, <2>2
<1>2. Len(log) \in Nat
  BY ListLen, Zenon DEF TypeInv
<1>3. /\ stream.frames \in Nat /\ stream.emitted \in Nat /\ stream.last \in Nat
      /\ stream.base \in Nat /\ stream.first \in Nat
  BY <1>1, Zenon DEF StreamOf
<1>4. ASSUME NEW now \in WallClock, Open(now)
      PROVE  Tally'
  BY <1>1, <1>2, <1>4
  DEF Open, Tally, Counted, CheckpointExact, BackPressure
<1>5. ASSUME NEW f \in Frame, NEW ts \in Time, Push(f, ts)
      PROVE  Tally'
  <2>1. /\ stream.status = "open" /\ stream'.status = "open"
        /\ stream'.base = stream.base /\ stream'.first = stream.first
        /\ stream'.frames = stream.frames + 1
        /\ stream'.emitted - stream.emitted = Len(delivered') - Len(delivered)
        /\ Len(stream'.pending) < BatchSize
    BY <1>5, PushCounts, Zenon
  <2>2. Len(log') = Len(log) + 1
    BY <1>5, TableTyped, Zenon
  <2>3. stream'.emitted \in Nat /\ Len(delivered') \in Nat
    <3>1. TypeInv'
      BY TypeStep, Zenon
    <3>2. stream' \in StreamOf(Seq(Number')) /\ delivered' \in Seq(Number')
      BY <3>1, Zenon DEF TypeInv, TypeOK, StreamOf
    <3> QED BY <3>2 DEF StreamOf
  <2>4. Counted'
    <3>1. stream.emitted = Len(delivered) - stream.base
          /\ stream.frames = Len(log) - stream.first
      BY <2>1, Zenon DEF Tally, Counted
    <3>2. stream'.frames = Len(log') - stream'.first
      BY <1>2, <1>3, <2>1, <2>2, <3>1, SMTT(30)
    <3>3. ASSUME NEW a \in Nat, NEW b \in Nat, NEW c \in Nat, NEW d \in Nat, NEW e \in Nat,
                 a = b - e, c - a = d - b
          PROVE  c = d - e
      BY <3>3, SMTT(30)
    <3>4. stream'.emitted = Len(delivered') - stream'.base
      BY <1>1, <1>3, <2>1, <2>3, <3>1, <3>3, SMTT(30)
    <3> QED BY <3>2, <3>4, Zenon DEF Counted
  <2> QED BY <2>1, <2>4, Zenon DEF Tally, CheckpointExact, BackPressure
<1>6. ASSUME NEW keys \in Orders(Expired(modbus, stream.last)),
             Finish(keys)
      PROVE  Tally'
  <2> DEFINE q == Drained(keys)
             e == stream.emitted + Len(q)
  <2>1. Len(q) \in Nat /\ Len(delivered \o q) = Len(delivered) + Len(q)
    <3>1. Moves(Partials(keys), Fresh(keys))
      BY <1>6, FinishMoves, Zenon
    <3>2. /\ stream.pending \in Seq(Number') /\ Fresh(keys) \in Seq(Number')
          /\ delivered \in Seq(Number')
      BY <3>1, MovesTyped, Zenon
    <3>3. q = stream.pending \o Fresh(keys)
      BY Zenon DEF Drained, Fresh
    <3>4. q \in Seq(Number')
      BY <3>2, <3>3
    <3> HIDE DEF q
    <3> QED BY <3>2, <3>4
  <2>2. /\ stream.status = "open"
        /\ delivered' = delivered \o q /\ log' = log
        /\ stream' = [stream EXCEPT !.status = "finished", !.pending = <<>>, !.emitted = e]
        /\ checkpoint' = [frames |-> stream.frames, emitted |-> Total(e, Len(q))]
        /\ modbus' = Remove(modbus, Elements(keys))
    BY <1>6, Zenon DEF Finish, Drain
  <2> HIDE DEF q
  <2>3. /\ stream'.status = "finished" /\ stream'.pending = <<>> /\ stream'.emitted = e
        /\ stream'.base = stream.base /\ stream'.first = stream.first
        /\ stream'.frames = stream.frames /\ stream'.last = stream.last
    BY <1>1, <2>2, Zenon DEF StreamOf
  <2>4. stream.emitted = Len(delivered) - stream.base
        /\ stream.frames = Len(log) - stream.first
    BY <2>2, Zenon DEF Tally, Counted
  <2>5. e = Len(delivered') - stream.base
    BY <1>1, <1>3, <2>1, <2>2, <2>4, SMTT(30)
  <2>6. Total(e, Len(q)) = e
    BY <1>3, <2>1, SMTT(30) DEF Total
  <2>7. Counted' /\ CheckpointExact'
    BY <2>2, <2>3, <2>4, <2>5, <2>6, ZenonT(30) DEF Counted, CheckpointExact
  <2>8. BackPressure'
    BY <1>1, <2>3 DEF BackPressure
  <2> QED BY <2>7, <2>8, Zenon DEF Tally
<1>7. ASSUME stream'.status = "aborted", stream'.pending = <<>>
      PROVE  Tally'
  BY <1>1, <1>7 DEF Tally, Counted, CheckpointExact, BackPressure
<1>8. ASSUME NEW keys, FinishRefused(keys)
      PROVE  Tally'
  BY <1>1, <1>7, <1>8, Zenon DEF FinishRefused, StreamOf
<1>9. CASE Abandon
  BY <1>1, <1>7, <1>9, Zenon DEF Abandon, StreamOf
<1>10. CASE UNCHANGED vars
  BY <1>10, Zenon DEF vars, Tally, Counted, CheckpointExact, BackPressure
<1> QED BY <1>4, <1>5, <1>6, <1>8, <1>9, <1>10, Zenon DEF Next

LEMMA TallyInvariant == Spec => [](TypeInv /\ Tally)
<1>1. Init => TypeInv /\ Tally
  <2>1. Init => Tally
    BY EngineAssumption
    DEF Init, NoStream, Tally, Counted, CheckpointExact, BackPressure
  <2> QED BY <2>1, InitType, Zenon
<1>2. TypeInv /\ Tally /\ [Next]_vars => (TypeInv /\ Tally)'
  BY TypeStep, TallyStep, Zenon
<1> QED BY <1>1, <1>2, PTL, SMTT(30) DEF Spec

\* The checkpoint that finalize_stream returns is exact, for every batch size
\* and every pattern of refused batches: the frames of the stream and the
\* events of it that the sink accepted.
THEOREM CheckpointsExact == Spec => []CheckpointExact
<1>1. TypeInv /\ Tally => CheckpointExact
  BY Zenon DEF Tally
<1> QED BY <1>1, TallyInvariant, PTL, SMTT(30)

\* Between two calls fewer events wait than make a batch: what an engine
\* holds for its sink is bounded whatever the capture and the sink.
THEOREM BackPressureHolds == Spec => []BackPressure
<1>1. TypeInv /\ Tally => BackPressure
  BY Zenon DEF Tally
<1> QED BY <1>1, TallyInvariant, PTL

=============================================================================
