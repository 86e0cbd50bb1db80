---------------------------- MODULE LoopsProofs -----------------------------
(***************************************************************************)
(* Proofs about Loops, for all payloads, offsets and capture files: the    *)
(* loops stay inside their input.                                          *)
(***************************************************************************)
EXTENDS Loops, Lists

(***************************************************************************)
(* The state of a loop over bytes, and what the pieces of a turn leave.    *)
(***************************************************************************)
IsState(s) ==
    s \in [at : Nat, hops : Nat, jumped : BOOLEAN, end : Nat, out : {s.out}, need : Nat,
           status : {"reading", "done", "failed"}]

\* No read beyond the payload so far.
Inside(d, s) == IsState(s) /\ s.need <= Len(d)

\* The value of a byte.
Octet == 0..255

LEMMA MemberOf ==
    ASSUME NEW S, NEW d \in Seq(S), NEW i \in 1..Len(d)
    PROVE  d[i] \in S
OBVIOUS

\* What is read of a payload is a byte.
LEMMA ByteType ==
    ASSUME NEW d \in Seq(Octet), NEW i \in Nat
    PROVE  Byte(d, i) \in 0..255 /\ Byte(d, i) \in Nat
<1>1. CASE i < Len(d)
  <2>1. i + 1 \in 1..Len(d)
    BY <1>1
  <2>2. d[i + 1] \in Octet
    BY <2>1, MemberOf, Zenon
  <2>3. Byte(d, i) = d[i + 1]
    BY <1>1, Zenon DEF Byte
  <2>4. \A x \in Octet : x \in 0..255 /\ x \in Nat
    BY DEF Octet
  <2> QED BY <2>2, <2>3, <2>4, Zenon
<1>2. CASE ~(i < Len(d))
  <2>1. Byte(d, i) = 0
    BY <1>2, Zenon DEF Byte
  <2> QED BY <2>1
<1> QED BY <1>1, <1>2, Zenon

\* The cursor and the length of the payload are numbers.
LEMMA CursorType ==
    ASSUME NEW d \in Seq(Octet), NEW s, Inside(d, s)
    PROVE  s.at \in Nat /\ s.hops \in Nat /\ s.end \in Nat /\ Len(d) \in Nat /\ s.jumped \in BOOLEAN
BY DEF Inside, IsState

\* Done and Failed change the condition only.
LEMMA EndInside ==
    ASSUME NEW d, NEW s, Inside(d, s)
    PROVE  /\ Inside(d, Done(s)) /\ Inside(d, Failed(s))
           /\ Done(s).status = "done" /\ Failed(s).status = "failed"
           /\ Done(s).at = s.at /\ Done(s).hops = s.hops /\ Done(s).jumped = s.jumped /\ Done(s).end = s.end
           /\ Failed(s).at = s.at /\ Failed(s).hops = s.hops /\ Failed(s).jumped = s.jumped /\ Failed(s).end = s.end
BY Zenon DEF Inside, IsState, Done, Failed

\* A read that ends inside the payload changes "need" only.
LEMMA ReadInside ==
    ASSUME NEW d \in Seq(Octet), NEW s, Inside(d, s), NEW n \in Nat, n <= Len(d)
    PROVE  /\ Inside(d, Reads(s, n))
           /\ Reads(s, n).at = s.at /\ Reads(s, n).hops = s.hops /\ Reads(s, n).jumped = s.jumped
           /\ Reads(s, n).end = s.end /\ Reads(s, n).status = s.status /\ Reads(s, n).out = s.out
BY Zenon DEF Inside, IsState, Reads

\* Neither the cursor nor what was read has to do with "need".
LEMMA MoveInside ==
    ASSUME NEW d, NEW s, Inside(d, s), NEW at \in Nat, NEW out
    PROVE  /\ Inside(d, [s EXCEPT !.at = at])
           /\ Inside(d, [s EXCEPT !.out = out])
           /\ Inside(d, [s EXCEPT !.at = at, !.out = out])
BY Zenon DEF Inside, IsState

LEMMA TurnInside ==
    ASSUME NEW d, NEW s, Inside(d, s), NEW at \in Nat, NEW hops \in Nat, NEW end \in Nat, NEW out
    PROVE  /\ Inside(d, [s EXCEPT !.at = at, !.hops = hops, !.out = out])
           /\ Inside(d, [s EXCEPT !.at = at, !.jumped = TRUE, !.end = end, !.hops = hops])
<1> DEFINE a == [s EXCEPT !.at = at]
           b == [a EXCEPT !.hops = hops]
           c == [a EXCEPT !.jumped = TRUE]
           e == [c EXCEPT !.end = end]
<1>1. Inside(d, a)
  BY MoveInside, Zenon
<1> HIDE DEF a
<1>2. Inside(d, b)
  BY <1>1, Zenon DEF Inside, IsState
<1>3. Inside(d, c)
  BY <1>1, Zenon DEF Inside, IsState
<1> HIDE DEF b, c
<1>4. Inside(d, [b EXCEPT !.out = out])
  BY <1>2, MoveInside, Zenon
<1>5. Inside(d, e)
  BY <1>3, ZenonT(30) DEF Inside, IsState
<1> HIDE DEF e
<1>6. Inside(d, [e EXCEPT !.hops = hops])
  BY <1>5, Zenon DEF Inside, IsState
<1> QED BY <1>4, <1>6, Zenon DEF a, b, c, e

(***************************************************************************)
(* The loops over lists.                                                   *)
(***************************************************************************)
LEMMA TxtInside ==
    ASSUME NEW d \in Seq(Octet), NEW s, Inside(d, s)
    PROVE  Inside(d, TxtEntry(d, s))
<1> DEFINE next == s.at + 1 + Byte(d, s.at)
<1>0. s.at \in Nat /\ Len(d) \in Nat
  BY CursorType, Zenon
<1>1. s.at \in Nat /\ Len(d) \in Nat /\ next \in Nat
  <2>1. Byte(d, s.at) \in Nat
    BY <1>0, ByteType, ZenonT(30)
  <2> QED BY <1>0, <2>1
<1>2. CASE s.at >= Len(d)
  BY <1>2, EndInside, Zenon DEF TxtEntry
<1>3. CASE ~(s.at >= Len(d)) /\ next > Len(d)
  <2>1. s.at + 1 \in Nat /\ s.at + 1 <= Len(d)
    BY <1>1, <1>3
  <2> QED BY <1>3, <2>1, EndInside, ReadInside, Zenon DEF TxtEntry
<1>4. CASE ~(s.at >= Len(d)) /\ ~(next > Len(d))
  <2>1. next <= Len(d)
    BY <1>1, <1>4
  <2>2. Inside(d, Reads(s, next))
    BY <1>1, <2>1, ReadInside, Zenon
  <2> QED BY <1>1, <1>4, <2>2, MoveInside, Zenon DEF TxtEntry
<1> QED BY <1>2, <1>3, <1>4, Zenon

LEMMA AvInside ==
    ASSUME NEW d \in Seq(Octet), NEW s, Inside(d, s)
    PROVE  Inside(d, AvPair(d, s))
<1> DEFINE next == s.at + 4 + Byte(d, s.at + 2) + 256 * Byte(d, s.at + 3)
           id == Byte(d, s.at) + 256 * Byte(d, s.at + 1)
<1>1. s.at \in Nat /\ s.at + 2 \in Nat /\ s.at + 3 \in Nat
  BY CursorType
<1>2. Byte(d, s.at + 2) \in Nat /\ Byte(d, s.at + 3) \in Nat
  BY <1>1, ByteType, Zenon
<1>3. next \in Nat
  BY <1>1, <1>2, SMTT(30)
<1>4. CASE s.at + 4 > Len(d) \/ id = 0 \/ next > Len(d)
  BY <1>4, EndInside, Zenon DEF AvPair
<1>5. CASE ~(s.at + 4 > Len(d) \/ id = 0 \/ next > Len(d))
  <2>1. \A o : Inside(d, [s EXCEPT !.at = next, !.out = o])
    <3> HIDE DEF next
    <3> QED BY <1>3, MoveInside, Zenon
  <2> QED BY <1>5, <2>1, Zenon DEF AvPair
<1> QED BY <1>4, <1>5, Zenon

LEMMA CotpInside ==
    ASSUME NEW d \in Seq(Octet), NEW s, Inside(d, s)
    PROVE  Inside(d, CotpParameter(d, s))
<1> DEFINE next == s.at + 2 + Byte(d, s.at + 1)
<1>1. s.at \in Nat /\ s.at + 1 \in Nat /\ s.at + 2 \in Nat /\ Len(d) \in Nat
  BY CursorType
<1>2. Byte(d, s.at + 1) \in Nat
  BY <1>1, ByteType, Zenon
<1>3. next \in Nat
  BY <1>1, <1>2
<1>4. CASE s.at + 1 >= Len(d)
  BY <1>4, EndInside, Zenon DEF CotpParameter
<1>5. CASE ~(s.at + 1 >= Len(d)) /\ next > Len(d)
  <2>1. s.at + 2 <= Len(d)
    BY <1>1, <1>5
  <2> QED BY <1>1, <1>5, <2>1, EndInside, ReadInside, Zenon DEF CotpParameter
<1>6. CASE ~(s.at + 1 >= Len(d)) /\ ~(next > Len(d))
  <2>1. next <= Len(d)
    BY <1>1, <1>3, <1>6
  <2>2. Inside(d, Reads(s, next))
    BY <1>3, <2>1, ReadInside, Zenon
  <2> QED BY <1>3, <1>6, <2>2, MoveInside, Zenon DEF CotpParameter
<1> QED BY <1>4, <1>5, <1>6, Zenon

LEMMA ObjectInside ==
    ASSUME NEW d \in Seq(Octet), NEW s, Inside(d, s)
    PROVE  Inside(d, ObjectHeader(d, s))
<1> DEFINE range == RangeBytes(Byte(d, s.at + 2))
           group == Byte(d, s.at)
           read == [Reads(s, s.at + 3) EXCEPT !.out = IF \E n \in DOMAIN @ : @[n] = group THEN @ ELSE Append(@, group)]
<1>1. s.at \in Nat /\ s.at + 3 \in Nat /\ Len(d) \in Nat
  BY CursorType
<1>2. range \in Nat
  BY Zenon DEF RangeBytes
<1>3. CASE s.at + 2 >= Len(d)
  BY <1>3, EndInside, Zenon DEF ObjectHeader
<1>4. CASE ~(s.at + 2 >= Len(d))
  <2>1. s.at + 3 <= Len(d)
    BY <1>1, <1>4
  <2>2. Inside(d, Reads(s, s.at + 3))
    BY <1>1, <2>1, ReadInside, Zenon
  <2>3. Inside(d, read)
    BY <1>1, <2>2, MoveInside, Zenon
  <2>4. Inside(d, Done(read))
    BY <2>3, EndInside, Zenon
  <2>5. read.at \in Nat
    BY <2>3, CursorType, Zenon
  <2>6. read.at + 3 + range \in Nat
    BY <1>2, <2>5
  <2>7. Inside(d, [read EXCEPT !.at = read.at + 3 + range])
    BY <2>3, <2>6, MoveInside, Zenon
  <2> QED BY <1>4, <2>4, <2>7, Zenon DEF ObjectHeader
<1> QED BY <1>3, <1>4, Zenon

LEMMA DhcpInside ==
    ASSUME NEW d \in Seq(Octet), NEW s, Inside(d, s)
    PROVE  Inside(d, DhcpOption(d, s))
<1> DEFINE next == s.at + 2 + Byte(d, s.at + 1)
           code == Byte(d, s.at)
<1>1. s.at \in Nat /\ s.at + 1 \in Nat /\ s.at + 2 \in Nat /\ Len(d) \in Nat
  BY CursorType
<1>2. Byte(d, s.at + 1) \in Nat
  BY <1>1, ByteType, Zenon
<1>3. next \in Nat
  BY <1>1, <1>2
<1>4. CASE s.at >= Len(d)
  BY <1>4, EndInside, Zenon DEF DhcpOption
<1>5. CASE ~(s.at >= Len(d))
  <2>1. s.at + 1 <= Len(d)
    BY <1>1, <1>5
  <2>2. Inside(d, Reads(s, s.at + 1)) /\ Reads(s, s.at + 1).at = s.at
    BY <1>1, <2>1, ReadInside, Zenon
  <2>3. Inside(d, [Reads(s, s.at + 1) EXCEPT !.at = Reads(s, s.at + 1).at + 1])
    BY <1>1, <2>2, MoveInside, Zenon
  <2>4. CASE s.at + 1 >= Len(d)
    BY <1>5, <2>2, <2>3, <2>4, EndInside, Zenon DEF DhcpOption
  <2>5. CASE ~(s.at + 1 >= Len(d)) /\ next > Len(d)
    <3>1. s.at + 2 <= Len(d)
      BY <1>1, <2>5
    <3>2. Inside(d, Reads(s, s.at + 2))
      BY <1>1, <3>1, ReadInside, Zenon
    <3> QED BY <1>5, <2>2, <2>3, <2>5, <3>2, EndInside, Zenon DEF DhcpOption
  <2>6. CASE ~(s.at + 1 >= Len(d)) /\ ~(next > Len(d))
    <3>1. next <= Len(d)
      BY <1>1, <1>3, <2>6
    <3>2. Inside(d, Reads(s, next))
      BY <1>3, <3>1, ReadInside, Zenon
    <3>3. \A o : Inside(d, [Reads(s, next) EXCEPT !.at = next, !.out = o])
      BY <1>3, <3>2, MoveInside, Zenon
    <3> QED BY <1>5, <2>2, <2>3, <2>6, <3>3, EndInside, Zenon DEF DhcpOption
  <2> QED BY <2>4, <2>5, <2>6, Zenon
<1> QED BY <1>4, <1>5, Zenon

LEMMA LldpInside ==
    ASSUME NEW d \in Seq(Octet), NEW s, Inside(d, s)
    PROVE  Inside(d, LldpTlv(d, s))
<1> DEFINE next == s.at + 2 + (Byte(d, s.at) % 2) * 256 + Byte(d, s.at + 1)
           type == Byte(d, s.at) \div 2
<1>1. s.at \in Nat /\ s.at + 1 \in Nat /\ s.at + 2 \in Nat /\ Len(d) \in Nat
  BY CursorType
<1>2. Byte(d, s.at + 1) \in Nat /\ Byte(d, s.at) \in Nat
  BY <1>1, ByteType, Zenon
<1>3. next \in Nat
  <2>1. Byte(d, s.at) % 2 \in 0..1
    BY <1>2
  <2> QED BY <1>1, <1>2, <2>1, SMTT(30)
<1>4. CASE s.at + 2 > Len(d)
  BY <1>4, EndInside, Zenon DEF LldpTlv
<1>5. CASE ~(s.at + 2 > Len(d)) /\ next > Len(d)
  <2>1. s.at + 2 <= Len(d)
    BY <1>1, <1>5
  <2> QED BY <1>1, <1>5, <2>1, EndInside, ReadInside, Zenon DEF LldpTlv
<1>6. CASE ~(s.at + 2 > Len(d)) /\ ~(next > Len(d))
  <2>1. next <= Len(d)
    BY <1>1, <1>3, <1>6
  <2>2. Inside(d, Reads(s, next))
    BY <1>3, <2>1, ReadInside
  <2>3. \A o : Inside(d, [Reads(s, next) EXCEPT !.at = next, !.out = o])
    <3> HIDE DEF next
    <3> QED BY <1>3, <2>2, MoveInside, Zenon
  <2> QED BY <1>6, <2>2, <2>3, EndInside, ZenonT(30) DEF LldpTlv
<1> QED BY <1>4, <1>5, <1>6, Zenon

(***************************************************************************)
(* The bindings of SNMP.                                                   *)
(***************************************************************************)
\* A length of up to four bytes is a number.
LEMMA BigEndianType ==
    ASSUME NEW d \in Seq(Octet), NEW i \in Nat, NEW n \in Nat, i + n <= Len(d)
    PROVE  BigEndian(Bytes(d, i, n)) \in Nat
<1> DEFINE b == Bytes(d, i, n)
<1>1. b \in Seq(Octet)
  BY DEF Bytes
<1>2. \A k \in Nat : (IF k < Len(b) THEN b[Len(b) - k] ELSE 0) \in Nat
  <2> SUFFICES ASSUME NEW k \in Nat PROVE (IF k < Len(b) THEN b[Len(b) - k] ELSE 0) \in Nat
    BY Zenon
  <2> HIDE DEF b
  <2>1. CASE k < Len(b)
    <3>1. Len(b) - k \in 1..Len(b)
      BY <1>1, <2>1
    <3>2. b[Len(b) - k] \in Octet
      BY <1>1, <3>1, MemberOf, Zenon
    <3>3. \A x \in Octet : x \in Nat
      BY DEF Octet
    <3> QED BY <2>1, <3>2, <3>3, Zenon
  <2>2. CASE ~(k < Len(b))
    BY <2>2, Zenon
  <2> QED BY <2>1, <2>2, Zenon
<1> HIDE DEF b
<1> DEFINE F(k) == IF k < Len(b) THEN b[Len(b) - k] ELSE 0
<1>3. F(0) \in Nat /\ F(1) \in Nat /\ F(2) \in Nat /\ F(3) \in Nat
  BY <1>2, Zenon
<1>4. BigEndian(b) = F(0) + 256 * (F(1) + 256 * (F(2) + 256 * F(3)))
  BY Zenon DEF BigEndian
<1> HIDE DEF F
<1>5. BigEndian(b) \in Nat
  BY <1>3, <1>4, SMTT(30)
<1> QED BY <1>5, Zenon DEF b

\* A header that is whole lies before the value, and the value before its end.
LEMMA HeaderType ==
    ASSUME NEW d \in Seq(Octet), NEW at \in Nat
    PROVE  /\ TlvHeader(d, at).value \in Nat /\ TlvHeader(d, at).end \in Nat
           /\ at + 2 <= TlvHeader(d, at).value /\ TlvHeader(d, at).value <= TlvHeader(d, at).end
           /\ TlvHeader(d, at) = [ok |-> TlvHeader(d, at).ok, tag |-> TlvHeader(d, at).tag,
                                  value |-> TlvHeader(d, at).value, end |-> TlvHeader(d, at).end]
<1> DEFINE first == Byte(d, at + 1)
           more == IF first < 128 THEN 0 ELSE first % 128
           ok == at + 2 <= Len(d) /\ (first >= 128 => more \in 1..4 /\ at + 2 + more <= Len(d))
           size == IF first < 128 THEN first ELSE IF ok THEN BigEndian(Bytes(d, at + 2, more)) ELSE 0
<1>1. first \in Nat
  BY ByteType
<1>2. more \in Nat
  BY <1>1
<1>3. size \in Nat
  <2>1. CASE first < 128
    BY <1>1, <2>1, Zenon
  <2>2. CASE ~(first < 128) /\ ok
    <3>1. at + 2 + more <= Len(d) /\ at + 2 \in Nat
      BY <1>1, <2>2
    <3>2. BigEndian(Bytes(d, at + 2, more)) \in Nat
      <4> HIDE DEF more
      <4> QED BY <1>2, <3>1, BigEndianType, Zenon
    <3> QED BY <2>2, <3>2, Zenon
  <2>3. CASE ~(first < 128) /\ ~ok
    BY <2>3, Zenon
  <2> QED BY <2>1, <2>2, <2>3, Zenon
<1>4. TlvHeader(d, at) = [ok |-> ok, tag |-> Byte(d, at), value |-> at + 2 + more, end |-> at + 2 + more + size]
  BY Zenon DEF TlvHeader
<1> HIDE DEF first, more, ok, size
<1> QED BY <1>2, <1>3, <1>4

LEMMA BodyType ==
    ASSUME NEW d \in Seq(Octet), NEW at \in Nat, NEW end
    PROVE  /\ TlvBody(d, at, end).end \in Nat
           /\ TlvBody(d, at, end).ok => TlvBody(d, at, end).end <= Len(d)
<1> DEFINE h == TlvHeader(d, at)
<1>1. h.end \in Nat /\ h = [ok |-> h.ok, tag |-> h.tag, value |-> h.value, end |-> h.end]
  BY HeaderType, Zenon
<1> HIDE DEF h
<1>2. TlvBody(d, at, end) = [h EXCEPT !.ok = h.ok /\ h.end <= end /\ h.end <= Len(d)]
  BY Zenon DEF TlvBody, h
<1> QED BY <1>1, <1>2, Zenon

LEMMA VarBindInside ==
    ASSUME NEW d \in Seq(Octet), NEW s, Inside(d, s)
    PROVE  Inside(d, VarBind(d, s))
<1> DEFINE seq == TlvHeader(d, s.at)
           oid == TlvBody(d, seq.value, seq.end)
           value == TlvBody(d, oid.end, seq.end)
<1>1. s.at \in Nat
  BY CursorType, Zenon
<1>2. seq.value \in Nat /\ seq.end \in Nat
  BY <1>1, HeaderType, Zenon
<1>3. oid.end \in Nat /\ (oid.ok => oid.end <= Len(d))
  BY <1>2, BodyType, Zenon
<1>4. value.end \in Nat /\ (value.ok => value.end <= Len(d))
  BY <1>3, BodyType, Zenon
<1>5. VarBind(d, s) =
        IF s.at >= Len(d) THEN Done(s)
        ELSE IF ~seq.ok \/ seq.tag # 48 \/ seq.end > Len(d) THEN Failed(s)
        ELSE IF ~oid.ok \/ oid.tag # 6 THEN Failed(s)
        ELSE IF ~IsOid(Content(d, oid)) \/ ~value.ok THEN Failed(Reads(s, oid.end))
        ELSE IF ~IsValue(value.tag, Content(d, value)) THEN Failed(Reads(s, value.end))
        ELSE [Reads(s, value.end) EXCEPT !.at = seq.end, !.out = Append(@, <<Content(d, oid), Content(d, value)>>)]
  BY Zenon DEF VarBind
<1> HIDE DEF seq, oid, value
<1>6. Inside(d, Done(s)) /\ Inside(d, Failed(s))
  BY EndInside, Zenon
<1>7. oid.ok => Inside(d, Failed(Reads(s, oid.end)))
  BY <1>3, ReadInside, EndInside, Zenon
<1>8. value.ok => Inside(d, Reads(s, value.end))
  BY <1>4, ReadInside, Zenon
<1>9. value.ok => Inside(d, Failed(Reads(s, value.end)))
  BY <1>8, EndInside, Zenon
<1>10. value.ok => \A o : Inside(d, [Reads(s, value.end) EXCEPT !.at = seq.end, !.out = o])
  BY <1>2, <1>8, MoveInside, Zenon
<1> QED BY <1>5, <1>6, <1>7, <1>9, <1>10, Zenon

(***************************************************************************)
(* The scanners.                                                           *)
(***************************************************************************)
LEMMA ScanInside ==
    ASSUME NEW d \in Seq(Octet), NEW s, Inside(d, s), NEW fields, NEW wanted
    PROVE  Inside(d, Scan(d, s, fields, wanted))
<1> DEFINE size == Byte(d, s.at + 1)
           next == s.at + 2 + size
           hit == Fits(d, s) /\ <<Byte(d, s.at), size>> \in fields
           out == Append(s.out, <<Byte(d, s.at), Bytes(d, s.at + 2, size)>>)
           complete == wanted \subseteq {out[n][1] : n \in DOMAIN out}
           moved == [Reads(s, next) EXCEPT !.at = next, !.out = out, !.status = IF complete THEN "done" ELSE @]
<1>1. s.at \in Nat /\ s.at + 1 \in Nat /\ s.at + 2 \in Nat /\ Len(d) \in Nat
  BY CursorType
<1>2. size \in Nat
  BY <1>1, ByteType, Zenon
<1>3. next \in Nat
  BY <1>1, <1>2
<1>4. Scan(d, s, fields, wanted) =
        IF s.at + 1 >= Len(d) THEN Done(s)
        ELSE IF ~hit THEN [Reads(s, s.at + 2) EXCEPT !.at = @ + 1]
        ELSE moved
  BY Zenon DEF Scan
<1>5. Inside(d, Done(s))
  BY EndInside, Zenon
<1>6. ~(s.at + 1 >= Len(d)) => Inside(d, [Reads(s, s.at + 2) EXCEPT !.at = @ + 1])
  <2> HAVE ~(s.at + 1 >= Len(d))
  <2>1. s.at + 2 <= Len(d)
    BY <1>1
  <2>2. Inside(d, Reads(s, s.at + 2)) /\ Reads(s, s.at + 2).at = s.at
    BY <1>1, <2>1, ReadInside, Zenon
  <2> QED BY <1>1, <2>2, MoveInside, Zenon
<1>7. hit => Inside(d, moved)
  <2> HAVE hit
  <2>1. next <= Len(d)
    BY Zenon DEF Fits
  <2> HIDE DEF next, hit, out, complete
  <2>2. Inside(d, Reads(s, next))
    BY <1>3, <2>1, ReadInside, Zenon
  <2>3. Inside(d, [Reads(s, next) EXCEPT !.at = next, !.out = out])
    BY <1>3, <2>2, MoveInside, Zenon
  <2> DEFINE r == [Reads(s, next) EXCEPT !.at = next, !.out = out]
  <2>4. Inside(d, Done(r))
    BY <2>3, EndInside, Zenon
  <2>5. Inside(d, [r EXCEPT !.status = @])
    BY <2>3, Zenon DEF Inside, IsState
  <2> QED BY <2>4, <2>5, Zenon DEF Done
<1> HIDE DEF hit, moved
<1> QED BY <1>4, <1>5, <1>6, <1>7, Zenon

LEMMA InvokeInside ==
    ASSUME NEW d \in Seq(Octet), NEW s, Inside(d, s)
    PROVE  Inside(d, InvokeId(d, s))
<1> DEFINE size == Byte(d, s.at + 1)
           read == Reads(s, s.at + 1)
<1>1. s.at \in Nat /\ s.at + 1 \in Nat /\ Len(d) \in Nat
  BY CursorType
<1>2. Inside(d, Done(s)) /\ Inside(d, Failed(s))
  BY EndInside, Zenon
<1>3. ~(s.at >= Len(d)) => /\ Inside(d, Failed(read))
                           /\ Inside(d, [read EXCEPT !.at = @ + 1])
                           /\ \A o : Inside(d, Done([read EXCEPT !.out = o]))
  <2> HAVE ~(s.at >= Len(d))
  <2>1. s.at + 1 <= Len(d)
    BY <1>1
  <2>2. Inside(d, read) /\ read.at = s.at
    BY <1>1, <2>1, ReadInside, Zenon
  <2> HIDE DEF read
  <2>3. Inside(d, Failed(read))
    BY <2>2, EndInside, Zenon
  <2>4. Inside(d, [read EXCEPT !.at = @ + 1])
    BY <1>1, <2>2, MoveInside, Zenon
  <2>5. \A o : Inside(d, [read EXCEPT !.out = o])
    BY <1>1, <2>2, MoveInside, Zenon
  <2>6. \A o : Inside(d, Done([read EXCEPT !.out = o]))
    BY <2>5, EndInside, Zenon
  <2> QED BY <2>3, <2>4, <2>6, Zenon
<1> QED BY <1>2, <1>3, Zenon DEF InvokeId

(***************************************************************************)
(* From an IP packet to the payload behind its headers.                    *)
(***************************************************************************)
\* Between turns the cursor is at the start or behind the IPv6 header; at the end it is behind the headers.
InPacket(d, s) ==
    /\ Inside(d, s)
    /\ s.hops <= ChainLimit
    /\ s.status = "reading" => s.at = 0 \/ s.at \in 40..Len(d)
    /\ s.status = "done" => s.at \in 28..Len(d)

LEMMA FailedInPacket ==
    ASSUME NEW d, NEW s, Inside(d, s), s.hops <= ChainLimit
    PROVE  InPacket(d, Failed(s))
BY EndInside, Zenon DEF InPacket

LEMMA PortsInPacket ==
    ASSUME NEW d \in Seq(Octet), NEW s, Inside(d, s), s.hops <= ChainLimit, s.at >= 20, s.at <= Len(d), NEW proto
    PROVE  InPacket(d, ParseL4Ports(d, s, proto))
<1> DEFINE size == IF proto = Tcp THEN 4 * (Byte(d, s.at + 12) \div 16) ELSE 8
           room == Len(d) - s.at
           least == IF proto = Tcp THEN 20 ELSE 8
           out == <<Word(d, s.at), Word(d, s.at + 2)>>
           moved == [Reads(s, s.at + size) EXCEPT !.at = @ + size, !.out = out]
<1>1. s.at \in Nat /\ s.at + 12 \in Nat /\ s.at + 13 \in Nat /\ Len(d) \in Nat /\ s.hops \in Nat
  BY CursorType
<1>2. size \in Nat
  <2>1. Byte(d, s.at + 12) \in Nat
    BY <1>1, ByteType, Zenon
  <2> QED BY <2>1
<1>3. ParseL4Ports(d, s, proto) =
        IF proto \notin {Tcp, Udp} \/ room < least THEN Failed(s)
        ELSE IF proto = Tcp /\ (size < 20 \/ room < size) THEN Failed(Reads(s, s.at + 13))
        ELSE Done(moved)
  BY Zenon DEF ParseL4Ports
<1>4. InPacket(d, Failed(s))
  BY FailedInPacket, Zenon
<1>5. ~(room < least) /\ proto = Tcp => InPacket(d, Failed(Reads(s, s.at + 13)))
  <2> HAVE ~(room < least) /\ proto = Tcp
  <2>1. s.at + 13 <= Len(d)
    BY <1>1
  <2>2. Inside(d, Reads(s, s.at + 13)) /\ Reads(s, s.at + 13).hops = s.hops
    BY <1>1, <2>1, ReadInside, ZenonT(30)
  <2> QED BY <2>2, FailedInPacket, Zenon
<1>6. ~(room < least) /\ ~(proto = Tcp /\ (size < 20 \/ room < size)) => InPacket(d, Done(moved))
  <2> HAVE ~(room < least) /\ ~(proto = Tcp /\ (size < 20 \/ room < size))
  <2>1. size >= 8 /\ s.at + size <= Len(d)
    BY <1>1, <1>2, SMTT(30)
  <2> HIDE DEF size, out
  <2> DEFINE r == Reads(s, s.at + size)
  <2>2. s.at + size \in Nat
    BY <1>1, <1>2, SMTT(30)
  <2>3. Inside(d, r) /\ r.at = s.at /\ r.hops = s.hops
    BY <2>1, <2>2, ReadInside, Zenon
  <2> HIDE DEF r
  <2>4. Inside(d, moved)
    BY <2>2, <2>3, MoveInside, Zenon DEF r
  <2>5. moved.at = s.at + size /\ moved.hops = s.hops
    BY <2>3, Zenon DEF Inside, IsState, r
  <2>6. Inside(d, Done(moved)) /\ Done(moved).at = s.at + size /\ Done(moved).hops = s.hops /\ Done(moved).status = "done"
    BY <2>4, <2>5, EndInside, ZenonT(30)
  <2>7. s.at + size \in 28..Len(d)
    BY <1>1, <1>2, <2>1, SMTT(30)
  <2> QED BY <2>6, <2>7, Zenon DEF InPacket
<1> HIDE DEF size, room, least, moved
<1> QED BY <1>3, <1>4, <1>5, <1>6, Zenon

LEMMA V4InPacket ==
    ASSUME NEW d \in Seq(Octet), NEW s, InPacket(d, s), d # <<>>
    PROVE  InPacket(d, IpV4(d, s))
<1> DEFINE ihl == 4 * (Byte(d, 0) % 16)
           r == Reads(s, ihl)
           moved == [r EXCEPT !.at = ihl]
<1>1. Len(d) \in Nat /\ 1 <= Len(d) /\ s.hops \in Nat /\ Inside(d, s) /\ s.hops <= ChainLimit
  BY CursorType DEF InPacket
<1>2. ihl \in Nat
  <2>1. Byte(d, 0) \in Nat
    BY ByteType
  <2> QED BY <2>1
<1>3. IpV4(d, s) =
        IF Len(d) < 20 \/ ihl < 20 \/ Len(d) < ihl THEN Failed(Reads(s, 1))
        ELSE IF Word(d, 6) % 8192 # 0 THEN Failed(Reads(s, 8))
        ELSE ParseL4Ports(d, moved, Byte(d, 9))
  BY DEF IpV4
<1>4. InPacket(d, Failed(Reads(s, 1)))
  <2>1. Inside(d, Reads(s, 1)) /\ Reads(s, 1).hops = s.hops
    BY <1>1, ReadInside
  <2> QED BY <1>1, <2>1, FailedInPacket, Zenon
<1>5. ~(Len(d) < 20) => InPacket(d, Failed(Reads(s, 8)))
  <2> HAVE ~(Len(d) < 20)
  <2>0. 8 <= Len(d)
    BY <1>1
  <2>1. Inside(d, Reads(s, 8)) /\ Reads(s, 8).hops = s.hops
    BY <1>1, <2>0, ReadInside
  <2> QED BY <1>1, <2>1, FailedInPacket, Zenon
<1>6. ~(Len(d) < 20 \/ ihl < 20 \/ Len(d) < ihl) => InPacket(d, ParseL4Ports(d, moved, Byte(d, 9)))
  <2> HAVE ~(Len(d) < 20 \/ ihl < 20 \/ Len(d) < ihl)
  <2>1. ihl >= 20 /\ ihl <= Len(d)
    BY <1>1, <1>2
  <2> HIDE DEF ihl
  <2>2. Inside(d, r) /\ r.hops = s.hops
    BY <1>1, <1>2, <2>1, ReadInside, Zenon
  <2> HIDE DEF r
  <2>3. Inside(d, moved)
    BY <1>2, <2>2, MoveInside, Zenon
  <2>4. moved.at = ihl /\ moved.hops = s.hops
    BY <2>2, Zenon DEF Inside, IsState
  <2> HIDE DEF moved
  <2> QED BY <1>1, <2>1, <2>3, <2>4, PortsInPacket, Zenon
<1> HIDE DEF ihl, moved
<1> QED BY <1>3, <1>4, <1>5, <1>6

LEMMA ExtensionInPacket ==
    ASSUME NEW d \in Seq(Octet), NEW s, InPacket(d, s), s.status = "reading", s.at > 0
    PROVE  InPacket(d, Extension(d, s))
<1> DEFINE next == s.at + 8 * (Byte(d, s.at + 1) + 1)
           header == s.out[Len(s.out)]
           r == Reads(s, s.at + 2)
           moved == [r EXCEPT !.at = next, !.hops = @ + 1, !.out = Append(@, Byte(d, s.at))]
<1>1. Len(d) \in Nat /\ s.at \in Nat /\ s.at + 1 \in Nat /\ s.at + 2 \in Nat /\ s.hops \in Nat /\ Inside(d, s)
  BY CursorType DEF InPacket
<1>2. s.hops <= ChainLimit /\ s.at >= 40 /\ s.at <= Len(d)
  BY <1>1 DEF InPacket
<1>3. next \in Nat /\ next >= 40
  <2>1. Byte(d, s.at + 1) \in Nat
    BY <1>1, ByteType, Zenon
  <2>2. \A b \in Nat : s.at + 8 * (b + 1) \in Nat /\ s.at + 8 * (b + 1) >= 40
    BY <1>1, <1>2, SMTT(30)
  <2> QED BY <2>1, <2>2, Zenon
<1>4. Extension(d, s) =
        IF s.hops = ChainLimit THEN Failed(s)
        ELSE IF header \notin Extensions THEN ParseL4Ports(d, s, header)
        ELSE IF Len(d) < s.at + 2 THEN Failed(s)
        ELSE IF Len(d) < next THEN Failed(r)
        ELSE moved
  BY Zenon DEF Extension
<1>5. InPacket(d, Failed(s))
  BY <1>1, <1>2, FailedInPacket, Zenon
<1>6. InPacket(d, ParseL4Ports(d, s, header))
  <2>1. s.at >= 20
    BY <1>1, <1>2
  <2> QED BY <1>1, <1>2, <2>1, PortsInPacket, Zenon
<1>7. ~(Len(d) < s.at + 2) => Inside(d, r) /\ r.hops = s.hops /\ r.status = "reading"
  <2> HAVE ~(Len(d) < s.at + 2)
  <2>1. s.at + 2 <= Len(d)
    BY <1>1
  <2> QED BY <1>1, <2>1, ReadInside
<1>8. ~(Len(d) < s.at + 2) => InPacket(d, Failed(r))
  BY <1>2, <1>7, FailedInPacket, Zenon
<1>9. ~(Len(d) < s.at + 2) /\ ~(Len(d) < next) /\ s.hops # ChainLimit => InPacket(d, moved)
  <2> HAVE ~(Len(d) < s.at + 2) /\ ~(Len(d) < next) /\ s.hops # ChainLimit
  <2>1. Inside(d, r) /\ r.hops = s.hops /\ r.status = "reading"
    BY <1>7, Zenon
  <2>2. next \in 40..Len(d)
    BY <1>1, <1>3
  <2>3. s.hops + 1 \in Nat /\ s.hops + 1 <= ChainLimit
    BY <1>1, <1>2, SMTT(30) DEF ChainLimit
  <2> HIDE DEF next, r
  <2>4. Inside(d, moved) /\ moved.at = next /\ moved.hops = s.hops + 1 /\ moved.status = "reading"
    BY <1>3, <2>1, <2>3, Zenon DEF Inside, IsState
  <2> QED BY <2>2, <2>3, <2>4, Zenon DEF InPacket
<1> HIDE DEF next, header, r, moved
<1> QED BY <1>4, <1>5, <1>6, <1>8, <1>9, Zenon

LEMMA L4InPacket ==
    ASSUME NEW d \in Seq(Octet), NEW s, InPacket(d, s), s.status = "reading"
    PROVE  InPacket(d, ExtractL4Payload(d, s))
<1> DEFINE version == Byte(d, 0) \div 16
           moved == [Reads(s, 7) EXCEPT !.at = 40, !.out = <<Byte(d, 6)>>]
<1>1. Len(d) \in Nat /\ s.at \in Nat /\ s.hops \in Nat /\ Inside(d, s) /\ s.hops <= ChainLimit
  BY CursorType, Zenon DEF InPacket
<1>2. ExtractL4Payload(d, s) =
        IF d = <<>> \/ version \notin {4, 6} THEN Failed(s)
        ELSE IF version = 4 THEN IpV4(d, s)
        ELSE IF s.at > 0 THEN Extension(d, s)
        ELSE IF Len(d) < 40 THEN Failed(Reads(s, 1))
        ELSE moved
  BY Zenon DEF ExtractL4Payload
<1>3. InPacket(d, Failed(s))
  BY <1>1, FailedInPacket, Zenon
<1>4. d # <<>> => InPacket(d, IpV4(d, s))
  BY V4InPacket, Zenon
<1>5. s.at > 0 => InPacket(d, Extension(d, s))
  BY ExtensionInPacket, Zenon
<1>6. d # <<>> => InPacket(d, Failed(Reads(s, 1)))
  <2> HAVE d # <<>>
  <2>1. 1 <= Len(d)
    BY <1>1
  <2>2. Inside(d, Reads(s, 1)) /\ Reads(s, 1).hops = s.hops
    BY <1>1, <2>1, ReadInside
  <2> QED BY <1>1, <2>2, FailedInPacket, Zenon
<1>7. ~(Len(d) < 40) => InPacket(d, moved)
  <2> HAVE ~(Len(d) < 40)
  <2>1. 7 <= Len(d) /\ 40 \in 40..Len(d)
    BY <1>1
  <2> DEFINE r == Reads(s, 7)
  <2>2. Inside(d, r) /\ r.hops = s.hops /\ r.status = "reading"
    BY <1>1, <2>1, ReadInside, SMTT(30)
  <2> HIDE DEF r
  <2>3. Inside(d, moved) /\ moved.at = 40 /\ moved.hops = s.hops /\ moved.status = "reading"
    BY <2>2, Zenon DEF Inside, IsState, r
  <2> QED BY <1>1, <2>1, <2>3, Zenon DEF InPacket
<1> HIDE DEF version, moved
<1> QED BY <1>2, <1>3, <1>4, <1>5, <1>6, <1>7, Zenon

(***************************************************************************)
(* Names.                                                                  *)
(***************************************************************************)
\* A label moves the cursor on and leaves the end alone.
LEMMA LabelInside ==
    ASSUME NEW d \in Seq(Octet), NEW s, Inside(d, s), s.status = "reading", s.at < Len(d)
    PROVE  /\ Inside(d, Label(d, s))
           /\ Label(d, s).jumped = s.jumped /\ Label(d, s).end = s.end
           /\ Label(d, s).at >= s.at /\ Label(d, s).hops <= s.hops + 1
           /\ Label(d, s).status # "done"
<1> DEFINE size == Byte(d, s.at)
           r == Reads(s, s.at + 1 + size)
           out == Bytes(d, s.at + 1, size)
           moved == [r EXCEPT !.at = @ + 1 + size, !.hops = @ + 1, !.out = Append(@, out)]
           cut == s.at + 1 + size > Len(d) \/ ~IsText(out)
<1>1. Len(d) \in Nat /\ s.at \in Nat /\ s.at + 1 \in Nat /\ s.hops \in Nat
  BY CursorType
<1>2. size \in Nat
  BY <1>1, ByteType, Zenon
<1>3. Label(d, s) = IF cut THEN Failed(Reads(s, s.at + 1)) ELSE moved
  BY Zenon DEF Label
<1>4. CASE cut
  <2>1. s.at + 1 <= Len(d)
    BY <1>1
  <2> DEFINE q == Reads(s, s.at + 1)
  <2>2. Inside(d, q) /\ q.at = s.at /\ q.hops = s.hops /\ q.jumped = s.jumped /\ q.end = s.end
    BY <1>1, <2>1, ReadInside
  <2> HIDE DEF q, cut
  <2>3. Label(d, s) = Failed(q)
    BY <1>3, <1>4, Zenon DEF q
  <2>4. /\ Inside(d, Failed(q)) /\ Failed(q).at = s.at /\ Failed(q).hops = s.hops /\ Failed(q).jumped = s.jumped
        /\ Failed(q).end = s.end /\ Failed(q).status = "failed"
    BY <2>2, EndInside
  <2> QED BY <1>1, <2>3, <2>4
<1>5. CASE ~cut
  <2>1. s.at + 1 + size <= Len(d) /\ s.at + 1 + size \in Nat
    BY <1>1, <1>2, <1>5
  <2>2. Inside(d, r) /\ r.at = s.at /\ r.hops = s.hops /\ r.jumped = s.jumped /\ r.end = s.end /\ r.status = "reading"
    BY <2>1, ReadInside
  <2> HIDE DEF r, cut, size, out
  <2>3. Label(d, s) = moved
    BY <1>3, <1>5, Zenon
  <2>4. Inside(d, moved)
    <3> DEFINE at == s.at + 1 + size
               hops == s.hops + 1
               told == Append(r.out, out)
    <3>1. at \in Nat /\ hops \in Nat
      BY <1>1, <1>2, SMTT(30)
    <3>2. moved = [r EXCEPT !.at = at, !.hops = hops, !.out = told]
      BY <2>2, Zenon
    <3> HIDE DEF at, hops, told
    <3>3. Inside(d, [r EXCEPT !.at = at, !.hops = hops, !.out = told])
      BY <2>2, <3>1, TurnInside, Zenon
    <3> QED BY <3>2, <3>3, Zenon
  <2>5. /\ moved.at = s.at + 1 + size /\ moved.hops = s.hops + 1 /\ moved.jumped = s.jumped
        /\ moved.end = s.end /\ moved.status = "reading"
    BY <2>2, Zenon DEF Inside, IsState
  <2> QED BY <1>1, <1>2, <2>3, <2>4, <2>5, SMTT(30)
<1> QED BY <1>4, <1>5, Zenon

LEMMA PlainInside ==
    ASSUME NEW d \in Seq(Octet), NEW s, Inside(d, s), s.status = "reading"
    PROVE  Inside(d, PlainName(d, s))
<1>1. Len(d) \in Nat /\ s.at \in Nat /\ s.at + 1 \in Nat
  BY CursorType
<1>2. Inside(d, Failed(s))
  BY EndInside, Zenon
<1>3. ~(s.at >= Len(d)) => /\ Inside(d, Label(d, s))
                           /\ Inside(d, Failed(Reads(s, s.at + 1)))
                           /\ Inside(d, Done([Reads(s, s.at + 1) EXCEPT !.end = s.at + 1]))
  <2> HAVE ~(s.at >= Len(d))
  <2>1. s.at < Len(d) /\ s.at + 1 <= Len(d)
    BY <1>1
  <2> DEFINE r == Reads(s, s.at + 1)
  <2>2. Inside(d, r)
    BY <1>1, <2>1, ReadInside, Zenon
  <2> HIDE DEF r
  <2>3. Inside(d, [r EXCEPT !.end = s.at + 1])
    BY <1>1, <2>2, ZenonT(30) DEF Inside, IsState
  <2>4. Inside(d, Done([r EXCEPT !.end = s.at + 1])) /\ Inside(d, Failed(r))
    BY <2>2, <2>3, EndInside, Zenon
  <2> QED BY <2>1, <2>4, LabelInside, Zenon DEF r
<1> QED BY <1>2, <1>3, Zenon DEF PlainName

\* The end of a name is known once a pointer was followed; until then the cursor is where the name goes on.
InName(d, st, s) ==
    /\ Inside(d, s)
    /\ s.hops <= HopLimit + 1
    /\ IF s.jumped THEN s.end \in (st + 1)..Len(d) ELSE s.at >= st
    /\ s.status = "done" => s.end \in (st + 1)..Len(d)

LEMMA FailedInName ==
    ASSUME NEW d \in Seq(Octet), NEW st, NEW s, InName(d, st, s), s.status = "reading"
    PROVE  /\ InName(d, st, Failed(s))
           /\ \A n \in Nat : n <= Len(d) => InName(d, st, Failed(Reads(s, n)))
<1>1. Inside(d, s)
  BY Zenon DEF InName
<1>2. InName(d, st, Failed(s))
  <2> DEFINE f == Failed(s)
  <2>1. /\ Inside(d, f) /\ f.at = s.at /\ f.hops = s.hops /\ f.jumped = s.jumped /\ f.end = s.end
        /\ f.status = "failed"
    BY <1>1, EndInside, Zenon
  <2> HIDE DEF f
  <2>2. InName(d, st, f)
    BY <2>1, Zenon DEF InName
  <2> QED BY <2>2, Zenon DEF f
<1>3. ASSUME NEW n \in Nat, n <= Len(d) PROVE InName(d, st, Failed(Reads(s, n)))
  <2> DEFINE r == Reads(s, n)
  <2>1. /\ Inside(d, r) /\ r.at = s.at /\ r.hops = s.hops /\ r.jumped = s.jumped /\ r.end = s.end
        /\ r.status = s.status
    BY <1>1, <1>3, ReadInside, Zenon
  <2> HIDE DEF r
  <2> DEFINE f == Failed(r)
  <2>2. /\ Inside(d, f) /\ f.at = s.at /\ f.hops = s.hops /\ f.jumped = s.jumped /\ f.end = s.end
        /\ f.status = "failed"
    BY <2>1, EndInside, ZenonT(30)
  <2> HIDE DEF f
  <2>3. InName(d, st, f)
    BY <2>2, Zenon DEF InName
  <2> QED BY <2>3, Zenon DEF f, r
<1> QED BY <1>2, <1>3, Zenon

\* The turns that both copies of the reader of names take.
LEMMA NameTurns ==
    ASSUME NEW d \in Seq(Octet), NEW st \in Nat, NEW s, InName(d, st, s), s.status = "reading",
           s.at < Len(d), s.hops <= HopLimit
    PROVE  /\ InName(d, st, Done([Reads(s, s.at + 1) EXCEPT !.end = EndAt(s, s.at + 1)]))
           /\ InName(d, st, Label(d, s))
           /\ InName(d, st, Failed(Reads(s, s.at + 1)))
           /\ s.at + 1 < Len(d) => InName(d, st, Failed(Reads(s, s.at + 2))) /\ InName(d, st, Jump(d, s))
<1>1. Len(d) \in Nat /\ s.at \in Nat /\ s.at + 1 \in Nat /\ s.at + 2 \in Nat /\ s.hops \in Nat /\ s.end \in Nat
      /\ s.jumped \in BOOLEAN /\ Inside(d, s) /\ HopLimit \in Nat
  BY CursorType, HopLimitAssumption, SMTT(30) DEF InName
<1>2. InName(d, st, Done([Reads(s, s.at + 1) EXCEPT !.end = EndAt(s, s.at + 1)]))
  <2> DEFINE r == Reads(s, s.at + 1)
             e == EndAt(s, s.at + 1)
             q == [r EXCEPT !.end = e]
  <2>1. Inside(d, r) /\ r.at = s.at /\ r.hops = s.hops /\ r.jumped = s.jumped
    BY <1>1, ReadInside, SMTT(30)
  <2>2. e \in (st + 1)..Len(d)
    BY <1>1, SMTT(30) DEF InName, EndAt
  <2> HIDE DEF r, e
  <2>3. Inside(d, q) /\ q.at = s.at /\ q.hops = s.hops /\ q.jumped = s.jumped /\ q.end = e
    BY <2>1, <2>2, SMTT(30) DEF Inside, IsState
  <2> HIDE DEF q
  <2>4. /\ Inside(d, Done(q)) /\ Done(q).at = s.at /\ Done(q).hops = s.hops /\ Done(q).jumped = s.jumped
        /\ Done(q).end = e
    BY <2>3, EndInside, ZenonT(30)
  <2>5. InName(d, st, Done(q))
    BY <2>2, <2>4, Zenon DEF InName
  <2> QED BY <2>5, Zenon DEF q, r, e
<1>3. InName(d, st, Label(d, s))
  <2> DEFINE l == Label(d, s)
  <2>1. /\ Inside(d, l) /\ l.jumped = s.jumped /\ l.end = s.end /\ l.at >= s.at /\ l.hops <= s.hops + 1
        /\ l.status # "done"
    BY <1>1, LabelInside, Zenon
  <2> HIDE DEF l
  <2>2. l.at \in Nat /\ l.hops \in Nat
    BY <2>1, CursorType, Zenon
  <2>3. l.hops <= HopLimit + 1
    BY <1>1, <2>1, <2>2, SMTT(30)
  <2>4. ~s.jumped => l.at >= st
    BY <1>1, <2>1, <2>2, SMTT(30) DEF InName
  <2>5. InName(d, st, l)
    BY <2>1, <2>3, <2>4, Zenon DEF InName
  <2> QED BY <2>5, Zenon DEF l
<1>4. InName(d, st, Failed(Reads(s, s.at + 1)))
  <2>1. s.at + 1 <= Len(d)
    BY <1>1, SMTT(30)
  <2> QED BY <1>1, <2>1, FailedInName, Zenon
<1>5. ASSUME s.at + 1 < Len(d) PROVE InName(d, st, Failed(Reads(s, s.at + 2))) /\ InName(d, st, Jump(d, s))
  <2>1. s.at + 2 <= Len(d)
    BY <1>1, <1>5
  <2>2. InName(d, st, Failed(Reads(s, s.at + 2)))
    BY <1>1, <2>1, FailedInName, Zenon
  <2> DEFINE r == Reads(s, s.at + 2)
             e == EndAt(s, s.at + 2)
             t == Target(d, s.at)
             q == [r EXCEPT !.at = t, !.jumped = TRUE, !.end = e, !.hops = @ + 1]
  <2>3. Inside(d, r) /\ r.hops = s.hops /\ r.status = "reading"
    BY <1>1, <2>1, ReadInside
  <2>4. e \in (st + 1)..Len(d)
    BY <1>1, <2>1, SMTT(30) DEF InName, EndAt
  <2>5. t \in Nat
    <3>1. Byte(d, s.at) \in Nat /\ Byte(d, s.at + 1) \in Nat
      BY <1>1, ByteType, Zenon
    <3> QED BY <3>1 DEF Target
  <2>6. Jump(d, s) = q
    BY Zenon DEF Jump
  <2> HIDE DEF r, e, t
  <2>9. Inside(d, q)
    <3> DEFINE hops == s.hops + 1
    <3>1. hops \in Nat /\ e \in Nat
      BY <1>1, <2>4, SMTT(30)
    <3>2. q = [r EXCEPT !.at = t, !.jumped = TRUE, !.end = e, !.hops = hops]
      BY <2>3, Zenon
    <3> HIDE DEF hops
    <3>3. Inside(d, [r EXCEPT !.at = t, !.jumped = TRUE, !.end = e, !.hops = hops])
      BY <2>3, <2>5, <3>1, TurnInside, Zenon
    <3> QED BY <3>2, <3>3, Zenon
  <2>7. Inside(d, q) /\ q.jumped = TRUE /\ q.end = e /\ q.hops = s.hops + 1 /\ q.status = "reading"
    BY <2>3, <2>9, Zenon DEF Inside, IsState
  <2> HIDE DEF q
  <2>8. InName(d, st, q)
    BY <1>1, <2>4, <2>7 DEF InName
  <2> QED BY <2>2, <2>6, <2>8, Zenon
<1> QED BY <1>2, <1>3, <1>4, <1>5, Zenon

LEMMA NamesInName ==
    ASSUME NEW d \in Seq(Octet), NEW st \in Nat, NEW s, InName(d, st, s), s.status = "reading"
    PROVE  InName(d, st, DnsName(d, s)) /\ InName(d, st, MdnsName(d, s))
<1>1. Len(d) \in Nat /\ s.at \in Nat /\ s.hops \in Nat /\ HopLimit \in Nat
  BY CursorType, HopLimitAssumption, Zenon DEF InName
<1>2. InName(d, st, Failed(s))
  BY FailedInName, Zenon
<1>3. CASE s.at >= Len(d) \/ s.hops > HopLimit
  BY <1>2, <1>3, Zenon DEF DnsName, MdnsName
<1>4. CASE ~(s.at >= Len(d) \/ s.hops > HopLimit)
  <2>1. s.at < Len(d) /\ s.hops <= HopLimit
    BY <1>1, <1>4
  <2>2. /\ InName(d, st, Done([Reads(s, s.at + 1) EXCEPT !.end = EndAt(s, s.at + 1)]))
        /\ InName(d, st, Label(d, s))
        /\ InName(d, st, Failed(Reads(s, s.at + 1)))
        /\ ~(s.at + 1 >= Len(d)) => InName(d, st, Failed(Reads(s, s.at + 2))) /\ InName(d, st, Jump(d, s))
    <3>1. ~(s.at + 1 >= Len(d)) => s.at + 1 < Len(d)
      BY <1>1
    <3> QED BY <2>1, <3>1, NameTurns, Zenon
  <2>3. InName(d, st, DnsName(d, s))
    BY <1>4, <2>2, Zenon DEF DnsName
  <2>4. InName(d, st, MdnsName(d, s))
    BY <1>4, <2>2, Zenon DEF MdnsName
  <2> QED BY <2>3, <2>4, Zenon
<1> QED BY <1>3, <1>4, Zenon

(***************************************************************************)
(* The reader of capture files.                                            *)
(***************************************************************************)
Base(f) == IF f.format = "pcap" THEN 24 ELSE 0

\* E has the ends of the first n blocks.
Ending(E, f, n) == E = [i \in 0..n |-> IF i = 0 THEN Base(f) ELSE E[i - 1] + Width(f, f.blocks[i])]

\* The recursion of Ends defines a function.
LEMMA EndsExist ==
    ASSUME NEW f, NEW n \in Nat
    PROVE  \E E : Ending(E, f, n)
<1> DEFINE Bad == {m \in Nat : ~ \E E : Ending(E, f, m)}
<1>1. SUFFICES Bad = {}
  BY <1>1, Zenon
<1>2. SUFFICES ASSUME Bad # {} PROVE FALSE
  BY Zenon
<1>3. PICK m \in Bad : \A y \in Bad : m <= y
  <2>1. Bad \in SUBSET Nat
    BY Zenon
  <2> HIDE DEF Bad
  <2> QED BY <2>1, <1>2, LeastNat, Zenon
<1>4. m \in Nat
  BY <1>3, Zenon
<1>5. CASE m = 0
  <2> DEFINE E == [i \in 0..0 |-> Base(f)]
  <2>1. E = [i \in 0..0 |-> IF i = 0 THEN Base(f) ELSE E[i - 1] + Width(f, f.blocks[i])]
    OBVIOUS
  <2> HIDE DEF E
  <2> QED BY <1>3, <1>5, <2>1, Zenon DEF Ending
<1>6. CASE m # 0
  <2>1. m - 1 \in Nat /\ m - 1 \notin Bad
    <3> HIDE DEF Bad
    <3> QED BY <1>3, <1>4, <1>6
  <2>2. PICK D : Ending(D, f, m - 1)
    BY <2>1, Zenon
  <2> DEFINE E == [i \in 0..m |-> IF i = m THEN D[m - 1] + Width(f, f.blocks[m]) ELSE D[i]]
  <2>3. \A i \in 0..(m - 1) : E[i] = D[i]
    BY <1>4
  <2>4. \A i \in 0..(m - 1) : D[i] = IF i = 0 THEN Base(f) ELSE D[i - 1] + Width(f, f.blocks[i])
    BY <2>2, Zenon DEF Ending
  <2>5. \A i \in 0..m : E[i] = IF i = 0 THEN Base(f) ELSE E[i - 1] + Width(f, f.blocks[i])
    <3> TAKE i \in 0..m
    <3>1. CASE i = m
      <4>1. E[m] = D[m - 1] + Width(f, f.blocks[m])
        BY <1>4
      <4>2. E[m - 1] = D[m - 1]
        BY <1>4, <1>6, <2>3
      <4> HIDE DEF E
      <4> QED BY <3>1, <4>1, <4>2, <1>6, Zenon
    <3>2. CASE i # m /\ i = 0
      <4> HIDE DEF E
      <4>1. 0 \in 0..(m - 1)
        BY <1>4, <1>6
      <4> QED BY <3>2, <4>1, <2>3, <2>4, Zenon
    <3>3. CASE i # m /\ i # 0
      <4>1. i \in 0..(m - 1) /\ i - 1 \in 0..(m - 1)
        BY <3>3, <1>4
      <4>2. E[i] = D[i] /\ E[i - 1] = D[i - 1]
        BY <4>1, <2>3, Zenon
      <4> HIDE DEF E
      <4> QED BY <3>3, <4>1, <4>2, <2>4, Zenon
    <3> QED BY <3>1, <3>2, <3>3, Zenon
  <2>6. E = [i \in 0..m |-> E[i]]
    BY Zenon
  <2>7. Ending(E, f, m)
    <3> HIDE DEF E
    <3> QED BY <2>5, <2>6, Zenon DEF Ending
  <2> HIDE DEF E
  <2> QED BY <1>3, <2>7, Zenon
<1> QED BY <1>5, <1>6, Zenon

\* A block ends behind the block before it by its width.
LEMMA EndOfNext ==
    ASSUME NEW f, Len(f.blocks) \in Nat
    PROVE  /\ EndOf(f, 0) = Base(f)
           /\ \A n \in 1..Len(f.blocks) : EndOf(f, n) = EndOf(f, n - 1) + Width(f, f.blocks[n])
<1> DEFINE E == CHOOSE E : Ending(E, f, Len(f.blocks))
<1>1. Ends(f) = E
  BY Zenon DEF Ends, Ending, Base
<1>2. Ending(E, f, Len(f.blocks))
  BY EndsExist, Zenon
<1> HIDE DEF E
<1>3. \A i \in 0..Len(f.blocks) : E[i] = IF i = 0 THEN Base(f) ELSE E[i - 1] + Width(f, f.blocks[i])
  BY <1>2, Zenon DEF Ending
<1>4. E[0] = Base(f)
  BY <1>3
<1>5. \A n \in 1..Len(f.blocks) : E[n] = E[n - 1] + Width(f, f.blocks[n])
  BY <1>3
<1> QED BY <1>1, <1>4, <1>5, Zenon DEF EndOf

\* What the assumption says of a file.
IsFile(f) ==
    /\ f.len \in Nat /\ Len(f.blocks) \in Nat
    /\ \A n \in 1..Len(f.blocks) : f.blocks[n].size \in Nat /\ f.blocks[n].captured \in Nat
    /\ f.format \in {"pcap", "pcapng"} => f.len <= EndOf(f, Len(f.blocks))

LinkLists == Seq(Capture!LinkTypes)

PacketLists == Seq([block : Nat, link : Capture!LinkTypes])

IsReader(s) ==
    s \in [at : Nat, block : Nat, got : 0..15, phase : {"magic", "header", "global"},
           interfaces : LinkLists, out : PacketLists, status : {"reading", "done", "failed"}]

LEMMA ReaderFields ==
    ASSUME NEW s, IsReader(s)
    PROVE  /\ \A at \in Nat : IsReader([s EXCEPT !.at = at])
           /\ \A block \in Nat : IsReader([s EXCEPT !.block = block])
           /\ \A got \in 0..15 : IsReader([s EXCEPT !.got = got])
           /\ \A phase \in {"magic", "header", "global"} : IsReader([s EXCEPT !.phase = phase])
<1>1. \A at \in Nat : IsReader([s EXCEPT !.at = at])
  BY Zenon DEF IsReader
<1>2. \A block \in Nat : IsReader([s EXCEPT !.block = block])
  BY Zenon DEF IsReader
<1>3. \A got \in 0..15 : IsReader([s EXCEPT !.got = got])
  BY Zenon DEF IsReader
<1>4. \A phase \in {"magic", "header", "global"} : IsReader([s EXCEPT !.phase = phase])
  BY Zenon DEF IsReader
<1> QED BY <1>1, <1>2, <1>3, <1>4, Zenon

\* Between two blocks the reader is where the first of them ends.
AtBlock(f, s) ==
    /\ f.format \in {"pcap", "pcapng"}
    /\ s.block \in 1..(Len(f.blocks) + 1)
    /\ s.at = EndOf(f, s.block - 1)
    /\ f.format = "pcap" => f.link \in Capture!LinkTypes

InFile(f, s) ==
    /\ IsReader(s)
    /\ s.phase = "header" => AtBlock(f, s)
    /\ s.phase # "header" => s.at = 0 /\ s.block = 1
    /\ s.phase = "global" => f.format = "pcap" /\ s.got = 0

LEMMA EndInFile ==
    ASSUME NEW f, NEW s, InFile(f, s)
    PROVE  InFile(f, Capture!Done(s)) /\ InFile(f, Capture!Failed(s))
<1>1. /\ IsReader(Capture!Done(s)) /\ Capture!Done(s).at = s.at /\ Capture!Done(s).block = s.block
      /\ Capture!Done(s).phase = s.phase /\ Capture!Done(s).got = s.got
  BY Zenon DEF InFile, IsReader, Capture!Done
<1>2. /\ IsReader(Capture!Failed(s)) /\ Capture!Failed(s).at = s.at /\ Capture!Failed(s).block = s.block
      /\ Capture!Failed(s).phase = s.phase /\ Capture!Failed(s).got = s.got
  BY Zenon DEF InFile, IsReader, Capture!Failed
<1> DEFINE a == Capture!Done(s)
           b == Capture!Failed(s)
<1> HIDE DEF a, b
<1>3. InFile(f, a)
  BY <1>1, Zenon DEF InFile, AtBlock, a
<1>4. InFile(f, b)
  BY <1>2, Zenon DEF InFile, AtBlock, b
<1> QED BY <1>3, <1>4, Zenon DEF a, b

\* A header that was read completely belongs to a block of the file, and the block behind it starts where it ends.
LEMMA BlockThere ==
    ASSUME NEW f, IsFile(f), NEW s, InFile(f, s), s.phase = "header", s.at < f.len
    PROVE  /\ s.block \in 1..Len(f.blocks)
           /\ s.block + 1 \in 1..(Len(f.blocks) + 1)
           /\ EndOf(f, s.block) = s.at + Width(f, f.blocks[s.block])
           /\ Width(f, f.blocks[s.block]) \in Nat
           /\ f.format \in {"pcap", "pcapng"}
<1>1. /\ s.at \in Nat /\ f.len \in Nat /\ Len(f.blocks) \in Nat /\ s.block \in 1..(Len(f.blocks) + 1)
      /\ s.at = EndOf(f, s.block - 1) /\ f.format \in {"pcap", "pcapng"}
      /\ f.len <= EndOf(f, Len(f.blocks))
  BY Zenon DEF InFile, IsReader, AtBlock, IsFile
<1>2. s.block # Len(f.blocks) + 1
  <2> SUFFICES ASSUME s.block = Len(f.blocks) + 1 PROVE FALSE
    BY Zenon
  <2>1. s.block - 1 = Len(f.blocks)
    BY <1>1
  <2>2. s.at = EndOf(f, Len(f.blocks))
    BY <1>1, <2>1, Zenon
  <2> QED BY <1>1, <2>2
<1>3. s.block \in 1..Len(f.blocks)
  BY <1>1, <1>2
<1>4. EndOf(f, s.block) = s.at + Width(f, f.blocks[s.block])
  BY <1>1, <1>3, EndOfNext, Zenon
<1>5. Width(f, f.blocks[s.block]) \in Nat
  BY <1>3 DEF Width, IsFile
<1> QED BY <1>1, <1>3, <1>4, <1>5, SMTT(30)

\* To pass a block whole leads to the next one.
LEMMA PassedInFile ==
    ASSUME NEW f, IsFile(f), NEW s, InFile(f, s), s.phase = "header", s.at < f.len,
           NEW size, size = Width(f, f.blocks[s.block])
    PROVE  /\ InFile(f, Capture!Passed(s, size))
           /\ \A interfaces \in LinkLists : InFile(f, [Capture!Passed(s, size) EXCEPT !.interfaces = interfaces])
           /\ \A out \in PacketLists : InFile(f, [Capture!Passed(s, size) EXCEPT !.out = out])
           /\ Capture!Passed(s, size).interfaces = s.interfaces
           /\ Capture!Passed(s, size).out = s.out
<1>1. /\ s.block \in 1..Len(f.blocks) /\ s.block + 1 \in 1..(Len(f.blocks) + 1)
      /\ EndOf(f, s.block) = s.at + size /\ size \in Nat
  BY BlockThere, Zenon
<1>2. IsReader(s) /\ AtBlock(f, s) /\ s.at \in Nat /\ s.block \in Nat
  BY Zenon DEF InFile, IsReader
<1> DEFINE at == s.at + size
           block == s.block + 1
           p == [s EXCEPT !.at = at, !.block = block, !.got = 0]
<1>3. at \in Nat /\ block \in Nat /\ block \in 1..(Len(f.blocks) + 1) /\ block - 1 = s.block
  <2>1. at \in Nat
    BY <1>1, <1>2
  <2>2. block \in Nat /\ block - 1 = s.block
    BY <1>2
  <2> QED BY <1>1, <2>1, <2>2, Zenon
<1>4. at = EndOf(f, block - 1)
  BY <1>1, <1>3, Zenon
<1>5. Capture!Passed(s, size) = p
  BY Zenon DEF Capture!Passed
<1> HIDE DEF at, block
<1>6. /\ IsReader(p) /\ p.at = at /\ p.block = block /\ p.phase = "header" /\ p.interfaces = s.interfaces
      /\ p.out = s.out
  <2>1. IsReader([s EXCEPT !.at = at])
    BY <1>2, <1>3, ReaderFields, Zenon
  <2>2. IsReader([s EXCEPT !.at = at, !.block = block])
    BY <1>3, <2>1, ReaderFields, Zenon
  <2>3. 0 \in 0..15
    OBVIOUS
  <2>4. IsReader(p)
    BY <2>2, <2>3, ReaderFields, Zenon
  <2> QED BY <1>2, <2>4, Zenon DEF IsReader
<1> HIDE DEF p
<1>7. AtBlock(f, p)
  BY <1>2, <1>3, <1>4, <1>6, Zenon DEF AtBlock
<1>8. InFile(f, p)
  BY <1>6, <1>7, Zenon DEF InFile
<1>9. ASSUME NEW interfaces \in LinkLists PROVE InFile(f, [p EXCEPT !.interfaces = interfaces])
  <2> DEFINE a == [p EXCEPT !.interfaces = interfaces]
  <2>1. IsReader(a) /\ a.at = p.at /\ a.block = p.block /\ a.phase = "header"
    BY <1>6, Zenon DEF IsReader
  <2> HIDE DEF a
  <2>2. InFile(f, a)
    BY <1>7, <2>1, Zenon DEF InFile, AtBlock
  <2> QED BY <2>2, Zenon DEF a
<1>10. ASSUME NEW out \in PacketLists PROVE InFile(f, [p EXCEPT !.out = out])
  <2> DEFINE a == [p EXCEPT !.out = out]
  <2>1. IsReader(a) /\ a.at = p.at /\ a.block = p.block /\ a.phase = "header"
    BY <1>6, Zenon DEF IsReader
  <2> HIDE DEF a
  <2>2. InFile(f, a)
    BY <1>7, <2>1, Zenon DEF InFile, AtBlock
  <2> QED BY <2>2, Zenon DEF a
<1> QED BY <1>5, <1>6, <1>8, <1>9, <1>10, Zenon

LEMMA PcapngInFile ==
    ASSUME NEW f, IsFile(f), NEW s, InFile(f, s), s.phase = "header", s.at < f.len, f.format = "pcapng"
    PROVE  InFile(f, Capture!ReadPcapngBlock(f, s))
<1> DEFINE b == f.blocks[s.block]
           link == IF b.link \in Capture!LinkTypes THEN b.link ELSE "ethernet"
           told == [block |-> s.block, link |-> Capture!LinkOf(f, s, b)]
           size == b.size
           passed == Capture!Passed(s, size)
<1>1. size = Width(f, f.blocks[s.block])
  BY Zenon DEF Width
<1>2. s.interfaces \in LinkLists /\ s.out \in PacketLists /\ s.block \in Nat
  BY Zenon DEF InFile, IsReader
<1>3. link \in Capture!LinkTypes
  BY Zenon DEF Capture!LinkTypes
<1>4. Capture!LinkOf(f, s, b) \in Capture!LinkTypes
  <2>1. CASE b.interface + 1 \in DOMAIN s.interfaces
    <3>1. b.interface + 1 \in 1..Len(s.interfaces)
      BY <1>2, <2>1 DEF LinkLists
    <3>2. s.interfaces[b.interface + 1] \in Capture!LinkTypes
      BY <1>2, <3>1, MemberOf, Zenon DEF LinkLists
    <3> QED BY <2>1, <3>2, Zenon DEF Capture!LinkOf
  <2>2. CASE ~(b.interface + 1 \in DOMAIN s.interfaces)
    <3>1. "ethernet" \in Capture!LinkTypes
      BY Zenon DEF Capture!LinkTypes
    <3> QED BY <2>2, <3>1, Zenon DEF Capture!LinkOf
  <2> QED BY <2>1, <2>2, Zenon
<1> HIDE DEF link
<1>5. told \in [block : Nat, link : Capture!LinkTypes]
  BY <1>2, <1>4, Zenon
<1> HIDE DEF told
<1>6. Append(s.interfaces, link) \in LinkLists
  BY <1>2, <1>3 DEF LinkLists
<1>7. Append(s.out, told) \in PacketLists
  <2> DEFINE R == [block : Nat, link : Capture!LinkTypes]
  <2>1. s.out \in Seq(R) /\ told \in R
    BY <1>2, <1>5, Zenon DEF PacketLists
  <2> HIDE DEF R
  <2>2. Append(s.out, told) \in Seq(R)
    BY <2>1
  <2> QED BY <2>2, Zenon DEF R, PacketLists
<1>8. /\ InFile(f, passed)
      /\ InFile(f, [passed EXCEPT !.interfaces = Append(s.interfaces, link)])
      /\ InFile(f, [passed EXCEPT !.out = Append(s.out, told)])
      /\ passed.interfaces = s.interfaces /\ passed.out = s.out
  <2> HIDE DEF size
  <2> QED BY <1>1, <1>6, <1>7, PassedInFile, ZenonT(30)
<1>9. InFile(f, Capture!Failed(s))
  BY EndInFile, Zenon
<1>10. Capture!OnBlock(f, s, b) =
         CASE b.type = "interface" -> [passed EXCEPT !.interfaces = Append(passed.interfaces, link)]
           [] b.type = "packet" -> IF b.size < Capture!MinPacketBlock \/ ~Capture!PacketFits(b) THEN Capture!Failed(s)
                                   ELSE [passed EXCEPT !.out = Append(passed.out, told)]
           [] OTHER -> passed
  BY Zenon DEF Capture!OnBlock, link, told
<1>11. Capture!ReadPcapngBlock(f, s) =
         IF b.big \/ b.size < Capture!MinBlock \/ s.at + b.size > f.len THEN Capture!Failed(s)
         ELSE Capture!OnBlock(f, s, b)
  BY Zenon DEF Capture!ReadPcapngBlock
<1> HIDE DEF b, passed
<1>12. InFile(f, Capture!OnBlock(f, s, b))
  <2>1. CASE b.type = "interface"
    BY <1>8, <1>10, <2>1, Zenon
  <2>2. CASE b.type = "packet"
    BY <1>8, <1>9, <1>10, <2>2, Zenon
  <2>3. CASE b.type # "interface" /\ b.type # "packet"
    BY <1>8, <1>10, <2>3, Zenon
  <2> QED BY <2>1, <2>2, <2>3, Zenon
<1> QED BY <1>9, <1>11, <1>12, Zenon

LEMMA PcapInFile ==
    ASSUME NEW f, IsFile(f), NEW s, InFile(f, s), s.phase = "header", s.at < f.len, f.format = "pcap"
    PROVE  InFile(f, Capture!ReadPcapPacket(f, s))
<1> DEFINE b == f.blocks[s.block]
           size == Capture!PcapHeader + b.captured
           told == [block |-> s.block, link |-> f.link]
           passed == Capture!Passed(s, size)
<1>1. size = Width(f, b)
  BY Zenon DEF Width, Capture!PcapHeader
<1>2. s.out \in PacketLists /\ s.block \in Nat /\ f.link \in Capture!LinkTypes
  BY Zenon DEF InFile, IsReader, AtBlock
<1>3. Append(s.out, told) \in PacketLists
  <2> DEFINE R == [block : Nat, link : Capture!LinkTypes]
  <2>1. s.out \in Seq(R) /\ told \in R
    BY <1>2, Zenon DEF PacketLists
  <2> HIDE DEF R, told
  <2>2. Append(s.out, told) \in Seq(R)
    BY <2>1
  <2> QED BY <2>2, Zenon DEF R, PacketLists
<1> HIDE DEF told
<1>5. InFile(f, [passed EXCEPT !.out = Append(s.out, told)]) /\ passed.out = s.out
  <2> HIDE DEF size
  <2> QED BY <1>1, <1>3, PassedInFile, ZenonT(30)
<1>6. InFile(f, Capture!Failed(s))
  BY EndInFile, Zenon
<1>7. Capture!ReadPcapPacket(f, s) =
        IF s.at + size > f.len THEN Capture!Failed(s) ELSE [passed EXCEPT !.out = Append(passed.out, told)]
  BY Zenon DEF Capture!ReadPcapPacket, told
<1> HIDE DEF size, passed
<1> QED BY <1>5, <1>6, <1>7, Zenon

LEMMA TurnInFile ==
    ASSUME NEW f, IsFile(f), NEW s, InFile(f, s), NEW t \in Capture!Turns(f, s)
    PROVE  InFile(f, t)
<1>0. IsReader(s) /\ s.at \in Nat /\ s.got \in 0..15 /\ f.len \in Nat
  BY Zenon DEF InFile, IsReader, IsFile
<1>1. InFile(f, Capture!Done(s)) /\ InFile(f, Capture!Failed(s))
  BY EndInFile, Zenon
<1>2. CASE s.phase = "global"
  <2> DEFINE at == Capture!GlobalHeader
             g == [s EXCEPT !.at = at, !.phase = "header"]
  <2>1. t = Capture!Failed(s) \/ (f.link \in Capture!LinkTypes /\ t = g)
    BY <1>2, Zenon DEF Capture!Turns, Capture!ReadPcapGlobalHeader
  <2>2. f.format = "pcap" /\ s.block = 1 /\ Len(f.blocks) \in Nat
    BY <1>2, Zenon DEF InFile, IsFile
  <2>3. at \in Nat /\ at = EndOf(f, 0)
    BY <2>2, EndOfNext, Zenon DEF Base, Capture!GlobalHeader
  <2> HIDE DEF at
  <2>4. IsReader(g) /\ g.at = at /\ g.phase = "header" /\ g.block = 1
    BY <1>0, <2>2, <2>3, Zenon DEF IsReader
  <2> HIDE DEF g
  <2>5. f.link \in Capture!LinkTypes => InFile(f, g)
    <3>1. 1 \in 1..(Len(f.blocks) + 1) /\ 1 - 1 = 0
      BY <2>2
    <3> QED BY <2>2, <2>3, <2>4, <3>1, Zenon DEF InFile, AtBlock
  <2> QED BY <1>1, <2>1, <2>5, Zenon
<1>3. CASE s.phase # "global" /\ Capture!Pieces(f, s) = {}
  <2>1. t = Capture!AtEnd(s)
    BY <1>3, Zenon DEF Capture!Turns, Capture!ReadExactOrEof
  <2> QED BY <1>1, <2>1, Zenon DEF Capture!AtEnd
<1>4. CASE s.phase # "global" /\ Capture!Pieces(f, s) # {}
  <2>1. PICK n \in Capture!Pieces(f, s) :
          t = IF s.got + n = Capture!HeaderSize(f, s) THEN Capture!HeaderRead(f, s) ELSE [s EXCEPT !.got = @ + n]
    BY <1>4, Zenon DEF Capture!Turns, Capture!ReadExactOrEof
  <2>2. Capture!HeaderSize(f, s) \in {4, 8, 16}
    BY Zenon DEF Capture!HeaderSize, Capture!PcapngHeader, Capture!PcapHeader
  <2>3. n \in Nat /\ n >= 1 /\ s.at + s.got + n <= f.len /\ s.got + n <= Capture!HeaderSize(f, s)
    BY <1>0, <2>2 DEF Capture!Pieces
  <2>4. s.at < f.len
    BY <1>0, <2>3
  <2>5. CASE s.got + n # Capture!HeaderSize(f, s)
    <3> DEFINE got == s.got + n
               g == [s EXCEPT !.got = got]
    <3>1. got \in 0..15
      BY <1>0, <2>2, <2>3, <2>5
    <3>2. t = g
      BY <2>1, <2>5, Zenon
    <3> HIDE DEF got
    <3>3. IsReader(g) /\ g.at = s.at /\ g.block = s.block /\ g.phase = s.phase
      BY <1>0, <3>1, Zenon DEF IsReader
    <3> HIDE DEF g
    <3>4. InFile(f, g)
      BY <1>4, <3>3, Zenon DEF InFile, AtBlock
    <3> QED BY <3>2, <3>4, Zenon
  <2>6. CASE s.got + n = Capture!HeaderSize(f, s)
    <3>1. t = Capture!HeaderRead(f, s)
      BY <2>1, <2>6, Zenon
    <3>2. CASE s.phase = "magic"
      <4> DEFINE a == [s EXCEPT !.got = 0, !.phase = "header"]
                 b == [s EXCEPT !.got = 0, !.phase = "global"]
      <4>1. t = Capture!OnMagic(f, s)
        BY <3>1, <3>2, Zenon DEF Capture!HeaderRead
      <4>2. \/ f.format = "pcapng" /\ t = a
            \/ f.format = "pcap" /\ t = b
            \/ t = Capture!Failed(s)
        BY <4>1, Zenon DEF Capture!OnMagic
      <4>3. s.at = 0 /\ s.block = 1 /\ Len(f.blocks) \in Nat
        BY <3>2, Zenon DEF InFile, IsFile
      <4>8. IsReader(a) /\ IsReader(b)
        <5>1. 0 \in 0..15
          OBVIOUS
        <5>2. IsReader([s EXCEPT !.got = 0])
          BY <1>0, <5>1, ReaderFields, Zenon
        <5> QED BY <5>2, ReaderFields, Zenon
      <4>4. IsReader(a) /\ a.at = 0 /\ a.block = 1 /\ a.phase = "header"
        BY <1>0, <4>3, <4>8, Zenon DEF IsReader
      <4>5. IsReader(b) /\ b.at = 0 /\ b.block = 1 /\ b.phase = "global" /\ b.got = 0
        BY <1>0, <4>3, <4>8, Zenon DEF IsReader
      <4> HIDE DEF a, b
      <4>6. f.format = "pcapng" => InFile(f, a)
        <5>1. f.format = "pcapng" => EndOf(f, 0) = 0
          BY <4>3, EndOfNext, Zenon DEF Base
        <5>2. 1 \in 1..(Len(f.blocks) + 1) /\ 1 - 1 = 0
          BY <4>3
        <5> QED BY <4>4, <5>1, <5>2, Zenon DEF InFile, AtBlock
      <4>7. f.format = "pcap" => InFile(f, b)
        BY <4>5, Zenon DEF InFile
      <4> QED BY <1>1, <4>2, <4>6, <4>7, Zenon
    <3>3. CASE s.phase = "header"
      <4>1. f.format = "pcapng" \/ f.format = "pcap"
        BY <3>3, Zenon DEF InFile, AtBlock
      <4>2. CASE f.format = "pcapng"
        <5>1. t = Capture!ReadPcapngBlock(f, s)
          BY <3>1, <3>3, <4>2, Zenon DEF Capture!HeaderRead
        <5> QED BY <2>4, <3>3, <4>2, <5>1, PcapngInFile, Zenon
      <4>3. CASE f.format = "pcap"
        <5>1. t = Capture!ReadPcapPacket(f, s)
          BY <3>1, <3>3, <4>3, Zenon DEF Capture!HeaderRead
        <5> QED BY <2>4, <3>3, <4>3, <5>1, PcapInFile, Zenon
      <4> QED BY <4>1, <4>2, <4>3, Zenon
    <3>4. s.phase = "magic" \/ s.phase = "header"
      BY <1>0, <1>4, Zenon DEF IsReader
    <3> QED BY <3>2, <3>3, <3>4, Zenon
  <2> QED BY <2>5, <2>6, Zenon
<1> QED BY <1>2, <1>3, <1>4, Zenon

(***************************************************************************)
(* The invariant of all loops.                                             *)
(***************************************************************************)
\* A loop over bytes reads inside its payload; the readers of names and of packets know where they are.
WalkKept(w, d, st, s) ==
    /\ d \in Seq(Octet) /\ st \in Nat
    /\ Inside(d, s)
    /\ w \in {"dns_name", "mdns_name"} => InName(d, st, s)
    /\ w = "l4" => InPacket(d, s)

LoopKept ==
    /\ walker \in Walking \cup {"capture"}
    /\ walker \in Walking => WalkKept(walker, input, start, state)
    /\ walker = "capture" => IsFile(input) /\ InFile(input, state)

LEMMA StartKept ==
    ASSUME NEW w \in Walking, NEW d \in Payloads[w], NEW st \in Offsets[w]
    PROVE  WalkKept(w, d, st, Start(st))
<1>1. d \in Seq(Octet) /\ st \in Nat /\ (w = "l4" => st = 0)
  BY InputsAssumption, Zenon DEF Octet
<1>2. Len(d) \in Nat /\ HopLimit \in Nat
  BY <1>1, HopLimitAssumption
<1> DEFINE s == Start(st)
<1>3. /\ IsState(s) /\ s.at = st /\ s.hops = 0 /\ s.jumped = FALSE /\ s.need = 0 /\ s.status = "reading"
  BY <1>1, Zenon DEF Start, IsState
<1> HIDE DEF s
<1>4. Inside(d, s)
  BY <1>2, <1>3 DEF Inside
<1>5. InName(d, st, s)
  BY <1>1, <1>2, <1>3, <1>4 DEF InName
<1>6. w = "l4" => InPacket(d, s)
  BY <1>1, <1>3, <1>4 DEF InPacket, ChainLimit
<1>7. WalkKept(w, d, st, s)
  BY <1>1, <1>4, <1>5, <1>6, Zenon DEF WalkKept
<1> QED BY <1>7, Zenon DEF s

LEMMA StepKept ==
    ASSUME NEW w \in Walking, NEW d, NEW st, NEW s, WalkKept(w, d, st, s), s.status = "reading"
    PROVE  WalkKept(w, d, st, WalkerStep(w, d, s))
<1> DEFINE t == WalkerStep(w, d, s)
<1>1. d \in Seq(Octet) /\ st \in Nat /\ Inside(d, s)
  BY Zenon DEF WalkKept
<1>2. w \in {"dns_name", "mdns_name", "plain_name", "txt", "av_pairs", "cotp", "dnp3", "dhcp", "lldp", "snmp",
             "goose", "sv", "mms", "l4"}
  BY Zenon DEF Walking, Names, Lists, Scanners
<1>3. CASE w = "dns_name"
  <2>1. t = DnsName(d, s)
    BY <1>3, Zenon DEF WalkerStep
  <2>2. InName(d, st, s)
    BY <1>3, Zenon DEF WalkKept
  <2>3. InName(d, st, DnsName(d, s))
    BY <1>1, <2>2, NamesInName, Zenon
  <2> QED BY <1>1, <1>3, <2>1, <2>3, Zenon DEF WalkKept, InName
<1>4. CASE w = "mdns_name"
  <2>1. t = MdnsName(d, s)
    BY <1>4, Zenon DEF WalkerStep
  <2>2. InName(d, st, s)
    BY <1>4, Zenon DEF WalkKept
  <2>3. InName(d, st, MdnsName(d, s))
    BY <1>1, <2>2, NamesInName, Zenon
  <2> QED BY <1>1, <1>4, <2>1, <2>3, Zenon DEF WalkKept, InName
<1>5. CASE w = "l4"
  <2>1. t = ExtractL4Payload(d, s)
    BY <1>5, Zenon DEF WalkerStep
  <2>2. InPacket(d, s)
    BY <1>5, Zenon DEF WalkKept
  <2>3. InPacket(d, ExtractL4Payload(d, s))
    BY <1>1, <2>2, L4InPacket, Zenon
  <2> QED BY <1>1, <1>5, <2>1, <2>3, Zenon DEF WalkKept, InPacket
<1>6. CASE w \notin {"dns_name", "mdns_name", "l4"}
  <2>1. Inside(d, t)
    <3>1. CASE w = "plain_name"
      BY <1>1, <3>1, PlainInside, Zenon DEF WalkerStep
    <3>2. CASE w = "txt"
      BY <1>1, <3>2, TxtInside, Zenon DEF WalkerStep
    <3>3. CASE w = "av_pairs"
      BY <1>1, <3>3, AvInside, Zenon DEF WalkerStep
    <3>4. CASE w = "cotp"
      BY <1>1, <3>4, CotpInside, Zenon DEF WalkerStep
    <3>5. CASE w = "dnp3"
      BY <1>1, <3>5, ObjectInside, Zenon DEF WalkerStep
    <3>6. CASE w = "dhcp"
      BY <1>1, <3>6, DhcpInside, Zenon DEF WalkerStep
    <3>7. CASE w = "lldp"
      BY <1>1, <3>7, LldpInside, Zenon DEF WalkerStep
    <3>8. CASE w = "snmp"
      BY <1>1, <3>8, VarBindInside, Zenon DEF WalkerStep
    <3>9. CASE w = "goose"
      BY <1>1, <3>9, ScanInside DEF WalkerStep, GooseField
    <3>10. CASE w = "sv"
      BY <1>1, <3>10, ScanInside DEF WalkerStep, SvField
    <3>11. CASE w = "mms"
      BY <1>1, <3>11, InvokeInside, Zenon DEF WalkerStep
    <3> QED BY <1>2, <1>6, <3>1, <3>2, <3>3, <3>4, <3>5, <3>6, <3>7, <3>8, <3>9, <3>10, <3>11, ZenonT(30)
  <2> HIDE DEF t
  <2> QED BY <1>1, <1>6, <2>1, Zenon DEF WalkKept, t
<1> QED BY <1>3, <1>4, <1>5, <1>6, Zenon

\* What LoopKept says of the state is enough for StaysInside.
LEMMA KeptIsInside == LoopKept => StaysInside
<1> SUFFICES ASSUME LoopKept PROVE StaysInside
  BY Zenon
<1>1. CASE walker \in Walking
  <2>1. WalkKept(walker, input, start, state) /\ walker # "capture"
    BY <1>1, Zenon DEF LoopKept, Walking, Names, Lists, Scanners
  <2>2. /\ state.status \in {"reading", "done", "failed"} /\ state.at \in Nat /\ state.need \in Nat
        /\ state.hops \in Nat /\ state.need <= Len(input)
    BY <2>1, Zenon DEF WalkKept, Inside, IsState
  <2>3. walker \in {"dns_name", "mdns_name"} =>
          state.hops <= HopLimit + 1 /\ (state.status = "done" => state.end \in (start + 1)..Len(input))
    BY <2>1, Zenon DEF WalkKept, InName
  <2>4. walker = "l4" => state.hops <= ChainLimit /\ (state.status = "done" => state.at \in 28..Len(input))
    BY <2>1, Zenon DEF WalkKept, InPacket
  <2> QED BY <1>1, <2>1, <2>2, <2>3, <2>4, Zenon DEF StaysInside, TypeOK, ReadsInside, EndsInside, LoopKept
<1>2. CASE walker = "capture"
  <2>1. walker \notin Walking /\ walker \notin {"dns_name", "mdns_name"} /\ walker # "l4"
    BY <1>2, Zenon DEF Walking, Names, Lists, Scanners
  <2>2. IsReader(state)
    BY <1>2, Zenon DEF LoopKept, InFile
  <2>3. /\ state.status \in {"reading", "done", "failed"} /\ state.at \in Nat /\ state.got \in 0..15
        /\ state.out \in PacketLists
    BY <2>2, Zenon DEF IsReader
  <2>4. \A n \in DOMAIN state.out : state.out[n].link \in Capture!LinkTypes
    <3> TAKE n \in DOMAIN state.out
    <3> DEFINE R == [block : Nat, link : Capture!LinkTypes]
    <3>1. state.out \in Seq(R)
      BY <2>3, Zenon DEF PacketLists
    <3> HIDE DEF R
    <3>2. n \in 1..Len(state.out)
      BY <3>1
    <3>3. state.out[n] \in R
      BY <3>1, <3>2, MemberOf, Zenon
    <3> QED BY <3>3, Zenon DEF R
  <2> QED BY <1>2, <2>1, <2>3, <2>4, Zenon DEF StaysInside, TypeOK, ReadsInside, EndsInside
<1> QED BY <1>1, <1>2, Zenon DEF LoopKept

\* The invariant holds when a loop starts, and each turn keeps it.
LEMMA LoopsKept == Spec => []LoopKept
<1>1. Init => LoopKept
  <2>1. InitWalk => LoopKept
    <3> SUFFICES ASSUME InitWalk PROVE LoopKept
      BY Zenon
    <3>1. walker \in Walking /\ walker # "capture" /\ state = Start(start)
      BY Zenon DEF InitWalk, Walking, Names, Lists, Scanners
    <3>2. WalkKept(walker, input, start, Start(start))
      BY StartKept, Zenon DEF InitWalk
    <3> QED BY <3>1, <3>2, Zenon DEF LoopKept
  <2>2. InitCapture => LoopKept
    <3> SUFFICES ASSUME InitCapture PROVE LoopKept
      BY Zenon
    <3>1. walker = "capture" /\ walker \notin Walking /\ state = Capture!Start /\ input \in Captures
      BY Zenon DEF InitCapture, Walking, Names, Lists, Scanners
    <3>2. IsFile(input)
      BY <3>1, InputsAssumption, Zenon DEF IsFile
    <3> DEFINE s == Capture!Start
    <3>3. <<>> \in LinkLists /\ <<>> \in PacketLists
      BY DEF LinkLists, PacketLists
    <3>4. IsReader(s) /\ s.at = 0 /\ s.block = 1 /\ s.phase = "magic"
      BY <3>3 DEF IsReader, Capture!Start
    <3> HIDE DEF s
    <3>5. InFile(input, s)
      BY <3>4, Zenon DEF InFile
    <3> QED BY <3>1, <3>2, <3>5, Zenon DEF LoopKept, s
  <2> QED BY <2>1, <2>2, Zenon DEF Init
<1>2. LoopKept /\ [Turn]_vars => LoopKept'
  <2> SUFFICES ASSUME LoopKept, [Turn]_vars PROVE LoopKept'
    BY Zenon
  <2>1. CASE Walk
    <3>1. walker \in Walking /\ walker # "capture" /\ state.status = "reading"
      BY <2>1, Zenon DEF Walk, Walking, Names, Lists, Scanners
    <3>2. walker' = walker /\ input' = input /\ start' = start /\ state' = WalkerStep(walker, input, state)
      BY <2>1, Zenon DEF Walk
    <3>3. WalkKept(walker, input, start, state)
      BY <3>1, Zenon DEF LoopKept
    <3>4. WalkKept(walker, input, start, WalkerStep(walker, input, state))
      BY <3>1, <3>3, StepKept, Zenon
    <3> QED BY <3>1, <3>2, <3>4, Zenon DEF LoopKept
  <2>2. CASE ReadCapture
    <3>1. walker = "capture" /\ walker \notin Walking
      BY <2>2, Zenon DEF ReadCapture, Walking, Names, Lists, Scanners
    <3>2. walker' = walker /\ input' = input /\ state' \in Capture!Turns(input, state)
      BY <2>2, Zenon DEF ReadCapture
    <3>3. IsFile(input) /\ InFile(input, state)
      BY <3>1, Zenon DEF LoopKept
    <3>4. InFile(input, state')
      BY <3>2, <3>3, TurnInFile, Zenon
    <3> QED BY <3>1, <3>2, <3>3, <3>4, Zenon DEF LoopKept
  <2>3. CASE UNCHANGED vars
    BY <2>3, Zenon DEF LoopKept, vars
  <2> QED BY <2>1, <2>2, <2>3, Zenon DEF Turn
<1> QED BY <1>1, <1>2, PTL DEF Spec

\* StaysInside holds for every payload of bytes, every offset and every capture file: whatever lengths,
\* offsets and pointers the input gives, no loop of the decoders indexes or slices beyond it (which would
\* stop the program), the readers of names and of packets keep their limits, and the offset that
\* parse_dns_name or extract_l4_payload gives their caller lies inside the input.
THEOREM LoopsStayInside == Spec => []StaysInside
<1>1. LoopKept => StaysInside
  BY KeptIsInside, Zenon
<1> QED BY <1>1, LoopsKept, PTL, SMTT(30)

\* Where the capture reader looks for the header of a block or of a packet, one starts: it is behind all the
\* blocks it has passed, however the bytes of the headers came in, and every packet it handed on has a link
\* type that the engine knows.
AtHeaders ==
    walker = "capture" =>
        /\ state.phase = "header" => /\ state.block \in 1..(Len(input.blocks) + 1)
                                    /\ state.at = EndOf(input, state.block - 1)
        /\ \A n \in DOMAIN state.out : state.out[n].link \in Capture!LinkTypes

\* read_pcapng_block and read_pcap_packet never lose their place between the blocks of a file, whatever their
\* sizes and wherever the file ends.
THEOREM ReaderKeepsPlace == Spec => []AtHeaders
<1>1. LoopKept => AtHeaders
  <2> SUFFICES ASSUME LoopKept, walker = "capture" PROVE AtHeaders
    BY Zenon DEF AtHeaders
  <2>1. InFile(input, state)
    BY Zenon DEF LoopKept
  <2>2. state.phase = "header" => AtBlock(input, state)
    BY <2>1, Zenon DEF InFile
  <2>3. StaysInside
    BY KeptIsInside, Zenon
  <2> QED BY <2>2, <2>3, Zenon DEF AtBlock, AtHeaders, StaysInside, TypeOK
<1> QED BY <1>1, LoopsKept, PTL, SMTT(30)

=============================================================================
