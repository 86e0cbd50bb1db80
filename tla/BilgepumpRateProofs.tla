------------------------ MODULE BilgepumpRateProofs -------------------------
(***************************************************************************)
(* Proofs about the layer-2 monitor's rate alerts: a window holds, in the  *)
(* order of their arrival, all the entries that it counts, but for those   *)
(* that a later entry or an eviction has shown to be too old.              *)
(***************************************************************************)
EXTENDS BilgepumpProofs

\* Entry n of S is out of the window: a later one lies more than w after it,
\* or, for a flap tracker, a later one was the last and is past its TTL.
Gone(s, S, w, flap, now, n) ==
    \/ \E k \in S : k > n /\ s[n].at + w < s[k].at
    \/ flap /\ \E l \in S : l >= n /\ s[l].at + DefaultTtl <= now

\* Window q counts the entries S of the log s.
Windowed(s, q, S, w, flap, now) ==
    \E ix \in [1 .. Len(q) -> S] :
        /\ \A i, j \in 1 .. Len(q) : i < j => ix[i] < ix[j]
        /\ \A i \in 1 .. Len(q) : /\ q[i].ts = s[ix[i]].at
                                  /\ flap => q[i].ip = s[ix[i]].in.ip
        /\ \A n \in S : (\A i \in 1 .. Len(q) : ix[i] # n) => Gone(s, S, w, flap, now, n)

LEMMA StaysGone ==
    ASSUME NEW s \in Seq(Entry), NEW e \in Entry, NEW S \in SUBSET DOMAIN s,
           NEW T, S \subseteq T, NEW w \in Nat, NEW flap,
           NEW now \in Nat, NEW later \in Nat, now <= later, NEW n \in S,
           Gone(s, S, w, flap, now, n)
    PROVE  Gone(Append(s, e), T, w, flap, later, n)
<1>1. \A k \in DOMAIN s : Append(s, e)[k] = s[k] /\ s[k].at \in Nat
  BY Grows, EntryTimes, ZenonT(30)
<1>2. \A k \in S : k \in DOMAIN s /\ k \in T
  BY Zenon
<1>3. ASSUME NEW k \in S, k > n, s[n].at + w < s[k].at
      PROVE  Gone(Append(s, e), T, w, flap, later, n)
  BY <1>1, <1>2, <1>3, Zenon DEF Gone
<1>4. ASSUME flap, NEW l \in S, l >= n, s[l].at + DefaultTtl <= now
      PROVE  Gone(Append(s, e), T, w, flap, later, n)
  <2>1. Append(s, e)[l].at + DefaultTtl <= later /\ l \in T
    BY <1>1, <1>2, <1>4, Naturals
  <2> QED BY <1>4, <2>1, Zenon DEF Gone
<1> QED BY <1>3, <1>4, Zenon DEF Gone

\* An entry that the window does not count leaves it as it is.
LEMMA OtherEntry ==
    ASSUME NEW s \in Seq(Entry), NEW e \in Entry, NEW S \in SUBSET DOMAIN s,
           NEW q, Len(q) \in Nat, NEW w \in Nat, NEW flap,
           NEW now \in Nat, NEW later \in Nat, now <= later,
           Windowed(s, q, S, w, flap, now)
    PROVE  Windowed(Append(s, e), q, S, w, flap, later)
<1>1. PICK ix \in [1 .. Len(q) -> S] :
        /\ \A i, j \in 1 .. Len(q) : i < j => ix[i] < ix[j]
        /\ \A i \in 1 .. Len(q) : /\ q[i].ts = s[ix[i]].at
                                  /\ flap => q[i].ip = s[ix[i]].in.ip
        /\ \A n \in S : (\A i \in 1 .. Len(q) : ix[i] # n) => Gone(s, S, w, flap, now, n)
  BY Zenon DEF Windowed
<1>2. \A n \in DOMAIN s : Append(s, e)[n] = s[n]
  BY Grows, Zenon
<1>3. \A i \in 1 .. Len(q) : ix[i] \in DOMAIN s
  BY Zenon
<1>4. \A n \in S : Gone(s, S, w, flap, now, n) => Gone(Append(s, e), S, w, flap, later, n)
  BY StaysGone, Zenon
<1>5. \A i \in 1 .. Len(q) : /\ q[i].ts = Append(s, e)[ix[i]].at
                             /\ flap => q[i].ip = Append(s, e)[ix[i]].in.ip
  BY <1>1, <1>2, <1>3, Zenon
<1> QED BY <1>1, <1>4, <1>5, Zenon DEF Windowed

\* RateCounter::record and MacFlapTracker::record keep the window in step.
LEMMA RecordedEntry ==
    ASSUME NEW s \in Seq(Entry), NEW e \in Entry, NEW S \in SUBSET DOMAIN s,
           NEW X, \A x \in X : x.ts \in Nat, NEW q \in Seq(X), NEW x \in X,
           NEW w \in Nat, NEW flap, x.ts = e.at, flap => x.ip = e.in.ip,
           NEW now \in Nat, NEW later \in Nat, now <= later,
           Windowed(s, q, S, w, flap, now)
    PROVE  /\ Windowed(Append(s, e), Record(q, x, w), S \cup {Len(s) + 1}, w, flap, later)
           /\ Record(q, x, w) \in Seq(X) /\ Record(q, x, w) # <<>>
           /\ Record(q, x, w)[1].ts >= e.at - w
<1> DEFINE a == Append(s, e)
           b == Append(q, x)
           T == S \cup {Len(s) + 1}
<1>1. PICK ix \in [1 .. Len(q) -> S] :
        /\ \A i, j \in 1 .. Len(q) : i < j => ix[i] < ix[j]
        /\ \A i \in 1 .. Len(q) : /\ q[i].ts = s[ix[i]].at
                                  /\ flap => q[i].ip = s[ix[i]].in.ip
        /\ \A n \in S : (\A i \in 1 .. Len(q) : ix[i] # n) => Gone(s, S, w, flap, now, n)
  BY Zenon DEF Windowed
<1>2. /\ Len(s) \in Nat /\ DOMAIN s = 1 .. Len(s)
      /\ a[Len(s) + 1] = e /\ \A n \in DOMAIN s : a[n] = s[n]
  BY Grows, Zenon
<1>3. /\ b \in Seq(X) /\ Len(q) \in Nat /\ Len(b) = Len(q) + 1 /\ DOMAIN b = 1 .. Len(b)
      /\ b[Len(b)] = x /\ \A i \in 1 .. Len(q) : b[i] = q[i]
  OBVIOUS
<1> DEFINE jx == [i \in 1 .. Len(b) |-> IF i = Len(b) THEN Len(s) + 1 ELSE ix[i]]
<1>4. jx \in [1 .. Len(b) -> T] /\ jx[Len(b)] = Len(s) + 1 /\ \A i \in 1 .. Len(q) : jx[i] = ix[i]
  BY <1>3, SMTT(30)
<1> HIDE DEF a, b, T, jx
<1>5. \A i \in 1 .. Len(q) : ix[i] \in 1 .. Len(s) /\ ix[i] \in S
  BY <1>2, Zenon
<1>6. \A i, j \in 1 .. Len(b) : i < j => jx[i] < jx[j]
  <2> SUFFICES ASSUME NEW i \in 1 .. Len(b), NEW j \in 1 .. Len(b), i < j
               PROVE  jx[i] < jx[j]
    BY Zenon
  <2>1. i \in 1 .. Len(q) /\ jx[i] = ix[i]
    BY <1>3, <1>4
  <2>2. CASE j = Len(b)
    BY <1>2, <1>4, <1>5, <2>1, <2>2, SMTT(30)
  <2>3. CASE j \in 1 .. Len(q)
    BY <1>1, <1>4, <2>1, <2>3, Zenon
  <2>4. j = Len(b) \/ j \in 1 .. Len(q)
    BY <1>3
  <2> QED BY <2>2, <2>3, <2>4, Zenon
<1>7. \A i \in 1 .. Len(b) : b[i].ts = a[jx[i]].at /\ (flap => b[i].ip = a[jx[i]].in.ip)
  <2> SUFFICES ASSUME NEW i \in 1 .. Len(b)
               PROVE  b[i].ts = a[jx[i]].at /\ (flap => b[i].ip = a[jx[i]].in.ip)
    BY Zenon
  <2>1. CASE i = Len(b)
    BY <1>2, <1>3, <1>4, <2>1, Zenon
  <2>2. CASE i \in 1 .. Len(q)
    <3>1. jx[i] = ix[i] /\ b[i] = q[i] /\ a[ix[i]] = s[ix[i]]
      BY <1>2, <1>3, <1>4, <1>5, <2>2, Zenon
    <3> QED BY <1>1, <2>2, <3>1, Zenon
  <2> QED BY <1>3, <2>1, <2>2, SMTT(30)
<1>8. e.at \in Nat /\ x.ts \in Nat /\ x.ts - w \in Int /\ \A y \in X : y.ts \in Int
  OBVIOUS
<1>9. PICK k \in 1 .. Len(b) + 1 :
            /\ Prune(b, x.ts - w) = SubSeq(b, k, Len(b))
            /\ \A i \in 1 .. k - 1 : b[i].ts < x.ts - w
            /\ k \in DOMAIN b => b[k].ts >= x.ts - w
  BY <1>3, <1>8, PruneCut, Zenon
<1>10. k \in 1 .. Len(b)
  <2> SUFFICES ASSUME k = Len(b) + 1 PROVE FALSE
    BY <1>3
  <2>1. Len(b) \in 1 .. k - 1
    BY <1>3
  <2>2. x.ts < x.ts - w
    BY <1>3, <1>9, <2>1, Zenon
  <2> QED BY <1>8, <2>2
<1> DEFINE p == SubSeq(b, k, Len(b))
           px == [i \in 1 .. Len(b) - k + 1 |-> jx[i + k - 1]]
<1>11. /\ p \in Seq(X) /\ Len(p) = Len(b) - k + 1
       /\ \A i \in 1 .. Len(p) : p[i] = b[i + k - 1] /\ i + k - 1 \in 1 .. Len(b)
  <2>1. \A i \in k .. Len(b) : b[i] \in X
    BY <1>3, <1>10
  <2>2. p \in Seq(X) /\ Len(p) = Len(b) - k + 1 /\ \A i \in 1 .. Len(b) - k + 1 : p[i] = b[k + i - 1]
    BY <1>3, <1>10, <2>1, SubSeqProperties, SMTT(30)
  <2> QED BY <1>3, <1>10, <2>2, SMTT(30)
<1>12. Record(q, x, w) = p
  BY <1>9, Zenon DEF Record, b
<1> HIDE DEF p
<1>13. /\ px \in [1 .. Len(p) -> T]
       /\ \A i \in 1 .. Len(p) : px[i] = jx[i + k - 1]
  BY <1>4, <1>11, Zenon
<1> HIDE DEF px
<1>14. \A i, j \in 1 .. Len(p) : i < j => px[i] < px[j]
  <2> SUFFICES ASSUME NEW i \in 1 .. Len(p), NEW j \in 1 .. Len(p), i < j
               PROVE  px[i] < px[j]
    BY Zenon
  <2>1. i + k - 1 \in 1 .. Len(b) /\ j + k - 1 \in 1 .. Len(b) /\ i + k - 1 < j + k - 1
    BY <1>10, <1>11, SMTT(30)
  <2> QED BY <1>6, <1>13, <2>1, Zenon
<1>15. \A i \in 1 .. Len(p) : p[i].ts = a[px[i]].at /\ (flap => p[i].ip = a[px[i]].in.ip)
  BY <1>7, <1>11, <1>13, Zenon
<1>16. ASSUME NEW n \in T, \A i \in 1 .. Len(p) : px[i] # n
       PROVE  Gone(a, T, w, flap, later, n)
  <2>1. CASE \E i \in 1 .. Len(b) : jx[i] = n
    <3>1. PICK i \in 1 .. Len(b) : jx[i] = n
      BY <2>1, Zenon
    <3>2. i \in 1 .. k - 1
      <4> SUFFICES ASSUME i >= k PROVE FALSE
        BY <1>10, <1>3, SMTT(30)
      <4>1. i - k + 1 \in 1 .. Len(p) /\ (i - k + 1) + k - 1 = i
        BY <1>3, <1>10, <1>11, SMTT(30)
      <4>2. px[i - k + 1] = jx[i]
        BY <1>13, <4>1, Zenon
      <4> QED BY <1>16, <3>1, <4>1, <4>2, Zenon
    <3>3. b[i].ts < x.ts - w /\ i \in 1 .. Len(q)
      BY <1>3, <1>9, <1>10, <3>2
    <3>4. n \in 1 .. Len(s) /\ a[n].at = b[i].ts
      BY <1>4, <1>5, <1>7, <3>1, <3>3, Zenon
    <3>5. b[i].ts \in Nat
      BY <1>3, <3>1, SMTT(30)
    <3>6. Len(s) + 1 \in T /\ Len(s) + 1 > n /\ a[n].at + w < a[Len(s) + 1].at
      BY <1>2, <1>8, <3>3, <3>4, <3>5, SMTT(30) DEF T
    <3> QED BY <3>6, Zenon DEF Gone
  <2>2. CASE ~ \E i \in 1 .. Len(b) : jx[i] = n
    <3>1. Len(b) \in 1 .. Len(b) /\ \A i \in 1 .. Len(q) : i \in 1 .. Len(b)
      BY <1>3
    <3>2. n \in S /\ \A i \in 1 .. Len(q) : ix[i] # n
      BY <1>4, <2>2, <3>1, Zenon DEF T
    <3>3. Gone(s, S, w, flap, now, n) /\ S \subseteq T
      BY <1>1, <3>2, Zenon DEF T
    <3> QED BY <3>2, <3>3, StaysGone, Zenon DEF a
  <2> QED BY <2>1, <2>2, Zenon
<1>17. Windowed(a, p, T, w, flap, later)
  BY <1>13, <1>14, <1>15, <1>16, Zenon DEF Windowed
<1>18. Len(p) >= 1 /\ p[1].ts >= e.at - w
  BY <1>3, <1>9, <1>10, <1>11, SMTT(30)
<1>19. p # <<>>
  BY <1>18
<1> QED BY <1>11, <1>12, <1>17, <1>18, <1>19, Zenon DEF a, T

\* evict_expired may drop a tracker whose last entry is past its TTL.
LEMMA DroppedTracker ==
    ASSUME NEW s \in Seq(Entry), NEW S \in SUBSET DOMAIN s, NEW X, NEW q \in Seq(X),
           NEW w \in Nat, NEW now \in Nat, NEW later \in Nat,
           now <= later, Len(q) # 0, q[Len(q)].ts + DefaultTtl <= later,
           Windowed(s, q, S, w, TRUE, now), NEW r, r = <<>>
    PROVE  Windowed(s, r, S, w, TRUE, later)
<1>1. PICK ix \in [1 .. Len(q) -> S] :
        /\ \A i, j \in 1 .. Len(q) : i < j => ix[i] < ix[j]
        /\ \A i \in 1 .. Len(q) : q[i].ts = s[ix[i]].at
        /\ \A n \in S : (\A i \in 1 .. Len(q) : ix[i] # n) => Gone(s, S, w, TRUE, now, n)
  BY Zenon DEF Windowed
<1>2. Len(q) \in Nat /\ Len(q) \in 1 .. Len(q)
  OBVIOUS
<1>3. ASSUME NEW n \in S
      PROVE  Gone(s, S, w, TRUE, later, n)
  <2>1. CASE \E i \in 1 .. Len(q) : ix[i] = n
    <3>1. PICK i \in 1 .. Len(q) : ix[i] = n
      BY <2>1, Zenon
    <3>2. ix[Len(q)] \in S /\ ix[Len(q)] \in Nat /\ n \in Nat
      BY <1>2
    <3>3. ix[Len(q)] >= n
      <4>1. CASE i = Len(q)
        BY <3>1, <3>2, <4>1, SMTT(30)
      <4>2. CASE i < Len(q)
        BY <1>1, <1>2, <3>1, <3>2, <4>2, SMTT(30)
      <4> QED BY <1>2, <4>1, <4>2
    <3>4. s[ix[Len(q)]].at \in Nat
      BY <3>2, EntryTimes, Zenon
    <3>5. s[ix[Len(q)]].at + DefaultTtl <= later
      <4>1. q[Len(q)].ts = s[ix[Len(q)]].at
        BY <1>1, <1>2, Zenon
      <4> QED BY <4>1, Zenon
    <3> QED BY <3>2, <3>3, <3>5, Zenon DEF Gone
  <2>2. CASE ~ \E i \in 1 .. Len(q) : ix[i] = n
    <3>1. Gone(s, S, w, TRUE, now, n)
      BY <1>1, <2>2, Zenon
    <3>2. \A l \in S : s[l].at \in Nat
      BY EntryTimes, Zenon
    <3> QED BY <3>1, <3>2, Naturals DEF Gone
  <2> QED BY <2>1, <2>2, Zenon
<1>4. <<>> \in [1 .. Len(r) -> S] /\ 1 .. Len(r) = {}
  OBVIOUS
<1> QED BY <1>3, <1>4, Zenon DEF Windowed

\* A later clock changes nothing for a window that stays.
LEMMA LaterClock ==
    ASSUME NEW s \in Seq(Entry), NEW S \in SUBSET DOMAIN s, NEW q, NEW w, NEW flap,
           NEW now \in Nat, NEW later \in Nat, now <= later,
           Windowed(s, q, S, w, flap, now)
    PROVE  Windowed(s, q, S, w, flap, later)
<1>1. \A n \in S : s[n].at \in Nat
  BY EntryTimes, Zenon
<1>2. \A n \in S : Gone(s, S, w, flap, now, n) => Gone(s, S, w, flap, later, n)
  BY <1>1, Naturals DEF Gone
<1> QED BY <1>2, Zenon DEF Windowed

\* The arithmetic of a window w that ends at time t when timestamps lag.
LEMMA BeforeTheWindow ==
    ASSUME NEW old \in Int, NEW new \in Int, NEW t \in Int, NEW w \in Int, NEW lag \in Int,
           old + w < new, new - t <= lag
    PROVE  ~(old >= t - (w - lag))
OBVIOUS

LEMMA PastItsTtl ==
    ASSUME NEW old \in Int, NEW last \in Int, NEW t \in Int, NEW w \in Int, NEW lag \in Int,
           NEW now \in Int, last + DefaultTtl <= now, old - last <= lag, t + Skew >= now,
           w + Skew < DefaultTtl
    PROVE  ~(old >= t - (w - lag))
BY Naturals

\* Window q holds every entry that lies in it by the lag or more, and none
\* that misses it by more.
Holds(s, q, S, w, flap, lag) ==
    \E Q \in SUBSET S :
        /\ IsFiniteSet(Q) /\ Cardinality(Q) = Len(q)
        /\ flap => {q[i].ip : i \in DOMAIN q} = {s[j].in.ip : j \in Q}
        /\ \A j \in S : s[j].at >= s[Len(s)].at - (w - lag) => j \in Q
        /\ \A j \in Q : s[j].at >= s[Len(s)].at - (w + lag)

\* It does when its last entry has just been recorded.
LEMMA WindowIsExact ==
    ASSUME NEW s \in Seq(Entry), NEW S \in SUBSET DOMAIN s, NEW X, NEW q \in Seq(X),
           NEW w \in Nat, NEW flap, NEW now \in Nat, NEW lag \in Int,
           Windowed(s, q, S, w, flap, now), q # <<>>,
           Len(s) \in S, q[1].ts >= s[Len(s)].at - w,
           s[Len(s)].at + Skew >= now, flap => w + Skew < DefaultTtl,
           \A i, j \in DOMAIN s : i <= j => s[i].at - s[j].at <= lag
    PROVE  Holds(s, q, S, w, flap, lag)
<1>1. PICK ix \in [1 .. Len(q) -> S] :
        /\ \A i, j \in 1 .. Len(q) : i < j => ix[i] < ix[j]
        /\ \A i \in 1 .. Len(q) : /\ q[i].ts = s[ix[i]].at
                                  /\ flap => q[i].ip = s[ix[i]].in.ip
        /\ \A n \in S : (\A i \in 1 .. Len(q) : ix[i] # n) => Gone(s, S, w, flap, now, n)
  BY Zenon DEF Windowed
<1>2. Len(q) \in Nat /\ 1 \in 1 .. Len(q) /\ DOMAIN q = 1 .. Len(q)
  BY EmptySeq
<1>3. /\ \A n \in S : s[n].at \in Nat /\ n \in Nat /\ n \in DOMAIN s /\ n <= Len(s)
      /\ s[Len(s)].at \in Nat /\ Len(s) \in DOMAIN s /\ Len(s) \in Nat
  BY EntryTimes
<1> DEFINE Q == {ix[i] : i \in 1 .. Len(q)}
<1>4. Q \in SUBSET S
  BY Zenon
<1>5. IsFiniteSet(Q) /\ Cardinality(Q) = Len(q)
  <2>1. \A i, j \in 1 .. Len(q) : ix[i] = ix[j] => i = j
    <3> SUFFICES ASSUME NEW i \in 1 .. Len(q), NEW j \in 1 .. Len(q), ix[i] = ix[j], i # j
                 PROVE  FALSE
      BY Zenon
    <3>1. ix[i] \in Nat /\ ix[j] \in Nat /\ (i < j \/ j < i)
      BY <1>3
    <3> QED BY <1>1, <3>1, SMTT(30)
  <2>2. Onto(ix, 1 .. Len(q), Q)
    BY Zenon DEF Onto
  <2>3. IsFiniteSet(1 .. Len(q)) /\ Cardinality(1 .. Len(q)) = Len(q)
    <3>1. 1 \in Int /\ Len(q) \in Int /\ ~(1 > Len(q)) /\ Len(q) - 1 + 1 = Len(q)
      BY <1>2
    <3>2. /\ IsFiniteSet(1 .. Len(q))
          /\ Cardinality(1 .. Len(q)) = IF 1 > Len(q) THEN 0 ELSE Len(q) - 1 + 1
      BY <3>1, FS_Interval, Zenon
    <3> QED BY <3>1, <3>2, Zenon
  <2> DEFINE I == 1 .. Len(q)
  <2>4. Onto(ix, I, Q) /\ IsFiniteSet(I)
    BY <2>2, <2>3, Zenon
  <2>5. Cardinality(I) = Len(q) /\ \A i, j \in I : ix[i] = ix[j] => i = j
    BY <2>1, <2>3, Zenon
  <2> HIDE DEF Q, I
  <2>6. /\ IsFiniteSet(Q)
        /\ Cardinality(Q) = Cardinality(I) <=> \A i, j \in I : ix[i] = ix[j] => i = j
    BY <2>4, FS_Onto, Zenon
  <2> QED BY <2>5, <2>6, Zenon
<1>6. flap => {q[i].ip : i \in DOMAIN q} = {s[j].in.ip : j \in Q}
  <2> SUFFICES ASSUME flap
               PROVE  {q[i].ip : i \in 1 .. Len(q)} = {s[j].in.ip : j \in Q}
    BY <1>2, Zenon
  <2>1. \A i \in 1 .. Len(q) : q[i].ip = s[ix[i]].in.ip /\ ix[i] \in Q
    BY <1>1, Zenon
  <2>2. \A j \in Q : \E i \in 1 .. Len(q) : j = ix[i]
    BY Zenon
  <2> HIDE DEF Q
  <2>3. ASSUME NEW i \in 1 .. Len(q) PROVE q[i].ip \in {s[j].in.ip : j \in Q}
    BY <2>1, <2>3, Zenon
  <2>4. ASSUME NEW j \in Q PROVE s[j].in.ip \in {q[i].ip : i \in 1 .. Len(q)}
    BY <2>1, <2>2, <2>4, Zenon
  <2> QED BY <2>3, <2>4, Zenon
<1>7. ASSUME NEW j \in S, s[j].at >= s[Len(s)].at - (w - lag)
      PROVE  j \in Q
  <2> SUFFICES ASSUME j \notin Q PROVE FALSE
    BY Zenon
  <2>1. Gone(s, S, w, flap, now, j)
    BY <1>1, Zenon
  <2>2. ASSUME NEW k \in S, k > j, s[j].at + w < s[k].at PROVE FALSE
    <3>1. s[k].at - s[Len(s)].at <= lag
      BY <1>3, Zenon
    <3>2. s[j].at \in Int /\ s[k].at \in Int /\ s[Len(s)].at \in Int /\ w \in Int
      BY <1>3, SMTT(30)
    <3> QED BY <1>7, <2>2, <3>1, <3>2, BeforeTheWindow, Zenon
  <2>3. ASSUME flap, NEW l \in S, l >= j, s[l].at + DefaultTtl <= now PROVE FALSE
    <3>1. s[j].at - s[l].at <= lag
      BY <1>3, <2>3, Zenon
    <3>2. s[j].at \in Int /\ s[l].at \in Int /\ s[Len(s)].at \in Int /\ w \in Int /\ now \in Int
      BY <1>3, SMTT(30)
    <3> QED BY <1>7, <2>3, <3>1, <3>2, PastItsTtl, Zenon
  <2> QED BY <2>1, <2>2, <2>3, Zenon DEF Gone
<1>8. ASSUME NEW j \in Q PROVE s[j].at >= s[Len(s)].at - (w + lag)
  <2>1. PICK i \in 1 .. Len(q) : j = ix[i]
    BY Zenon
  <2>2. ix[1] \in S /\ ix[i] \in S /\ ix[1] <= ix[i]
    <3>1. CASE i = 1
      <4>1. ix[1] \in S /\ ix[1] \in Nat
        BY <1>2, <1>3, ZenonT(30)
      <4> QED BY <3>1, <4>1, SMTT(30)
    <3>2. CASE 1 < i
      BY <1>1, <1>2, <1>3, <3>2, SMTT(30)
    <3> QED BY <1>2, <3>1, <3>2, SMTT(30)
  <2>3. s[ix[1]].at - s[ix[i]].at <= lag
    BY <1>3, <2>2, ZenonT(30)
  <2>4. s[ix[1]].at >= s[Len(s)].at - w
    BY <1>1, <1>2, Zenon
  <2>5. s[ix[1]].at \in Int /\ s[ix[i]].at \in Int /\ s[Len(s)].at \in Int /\ w \in Int
    BY <1>3, <2>2, SMTT(30)
  <2>6. s[ix[i]].at >= s[Len(s)].at - (w + lag)
    <3> DEFINE first == s[ix[1]].at
               other == s[ix[i]].at
               t     == s[Len(s)].at
    <3> HIDE DEF first, other, t
    <3>1. first \in Int /\ other \in Int /\ t \in Int /\ w \in Int /\ lag \in Int
          /\ first - other <= lag /\ first >= t - w
      BY <2>3, <2>4, <2>5, Zenon DEF first, other, t
    <3>2. other >= t - (w + lag)
      BY <3>1
    <3> QED BY <3>2, Zenon DEF other, t
  <2> QED BY <2>1, <2>6, Zenon
<1> HIDE DEF Q
<1> QED BY <1>4, <1>5, <1>6, <1>7, <1>8, Zenon DEF Holds

\* The steps back among the entries up to k, and the largest.
StepsBack(s, k) == UNION {{s[i].at - s[j].at : j \in i .. k} : i \in 1 .. k}

LagIn(s, k) == CHOOSE n \in StepsBack(s, k) : \A m \in StepsBack(s, k) : m <= n

LEMMA LagBounds ==
    ASSUME NEW s \in Seq(Entry), NEW k \in DOMAIN s
    PROVE  /\ LagIn(s, k) \in Int
           /\ \A i, j \in 1 .. k : i <= j => s[i].at - s[j].at <= LagIn(s, k)
<1>1. k \in Nat /\ k >= 1 /\ \A i \in 1 .. k : s[i].at \in 0 .. MaxTime
  <2>1. k \in Nat /\ k >= 1 /\ \A i \in 1 .. k : s[i] \in Entry
    OBVIOUS
  <2> QED BY <2>1, Zenon DEF Entry, Time
<1> DEFINE B == StepsBack(s, k)
           T == {n \in Nat : MaxTime - n \in B}
<1>2. \A i, j \in 1 .. k : i <= j => s[i].at - s[j].at \in B
  BY <1>1, SMTT(30) DEF StepsBack
<1>3. ASSUME NEW b \in B PROVE b \in Int /\ b <= MaxTime
  <2>1. PICK i \in 1 .. k, j \in 1 .. k : b = s[i].at - s[j].at
    <3>1. PICK i \in 1 .. k : b \in {s[i].at - s[j].at : j \in i .. k}
      BY Zenon DEF StepsBack
    <3>2. PICK j \in i .. k : b = s[i].at - s[j].at
      BY <3>1, Zenon
    <3> QED BY <1>1, <3>2
  <2>2. s[i].at \in 0 .. MaxTime /\ s[j].at \in 0 .. MaxTime
    BY <1>1, Zenon
  <2> QED BY <2>1, <2>2, Naturals, SMTT(30)
<1> HIDE DEF B
<1>4. T \in SUBSET Nat /\ T # {}
  <2>1. s[k].at - s[k].at \in B
    BY <1>1, <1>2
  <2>2. s[k].at - s[k].at \in Int /\ s[k].at - s[k].at <= MaxTime
    BY <1>3, <2>1, Zenon
  <2> DEFINE b == s[k].at - s[k].at
  <2> HIDE DEF b
  <2>3. MaxTime - b \in Nat /\ MaxTime - (MaxTime - b) = b /\ b \in B
    BY <2>1, <2>2, Naturals DEF b
  <2>4. MaxTime - b \in T
    BY <2>3, Zenon
  <2> QED BY <2>4, Zenon
<1>5. PICK x \in T : \A y \in T : x <= y
  BY <1>4, LeastNat, Zenon
<1>6. MaxTime - x \in B
  BY <1>5, Zenon
<1>7. ASSUME NEW m \in B PROVE m <= MaxTime - x
  <2>1. MaxTime - m \in Nat /\ MaxTime - (MaxTime - m) = m /\ m \in Int
    BY <1>3, Naturals
  <2>2. MaxTime - m \in T
    BY <2>1, Zenon
  <2>3. x <= MaxTime - m /\ x \in Nat
    BY <1>5, <2>2, Zenon
  <2> QED BY <2>1, <2>3, Naturals
<1>8. LagIn(s, k) \in B /\ \A m \in B : m <= LagIn(s, k)
  <2>1. \E n \in B : \A m \in B : m <= n
    BY <1>6, <1>7, Zenon
  <2>2. LagIn(s, k) = CHOOSE n \in B : \A m \in B : m <= n
    BY Zenon DEF LagIn, B
  <2> QED BY <2>1, <2>2, Zenon
<1> QED BY <1>2, <1>3, <1>8, Zenon

\* Alert `name` of entry k is raised when the count reaches thr: S holds the entries
\* counted, `over` is what is counted of them.
Over(s, W, flap) == IF flap THEN {s[j].in.ip : j \in W} ELSE W

Within(s, S, k, w) == {j \in 1 .. k : j \in S /\ s[j].at >= s[k].at - w}

Raised(s, name, k, S, w, thr, flap) ==
    /\ Cardinality(Over(s, Within(s, S, k, w - LagIn(s, k)), flap)) >= thr => name \in s[k].alerts
    /\ name \in s[k].alerts => Cardinality(Over(s, Within(s, S, k, w + LagIn(s, k)), flap)) >= thr

LEMMA OverGrows ==
    ASSUME NEW s, NEW B, IsFiniteSet(B), NEW A \in SUBSET B, NEW flap \in BOOLEAN
    PROVE  /\ Cardinality(Over(s, A, flap)) \in Nat
           /\ Cardinality(Over(s, B, flap)) \in Nat
           /\ Cardinality(Over(s, A, flap)) <= Cardinality(Over(s, B, flap))
<1>1. IsFiniteSet(Over(s, B, flap))
  <2>1. CASE ~flap
    BY <2>1, Zenon DEF Over
  <2>2. CASE flap
    <3> DEFINE g == [j \in B |-> s[j].in.ip]
               T == {s[j].in.ip : j \in B}
    <3>1. Onto(g, B, T)
      BY Zenon DEF Onto
    <3>2. IsFiniteSet(T)
      <4> HIDE DEF g, T
      <4> QED BY <3>1, FS_Onto, Zenon
    <3> QED BY <2>2, <3>2, Zenon DEF Over
  <2> QED BY <2>1, <2>2, Zenon
<1>2. Over(s, A, flap) \subseteq Over(s, B, flap)
  BY Zenon DEF Over
<1>3. /\ IsFiniteSet(Over(s, A, flap))
      /\ Cardinality(Over(s, A, flap)) <= Cardinality(Over(s, B, flap))
  BY <1>1, <1>2, FS_Subset, Zenon
<1> QED BY <1>1, <1>3, FS_CardinalityType, Zenon

\* The alert that the latest entry raises by its window is the one due.
LEMMA LatestRaised ==
    ASSUME NEW s \in Seq(Entry), NEW S \in SUBSET DOMAIN s, NEW X, NEW q \in Seq(X),
           NEW w \in Nat, NEW flap \in BOOLEAN, NEW now \in Nat, NEW thr \in Nat, NEW name,
           Windowed(s, q, S, w, flap, now), q # <<>>,
           Len(s) \in S, q[1].ts >= s[Len(s)].at - w,
           s[Len(s)].at + Skew >= now, flap => w + Skew < DefaultTtl,
           name \in s[Len(s)].alerts <=> IF flap THEN DistinctIps(q) >= thr ELSE Len(q) >= thr
    PROVE  Raised(s, name, Len(s), S, w, thr, flap)
<1> DEFINE k == Len(s)
           lag == LagIn(s, k)
           In == Within(s, S, k, w - lag)
           Out == Within(s, S, k, w + lag)
<1>1. k \in DOMAIN s /\ DOMAIN s = 1 .. k /\ k \in Nat
  OBVIOUS
<1>2. lag \in Int /\ \A i, j \in DOMAIN s : i <= j => s[i].at - s[j].at <= lag
  BY <1>1, LagBounds, Zenon
<1> HIDE DEF lag
<1>3. PICK Q \in SUBSET S :
        /\ IsFiniteSet(Q) /\ Cardinality(Q) = Len(q)
        /\ flap => {q[i].ip : i \in DOMAIN q} = {s[j].in.ip : j \in Q}
        /\ \A j \in S : s[j].at >= s[Len(s)].at - (w - lag) => j \in Q
        /\ \A j \in Q : s[j].at >= s[Len(s)].at - (w + lag)
  <2>1. Holds(s, q, S, w, flap, lag)
    BY <1>2, WindowIsExact, Zenon
  <2> QED BY <2>1, Zenon DEF Holds
<1>4. In \subseteq Q /\ Q \subseteq Out /\ Out \subseteq 1 .. k
  BY <1>1, <1>3, Zenon DEF Within
<1>5. IsFiniteSet(Out)
  <2>1. IsFiniteSet(1 .. k)
    <3>1. 1 \in Int /\ k \in Int
      BY <1>1
    <3> QED BY <3>1, FS_Interval, Zenon
  <2> QED BY <1>4, <2>1, FS_Subset, Zenon
<1>6. Cardinality(Over(s, Q, flap)) = IF flap THEN DistinctIps(q) ELSE Len(q)
  BY <1>3, Zenon DEF Over, DistinctIps
<1> HIDE DEF k, In, Out
<1>7. /\ Cardinality(Over(s, In, flap)) \in Nat /\ Cardinality(Over(s, Q, flap)) \in Nat
      /\ Cardinality(Over(s, In, flap)) <= Cardinality(Over(s, Q, flap))
  BY <1>3, <1>4, OverGrows, Zenon
<1>8. /\ Cardinality(Over(s, Out, flap)) \in Nat
      /\ Cardinality(Over(s, Q, flap)) <= Cardinality(Over(s, Out, flap))
  BY <1>4, <1>5, OverGrows, Zenon
<1>9. name \in s[k].alerts <=> Cardinality(Over(s, Q, flap)) >= thr
  BY <1>6, Zenon DEF k
<1>10. /\ Cardinality(Over(s, In, flap)) >= thr => name \in s[k].alerts
       /\ name \in s[k].alerts => Cardinality(Over(s, Out, flap)) >= thr
  <2> DEFINE a == Cardinality(Over(s, In, flap))
             b == Cardinality(Over(s, Q, flap))
             c == Cardinality(Over(s, Out, flap))
  <2> HIDE DEF a, b, c
  <2>1. a \in Nat /\ b \in Nat /\ c \in Nat /\ a <= b /\ b <= c
    BY <1>7, <1>8, Zenon DEF a, b, c
  <2>2. a >= thr => b >= thr
    BY <2>1
  <2>3. b >= thr => c >= thr
    BY <2>1
  <2> QED BY <1>9, <2>2, <2>3, Zenon DEF a, b, c
<1> QED BY <1>10, Zenon DEF Raised, k, lag, In, Out

\* What was raised by an earlier entry does not depend on later ones.
LEMMA RaisedIsSettled ==
    ASSUME NEW s \in Seq(Entry), NEW e \in Entry, NEW k \in DOMAIN s,
           NEW S, NEW T, \A j \in 1 .. k : j \in S <=> j \in T,
           NEW name, NEW w, NEW thr, NEW flap
    PROVE  Raised(Append(s, e), name, k, T, w, thr, flap) <=> Raised(s, name, k, S, w, thr, flap)
<1> DEFINE a == Append(s, e)
<1>1. k \in 1 .. k /\ k \in Nat /\ \A i \in 1 .. k : a[i] = s[i]
  BY Grows
<1> HIDE DEF a
<1>2. StepsBack(a, k) = StepsBack(s, k)
  <2>1. ASSUME NEW i \in 1 .. k
        PROVE  {a[i].at - a[j].at : j \in i .. k} = {s[i].at - s[j].at : j \in i .. k}
    <3>1. \A j \in i .. k : a[j] = s[j] /\ a[i] = s[i]
      BY <1>1
    <3> QED BY <3>1, Zenon
  <2>2. {{a[i].at - a[j].at : j \in i .. k} : i \in 1 .. k}
          = {{s[i].at - s[j].at : j \in i .. k} : i \in 1 .. k}
    <3> DEFINE A(i) == {a[i].at - a[j].at : j \in i .. k}
               B(i) == {s[i].at - s[j].at : j \in i .. k}
    <3>1. \A i \in 1 .. k : A(i) = B(i)
      BY <2>1, Zenon
    <3> HIDE DEF A, B
    <3>2. {A(i) : i \in 1 .. k} = {B(i) : i \in 1 .. k}
      BY <3>1, Zenon
    <3> QED BY <3>2, Zenon DEF A, B
  <2> QED BY <2>2, Zenon DEF StepsBack
<1>3. LagIn(a, k) = LagIn(s, k)
  BY <1>2, Zenon DEF LagIn
<1>4. ASSUME NEW v
      PROVE  Over(a, Within(a, T, k, v), flap) = Over(s, Within(s, S, k, v), flap)
  <2>1. Within(a, T, k, v) = Within(s, S, k, v)
    BY <1>1, Zenon DEF Within
  <2>2. Within(s, S, k, v) \subseteq 1 .. k
    BY Zenon DEF Within
  <2>3. {a[j].in.ip : j \in Within(s, S, k, v)} = {s[j].in.ip : j \in Within(s, S, k, v)}
    BY <1>1, <2>2, Zenon
  <2> QED BY <2>1, <2>3, Zenon DEF Over
<1>5. Raised(a, name, k, T, w, thr, flap) <=> Raised(s, name, k, S, w, thr, flap)
  BY <1>1, <1>3, <1>4, Zenon DEF Raised
<1> QED BY <1>5, Zenon DEF a

\* The entries that the three kinds of counters count.
RepliesOf(s, m) == {j \in DOMAIN s : s[j].op = "arp" /\ Counted(s[j].in) /\ s[j].in.mac = m}

FramesOf(s, m) == {j \in DOMAIN s : s[j].op = "arp" /\ s[j].in.src = m}

ClientsIn(s) == {j \in DOMAIN s : s[j].op = "dhcp" /\ s[j].in.kind = "client"}

\* The alerts of one entry of a log: raised at the threshold, as the code does.
FloodIn(s, k) ==
    IF "arp" \in Checks /\ s[k].op = "arp" /\ Counted(s[k].in)
    THEN Raised(s, "flood", k, RepliesOf(s, s[k].in.mac), FloodWindow, FloodThreshold, FALSE)
    ELSE "flood" \notin s[k].alerts

FlapIn(s, k) ==
    IF "mac" \in Checks /\ s[k].op = "arp"
    THEN Raised(s, "flap", k, FramesOf(s, s[k].in.src), FlapWindow, FlapThreshold, TRUE)
    ELSE "flap" \notin s[k].alerts

StarvationIn(s, k) ==
    IF "dhcp" \in Checks /\ s[k].op = "dhcp" /\ s[k].in.kind = "client"
    THEN Raised(s, "starvation", k, ClientsIn(s), StarvationWindow, StarvationThreshold, FALSE)
    ELSE "starvation" \notin s[k].alerts

RatesIn(s, k) == FloodIn(s, k) /\ FlapIn(s, k) /\ StarvationIn(s, k)

LEMMA RatesAreSettled ==
    ASSUME NEW s \in Seq(Entry), NEW e \in Entry, NEW k \in DOMAIN s, RatesIn(s, k)
    PROVE  RatesIn(Append(s, e), k)
<1> DEFINE a == Append(s, e)
<1>1. /\ a[k] = s[k] /\ \A j \in 1 .. k : a[j] = s[j] /\ j \in DOMAIN s /\ j \in DOMAIN a
  BY Grows
<1> HIDE DEF a
<1>2. ASSUME NEW m
      PROVE  \A j \in 1 .. k : /\ j \in RepliesOf(s, m) <=> j \in RepliesOf(a, m)
                               /\ j \in FramesOf(s, m) <=> j \in FramesOf(a, m)
                               /\ j \in ClientsIn(s) <=> j \in ClientsIn(a)
  BY <1>1, Zenon DEF RepliesOf, FramesOf, ClientsIn
<1>3. Raised(a, "flood", k, RepliesOf(a, s[k].in.mac), FloodWindow, FloodThreshold, FALSE)
        <=> Raised(s, "flood", k, RepliesOf(s, s[k].in.mac), FloodWindow, FloodThreshold, FALSE)
  <2>1. \A j \in 1 .. k : j \in RepliesOf(s, s[k].in.mac) <=> j \in RepliesOf(a, s[k].in.mac)
    BY <1>2, Zenon
  <2> DEFINE S == RepliesOf(s, s[k].in.mac)
             T == RepliesOf(a, s[k].in.mac)
  <2> HIDE DEF S, T
  <2>2. \A j \in 1 .. k : j \in S <=> j \in T
    BY <2>1, Zenon DEF S, T
  <2>3. Raised(Append(s, e), "flood", k, T, FloodWindow, FloodThreshold, FALSE)
          <=> Raised(s, "flood", k, S, FloodWindow, FloodThreshold, FALSE)
    BY <2>2, RaisedIsSettled, Zenon
  <2> QED BY <2>3, Zenon DEF a, S, T
<1>4. Raised(a, "flap", k, FramesOf(a, s[k].in.src), FlapWindow, FlapThreshold, TRUE)
        <=> Raised(s, "flap", k, FramesOf(s, s[k].in.src), FlapWindow, FlapThreshold, TRUE)
  <2>1. \A j \in 1 .. k : j \in FramesOf(s, s[k].in.src) <=> j \in FramesOf(a, s[k].in.src)
    BY <1>2, Zenon
  <2> DEFINE S == FramesOf(s, s[k].in.src)
             T == FramesOf(a, s[k].in.src)
  <2> HIDE DEF S, T
  <2>2. \A j \in 1 .. k : j \in S <=> j \in T
    BY <2>1, Zenon DEF S, T
  <2>3. Raised(Append(s, e), "flap", k, T, FlapWindow, FlapThreshold, TRUE)
          <=> Raised(s, "flap", k, S, FlapWindow, FlapThreshold, TRUE)
    BY <2>2, RaisedIsSettled, Zenon
  <2> QED BY <2>3, Zenon DEF a, S, T
<1>5. Raised(a, "starvation", k, ClientsIn(a), StarvationWindow, StarvationThreshold, FALSE)
        <=> Raised(s, "starvation", k, ClientsIn(s), StarvationWindow, StarvationThreshold, FALSE)
  BY <1>2, RaisedIsSettled, Zenon DEF a
<1>6. RatesIn(a, k)
  BY <1>1, <1>3, <1>4, <1>5, Zenon DEF RatesIn, FloodIn, FlapIn, StarvationIn
<1> QED BY <1>6, Zenon DEF a

\* An entry that is recorded raises its alert exactly when it is due.
LEMMA RecordRaises ==
    ASSUME NEW s \in Seq(Entry), NEW e \in Entry, NEW S \in SUBSET DOMAIN s,
           NEW X, \A x \in X : x.ts \in Nat, NEW q \in Seq(X), NEW x \in X,
           NEW w \in Nat, NEW flap \in BOOLEAN, x.ts = e.at, flap => x.ip = e.in.ip,
           NEW now \in Nat, NEW later \in Nat, now <= later,
           Windowed(s, q, S, w, flap, now),
           NEW thr \in Nat, NEW name, e.at + Skew >= later, flap => w + Skew < DefaultTtl,
           name \in e.alerts <=> IF flap THEN DistinctIps(Record(q, x, w)) >= thr
                                         ELSE Len(Record(q, x, w)) >= thr
    PROVE  Raised(Append(s, e), name, Len(s) + 1, S \cup {Len(s) + 1}, w, thr, flap)
<1> DEFINE a == Append(s, e)
           r == Record(q, x, w)
           T == S \cup {Len(s) + 1}
<1>1. /\ Windowed(a, r, T, w, flap, later)
      /\ r \in Seq(X) /\ r # <<>> /\ r[1].ts >= e.at - w
  BY RecordedEntry, Zenon
<1>2. a \in Seq(Entry) /\ Len(a) = Len(s) + 1 /\ a[Len(a)] = e /\ T \in SUBSET DOMAIN a /\ Len(a) \in T
  BY Grows
<1>3. name \in e.alerts <=> IF flap THEN DistinctIps(r) >= thr ELSE Len(r) >= thr
  BY Zenon
<1> HIDE DEF a, r, T
<1>4. Raised(a, name, Len(a), T, w, thr, flap)
  <2>1. /\ r[1].ts >= a[Len(a)].at - w /\ a[Len(a)].at + Skew >= later
        /\ name \in a[Len(a)].alerts <=> IF flap THEN DistinctIps(r) >= thr ELSE Len(r) >= thr
    BY <1>1, <1>2, <1>3, Zenon
  <2> QED BY <1>1, <1>2, <2>1, LatestRaised, Zenon
<1> QED BY <1>2, <1>4, Zenon DEF a, T

LEMMA CountedGrow ==
    ASSUME NEW s \in Seq(Entry), NEW e \in Entry, NEW m
    PROVE  /\ RepliesOf(s, m) \in SUBSET DOMAIN s /\ FramesOf(s, m) \in SUBSET DOMAIN s
           /\ ClientsIn(s) \in SUBSET DOMAIN s
           /\ RepliesOf(Append(s, e), m) = IF e.op = "arp" /\ Counted(e.in) /\ e.in.mac = m
                                           THEN RepliesOf(s, m) \cup {Len(s) + 1}
                                           ELSE RepliesOf(s, m)
           /\ FramesOf(Append(s, e), m) = IF e.op = "arp" /\ e.in.src = m
                                          THEN FramesOf(s, m) \cup {Len(s) + 1}
                                          ELSE FramesOf(s, m)
           /\ ClientsIn(Append(s, e)) = IF e.op = "dhcp" /\ e.in.kind = "client"
                                        THEN ClientsIn(s) \cup {Len(s) + 1}
                                        ELSE ClientsIn(s)
<1> DEFINE a == Append(s, e)
<1>1. /\ DOMAIN a = DOMAIN s \cup {Len(s) + 1} /\ a[Len(s) + 1] = e
      /\ \A n \in DOMAIN s : a[n] = s[n] /\ n # Len(s) + 1
  BY Grows
<1> HIDE DEF a
<1>2. RepliesOf(a, m) = IF e.op = "arp" /\ Counted(e.in) /\ e.in.mac = m
                        THEN RepliesOf(s, m) \cup {Len(s) + 1} ELSE RepliesOf(s, m)
  BY <1>1, Zenon DEF RepliesOf
<1>3. FramesOf(a, m) = IF e.op = "arp" /\ e.in.src = m
                       THEN FramesOf(s, m) \cup {Len(s) + 1} ELSE FramesOf(s, m)
  BY <1>1, Zenon DEF FramesOf
<1>4. ClientsIn(a) = IF e.op = "dhcp" /\ e.in.kind = "client"
                     THEN ClientsIn(s) \cup {Len(s) + 1} ELSE ClientsIn(s)
  BY <1>1, Zenon DEF ClientsIn
<1> QED BY <1>2, <1>3, <1>4, Zenon DEF a, RepliesOf, FramesOf, ClientsIn

\* Every counter and tracker is in step with the log.
RepliesInStep(s, table, now) ==
    "arp" \in Checks =>
        \A m \in Mac : Windowed(s, WindowOf(table, m), RepliesOf(s, m), FloodWindow, FALSE, now)

FlapsInStep(s, table, now) ==
    "mac" \in Checks =>
        \A m \in Mac : Windowed(s, WindowOf(table, m), FramesOf(s, m), FlapWindow, TRUE, now)

RequestsInStep(s, q, now) ==
    "dhcp" \in Checks => Windowed(s, q, ClientsIn(s), StarvationWindow, FALSE, now)

\* The inductive invariant behind RateAlertsDue.
RInv ==
    /\ TypeOK /\ log \in Seq(Entry)
    /\ RepliesInStep(log, replies, clock)
    /\ FlapsInStep(log, flaps, clock)
    /\ RequestsInStep(log, requests, clock)
    /\ \A k \in DOMAIN log : RatesIn(log, k)

\* A tracker outlives its window, however far timestamps step back.
WindowsNested == FlapWindow + Skew < DefaultTtl

\* Observing an entry keeps the counters in step, whether or not it concerns
\* them.
LEMMA RepliesStep ==
    ASSUME NEW s \in Seq(Entry), NEW e \in Entry,
           NEW now \in Nat, NEW later \in Nat, now <= later,
           NEW table, NEW after, RepliesInStep(s, table, now),
           \A m \in Mac : WindowOf(table, m) \in Seq(Reply),
           \A m \in Mac : WindowOf(after, m) =
              IF e.op = "arp" /\ Counted(e.in) /\ e.in.mac = m
              THEN Record(WindowOf(table, m), [ts |-> e.at], FloodWindow)
              ELSE WindowOf(table, m)
    PROVE  RepliesInStep(Append(s, e), after, later)
<1> SUFFICES ASSUME "arp" \in Checks, NEW m \in Mac
             PROVE  Windowed(Append(s, e), WindowOf(after, m), RepliesOf(Append(s, e), m),
                             FloodWindow, FALSE, later)
  BY Zenon DEF RepliesInStep
<1> DEFINE S == RepliesOf(s, m)
           q == WindowOf(table, m)
           x == [ts |-> e.at]
<1>1. Windowed(s, q, S, FloodWindow, FALSE, now) /\ S \in SUBSET DOMAIN s /\ q \in Seq(Reply)
  BY CountedGrow, Zenon DEF RepliesInStep
<1>2. FloodWindow \in Nat /\ x \in Reply /\ x.ts = e.at /\ \A y \in Reply : y.ts \in Nat
  BY Naturals, Zenon DEF Reply, Entry
<1>3. CASE e.op = "arp" /\ Counted(e.in) /\ e.in.mac = m
  <2>1. /\ WindowOf(after, m) = Record(q, x, FloodWindow)
        /\ RepliesOf(Append(s, e), m) = S \cup {Len(s) + 1}
    BY <1>3, CountedGrow, Zenon
  <2> HIDE DEF S, q, x
  <2>2. Windowed(Append(s, e), Record(q, x, FloodWindow), S \cup {Len(s) + 1}, FloodWindow, FALSE, later)
    BY <1>1, <1>2, RecordedEntry, Zenon
  <2> QED BY <2>1, <2>2, Zenon
<1>4. CASE ~(e.op = "arp" /\ Counted(e.in) /\ e.in.mac = m)
  <2>1. WindowOf(after, m) = q /\ RepliesOf(Append(s, e), m) = S /\ Len(q) \in Nat
    BY <1>1, <1>4, CountedGrow
  <2> HIDE DEF S, q
  <2>2. Windowed(Append(s, e), q, S, FloodWindow, FALSE, later)
    BY <1>1, <1>2, <2>1, OtherEntry, Zenon
  <2> QED BY <2>1, <2>2, Zenon
<1> QED BY <1>3, <1>4, Zenon

LEMMA FlapsStep ==
    ASSUME NEW s \in Seq(Entry), NEW e \in Entry, e.op = "arp" => e.in \in ArpFrame,
           NEW now \in Nat, NEW later \in Nat, now <= later,
           NEW table, NEW after, FlapsInStep(s, table, now),
           \A m \in Mac : WindowOf(table, m) \in Seq(Sighting),
           \A m \in Mac : WindowOf(after, m) =
              IF e.op = "arp" /\ e.in.src = m
              THEN Record(WindowOf(table, m), [ts |-> e.at, ip |-> e.in.ip], FlapWindow)
              ELSE WindowOf(table, m)
    PROVE  FlapsInStep(Append(s, e), after, later)
<1> SUFFICES ASSUME "mac" \in Checks, NEW m \in Mac
             PROVE  Windowed(Append(s, e), WindowOf(after, m), FramesOf(Append(s, e), m),
                             FlapWindow, TRUE, later)
  BY Zenon DEF FlapsInStep
<1> DEFINE S == FramesOf(s, m)
           q == WindowOf(table, m)
           x == [ts |-> e.at, ip |-> e.in.ip]
<1>1. Windowed(s, q, S, FlapWindow, TRUE, now) /\ S \in SUBSET DOMAIN s /\ q \in Seq(Sighting)
  BY CountedGrow, Zenon DEF FlapsInStep
<1>2. FlapWindow \in Nat /\ x.ts = e.at /\ x.ip = e.in.ip /\ \A y \in Sighting : y.ts \in Nat
  BY Naturals, Zenon DEF Sighting
<1>3. CASE e.op = "arp" /\ e.in.src = m
  <2>1. /\ WindowOf(after, m) = Record(q, x, FlapWindow)
        /\ FramesOf(Append(s, e), m) = S \cup {Len(s) + 1}
    BY <1>3, CountedGrow, Zenon
  <2>2. x \in Sighting
    BY <1>3, InputAssumption, Zenon DEF Sighting, Entry
  <2> HIDE DEF S, q, x
  <2>3. Windowed(Append(s, e), Record(q, x, FlapWindow), S \cup {Len(s) + 1}, FlapWindow, TRUE, later)
    BY <1>1, <1>2, <2>2, RecordedEntry, Zenon
  <2> QED BY <2>1, <2>3, Zenon
<1>4. CASE ~(e.op = "arp" /\ e.in.src = m)
  <2>1. WindowOf(after, m) = q /\ FramesOf(Append(s, e), m) = S /\ Len(q) \in Nat
    BY <1>1, <1>4, CountedGrow
  <2> HIDE DEF S, q
  <2>2. Windowed(Append(s, e), q, S, FlapWindow, TRUE, later)
    BY <1>1, <1>2, <2>1, OtherEntry, Zenon
  <2> QED BY <2>1, <2>2, ZenonT(30)
<1> QED BY <1>3, <1>4, Zenon

LEMMA RequestsStep ==
    ASSUME NEW s \in Seq(Entry), NEW e \in Entry,
           NEW now \in Nat, NEW later \in Nat, now <= later,
           NEW q \in Seq(Reply), NEW after, RequestsInStep(s, q, now),
           after = IF e.op = "dhcp" /\ e.in.kind = "client"
                   THEN Record(q, [ts |-> e.at], StarvationWindow) ELSE q
    PROVE  RequestsInStep(Append(s, e), after, later)
<1> SUFFICES ASSUME "dhcp" \in Checks
             PROVE  Windowed(Append(s, e), after, ClientsIn(Append(s, e)),
                             StarvationWindow, FALSE, later)
  BY Zenon DEF RequestsInStep
<1> DEFINE S == ClientsIn(s)
           x == [ts |-> e.at]
<1>1. Windowed(s, q, S, StarvationWindow, FALSE, now) /\ S \in SUBSET DOMAIN s
  BY CountedGrow, Zenon DEF RequestsInStep
<1>2. StarvationWindow \in Nat /\ x \in Reply /\ x.ts = e.at /\ \A y \in Reply : y.ts \in Nat
  BY Naturals, Zenon DEF Reply, Entry
<1>3. CASE e.op = "dhcp" /\ e.in.kind = "client"
  <2>1. /\ after = Record(q, x, StarvationWindow)
        /\ ClientsIn(Append(s, e)) = S \cup {Len(s) + 1}
    BY <1>3, CountedGrow, Zenon
  <2> HIDE DEF S, x
  <2>2. Windowed(Append(s, e), Record(q, x, StarvationWindow), S \cup {Len(s) + 1},
                 StarvationWindow, FALSE, later)
    BY <1>1, <1>2, RecordedEntry, Zenon
  <2> QED BY <2>1, <2>2, Zenon
<1>4. CASE ~(e.op = "dhcp" /\ e.in.kind = "client")
  <2>1. after = q /\ ClientsIn(Append(s, e)) = S /\ Len(q) \in Nat
    BY <1>4, CountedGrow, SMTT(30)
  <2> HIDE DEF S
  <2>2. Windowed(Append(s, e), q, S, StarvationWindow, FALSE, later)
    BY <1>1, <1>2, <2>1, OtherEntry, Zenon
  <2> QED BY <2>1, <2>2, ZenonT(30)
<1> QED BY <1>3, <1>4, Zenon

\* An entry keeps the alerts exact when its own are.
LEMMA RatesStep ==
    ASSUME NEW s \in Seq(Entry), NEW e \in Entry, \A k \in DOMAIN s : RatesIn(s, k),
           IF "arp" \in Checks /\ e.op = "arp" /\ Counted(e.in)
           THEN Raised(Append(s, e), "flood", Len(s) + 1, RepliesOf(s, e.in.mac) \cup {Len(s) + 1},
                       FloodWindow, FloodThreshold, FALSE)
           ELSE "flood" \notin e.alerts,
           IF "mac" \in Checks /\ e.op = "arp"
           THEN Raised(Append(s, e), "flap", Len(s) + 1, FramesOf(s, e.in.src) \cup {Len(s) + 1},
                       FlapWindow, FlapThreshold, TRUE)
           ELSE "flap" \notin e.alerts,
           IF "dhcp" \in Checks /\ e.op = "dhcp" /\ e.in.kind = "client"
           THEN Raised(Append(s, e), "starvation", Len(s) + 1, ClientsIn(s) \cup {Len(s) + 1},
                       StarvationWindow, StarvationThreshold, FALSE)
           ELSE "starvation" \notin e.alerts
    PROVE  \A k \in DOMAIN Append(s, e) : RatesIn(Append(s, e), k)
<1> DEFINE n == Len(s) + 1
           a == Append(s, e)
<1>1. \A k \in DOMAIN s : RatesIn(a, k)
  BY RatesAreSettled, ZenonT(30)
<1>2. DOMAIN a = DOMAIN s \cup {n} /\ a[n] = e
  BY Grows, ZenonT(30)
<1>3. /\ e.op = "arp" /\ Counted(e.in) => RepliesOf(a, e.in.mac) = RepliesOf(s, e.in.mac) \cup {n}
      /\ e.op = "arp" => FramesOf(a, e.in.src) = FramesOf(s, e.in.src) \cup {n}
      /\ e.op = "dhcp" /\ e.in.kind = "client" => ClientsIn(a) = ClientsIn(s) \cup {n}
  <2>1. /\ RepliesOf(a, e.in.mac) = IF e.op = "arp" /\ Counted(e.in) /\ e.in.mac = e.in.mac
                                    THEN RepliesOf(s, e.in.mac) \cup {n} ELSE RepliesOf(s, e.in.mac)
        /\ ClientsIn(a) = IF e.op = "dhcp" /\ e.in.kind = "client"
                          THEN ClientsIn(s) \cup {n} ELSE ClientsIn(s)
    BY CountedGrow, Zenon
  <2>2. FramesOf(a, e.in.src) = IF e.op = "arp" /\ e.in.src = e.in.src
                                THEN FramesOf(s, e.in.src) \cup {n} ELSE FramesOf(s, e.in.src)
    BY CountedGrow, Zenon
  <2> QED BY <2>1, <2>2, Zenon
<1> HIDE DEF n, a
<1>4. FloodIn(a, n)
  <2>1. IF "arp" \in Checks /\ e.op = "arp" /\ Counted(e.in)
        THEN Raised(a, "flood", n, RepliesOf(s, e.in.mac) \cup {n}, FloodWindow, FloodThreshold, FALSE)
        ELSE "flood" \notin e.alerts
    BY Zenon DEF a, n
  <2> QED BY <1>2, <1>3, <2>1, Zenon DEF FloodIn
<1>5. FlapIn(a, n)
  <2>1. IF "mac" \in Checks /\ e.op = "arp"
        THEN Raised(a, "flap", n, FramesOf(s, e.in.src) \cup {n}, FlapWindow, FlapThreshold, TRUE)
        ELSE "flap" \notin e.alerts
    BY Zenon DEF a, n
  <2> QED BY <1>2, <1>3, <2>1, Zenon DEF FlapIn
<1>6. StarvationIn(a, n)
  <2>1. IF "dhcp" \in Checks /\ e.op = "dhcp" /\ e.in.kind = "client"
        THEN Raised(a, "starvation", n, ClientsIn(s) \cup {n},
                    StarvationWindow, StarvationThreshold, FALSE)
        ELSE "starvation" \notin e.alerts
    BY Zenon DEF a, n
  <2> QED BY <1>2, <1>3, <2>1, Zenon DEF StarvationIn
<1>7. \A k \in DOMAIN a : RatesIn(a, k)
  BY <1>1, <1>2, <1>4, <1>5, <1>6, Zenon DEF RatesIn
<1> QED BY <1>7, Zenon DEF a

LEMMA WindowTypes ==
    ASSUME TypeOK
    PROVE  /\ \A m \in Mac : WindowOf(replies, m) \in Seq(Reply) /\ WindowOf(flaps, m) \in Seq(Sighting)
           /\ requests \in Seq(Reply)
BY WindowOfType, Zenon DEF TypeOK, Reply, Sighting

LEMMA TickTimes ==
    ASSUME TypeOK, NEW t \in Time, Tick(t)
    PROVE  /\ t \in Nat /\ clock \in Nat /\ clock' \in Nat /\ clock <= clock' /\ t <= clock'
           /\ t + Skew >= clock'
BY Naturals DEF Tick, TypeOK

LEMMA RatesAssumptions ==
    {FloodWindow, FlapWindow, StarvationWindow, FloodThreshold, FlapThreshold,
     StarvationThreshold, Skew, DefaultTtl} \subseteq Nat
BY ConfigAssumption, Zenon

LEMMA OtherKeepsRInv ==
    ASSUME RInv, NEW e \in Entry, e.op \in {"stp", "lldp", "cdp"},
           log' = Append(log, e), NEW t \in Time, Tick(t), TypeOK',
           {"flood", "flap", "starvation"} \cap e.alerts = {},
           replies' = replies, flaps' = flaps, requests' = requests
    PROVE  RInv'
<1>1. log \in Seq(Entry) /\ log' \in Seq(Entry)
  BY Grows, ZenonT(30) DEF RInv
<1>2. clock \in Nat /\ clock' \in Nat /\ clock <= clock'
  BY TickTimes, ZenonT(30) DEF RInv
<1>3. /\ \A m \in Mac : WindowOf(replies, m) \in Seq(Reply) /\ WindowOf(flaps, m) \in Seq(Sighting)
      /\ requests \in Seq(Reply)
  BY WindowTypes, Zenon DEF RInv
<1>4. e.op # "arp" /\ e.op # "dhcp"
  BY Zenon
<1>5. RepliesInStep(log', replies', clock')
  BY <1>1, <1>2, <1>3, <1>4, RepliesStep, Zenon DEF RInv
<1>6. FlapsInStep(log', flaps', clock')
  BY <1>1, <1>2, <1>3, <1>4, FlapsStep, Zenon DEF RInv
<1>7. RequestsInStep(log', requests', clock')
  BY <1>1, <1>2, <1>3, <1>4, RequestsStep, Zenon DEF RInv
<1>8. \A k \in DOMAIN log' : RatesIn(log', k)
  <2>1. "flood" \notin e.alerts /\ "flap" \notin e.alerts /\ "starvation" \notin e.alerts
    BY Zenon
  <2> QED BY <1>1, <1>4, <2>1, RatesStep, Zenon DEF RInv
<1> QED BY <1>1, <1>5, <1>6, <1>7, <1>8, ZenonT(30) DEF RInv

LEMMA PutWindow ==
    ASSUME NEW table, NEW key, NEW value, NEW k
    PROVE  WindowOf(Put(table, key, value), k) = IF k = key THEN value ELSE WindowOf(table, k)
BY Zenon DEF WindowOf, Put

LEMMA ArpKeepsRInv ==
    ASSUME WindowsNested, RInv, NEW f \in ArpFrame, NEW t \in Time, ObserveArp(f, t)
    PROVE  RInv'
<1>1. PICK e \in Entry :
        /\ e.op = "arp" /\ e.in = f /\ e.at = t
        /\ e.alerts = (IF "arp" \in Checks THEN ArpAlerts(f, t) ELSE {}) \cup
                      (IF "mac" \in Checks THEN FlapAlerts(f, t) ELSE {})
        /\ log' = Append(log, e) /\ Tick(t)
  BY ArpEntry, Zenon
<1>2. log \in Seq(Entry) /\ log' \in Seq(Entry) /\ TypeOK /\ TypeOK'
  BY <1>1, Grows, ArpKeepsType, Zenon DEF RInv
<1>3. /\ t \in Nat /\ clock \in Nat /\ clock' \in Nat /\ clock <= clock' /\ t + Skew >= clock'
  BY <1>1, <1>2, TickTimes, Zenon
<1>4. /\ \A m \in Mac : WindowOf(replies, m) \in Seq(Reply) /\ WindowOf(flaps, m) \in Seq(Sighting)
      /\ requests \in Seq(Reply)
  BY <1>2, WindowTypes, Zenon
<1>5. f.mac \in Mac /\ f.src \in Mac /\ f.ip \in Ip
  BY InputAssumption, Zenon
<1> DEFINE rx == [ts |-> e.at]
           fx == [ts |-> e.at, ip |-> e.in.ip]
           rq == Record(WindowOf(replies, f.mac), rx, FloodWindow)
           fq == Record(WindowOf(flaps, f.src), fx, FlapWindow)
<1>6. /\ "arp" \in Checks =>
            replies' = IF Counted(f) THEN Put(replies, f.mac, rq) ELSE replies
      /\ "mac" \in Checks => flaps' = Put(flaps, f.src, fq)
      /\ requests' = requests
  BY <1>1, Zenon DEF ObserveArp, RepliesAfter, FlapsAfter
<1>7. /\ "flood" \in e.alerts <=> "arp" \in Checks /\ Counted(f) /\ Len(rq) >= FloodThreshold
      /\ "flap" \in e.alerts <=> "mac" \in Checks /\ DistinctIps(fq) >= FlapThreshold
      /\ "starvation" \notin e.alerts
  <2>1. Counted(f) => RepliesAfter(f, t)[f.mac] = rq
    BY <1>1, Zenon DEF RepliesAfter, Put
  <2>2. FlapsAfter(f, t)[f.src] = fq
    BY <1>1, Zenon DEF FlapsAfter, Put
  <2> HIDE DEF rq, fq
  <2>3. /\ "flood" \in ArpAlerts(f, t) <=> Counted(f) /\ Len(rq) >= FloodThreshold
        /\ "flap" \notin ArpAlerts(f, t) /\ "starvation" \notin ArpAlerts(f, t)
    BY <2>1, Zenon DEF ArpAlerts, Alert, Flooding
  <2>4. /\ "flap" \in FlapAlerts(f, t) <=> DistinctIps(fq) >= FlapThreshold
        /\ "flood" \notin FlapAlerts(f, t) /\ "starvation" \notin FlapAlerts(f, t)
    BY <2>2, Zenon DEF FlapAlerts, Alert
  <2> QED BY <1>1, <2>3, <2>4, Zenon
<1>8. /\ rx \in Reply /\ rx.ts = e.at /\ \A y \in Reply : y.ts \in Nat
      /\ fx \in Sighting /\ fx.ts = e.at /\ fx.ip = e.in.ip /\ \A y \in Sighting : y.ts \in Nat
  BY <1>1, <1>5, Naturals, Zenon DEF Reply, Sighting
<1>9. RepliesInStep(log', replies', clock')
  <2>1. CASE "arp" \in Checks
    <3>1. \A m \in Mac : WindowOf(replies', m) =
            IF e.op = "arp" /\ Counted(e.in) /\ e.in.mac = m
            THEN Record(WindowOf(replies, m), [ts |-> e.at], FloodWindow)
            ELSE WindowOf(replies, m)
      BY <1>1, <1>6, <2>1, PutWindow
    <3> QED BY <1>1, <1>2, <1>3, <1>4, <3>1, RepliesStep, ZenonT(30) DEF RInv
  <2>2. CASE "arp" \notin Checks
    BY <2>2, Zenon DEF RepliesInStep
  <2> QED BY <2>1, <2>2, Zenon
<1>10. FlapsInStep(log', flaps', clock')
  <2>1. CASE "mac" \in Checks
    <3>1. \A m \in Mac : WindowOf(flaps', m) =
            IF e.op = "arp" /\ e.in.src = m
            THEN Record(WindowOf(flaps, m), [ts |-> e.at, ip |-> e.in.ip], FlapWindow)
            ELSE WindowOf(flaps, m)
      BY <1>1, <1>6, <2>1, PutWindow
    <3> QED BY <1>1, <1>2, <1>3, <1>4, <3>1, FlapsStep, ZenonT(30) DEF RInv
  <2>2. CASE "mac" \notin Checks
    BY <2>2, Zenon DEF FlapsInStep
  <2> QED BY <2>1, <2>2, Zenon
<1>11. RequestsInStep(log', requests', clock')
  <2>1. ~(e.op = "dhcp" /\ e.in.kind = "client")
    BY <1>1, Zenon
  <2> QED BY <1>1, <1>2, <1>3, <1>4, <1>6, <2>1, RequestsStep, Zenon DEF RInv
<1>12. \A k \in DOMAIN log' : RatesIn(log', k)
  <2> HIDE DEF rx, fx
  <2>1. ASSUME "arp" \in Checks, Counted(f)
        PROVE  Raised(Append(log, e), "flood", Len(log) + 1, RepliesOf(log, f.mac) \cup {Len(log) + 1},
                      FloodWindow, FloodThreshold, FALSE)
    <3> DEFINE S == RepliesOf(log, f.mac)
               q == WindowOf(replies, f.mac)
    <3>1. Windowed(log, q, S, FloodWindow, FALSE, clock) /\ q \in Seq(Reply) /\ S \in SUBSET DOMAIN log
      BY <1>2, <1>4, <1>5, <2>1, CountedGrow, ZenonT(30) DEF RInv, RepliesInStep
    <3>2. "flood" \in e.alerts <=> Len(Record(q, rx, FloodWindow)) >= FloodThreshold
      BY <1>7, <2>1, Zenon
    <3>3. FloodWindow \in Nat /\ FloodThreshold \in Nat /\ e.at + Skew >= clock'
      BY <1>1, <1>3, RatesAssumptions, Zenon
    <3> HIDE DEF S, q
    <3>4. Raised(Append(log, e), "flood", Len(log) + 1, S \cup {Len(log) + 1},
                 FloodWindow, FloodThreshold, FALSE)
      BY <1>2, <1>3, <1>8, <3>1, <3>2, <3>3, RecordRaises, Zenon
    <3> QED BY <3>4, Zenon DEF S
  <2>2. ASSUME "mac" \in Checks
        PROVE  Raised(Append(log, e), "flap", Len(log) + 1, FramesOf(log, f.src) \cup {Len(log) + 1},
                      FlapWindow, FlapThreshold, TRUE)
    <3> DEFINE S == FramesOf(log, f.src)
               q == WindowOf(flaps, f.src)
    <3>1. Windowed(log, q, S, FlapWindow, TRUE, clock) /\ q \in Seq(Sighting) /\ S \in SUBSET DOMAIN log
      BY <1>2, <1>4, <1>5, <2>2, CountedGrow, Zenon DEF RInv, FlapsInStep
    <3>2. "flap" \in e.alerts <=> DistinctIps(Record(q, fx, FlapWindow)) >= FlapThreshold
      BY <1>7, <2>2, Zenon
    <3>3. FlapWindow \in Nat /\ FlapThreshold \in Nat /\ e.at + Skew >= clock'
          /\ FlapWindow + Skew < DefaultTtl
      BY <1>1, <1>3, RatesAssumptions, Zenon DEF WindowsNested
    <3> HIDE DEF S, q
    <3>4. Raised(Append(log, e), "flap", Len(log) + 1, S \cup {Len(log) + 1},
                 FlapWindow, FlapThreshold, TRUE)
      BY <1>2, <1>3, <1>8, <3>1, <3>2, <3>3, RecordRaises, Zenon
    <3> QED BY <3>4, Zenon DEF S
  <2>3. /\ ~("arp" \in Checks /\ e.op = "arp" /\ Counted(e.in)) => "flood" \notin e.alerts
        /\ ~("mac" \in Checks /\ e.op = "arp") => "flap" \notin e.alerts
        /\ e.op # "dhcp" /\ "starvation" \notin e.alerts
    BY <1>1, <1>7, Zenon
  <2>4. /\ IF "arp" \in Checks /\ e.op = "arp" /\ Counted(e.in)
           THEN Raised(Append(log, e), "flood", Len(log) + 1, RepliesOf(log, e.in.mac) \cup {Len(log) + 1},
                       FloodWindow, FloodThreshold, FALSE)
           ELSE "flood" \notin e.alerts
        /\ IF "mac" \in Checks /\ e.op = "arp"
           THEN Raised(Append(log, e), "flap", Len(log) + 1, FramesOf(log, e.in.src) \cup {Len(log) + 1},
                       FlapWindow, FlapThreshold, TRUE)
           ELSE "flap" \notin e.alerts
    BY <1>1, <2>1, <2>2, <2>3, Zenon
  <2>5. \A k \in DOMAIN Append(log, e) : RatesIn(Append(log, e), k)
    BY <1>2, <2>3, <2>4, RatesStep, ZenonT(30) DEF RInv
  <2> QED BY <1>1, <2>5, Zenon
<1> QED BY <1>2, <1>9, <1>10, <1>11, <1>12, ZenonT(30) DEF RInv

LEMMA DhcpKeepsRInv ==
    ASSUME RInv, NEW d \in DhcpMessage, NEW t \in Time, ObserveDhcp(d, t)
    PROVE  RInv'
<1>1. PICK e \in Entry : /\ e.op = "dhcp" /\ e.in = d /\ e.at = t
                         /\ e.alerts = IF "dhcp" \in Checks THEN DhcpAlerts(d, t) ELSE {}
                         /\ log' = Append(log, e) /\ Tick(t)
  BY DhcpEntry, Zenon
<1>2. log \in Seq(Entry) /\ log' \in Seq(Entry) /\ TypeOK /\ TypeOK'
  BY <1>1, Grows, DhcpKeepsType, Zenon DEF RInv
<1>3. /\ t \in Nat /\ clock \in Nat /\ clock' \in Nat /\ clock <= clock' /\ t + Skew >= clock'
  BY <1>1, <1>2, TickTimes, Zenon
<1>4. /\ \A m \in Mac : WindowOf(replies, m) \in Seq(Reply) /\ WindowOf(flaps, m) \in Seq(Sighting)
      /\ requests \in Seq(Reply)
  BY <1>2, WindowTypes, Zenon
<1> DEFINE rx == [ts |-> e.at]
           rq == Record(requests, rx, StarvationWindow)
<1>5. /\ "dhcp" \in Checks => requests' = IF d.kind = "client" THEN rq ELSE requests
      /\ replies' = replies /\ flaps' = flaps
  <2>1. rx = [ts |-> t]
    BY <1>1, Zenon
  <2>2. /\ "dhcp" \in Checks => requests' = RequestsAfter(d, t)
        /\ replies' = replies /\ flaps' = flaps
    BY Zenon DEF ObserveDhcp
  <2>3. RequestsAfter(d, t) = IF d.kind = "client" THEN rq ELSE requests
    BY <2>1, Zenon DEF RequestsAfter
  <2> QED BY <2>2, <2>3, Zenon
<1>6. /\ "starvation" \in e.alerts
            <=> "dhcp" \in Checks /\ d.kind = "client" /\ Len(rq) >= StarvationThreshold
      /\ "flood" \notin e.alerts /\ "flap" \notin e.alerts
  <2>1. d.kind = "client" => RequestsAfter(d, t) = rq
    BY <1>1, Zenon DEF RequestsAfter
  <2> HIDE DEF rq
  <2>2. /\ "starvation" \in DhcpAlerts(d, t) <=> d.kind = "client" /\ Len(rq) >= StarvationThreshold
        /\ "flood" \notin DhcpAlerts(d, t) /\ "flap" \notin DhcpAlerts(d, t)
    BY <2>1, Zenon DEF DhcpAlerts, Alert
  <2> QED BY <1>1, <2>2, Zenon
<1>7. rx \in Reply /\ rx.ts = e.at /\ \A y \in Reply : y.ts \in Nat
  BY <1>1, Naturals, ZenonT(30) DEF Reply
<1>8. e.op # "arp"
  BY <1>1, Zenon
<1>9. RepliesInStep(log', replies', clock') /\ FlapsInStep(log', flaps', clock')
  BY <1>1, <1>2, <1>3, <1>4, <1>5, <1>8, RepliesStep, FlapsStep, Zenon DEF RInv
<1>10. RequestsInStep(log', requests', clock')
  <2>1. CASE "dhcp" \in Checks
    <3>1. requests' = IF e.op = "dhcp" /\ e.in.kind = "client"
                      THEN Record(requests, [ts |-> e.at], StarvationWindow) ELSE requests
      BY <1>1, <1>5, <2>1, Zenon
    <3> QED BY <1>1, <1>2, <1>3, <1>4, <3>1, RequestsStep, Zenon DEF RInv
  <2>2. CASE "dhcp" \notin Checks
    BY <2>2, Zenon DEF RequestsInStep
  <2> QED BY <2>1, <2>2, Zenon
<1>11. \A k \in DOMAIN log' : RatesIn(log', k)
  <2> HIDE DEF rx
  <2>1. ASSUME "dhcp" \in Checks, d.kind = "client"
        PROVE  Raised(Append(log, e), "starvation", Len(log) + 1, ClientsIn(log) \cup {Len(log) + 1},
                      StarvationWindow, StarvationThreshold, FALSE)
    <3> DEFINE S == ClientsIn(log)
    <3>1. Windowed(log, requests, S, StarvationWindow, FALSE, clock) /\ S \in SUBSET DOMAIN log
      BY <1>2, <2>1, CountedGrow, Zenon DEF RInv, RequestsInStep
    <3>2. "starvation" \in e.alerts <=> Len(Record(requests, rx, StarvationWindow)) >= StarvationThreshold
      BY <1>6, <2>1, Zenon
    <3>3. StarvationWindow \in Nat /\ StarvationThreshold \in Nat /\ e.at + Skew >= clock'
      BY <1>1, <1>3, RatesAssumptions, Zenon
    <3> HIDE DEF S
    <3>4. Raised(Append(log, e), "starvation", Len(log) + 1, S \cup {Len(log) + 1},
                 StarvationWindow, StarvationThreshold, FALSE)
      BY <1>2, <1>3, <1>4, <1>7, <3>1, <3>2, <3>3, RecordRaises, Zenon
    <3> QED BY <3>4, Zenon DEF S
  <2>2. IF "dhcp" \in Checks /\ e.op = "dhcp" /\ e.in.kind = "client"
        THEN Raised(Append(log, e), "starvation", Len(log) + 1, ClientsIn(log) \cup {Len(log) + 1},
                    StarvationWindow, StarvationThreshold, FALSE)
        ELSE "starvation" \notin e.alerts
    BY <1>1, <1>6, <2>1, Zenon
  <2>3. \A k \in DOMAIN Append(log, e) : RatesIn(Append(log, e), k)
    BY <1>2, <1>6, <1>8, <2>2, RatesStep, Zenon DEF RInv
  <2> QED BY <1>1, <2>3, Zenon
<1> QED BY <1>2, <1>9, <1>10, <1>11, ZenonT(30) DEF RInv

\* evict_expired keeps a tracker or drops it past its TTL.
LEMMA EvictedTracker ==
    ASSUME NEW s \in Seq(Entry), NEW S \in SUBSET DOMAIN s,
           NEW X, \A x \in X : x.ts \in Nat, NEW q \in Seq(X),
           NEW now \in Nat, NEW later \in Nat, NEW t \in Nat, now <= later, t <= later,
           Windowed(s, q, S, FlapWindow, TRUE, now), NEW r,
           r = q \/ (r = <<>> /\ q # <<>> /\ ~(t - q[Len(q)].ts < DefaultTtl))
    PROVE  Windowed(s, r, S, FlapWindow, TRUE, later)
<1>1. CASE r = q
  BY <1>1, LaterClock, Zenon
<1>2. CASE r = <<>> /\ q # <<>> /\ ~(t - q[Len(q)].ts < DefaultTtl)
  <2>1. q[Len(q)].ts \in Nat
    <3>1. Len(q) \in Nat /\ Len(q) \in 1 .. Len(q)
      BY <1>2, EmptySeq
    <3> QED BY <3>1
  <2>2. q[Len(q)].ts + DefaultTtl <= later /\ FlapWindow \in Nat /\ Len(q) # 0
    BY <1>2, <2>1, EmptySeq, Naturals, RatesAssumptions, SMTT(30)
  <2> QED BY <1>2, <2>2, DroppedTracker, Zenon
<1> QED BY <1>1, <1>2, Zenon

LEMMA EvictionKeepsRInv ==
    ASSUME RInv, NEW t \in Time, EvictExpired(t)
    PROVE  RInv'
<1>1. /\ log' = log /\ requests' = requests /\ Tick(t) /\ TypeOK /\ TypeOK' /\ log \in Seq(Entry)
      /\ replies' = Retain(replies, {m \in DOMAIN replies : replies[m] # <<>>})
      /\ flaps' = Retain(flaps, {m \in DOMAIN flaps :
                                   /\ flaps[m] # <<>>
                                   /\ t - flaps[m][Len(flaps[m])].ts < DefaultTtl})
  BY EvictionKeepsType, Zenon DEF EvictExpired, RInv
<1>2. /\ t \in Nat /\ clock \in Nat /\ clock' \in Nat /\ clock <= clock' /\ t <= clock'
  BY <1>1, TickTimes, Zenon
<1>3. RepliesInStep(log', replies', clock')
  <2> SUFFICES ASSUME "arp" \in Checks, NEW m \in Mac
               PROVE  Windowed(log, WindowOf(replies', m), RepliesOf(log, m), FloodWindow, FALSE, clock')
    BY <1>1, Zenon DEF RepliesInStep
  <2>1. WindowOf(replies', m) = WindowOf(replies, m)
    BY <1>1, Zenon DEF WindowOf, Retain
  <2>2. /\ Windowed(log, WindowOf(replies, m), RepliesOf(log, m), FloodWindow, FALSE, clock)
        /\ RepliesOf(log, m) \in SUBSET DOMAIN log
    BY Zenon DEF RInv, RepliesInStep, RepliesOf
  <2> QED BY <1>1, <1>2, <2>1, <2>2, LaterClock, Zenon
<1>4. FlapsInStep(log', flaps', clock')
  <2> SUFFICES ASSUME "mac" \in Checks, NEW m \in Mac
               PROVE  Windowed(log, WindowOf(flaps', m), FramesOf(log, m), FlapWindow, TRUE, clock')
    BY <1>1, Zenon DEF FlapsInStep
  <2> DEFINE q == WindowOf(flaps, m)
             S == FramesOf(log, m)
  <2>1. /\ Windowed(log, q, S, FlapWindow, TRUE, clock) /\ S \in SUBSET DOMAIN log
        /\ q \in Seq(Sighting) /\ FlapWindow \in Nat
    BY <1>1, WindowTypes, RatesAssumptions, Zenon DEF RInv, FlapsInStep, FramesOf
  <2>2. \/ WindowOf(flaps', m) = q
        \/ WindowOf(flaps', m) = <<>> /\ q # <<>> /\ ~(t - q[Len(q)].ts < DefaultTtl)
    BY <1>1, Zenon DEF WindowOf, Retain
  <2> HIDE DEF q, S
  <2>3. \A x \in Sighting : x.ts \in Nat
    BY Naturals, Zenon DEF Sighting
  <2>4. Windowed(log, WindowOf(flaps', m), S, FlapWindow, TRUE, clock')
    BY <1>1, <1>2, <2>1, <2>2, <2>3, EvictedTracker, Zenon
  <2> QED BY <2>4, Zenon DEF S
<1>5. RequestsInStep(log', requests', clock')
  <2> SUFFICES ASSUME "dhcp" \in Checks
               PROVE  Windowed(log, requests, ClientsIn(log), StarvationWindow, FALSE, clock')
    BY <1>1, Zenon DEF RequestsInStep
  <2>1. /\ Windowed(log, requests, ClientsIn(log), StarvationWindow, FALSE, clock)
        /\ ClientsIn(log) \in SUBSET DOMAIN log
    BY Zenon DEF RInv, RequestsInStep, ClientsIn
  <2> QED BY <1>1, <1>2, <2>1, LaterClock, Zenon
<1> QED BY <1>1, <1>3, <1>4, <1>5, Zenon DEF RInv

LEMMA InitRInv == Init => RInv
<1> SUFFICES ASSUME Init PROVE RInv
  BY Zenon
<1>1. TypeOK /\ log = <<>> /\ log \in Seq(Entry) /\ DOMAIN log = {} /\ requests = <<>>
  BY InitType DEF Init
<1>2. \A m \in Mac : WindowOf(replies, m) = <<>> /\ WindowOf(flaps, m) = <<>>
  BY Zenon DEF Init, WindowOf
<1>3. ASSUME NEW w, NEW flap, NEW now PROVE Windowed(log, <<>>, {}, w, flap, now)
  <2>1. <<>> \in [1 .. Len(<<>>) -> {}] /\ 1 .. Len(<<>>) = {}
    OBVIOUS
  <2> QED BY <2>1, Zenon DEF Windowed
<1>4. ClientsIn(log) = {} /\ \A m \in Mac : RepliesOf(log, m) = {} /\ FramesOf(log, m) = {}
  BY <1>1, Zenon DEF ClientsIn, RepliesOf, FramesOf
<1>5. \A k \in DOMAIN log : RatesIn(log, k)
  BY <1>1, Zenon
<1> QED BY <1>1, <1>2, <1>3, <1>4, <1>5, Zenon DEF RInv, RepliesInStep, FlapsInStep, RequestsInStep

LEMMA StepKeepsRInv == WindowsNested /\ RInv /\ [Next]_vars => RInv'
<1> SUFFICES ASSUME WindowsNested, RInv, [Next]_vars PROVE RInv'
  BY Zenon
<1>0. TypeOK'
  BY StepKeepsType, Zenon DEF RInv
<1>1. ASSUME NEW t \in Time, NEW r \in Root, ObserveStp(r, t) PROVE RInv'
  <2>1. PICK e \in Entry : /\ e.op = "stp" /\ e.alerts \subseteq {"unauthorized", "rootchange"}
                           /\ log' = Append(log, e) /\ Tick(t)
    BY <1>1, StpEntry, Zenon
  <2>2. {"flood", "flap", "starvation"} \cap e.alerts = {}
    BY <2>1, Zenon
  <2>3. replies' = replies /\ flaps' = flaps /\ requests' = requests
    BY <1>1, Zenon DEF ObserveStp
  <2> QED BY <1>0, <2>1, <2>2, <2>3, OtherKeepsRInv, Zenon
<1>2. ASSUME NEW t \in Time, NEW f \in LldpFrame, ObserveLldp(f, t) PROVE RInv'
  <2>1. PICK e \in Entry : /\ e.op = "lldp" /\ e.alerts = Alert("conflict", Conflicts(lldp, f, t))
                           /\ log' = Append(log, e) /\ Tick(t)
    BY <1>2, LldpEntry, Zenon
  <2>2. {"flood", "flap", "starvation"} \cap e.alerts = {}
    BY <2>1, Zenon DEF Alert
  <2>3. replies' = replies /\ flaps' = flaps /\ requests' = requests
    BY <1>2, Zenon DEF ObserveLldp
  <2> QED BY <1>0, <2>1, <2>2, <2>3, OtherKeepsRInv, ZenonT(30)
<1>3. ASSUME NEW t \in Time, NEW f \in CdpFrame, ObserveCdp(f, t) PROVE RInv'
  <2>1. PICK e \in Entry : /\ e.op = "cdp" /\ e.alerts = Alert("conflict", Conflicts(cdp, f, t))
                           /\ log' = Append(log, e) /\ Tick(t)
    BY <1>3, CdpEntry, Zenon
  <2>2. {"flood", "flap", "starvation"} \cap e.alerts = {}
    BY <2>1, Zenon DEF Alert
  <2>3. replies' = replies /\ flaps' = flaps /\ requests' = requests
    BY <1>3, Zenon DEF ObserveCdp
  <2> QED BY <1>0, <2>1, <2>2, <2>3, OtherKeepsRInv, Zenon
<1>4. CASE UNCHANGED vars
  BY <1>0, <1>4, Zenon DEF vars, RInv
<1> QED BY <1>1, <1>2, <1>3, <1>4, ArpKeepsRInv, DhcpKeepsRInv, EvictionKeepsRInv, Zenon DEF Next

\* RateAlertsDue follows: past the threshold is at the threshold.
LEMMA RatesOfLog ==
    ASSUME log \in Seq(Entry), \A k \in DOMAIN log : RatesIn(log, k)
    PROVE  RateAlertsDue
<1> DEFINE InFlood(s, k, w) == {j \in 1 .. k : (s[j].op = "arp" /\ Counted(s[j].in) /\ s[j].in.mac = s[k].in.mac)
                                                /\ s[j].at >= s[k].at - w}
           InFlap(s, k, w) == {j \in 1 .. k : (s[j].op = "arp" /\ s[j].in.src = s[k].in.src)
                                                /\ s[j].at >= s[k].at - w}
           InStarvation(s, k, w) == {j \in 1 .. k : (s[j].op = "dhcp" /\ s[j].in.kind = "client")
                                                /\ s[j].at >= s[k].at - w}
<1>1. ASSUME NEW s \in Seq(Entry), NEW k \in DOMAIN s, NEW w
      PROVE  /\ InFlood(s, k, w) = Over(s, Within(s, RepliesOf(s, s[k].in.mac), k, w), FALSE)
             /\ {s[j].in.ip : j \in InFlap(s, k, w)}
                  = Over(s, Within(s, FramesOf(s, s[k].in.src), k, w), TRUE)
             /\ InStarvation(s, k, w) = Over(s, Within(s, ClientsIn(s), k, w), FALSE)
  <2>1. \A j \in 1 .. k : j \in DOMAIN s
    OBVIOUS
  <2>2. /\ InFlood(s, k, w) = Within(s, RepliesOf(s, s[k].in.mac), k, w)
        /\ InFlap(s, k, w) = Within(s, FramesOf(s, s[k].in.src), k, w)
        /\ InStarvation(s, k, w) = Within(s, ClientsIn(s), k, w)
    BY <2>1, Zenon DEF Within, RepliesOf, FramesOf, ClientsIn
  <2> QED BY <2>2, Zenon DEF Over
<1>2. ASSUME NEW k \in DOMAIN log, NEW w
      PROVE  /\ Cardinality(InFlood(log, k, w)) \in Nat
             /\ Cardinality({log[j].in.ip : j \in InFlap(log, k, w)}) \in Nat
             /\ Cardinality(InStarvation(log, k, w)) \in Nat
  <2>1. IsFiniteSet(1 .. k) /\ FALSE \in BOOLEAN /\ TRUE \in BOOLEAN
    BY FS_Interval
  <2>2. ASSUME NEW S PROVE Within(log, S, k, w) \in SUBSET (1 .. k)
    BY Zenon DEF Within
  <2>3. ASSUME NEW S, NEW flap \in BOOLEAN
        PROVE  Cardinality(Over(log, Within(log, S, k, w), flap)) \in Nat
    BY <2>1, <2>2, OverGrows, Zenon
  <2> HIDE DEF InFlood, InFlap, InStarvation
  <2> QED BY <1>1, <2>1, <2>3, Zenon
<1>3. FloodThreshold \in Nat /\ FlapThreshold \in Nat /\ StarvationThreshold \in Nat
  BY RatesAssumptions, Zenon
<1>4. ASSUME NEW n \in Nat, NEW m \in Nat
      PROVE  (n > m => n >= m) /\ (n < m => ~(n >= m))
  OBVIOUS
<1> DEFINE Exact(k) ==
             /\ IF "arp" \in Checks /\ log[k].op = "arp" /\ Counted(log[k].in)
                THEN /\ Cardinality(InFlood(log, k, FloodWindow - LagIn(log, k))) >= FloodThreshold
                            => "flood" \in log[k].alerts
                     /\ "flood" \in log[k].alerts
                            => Cardinality(InFlood(log, k, FloodWindow + LagIn(log, k))) >= FloodThreshold
                ELSE "flood" \notin log[k].alerts
             /\ IF "mac" \in Checks /\ log[k].op = "arp"
                THEN /\ Cardinality({log[j].in.ip : j \in InFlap(log, k, FlapWindow - LagIn(log, k))}) >= FlapThreshold
                            => "flap" \in log[k].alerts
                     /\ "flap" \in log[k].alerts
                            => Cardinality({log[j].in.ip : j \in InFlap(log, k, FlapWindow + LagIn(log, k))}) >= FlapThreshold
                ELSE "flap" \notin log[k].alerts
             /\ IF "dhcp" \in Checks /\ log[k].op = "dhcp" /\ log[k].in.kind = "client"
                THEN /\ Cardinality(InStarvation(log, k, StarvationWindow - LagIn(log, k))) >= StarvationThreshold
                            => "starvation" \in log[k].alerts
                     /\ "starvation" \in log[k].alerts
                            => Cardinality(InStarvation(log, k, StarvationWindow + LagIn(log, k))) >= StarvationThreshold
                ELSE "starvation" \notin log[k].alerts
           Due(k) ==
             /\ IF "arp" \in Checks /\ log[k].op = "arp" /\ Counted(log[k].in)
                THEN /\ Cardinality(InFlood(log, k, FloodWindow - LagIn(log, k))) > FloodThreshold
                            => "flood" \in log[k].alerts
                     /\ Cardinality(InFlood(log, k, FloodWindow + LagIn(log, k))) < FloodThreshold
                            => "flood" \notin log[k].alerts
                ELSE "flood" \notin log[k].alerts
             /\ IF "mac" \in Checks /\ log[k].op = "arp"
                THEN /\ Cardinality({log[j].in.ip : j \in InFlap(log, k, FlapWindow - LagIn(log, k))}) >= FlapThreshold
                            => "flap" \in log[k].alerts
                     /\ Cardinality({log[j].in.ip : j \in InFlap(log, k, FlapWindow + LagIn(log, k))}) < FlapThreshold
                            => "flap" \notin log[k].alerts
                ELSE "flap" \notin log[k].alerts
             /\ IF "dhcp" \in Checks /\ log[k].op = "dhcp" /\ log[k].in.kind = "client"
                THEN /\ Cardinality(InStarvation(log, k, StarvationWindow - LagIn(log, k))) > StarvationThreshold
                            => "starvation" \in log[k].alerts
                     /\ Cardinality(InStarvation(log, k, StarvationWindow + LagIn(log, k))) < StarvationThreshold
                            => "starvation" \notin log[k].alerts
                ELSE "starvation" \notin log[k].alerts
<1>5. ASSUME NEW k \in DOMAIN log PROVE Exact(k)
  <2>1. RatesIn(log, k)
    BY Zenon
  <2> HIDE DEF InFlood, InFlap, InStarvation
  <2> QED BY <1>1, <2>1, ZenonT(30) DEF RatesIn, FloodIn, FlapIn, StarvationIn, Raised
<1>6. ASSUME NEW k \in DOMAIN log PROVE Due(k)
  <2>1. Exact(k)
    BY <1>5, Zenon
  <2> HIDE DEF InFlood, InFlap, InStarvation
  <2> QED BY <1>2, <1>3, <1>4, <2>1, ZenonT(30)
<1>7. (\A k \in DOMAIN log : Due(k)) => RateAlertsDue
  BY Zenon DEF RateAlertsDue, FloodRaised, FlapRaised, StarvationRaised, AlertRaised, InWindow, Lag,
               LagIn, StepsBack
<1> HIDE DEF Due
<1> QED BY <1>6, <1>7, Zenon

\* When a flap tracker outlives its window, the flood, flapping and starvation
\* alerts keep their documented bounds up to the lag of the timestamps: past
\* the threshold they are raised and below it they are not, whatever record()
\* pruned and evict_expired dropped before.  No eviction loses an entry that
\* still counts, and no entry counts twice or for another MAC.
THEOREM RatesAreDue ==
    ASSUME WindowsNested
    PROVE  Spec => []RateAlertsDue
<1>1. RInv /\ [Next]_vars => RInv'
  BY StepKeepsRInv, Zenon
<1>2. RInv => RateAlertsDue
  BY RatesOfLog, Zenon DEF RInv
<1> QED BY <1>1, <1>2, InitRInv, PTL, SMTT(30) DEF Spec

=============================================================================
