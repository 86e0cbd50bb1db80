------------------------------- MODULE Lists --------------------------------
(***************************************************************************)
(* Facts about sequences of which nothing is known but that they are       *)
(* sequences, about naturals, and about the size of finite sets.           *)
(***************************************************************************)
EXTENDS Integers, Sequences, FiniteSets, WellFoundedInduction, TLAPS

\* The members of a sequence.
Members(s) == {s[i] : i \in 1 .. Len(s)}

\* s is a sequence, of whatever.
IsList(s) == s \in Seq(Members(s))

\* Every nonempty set of naturals has a least element.
LEMMA LeastNat ==
    ASSUME NEW T \in SUBSET Nat, T # {}
    PROVE  \E x \in T : \A y \in T : x <= y
<1>1. \E R : /\ IsWellFoundedOn(R, Nat)
             /\ \A x, y \in Nat : <<y, x>> \in R <=> y < x
  <2>1. \A x, y \in Nat : <<y, x>> \in OpToRel(<, Nat) <=> y < x
    BY DEF OpToRel
  <2> WITNESS OpToRel(<, Nat)
  <2> QED BY <2>1, NatLessThanWellFounded, Zenon
<1>2. PICK R : /\ IsWellFoundedOn(R, Nat)
               /\ \A x, y \in Nat : <<y, x>> \in R <=> y < x
  BY <1>1, Zenon
<1>3. PICK x \in T : \A y \in T : ~ (<<y, x>> \in R)
  BY <1>2, WFMin, Zenon
<1>4. \A y \in T : ~ (y < x)
  BY <1>2, <1>3, Zenon
<1>5. \A y \in T : x <= y
  BY <1>4
<1> QED BY <1>5

\* A sequence over any set is a list.
LEMMA SeqIsList ==
    ASSUME NEW S, NEW s \in Seq(S)
    PROVE  /\ IsList(s)
           /\ Len(s) \in Nat
           /\ DOMAIN s = 1 .. Len(s)
           /\ Members(s) \subseteq S
BY DEF IsList, Members

\* A function on an initial segment of the naturals is a list.
LEMMA FunctionIsList ==
    ASSUME NEW n \in Nat, NEW f, DOMAIN f = 1 .. n, f = [i \in 1 .. n |-> f[i]]
    PROVE  IsList(f) /\ Len(f) = n
<1>1. f \in Seq({f[i] : i \in 1 .. n})
  OBVIOUS
<1>2. Len(f) = n
  BY <1>1
<1> QED BY <1>1, <1>2 DEF IsList, Members

\* A list is a function on 1 .. Len.
LEMMA ListLen ==
    ASSUME NEW s, IsList(s)
    PROVE  Len(s) \in Nat /\ DOMAIN s = 1 .. Len(s)
BY DEF IsList

\* Concatenation of lists.
LEMMA ListConcat ==
    ASSUME NEW s, NEW t, IsList(s), IsList(t)
    PROVE  /\ IsList(s \o t)
           /\ Len(s \o t) = Len(s) + Len(t)
           /\ \A i \in 1 .. Len(s) : (s \o t)[i] = s[i]
           /\ \A i \in 1 .. Len(t) : (s \o t)[Len(s) + i] = t[i]
           /\ \A i \in 1 .. Len(s \o t) :
                IF i <= Len(s) THEN (s \o t)[i] = s[i]
                ELSE i - Len(s) \in 1 .. Len(t) /\ (s \o t)[i] = t[i - Len(s)]
           /\ Members(s \o t) = Members(s) \cup Members(t)
<1> DEFINE S == Members(s) \cup Members(t)
<1>1. s \in Seq(S) /\ t \in Seq(S)
  <2>1. \A A, B : A \subseteq B => Seq(A) \subseteq Seq(B)
    OBVIOUS
  <2> QED BY <2>1 DEF IsList
<1> HIDE DEF S
<1>2. /\ s \o t \in Seq(S)
      /\ Len(s \o t) = Len(s) + Len(t)
      /\ \A i \in 1 .. Len(s) + Len(t) :
            (s \o t)[i] = IF i <= Len(s) THEN s[i] ELSE t[i - Len(s)]
  BY <1>1
<1>3. Len(s) \in Nat /\ Len(t) \in Nat
  BY <1>1
<1>4. /\ \A i \in 1 .. Len(s) : (s \o t)[i] = s[i]
      /\ \A i \in 1 .. Len(t) : (s \o t)[Len(s) + i] = t[i]
      /\ \A i \in 1 .. Len(s \o t) :
            IF i <= Len(s) THEN (s \o t)[i] = s[i]
            ELSE i - Len(s) \in 1 .. Len(t) /\ (s \o t)[i] = t[i - Len(s)]
  BY <1>2, <1>3
<1>5. Members(s \o t) = Members(s) \cup Members(t)
  <2>1. ASSUME NEW i \in 1 .. Len(s \o t)
        PROVE  (s \o t)[i] \in Members(s) \cup Members(t)
    BY <1>2, <1>3, <1>4 DEF Members
  <2>2. ASSUME NEW i \in 1 .. Len(s)
        PROVE  s[i] \in Members(s \o t)
    BY <1>2, <1>3, <1>4 DEF Members
  <2>3. ASSUME NEW i \in 1 .. Len(t)
        PROVE  t[i] \in Members(s \o t)
    <3>1. Len(s) + i \in 1 .. Len(s \o t)
      BY <1>2, <1>3
    <3> QED BY <3>1, <1>4 DEF Members
  <2> QED BY <2>1, <2>2, <2>3, Zenon DEF Members
<1>6. IsList(s \o t)
  BY <1>2, SeqIsList, Zenon
<1> QED BY <1>2, <1>4, <1>5, <1>6

\* What SubSeq gives.
LEMMA SubSeqProperties ==
    ASSUME NEW S, NEW s, NEW m \in Int, NEW n \in Int,
           \A i \in m .. n : s[i] \in S
    PROVE  /\ SubSeq(s, m, n) \in Seq(S)
           /\ Len(SubSeq(s, m, n)) = IF m <= n THEN n - m + 1 ELSE 0
           /\ \A i \in 1 .. n - m + 1 : SubSeq(s, m, n)[i] = s[m + i - 1]
OBVIOUS

\* Concatenation is associative.
LEMMA ConcatAssociative ==
    ASSUME NEW S, NEW r \in Seq(S), NEW s \in Seq(S), NEW t \in Seq(S)
    PROVE  (r \o s) \o t = r \o (s \o t)
OBVIOUS

\* The empty sequence.
LEMMA EmptySeq ==
    ASSUME NEW S
    PROVE  /\ <<>> \in Seq(S)
           /\ Len(<<>>) = 0
           /\ \A seq \in Seq(S) : seq # <<>> => Len(seq) \in Nat \ {0}
OBVIOUS

-----------------------------------------------------------------------------
(* Finite sets and their size.                                             *)

\* f counts S from 1 to n.
Counts(f, n, S) ==
    /\ n \in Nat
    /\ f \in [1 .. n -> S]
    /\ \A x \in S : \E i \in 1 .. n : f[i] = x
    /\ \A i, j \in 1 .. n : f[i] = f[j] => i = j

\* S has n elements.
Sized(S, n) == \E f : Counts(f, n, S)

\* A size is a natural.
LEMMA SizedNat ==
    ASSUME NEW S, NEW n, Sized(S, n)
    PROVE  n \in Nat
BY DEF Sized, Counts

\* The empty set is the one of size 0.
LEMMA SizedEmpty ==
    /\ Sized({}, 0)
    /\ \A S : Sized(S, 0) => S = {}
    /\ \A n : Sized({}, n) => n = 0
<1>1. Sized({}, 0)
  <2> DEFINE f == [i \in 1 .. 0 |-> i]
  <2>1. Counts(f, 0, {})
    BY DEF Counts
  <2> QED BY <2>1 DEF Sized
<1>2. ASSUME NEW S, Sized(S, 0) PROVE S = {}
  BY <1>2 DEF Sized, Counts
<1>3. ASSUME NEW n, Sized({}, n) PROVE n = 0
  <2>1. PICK f : Counts(f, n, {})
    BY <1>3 DEF Sized
  <2>2. n \in Nat /\ \A i \in 1 .. n : f[i] \in {}
    BY <2>1 DEF Counts
  <2> QED BY <2>2
<1> QED BY <1>1, <1>2, <1>3

\* A new element is counted last.
LEMMA SizedAdd ==
    ASSUME NEW S, NEW n, Sized(S, n), NEW x, x \notin S
    PROVE  Sized(S \cup {x}, n + 1)
<1>1. PICK f : Counts(f, n, S)
  BY DEF Sized
<1> DEFINE g == [i \in 1 .. n + 1 |-> IF i = n + 1 THEN x ELSE f[i]]
<1>2. n \in Nat /\ \A i \in 1 .. n : f[i] \in S
  BY <1>1 DEF Counts
<1>3. g[n + 1] = x /\ \A i \in 1 .. n : g[i] = f[i] /\ i \in 1 .. n + 1
  BY <1>2
<1>4. g \in [1 .. n + 1 -> S \cup {x}]
  BY <1>2
<1> HIDE DEF g
<1>5. ASSUME NEW y \in S \cup {x} PROVE \E i \in 1 .. n + 1 : g[i] = y
  <2>1. CASE y = x
    BY <1>2, <1>3, <2>1
  <2>2. CASE y \in S
    <3>1. PICK i \in 1 .. n : f[i] = y
      BY <1>1, <2>2 DEF Counts
    <3> QED BY <1>3, <3>1
  <2> QED BY <2>1, <2>2
<1>6. ASSUME NEW i \in 1 .. n + 1, NEW j \in 1 .. n + 1, g[i] = g[j] PROVE i = j
  <2>1. CASE i \in 1 .. n /\ j \in 1 .. n
    BY <1>1, <1>3, <1>6, <2>1 DEF Counts
  <2>2. CASE i = n + 1 \/ j = n + 1
    <3>1. i \in 1 .. n => g[i] \in S
      BY <1>2, <1>3
    <3>2. j \in 1 .. n => g[j] \in S
      BY <1>2, <1>3
    <3>3. (i \in 1 .. n \/ i = n + 1) /\ (j \in 1 .. n \/ j = n + 1)
      BY <1>2
    <3> QED BY <1>3, <1>6, <2>2, <3>1, <3>2, <3>3
  <2> QED BY <1>2, <2>1, <2>2
<1>7. Counts(g, n + 1, S \cup {x})
  BY <1>2, <1>4, <1>5, <1>6 DEF Counts
<1> QED BY <1>7 DEF Sized

\* An element is left out, and the last one counted in its place.
LEMMA SizedRemove ==
    ASSUME NEW S, NEW n, Sized(S, n), NEW x \in S
    PROVE  n > 0 /\ Sized(S \ {x}, n - 1)
<1>1. PICK f : Counts(f, n, S)
  BY DEF Sized
<1>2. PICK k \in 1 .. n : f[k] = x
  BY <1>1 DEF Counts
<1>3. n \in Nat /\ n > 0 /\ n \in 1 .. n /\ n - 1 \in Nat
  BY <1>1, <1>2 DEF Counts
<1>4. \A i \in 1 .. n : f[i] \in S
  BY <1>1 DEF Counts
<1>5. \A i, j \in 1 .. n : f[i] = f[j] => i = j
  BY <1>1 DEF Counts
<1> DEFINE g == [i \in 1 .. n - 1 |-> IF i = k THEN f[n] ELSE f[i]]
<1>6. \A i \in 1 .. n - 1 : i \in 1 .. n /\ g[i] = (IF i = k THEN f[n] ELSE f[i])
  BY <1>3
<1>7. ASSUME NEW i \in 1 .. n - 1 PROVE g[i] \in S \ {x}
  <2>1. i \in 1 .. n /\ i # n
    BY <1>3
  <2>2. CASE i = k
    <3>1. f[n] # x
      BY <1>2, <1>3, <1>5, <2>1, <2>2
    <3> QED BY <1>3, <1>4, <1>6, <2>2, <3>1
  <2>3. CASE i # k
    <3>1. f[i] # x
      BY <1>2, <1>5, <2>1, <2>3
    <3> QED BY <1>4, <1>6, <2>1, <2>3, <3>1
  <2> QED BY <2>2, <2>3
<1>8. g \in [1 .. n - 1 -> S \ {x}]
  BY <1>7
<1> HIDE DEF g
<1>9. ASSUME NEW y \in S \ {x} PROVE \E i \in 1 .. n - 1 : g[i] = y
  <2>1. PICK i \in 1 .. n : f[i] = y
    BY <1>1 DEF Counts
  <2>2. i # k
    BY <1>2, <2>1
  <2>3. CASE i = n
    <3>1. k \in 1 .. n - 1
      BY <1>3, <2>2, <2>3
    <3> QED BY <1>6, <2>1, <2>3, <3>1
  <2>4. CASE i # n
    <3>1. i \in 1 .. n - 1
      BY <1>3, <2>4
    <3> QED BY <1>6, <2>1, <2>2, <3>1
  <2> QED BY <2>3, <2>4
<1>10. ASSUME NEW i \in 1 .. n - 1, NEW j \in 1 .. n - 1, g[i] = g[j] PROVE i = j
  <2>1. i \in 1 .. n /\ j \in 1 .. n /\ i # n /\ j # n
    BY <1>3
  <2> QED BY <1>3, <1>5, <1>6, <1>10, <2>1
<1>11. Counts(g, n - 1, S \ {x})
  BY <1>3, <1>8, <1>9, <1>10 DEF Counts
<1> QED BY <1>3, <1>11 DEF Sized

\* A set that is not empty has an element to leave out.
LEMMA SizedPick ==
    ASSUME NEW S, NEW n, Sized(S, n), n # 0
    PROVE  \E x \in S : n - 1 \in Nat /\ Sized(S \ {x}, n - 1)
<1>1. PICK f : Counts(f, n, S)
  BY DEF Sized
<1>2. n \in Nat /\ n - 1 \in Nat /\ f[n] \in S
  BY <1>1 DEF Counts
<1> QED BY <1>2, SizedRemove

\* A set has one size.
LEMMA SizedOnce ==
    ASSUME NEW S, NEW n, NEW m, Sized(S, n), Sized(S, m)
    PROVE  n = m
<1> DEFINE Bad == {k \in Nat : \E T, l : Sized(T, k) /\ Sized(T, l) /\ k # l}
<1>1. SUFFICES Bad = {}
  BY <1>1, SizedNat
<1>2. SUFFICES ASSUME Bad # {} PROVE FALSE
  OBVIOUS
<1>3. PICK k \in Bad : \A y \in Bad : k <= y
  <2>1. Bad \in SUBSET Nat
    OBVIOUS
  <2> HIDE DEF Bad
  <2> QED BY <2>1, <1>2, LeastNat
<1>4. PICK T, l : Sized(T, k) /\ Sized(T, l) /\ k # l
  BY <1>3
<1>5. k # 0 /\ l # 0
  BY <1>4, SizedEmpty
<1>6. PICK x \in T : k - 1 \in Nat /\ Sized(T \ {x}, k - 1)
  BY <1>4, <1>5, SizedPick
<1>7. Sized(T \ {x}, l - 1) /\ l \in Nat /\ k \in Nat
  BY <1>4, SizedRemove, SizedNat
<1>8. k - 1 \in Bad
  BY <1>4, <1>6, <1>7
<1> HIDE DEF Bad
<1> QED BY <1>3, <1>7, <1>8

\* A part of a set has a size.
LEMMA SizedPart ==
    ASSUME NEW S, NEW n, Sized(S, n), NEW T \in SUBSET S
    PROVE  \E m \in 0 .. n : Sized(T, m) /\ (m = n => T = S)
<1> DEFINE Good(A, k, B) == \E m \in 0 .. k : Sized(B, m) /\ (m = k => B = A)
           Bad == {k \in Nat : \E A : Sized(A, k) /\ \E B \in SUBSET A : ~Good(A, k, B)}
<1>1. SUFFICES Bad = {}
  BY <1>1, SizedNat
<1>2. SUFFICES ASSUME Bad # {} PROVE FALSE
  OBVIOUS
<1>3. PICK k \in Bad : \A y \in Bad : k <= y
  <2>1. Bad \in SUBSET Nat
    OBVIOUS
  <2> HIDE DEF Bad
  <2> QED BY <2>1, <1>2, LeastNat
<1>4. PICK A : Sized(A, k) /\ \E B \in SUBSET A : ~Good(A, k, B)
  BY <1>3
<1>5. PICK B \in SUBSET A : ~Good(A, k, B)
  BY <1>4
<1>6. k \in Nat
  BY <1>3
<1>7. k # 0
  <2> SUFFICES ASSUME k = 0 PROVE FALSE
    OBVIOUS
  <2>1. A = {} /\ B = {}
    BY <1>4, SizedEmpty
  <2> QED BY <1>5, <2>1, SizedEmpty
<1>8. PICK x \in A : k - 1 \in Nat /\ Sized(A \ {x}, k - 1)
  BY <1>4, <1>7, SizedPick
<1>9. \A C \in SUBSET (A \ {x}) : Good(A \ {x}, k - 1, C)
  <2>1. k - 1 \notin Bad
    <3> HIDE DEF Bad
    <3> QED BY <1>3, <1>6
  <2> HIDE DEF Good
  <2> QED BY <2>1, <1>8
<1>10. CASE x \notin B
  <2>1. PICK m \in 0 .. k - 1 : Sized(B, m)
    BY <1>9, <1>10
  <2>2. m \in 0 .. k /\ m # k
    BY <1>6
  <2> QED BY <1>5, <2>1, <2>2
<1>11. CASE x \in B
  <2>1. PICK m \in 0 .. k - 1 : Sized(B \ {x}, m) /\ (m = k - 1 => B \ {x} = A \ {x})
    BY <1>9
  <2>2. (B \ {x}) \cup {x} = B /\ x \notin B \ {x}
    BY <1>11
  <2>3. Sized((B \ {x}) \cup {x}, m + 1)
    BY <2>1, <2>2, SizedAdd
  <2>4. m + 1 \in 0 .. k /\ (m + 1 = k => m = k - 1)
    BY <1>6
  <2>5. m + 1 = k => B = A
    BY <1>11, <2>1, <2>4
  <2> QED BY <1>5, <2>2, <2>3, <2>4, <2>5
<1> QED BY <1>10, <1>11

\* The finite sets are those with a size.
LEMMA FiniteIsSized ==
    ASSUME NEW S
    PROVE  IsFiniteSet(S) <=> \E n : Sized(S, n)
<1>1. ASSUME NEW n, Sized(S, n) PROVE IsFiniteSet(S)
  <2>1. PICK f : Counts(f, n, S)
    BY <1>1 DEF Sized
  <2>2. n \in Nat /\ f \in [1 .. n -> S] /\ \A x \in S : \E i \in 1 .. n : f[i] = x
    BY <2>1 DEF Counts
  <2>3. f \in Seq(S) /\ Len(f) = n
    BY <2>2
  <2> QED BY <2>2, <2>3 DEF IsFiniteSet
<1>2. ASSUME IsFiniteSet(S) PROVE \E n : Sized(S, n)
  <2>1. PICK seq \in Seq(S) : \A s \in S : \E n \in 1 .. Len(seq) : seq[n] = s
    BY <1>2 DEF IsFiniteSet
  <2> DEFINE First(k) == {seq[i] : i \in 1 .. k}
             Bad == {k \in 0 .. Len(seq) : ~ \E n : Sized(First(k), n)}
  <2>2. Len(seq) \in Nat /\ \A i \in 1 .. Len(seq) : seq[i] \in S
    BY <2>1
  <2>3. Bad = {}
    <3>1. SUFFICES ASSUME Bad # {} PROVE FALSE
      BY Zenon
    <3>2. PICK k \in Bad : \A y \in Bad : k <= y
      <4>1. Bad \in SUBSET Nat
        BY <2>2
      <4> HIDE DEF Bad
      <4> QED BY <4>1, <3>1, LeastNat
    <3>3. k \in 0 .. Len(seq) /\ ~ \E n : Sized(First(k), n)
      BY <3>2, Zenon
    <3>4. k # 0
      <4>1. First(0) = {}
        OBVIOUS
      <4> QED BY <4>1, <3>3, SizedEmpty, Zenon
    <3>5. k - 1 \in 0 .. Len(seq) /\ k - 1 \notin Bad
      <4> HIDE DEF Bad
      <4> QED BY <3>2, <3>3, <3>4, <2>2
    <3>6. PICK n : Sized(First(k - 1), n)
      BY <3>5, Zenon
    <3>7. First(k) = First(k - 1) \cup {seq[k]}
      <4>1. \A i \in 1 .. k : i \in 1 .. k - 1 \/ i = k
        BY <3>3
      <4>2. k \in 1 .. k /\ \A i \in 1 .. k - 1 : i \in 1 .. k
        BY <3>3, <3>4
      <4> QED BY <4>1, <4>2
    <3> HIDE DEF First, Bad
    <3>8. CASE seq[k] \in First(k - 1)
      <4>1. First(k) = First(k - 1)
        BY <3>7, <3>8
      <4> QED BY <3>3, <3>6, <4>1
    <3>9. CASE seq[k] \notin First(k - 1)
      <4>1. Sized(First(k - 1) \cup {seq[k]}, n + 1)
        BY <3>6, <3>9, SizedAdd, Zenon
      <4> QED BY <3>3, <3>7, <4>1, Zenon
    <3> QED BY <3>8, <3>9
  <2>4. First(Len(seq)) = S
    BY <2>1, <2>2
  <2>5. Len(seq) \in 0 .. Len(seq)
    BY <2>2
  <2> HIDE DEF First
  <2> QED BY <2>3, <2>4, <2>5
<1> QED BY <1>1, <1>2

\* g satisfies the recursion that Cardinality computes S by.
Tallies(g, S) ==
    g = [T \in SUBSET S |-> IF T = {} THEN 0 ELSE 1 + g[T \ {CHOOSE x : x \in T}]]

\* What the recursion gives is the size.
LEMMA TallyIsSize ==
    ASSUME NEW S, NEW g, Tallies(g, S), NEW n, Sized(S, n)
    PROVE  g[S] = n
<1> DEFINE Bad == {k \in Nat : \E T \in SUBSET S : Sized(T, k) /\ g[T] # k}
<1>1. SUFFICES Bad = {}
  BY <1>1, SizedNat
<1>2. SUFFICES ASSUME Bad # {} PROVE FALSE
  OBVIOUS
<1>3. PICK k \in Bad : \A y \in Bad : k <= y
  <2>1. Bad \in SUBSET Nat
    OBVIOUS
  <2> HIDE DEF Bad
  <2> QED BY <2>1, <1>2, LeastNat
<1>4. PICK T \in SUBSET S : Sized(T, k) /\ g[T] # k
  BY <1>3
<1> DEFINE x == CHOOSE y : y \in T
<1>5. g[T] = IF T = {} THEN 0 ELSE 1 + g[T \ {x}]
  BY DEF Tallies
<1>6. T # {}
  BY <1>4, <1>5, SizedEmpty
<1>7. x \in T
  BY <1>6
<1> HIDE DEF x
<1>8. Sized(T \ {x}, k - 1) /\ k \in Nat /\ k - 1 \in Nat
  BY <1>4, <1>7, SizedRemove, SizedNat
<1>9. k - 1 \notin Bad
  <2> HIDE DEF Bad
  <2> QED BY <1>3, <1>8
<1>10. g[T \ {x}] = k - 1
  BY <1>8, <1>9
<1> QED BY <1>3, <1>4, <1>5, <1>6, <1>10

\* The recursion defines a function.
LEMMA TallyExists ==
    ASSUME NEW S, NEW n, Sized(S, n)
    PROVE  \E g : Tallies(g, S)
<1> DEFINE Size(T) == CHOOSE m : Sized(T, m)
           g == [T \in SUBSET S |-> Size(T)]
<1>1. ASSUME NEW T \in SUBSET S
      PROVE  /\ Sized(T, Size(T))
             /\ \A m : Sized(T, m) => m = Size(T)
  <2>1. \E m : Sized(T, m)
    BY SizedPart
  <2>2. Sized(T, Size(T))
    BY <2>1, Zenon
  <2> HIDE DEF Size
  <2> QED BY <2>2, SizedOnce
<1>2. ASSUME NEW T \in SUBSET S
      PROVE  g[T] = IF T = {} THEN 0 ELSE 1 + g[T \ {CHOOSE x : x \in T}]
  <2> DEFINE x == CHOOSE y : y \in T
  <2>1. CASE T = {}
    <3>1. Size(T) = 0
      <4> HIDE DEF Size
      <4> QED BY <1>1, <2>1, SizedEmpty
    <3> QED BY <2>1, <3>1
  <2>2. CASE T # {}
    <3>1. x \in T
      BY <2>2
    <3> HIDE DEF x
    <3>2. Sized(T, Size(T)) /\ Sized(T \ {x}, Size(T \ {x}))
      <4> HIDE DEF Size
      <4> QED BY <1>1
    <3> HIDE DEF Size
    <3>3. Size(T) \in Nat /\ Sized(T \ {x}, Size(T) - 1)
      BY <3>1, <3>2, SizedRemove, SizedNat
    <3>4. Size(T \ {x}) = Size(T) - 1
      BY <3>2, <3>3, SizedOnce
    <3>5. g[T] = Size(T) /\ g[T \ {x}] = Size(T \ {x})
      OBVIOUS
    <3> HIDE DEF g
    <3>6. g[T] = 1 + g[T \ {x}]
      BY <3>3, <3>4, <3>5
    <3> QED BY <2>2, <3>6 DEF x
  <2> QED BY <2>1, <2>2
<1>3. g = [T \in SUBSET S |-> g[T]]
  OBVIOUS
<1>4. Tallies(g, S)
  <2> HIDE DEF g
  <2> QED BY <1>2, <1>3, Zenon DEF Tallies
<1> QED BY <1>4

\* Cardinality gives the size.
LEMMA CardinalityIsSize ==
    ASSUME NEW S, NEW n, Sized(S, n)
    PROVE  IsFiniteSet(S) /\ Cardinality(S) = n
<1> DEFINE g == CHOOSE g : Tallies(g, S)
<1>1. Cardinality(S) = g[S]
  BY DEF Cardinality, Tallies
<1>2. Tallies(g, S)
  BY TallyExists, Zenon
<1> HIDE DEF g
<1> QED BY <1>1, <1>2, TallyIsSize, FiniteIsSized

\* A finite set has its cardinality as its size.
LEMMA FiniteSize ==
    ASSUME NEW S, IsFiniteSet(S)
    PROVE  Sized(S, Cardinality(S)) /\ Cardinality(S) \in Nat
BY FiniteIsSized, CardinalityIsSize, SizedNat

\* The cardinality of a finite set is a natural.
LEMMA FS_CardinalityType ==
    ASSUME NEW S, IsFiniteSet(S)
    PROVE  Cardinality(S) \in Nat
BY FiniteSize

\* Only the empty set has no element.
LEMMA FS_EmptySet ==
    /\ IsFiniteSet({})
    /\ Cardinality({}) = 0
    /\ \A S : IsFiniteSet(S) => (Cardinality(S) = 0 <=> S = {})
<1>1. IsFiniteSet({}) /\ Cardinality({}) = 0
  BY SizedEmpty, CardinalityIsSize
<1>2. \A S : IsFiniteSet(S) /\ Cardinality(S) = 0 => S = {}
  BY SizedEmpty, FiniteSize
<1> QED BY <1>1, <1>2

\* A new element adds one.
LEMMA FS_AddElement ==
    ASSUME NEW S, NEW x, IsFiniteSet(S)
    PROVE  /\ IsFiniteSet(S \cup {x})
           /\ Cardinality(S \cup {x}) =
                IF x \in S THEN Cardinality(S) ELSE Cardinality(S) + 1
<1>1. CASE x \in S
  <2>1. S \cup {x} = S
    BY <1>1
  <2> QED BY <1>1, <2>1
<1>2. CASE x \notin S
  <2>1. Sized(S \cup {x}, Cardinality(S) + 1)
    BY <1>2, FiniteSize, SizedAdd
  <2> QED BY <1>2, <2>1, CardinalityIsSize
<1> QED BY <1>1, <1>2

\* An element left out takes one away.
LEMMA FS_RemoveElement ==
    ASSUME NEW S, NEW x, IsFiniteSet(S)
    PROVE  /\ IsFiniteSet(S \ {x})
           /\ Cardinality(S \ {x}) =
                IF x \in S THEN Cardinality(S) - 1 ELSE Cardinality(S)
<1>1. CASE x \notin S
  <2>1. S \ {x} = S
    BY <1>1
  <2> QED BY <1>1, <2>1
<1>2. CASE x \in S
  <2>1. Sized(S \ {x}, Cardinality(S) - 1)
    BY <1>2, FiniteSize, SizedRemove
  <2> QED BY <1>2, <2>1, CardinalityIsSize
<1> QED BY <1>1, <1>2

\* A part is no larger, and smaller unless it is the whole.
LEMMA FS_Subset ==
    ASSUME NEW S, IsFiniteSet(S), NEW T \in SUBSET S
    PROVE  /\ IsFiniteSet(T)
           /\ Cardinality(T) <= Cardinality(S)
           /\ Cardinality(S) = Cardinality(T) => S = T
<1>1. PICK m \in 0 .. Cardinality(S) : Sized(T, m) /\ (m = Cardinality(S) => T = S)
  BY FiniteSize, SizedPart
<1>2. IsFiniteSet(T) /\ Cardinality(T) = m
  BY <1>1, CardinalityIsSize
<1> QED BY <1>1, <1>2, FiniteSize

\* The size of an interval.
LEMMA FS_Interval ==
    ASSUME NEW a \in Int, NEW b \in Int
    PROVE  /\ IsFiniteSet(a .. b)
           /\ Cardinality(a .. b) = IF a > b THEN 0 ELSE b - a + 1
<1> DEFINE n == IF a > b THEN 0 ELSE b - a + 1
           f == [i \in 1 .. n |-> a + i - 1]
<1>1. n \in Nat /\ \A i \in 1 .. n : f[i] = a + i - 1 /\ a + i - 1 \in a .. b
  OBVIOUS
<1>2. f \in [1 .. n -> a .. b]
  BY <1>1
<1>3. ASSUME NEW x \in a .. b PROVE \E i \in 1 .. n : f[i] = x
  <2>1. x - a + 1 \in 1 .. n /\ a + (x - a + 1) - 1 = x
    OBVIOUS
  <2> QED BY <1>1, <2>1, Zenon
<1>4. ASSUME NEW i \in 1 .. n, NEW j \in 1 .. n, f[i] = f[j] PROVE i = j
  BY <1>1, <1>4
<1>5. Counts(f, n, a .. b)
  BY <1>1, <1>2, <1>3, <1>4, Zenon DEF Counts
<1>6. Sized(a .. b, n)
  BY <1>5 DEF Sized
<1> QED BY <1>6, CardinalityIsSize

\* f maps S onto T.
Onto(f, S, T) == f \in [S -> T] /\ \A t \in T : \E s \in S : f[s] = t

\* No two elements of S are mapped to the same.
OneToOne(f, S) == \A a, b \in S : f[a] = f[b] => a = b

\* An image is no larger, and smaller if two elements have the same image.
LEMMA SizedOnto ==
    ASSUME NEW S, NEW n, Sized(S, n), NEW f, NEW T, Onto(f, S, T)
    PROVE  \E m \in 0 .. n : Sized(T, m) /\ (m = n <=> OneToOne(f, S))
<1> DEFINE Good(A, k, g, B) == \E m \in 0 .. k : Sized(B, m) /\ (m = k <=> OneToOne(g, A))
           Bad == {k \in Nat : \E A, g, B : Sized(A, k) /\ Onto(g, A, B) /\ ~Good(A, k, g, B)}
<1>1. SUFFICES Bad = {}
  BY <1>1, SizedNat
<1>2. SUFFICES ASSUME Bad # {} PROVE FALSE
  OBVIOUS
<1>3. PICK k \in Bad : \A y \in Bad : k <= y
  <2>1. Bad \in SUBSET Nat
    OBVIOUS
  <2> HIDE DEF Bad
  <2> QED BY <2>1, <1>2, LeastNat
<1>4. PICK A, g, B : Sized(A, k) /\ Onto(g, A, B) /\ ~Good(A, k, g, B)
  BY <1>3
<1>5. k \in Nat
  BY <1>3
<1>6. k # 0
  <2> SUFFICES ASSUME k = 0 PROVE FALSE
    OBVIOUS
  <2>1. A = {}
    BY <1>4, SizedEmpty
  <2>2. B = {} /\ OneToOne(g, A)
    BY <1>4, <2>1 DEF Onto, OneToOne
  <2> QED BY <1>4, <2>2, SizedEmpty
<1>7. PICK x \in A : k - 1 \in Nat /\ Sized(A \ {x}, k - 1)
  BY <1>4, <1>6, SizedPick
<1> DEFINE C == {g[y] : y \in A \ {x}}
           h == [y \in A \ {x} |-> g[y]]
<1>8. Onto(h, A \ {x}, C)
  BY DEF Onto
<1>9. OneToOne(h, A \ {x}) <=> OneToOne(g, A \ {x})
  BY DEF OneToOne
<1>10. B = C \cup {g[x]}
  BY <1>4 DEF Onto
<1>11. g[x] \in C <=> \E y \in A \ {x} : g[y] = g[x]
  OBVIOUS
<1> HIDE DEF C, h
<1>12. Good(A \ {x}, k - 1, h, C)
  <2>1. k - 1 \notin Bad
    <3> HIDE DEF Bad
    <3> QED BY <1>3, <1>5
  <2> HIDE DEF Good
  <2> QED BY <2>1, <1>7, <1>8
<1>13. PICK m \in 0 .. k - 1 : Sized(C, m) /\ (m = k - 1 <=> OneToOne(g, A \ {x}))
  BY <1>9, <1>12
<1>14. CASE g[x] \in C
  <2>1. B = C /\ ~OneToOne(g, A)
    BY <1>10, <1>11, <1>14 DEF OneToOne
  <2>2. m \in 0 .. k /\ m # k
    BY <1>5, <1>13
  <2> QED BY <1>4, <1>13, <2>1, <2>2
<1>15. CASE g[x] \notin C
  <2>1. OneToOne(g, A) <=> OneToOne(g, A \ {x})
    BY <1>11, <1>15 DEF OneToOne
  <2>2. Sized(B, m + 1)
    BY <1>10, <1>13, <1>15, SizedAdd
  <2>3. m + 1 \in 0 .. k /\ (m + 1 = k <=> m = k - 1)
    BY <1>5, <1>13
  <2> QED BY <1>4, <1>13, <2>1, <2>2, <2>3
<1> QED BY <1>14, <1>15

\* A function maps a finite set onto a finite one, which has its size only if
\* no two elements are mapped to the same.
LEMMA FS_Onto ==
    ASSUME NEW S, NEW T, NEW f, Onto(f, S, T), IsFiniteSet(S)
    PROVE  /\ IsFiniteSet(T)
           /\ Cardinality(T) <= Cardinality(S)
           /\ Cardinality(T) = Cardinality(S) <=>
                \A a, b \in S : f[a] = f[b] => a = b
<1>1. PICK m \in 0 .. Cardinality(S) : Sized(T, m) /\ (m = Cardinality(S) <=> OneToOne(f, S))
  BY FiniteSize, SizedOnto
<1>2. IsFiniteSet(T) /\ Cardinality(T) = m /\ Cardinality(S) \in Nat
  BY <1>1, CardinalityIsSize, FiniteSize
<1> QED BY <1>1, <1>2 DEF OneToOne

-----------------------------------------------------------------------------
(* Numbers that wait in a line.                                            *)

\* s is strictly increasing.
Rising(s) == \A i, j \in 1 .. Len(s) : i < j => s[i] < s[j]

\* long is short and after it, in order, numbers after m and up to n.
Continued(long, short, m, n) ==
    /\ long \in Seq(Nat) /\ Len(long) >= Len(short)
    /\ \A i \in 1 .. Len(short) : long[i] = short[i]
    /\ \A i \in Len(short) + 1 .. Len(long) : long[i] \in m + 1 .. n
    /\ \A i, j \in Len(short) + 1 .. Len(long) : i < j => long[i] < long[j]

\* d and q after it are one increasing sequence of numbers up to m, and none
\* of them is in l.
InLine(m, d, q, l) ==
    /\ m \in Nat
    /\ d \in Seq(Nat) /\ q \in Seq(Nat)
    /\ Rising(d) /\ Rising(q)
    /\ \A i \in 1 .. Len(d), j \in 1 .. Len(q) : d[i] < q[j]
    /\ \A i \in 1 .. Len(d) : d[i] \in 1 .. m
    /\ \A i \in 1 .. Len(q) : q[i] \in 1 .. m
    /\ l \subseteq 1 .. m
    /\ \A i \in 1 .. Len(d) : d[i] \notin l
    /\ \A i \in 1 .. Len(q) : q[i] \notin l

\* What a continuation adds is new, and in order.
LEMMA ContinuedRising ==
    ASSUME NEW long, NEW short \in Seq(Nat), NEW m \in Nat, NEW n \in Nat, n >= m,
           Continued(long, short, m, n), Rising(short),
           \A i \in 1 .. Len(short) : short[i] \in 1 .. m
    PROVE  /\ long \in Seq(Nat) /\ Rising(long)
           /\ \A i \in 1 .. Len(long) :
                /\ long[i] \in 1 .. n
                /\ \/ i \in 1 .. Len(short) /\ long[i] = short[i]
                   \/ long[i] > m
<1>1. Len(long) \in Nat /\ Len(short) \in Nat /\ long \in Seq(Nat)
  BY DEF Continued
<1>2. ASSUME NEW i \in 1 .. Len(long)
      PROVE  \/ i \in 1 .. Len(short) /\ long[i] = short[i]
             \/ /\ i \in Len(short) + 1 .. Len(long)
                /\ long[i] \in m + 1 .. n
  <2>1. i \in 1 .. Len(short) \/ i \in Len(short) + 1 .. Len(long)
    BY <1>1
  <2> QED BY <2>1 DEF Continued
<1>3. ASSUME NEW i \in 1 .. Len(long)
      PROVE  /\ long[i] \in 1 .. n
             /\ \/ i \in 1 .. Len(short) /\ long[i] = short[i]
                \/ long[i] > m
  BY <1>2
<1>4. ASSUME NEW i \in 1 .. Len(long), NEW j \in 1 .. Len(long), i < j
      PROVE  long[i] < long[j]
  <2>1. CASE i \in 1 .. Len(short) /\ j \in 1 .. Len(short)
    BY <1>4, <2>1 DEF Continued, Rising
  <2>2. CASE i \in 1 .. Len(short) /\ j \in Len(short) + 1 .. Len(long)
    <3>1. long[i] = short[i] /\ short[i] \in 1 .. m /\ long[j] \in m + 1 .. n
      BY <2>2 DEF Continued
    <3> QED BY <3>1
  <2>3. CASE i \in Len(short) + 1 .. Len(long) /\ j \in Len(short) + 1 .. Len(long)
    BY <1>4, <2>3 DEF Continued
  <2>4. CASE i \in Len(short) + 1 .. Len(long) /\ j \in 1 .. Len(short)
    BY <1>1, <1>4, <2>4
  <2> QED BY <1>2, <2>1, <2>2, <2>3, <2>4
<1> QED BY <1>1, <1>3, <1>4 DEF Rising

\* The line gets longer; or d takes it, and more; or it is given up.
LEMMA InLineStep ==
    ASSUME NEW m, NEW n, NEW d, NEW e, NEW q, NEW r, NEW l, NEW k,
           InLine(m, d, q, l), n \in Nat, n >= m,
           \/ Continued(r, q, m, n) /\ e = d /\ k = l
           \/ Continued(e, d \o q, m, n) /\ r = <<>> /\ k = l
           \/ k \subseteq l \cup Members(q) \cup (m + 1 .. n) /\ r = <<>> /\ e = d
    PROVE  InLine(n, e, r, k)
<1>1. CASE Continued(r, q, m, n) /\ e = d /\ k = l
  <2>1. Continued(r, q, m, n) /\ e = d /\ k = l
    BY <1>1
  <2>2. /\ r \in Seq(Nat) /\ Rising(r)
        /\ \A i \in 1 .. Len(r) :
            /\ r[i] \in 1 .. n
            /\ \/ i \in 1 .. Len(q) /\ r[i] = q[i]
               \/ r[i] > m
    BY <2>1, ContinuedRising, Zenon DEF InLine
  <2>3. k \subseteq 1 .. n /\ \A i \in 1 .. Len(e) : e[i] \in 1 .. n
    BY <2>1 DEF InLine
  <2>4. ASSUME NEW j \in 1 .. Len(r)
        PROVE  /\ r[j] \notin k
               /\ \A i \in 1 .. Len(e) : e[i] < r[j]
    <3>1. CASE j \in 1 .. Len(q) /\ r[j] = q[j]
      BY <2>1, <3>1 DEF InLine
    <3>2. CASE r[j] > m
      <4>1. r[j] \notin 1 .. m
        BY <3>2, <2>2 DEF InLine
      <4>2. \A x \in 1 .. m : x < r[j]
        BY <3>2, <2>2 DEF InLine
      <4> QED BY <2>1, <4>1, <4>2, Zenon DEF InLine
    <3> QED BY <2>2, <3>1, <3>2
  <2> QED BY <2>1, <2>2, <2>3, <2>4 DEF InLine, Rising
<1>2. CASE Continued(e, d \o q, m, n) /\ r = <<>> /\ k = l
  <2> DEFINE c == d \o q
  <2>1. Continued(e, c, m, n) /\ r = <<>> /\ k = l
    BY <1>2
  <2>2. /\ c \in Seq(Nat) /\ Len(c) = Len(d) + Len(q)
        /\ \A i \in 1 .. Len(c) :
            \/ i \in 1 .. Len(d) /\ c[i] = d[i]
            \/ /\ i \in Len(d) + 1 .. Len(c)
               /\ i - Len(d) \in 1 .. Len(q) /\ c[i] = q[i - Len(d)]
    <3>1. IsList(d) /\ IsList(q) /\ c \in Seq(Nat)
      BY SeqIsList DEF InLine
    <3>2. /\ Len(c) = Len(d) + Len(q)
          /\ \A i \in 1 .. Len(c) :
                IF i <= Len(d) THEN c[i] = d[i]
                ELSE /\ i - Len(d) \in 1 .. Len(q)
                     /\ c[i] = q[i - Len(d)]
      BY <3>1, ListConcat
    <3>3. Len(d) \in Nat /\ Len(q) \in Nat
      BY <3>1, ListLen
    <3> HIDE DEF c
    <3> QED BY <3>1, <3>2, <3>3
  <2> HIDE DEF c
  <2>3. \A i \in 1 .. Len(c) : c[i] \in 1 .. m /\ c[i] \notin l
    BY <2>2, Zenon DEF InLine
  <2>4. Rising(c)
    <3> SUFFICES ASSUME NEW i \in 1 .. Len(c), NEW j \in 1 .. Len(c), i < j
                 PROVE  c[i] < c[j]
      BY DEF Rising
    <3>1. CASE i \in 1 .. Len(d) /\ c[i] = d[i]
               /\ j \in 1 .. Len(d) /\ c[j] = d[j]
      BY <3>1 DEF InLine, Rising
    <3>2. CASE i \in 1 .. Len(d) /\ c[i] = d[i]
               /\ j - Len(d) \in 1 .. Len(q) /\ c[j] = q[j - Len(d)]
      BY <3>2 DEF InLine
    <3>3. CASE i - Len(d) \in 1 .. Len(q) /\ c[i] = q[i - Len(d)]
               /\ j - Len(d) \in 1 .. Len(q) /\ c[j] = q[j - Len(d)]
      <4>1. i - Len(d) < j - Len(d)
        BY DEF InLine
      <4> QED BY <3>3, <4>1, Zenon DEF InLine, Rising
    <3>4. CASE i \in Len(d) + 1 .. Len(c) /\ j \in 1 .. Len(d)
      BY <3>4 DEF InLine
    <3> QED BY <2>2, <3>1, <3>2, <3>3, <3>4
  <2>5. /\ e \in Seq(Nat) /\ Rising(e)
        /\ \A i \in 1 .. Len(e) :
            /\ e[i] \in 1 .. n
            /\ \/ i \in 1 .. Len(c) /\ e[i] = c[i]
               \/ e[i] > m
    BY <2>1, <2>2, <2>3, <2>4, ContinuedRising, Zenon DEF InLine
  <2>6. \A i \in 1 .. Len(e) : e[i] \notin k
    <3> TAKE i \in 1 .. Len(e)
    <3>1. CASE i \in 1 .. Len(c) /\ e[i] = c[i]
      BY <2>1, <2>3, <3>1
    <3>2. CASE e[i] > m
      BY <2>1, <2>5, <3>2 DEF InLine
    <3> QED BY <2>5, <3>1, <3>2
  <2>7. k \subseteq 1 .. n
    BY <2>1 DEF InLine
  <2>8. r \in Seq(Nat) /\ Len(r) = 0
    BY <2>1
  <2> QED BY <2>5, <2>6, <2>7, <2>8 DEF InLine, Rising
<1>3. CASE k \subseteq l \cup Members(q) \cup (m + 1 .. n) /\ r = <<>> /\ e = d
  <2>1. /\ k \subseteq l \cup Members(q) \cup (m + 1 .. n)
        /\ r = <<>> /\ e = d
    BY <1>3
  <2>2. r \in Seq(Nat) /\ Len(r) = 0
    BY <2>1
  <2>3. k \subseteq 1 .. n
    <3>1. l \subseteq 1 .. n /\ 1 .. m \subseteq 1 .. n /\ m + 1 .. n \subseteq 1 .. n
      BY DEF InLine
    <3>2. Members(q) \subseteq 1 .. m
      BY DEF InLine, Members
    <3> QED BY <2>1, <3>1, <3>2
  <2>4. ASSUME NEW i \in 1 .. Len(d)
        PROVE  d[i] \notin k /\ d[i] \in 1 .. n
    <3>1. d[i] \in 1 .. m /\ d[i] \notin l
      BY DEF InLine
    <3>2. d[i] \notin m + 1 .. n /\ d[i] \in 1 .. n
      BY <3>1 DEF InLine
    <3>3. d[i] \notin Members(q)
      <4>1. \A j \in 1 .. Len(q) : d[i] < q[j] /\ q[j] \in Nat
        BY DEF InLine
      <4>2. \A j \in 1 .. Len(q) : d[i] # q[j]
        BY <3>1, <4>1
      <4> QED BY <4>2 DEF Members
    <3> QED BY <2>1, <3>1, <3>2, <3>3
  <2> QED BY <2>1, <2>2, <2>3, <2>4 DEF InLine, Rising
<1> QED BY <1>1, <1>2, <1>3

LEMMA InLineApart ==
    ASSUME NEW m, NEW d, NEW q, NEW l, InLine(m, d, q, l)
    PROVE  /\ Rising(d)
           /\ Members(d) \cap Members(q) = {}
           /\ Members(d) \cap l = {}
           /\ Members(q) \cap l = {}
<1>1. Members(d) \cap l = {} /\ Members(q) \cap l = {}
  BY DEF InLine, Members
<1>2. Members(d) \cap Members(q) = {}
  <2>1. \A i \in 1 .. Len(d), j \in 1 .. Len(q) : d[i] # q[j]
    BY DEF InLine
  <2> QED BY <2>1 DEF Members
<1> QED BY <1>1, <1>2 DEF InLine

=============================================================================
