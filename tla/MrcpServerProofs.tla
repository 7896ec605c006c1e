-------------------------- MODULE MrcpServerProofs --------------------------
(***************************************************************************)
(* The step-0 server, for any number of connections and datagrams of any   *)
(* shape and position, any capacity of the jitter buffer and any answer of *)
(* the recogniser: its socket is open exactly while a turn collects, it    *)
(* answers only for a reason, its drain reads all that reached the socket  *)
(* before the end of the input is acted on, and a turn leaves nothing      *)
(* behind in the event loop.                                               *)
(***************************************************************************)
EXTENDS MrcpServer, FiniteSetTheorems, WellFoundedInduction, TLAPS

-----------------------------------------------------------------------------
(* The window on numbers alone: a position may be anything here.           *)

Number == 0..(2 * Half - 1)

\* The number j after n.
After(n, j) == (n + j) % 65536

\* The buffer before the next number is known (-1), and after.
Keyed(b, n) ==
    /\ DOMAIN b \subseteq Number
    /\ n = -1 => DOMAIN b = {}
    /\ n # -1 => n \in Number /\ \A s \in DOMAIN b : SeqDistance(n, s) <= Half

\* What numbers are.
LEMMA NumberIs == \A n : n \in Number <=> n \in Int /\ 0 <= n /\ n < 65536
<1> DEFINE top == 2 * Half - 1
<1>1. top = 65535
  BY DEF Half
<1> HIDE DEF top
<1>2. Number = 0..top
  BY DEF Number, top
<1>3. ASSUME NEW n \in 0..top
      PROVE  n \in Int /\ 0 <= n /\ n < 65536
  BY <1>1
<1>4. ASSUME NEW n \in Int, 0 <= n, n < 65536
      PROVE  n \in 0..top
  <2>1. n <= top /\ top \in Int
    BY <1>1, <1>4
  <2> QED
    BY <1>4, <2>1
<1> QED
  BY <1>2, <1>3, <1>4

\* Counting on from a number wraps once.
LEMMA AfterIs ==
    ASSUME NEW n \in Number, NEW j \in Int, 0 <= j, j < 65536
    PROVE  After(n, j) = IF n + j < 65536 THEN n + j ELSE n + j - 65536
BY NumberIs DEF After

\* And so does counting back.
LEMMA DistanceIs ==
    ASSUME NEW n \in Number, NEW s \in Number
    PROVE  SeqDistance(n, s) = IF s >= n THEN s - n ELSE s - n + 65536
BY NumberIs DEF SeqDistance

\* Distances and numbers correspond.
LEMMA Correspond ==
    ASSUME NEW n \in Number
    PROVE  /\ \A s \in Number : /\ SeqDistance(n, s) \in Int
                                /\ 0 <= SeqDistance(n, s) /\ SeqDistance(n, s) < 65536
                                /\ After(n, SeqDistance(n, s)) = s
           /\ \A j \in Int : 0 <= j /\ j < 65536 =>
                After(n, j) \in Number /\ SeqDistance(n, After(n, j)) = j
<1>1. ASSUME NEW s \in Number
      PROVE  /\ SeqDistance(n, s) \in Int
             /\ 0 <= SeqDistance(n, s) /\ SeqDistance(n, s) < 65536
             /\ After(n, SeqDistance(n, s)) = s
  <2>1. /\ SeqDistance(n, s) \in Int
        /\ 0 <= SeqDistance(n, s) /\ SeqDistance(n, s) < 65536
    BY DistanceIs, NumberIs
  <2> DEFINE e == SeqDistance(n, s)
  <2>2. e = IF s >= n THEN s - n ELSE s - n + 65536
    BY DistanceIs
  <2>3. e \in Int /\ 0 <= e /\ e < 65536
    BY <2>1
  <2>4. n \in Int /\ s \in Int /\ 0 <= s /\ s < 65536 /\ 0 <= n /\ n < 65536
    BY NumberIs
  <2> HIDE DEF e
  <2>5. After(n, e) = IF n + e < 65536 THEN n + e ELSE n + e - 65536
    BY <2>3, AfterIs
  <2>6. After(n, e) = s
    BY <2>2, <2>3, <2>4, <2>5
  <2> QED
    BY <2>1, <2>6 DEF e
<1>2. ASSUME NEW j \in Int, 0 <= j, j < 65536
      PROVE  After(n, j) \in Number /\ SeqDistance(n, After(n, j)) = j
  <2>1. After(n, j) \in Number
    BY <1>2, AfterIs, NumberIs
  <2> DEFINE a == After(n, j)
  <2>2. a = IF n + j < 65536 THEN n + j ELSE n + j - 65536
    BY <1>2, AfterIs
  <2>3. a \in Number /\ n \in Int /\ 0 <= n /\ n < 65536
    BY <2>1, NumberIs
  <2> HIDE DEF a
  <2>4. SeqDistance(n, a) = IF a >= n THEN a - n ELSE a - n + 65536
    BY <2>3, DistanceIs
  <2>5. SeqDistance(n, a) = j
    BY <1>2, <2>2, <2>3, <2>4
  <2> QED
    BY <2>1, <2>5 DEF a
<1> QED
  BY <1>1, <1>2

\* A nonempty set of naturals has a least element.
LEMMA LeastExists ==
    ASSUME NEW T, T \subseteq Nat, T # {}
    PROVE  \E k \in T : \A j \in T : k <= j
<1> DEFINE R == {p \in Nat \X Nat : p[1] < p[2]}
<1>1. IsWellFoundedOn(R, Nat)
  BY NatLessThanWellFounded DEF OpToRel
<1>2. \E k \in T : \A j \in T : <<j, k>> \notin R
  <2> HIDE DEF R
  <2> QED
    BY <1>1, WFMin
<1>3. \A j, k \in Nat : <<j, k>> \notin R => k <= j
  OBVIOUS
<1> HIDE DEF R
<1> QED
  BY <1>2, <1>3

\* A buffer is finite.
LEMMA BufferFinite ==
    ASSUME NEW b, NEW n, Keyed(b, n)
    PROVE  IsFiniteSet(DOMAIN b) /\ Cardinality(DOMAIN b) \in Nat
<1> DEFINE top == 2 * Half - 1
<1>1. top \in Int
  BY DEF Half
<1> HIDE DEF top
<1>2. DOMAIN b \in SUBSET (0..top)
  BY DEF Keyed, Number, top
<1>3. IsFiniteSet(0..top)
  BY <1>1, FS_Interval
<1>4. IsFiniteSet(DOMAIN b)
  BY <1>2, <1>3, FS_Subset
<1> QED
  BY <1>4, FS_CardinalityType

\* The popping loop ends at the first number that is not buffered.
LEMMA RunLengthIs ==
    ASSUME NEW b, NEW n \in Number, Keyed(b, n)
    PROVE  \E k \in Nat : /\ RunLength(b, n) = k /\ k <= Half + 1
                          /\ \A j \in Nat : j < k => After(n, j) \in DOMAIN b
                          /\ After(n, k) \notin DOMAIN b
<1> DEFINE T == {k \in Nat : After(n, k) \notin DOMAIN b}
           size == Cardinality(DOMAIN b)
<1>0. n # -1 /\ DOMAIN b \subseteq Number /\ \A s \in DOMAIN b : SeqDistance(n, s) <= Half
  BY NumberIs DEF Keyed
<1>1. Half + 1 \in T
  <2>1. Half + 1 \in Nat /\ Half + 1 < 65536 /\ Half \in Int
    BY DEF Half
  <2>2. SeqDistance(n, After(n, Half + 1)) = Half + 1
    BY <2>1, Correspond
  <2> QED
    BY <1>0, <2>1, <2>2
<1>2. PICK k \in T : \A j \in T : k <= j
  <2>1. T \subseteq Nat /\ T # {}
    BY <1>1
  <2> HIDE DEF T
  <2> QED
    BY <2>1, LeastExists
<1>3. /\ k \in Nat /\ k <= Half + 1 /\ After(n, k) \notin DOMAIN b
      /\ \A j \in Nat : j < k => After(n, j) \in DOMAIN b
  BY <1>1, <1>2
<1>4. k <= size
  <2> DEFINE f == [j \in 1..k |-> After(n, j - 1)]
  <2>1. f \in [1..k -> DOMAIN b]
    BY <1>3
  <2>2. ASSUME NEW i \in 1..k, NEW j \in 1..k, f[i] = f[j]
        PROVE  i = j
    <3>1. /\ i - 1 \in Int /\ j - 1 \in Int /\ 0 <= i - 1 /\ 0 <= j - 1
          /\ i - 1 < 65536 /\ j - 1 < 65536
      BY <1>3 DEF Half
    <3>2. After(n, i - 1) = After(n, j - 1)
      BY <2>2
    <3>3. SeqDistance(n, After(n, i - 1)) = i - 1 /\ SeqDistance(n, After(n, j - 1)) = j - 1
      BY <3>1, Correspond
    <3> QED
      BY <3>1, <3>2, <3>3
  <2> HIDE DEF f
  <2>3. f \in Injection(1..k, DOMAIN b)
    BY <2>1, <2>2 DEF Injection, IsInjective
  <2>4. IsFiniteSet(1..k) /\ Cardinality(1..k) = k
    BY <1>3, FS_Interval
  <2> QED
    BY <2>3, <2>4, BufferFinite, FS_Injection
<1>5. size \in Nat
  BY BufferFinite
<1>6. RunLength(b, n) = k
  <2> DEFINE P(m) == /\ \A j \in 0..(m - 1) : After(n, j) \in DOMAIN b
                     /\ After(n, m) \notin DOMAIN b
  <2>1. k \in 0..size /\ P(k)
    <3>1. k \in 0..size /\ \A j \in 0..(k - 1) : j \in Nat /\ j < k
      BY <1>3, <1>4, <1>5
    <3> QED
      BY <1>3, <3>1
  <2>2. ASSUME NEW m \in 0..size, P(m)
        PROVE  m = k
    <3>1. m \in Nat /\ (k < m => k \in 0..(m - 1))
      BY <1>3, <1>5
    <3>2. ~(m < k) /\ ~(k < m)
      BY <1>3, <2>2, <3>1
    <3> QED
      BY <1>3, <3>1, <3>2
  <2>3. RunLength(b, n) = CHOOSE m \in 0..size : P(m)
    BY DEF RunLength, After
  <2> HIDE DEF P, size
  <2>4. (CHOOSE m \in 0..size : P(m)) = k
    BY <2>1, <2>2
  <2> QED
    BY <2>3, <2>4
<1> QED
  BY <1>3, <1>6

\* Every number buffered is at least as far from n as m is, so m can be due.
LEMMA Rebase ==
    ASSUME NEW b, NEW n \in Number, Keyed(b, n), NEW m \in Number,
           \A s \in DOMAIN b : SeqDistance(n, m) <= SeqDistance(n, s)
    PROVE  Keyed(b, m)
<1>1. n # -1 /\ DOMAIN b \subseteq Number /\ \A s \in DOMAIN b : SeqDistance(n, s) <= Half
  BY NumberIs DEF Keyed
<1>2. ASSUME NEW s \in DOMAIN b
      PROVE  SeqDistance(m, s) <= Half
  <2>1. s \in Number /\ SeqDistance(n, s) <= Half /\ SeqDistance(n, m) <= SeqDistance(n, s)
    BY <1>1
  <2> QED
    BY <2>1, DistanceIs, NumberIs DEF Half
<1> QED
  BY <1>1, <1>2, NumberIs DEF Keyed

\* What is in a buffer.
Values(b) == {b[s] : s \in DOMAIN b}

\* One pass of the popping loop hands on values of the buffer and leaves a
\* buffer whose numbers are after the next one.
LEMMA RunIs ==
    ASSUME NEW b, NEW n \in Number, Keyed(b, n)
    PROVE  /\ AfterRun(b, n) \in Number /\ Keyed(WithoutRun(b, n), AfterRun(b, n))
           /\ Values(WithoutRun(b, n)) \subseteq Values(b)
           /\ Run(b, n) \in Seq(Values(b))
<1>1. PICK k \in Nat : /\ RunLength(b, n) = k /\ k <= Half + 1
                       /\ \A j \in Nat : j < k => After(n, j) \in DOMAIN b
                       /\ After(n, k) \notin DOMAIN b
  BY RunLengthIs
<1> DEFINE m == After(n, k)
           c == WithoutRun(b, n)
           popped == {After(n, j) : j \in 0..(k - 1)}
<1>2. n # -1 /\ DOMAIN b \subseteq Number /\ \A s \in DOMAIN b : SeqDistance(n, s) <= Half
  BY NumberIs DEF Keyed
<1>3. k \in Int /\ 0 <= k /\ k < 65536
  BY <1>1 DEF Half
<1>4. AfterRun(b, n) = m
  BY <1>1 DEF AfterRun, After
<1>5. m \in Number /\ SeqDistance(n, m) = k
  BY <1>3, Correspond
<1>6. c = [s \in DOMAIN b \ popped |-> b[s]]
  BY <1>1 DEF WithoutRun, After
<1> HIDE DEF m, c
<1>7. DOMAIN c = DOMAIN b \ popped /\ \A s \in DOMAIN c : c[s] = b[s]
  BY <1>6
<1>8. Keyed(c, m)
  <2>1. ASSUME NEW s \in DOMAIN c
        PROVE  k <= SeqDistance(n, s)
    <3>1. s \in DOMAIN b /\ s \notin popped /\ s \in Number
      BY <1>2, <1>7
    <3> DEFINE j == SeqDistance(n, s)
    <3>2. j \in Int /\ 0 <= j /\ After(n, j) = s
      BY <3>1, Correspond
    <3> HIDE DEF j
    <3>3. j < k => j \in 0..(k - 1)
      BY <1>3, <3>2
    <3> QED
      BY <1>3, <3>1, <3>2, <3>3 DEF j
  <2>2. Keyed(c, n)
    BY <1>2, <1>7 DEF Keyed
  <2>3. \A s \in DOMAIN c : SeqDistance(n, m) <= SeqDistance(n, s)
    BY <1>5, <2>1
  <2> QED
    BY <1>5, <2>2, <2>3, Rebase
<1>9. Values(c) \subseteq Values(b)
  BY <1>7 DEF Values
<1>10. Run(b, n) \in Seq(Values(b))
  <2>1. Run(b, n) = [j \in 1..k |-> b[(n + j - 1) % 65536]]
    BY <1>1 DEF Run
  <2>2. ASSUME NEW j \in 1..k
        PROVE  b[(n + j - 1) % 65536] \in Values(b)
    <3>1. j - 1 \in Nat /\ j - 1 < k /\ n + (j - 1) = n + j - 1
      BY <1>3, NumberIs
    <3>2. (n + j - 1) % 65536 \in DOMAIN b
      BY <1>1, <3>1 DEF After
    <3> QED
      BY <3>2 DEF Values
  <2>3. Run(b, n) \in [1..k -> Values(b)]
    BY <2>1, <2>2
  <2> QED
    BY <1>1, <2>3
<1> QED
  BY <1>4, <1>5, <1>8, <1>9, <1>10 DEF m, c

\* The nearest number can be due.
LEMMA NearestIs ==
    ASSUME NEW b, NEW n \in Number, Keyed(b, n), DOMAIN b # {}
    PROVE  Nearest(b, n) \in Number /\ Keyed(b, Nearest(b, n))
<1> DEFINE T == {SeqDistance(n, s) : s \in DOMAIN b}
           P(s) == \A u \in DOMAIN b : SeqDistance(n, s) <= SeqDistance(n, u)
<1>1. DOMAIN b \subseteq Number
  BY DEF Keyed
<1>2. T \subseteq Nat /\ T # {}
  <2>1. \A s \in DOMAIN b : SeqDistance(n, s) \in Nat
    BY <1>1, Correspond
  <2> QED
    BY <2>1
<1>3. \E s \in DOMAIN b : P(s)
  <2>1. PICK t \in T : \A u \in T : t <= u
    <3> HIDE DEF T
    <3> QED
      BY <1>2, LeastExists
  <2> QED
    BY <2>1
<1>4. Nearest(b, n) = CHOOSE s \in DOMAIN b : P(s)
  BY DEF Nearest
<1> DEFINE m == Nearest(b, n)
<1>5. m \in DOMAIN b /\ P(m)
  <2> HIDE DEF P
  <2> QED
    BY <1>3, <1>4
<1> HIDE DEF m
<1>6. m \in Number
  BY <1>1, <1>5
<1> QED
  BY <1>5, <1>6, Rebase DEF m

\* push hands on what it was given or had buffered, and keeps the rest.
LEMMA PushIs ==
    ASSUME NEW b, NEW n, Keyed(b, n), NEW s \in Number, NEW v,
           NEW r, r = PushResult(b, n, s, v)
    PROVE  /\ Keyed(r.buffered, r.nextSeq)
           /\ Values(r.buffered) \subseteq Values(b) \cup {v}
           /\ r.out \in Seq(Values(b) \cup {v})
<1> DEFINE m == IF n = -1 THEN s ELSE n
           V == Values(b) \cup {v}
<1>1. m \in Number
  BY DEF Keyed
<1>2. n = -1 => SeqDistance(m, s) = 0
  BY <1>1, DistanceIs, NumberIs
<1>3. Keyed(b, m)
  BY <1>1, NumberIs DEF Keyed
<1> HIDE DEF m
<1>4. r = IF SeqLess(s, m) THEN [buffered |-> b, nextSeq |-> m, out |-> <<>>]
          ELSE Pop(Stored(b, s, v), m)
  BY DEF PushResult, m
<1>5. CASE SeqLess(s, m)
  <2>1. r.buffered = b /\ r.nextSeq = m /\ r.out = <<>>
    BY <1>4, <1>5
  <2> QED
    BY <1>3, <2>1
<1>6. CASE ~SeqLess(s, m)
  <2> DEFINE c == Stored(b, s, v)
             b1 == WithoutRun(c, m)
             n1 == AfterRun(c, m)
             n2 == Nearest(b1, n1)
  <2>1. DOMAIN c = DOMAIN b \cup {s} /\ \A u \in DOMAIN c : c[u] = IF u = s THEN v ELSE b[u]
    BY DEF Stored
  <2>2. r = IF TooMany(b1)
            THEN [buffered |-> WithoutRun(b1, n2), nextSeq |-> AfterRun(b1, n2),
                  out |-> Run(c, m) \o Run(b1, n2)]
            ELSE [buffered |-> b1, nextSeq |-> n1, out |-> Run(c, m)]
    BY <1>4, <1>6 DEF Pop
  <2> HIDE DEF c
  <2>3. Values(c) \subseteq V
    BY <2>1 DEF Values
  <2>4. Keyed(c, m)
    <3>1. SeqDistance(m, s) <= Half
      BY <1>1, <1>6, DistanceIs, NumberIs DEF SeqLess, SeqDistance, Half
    <3> QED
      BY <1>1, <1>3, <2>1, <3>1, NumberIs DEF Keyed
  <2>5. /\ n1 \in Number /\ Keyed(b1, n1) /\ Values(b1) \subseteq Values(c)
        /\ Run(c, m) \in Seq(Values(c))
    BY <1>1, <2>4, RunIs
  <2> HIDE DEF b1, n1
  <2>6. Run(c, m) \in Seq(V)
    BY <2>3, <2>5
  <2>7. CASE TooMany(b1)
    <3>1. DOMAIN b1 # {}
      <4>1. Cardinality({}) = 0 /\ Capacity \in Nat
        BY FS_EmptySet, WindowAssumption
      <4> SUFFICES ASSUME DOMAIN b1 = {}
                   PROVE  FALSE
        OBVIOUS
      <4>2. Cardinality(DOMAIN b1) > Capacity
        BY <2>7 DEF TooMany
      <4>3. Cardinality(DOMAIN b1) = 0
        BY <4>1
      <4> QED
        BY <4>1, <4>2, <4>3
    <3>2. n2 \in Number /\ Keyed(b1, n2)
      BY <2>5, <3>1, NearestIs
    <3> HIDE DEF n2
    <3>3. /\ AfterRun(b1, n2) \in Number /\ Keyed(WithoutRun(b1, n2), AfterRun(b1, n2))
          /\ Values(WithoutRun(b1, n2)) \subseteq Values(b1) /\ Run(b1, n2) \in Seq(Values(b1))
      BY <3>2, RunIs
    <3>4. Run(b1, n2) \in Seq(V)
      BY <2>3, <2>5, <3>3
    <3>5. /\ r.buffered = WithoutRun(b1, n2) /\ r.nextSeq = AfterRun(b1, n2)
          /\ r.out = Run(c, m) \o Run(b1, n2)
      BY <2>2, <2>7
    <3>6. r.out \in Seq(V)
      BY <2>6, <3>4, <3>5
    <3> QED
      BY <2>3, <2>5, <3>3, <3>5, <3>6
  <2>8. CASE ~TooMany(b1)
    <3>1. r.buffered = b1 /\ r.nextSeq = n1 /\ r.out = Run(c, m)
      BY <2>2, <2>8
    <3> QED
      BY <2>3, <2>5, <2>6, <3>1
  <2> QED
    BY <2>7, <2>8
<1> QED
  BY <1>5, <1>6

\* flush hands on what was buffered: the numbers have ranks.
LEMMA FlushIs ==
    ASSUME NEW b, NEW n, Keyed(b, n)
    PROVE  FlushResult(b, n) \in Seq(Values(b))
<1> DEFINE S == DOMAIN b
           size == Cardinality(S)
           d(s) == SeqDistance(n, s)
           below(x) == {y \in S : d(y) < d(x)}
           rank == [x \in S |-> Cardinality(below(x)) + 1]
<1>0. IsFiniteSet(S) /\ size \in Nat
  BY BufferFinite
<1>1. CASE S = {}
  <2>1. size = 0
    BY <1>1, FS_EmptySet
  <2>2. FlushOrder(b, n) = <<>>
    BY <2>1 DEF FlushOrder
  <2>3. FlushResult(b, n) = <<>>
    BY <2>2 DEF FlushResult
  <2> QED
    BY <2>3
<1>2. CASE S # {}
  <2>1. n \in Number /\ S \subseteq Number
    BY <1>2 DEF Keyed
  <2>2. \A x \in S : d(x) \in Int
    BY <2>1, Correspond
  <2>3. \A x, y \in S : d(x) = d(y) => x = y
    <3>1. \A x \in S : After(n, d(x)) = x
      BY <2>1, Correspond
    <3> HIDE DEF d
    <3> QED
      BY <3>1
  <2> HIDE DEF d
  <2>4. ASSUME NEW x \in S
        PROVE  /\ IsFiniteSet(below(x)) /\ x \notin below(x)
               /\ Cardinality(below(x)) \in Nat /\ Cardinality(below(x)) < size
    <3>1. below(x) \in SUBSET S /\ x \notin below(x)
      BY <2>2
    <3>2. IsFiniteSet(below(x)) /\ Cardinality(below(x)) <= size /\ below(x) # S
      BY <1>0, <3>1, FS_Subset
    <3>3. Cardinality(below(x)) # size
      BY <1>0, <3>1, <3>2, FS_Subset
    <3>4. Cardinality(below(x)) \in Nat
      BY <3>2, FS_CardinalityType
    <3> QED
      BY <1>0, <3>1, <3>2, <3>3, <3>4
  <2>5. ASSUME NEW x \in S, NEW y \in S, d(x) < d(y)
        PROVE  rank[x] < rank[y]
    <3>1. below(x) \cup {x} \in SUBSET below(y)
      BY <2>2, <2>5
    <3>2. Cardinality(below(x) \cup {x}) = Cardinality(below(x)) + 1
      BY <2>4, FS_AddElement
    <3>3. Cardinality(below(x) \cup {x}) <= Cardinality(below(y))
      BY <2>4, <3>1, FS_Subset
    <3> HIDE DEF below
    <3> QED
      BY <2>4, <3>2, <3>3
  <2>6. rank \in [S -> 1..size]
    <3>1. \A x \in S : Cardinality(below(x)) \in Nat /\ Cardinality(below(x)) < size
      BY <2>4
    <3> HIDE DEF below, size
    <3> QED
      BY <1>0, <3>1
  <2>7. \A x \in S : rank[x] = Cardinality(below(x)) + 1
    OBVIOUS
  <2> HIDE DEF rank, size, below
  <2>8. ASSUME NEW x \in S, NEW y \in S, rank[x] = rank[y]
        PROVE  x = y
    <3>1. rank[x] \in Int /\ rank[y] \in Int /\ d(x) \in Int /\ d(y) \in Int
      BY <1>0, <2>2, <2>6
    <3>2. ~(d(x) < d(y)) /\ ~(d(y) < d(x))
      BY <2>5, <2>8, <3>1
    <3> QED
      BY <2>3, <3>1, <3>2
  <2>9. rank \in Injection(S, 1..size)
    BY <2>6, <2>8 DEF Injection, IsInjective
  <2>10. IsFiniteSet(1..size) /\ Cardinality(1..size) = size
    BY <1>0, FS_Interval
  <2>11. rank \in Surjection(S, 1..size)
    BY <1>0, <2>9, <2>10, FS_Injection DEF size
  <2> DEFINE P(s, i) == Cardinality(below(s)) = i - 1
             keys == [i \in 1..size |-> CHOOSE s \in S : P(s, i)]
  <2>12. FlushOrder(b, n) = keys
    BY DEF FlushOrder, below, size, d
  <2>13. \A i \in 1..size : keys[i] \in S
    <3> SUFFICES ASSUME NEW i \in 1..size
                 PROVE  keys[i] \in S
      OBVIOUS
    <3>1. PICK x \in S : rank[x] = i
      BY <2>11 DEF Surjection
    <3>2. P(x, i)
      BY <2>4, <2>7, <3>1
    <3>3. (CHOOSE s \in S : P(s, i)) \in S
      <4> HIDE DEF P
      <4> QED
        BY <3>1, <3>2
    <3> QED
      BY <3>3
  <2>14. keys \in Seq(S) /\ Len(keys) = size
    <3>1. keys \in [1..size -> S]
      BY <2>13
    <3> HIDE DEF keys
    <3> QED
      BY <1>0, <3>1
  <2>15. FlushResult(b, n) = [i \in 1..size |-> b[keys[i]]]
    BY <2>12, <2>14 DEF FlushResult
  <2>16. FlushResult(b, n) \in [1..size -> Values(b)]
    BY <2>13, <2>15 DEF Values
  <2> QED
    BY <1>0, <2>16
<1> QED
  BY <1>1, <1>2

-----------------------------------------------------------------------------
(* pcm.                                                                    *)

\* The convertible payloads are a prefix; past it is one that raises.
LEMMA ConvertibleIs ==
    ASSUME NEW V, NEW ps \in Seq(V)
    PROVE  /\ Convertible(ps) \in Nat /\ Convertible(ps) <= Len(ps)
           /\ ExtendRaises(ps) => \E i \in 1..Len(ps) : ~IsL16(ps[i])
<1> DEFINE G == {n \in 0..Len(ps) : \A i \in 1..n : IsL16(ps[i])}
           T == {Len(ps) - n : n \in G}
<1>1. Len(ps) \in Nat
  OBVIOUS
<1>2. T \subseteq Nat /\ T # {}
  <2>1. 0 \in G
    BY <1>1
  <2>2. \A n \in G : Len(ps) - n \in Nat
    BY <1>1
  <2> QED
    BY <2>1, <2>2
<1>3. PICK t \in T : \A u \in T : t <= u
  <2> HIDE DEF T
  <2> QED
    BY <1>2, LeastExists
<1>4. PICK m \in G : t = Len(ps) - m
  OBVIOUS
<1>5. \A n \in G : m >= n
  <2> SUFFICES ASSUME NEW n \in G
               PROVE  m >= n
    OBVIOUS
  <2>1. Len(ps) - m <= Len(ps) - n
    BY <1>3, <1>4
  <2> QED
    BY <1>1, <2>1
<1> DEFINE P(x) == \A y \in G : x >= y
           k == Convertible(ps)
<1>6. k = CHOOSE x \in G : P(x)
  BY DEF Convertible, Max
<1>7. k \in G /\ P(k)
  <2>1. m \in G /\ P(m)
    BY <1>5
  <2> HIDE DEF P, G, k
  <2> QED
    BY <1>6, <2>1
<1> HIDE DEF k
<1>8. k \in Nat /\ k <= Len(ps) /\ \A i \in 1..k : IsL16(ps[i])
  BY <1>1, <1>7
<1>9. ASSUME k < Len(ps)
      PROVE  k + 1 \in 1..Len(ps) /\ ~IsL16(ps[k + 1])
  <2>1. k + 1 \in 1..Len(ps) /\ k + 1 \in 0..Len(ps) /\ ~(k >= k + 1)
    BY <1>1, <1>8, <1>9
  <2>2. k + 1 \notin G
    BY <1>7, <2>1
  <2>3. \A i \in 1..(k + 1) : i \in 1..k \/ i = k + 1
    BY <1>8
  <2> QED
    BY <1>8, <2>1, <2>2, <2>3
<1> QED
  BY <1>8, <1>9 DEF ExtendRaises, k

\* What is appended to pcm are payloads.
LEMMA ExtendedIs ==
    ASSUME NEW V, NEW chunks \in Seq(V), NEW ps \in Seq(V)
    PROVE  Extended(chunks, ps) \in Seq(V)
<1> DEFINE k == Convertible(ps)
<1>1. k \in Nat /\ k <= Len(ps)
  BY ConvertibleIs
<1> HIDE DEF k
<1>2. SubSeq(ps, 1, k) \in Seq(V)
  <2>1. SubSeq(ps, 1, k) = [i \in 1..k |-> ps[i]]
    BY <1>1
  <2>2. \A i \in 1..k : ps[i] \in V
    BY <1>1
  <2>3. SubSeq(ps, 1, k) \in [1..k -> V]
    BY <2>1, <2>2
  <2> QED
    BY <1>1, <2>3
<1> QED
  BY <1>2 DEF Extended, k

-----------------------------------------------------------------------------
(* The inductive invariant.                                                *)

Callback == {"accept", "data", "recv", "expire", "handler", "drain", "sentinel", "done",
             "collect", "answer", "lost"}
Byte == Methods \cup Signals \cup {EOF}
Chunk == [pos : Int, bytes : Nat]

\* The callbacks that are scheduled.
Pending == {ready[i] : i \in 1..Len(ready)}

\* Why a turn may be answered.
Excused == signal # "none" \/ timedOut \/ SomeDamaged

\* The parts of the state that are small, and those that are sequences.
Labels ==
    /\ turn \in Nat /\ turn <= MaxTurns /\ sent \in Nat /\ sent <= MaxDatagrams
    /\ client \in {"away", "calling", "reading", "ended"}
    /\ conn \in {"closed", "open", "closing"}
    /\ handler \in {"over", "request", "binding", "answering", "raising"} \cup Collecting
    /\ drain \in {"none", "running", "parked", "cancelled", "leaked", "over"}
    /\ sentinel \in {"none", "woken", "parked", "cancelled", "over"}
    /\ reader \in {"none", "live", "stale", "deaf"}
    /\ bound = (handler \in Collecting)

Lists ==
    /\ ready \in Seq(Callback) /\ todo \in Nat /\ todo <= Len(ready)
    /\ tcp \in Seq(Byte) /\ inbox \in Seq(Byte) /\ pcm \in Seq(Chunk)
    /\ queue \in Seq(Datagrams) /\ got \in Seq(Datagrams) /\ arrived \in Seq(Datagrams)
    /\ out \in Seq(Range(out))

\* Nothing runs while a client is being accepted.
Calling ==
    /\ "accept" \in Pending => client = "calling"
    /\ client = "calling" =>
          /\ drain = "none" /\ sentinel = "none" /\ tcp = <<>> /\ reader \in {"none", "stale"}
          /\ \/ handler = "over" /\ ready = <<>> /\ todo = 0
             \/ handler = "over" /\ ready = <<"accept">> /\ todo = 1
             \/ handler = "request" /\ ready = <<>> /\ todo = 0

\* The tasks a turn has at each point of handle_connection.
Tasks ==
    /\ handler \in {"request", "binding"} => drain = "none" /\ sentinel = "none"
    /\ handler \in Collecting =>
          drain \in {"running", "parked", "over"} /\ sentinel \in {"woken", "parked", "over"}
    /\ handler = "raising" => sentinel \in {"cancelled", "over"}
    /\ handler = "answering" => sentinel \in {"cancelled", "over"} \/ pcm = <<>>
    /\ drain = "parked" => handler \in Collecting
    /\ drain = "leaked" => timedOut

\* What will run a task that can run, and wake a sentinel that cannot.
Scheduled ==
    /\ drain \in {"running", "cancelled"} => "drain" \in Pending
    /\ handler \in {"request", "binding"} => "drain" \notin Pending
    /\ sentinel \in {"woken", "cancelled"} => "sentinel" \in Pending
    /\ sentinel \in {"woken", "parked"} =>
          \/ handler \in Collecting \/ handler = "answering" \/ "lost" \in Pending
          \/ sentinel = "woken" /\ inbox # <<>>

\* Whom the loop's entry for the RTP descriptor belongs to.
Entries ==
    /\ reader \in {"live", "deaf"} => drain \in {"parked", "cancelled"}
    /\ reader = "stale" => timedOut \/ haunted

\* The selector reports bytes once in an iteration, and only then.
Placed ==
    \A i \in 1..Len(ready) : ready[i] = "data" =>
        i <= todo /\ \A j \in 1..Len(ready) : ready[j] = "data" => j = i

\* A callback for bytes finds some.
Reads ==
    /\ Placed
    /\ "data" \in Pending => tcp # <<>>
    /\ "handler" \in Pending /\ handler = "request" => inbox # <<>>

\* A turn whose end is on its way has a reason to end.
Reasons ==
    /\ "done" \in Pending => Excused
    /\ handler \in {"collected", "answering", "raising"} => Excused
    /\ Written("RECOGNITION-COMPLETE") => Excused

\* What waits for the drain has arrived, and what the window holds was in it.
Parsed == {Payload(arrived[k]) : k \in {i \in 1..Len(arrived) : ParsesAsRtp(arrived[i])}}

Arrivals ==
    /\ ~bound => queue = <<>>
    /\ Range(queue) \subseteq Range(arrived) /\ Range(got) \subseteq Range(arrived)

Window ==
    /\ Keyed(jitter.buffered, jitter.nextSeq)
    /\ Values(jitter.buffered) \subseteq Parsed

IInv ==
    /\ Labels /\ Lists /\ Calling /\ Tasks /\ Scheduled /\ Entries /\ Reads /\ Reasons
    /\ Arrivals /\ Window

-----------------------------------------------------------------------------
(* The event loop.                                                         *)

\* Callback h returned, having scheduled the callbacks X.
Done(h, X) ==
    /\ h \in Pending /\ Pending' \subseteq Pending \cup X
    /\ Pending \ {h} \subseteq Pending' /\ X \subseteq Pending'
    /\ ready' \in Seq(Callback) /\ todo' \in Nat /\ todo' <= Len(ready')
    /\ Placed' /\ (h = "data" => "data" \notin Pending')

\* The head h of the queue is taken off and the callbacks xs are appended.
Shift(h, xs, n, k) ==
    /\ n \in Nat /\ k \in Nat /\ todo \in Nat /\ todo <= n /\ todo > 0 /\ n >= 1
    /\ n = Len(ready) /\ k = Len(xs) /\ ready[1] = h
    /\ todo' = todo - 1 /\ ready' \in Seq(Callback) /\ Len(ready') = n - 1 + k
    /\ \A i \in 1..(n - 1) : ready'[i] = ready[i + 1]
    /\ \A i \in 1..k : n - 1 + i \in 1..(n - 1 + k) /\ ready'[n - 1 + i] = xs[i]
    /\ \A i \in 1..(n - 1 + k) : \/ i \in 1..(n - 1) /\ i + 1 \in 1..n
                                 \/ i - (n - 1) \in 1..k /\ n - 1 + (i - (n - 1)) = i

LEMMA Shifted ==
    ASSUME Lists, NEW h, Runs(h), NEW xs \in Seq(Callback), Returns(xs)
    PROVE  Shift(h, xs, Len(ready), Len(xs))
<1> DEFINE n == Len(ready)
           k == Len(xs)
<1>1. /\ ready \in Seq(Callback) /\ n \in Nat /\ k \in Nat /\ todo \in Nat /\ todo <= n
      /\ todo > 0 /\ ready # <<>> /\ n >= 1 /\ ready[1] = h
  BY DEF Lists, Runs
<1>2. todo' = todo - 1 /\ ready' = Tail(ready) \o xs
  BY DEF Returns
<1>3. Tail(ready) \in Seq(Callback) /\ Len(Tail(ready)) = n - 1
      /\ \A i \in 1..(n - 1) : Tail(ready)[i] = ready[i + 1]
  BY <1>1
<1> DEFINE t == Tail(ready)
<1> HIDE DEF t
<1>4. ready' \in Seq(Callback) /\ Len(ready') = n - 1 + k
      /\ \A i \in 1..(n - 1 + k) : ready'[i] = IF i <= n - 1 THEN t[i] ELSE xs[i - (n - 1)]
  BY <1>1, <1>2, <1>3 DEF t
<1>5. \A i \in 1..(n - 1) : ready'[i] = ready[i + 1]
  <2> SUFFICES ASSUME NEW i \in 1..(n - 1)
               PROVE  ready'[i] = ready[i + 1]
    OBVIOUS
  <2>1. i \in 1..(n - 1 + k) /\ i <= n - 1
    BY <1>1
  <2> QED
    BY <1>3, <1>4, <2>1 DEF t
<1>6. \A i \in 1..k : n - 1 + i \in 1..(n - 1 + k) /\ ready'[n - 1 + i] = xs[i]
  <2> SUFFICES ASSUME NEW i \in 1..k
               PROVE  n - 1 + i \in 1..(n - 1 + k) /\ ready'[n - 1 + i] = xs[i]
    OBVIOUS
  <2>1. n - 1 + i \in 1..(n - 1 + k) /\ ~(n - 1 + i <= n - 1) /\ (n - 1 + i) - (n - 1) = i
    BY <1>1
  <2> QED
    BY <1>4, <2>1
<1>7. \A i \in 1..(n - 1 + k) : \/ i \in 1..(n - 1) /\ i + 1 \in 1..n
                                \/ i - (n - 1) \in 1..k /\ n - 1 + (i - (n - 1)) = i
  BY <1>1
<1> HIDE DEF n, k
<1>8. Shift(h, xs, n, k)
  BY <1>1, <1>2, <1>4, <1>5, <1>6, <1>7 DEF Shift, n, k
<1> QED
  BY <1>8 DEF n, k

\* What is then scheduled.
LEMMA ReturnsIs ==
    ASSUME Lists, Placed, NEW h, Runs(h), NEW xs \in Seq(Callback), Returns(xs),
           \A i \in 1..Len(xs) : xs[i] # "data"
    PROVE  Done(h, {xs[i] : i \in 1..Len(xs)})
<1> DEFINE n == Len(ready)
           k == Len(xs)
           X == {xs[i] : i \in 1..Len(xs)}
<1>0. Shift(h, xs, n, k)
  BY Shifted
<1>1. n \in Nat /\ k \in Nat /\ todo \in Nat /\ todo <= n /\ todo > 0 /\ n >= 1 /\ ready[1] = h
  BY <1>0 DEF Shift
<1>2. todo' = todo - 1
  BY <1>0 DEF Shift
<1>4. ready' \in Seq(Callback) /\ Len(ready') = n - 1 + k
  BY <1>0 DEF Shift
<1>5. \A i \in 1..(n - 1) : ready'[i] = ready[i + 1]
  BY <1>0 DEF Shift
<1>6. \A i \in 1..k : n - 1 + i \in 1..(n - 1 + k) /\ ready'[n - 1 + i] = xs[i]
  BY <1>0 DEF Shift
<1>7. \A i \in 1..(n - 1 + k) : \/ i \in 1..(n - 1) /\ i + 1 \in 1..n
                                \/ i - (n - 1) \in 1..k /\ n - 1 + (i - (n - 1)) = i
  BY <1>0 DEF Shift
<1>8. h \in Pending
  BY <1>1 DEF Pending
<1>9. Pending' = {ready'[i] : i \in 1..(n - 1 + k)} /\ Pending = {ready[i] : i \in 1..n}
  BY <1>4 DEF Pending
<1> HIDE DEF n, k
<1>10. Pending' \subseteq Pending \cup X
  <2> SUFFICES ASSUME NEW i \in 1..(n - 1 + k)
               PROVE  ready'[i] \in Pending \cup X
    BY <1>9
  <2>1. CASE i \in 1..(n - 1) /\ i + 1 \in 1..n
    BY <1>5, <1>9, <2>1
  <2>2. CASE i - (n - 1) \in 1..k /\ n - 1 + (i - (n - 1)) = i
    <3>1. ready'[i] = xs[i - (n - 1)]
      BY <1>6, <2>2
    <3> QED
      BY <2>2, <3>1 DEF k
  <2> QED
    BY <1>7, <2>1, <2>2
<1>11. Pending \ {h} \subseteq Pending'
  <2> SUFFICES ASSUME NEW i \in 1..n, ready[i] # h
               PROVE  ready[i] \in Pending'
    BY <1>9
  <2>1. i - 1 \in 1..(n - 1) /\ i - 1 \in 1..(n - 1 + k) /\ (i - 1) + 1 = i
    BY <1>1
  <2>2. ready'[i - 1] = ready[i]
    BY <1>5, <2>1
  <2> QED
    BY <1>9, <2>1, <2>2
<1>12. X \subseteq Pending'
  <2> SUFFICES ASSUME NEW i \in 1..k
               PROVE  xs[i] \in Pending'
    BY DEF k
  <2> QED
    BY <1>6, <1>9
<1>13. ASSUME NEW i \in 1..(n - 1 + k), ready'[i] = "data"
       PROVE  /\ i \in 1..(n - 1) /\ i + 1 \in 1..n /\ ready[i + 1] = "data"
  <2>1. ~(i - (n - 1) \in 1..k /\ n - 1 + (i - (n - 1)) = i)
    <3> SUFFICES ASSUME i - (n - 1) \in 1..k, n - 1 + (i - (n - 1)) = i
                 PROVE  FALSE
      OBVIOUS
    <3>1. ready'[i] = xs[i - (n - 1)]
      BY <1>6
    <3> QED
      BY <1>13, <3>1 DEF k
  <2>2. i \in 1..(n - 1) /\ i + 1 \in 1..n
    BY <1>7, <2>1
  <2> QED
    BY <1>5, <1>13, <2>2
<1>14. Placed'
  <2> SUFFICES ASSUME NEW i \in 1..Len(ready'), ready'[i] = "data"
               PROVE  i <= todo' /\ \A j \in 1..Len(ready') : ready'[j] = "data" => j = i
    BY DEF Placed
  <2>1. i \in 1..(n - 1 + k)
    BY <1>4
  <2>2. i \in 1..(n - 1) /\ i + 1 \in 1..n /\ ready[i + 1] = "data"
    BY <1>13, <2>1
  <2>3. i + 1 <= todo /\ \A j \in 1..n : ready[j] = "data" => j = i + 1
    BY <2>2 DEF Placed, n
  <2>4. ASSUME NEW j \in 1..(n - 1 + k), ready'[j] = "data"
        PROVE  j = i
    <3>1. j \in 1..(n - 1) /\ j + 1 \in 1..n /\ ready[j + 1] = "data"
      BY <1>13, <2>4
    <3>2. j + 1 = i + 1
      BY <2>3, <3>1
    <3> QED
      BY <2>2, <3>1, <3>2
  <2>5. i <= todo'
    BY <1>1, <1>2, <2>2, <2>3
  <2> QED
    BY <1>4, <2>4, <2>5
<1>15. h = "data" => "data" \notin Pending'
  <2> SUFFICES ASSUME h = "data", NEW i \in 1..(n - 1 + k), ready'[i] = "data"
               PROVE  FALSE
    BY <1>9
  <2>1. i \in 1..(n - 1) /\ i + 1 \in 1..n /\ ready[i + 1] = "data"
    BY <1>13
  <2>2. 1 \in 1..n /\ ready[1] = "data"
    BY <1>1
  <2>3. i + 1 = 1
    BY <2>1, <2>2 DEF Placed, n
  <2> QED
    BY <2>1, <2>3
<1>16. todo' \in Nat /\ todo' <= Len(ready')
  BY <1>1, <1>2, <1>4
<1> QED
  BY <1>4, <1>8, <1>10, <1>11, <1>12, <1>14, <1>15, <1>16 DEF Done

\* The lists of callbacks that are scheduled.
LEMMA Schedules ==
    ASSUME Lists, Placed, NEW h, Runs(h)
    PROVE  /\ Returns(<<>>) => Done(h, {})
           /\ \A c \in Callback \ {"data"} : Returns(<<c>>) => Done(h, {c})
           /\ \A c, d \in Callback \ {"data"} : Returns(<<c, d>>) => Done(h, {c, d})
           /\ \A c, d, e \in Callback \ {"data"} : Returns(<<c, d, e>>) => Done(h, {c, d, e})
<1>1. Returns(<<>>) => Done(h, {})
  <2> DEFINE xs == <<>>
  <2>1. xs \in Seq(Callback) /\ Len(xs) = 0 /\ {xs[i] : i \in 1..Len(xs)} = {}
    OBVIOUS
  <2> HIDE DEF xs
  <2>2. Returns(xs) => Done(h, {xs[i] : i \in 1..Len(xs)})
    BY <2>1, ReturnsIs
  <2> QED
    BY <2>1, <2>2 DEF xs
<1>2. ASSUME NEW c \in Callback \ {"data"}
      PROVE  Returns(<<c>>) => Done(h, {c})
  <2> DEFINE xs == <<c>>
  <2>1. xs \in Seq(Callback) /\ Len(xs) = 1 /\ xs[1] = c
    OBVIOUS
  <2> HIDE DEF xs
  <2>2. {xs[i] : i \in 1..Len(xs)} = {c} /\ \A i \in 1..Len(xs) : xs[i] # "data"
    BY <2>1
  <2>3. Returns(xs) => Done(h, {xs[i] : i \in 1..Len(xs)})
    BY <2>1, <2>2, ReturnsIs
  <2> QED
    BY <2>2, <2>3 DEF xs
<1>3. ASSUME NEW c \in Callback \ {"data"}, NEW d \in Callback \ {"data"}
      PROVE  Returns(<<c, d>>) => Done(h, {c, d})
  <2> DEFINE xs == <<c, d>>
  <2>1. xs \in Seq(Callback) /\ Len(xs) = 2 /\ xs[1] = c /\ xs[2] = d
    OBVIOUS
  <2> HIDE DEF xs
  <2>2. {xs[i] : i \in 1..Len(xs)} = {c, d} /\ \A i \in 1..Len(xs) : xs[i] # "data"
    BY <2>1
  <2>3. Returns(xs) => Done(h, {xs[i] : i \in 1..Len(xs)})
    BY <2>1, <2>2, ReturnsIs
  <2> QED
    BY <2>2, <2>3 DEF xs
<1>4. ASSUME NEW c \in Callback \ {"data"}, NEW d \in Callback \ {"data"},
             NEW e \in Callback \ {"data"}
      PROVE  Returns(<<c, d, e>>) => Done(h, {c, d, e})
  <2> DEFINE xs == <<c, d, e>>
  <2>1. xs \in Seq(Callback) /\ Len(xs) = 3 /\ xs[1] = c /\ xs[2] = d /\ xs[3] = e
    OBVIOUS
  <2> HIDE DEF xs
  <2>2. {xs[i] : i \in 1..Len(xs)} = {c, d, e} /\ \A i \in 1..Len(xs) : xs[i] # "data"
    BY <2>1
  <2>3. Returns(xs) => Done(h, {xs[i] : i \in 1..Len(xs)})
    BY <2>1, <2>2, ReturnsIs
  <2> QED
    BY <2>2, <2>3 DEF xs
<1> QED
  BY <1>1, <1>2, <1>3, <1>4

\* While a client is being accepted, only that runs.
LEMMA NotCalling ==
    ASSUME IInv, NEW h, Runs(h), h # "accept"
    PROVE  client # "calling" /\ "accept" \notin Pending
<1>1. ready \in Seq(Callback) /\ todo \in Nat /\ todo > 0 /\ ready[1] = h
  BY DEF IInv, Lists, Runs
<1>2. client # "calling"
  BY <1>1 DEF IInv, Calling
<1> QED
  BY <1>2 DEF IInv, Calling

-----------------------------------------------------------------------------
(* One lemma for each step.                                                *)

Complete == "RECOGNITION-COMPLETE"

\* What a step keeps by leaving variables alone.
LEMMA Frame ==
    ASSUME IInv
    PROVE  /\ UNCHANGED <<signal, timedOut, arrived>> /\ Excused => Excused'
           /\ UNCHANGED out /\ Written(Complete)' => Written(Complete)
           /\ UNCHANGED <<bound, queue, got, arrived>> => Arrivals'
           /\ UNCHANGED <<jitter, arrived>> => Window'
<1>1. UNCHANGED <<signal, timedOut, arrived>> /\ Excused => Excused'
  BY DEF Excused, SomeDamaged
<1>2. UNCHANGED out /\ Written(Complete)' => Written(Complete)
  BY DEF Written
<1>3. UNCHANGED <<bound, queue, got, arrived>> => Arrivals'
  BY DEF IInv, Arrivals
<1>4. UNCHANGED <<jitter, arrived>> => Window'
  BY DEF IInv, Window, Parsed
<1> QED
  BY <1>1, <1>2, <1>3, <1>4

\* connection_lost feeds EOF to the sentinel.
LEMMA ConnectionLostKeeps == ASSUME IInv, ConnectionLost PROVE IInv'
<1>1. /\ UNCHANGED <<turn, client, sent, haunted, tcp, out, handler, drain,
                     signal, got, bound, queue, reader, jitter, pcm, timedOut,
                     arrived>>
      /\ sentinel' = IF sentinel = "parked" THEN "woken" ELSE sentinel
      /\ conn' = "closed" /\ inbox' = Append(inbox, EOF)
  BY DEF ConnectionLost, clientVars, udpVars, audioVars
<1>2. client # "calling" /\ "accept" \notin Pending
  BY NotCalling DEF ConnectionLost
<1>3. /\ sentinel = "parked" => Done("lost", {"sentinel"})
      /\ sentinel # "parked" => Done("lost", {})
  BY Schedules DEF ConnectionLost, IInv, Reads, Callback
<1>4. inbox' \in Seq(Byte) /\ inbox' # <<>>
  <2>1. inbox \in Seq(Byte) /\ EOF \in Byte
    BY DEF IInv, Lists, Byte
  <2> QED
    BY <1>1, <2>1
<1>5. Labels'
  BY <1>1 DEF IInv, Labels, Collecting
<1>6. Lists'
  BY <1>1, <1>3, <1>4 DEF IInv, Lists, Done
<1>7. Calling'
  BY <1>1, <1>2, <1>3 DEF Calling, Done
<1>8. Tasks'
  BY <1>1 DEF IInv, Tasks, Collecting
<1>9. Scheduled'
  BY <1>1, <1>3, <1>4 DEF IInv, Scheduled, Done
<1>10. Entries'
  BY <1>1 DEF IInv, Entries
<1>11. Reads'
  BY <1>1, <1>3, <1>4 DEF IInv, Reads, Done
<1>12. Reasons'
  BY <1>1, <1>3, <1>4, Frame DEF IInv, Reasons, Done, Complete
<1>13. Arrivals'
  BY <1>1, Frame
<1>14. Window'
  BY <1>1, Frame
<1> QED
  BY <1>5, <1>6, <1>7, <1>8, <1>9, <1>10, <1>11, <1>12, <1>13, <1>14 DEF IInv

\* The transport feeds the reader what the kernel held.
LEMMA DataReceivedKeeps == ASSUME IInv, DataReceived PROVE IInv'
<1>1. /\ UNCHANGED <<turn, client, sent, haunted, conn, out, handler, drain,
                     signal, got, bound, queue, reader, jitter, pcm, timedOut,
                     arrived>>
      /\ sentinel' = IF sentinel = "parked" THEN "woken" ELSE sentinel
      /\ inbox' = inbox \o tcp /\ tcp' = <<>>
  BY DEF DataReceived, clientVars, udpVars, audioVars
<1>2. client # "calling" /\ "accept" \notin Pending
  BY NotCalling DEF DataReceived
<1>3. /\ handler = "request" => Done("data", {"handler"})
      /\ handler # "request" /\ sentinel = "parked" => Done("data", {"sentinel"})
      /\ handler # "request" /\ sentinel # "parked" => Done("data", {})
  BY Schedules DEF DataReceived, IInv, Reads, Callback
<1>4. inbox' \in Seq(Byte) /\ inbox' # <<>> /\ tcp' \in Seq(Byte)
  <2>1. inbox \in Seq(Byte) /\ tcp \in Seq(Byte)
    BY DEF IInv, Lists
  <2>2. "data" \in Pending
    BY <1>3 DEF Done
  <2>3. tcp # <<>>
    BY <2>2 DEF IInv, Reads
  <2> QED
    BY <1>1, <2>1, <2>3
<1>5. handler = "request" => sentinel = "none"
  BY DEF IInv, Tasks
<1>6. Labels'
  BY <1>1 DEF IInv, Labels, Collecting
<1>7. Lists'
  BY <1>1, <1>3, <1>4, <1>5 DEF IInv, Lists, Done
<1>8. Calling'
  BY <1>1, <1>2, <1>3 DEF Calling, Done
<1>9. Tasks'
  BY <1>1 DEF IInv, Tasks, Collecting
<1>10. Scheduled'
  BY <1>1, <1>3, <1>4, <1>5 DEF IInv, Scheduled, Done
<1>11. Entries'
  BY <1>1 DEF IInv, Entries
<1>12. Reads'
  BY <1>1, <1>3, <1>4, <1>5 DEF IInv, Reads, Done
<1>13. Reasons'
  BY <1>1, <1>3, <1>4, <1>5, Frame DEF IInv, Reasons, Done, Complete
<1>14. Arrivals'
  BY <1>1, Frame
<1>15. Window'
  BY <1>1, Frame
<1> QED
  BY <1>6, <1>7, <1>8, <1>9, <1>10, <1>11, <1>12, <1>13, <1>14, <1>15 DEF IInv

\* sock_recv registers the descriptor and the drain waits.
LEMMA DrainParksKeeps == ASSUME IInv, DrainParks PROVE IInv'
<1>1. /\ UNCHANGED <<turn, client, sent, haunted, tcp, conn, inbox, out,
                     handler, sentinel, signal, got, bound, queue, jitter, pcm,
                     timedOut, arrived>>
      /\ drain = "running" /\ bound /\ drain' = "parked"
      /\ reader' = IF reader = "stale" THEN "deaf" ELSE "live"
  BY DEF DrainParks, clientVars, tcpVars, audioVars
<1>2. client # "calling" /\ "accept" \notin Pending
  BY NotCalling DEF DrainParks
<1>3. Done("drain", {})
  BY Schedules DEF DrainParks, IInv, Reads, Callback
<1>4. Labels'
  BY <1>1 DEF IInv, Labels, Collecting
<1>5. Lists'
  BY <1>1, <1>3 DEF IInv, Lists, Done
<1>6. Calling'
  BY <1>1, <1>2, <1>3 DEF Calling, Done
<1>7. Tasks'
  BY <1>1 DEF IInv, Tasks, Collecting, Labels
<1>8. Scheduled'
  BY <1>1, <1>3 DEF IInv, Scheduled, Done, Labels
<1>9. Entries'
  BY <1>1 DEF IInv, Entries
<1>10. Reads'
  BY <1>1, <1>3 DEF IInv, Reads, Done
<1>11. Reasons'
  BY <1>1, <1>3, Frame DEF IInv, Reasons, Done, Complete
<1>12. Arrivals'
  BY <1>1, Frame
<1>13. Window'
  BY <1>1, Frame
<1> QED
  BY <1>4, <1>5, <1>6, <1>7, <1>8, <1>9, <1>10, <1>11, <1>12, <1>13 DEF IInv

\* A drain that was cancelled, or whose socket is closed, ends.
LEMMA DrainStopsKeeps == ASSUME IInv, DrainStops PROVE IInv'
<1>1. /\ UNCHANGED <<turn, client, sent, haunted, tcp, conn, inbox, out,
                     handler, sentinel, signal, bound, queue, jitter, pcm,
                     timedOut, arrived>>
      /\ drain = "cancelled" \/ ~bound
      /\ drain' = "over" /\ got' = <<>>
      /\ reader' = IF drain = "cancelled" THEN "none" ELSE reader
  BY DEF DrainStops, clientVars, tcpVars, audioVars
<1>2. client # "calling" /\ "accept" \notin Pending
  BY NotCalling DEF DrainStops
<1>3. Done("drain", {})
  BY Schedules DEF DrainStops, IInv, Reads, Callback
<1>4. drain = "parked" => bound
  BY DEF IInv, Tasks, Labels
<1>5. got' \in Seq(Datagrams) /\ Range(got') = {}
  BY <1>1 DEF Range
<1>6. Labels'
  BY <1>1 DEF IInv, Labels, Collecting
<1>7. Lists'
  BY <1>1, <1>3, <1>4, <1>5 DEF IInv, Lists, Done
<1>8. Calling'
  BY <1>1, <1>2, <1>3 DEF Calling, Done
<1>9. Tasks'
  BY <1>1, <1>3 DEF IInv, Tasks, Collecting, Done, Scheduled
<1>10. Scheduled'
  BY <1>1, <1>3, <1>4, <1>5 DEF IInv, Scheduled, Done
<1>11. Entries'
  BY <1>1, <1>4 DEF IInv, Entries
<1>12. Reads'
  BY <1>1, <1>3, <1>4, <1>5 DEF IInv, Reads, Done
<1>13. Reasons'
  BY <1>1, <1>3, <1>4, <1>5, Frame DEF IInv, Reasons, Done, Complete
<1>14. Arrivals'
  BY <1>1, <1>5 DEF IInv, Arrivals
<1>15. Window'
  BY <1>1, Frame
<1> QED
  BY <1>6, <1>7, <1>8, <1>9, <1>10, <1>11, <1>12, <1>13, <1>14, <1>15 DEF IInv

\* The selector's callback reads a datagram for the drain that waits.
LEMMA RecvReadyKeeps == ASSUME IInv, RecvReady PROVE IInv'
<1>1. /\ UNCHANGED <<turn, client, sent, haunted, tcp, conn, inbox, out,
                     handler, sentinel, signal, bound, jitter, pcm, timedOut,
                     arrived>>
      /\ drain = "parked" /\ queue # <<>> =>
           drain' = "running" /\ got' = <<Head(queue)>> /\ queue' = Tail(queue)
      /\ ~(drain = "parked" /\ queue # <<>>) =>
           (drain' = IF drain = "leaked" THEN "over" ELSE drain) /\ UNCHANGED <<got, queue>>
      /\ reader' = IF drain \in {"parked", "leaked"} THEN "none" ELSE reader
  BY DEF RecvReady, clientVars, tcpVars, audioVars
<1>2. client # "calling" /\ "accept" \notin Pending
  BY NotCalling DEF RecvReady
<1>3. /\ drain = "parked" /\ queue # <<>> => Done("recv", {"drain"})
      /\ ~(drain = "parked" /\ queue # <<>>) => Done("recv", {})
  BY Schedules DEF RecvReady, IInv, Reads, Callback
<1>4. /\ got' \in Seq(Datagrams) /\ queue' \in Seq(Datagrams) /\ (queue = <<>> => queue' = <<>>)
      /\ Range(got') \subseteq Range(got) \cup Range(queue) /\ Range(queue') \subseteq Range(queue)
  <2>1. got \in Seq(Datagrams) /\ queue \in Seq(Datagrams)
    BY DEF IInv, Lists
  <2>2. CASE drain = "parked" /\ queue # <<>>
    <3>1. queue[1] = Head(queue) /\ 1 \in DOMAIN queue /\ Head(queue) \in Datagrams
      BY <2>1, <2>2
    <3>2. /\ Tail(queue) \in Seq(Datagrams)
          /\ \A i \in DOMAIN Tail(queue) : i + 1 \in DOMAIN queue /\ Tail(queue)[i] = queue[i + 1]
      BY <2>1, <2>2
    <3>3. Range(<<Head(queue)>>) = {Head(queue)} /\ <<Head(queue)>> \in Seq(Datagrams)
      BY <3>1 DEF Range
    <3>4. Range(Tail(queue)) \subseteq Range(queue) /\ Head(queue) \in Range(queue)
      BY <3>1, <3>2 DEF Range
    <3> QED
      BY <1>1, <2>2, <3>2, <3>3, <3>4
  <2> QED
    BY <1>1, <2>1, <2>2
<1>5. Labels'
  BY <1>1 DEF IInv, Labels, Collecting
<1>6. Lists'
  BY <1>1, <1>3, <1>4 DEF IInv, Lists, Done
<1>7. Calling'
  BY <1>1, <1>2, <1>3 DEF Calling, Done
<1>8. Tasks'
  BY <1>1 DEF IInv, Tasks, Collecting
<1>9. Scheduled'
  BY <1>1, <1>3, <1>4 DEF IInv, Scheduled, Done, Tasks, Collecting
<1>10. Entries'
  BY <1>1 DEF IInv, Entries
<1>11. Reads'
  BY <1>1, <1>3, <1>4 DEF IInv, Reads, Done
<1>12. Reasons'
  BY <1>1, <1>3, <1>4, Frame DEF IInv, Reasons, Done, Complete
<1>13. Arrivals'
  BY <1>1, <1>4 DEF IInv, Arrivals
<1>14. Window'
  BY <1>1, Frame
<1> QED
  BY <1>5, <1>6, <1>7, <1>8, <1>9, <1>10, <1>11, <1>12, <1>13, <1>14 DEF IInv

\* A sentinel task that was cancelled ends.
LEMMA SentinelStopsKeeps == ASSUME IInv, SentinelStops PROVE IInv'
<1>1. /\ UNCHANGED <<turn, client, sent, haunted, tcp, conn, inbox, out,
                     handler, drain, signal, got, bound, queue, reader, jitter,
                     pcm, timedOut, arrived>>
      /\ sentinel = "cancelled" /\ sentinel' = "over"
  BY DEF SentinelStops, clientVars, tcpVars, udpVars, audioVars
<1>2. client # "calling" /\ "accept" \notin Pending
  BY NotCalling DEF SentinelStops
<1>3. Done("sentinel", {})
  BY Schedules DEF SentinelStops, IInv, Reads, Callback
<1>4. Labels'
  BY <1>1 DEF IInv, Labels, Collecting
<1>5. Lists'
  BY <1>1, <1>3 DEF IInv, Lists, Done
<1>6. Calling'
  BY <1>1, <1>2, <1>3 DEF Calling, Done
<1>7. Tasks'
  BY <1>1 DEF IInv, Tasks, Collecting
<1>8. Scheduled'
  BY <1>1, <1>3 DEF IInv, Scheduled, Done
<1>9. Entries'
  BY <1>1 DEF IInv, Entries
<1>10. Reads'
  BY <1>1, <1>3 DEF IInv, Reads, Done
<1>11. Reasons'
  BY <1>1, <1>3, Frame DEF IInv, Reasons, Done, Complete
<1>12. Arrivals'
  BY <1>1, Frame
<1>13. Window'
  BY <1>1, Frame
<1> QED
  BY <1>4, <1>5, <1>6, <1>7, <1>8, <1>9, <1>10, <1>11, <1>12, <1>13 DEF IInv

\* The sentinel task takes a byte, or waits for one.
LEMMA SentinelReadsKeeps == ASSUME IInv, SentinelReads PROVE IInv'
<1>1. /\ UNCHANGED <<turn, client, sent, haunted, tcp, conn, out, handler,
                     drain, got, bound, queue, reader, jitter, pcm, timedOut,
                     arrived>>
      /\ sentinel = "woken"
      /\ inbox = <<>> => sentinel' = "parked" /\ UNCHANGED <<signal, inbox>>
      /\ inbox # <<>> => /\ sentinel' = "over" /\ signal' = Head(inbox)
                         /\ inbox' = IF signal' = EOF THEN inbox ELSE Tail(inbox)
  BY DEF SentinelReads, clientVars, udpVars, audioVars
<1>2. client # "calling" /\ "accept" \notin Pending
  BY NotCalling DEF SentinelReads
<1>3. /\ inbox = <<>> => Done("sentinel", {})
      /\ inbox # <<>> => Done("sentinel", {"done"})
  BY Schedules DEF SentinelReads, IInv, Reads, Callback
<1>4. inbox' \in Seq(Byte) /\ (inbox # <<>> => signal' # "none")
  <2>1. inbox \in Seq(Byte) /\ "none" \notin Byte
    BY ServerAssumption DEF IInv, Lists, Byte, EOF
  <2>2. inbox # <<>> => Head(inbox) \in Byte /\ Tail(inbox) \in Seq(Byte)
    BY <2>1
  <2> QED
    BY <1>1, <2>1, <2>2
<1>5. Excused => Excused'
  BY <1>1, <1>4 DEF Excused, SomeDamaged
<1>6. inbox # <<>> => Excused'
  BY <1>1, <1>4 DEF Excused
<1>7. handler # "request"
  BY <1>1 DEF IInv, Tasks
<1>8. Labels'
  BY <1>1 DEF IInv, Labels, Collecting
<1>9. Lists'
  BY <1>1, <1>3, <1>4, <1>5, <1>6, <1>7 DEF IInv, Lists, Done
<1>10. Calling'
  BY <1>1, <1>2, <1>3 DEF Calling, Done
<1>11. Tasks'
  BY <1>1 DEF IInv, Tasks, Collecting
<1>12. Scheduled'
  BY <1>1, <1>3, <1>4, <1>5, <1>6, <1>7 DEF IInv, Scheduled, Done
<1>13. Entries'
  BY <1>1 DEF IInv, Entries
<1>14. Reads'
  BY <1>1, <1>3, <1>4, <1>5, <1>6, <1>7 DEF IInv, Reads, Done
<1>15. Reasons'
  BY <1>1, <1>3, <1>4, <1>5, <1>6, <1>7, Frame DEF IInv, Reasons, Done, Complete
<1>16. Arrivals'
  BY <1>1, Frame
<1>17. Window'
  BY <1>1, Frame
<1> QED
  BY <1>8, <1>9, <1>10, <1>11, <1>12, <1>13, <1>14, <1>15, <1>16, <1>17 DEF IInv

\* The first task to be done ends the wait.
LEMMA FirstCompletedKeeps == ASSUME IInv, FirstCompleted PROVE IInv'
<1>1. /\ UNCHANGED <<turn, client, sent, haunted, tcp, conn, inbox, out, drain,
                     sentinel, signal, got, bound, queue, reader, jitter, pcm,
                     timedOut, arrived>>
      /\ handler = "collecting" => handler' = "collected"
      /\ handler # "collecting" => handler' = handler
  BY DEF FirstCompleted, clientVars, tcpVars, taskVars, udpVars, audioVars
<1>2. client # "calling" /\ "accept" \notin Pending
  BY NotCalling DEF FirstCompleted
<1>3. /\ handler = "collecting" => Done("done", {"collect"})
      /\ handler # "collecting" => Done("done", {})
  BY Schedules DEF FirstCompleted, IInv, Reads, Callback
<1>4. Labels'
  BY <1>1 DEF IInv, Labels, Collecting
<1>5. Lists'
  BY <1>1, <1>3 DEF IInv, Lists, Done
<1>6. Calling'
  BY <1>1, <1>2, <1>3 DEF Calling, Done
<1>7. Tasks'
  BY <1>1 DEF IInv, Tasks, Collecting
<1>8. Scheduled'
  BY <1>1, <1>3 DEF IInv, Scheduled, Done, Collecting
<1>9. Entries'
  BY <1>1 DEF IInv, Entries
<1>10. Reads'
  BY <1>1, <1>3 DEF IInv, Reads, Done
<1>11. Reasons'
  BY <1>1, <1>3, Frame DEF IInv, Reasons, Done, Complete
<1>12. Arrivals'
  BY <1>1, Frame
<1>13. Window'
  BY <1>1, Frame
<1> QED
  BY <1>4, <1>5, <1>6, <1>7, <1>8, <1>9, <1>10, <1>11, <1>12, <1>13 DEF IInv

\* A sequence is one of its own elements.
LEMMA OwnElements ==
    ASSUME NEW S, NEW t \in Seq(S)
    PROVE  t \in Seq(Range(t))
<1>1. Len(t) \in Nat /\ DOMAIN t = 1..Len(t) /\ t = [i \in 1..Len(t) |-> t[i]]
  OBVIOUS
<1>2. \A i \in 1..Len(t) : t[i] \in Range(t)
  BY <1>1 DEF Range
<1>3. t \in [1..Len(t) -> Range(t)]
  BY <1>1, <1>2
<1> DEFINE n == Len(t)
<1> HIDE DEF n
<1>4. n \in Nat /\ t \in [1..n -> Range(t)]
  BY <1>1, <1>3 DEF n
<1> QED
  BY <1>4

\* What the server writes.
LEMMA Writes ==
    ASSUME IInv, NEW m, out' = Append(out, m)
    PROVE  /\ out' \in Seq(Range(out'))
           /\ Written(Complete)' => Written(Complete) \/ m.event = Complete
<1> DEFINE n == Len(out)
           S == Range(out) \cup {m}
           new == Append(out, m)
<1>1. /\ out \in Seq(Range(out)) /\ n \in Nat /\ DOMAIN out = 1..n
  BY DEF IInv, Lists
<1>2. out \in Seq(S) /\ m \in S
  BY <1>1
<1> HIDE DEF S
<1>3. /\ new \in Seq(S) /\ DOMAIN new = 1..(n + 1) /\ new[n + 1] = m
      /\ \A i \in 1..n : new[i] = out[i]
  BY <1>1, <1>2
<1>4. out' = new
  OBVIOUS
<1> HIDE DEF new, n
<1>5. new \in Seq(Range(new))
  BY <1>3, OwnElements
<1>6. out' \in Seq(Range(out'))
  BY <1>4, <1>5
<1>7. Written(Complete)' => Written(Complete) \/ m.event = Complete
  <2>1. \A i \in 1..(n + 1) : i \in 1..n \/ i = n + 1
    BY <1>1
  <2> QED
    BY <1>1, <1>3, <1>4, <2>1 DEF Written
<1> QED
  BY <1>6, <1>7

\* The listener creates the handler.
LEMMA AcceptKeeps == ASSUME IInv, Accept PROVE IInv'
<1>1. /\ UNCHANGED <<turn, client, sent, haunted, tcp, inbox, out, drain, sentinel, signal, got,
                     bound, queue, reader, jitter, pcm, timedOut, arrived>>
      /\ handler' = "request" /\ conn' = "open" /\ Runs("accept")
  BY DEF Accept, clientVars, taskVars, udpVars, audioVars
<1>2. "accept" \in Pending /\ todo > 0
  <2>1. ready \in Seq(Callback) /\ todo \in Nat /\ todo <= Len(ready) /\ todo > 0
        /\ Head(ready) = "accept"
    BY <1>1 DEF IInv, Lists, Runs
  <2>2. 1 \in 1..Len(ready) /\ ready[1] = "accept"
    BY <2>1
  <2> QED
    BY <2>1, <2>2 DEF Pending
<1>3. /\ client = "calling" /\ handler = "over" /\ ready = <<"accept">> /\ todo = 1
      /\ drain = "none" /\ sentinel = "none" /\ tcp = <<>> /\ reader \in {"none", "stale"}
  BY <1>2 DEF IInv, Calling
<1>4. ready' = <<>> /\ todo' = 0
  BY <1>3 DEF Accept, Returns
<1>5. Pending' = {}
  BY <1>4 DEF Pending
<1>6. Labels'
  BY <1>1, <1>3 DEF IInv, Labels, Collecting
<1>7. Lists'
  BY <1>1, <1>4 DEF IInv, Lists
<1>8. Calling'
  BY <1>1, <1>3, <1>4, <1>5 DEF Calling
<1>9. Tasks'
  BY <1>1, <1>3 DEF Tasks, Collecting
<1>10. Scheduled'
  BY <1>1, <1>3, <1>5 DEF Scheduled
<1>11. Entries'
  BY <1>1 DEF IInv, Entries
<1>12. Reads'
  <2>1. Placed'
    BY <1>4 DEF Placed
  <2> QED
    BY <1>5, <2>1 DEF Reads
<1>13. Reasons'
  BY <1>1, <1>5, Frame DEF IInv, Reasons, Complete
<1> QED
  BY <1>1, <1>6, <1>7, <1>8, <1>9, <1>10, <1>11, <1>12, <1>13, Frame DEF IInv

\* The request is read and answered, and the handler goes on or is over.
LEMMA ReadRequestKeeps == ASSUME IInv, ReadRequest PROVE IInv'
<1>1. /\ UNCHANGED <<turn, client, sent, haunted, tcp, drain, sentinel, signal, got,
                     bound, queue, reader, jitter, pcm, timedOut, arrived>>
      /\ handler = "request" /\ Runs("handler")
      /\ inbox' = IF Head(inbox) = EOF THEN inbox ELSE Tail(inbox)
  BY DEF ReadRequest, clientVars, taskVars, udpVars, audioVars
<1>2. client # "calling" /\ "accept" \notin Pending
  BY <1>1, NotCalling
<1>3. /\ handler' \in {"binding", "over"} /\ conn' \in {"closed", "open", "closing"}
      /\ handler' = "binding" => UNCHANGED <<ready, todo>>
      /\ handler' = "over" => Returns(<<"lost">>) \/ Returns(<<>>)
      /\ out' = out \/ out' = Append(out, Msg("IN-PROGRESS")) \/ out' = Append(out, Msg("405"))
  BY DEF ReadRequest, Raises, Closes, KeepsRunning, loopVars, IInv, Labels
<1>4. handler' = "over" => Done("handler", {"lost"}) \/ Done("handler", {})
  BY <1>1, <1>3, Schedules DEF IInv, Reads, Callback
<1>5. handler' = "binding" => Pending' = Pending /\ Placed' /\ ready' = ready /\ todo' = todo
  BY <1>3 DEF IInv, Reads, Placed, Pending
<1>6. "handler" \in Pending
  BY <1>1 DEF IInv, Lists, Runs, Pending
<1>7. inbox' \in Seq(Byte)
  <2>1. inbox \in Seq(Byte) /\ inbox # <<>>
    BY <1>1, <1>6 DEF IInv, Lists, Reads
  <2> QED
    BY <1>1, <2>1
<1>8. out' \in Seq(Range(out')) /\ (Written(Complete)' => Written(Complete))
  <2>1. Msg("IN-PROGRESS").event # Complete /\ Msg("405").event # Complete
    BY DEF Msg, Complete
  <2>2. CASE out' = out
    BY <2>2, Frame DEF IInv, Lists
  <2>3. CASE out' = Append(out, Msg("IN-PROGRESS"))
    BY <2>1, <2>3, Writes
  <2>4. CASE out' = Append(out, Msg("405"))
    BY <2>1, <2>4, Writes
  <2> QED
    BY <1>3, <2>2, <2>3, <2>4
<1>9. Labels'
  BY <1>1, <1>3 DEF IInv, Labels, Collecting
<1>10. Lists'
  BY <1>1, <1>3, <1>4, <1>5, <1>7, <1>8 DEF IInv, Lists, Done
<1>11. Calling'
  BY <1>1, <1>2, <1>3, <1>4, <1>5 DEF Calling, Done
<1>12. Tasks'
  BY <1>1, <1>3 DEF IInv, Tasks, Collecting
<1>13. Scheduled'
  BY <1>1, <1>3, <1>4, <1>5 DEF IInv, Scheduled, Tasks, Done
<1>14. Entries'
  BY <1>1 DEF IInv, Entries
<1>15. Reads'
  BY <1>1, <1>3, <1>4, <1>5 DEF IInv, Reads, Done
<1>16. Reasons'
  BY <1>1, <1>3, <1>4, <1>5, <1>8, Frame DEF IInv, Reasons, Done, Complete
<1> QED
  BY <1>1, <1>9, <1>10, <1>11, <1>12, <1>13, <1>14, <1>15, <1>16, Frame DEF IInv

\* The RTP socket is bound and the two tasks are created.
LEMMA BindRtpSocketKeeps == ASSUME IInv, BindRtpSocket PROVE IInv'
<1>1. /\ UNCHANGED <<turn, client, sent, haunted, tcp, conn, inbox, out, signal,
                     got, reader, jitter, pcm, timedOut, arrived>>
      /\ handler = "binding" /\ handler' = "collecting"
      /\ bound' = TRUE /\ queue' = <<>>
      /\ drain' = "running" /\ sentinel' = "woken"
  BY DEF BindRtpSocket, clientVars, tcpVars, audioVars
<1>2. client # "calling" /\ "accept" \notin Pending
  BY NotCalling DEF BindRtpSocket
<1>3. Done("handler", {"drain", "sentinel"})
  BY Schedules DEF BindRtpSocket, IInv, Reads, Callback
<1>4. queue' \in Seq(Datagrams) /\ Range(queue') = {}
  BY <1>1 DEF Range
<1>5. drain = "none"
  BY <1>1 DEF IInv, Tasks
<1>6. Labels'
  BY <1>1 DEF IInv, Labels, Collecting
<1>7. Lists'
  BY <1>1, <1>3, <1>4, <1>5 DEF IInv, Lists, Done
<1>8. Calling'
  BY <1>1, <1>2, <1>3 DEF Calling, Done
<1>9. Tasks'
  BY <1>1 DEF IInv, Tasks, Collecting
<1>10. Scheduled'
  BY <1>1, <1>3, <1>4, <1>5 DEF IInv, Scheduled, Done, Collecting
<1>11. Entries'
  BY <1>1, <1>5 DEF IInv, Entries
<1>12. Reads'
  BY <1>1, <1>3, <1>4, <1>5 DEF IInv, Reads, Done
<1>13. Reasons'
  BY <1>1, <1>3, <1>4, <1>5, Frame DEF IInv, Reasons, Done, Complete
<1>14. Arrivals'
  BY <1>1, <1>4 DEF IInv, Arrivals
<1>15. Window'
  BY <1>1, Frame
<1> QED
  BY <1>6, <1>7, <1>8, <1>9, <1>10, <1>11, <1>12, <1>13, <1>14, <1>15 DEF IInv

\* The reply and the end of handle_connection.
LEMMA AnswerKeeps == ASSUME IInv, Answer PROVE IInv'
<1>1. /\ UNCHANGED <<turn, client, sent, haunted, tcp, inbox, drain, sentinel, signal, got,
                     bound, queue, reader, jitter, pcm, timedOut, arrived>>
      /\ handler \in {"answering", "raising"} /\ handler' = "over" /\ Runs("answer")
      /\ conn' \in {"closed", "open", "closing"}
      /\ sentinel \notin {"cancelled", "over"} => Returns(<<"lost">>)
      /\ Returns(<<"lost">>) \/ Returns(<<>>)
  <2>1. IInv => (HasAudio(pcm) => pcm # <<>>)
    BY DEF HasAudio
  <2> QED
    BY <2>1 DEF Answer, Closes, Raises, IInv, Labels, Tasks, clientVars, taskVars, udpVars, audioVars
<1>2. client # "calling" /\ "accept" \notin Pending
  BY <1>1, NotCalling
<1>3. /\ sentinel \notin {"cancelled", "over"} => Done("answer", {"lost"})
      /\ Done("answer", {"lost"}) \/ Done("answer", {})
  BY <1>1, Schedules DEF IInv, Reads, Callback
<1>4. out' \in Seq(Range(out'))
  <2>1. CASE out' = out
    BY <2>1 DEF IInv, Lists
  <2>2. ASSUME NEW m, out' = Append(out, m)
        PROVE  out' \in Seq(Range(out'))
    BY <2>2, Writes
  <2>3. ASSUME NEW l, NEW m, out' = out \o <<l, m>>
        PROVE  out' \in Seq(Range(out'))
    <3> DEFINE n == Len(out)
    <3>1. out \in Seq(Range(out)) /\ n \in Nat
      BY DEF IInv, Lists
    <3>2. DOMAIN out' = 1..(n + 2) /\ out' = [i \in 1..(n + 2) |-> out'[i]]
      BY <2>3, <3>1
    <3>3. \A i \in 1..(n + 2) : out'[i] \in Range(out')
      BY <3>2 DEF Range
    <3>4. out' \in [1..(n + 2) -> Range(out')]
      BY <3>2, <3>3
    <3> HIDE DEF n
    <3> QED
      BY <3>1, <3>4
  <2>4. \/ out' = out \/ \E m : out' = Append(out, m)
        \/ \E l, m : out' = out \o <<l, m>>
    BY DEF Answer
  <2> QED
    BY <2>1, <2>2, <2>3, <2>4
<1>5. Excused'
  BY <1>1, Frame DEF IInv, Reasons
<1>6. Labels'
  BY <1>1 DEF IInv, Labels, Collecting
<1>7. Lists'
  BY <1>1, <1>3, <1>4 DEF IInv, Lists, Done
<1>8. Calling'
  BY <1>1, <1>2, <1>3 DEF Calling, Done
<1>9. Tasks'
  BY <1>1 DEF IInv, Tasks, Collecting
<1>10. Scheduled'
  BY <1>1, <1>3 DEF IInv, Scheduled, Tasks, Collecting, Done
<1>11. Entries'
  BY <1>1 DEF IInv, Entries
<1>12. Reads'
  BY <1>1, <1>3 DEF IInv, Reads, Done
<1>13. Reasons'
  BY <1>5 DEF Reasons
<1> QED
  BY <1>1, <1>6, <1>7, <1>8, <1>9, <1>10, <1>11, <1>12, <1>13, Frame DEF IInv

-----------------------------------------------------------------------------
(* The datagrams.                                                          *)

\* What the parsed datagrams carry are payloads, and those among them that do
\* not convert were damaged.
LEMMA ParsedIs ==
    ASSUME IInv
    PROVE  /\ Parsed \subseteq Chunk
           /\ \A p \in Parsed : ~IsL16(p) => SomeDamaged
           /\ \A d \in Range(arrived) : /\ d \in Datagrams /\ d.pos \in Int
                                        /\ ParsesAsRtp(d) => Payload(d) \in Parsed
                                        /\ d.size = 0 => SomeDamaged
<1>1. arrived \in Seq(Datagrams) /\ DOMAIN arrived = 1..Len(arrived)
  BY DEF IInv, Lists
<1>2. ASSUME NEW d \in Datagrams
      PROVE  d.size \in Nat /\ d.csrc \in Nat /\ d.pos \in Int
  BY ServerAssumption
<1>3. ASSUME NEW d \in Datagrams, ParsesAsRtp(d)
      PROVE  Payload(d) \in Chunk
  <2>1. d.size - PayloadStart(d) \in Nat
    BY <1>2, <1>3 DEF ParsesAsRtp, PayloadStart, HeaderSize
  <2> QED
    BY <1>2, <2>1 DEF Payload, Chunk
<1>4. ASSUME NEW p \in Parsed
      PROVE  p \in Chunk /\ (~IsL16(p) => SomeDamaged)
  <2>1. PICK k \in 1..Len(arrived) : ParsesAsRtp(arrived[k]) /\ p = Payload(arrived[k])
    BY DEF Parsed
  <2>2. arrived[k] \in Datagrams
    BY <1>1
  <2> QED
    BY <1>1, <1>3, <2>1, <2>2 DEF SomeDamaged, Damaged
<1>5. ASSUME NEW d \in Range(arrived)
      PROVE  /\ d \in Datagrams /\ d.pos \in Int
             /\ ParsesAsRtp(d) => Payload(d) \in Parsed
             /\ d.size = 0 => SomeDamaged
  <2>1. PICK k \in 1..Len(arrived) : d = arrived[k]
    BY <1>1 DEF Range
  <2>2. d \in Datagrams
    BY <1>1, <2>1
  <2> QED
    BY <1>1, <1>2, <2>1, <2>2 DEF Parsed, SomeDamaged, Damaged
<1> QED
  BY <1>4, <1>5

\* drain_rtp takes a datagram: it is parsed, ordered and converted.
LEMMA DrainDatagramKeeps ==
    ASSUME IInv, DrainDatagram
    PROVE  IInv' /\ (drain' = "over" => SomeDamaged)
<1> DEFINE d == Head(got \o queue)
           pushed == IF ParsesAsRtp(d)
                     THEN PushResult(jitter.buffered, jitter.nextSeq, SequenceOf(d.pos), Payload(d))
                     ELSE [buffered |-> jitter.buffered, nextSeq |-> jitter.nextSeq, out |-> <<>>]
<1>1. /\ UNCHANGED <<turn, client, sent, haunted, tcp, conn, inbox, out, handler, sentinel, signal,
                     bound, reader, timedOut, arrived>>
      /\ Runs("drain") /\ drain = "running" /\ bound /\ got \o queue # <<>>
      /\ jitter' = [buffered |-> pushed.buffered, nextSeq |-> pushed.nextSeq]
      /\ pcm' = Extended(pcm, pushed.out)
      /\ got' = <<>> /\ queue' = IF got = <<>> THEN Tail(queue) ELSE queue
  BY DEF DrainDatagram, clientVars, tcpVars
<1>2. /\ EndsDrain(d, ExtendRaises(pushed.out)) => drain' = "over" /\ Returns(<<"done">>)
      /\ ~EndsDrain(d, ExtendRaises(pushed.out)) => UNCHANGED <<drain, ready, todo>>
  BY DEF DrainDatagram, KeepsRunning, loopVars
<1>3. client # "calling" /\ "accept" \notin Pending
  BY <1>1, NotCalling
<1>4. /\ got \in Seq(Datagrams) /\ queue \in Seq(Datagrams)
      /\ Range(got) \subseteq Range(arrived) /\ Range(queue) \subseteq Range(arrived)
  BY DEF IInv, Lists, Arrivals
<1>5. d \in Range(arrived)
  <2>1. CASE got # <<>>
    <3>1. d = got[1] /\ 1 \in DOMAIN got
      BY <1>4, <2>1
    <3> HIDE DEF d
    <3> QED
      BY <1>4, <3>1 DEF Range
  <2>2. CASE got = <<>>
    <3>1. got \o queue = queue
      BY <1>4, <2>2
    <3>2. d = queue[1] /\ 1 \in DOMAIN queue
      BY <1>1, <1>4, <3>1
    <3> HIDE DEF d
    <3> QED
      BY <1>4, <3>2 DEF Range
  <2> QED
    BY <2>1, <2>2
<1>6. queue' \in Seq(Datagrams) /\ Range(queue') \subseteq Range(queue)
  <2>1. CASE got = <<>>
    <3>1. queue # <<>>
      BY <1>1, <1>4, <2>1
    <3>2. /\ Tail(queue) \in Seq(Datagrams)
          /\ \A i \in DOMAIN Tail(queue) : i + 1 \in DOMAIN queue /\ Tail(queue)[i] = queue[i + 1]
      BY <1>4, <3>1
    <3>3. Range(Tail(queue)) \subseteq Range(queue)
      BY <3>2 DEF Range
    <3> QED
      BY <1>1, <2>1, <3>2, <3>3
  <2>2. CASE got # <<>>
    BY <1>1, <1>4, <2>2
  <2> QED
    BY <2>1, <2>2
<1>7. got' \in Seq(Datagrams) /\ Range(got') = {}
  BY <1>1 DEF Range
<1> HIDE DEF d
<1>8. /\ d \in Datagrams /\ d.pos \in Int /\ (d.size = 0 => SomeDamaged)
      /\ ParsesAsRtp(d) => Payload(d) \in Parsed
  BY <1>5, ParsedIs
<1>9. /\ Keyed(pushed.buffered, pushed.nextSeq) /\ Values(pushed.buffered) \subseteq Parsed
      /\ pushed.out \in Seq(Parsed)
  <2>1. Keyed(jitter.buffered, jitter.nextSeq) /\ Values(jitter.buffered) \subseteq Parsed
    BY DEF IInv, Window
  <2>2. CASE ParsesAsRtp(d)
    <3>1. SequenceOf(d.pos) \in Number
      <4> DEFINE pos == d.pos
      <4>0. pos \in Int /\ First \in Int
        <5>1. pos \in Int
          BY <1>8
        <5>2. First \in Int
          BY WindowAssumption
        <5> QED
          BY <5>1, <5>2
      <4> HIDE DEF pos
      <4>1. First + pos \in Int
        BY <4>0
      <4> DEFINE r == First + pos
      <4>2. r \in Int
        BY <4>1
      <4>3. SequenceOf(d.pos) = r % 65536
        BY DEF SequenceOf, pos
      <4> HIDE DEF r
      <4>4. r % 65536 \in Int /\ 0 <= r % 65536 /\ r % 65536 < 65536
        BY <4>2
      <4> QED
        BY <4>3, <4>4, NumberIs
    <3>2. pushed = PushResult(jitter.buffered, jitter.nextSeq, SequenceOf(d.pos), Payload(d))
      BY <2>2
    <3> DEFINE b == jitter.buffered
               n == jitter.nextSeq
               s == SequenceOf(d.pos)
               v == Payload(d)
    <3> HIDE DEF pushed, b, n, s, v
    <3>3. /\ Keyed(pushed.buffered, pushed.nextSeq)
          /\ Values(pushed.buffered) \subseteq Values(b) \cup {v}
          /\ pushed.out \in Seq(Values(b) \cup {v})
      <4>1. Keyed(b, n) /\ s \in Number /\ pushed = PushResult(b, n, s, v)
        BY <2>1, <3>1, <3>2 DEF b, n, s, v
      <4> QED
        BY <4>1, PushIs
    <3>4. Values(b) \cup {v} \subseteq Parsed
      BY <1>8, <2>1, <2>2 DEF b, v
    <3> QED
      BY <3>3, <3>4
  <2>3. CASE ~ParsesAsRtp(d)
    BY <2>1, <2>3
  <2> QED
    BY <2>2, <2>3
<1> HIDE DEF pushed
<1>10. Window'
  <2>1. Parsed' = Parsed
    BY <1>1 DEF Parsed
  <2>2. jitter'.buffered = pushed.buffered /\ jitter'.nextSeq = pushed.nextSeq
    BY <1>1
  <2> QED
    BY <1>9, <2>1, <2>2 DEF Window
<1>11. pcm' \in Seq(Chunk)
  <2>1. pcm \in Seq(Chunk) /\ pushed.out \in Seq(Chunk)
    BY <1>9, ParsedIs DEF IInv, Lists
  <2> QED
    BY <1>1, <2>1, ExtendedIs
<1>12. EndsDrain(d, ExtendRaises(pushed.out)) => SomeDamaged
  <2>1. ExtendRaises(pushed.out) => SomeDamaged
    <3> SUFFICES ASSUME ExtendRaises(pushed.out)
                 PROVE  SomeDamaged
      OBVIOUS
    <3>1. PICK i \in 1..Len(pushed.out) : ~IsL16(pushed.out[i])
      BY <1>9, ConvertibleIs
    <3>2. pushed.out[i] \in Parsed
      BY <1>9
    <3> QED
      BY <3>1, <3>2, ParsedIs
  <2> QED
    BY <1>8, <2>1 DEF EndsDrain
<1>13. drain' = "over" \/ drain' = "running"
  BY <1>1, <1>2
<1>14. /\ drain' = "over" => Done("drain", {"done"}) /\ Excused'
       /\ drain' # "over" => Pending' = Pending /\ Placed' /\ ready' = ready /\ todo' = todo
  <2>1. CASE EndsDrain(d, ExtendRaises(pushed.out))
    <3>1. Done("drain", {"done"})
      BY <1>1, <1>2, <2>1, Schedules DEF IInv, Reads, Callback
    <3>2. Excused'
      BY <1>1, <1>12, <2>1 DEF Excused, SomeDamaged
    <3> QED
      BY <1>2, <2>1, <3>1, <3>2
  <2>2. CASE ~EndsDrain(d, ExtendRaises(pushed.out))
    BY <1>1, <1>2, <2>2 DEF IInv, Reads, Placed, Pending
  <2> QED
    BY <2>1, <2>2
<1>15. Labels'
  BY <1>1, <1>13 DEF IInv, Labels, Collecting
<1>16. Lists'
  BY <1>1, <1>6, <1>7, <1>11, <1>14 DEF IInv, Lists, Done
<1>17. Calling'
  BY <1>1, <1>3, <1>14 DEF Calling, Done
<1>18. handler \in Collecting
  BY <1>1 DEF IInv, Labels
<1>19. Tasks'
  BY <1>1, <1>13, <1>18 DEF IInv, Tasks, Collecting
<1>20. Scheduled'
  BY <1>1, <1>13, <1>14, <1>18 DEF IInv, Scheduled, Done, Collecting
<1>21. Entries'
  BY <1>1 DEF IInv, Entries
<1>22. Reads'
  BY <1>1, <1>14 DEF IInv, Reads, Done
<1>23. Reasons'
  BY <1>1, <1>14, Frame DEF IInv, Reasons, Done, Complete
<1>24. Arrivals'
  BY <1>1, <1>4, <1>6, <1>7 DEF Arrivals
<1>25. drain' = "over" => SomeDamaged
  BY <1>1, <1>2, <1>12
<1> QED
  BY <1>25, <1>10, <1>15, <1>16, <1>17, <1>19, <1>20, <1>21, <1>22, <1>23, <1>24 DEF IInv

-----------------------------------------------------------------------------
(* The end of the collection.                                              *)

\* What the flush returns can be appended.
LEMMA FlushedIs ==
    ASSUME IInv
    PROVE  Extended(pcm, Flushed) \in Seq(Chunk)
<1>1. FlushResult(jitter.buffered, jitter.nextSeq) \in Seq(Values(jitter.buffered))
  BY FlushIs DEF IInv, Window
<1>2. Values(jitter.buffered) \subseteq Chunk /\ pcm \in Seq(Chunk)
  BY ParsedIs DEF IInv, Window, Lists
<1>3. FlushResult(jitter.buffered, jitter.nextSeq) \in Seq(Chunk)
  BY <1>1, <1>2
<1>4. Flushed \in Seq(Chunk)
  BY <1>3 DEF Flushed
<1> QED
  BY <1>2, <1>4, ExtendedIs

\* The callbacks that cancelling the pending tasks schedules.
Woken == (IF drain = "parked" THEN {"drain"} ELSE {})
    \cup (IF sentinel = "parked" THEN {"sentinel"} ELSE {}) \cup {"answer"}

\* The pending tasks are cancelled.
LEMMA CancelPendingIs ==
    ASSUME IInv, NEW h, Runs(h), CancelPending
    PROVE  Done(h, Woken)
<1> DEFINE a == IF drain = "parked" THEN <<"drain">> ELSE <<>>
           b == IF sentinel = "parked" THEN <<"sentinel">> ELSE <<>>
           c == <<"answer">>
           xs == (a \o b) \o c
           X == {xs[i] : i \in 1..Len(xs)}
<1>1. Lists /\ Placed /\ Returns(xs)
  BY DEF IInv, Reads, CancelPending
<1>2. /\ a \in Seq(Callback) /\ Len(a) = (IF drain = "parked" THEN 1 ELSE 0)
      /\ drain = "parked" => a[1] = "drain"
  <2>1. <<"drain">> \in Seq(Callback) /\ <<>> \in Seq(Callback)
    BY DEF Callback
  <2>2. CASE drain = "parked"
    BY <2>1, <2>2
  <2>3. CASE drain # "parked"
    BY <2>1, <2>3
  <2> QED
    BY <2>2, <2>3
<1>3. /\ b \in Seq(Callback) /\ Len(b) = (IF sentinel = "parked" THEN 1 ELSE 0)
      /\ sentinel = "parked" => b[1] = "sentinel"
  <2>1. <<"sentinel">> \in Seq(Callback) /\ <<>> \in Seq(Callback)
    BY DEF Callback
  <2>2. CASE sentinel = "parked"
    BY <2>1, <2>2
  <2>3. CASE sentinel # "parked"
    BY <2>1, <2>3
  <2> QED
    BY <2>2, <2>3
<1>4. c \in Seq(Callback) /\ Len(c) = 1 /\ c[1] = "answer"
  BY DEF Callback
<1> HIDE DEF a, b, c
<1>5. /\ xs \in Seq(Callback) /\ Len(xs) = Len(a) + Len(b) + 1
      /\ drain = "parked" => xs[1] = "drain"
      /\ sentinel = "parked" => xs[Len(a) + 1] = "sentinel"
      /\ xs[Len(a) + Len(b) + 1] = "answer"
  BY <1>2, <1>3, <1>4
<1> HIDE DEF xs
<1>6. X = Woken /\ \A i \in 1..Len(xs) : xs[i] # "data"
  <2>1. CASE drain = "parked" /\ sentinel = "parked"
    <3>1. Len(xs) = 3 /\ xs[1] = "drain" /\ xs[2] = "sentinel" /\ xs[3] = "answer"
      BY <1>2, <1>3, <1>5, <2>1
    <3> QED
      BY <2>1, <3>1 DEF Woken
  <2>2. CASE drain = "parked" /\ sentinel # "parked"
    <3>1. Len(xs) = 2 /\ xs[1] = "drain" /\ xs[2] = "answer"
      BY <1>2, <1>3, <1>5, <2>2
    <3> QED
      BY <2>2, <3>1 DEF Woken
  <2>3. CASE drain # "parked" /\ sentinel = "parked"
    <3>1. Len(xs) = 2 /\ xs[1] = "sentinel" /\ xs[2] = "answer"
      BY <1>2, <1>3, <1>5, <2>3
    <3> QED
      BY <2>3, <3>1 DEF Woken
  <2>4. CASE drain # "parked" /\ sentinel # "parked"
    <3>1. Len(xs) = 1 /\ xs[1] = "answer"
      BY <1>2, <1>3, <1>5, <2>4
    <3> QED
      BY <2>4, <3>1 DEF Woken
  <2> QED
    BY <2>1, <2>2, <2>3, <2>4
<1>7. Done(h, X)
  BY <1>1, <1>5, <1>6, ReturnsIs
<1> QED
  BY <1>6, <1>7

\* _collect_rtp_until_sentinel ends: tasks cancelled, window flushed, socket closed.
LEMMA CollectKeeps == ASSUME IInv, Collect PROVE IInv'
<1>1. /\ UNCHANGED <<turn, client, sent, haunted, tcp, conn, inbox, out, signal, got, reader,
                     jitter, timedOut, arrived>>
      /\ Runs("collect")
      /\ handler = "collected" =>
            /\ CancelPending /\ bound' = FALSE /\ queue' = <<>>
            /\ pcm' = Extended(pcm, Flushed)
            /\ drain' = IF drain = "over" THEN drain ELSE "cancelled"
            /\ sentinel' = IF sentinel = "over" THEN sentinel ELSE "cancelled"
            /\ handler' = "raising" \/ handler' = "answering"
      /\ handler # "collected" =>
            Returns(<<>>) /\ UNCHANGED <<drain, sentinel, bound, queue, pcm, handler>>
  BY DEF Collect, CancelPending, CloseSocket, clientVars, tcpVars
<1>2. client # "calling" /\ "accept" \notin Pending
  BY <1>1, NotCalling
<1>3. /\ handler = "collected" => Done("collect", Woken)
      /\ handler # "collected" => Done("collect", {})
  BY <1>1, CancelPendingIs, Schedules DEF IInv, Reads
<1>4. /\ pcm' \in Seq(Chunk) /\ queue' \in Seq(Datagrams)
      /\ Range(queue') \subseteq Range(queue) /\ (queue = <<>> => queue' = <<>>)
  <2>1. queue \in Seq(Datagrams) /\ pcm \in Seq(Chunk) /\ Range(<<>>) = {}
    BY DEF IInv, Lists, Range
  <2>2. CASE handler = "collected"
    <3>1. queue' = <<>> /\ pcm' = Extended(pcm, Flushed)
      BY <1>1, <2>2
    <3> QED
      BY <2>1, <3>1, FlushedIs
  <2>3. CASE handler # "collected"
    BY <1>1, <2>1, <2>3
  <2> QED
    BY <2>2, <2>3
<1>5. handler = "collected" =>
        drain \in {"running", "parked", "over"} /\ sentinel \in {"woken", "parked", "over"}
  BY DEF IInv, Tasks, Collecting
<1>6. Labels'
  <2>1. bound' = (handler' \in Collecting)
    <3>1. CASE handler = "collected"
      <4>1. handler' \notin Collecting /\ bound' = FALSE
        BY <1>1, <3>1 DEF Collecting
      <4>2. (handler' \in Collecting) = FALSE
        BY <4>1
      <4> QED
        BY <4>1, <4>2
    <3>2. CASE handler # "collected"
      BY <1>1, <3>2 DEF IInv, Labels
    <3> QED
      BY <3>1, <3>2
  <2> QED
    BY <1>1, <2>1 DEF IInv, Labels
<1>7. Lists'
  BY <1>1, <1>3, <1>4 DEF IInv, Lists, Done
<1>8. Calling'
  BY <1>1, <1>2, <1>3 DEF Calling, Done, Woken
<1>9. Tasks'
  BY <1>1, <1>5 DEF IInv, Tasks, Collecting
<1>10. Scheduled'
  BY <1>1, <1>3, <1>5 DEF IInv, Scheduled, Done, Woken, Collecting
<1>11. Entries'
  BY <1>1, <1>5 DEF IInv, Entries
<1>12. Reads'
  BY <1>1, <1>3 DEF IInv, Reads, Done, Woken
<1>13. Reasons'
  BY <1>1, <1>3, Frame DEF IInv, Reasons, Done, Woken, Complete
<1>14. Arrivals'
  BY <1>1, <1>4 DEF IInv, Arrivals
<1>15. Window'
  BY <1>1, Frame
<1> QED
  BY <1>6, <1>7, <1>8, <1>9, <1>10, <1>11, <1>12, <1>13, <1>14, <1>15 DEF IInv

\* The turn times out: its tasks are left to themselves, its socket is closed.
LEMMA ExpireKeeps == ASSUME IInv, Expire PROVE IInv'
<1>1. /\ UNCHANGED <<turn, client, sent, haunted, tcp, conn, inbox, out, sentinel, signal, got,
                     jitter, arrived>>
      /\ Runs("expire")
      /\ handler \in Collecting =>
            /\ handler' = "answering" /\ timedOut' = TRUE /\ pcm' = <<>>
            /\ bound' = FALSE /\ queue' = <<>> /\ Returns(<<"answer">>)
            /\ drain = "parked" => drain' = "leaked" /\ reader' = "stale"
            /\ drain # "parked" => UNCHANGED <<drain, reader>>
      /\ handler \notin Collecting =>
            Returns(<<>>) /\ UNCHANGED <<handler, timedOut, pcm, bound, queue, drain, reader>>
  BY DEF Expire, CloseSocket, clientVars, tcpVars
<1>2. client # "calling" /\ "accept" \notin Pending
  BY <1>1, NotCalling
<1>3. /\ handler \in Collecting => Done("expire", {"answer"})
      /\ handler \notin Collecting => Done("expire", {})
  BY <1>1, Schedules DEF IInv, Reads, Callback
<1>4. /\ pcm' \in Seq(Chunk) /\ queue' \in Seq(Datagrams)
      /\ Range(queue') \subseteq Range(queue) /\ (queue = <<>> => queue' = <<>>)
  <2>1. queue \in Seq(Datagrams) /\ pcm \in Seq(Chunk) /\ Range(<<>>) = {}
    BY DEF IInv, Lists, Range
  <2>2. CASE handler \in Collecting
    <3>1. queue' = <<>> /\ pcm' = <<>>
      BY <1>1, <2>2
    <3> QED
      BY <2>1, <3>1
  <2>3. CASE handler \notin Collecting
    BY <1>1, <2>1, <2>3
  <2> QED
    BY <2>2, <2>3
<1>5. handler \in Collecting =>
        drain \in {"running", "parked", "over"} /\ sentinel \in {"woken", "parked", "over"}
  BY DEF IInv, Tasks
<1>6. (Excused => Excused') /\ (handler \in Collecting => Excused')
  BY <1>1 DEF Excused, SomeDamaged
<1>7. Labels'
  <2>1. bound' = (handler' \in Collecting)
    <3>1. CASE handler \in Collecting
      <4>1. handler' \notin Collecting /\ bound' = FALSE
        BY <1>1, <3>1 DEF Collecting
      <4>2. (handler' \in Collecting) = FALSE
        BY <4>1
      <4> QED
        BY <4>1, <4>2
    <3>2. CASE handler \notin Collecting
      BY <1>1, <3>2 DEF IInv, Labels
    <3> QED
      BY <3>1, <3>2
  <2> QED
    BY <1>1, <2>1 DEF IInv, Labels
<1>8. Lists'
  BY <1>1, <1>3, <1>4 DEF IInv, Lists, Done
<1>9. Calling'
  BY <1>1, <1>2, <1>3 DEF Calling, Done
<1>10. Tasks'
  BY <1>1, <1>5 DEF IInv, Tasks, Collecting
<1>11. Scheduled'
  BY <1>1, <1>3, <1>5 DEF IInv, Scheduled, Done, Collecting
<1>12. Entries'
  BY <1>1, <1>5 DEF IInv, Entries
<1>13. Reads'
  BY <1>1, <1>3 DEF IInv, Reads, Done
<1>14. Reasons'
  BY <1>1, <1>3, <1>6, Frame DEF IInv, Reasons, Done, Complete
<1>15. Arrivals'
  BY <1>1, <1>4 DEF IInv, Arrivals
<1>16. Window'
  BY <1>1, Frame
<1> QED
  BY <1>7, <1>8, <1>9, <1>10, <1>11, <1>12, <1>13, <1>14, <1>15, <1>16 DEF IInv

-----------------------------------------------------------------------------
(* The iterations of the loop, the client and the network.                 *)

\* A queue of one callback is known by that callback.
LEMMA OneCallback ==
    ASSUME NEW S, NEW q \in Seq(S), NEW c, Len(q) = 1, q[1] = c
    PROVE  q = <<c>>
<1>1. <<c>> \in [1..1 -> {c}] /\ q \in [1..1 -> S]
  OBVIOUS
<1>2. \A i \in 1..1 : i = 1 /\ q[i] = <<c>>[i]
  OBVIOUS
<1> QED
  BY <1>1, <1>2

\* What was in the queue stays in front of what is appended to it.
Lengthened ==
    /\ todo' = Len(ready') /\ Len(ready') \in Nat /\ Len(ready) \in Nat /\ Len(ready) <= Len(ready')
    /\ \A i \in 1..Len(ready) : ready'[i] = ready[i]
    /\ \A i \in 1..Len(ready') : i > Len(ready) =>
          ready'[i] \in Polled \/ (handler \in Collecting /\ ready'[i] = "expire")
    /\ \A i, j \in 1..Len(ready') :
          i > Len(ready) /\ j > Len(ready) /\ ready'[i] = "recv" /\ ready'[j] = "recv" => i = j
    /\ Polled \subseteq Pending'

\* Readiness and timers are appended, and all that is then in the queue runs.
LEMMA PollIs ==
    ASSUME IInv, Poll
    PROVE  /\ Lengthened
           /\ Pending \subseteq Pending' /\ Pending' \subseteq Pending \cup Polled \cup {"expire"}
           /\ ready' \in Seq(Callback) /\ todo' \in Nat /\ todo' <= Len(ready') /\ Placed'
           /\ ready = <<>> /\ Polled = {"accept"} /\ handler \notin Collecting =>
                 ready' = <<"accept">> /\ todo' = 1
           /\ ~(ready = <<>> /\ Polled = {} /\ handler \notin Collecting)
<1>1. PICK io \in SetToSeqs(Polled), timers \in Timers :
        ready' = (ready \o io) \o timers /\ todo' = Len(ready') /\ ready' # <<>>
  BY DEF Poll
<1>2. ready \in Seq(Callback) /\ todo = 0 /\ Placed
  BY DEF IInv, Lists, Reads, Poll
<1> DEFINE m == Cardinality(Polled)
           n == Len(ready)
           k == Len(timers)
<1>3. Polled \subseteq {"accept", "data", "recv"} /\ Polled \subseteq Callback
  BY DEF Polled, Callback
<1>4. IsFiniteSet(Polled) /\ m \in Nat
  <2>1. IsFiniteSet({"accept", "data", "recv"})
    <3>1. IsFiniteSet({}) /\ IsFiniteSet({} \cup {"accept"})
      BY FS_EmptySet, FS_AddElement
    <3>2. IsFiniteSet(({} \cup {"accept"}) \cup {"data"})
      BY <3>1, FS_AddElement
    <3>3. IsFiniteSet((({} \cup {"accept"}) \cup {"data"}) \cup {"recv"})
      BY <3>2, FS_AddElement
    <3>4. (({} \cup {"accept"}) \cup {"data"}) \cup {"recv"} = {"accept", "data", "recv"}
      OBVIOUS
    <3> QED
      BY <3>3, <3>4
  <2>2. IsFiniteSet(Polled)
    BY <1>3, <2>1, FS_Subset
  <2> QED
    BY <2>2, FS_CardinalityType
<1>5. io \in [1..m -> Polled] /\ \A i, j \in 1..m : i # j => io[i] # io[j]
  BY DEF SetToSeqs
<1>6. io \in Seq(Callback) /\ Len(io) = m
  <2>1. io \in [1..m -> Callback]
    BY <1>3, <1>5
  <2> HIDE DEF m
  <2> QED
    BY <1>4, <2>1
<1>7. /\ timers \in Seq(Callback) /\ k \in Nat /\ Len(timers) = k /\ \A i \in 1..k : timers[i] = "expire"
      /\ handler \notin Collecting => timers = <<>>
  <2>1. timers = <<>> \/ timers = <<"expire">>
    BY DEF Timers
  <2>2. handler \notin Collecting => timers = <<>>
    BY DEF Timers
  <2>3. CASE timers = <<>>
    BY <2>2, <2>3
  <2>4. CASE timers = <<"expire">>
    BY <2>2, <2>4 DEF Callback
  <2> QED
    BY <2>1, <2>3, <2>4
<1> HIDE DEF m, k
<1>8. n \in Nat
  BY <1>2
<1> HIDE DEF n
<1>9. /\ ready' \in Seq(Callback) /\ Len(ready') = n + m + k
      /\ \A i \in 1..n : ready'[i] = ready[i]
      /\ \A i \in 1..m : ready'[n + i] = io[i]
      /\ \A i \in 1..k : ready'[n + m + i] = timers[i]
  <2> DEFINE r == ready \o io
  <2>1. r \in Seq(Callback) /\ Len(r) = n + m
        /\ (\A i \in 1..n : r[i] = ready[i]) /\ (\A i \in 1..m : r[n + i] = io[i])
    BY <1>2, <1>4, <1>6, <1>8 DEF n
  <2>2. ready' = r \o timers
    BY <1>1
  <2> HIDE DEF r
  <2>3. /\ r \o timers \in Seq(Callback) /\ Len(r \o timers) = n + m + k
        /\ \A i \in 1..(n + m) : (r \o timers)[i] = r[i]
        /\ \A i \in 1..k : (r \o timers)[n + m + i] = timers[i]
    <3>1. r \in Seq(Callback) /\ timers \in Seq(Callback) /\ Len(r) = n + m /\ Len(timers) = k
      BY <1>7, <2>1
    <3> QED
      BY <1>4, <1>7, <1>8, <3>1
  <2>4. \A i \in 1..n : i \in 1..(n + m)
    BY <1>4, <1>8
  <2>5. \A i \in 1..m : n + i \in 1..(n + m)
    BY <1>4, <1>8
  <2> QED
    BY <2>1, <2>2, <2>3, <2>4, <2>5
<1>10. \A i \in 1..(n + m + k) :
         \/ i \in 1..n
         \/ i - n \in 1..m /\ n + (i - n) = i
         \/ i - n - m \in 1..k /\ n + m + (i - n - m) = i
  BY <1>4, <1>7, <1>8
<1>11. /\ \A i \in 1..n : i \in 1..(n + m + k)
       /\ \A i \in 1..m : n + i \in 1..(n + m + k)
  BY <1>4, <1>7, <1>8
<1>12. Pending = {ready[i] : i \in 1..n} /\ Pending' = {ready'[i] : i \in 1..(n + m + k)}
  BY <1>9 DEF Pending, n
<1>13. Pending \subseteq Pending'
  BY <1>9, <1>11, <1>12
<1>14. Pending' \subseteq Pending \cup Polled \cup {"expire"}
  <2> SUFFICES ASSUME NEW i \in 1..(n + m + k)
               PROVE  ready'[i] \in Pending \cup Polled \cup {"expire"}
    BY <1>12
  <2>1. CASE i \in 1..n
    BY <1>9, <1>12, <2>1
  <2>2. CASE i - n \in 1..m /\ n + (i - n) = i
    <3>1. ready'[i] = io[i - n] /\ io[i - n] \in Polled
      BY <1>5, <1>9, <2>2
    <3> QED
      BY <3>1
  <2>3. CASE i - n - m \in 1..k /\ n + m + (i - n - m) = i
    <3>1. ready'[i] = timers[i - n - m] /\ timers[i - n - m] = "expire"
      BY <1>7, <1>9, <2>3
    <3> QED
      BY <3>1
  <2> QED
    BY <1>10, <2>1, <2>2, <2>3
<1>15. ASSUME NEW i \in 1..(n + m + k), ready'[i] = "data"
       PROVE  i - n \in 1..m /\ io[i - n] = "data"
  <2>1. i \notin 1..n
    <3> SUFFICES ASSUME i \in 1..n
                 PROVE  FALSE
      OBVIOUS
    <3>1. ready[i] = "data" /\ i <= 0
      BY <1>2, <1>9, <1>15 DEF Placed, n
    <3> QED
      BY <1>8, <3>1
  <2>2. CASE i - n \in 1..m /\ n + (i - n) = i
    BY <1>9, <1>15, <2>2
  <2>3. CASE i - n - m \in 1..k /\ n + m + (i - n - m) = i
    <3>1. ready'[i] = timers[i - n - m] /\ timers[i - n - m] = "expire"
      BY <1>7, <1>9, <2>3
    <3> QED
      BY <1>15, <3>1
  <2> QED
    BY <1>10, <2>1, <2>2, <2>3
<1>16. Placed'
  <2> SUFFICES ASSUME NEW i \in 1..Len(ready'), ready'[i] = "data"
               PROVE  i <= todo' /\ \A j \in 1..Len(ready') : ready'[j] = "data" => j = i
    BY DEF Placed
  <2>1. i \in 1..(n + m + k) /\ todo' = n + m + k
    BY <1>1, <1>9
  <2>2. i <= todo'
    BY <1>4, <1>7, <1>8, <2>1
  <2>3. ASSUME NEW j \in 1..(n + m + k), ready'[j] = "data"
        PROVE  j = i
    <3>1. i - n \in 1..m /\ io[i - n] = "data" /\ j - n \in 1..m /\ io[j - n] = "data"
      BY <1>15, <2>1, <2>3
    <3>2. i - n = j - n
      BY <1>5, <3>1
    <3> QED
      BY <1>4, <1>7, <1>8, <2>1, <3>2
  <2> QED
    BY <1>9, <2>2, <2>3
<1>17. todo' \in Nat /\ todo' <= Len(ready')
  BY <1>1, <1>4, <1>7, <1>8, <1>9
<1>18. ASSUME ready = <<>>, Polled = {"accept"}, handler \notin Collecting
       PROVE  ready' = <<"accept">> /\ todo' = 1
  <2>1. m = 1 /\ k = 0 /\ n = 0
    <3>1. Cardinality({"accept"}) = 1
      BY FS_Singleton
    <3> QED
      BY <1>7, <1>18, <3>1 DEF m, k, n
  <2>2. Len(ready') = 1 /\ ready'[1] = "accept"
    <3>1. ready'[n + 1] = io[1] /\ io[1] = "accept"
      BY <1>5, <1>9, <1>18, <2>1
    <3> QED
      BY <1>9, <2>1, <3>1
  <2>3. ready' = <<"accept">>
    BY <1>9, <2>2, OneCallback
  <2> QED
    BY <1>1, <2>2, <2>3
<1>19. ASSUME ready = <<>>, Polled = {}, handler \notin Collecting
       PROVE  FALSE
  <2>1. m = 0 /\ k = 0 /\ n = 0
    <3>1. Cardinality({}) = 0
      BY FS_EmptySet
    <3> QED
      BY <1>7, <1>19, <3>1 DEF m, k, n
  <2>2. Len(ready') = 0
    BY <1>9, <2>1
  <2> QED
    BY <1>1, <1>9, <2>2
<1>20. \A c \in Polled : \E i \in 1..m : io[i] = c
  <2>1. io \in Injection(1..m, Polled)
    BY <1>5 DEF Injection, IsInjective
  <2>2. Cardinality(1..m) = m
    <3>1. Cardinality(1..m) = IF 1 > m THEN 0 ELSE m - 1 + 1
      BY <1>4, FS_Interval
    <3> QED
      BY <1>4, <3>1
  <2>3. io \in Surjection(1..m, Polled)
    BY <1>4, <2>1, <2>2, FS_Injection DEF m
  <2> QED
    BY <2>3 DEF Surjection
<1>21. Polled \subseteq Pending'
  BY <1>9, <1>11, <1>12, <1>20
<1>22. ASSUME NEW i \in 1..(n + m + k), i > n
       PROVE  \/ handler \in Collecting /\ ready'[i] = "expire"
              \/ i - n \in 1..m /\ ready'[i] = io[i - n] /\ io[i - n] \in Polled
  <2>1. i \notin 1..n
    BY <1>8, <1>22
  <2>2. CASE i - n \in 1..m /\ n + (i - n) = i
    BY <1>5, <1>9, <2>2
  <2>3. CASE i - n - m \in 1..k /\ n + m + (i - n - m) = i
    <3>1. timers # <<>>
      BY <1>7, <2>3
    <3> QED
      BY <1>7, <1>9, <2>3, <3>1
  <2> QED
    BY <1>10, <2>1, <2>2, <2>3
<1>23. ASSUME NEW i \in 1..(n + m + k), NEW j \in 1..(n + m + k), i > n, j > n,
              ready'[i] = "recv", ready'[j] = "recv"
       PROVE  i = j
  <2>1. /\ i - n \in 1..m /\ io[i - n] = "recv"
        /\ j - n \in 1..m /\ io[j - n] = "recv"
    BY <1>22, <1>23
  <2>2. i - n = j - n
    BY <1>5, <2>1
  <2> QED
    BY <1>4, <1>7, <1>8, <2>2
<1>24. Lengthened
  <2>1. n + m + k \in Nat /\ n <= n + m + k /\ todo' = n + m + k
    BY <1>1, <1>4, <1>7, <1>8, <1>9
  <2>2. \A i \in 1..(n + m + k) : i > n =>
          ready'[i] \in Polled \/ (handler \in Collecting /\ ready'[i] = "expire")
    BY <1>22
  <2> QED
    BY <1>8, <1>9, <1>21, <1>23, <2>1, <2>2 DEF Lengthened, n
<1> QED
  BY <1>9, <1>13, <1>14, <1>16, <1>17, <1>18, <1>19, <1>24

\* An iteration of the loop begins.
LEMMA PollKeeps == ASSUME IInv, Poll PROVE IInv'
<1>1. /\ UNCHANGED <<turn, client, sent, haunted, tcp, conn, inbox, out, handler, drain, sentinel,
                     signal, got, bound, queue, reader, jitter, pcm, timedOut, arrived>>
      /\ todo = 0
  BY DEF Poll, clientVars, tcpVars, taskVars, udpVars, audioVars
<1>2. /\ Pending \subseteq Pending' /\ Pending' \subseteq Pending \cup Polled \cup {"expire"}
      /\ ready' \in Seq(Callback) /\ todo' \in Nat /\ todo' <= Len(ready') /\ Placed'
      /\ ready = <<>> /\ Polled = {"accept"} /\ handler \notin Collecting =>
            ready' = <<"accept">> /\ todo' = 1
      /\ ~(ready = <<>> /\ Polled = {} /\ handler \notin Collecting)
  BY PollIs
<1>3. /\ Polled \subseteq {"accept", "data", "recv"}
      /\ "accept" \in Polled <=> client = "calling" /\ handler = "over"
      /\ "data" \in Polled => tcp # <<>>
      /\ "recv" \in Polled => reader = "live"
  BY DEF Polled
<1>4. Labels'
  BY <1>1 DEF IInv, Labels, Collecting
<1>5. Lists'
  BY <1>1, <1>2 DEF IInv, Lists
<1>6. Calling'
  <2>1. "accept" \in Pending' => client = "calling"
    BY <1>2, <1>3 DEF IInv, Calling
  <2>2. CASE client = "calling"
    <3>1. /\ drain = "none" /\ sentinel = "none" /\ tcp = <<>> /\ reader \in {"none", "stale"}
          /\ ready = <<>> /\ handler \in {"over", "request"}
      BY <1>1, <2>2 DEF IInv, Calling
    <3>2. Polled \subseteq {"accept"} /\ handler \notin Collecting
      BY <1>3, <3>1 DEF Collecting
    <3>3. handler = "over"
      BY <1>2, <1>3, <3>1, <3>2
    <3>4. Polled = {"accept"}
      BY <1>3, <2>2, <3>2, <3>3
    <3> QED
      BY <1>1, <1>2, <2>1, <3>1, <3>2, <3>3, <3>4 DEF Calling
  <2>3. CASE client # "calling"
    BY <1>1, <2>1, <2>3 DEF Calling
  <2> QED
    BY <2>2, <2>3
<1>7. Tasks'
  BY <1>1 DEF IInv, Tasks, Collecting
<1>8. Scheduled'
  BY <1>1, <1>2, <1>3 DEF IInv, Scheduled
<1>9. Entries'
  BY <1>1 DEF IInv, Entries
<1>10. Reads'
  BY <1>1, <1>2, <1>3 DEF IInv, Reads
<1>11. Reasons'
  BY <1>1, <1>2, <1>3, Frame DEF IInv, Reasons, Complete
<1> QED
  BY <1>1, <1>4, <1>5, <1>6, <1>7, <1>8, <1>9, <1>10, <1>11, Frame DEF IInv

\* A new connection, once nothing of the last one is under way.
LEMMA ConnectKeeps == ASSUME IInv, Connect PROVE IInv'
<1>1. /\ UNCHANGED <<handler, bound, queue, reader, ready, todo>>
      /\ client = "away" /\ turn < MaxTurns /\ handler = "over" /\ ready = <<>>
      /\ turn' = turn + 1 /\ client' = "calling" /\ sent' = 0
      /\ haunted' = (reader = "stale")
      /\ tcp' = <<>> /\ conn' = "closed" /\ inbox' = <<>> /\ out' = <<>>
      /\ drain' = "none" /\ sentinel' = "none" /\ signal' = "none" /\ got' = <<>>
      /\ jitter' = [buffered |-> <<>>, nextSeq |-> -1] /\ pcm' = <<>>
      /\ timedOut' = FALSE /\ arrived' = <<>>
  BY DEF Connect, udpVars, loopVars
<1>2. Pending = {} /\ Pending' = {} /\ Placed' /\ todo = 0
  BY <1>1 DEF IInv, Lists, Pending, Placed
<1>3. reader \in {"none", "stale"}
  BY <1>1, <1>2 DEF IInv, Labels, Entries, Tasks, Scheduled, Collecting
<1>4. Labels'
  <2>1. MaxTurns \in Nat /\ MaxDatagrams \in Nat
    BY ServerAssumption
  <2> QED
    BY <1>1, <2>1 DEF IInv, Labels
<1>5. Lists'
  <2>1. ready' \in Seq(Callback) /\ todo' \in Nat /\ todo' <= Len(ready')
    BY <1>1 DEF IInv, Lists
  <2>2. queue' \in Seq(Datagrams)
    BY <1>1 DEF IInv, Lists
  <2> QED
    BY <1>1, <2>1, <2>2 DEF Lists
<1>6. Calling'
  BY <1>1, <1>2, <1>3 DEF Calling
<1>7. Tasks'
  BY <1>1 DEF Tasks, Collecting
<1>8. Scheduled'
  BY <1>1, <1>2 DEF Scheduled
<1>9. Entries'
  BY <1>1, <1>3 DEF Entries
<1>10. Reads'
  BY <1>2 DEF Reads
<1>11. Reasons'
  <2>1. ~Written(Complete)'
    BY <1>1 DEF Written
  <2> QED
    BY <1>1, <1>2, <2>1 DEF Reasons, Complete
<1>12. Arrivals'
  <2>1. queue' = <<>>
    BY <1>1 DEF IInv, Labels, Arrivals, Collecting
  <2> QED
    BY <1>1, <2>1 DEF Arrivals, Range
<1>13. Window'
  <2>1. DOMAIN jitter'.buffered = {} /\ jitter'.nextSeq = -1
    BY <1>1
  <2> QED
    BY <2>1 DEF Window, Keyed, Values
<1> QED
  BY <1>4, <1>5, <1>6, <1>7, <1>8, <1>9, <1>10, <1>11, <1>12, <1>13 DEF IInv

\* The client writes to its connection.
LEMMA ClientWrites ==
    ASSUME IInv, NEW b \in Byte, tcp' = Append(tcp, b), client \in {"reading", "ended"}
                    \/ (client = "calling" /\ handler = "request"),
           client' \in {"away", "reading", "ended"},
           UNCHANGED <<turn, sent, haunted, conn, inbox, out, handler, taskVars, udpVars, audioVars,
                       loopVars, timedOut, arrived>>
    PROVE  IInv'
<1>1. UNCHANGED <<turn, sent, haunted, conn, inbox, out, handler, drain, sentinel, signal, got,
                  bound, queue, reader, jitter, pcm, ready, todo, timedOut, arrived>>
  BY DEF taskVars, udpVars, audioVars, loopVars
<1>2. tcp' \in Seq(Byte) /\ tcp' # <<>>
  <2>1. tcp \in Seq(Byte)
    BY DEF IInv, Lists
  <2> QED
    BY <2>1
<1>3. Pending' = Pending /\ Placed' /\ "accept" \notin Pending
  <2>1. Pending' = Pending /\ Placed'
    BY <1>1 DEF IInv, Reads, Placed, Pending
  <2>2. CASE client = "calling"
    <3>1. ready = <<>>
      BY <2>2 DEF IInv, Calling
    <3>2. Pending = {}
      BY <3>1 DEF Pending
    <3> QED
      BY <2>1, <3>2
  <2>3. CASE client # "calling"
    BY <2>1, <2>3 DEF IInv, Calling
  <2> QED
    BY <2>2, <2>3
<1>4. Labels'
  BY <1>1 DEF IInv, Labels, Collecting
<1>5. Lists'
  BY <1>1, <1>2 DEF IInv, Lists
<1>6. Calling'
  BY <1>3 DEF Calling
<1>7. Tasks'
  BY <1>1 DEF IInv, Tasks, Collecting
<1>8. Scheduled'
  BY <1>1, <1>3 DEF IInv, Scheduled
<1>9. Entries'
  BY <1>1 DEF IInv, Entries
<1>10. Reads'
  BY <1>1, <1>2, <1>3 DEF IInv, Reads
<1>11. Reasons'
  BY <1>1, <1>3, Frame DEF IInv, Reasons, Complete
<1> QED
  BY <1>1, <1>4, <1>5, <1>6, <1>7, <1>8, <1>9, <1>10, <1>11, Frame DEF IInv

\* A datagram reaches the socket, or is lost.
LEMMA SendRtpKeeps == ASSUME IInv, NEW d \in Datagrams, SendRtp(d) PROVE IInv'
<1>1. /\ UNCHANGED <<turn, client, haunted, tcp, conn, inbox, out, handler, drain, sentinel, signal,
                     got, bound, reader, jitter, pcm, ready, todo, timedOut>>
      /\ client = "reading" /\ sent < MaxDatagrams /\ sent' = sent + 1
      /\ bound => queue' = Append(queue, d) /\ arrived' = Append(arrived, d)
      /\ ~bound => UNCHANGED <<queue, arrived>>
  BY DEF SendRtp, tcpVars, taskVars, audioVars, loopVars
<1>2. Pending' = Pending /\ Placed'
  BY <1>1 DEF IInv, Reads, Placed, Pending
<1>3. queue \in Seq(Datagrams) /\ arrived \in Seq(Datagrams)
  BY DEF IInv, Lists
<1>4. /\ queue' \in Seq(Datagrams) /\ arrived' \in Seq(Datagrams)
      /\ Len(arrived) <= Len(arrived') /\ \A i \in 1..Len(arrived) : arrived'[i] = arrived[i]
  <2>1. CASE bound
    <3>1. queue' = Append(queue, d) /\ arrived' = Append(arrived, d)
      BY <1>1, <2>1
    <3> QED
      BY <1>3, <3>1
  <2>2. CASE ~bound
    BY <1>1, <1>3, <2>2
  <2> QED
    BY <2>1, <2>2
<1>5. \A i \in 1..Len(arrived) : i \in 1..Len(arrived')
  BY <1>3, <1>4
<1>6. Range(arrived) \subseteq Range(arrived') /\ Range(queue') \subseteq Range(queue) \cup Range(arrived')
  <2>1. DOMAIN arrived = 1..Len(arrived) /\ DOMAIN arrived' = 1..Len(arrived')
    BY <1>3, <1>4
  <2>2. Range(arrived) \subseteq Range(arrived')
    BY <1>4, <1>5, <2>1 DEF Range
  <2>3. CASE bound
    <3> DEFINE n == Len(queue)
               l == Len(arrived)
    <3>1. queue' = Append(queue, d) /\ arrived' = Append(arrived, d) /\ n \in Nat /\ l \in Nat
      BY <1>1, <1>3, <2>3
    <3>2. /\ DOMAIN queue' = 1..(n + 1) /\ DOMAIN queue = 1..n
          /\ \A i \in 1..n : queue'[i] = queue[i]
      BY <1>3, <3>1
    <3>3. queue'[n + 1] = d /\ arrived'[l + 1] = d /\ l + 1 \in DOMAIN arrived'
      BY <1>3, <3>1
    <3>4. d \in Range(arrived')
      BY <3>3 DEF Range
    <3>5. \A i \in 1..(n + 1) : i \in 1..n \/ i = n + 1
      BY <3>1
    <3> HIDE DEF n, l
    <3> QED
      BY <2>2, <3>2, <3>3, <3>4, <3>5 DEF Range
  <2>4. CASE ~bound
    BY <1>1, <2>2, <2>4
  <2> QED
    BY <2>3, <2>4
<1>7. Excused => Excused'
  <2>1. DOMAIN arrived = 1..Len(arrived) /\ DOMAIN arrived' = 1..Len(arrived')
    BY <1>3, <1>4
  <2>2. SomeDamaged => SomeDamaged'
    BY <1>4, <1>5, <2>1 DEF SomeDamaged
  <2> QED
    BY <1>1, <2>2 DEF Excused
<1>8. Labels'
  BY <1>1, ServerAssumption DEF IInv, Labels, Collecting
<1>9. Lists'
  BY <1>1, <1>4 DEF IInv, Lists
<1>10. Calling'
  BY <1>1, <1>2 DEF IInv, Calling
<1>11. Tasks'
  BY <1>1 DEF IInv, Tasks, Collecting
<1>12. Scheduled'
  BY <1>1, <1>2 DEF IInv, Scheduled
<1>13. Entries'
  BY <1>1 DEF IInv, Entries
<1>14. Reads'
  BY <1>1, <1>2 DEF IInv, Reads
<1>15. Reasons'
  BY <1>1, <1>2, <1>7, Frame DEF IInv, Reasons, Complete
<1>16. Arrivals'
  BY <1>1, <1>6 DEF IInv, Arrivals
<1>17. Window'
  <2>1. Parsed \subseteq Parsed'
    BY <1>4, <1>5 DEF Parsed
  <2> QED
    BY <1>1, <2>1 DEF IInv, Window
<1> QED
  BY <1>8, <1>9, <1>10, <1>11, <1>12, <1>13, <1>14, <1>15, <1>16, <1>17 DEF IInv

-----------------------------------------------------------------------------
(* The theorems.                                                           *)

\* At start-up nothing is under way.
LEMMA Initially == Init => IInv
<1> SUFFICES ASSUME Init
             PROVE  IInv
  OBVIOUS
<1>1. /\ turn = 0 /\ client = "away" /\ sent = 0
      /\ tcp = <<>> /\ conn = "closed" /\ inbox = <<>> /\ out = <<>>
      /\ handler = "over" /\ drain = "none" /\ sentinel = "none" /\ got = <<>>
      /\ bound = FALSE /\ queue = <<>> /\ reader = "none"
      /\ jitter = [buffered |-> <<>>, nextSeq |-> -1] /\ pcm = <<>>
      /\ ready = <<>> /\ todo = 0 /\ arrived = <<>>
  BY DEF Init
<1>2. Pending = {} /\ Placed /\ ~Written(Complete) /\ Range(<<>>) = {}
  BY <1>1 DEF Pending, Placed, Written, Range
<1>3. Labels
  <2>1. (handler \in Collecting) = FALSE
    BY <1>1 DEF Collecting
  <2>2. bound = (handler \in Collecting)
    BY <1>1, <2>1
  <2>3. MaxTurns \in Nat /\ MaxDatagrams \in Nat
    BY ServerAssumption
  <2>4. turn <= MaxTurns /\ sent <= MaxDatagrams
    BY <1>1, <2>3
  <2>5. handler \in {"over", "request", "binding", "answering", "raising"} \cup Collecting
    BY <1>1
  <2> QED
    BY <1>1, <2>2, <2>4, <2>5 DEF Labels
<1>4. Lists
  BY <1>1 DEF Lists
<1>5. Calling /\ Tasks /\ Scheduled /\ Entries
  BY <1>1, <1>2 DEF Calling, Tasks, Scheduled, Entries, Collecting
<1>6. Reads /\ Reasons
  BY <1>1, <1>2 DEF Reads, Reasons, Complete
<1>7. Arrivals
  BY <1>1, <1>2 DEF Arrivals
<1>8. Window
  <2>1. DOMAIN jitter.buffered = {} /\ jitter.nextSeq = -1
    BY <1>1
  <2> QED
    BY <2>1 DEF Window, Keyed, Values
<1> QED
  BY <1>3, <1>4, <1>5, <1>6, <1>7, <1>8 DEF IInv

\* Every step keeps the invariant.
LEMMA NextKeeps == IInv /\ [Next]_vars => IInv'
<1> SUFFICES ASSUME IInv, [Next]_vars
             PROVE  IInv'
  OBVIOUS
<1>1. CASE Client
  <2>1. ASSUME NEW m \in Methods, Request(m)
        PROVE  IInv'
    BY <2>1, ClientWrites DEF Request, Byte
  <2>2. ASSUME NEW b \in Signals, EndInput(b)
        PROVE  IInv'
    BY <2>2, ClientWrites DEF EndInput, Byte
  <2>3. ASSUME HangUp
        PROVE  IInv'
    <3>1. EOF \in Byte
      BY DEF Byte
    <3> QED
      BY <2>3, <3>1, ClientWrites DEF HangUp
  <2> QED
    BY <1>1, <2>1, <2>2, <2>3, ConnectKeeps, SendRtpKeeps DEF Client
<1>2. CASE Server
  BY <1>2, PollKeeps, AcceptKeeps, DataReceivedKeeps, ConnectionLostKeeps, ReadRequestKeeps,
     BindRtpSocketKeeps, RecvReadyKeeps, DrainDatagramKeeps, DrainParksKeeps, DrainStopsKeeps,
     SentinelReadsKeeps, SentinelStopsKeeps, FirstCompletedKeeps, CollectKeeps, ExpireKeeps,
     AnswerKeeps DEF Server
<1>3. CASE UNCHANGED vars
  <2>1. UNCHANGED <<turn, client, sent, haunted, tcp, conn, inbox, out, handler, drain, sentinel,
                    signal, got, bound, queue, reader, jitter, pcm, ready, todo, timedOut, arrived>>
    BY <1>3 DEF vars, clientVars, tcpVars, taskVars, udpVars, audioVars, loopVars
  <2>2. Pending' = Pending /\ Placed'
    BY <2>1 DEF IInv, Reads, Placed, Pending
  <2>3. Labels'
    BY <2>1 DEF IInv, Labels, Collecting
  <2>4. Lists'
    BY <2>1 DEF IInv, Lists
  <2>5. Calling'
    BY <2>1, <2>2 DEF IInv, Calling
  <2>6. Tasks' /\ Entries'
    BY <2>1 DEF IInv, Tasks, Entries, Collecting
  <2>7. Scheduled'
    BY <2>1, <2>2 DEF IInv, Scheduled
  <2>8. Reads'
    BY <2>1, <2>2 DEF IInv, Reads
  <2>9. Reasons'
    BY <2>1, <2>2, Frame DEF IInv, Reasons, Complete
  <2> QED
    BY <2>1, <2>3, <2>4, <2>5, <2>6, <2>7, <2>8, <2>9, Frame DEF IInv
<1> QED
  BY <1>1, <1>2, <1>3 DEF Next

\* The inductive invariant: which tasks a turn of handle_connection has, which
\* callbacks of the event loop will run them, and what has arrived for them.
THEOREM Invariance == Spec => []IInv
BY Initially, NextKeeps, PTL DEF Spec

\* The variables keep their types, and the RTP socket is open exactly while a
\* turn collects: no path out of the collection forgets to close it.
THEOREM TypeCorrect == Spec => []TypeOK
<1>1. IInv => TypeOK
  <2> SUFFICES ASSUME IInv
               PROVE  TypeOK
    OBVIOUS
  <2>1. turn \in 0..MaxTurns /\ sent \in 0..MaxDatagrams
    BY ServerAssumption DEF IInv, Labels
  <2>2. todo \in 0..Len(ready) /\ pcm \in Seq([pos : Int, bytes : Nat])
    <3>1. ready \in Seq(Callback) /\ todo \in Nat /\ todo <= Len(ready) /\ pcm \in Seq(Chunk)
      BY DEF IInv, Lists
    <3>2. Len(ready) \in Nat
      BY <3>1
    <3> QED
      BY <3>1, <3>2 DEF Chunk
  <2>3. Range(queue) \cup Range(got) \cup Range(arrived) \subseteq Datagrams
    <3>1. queue \in Seq(Datagrams) /\ got \in Seq(Datagrams) /\ arrived \in Seq(Datagrams)
      BY DEF IInv, Lists
    <3> QED
      BY <3>1 DEF Range
  <2> QED
    BY <2>1, <2>2, <2>3 DEF IInv, Labels, TypeOK
<1> QED
  BY <1>1, Invariance, PTL

\* RECOGNITION-COMPLETE is written only after the client ended its input or
\* hung up, the turn timed out, or a damaged datagram ended the drain.
THEOREM AnswerAlwaysWaits == Spec => []AnswerWaitsForClient
<1>1. IInv => AnswerWaitsForClient
  BY DEF IInv, Reasons, Excused, AnswerWaitsForClient
<1> QED
  BY <1>1, Invariance, PTL

\* A turn that is over has no task and no selector entry left, except for the
\* drain of a turn that timed out and the entry it leaves.
THEOREM NothingIsLeftBehind == Spec => []NothingLeftBehind
<1>1. IInv => NothingLeftBehind
  <2> SUFFICES ASSUME IInv, handler = "over", ready = <<>>
               PROVE  /\ drain \in {"none", "over"} \/ timedOut
                      /\ sentinel \in {"none", "over"}
                      /\ reader \in {"none", "stale"}
                      /\ reader = "stale" => timedOut \/ haunted
    BY DEF NothingLeftBehind
  <2>1. Pending = {}
    BY DEF Pending
  <2> QED
    BY <2>1 DEF IInv, Labels, Tasks, Scheduled, Entries, Collecting
<1> QED
  BY <1>1, Invariance, PTL

-----------------------------------------------------------------------------
(* The race of the drain with the sentinel.  Nothing arrives once the      *)
(* client has ended its input, and the loop reports a socket and a byte    *)
(* that are both ready in one iteration; the drain is then two iterations  *)
(* ahead of what ends the collection.                                      *)

\* What the selector and the timers put into the queue, and what tasks do.
Io == {"accept", "data", "recv", "expire"}
Task == {"handler", "drain", "sentinel", "done", "collect", "answer", "lost"}

\* The former come last in an iteration, and the RTP socket is reported once.
Ranked ==
    /\ \A i \in 1..Len(ready) : ready[i] \in Io => i <= todo
    /\ \A i, j \in 1..Len(ready) : ready[i] \in Io /\ i < j /\ j <= todo => ready[j] \in Io
    /\ \A i, j \in 1..Len(ready) : ready[i] = "recv" /\ ready[j] = "recv" => i = j

\* The drain is due before what ends the collection.
Ordered ==
    \A j \in 1..Len(ready) : ready[j] \in {"done", "collect"} =>
        \E i \in 1..Len(ready) : i < j /\ ready[i] = "drain"

\* The sentinel is not due in this iteration.
Later == \A i \in 1..Len(ready) : ready[i] = "sentinel" => i > todo

\* What is scheduled at each point of handle_connection.
Phases ==
    /\ handler \in {"request", "binding"} => Pending \subseteq {"data", "handler"}
    /\ handler = "collecting" => "collect" \notin Pending
    /\ handler \in Collecting => "lost" \notin Pending

\* A client that may still send datagrams has written its request and no more.
Wordless ==
    /\ client = "calling" => inbox = <<>> /\ signal = "none" /\ ~timedOut /\ out = <<>>
    /\ handler \in {"request", "binding"} \cup Collecting => ~timedOut
    /\ handler = "request" => ~Written("IN-PROGRESS")
    /\ handler \in {"request", "binding"} => signal = "none"
    /\ handler = "request" /\ client = "reading" =>
          \/ inbox = <<>> /\ Len(tcp) <= 1
          \/ Len(inbox) = 1 /\ tcp = <<>>
    /\ handler \in {"binding"} \cup Collecting /\ client = "reading" =>
          inbox = <<>> /\ tcp = <<>> /\ signal = "none"

\* Datagrams wait for a drain that waits for them.
Waiting == drain = "parked" /\ queue # <<>>

\* The entry of a waiting drain works, what waits is reported at the latest
\* with the byte that ends the input, and a drain that reads is due in time.
Race ==
    /\ drain = "parked" => got = <<>>
    /\ handler \in Collecting /\ "recv" \in Pending => Waiting
    /\ drain = "parked" /\ ~haunted => reader = "live"
    /\ Waiting /\ ~haunted =>
          /\ signal = "none"
          /\ "data" \in Pending => "recv" \in Pending
          /\ inbox # <<>> => "recv" \in Pending /\ Later
    /\ handler \in Collecting /\ ~SomeDamaged =>
          /\ drain # "over"
          /\ drain = "running" /\ ~haunted => Ordered

JInv == Ranked /\ Phases /\ Wordless /\ Race

\* When a collection ends that no earlier turn spoils and no damaged datagram
\* cut short, nothing that reached its socket is unread.
NothingUnread ==
    Runs("collect") /\ handler = "collected" /\ ~haunted /\ ~SomeDamaged =>
        got = <<>> /\ queue = <<>>

\* What returning from callback h does to the order of the queue.
Passed(h) ==
    /\ Ranked'
    /\ h = "recv" => "recv" \notin Pending'
    /\ h \in Io \/ Later => Later'
    /\ h # "drain" /\ "drain" \in Pending /\ Ordered => Ordered'

LEMMA Passes ==
    ASSUME Lists, Ranked, NEW h, Runs(h), NEW xs \in Seq(Task), Returns(xs)
    PROVE  Passed(h)
<1> DEFINE n == Len(ready)
           k == Len(xs)
<1>1. Shift(h, xs, n, k)
  <2>1. xs \in Seq(Callback)
    BY DEF Task, Callback
  <2> QED
    BY <2>1, Shifted
<1>2. \A i \in 1..k : xs[i] \in Task
  OBVIOUS
<1> HIDE DEF n, k
<1>3. /\ n \in Nat /\ k \in Nat /\ todo \in Nat /\ todo <= n /\ todo > 0 /\ n >= 1
      /\ n = Len(ready) /\ ready[1] = h
      /\ todo' = todo - 1 /\ Len(ready') = n - 1 + k
  BY <1>1 DEF Shift
<1>4. ASSUME NEW i \in 1..(n - 1 + k)
      PROVE  \/ i \in 1..(n - 1) /\ i + 1 \in 1..n /\ ready'[i] = ready[i + 1]
             \/ i > n - 1 /\ ready'[i] \in Task
  <2>1. CASE i \in 1..(n - 1) /\ i + 1 \in 1..n
    BY <1>1, <2>1 DEF Shift
  <2>2. CASE i - (n - 1) \in 1..k /\ n - 1 + (i - (n - 1)) = i
    <3>1. ready'[i] = xs[i - (n - 1)]
      BY <1>1, <2>2 DEF Shift
    <3>2. i > n - 1
      BY <1>3, <2>2
    <3> QED
      BY <1>2, <2>2, <3>1, <3>2
  <2> QED
    BY <1>1, <2>1, <2>2 DEF Shift
<1>5. \A c \in Io : c \notin Task
  BY DEF Io, Task
<1>6. ASSUME NEW i \in 1..(n - 1 + k), i <= todo' \/ ready'[i] \in Io
      PROVE  i \in 1..(n - 1) /\ i + 1 \in 1..n /\ ready'[i] = ready[i + 1]
  <2>1. ~(i > n - 1 /\ ready'[i] \in Task)
    BY <1>3, <1>5, <1>6
  <2> QED
    BY <1>4, <2>1
<1>7. Ranked'
  <2>1. ASSUME NEW i \in 1..(n - 1 + k), ready'[i] \in Io
        PROVE  i <= todo'
    <3>1. i + 1 \in 1..n /\ ready[i + 1] \in Io
      BY <1>6, <2>1
    <3>2. i + 1 <= todo
      BY <1>3, <3>1 DEF Ranked
    <3> QED
      BY <1>3, <3>2
  <2>2. ASSUME NEW i \in 1..(n - 1 + k), NEW j \in 1..(n - 1 + k),
               ready'[i] \in Io, i < j, j <= todo'
        PROVE  ready'[j] \in Io
    <3>1. /\ i + 1 \in 1..n /\ ready[i + 1] \in Io
          /\ j + 1 \in 1..n /\ ready'[j] = ready[j + 1]
      BY <1>6, <2>2
    <3>2. i + 1 < j + 1 /\ j + 1 <= todo
      BY <1>3, <2>2
    <3>3. ready[j + 1] \in Io
      BY <1>3, <3>1, <3>2 DEF Ranked
    <3> QED
      BY <3>1, <3>3
  <2>3. ASSUME NEW i \in 1..(n - 1 + k), NEW j \in 1..(n - 1 + k),
               ready'[i] = "recv", ready'[j] = "recv"
        PROVE  i = j
    <3>1. /\ i + 1 \in 1..n /\ ready[i + 1] = "recv"
          /\ j + 1 \in 1..n /\ ready[j + 1] = "recv"
      BY <1>6, <2>3 DEF Io
    <3>2. i + 1 = j + 1
      BY <1>3, <3>1 DEF Ranked
    <3> QED
      BY <1>3, <3>2
  <2> QED
    BY <1>3, <2>1, <2>2, <2>3 DEF Ranked
<1>8. ASSUME h = "recv", "recv" \in Pending'
      PROVE  FALSE
  <2>1. PICK i \in 1..(n - 1 + k) : ready'[i] = "recv"
    BY <1>3, <1>8 DEF Pending
  <2>2. i \in 1..(n - 1) /\ i + 1 \in 1..n /\ ready[i + 1] = "recv"
    BY <1>6, <2>1 DEF Io
  <2>3. 1 \in 1..n /\ ready[1] = "recv" /\ i + 1 # 1
    BY <1>3, <1>8, <2>2
  <2> QED
    BY <1>3, <2>2, <2>3 DEF Ranked
<1>9. ASSUME h \in Io \/ Later
      PROVE  Later'
  <2> SUFFICES ASSUME NEW i \in 1..(n - 1 + k), ready'[i] = "sentinel", ~(i > todo')
               PROVE  FALSE
    BY <1>3 DEF Later
  <2>1. i <= todo'
    BY <1>3
  <2>2. i + 1 \in 1..n /\ ready[i + 1] = "sentinel"
    BY <1>6, <2>1
  <2>3. 1 \in 1..n /\ 1 < i + 1 /\ i + 1 <= todo /\ ~(i + 1 > todo)
    BY <1>3, <2>1
  <2>4. CASE Later
    BY <1>3, <2>2, <2>3, <2>4 DEF Later
  <2>5. CASE h \in Io
    <3>1. ready[i + 1] \in Io
      BY <1>3, <2>2, <2>3, <2>5 DEF Ranked
    <3> QED
      BY <2>2, <3>1 DEF Io
  <2> QED
    BY <1>9, <2>4, <2>5
<1>10. ASSUME h # "drain", "drain" \in Pending, Ordered
       PROVE  Ordered'
  <2> SUFFICES ASSUME NEW j \in 1..(n - 1 + k), ready'[j] \in {"done", "collect"}
               PROVE  \E i \in 1..(n - 1 + k) : i < j /\ ready'[i] = "drain"
    BY <1>3 DEF Ordered
  <2>1. ASSUME NEW i \in 1..n, ready[i] = "drain", i <= j
        PROVE  \E l \in 1..(n - 1 + k) : l < j /\ ready'[l] = "drain"
    <3>1. i # 1
      BY <1>3, <1>10, <2>1
    <3>2. i - 1 \in 1..(n - 1) /\ i - 1 \in 1..(n - 1 + k) /\ (i - 1) + 1 = i /\ i - 1 < j
      BY <1>3, <2>1, <3>1
    <3>3. ready'[i - 1] = ready[i]
      BY <1>1, <3>2 DEF Shift
    <3> QED
      BY <2>1, <3>2, <3>3
  <2>2. CASE j \in 1..(n - 1) /\ j + 1 \in 1..n /\ ready'[j] = ready[j + 1]
    <3>1. PICK i \in 1..n : i < j + 1 /\ ready[i] = "drain"
      BY <1>3, <1>10, <2>2 DEF Ordered
    <3>2. i <= j
      BY <1>3, <3>1
    <3> QED
      BY <2>1, <3>1, <3>2
  <2>3. CASE j > n - 1 /\ ready'[j] \in Task
    <3>1. PICK i \in 1..n : ready[i] = "drain"
      BY <1>3, <1>10 DEF Pending
    <3>2. i <= j
      BY <1>3, <2>3, <3>1
    <3> QED
      BY <2>1, <3>1, <3>2
  <2> QED
    BY <1>4, <2>2, <2>3
<1> QED
  BY <1>7, <1>8, <1>9, <1>10 DEF Passed

\* The lists of callbacks that tasks schedule.
LEMMA Passing ==
    ASSUME Lists, Ranked, NEW h, Runs(h)
    PROVE  /\ Returns(<<>>) => Passed(h)
           /\ \A c \in Task : Returns(<<c>>) => Passed(h)
           /\ \A c, d \in Task : Returns(<<c, d>>) => Passed(h)
<1>1. <<>> \in Seq(Task)
  OBVIOUS
<1>2. \A c \in Task : <<c>> \in Seq(Task)
  OBVIOUS
<1>3. \A c, d \in Task : <<c, d>> \in Seq(Task)
  OBVIOUS
<1> QED
  BY <1>1, <1>2, <1>3, Passes

\* What does not depend on the variables a step changes.
LEMMA Standing ==
    /\ UNCHANGED <<ready, todo>> =>
          /\ Pending' = Pending /\ (Ranked => Ranked') /\ (Ordered => Ordered') /\ (Later => Later')
    /\ UNCHANGED arrived => SomeDamaged' = SomeDamaged
    /\ UNCHANGED out => Written("IN-PROGRESS")' = Written("IN-PROGRESS")
BY DEF Pending, Ranked, Ordered, Later, SomeDamaged, Written

LEMMA NoneLeft ==
    ASSUME NEW S, NEW s \in Seq(S), Len(s) = 0
    PROVE  s = <<>>
OBVIOUS

\* Outside the first part of a turn little is promised.
LEMMA Outside ==
    ASSUME IInv', Ranked', client' # "calling",
           handler' \notin {"request", "binding"} \cup Collecting
    PROVE  JInv'
<1>1. drain' # "parked"
  BY DEF IInv, Tasks
<1>2. Phases' /\ Wordless'
  BY DEF Phases, Wordless, Collecting
<1>3. Race'
  BY <1>1 DEF Race, Waiting
<1> QED
  BY <1>2, <1>3 DEF JInv

\* The callback that runs is scheduled.
LEMMA Running ==
    ASSUME Lists, NEW h, Runs(h)
    PROVE  h \in Pending /\ 1 \in 1..Len(ready) /\ ready[1] = h /\ todo >= 1
<1>1. ready \in Seq(Callback) /\ todo \in Nat /\ todo <= Len(ready) /\ todo > 0 /\ Head(ready) = h
  BY DEF Lists, Runs
<1>2. Len(ready) \in Nat /\ Len(ready) >= 1 /\ ready[1] = h
  BY <1>1
<1> QED
  BY <1>1, <1>2 DEF Pending

\* connection_lost is of a turn that is over.
LEMMA ConnectionLostRaces == ASSUME IInv, JInv, ConnectionLost, IInv' PROVE JInv'
<1>1. UNCHANGED <<client, handler>> /\ Runs("lost")
  BY DEF ConnectionLost, clientVars
<1>2. "lost" \in Pending
  BY <1>1, Running DEF IInv
<1>3. handler \notin {"request", "binding"} \cup Collecting
  BY <1>2 DEF JInv, Phases
<1>4. client # "calling"
  BY <1>1, NotCalling
<1>5. Passed("lost")
  BY <1>1, Passing DEF ConnectionLost, IInv, JInv, Task
<1> QED
  BY <1>1, <1>3, <1>4, <1>5, Outside DEF Passed

\* The byte that ends the input finds the datagrams reported.
LEMMA DataReceivedRaces == ASSUME IInv, JInv, DataReceived, IInv' PROVE JInv'
<1>1. /\ UNCHANGED <<client, haunted, out, handler, drain, signal, got, queue, reader, timedOut,
                     arrived>>
      /\ inbox' = inbox \o tcp /\ tcp' = <<>> /\ Runs("data")
  BY DEF DataReceived, clientVars, udpVars, audioVars
<1>2. client # "calling"
  BY <1>1, NotCalling
<1>3. /\ handler = "request" => Done("data", {"handler"})
      /\ handler # "request" /\ sentinel = "parked" => Done("data", {"sentinel"})
      /\ handler # "request" /\ sentinel # "parked" => Done("data", {})
  BY Schedules DEF DataReceived, IInv, Reads, Callback
<1>4. Passed("data")
  BY <1>1, Passing DEF DataReceived, IInv, JInv, Task
<1>5. "data" \in Pending /\ tcp # <<>> /\ tcp \in Seq(Byte) /\ inbox \in Seq(Byte)
  BY <1>1, Running DEF IInv, Reads, Lists
<1>6. handler \in {"request", "binding"} => sentinel = "none"
  BY DEF IInv, Tasks
<1>7. Phases'
  BY <1>1, <1>3, <1>6 DEF JInv, Phases, Done
<1>8. Wordless'
  <2>1. ASSUME handler = "request", client = "reading"
        PROVE  Len(inbox') = 1
    <3>1. inbox = <<>> /\ Len(tcp) <= 1
      BY <1>5, <2>1 DEF JInv, Wordless
    <3>2. Len(inbox') = Len(inbox) + Len(tcp) /\ Len(inbox) = 0
      BY <1>1, <1>5, <3>1
    <3>3. Len(tcp) \in Nat /\ Len(tcp) # 0
      BY <1>5
    <3> DEFINE l == Len(tcp)
    <3>4. l \in Nat /\ l # 0 /\ l <= 1 /\ Len(inbox') = 0 + l
      BY <3>1, <3>2, <3>3
    <3> HIDE DEF l
    <3>5. l = 1
      BY <3>4
    <3> QED
      BY <3>4, <3>5
  <2> QED
    BY <1>1, <1>2, <1>5, <2>1, Standing DEF JInv, Wordless
<1>9. Race'
  <2>1. /\ Pending \ {"data"} \subseteq Pending' /\ "data" \notin Pending'
        /\ "recv" \in Pending' => "recv" \in Pending
    BY <1>3 DEF Done
  <2>2. Later' /\ ("drain" \in Pending /\ Ordered => Ordered')
    BY <1>4 DEF Passed, Io
  <2>3. drain = "running" => "drain" \in Pending
    BY DEF IInv, Scheduled
  <2> QED
    BY <1>1, <1>5, <2>1, <2>2, <2>3, Standing DEF JInv, Race, Waiting
<1> QED
  BY <1>4, <1>7, <1>8, <1>9 DEF JInv, Passed

\* A connection is accepted while nothing else is scheduled.
LEMMA AcceptRaces == ASSUME IInv, JInv, Accept, IInv' PROVE JInv'
<1>1. /\ UNCHANGED <<client, inbox, tcp, out, drain, signal, timedOut>>
      /\ handler' = "request" /\ Runs("accept") /\ Returns(<<>>)
  BY DEF Accept, clientVars, taskVars
<1>2. client = "calling"
  BY <1>1, Running DEF IInv, Calling
<1>3. ready' = <<>> /\ drain = "none"
  BY <1>1, <1>2 DEF IInv, Calling, Returns, Runs
<1>4. Pending' = {} /\ Ranked'
  BY <1>3 DEF Pending, Ranked
<1>5. ~Written("IN-PROGRESS")'
  BY <1>1, <1>2 DEF JInv, Wordless, Written
<1> QED
  BY <1>1, <1>2, <1>3, <1>4, <1>5 DEF JInv, Phases, Wordless, Race, Waiting, Collecting

\* A task that ends the request starts nothing, or the collection.
LEMMA ReadRequestRaces == ASSUME IInv, JInv, ReadRequest, IInv' PROVE JInv'
<1>1. /\ UNCHANGED <<client, haunted, tcp, drain, signal, got, queue, timedOut>>
      /\ Runs("handler") /\ handler = "request"
      /\ inbox' = IF Head(inbox) = EOF THEN inbox ELSE Tail(inbox)
  BY DEF ReadRequest, clientVars, taskVars, udpVars
<1>2. client # "calling"
  BY <1>1, NotCalling
<1>3. \/ Head(inbox) = "RECOGNIZE" /\ handler' = "binding" /\ UNCHANGED <<ready, todo>>
      \/ handler' = "over" /\ (Returns(<<>>) \/ Returns(<<"lost">>))
  BY Zenon DEF ReadRequest, Raises, Closes, KeepsRunning, loopVars
<1>4. CASE handler' = "over"
  <2>1. Passed("handler")
    BY <1>1, <1>3, <1>4, Passing DEF IInv, JInv, Task
  <2> QED
    BY <1>1, <1>2, <1>4, <2>1, Outside DEF Passed, Collecting
<1>5. CASE Head(inbox) = "RECOGNIZE" /\ handler' = "binding" /\ UNCHANGED <<ready, todo>>
  <2>1. inbox' = Tail(inbox)
    BY <1>1, <1>5 DEF EOF
  <2>2. "handler" \in Pending /\ inbox # <<>> /\ inbox \in Seq(Byte)
    BY <1>1, Running DEF IInv, Reads, Lists
  <2>3. client = "reading" => Len(inbox) = 1 /\ tcp = <<>>
    BY <1>1, <2>2 DEF JInv, Wordless
  <2>4. Len(inbox) = 1 => Tail(inbox) = <<>>
    <3>1. Len(inbox) = 1 => Tail(inbox) \in Seq(Byte) /\ Len(Tail(inbox)) = 0
      BY <2>2
    <3> QED
      BY <3>1, NoneLeft
  <2>5. drain = "none"
    BY <1>1 DEF IInv, Tasks
  <2>6. Phases'
    BY <1>1, <1>5, Standing DEF JInv, Phases, Collecting
  <2>7. Wordless'
    BY <1>1, <1>2, <1>5, <2>1, <2>3, <2>4 DEF JInv, Wordless, Collecting
  <2>8. Race'
    BY <1>1, <1>5, <2>5 DEF Race, Waiting, Collecting
  <2> QED
    BY <1>5, <2>6, <2>7, <2>8, Standing DEF JInv
<1> QED
  BY <1>3, <1>4, <1>5

\* The drain and the sentinel start, the drain first.
LEMMA BindRtpSocketRaces == ASSUME IInv, JInv, BindRtpSocket, IInv' PROVE JInv'
<1>1. /\ UNCHANGED <<client, haunted, tcp, inbox, out, signal, got, timedOut>>
      /\ Runs("handler") /\ Returns(<<"drain", "sentinel">>) /\ handler = "binding"
      /\ handler' = "collecting" /\ drain' = "running"
  BY DEF BindRtpSocket, clientVars, tcpVars
<1>2. Done("handler", {"drain", "sentinel"})
  BY <1>1, Schedules DEF IInv, Reads, Callback
<1>3. Passed("handler")
  BY <1>1, Passing DEF IInv, JInv, Task
<1>4. Pending' \subseteq {"data", "handler", "drain", "sentinel"}
  BY <1>1, <1>2 DEF JInv, Phases, Done
<1>5. client # "calling"
  BY <1>1, NotCalling
<1>6. Ordered'
  BY <1>4 DEF Ordered, Pending
<1>7. Phases' /\ Wordless'
  BY <1>1, <1>4, <1>5 DEF JInv, Phases, Wordless, Collecting
<1>8. Race'
  BY <1>1, <1>4, <1>6 DEF Race, Waiting, Collecting
<1> QED
  BY <1>3, <1>7, <1>8 DEF JInv, Passed

\* A datagram is read for the drain while nothing ends the collection.
LEMMA RecvReadyRaces == ASSUME IInv, JInv, RecvReady, IInv' PROVE JInv'
<1>1. /\ UNCHANGED <<client, haunted, tcp, inbox, out, handler, signal, timedOut, arrived>>
      /\ Runs("recv") /\ (Returns(<<>>) \/ Returns(<<"drain">>))
      /\ Waiting => drain' = "running"
  BY DEF RecvReady, clientVars, tcpVars, Waiting
<1>2. client # "calling"
  BY <1>1, NotCalling
<1>3. Passed("recv") /\ "recv" \in Pending
  BY <1>1, Passing, Running DEF IInv, JInv, Task
<1>4. Done("recv", {}) \/ Done("recv", {"drain"})
  BY <1>1, Schedules DEF IInv, Reads, Callback
<1>5. handler \notin {"request", "binding"}
  BY <1>3 DEF JInv, Phases
<1>6. CASE handler \notin Collecting
  BY <1>1, <1>2, <1>3, <1>5, <1>6, Outside DEF Passed
<1>7. CASE handler \in Collecting
  <2>1. Waiting /\ drain' = "running"
    BY <1>1, <1>3, <1>7 DEF JInv, Race
  <2>2. ASSUME ~haunted, ~SomeDamaged
        PROVE  Ordered'
    <3>1. signal = "none" /\ ~timedOut
      BY <1>7, <2>1, <2>2 DEF JInv, Race, Wordless
    <3>2. ~Excused
      BY <2>2, <3>1 DEF Excused
    <3>3. "done" \notin Pending /\ handler # "collected"
      BY <3>2 DEF IInv, Reasons
    <3>4. "collect" \notin Pending
      BY <1>7, <3>3 DEF JInv, Phases, Collecting
    <3>5. "done" \notin Pending' /\ "collect" \notin Pending'
      BY <1>4, <3>3, <3>4 DEF Done
    <3> QED
      BY <3>5 DEF Ordered, Pending
  <2>3. "recv" \notin Pending'
    BY <1>3 DEF Passed
  <2>4. Phases'
    BY <1>1, <1>4, <1>5 DEF JInv, Phases, Done
  <2>5. Wordless'
    BY <1>1, <1>2, Standing DEF JInv, Wordless
  <2>6. Race'
    BY <1>1, <2>1, <2>2, <2>3, Standing DEF Race, Waiting
  <2> QED
    BY <1>3, <2>4, <2>5, <2>6 DEF JInv, Passed
<1> QED
  BY <1>6, <1>7

\* The drain reads on until nothing waits.
LEMMA DrainDatagramRaces == ASSUME IInv, JInv, DrainDatagram, IInv' PROVE JInv'
<1>1. /\ UNCHANGED <<client, haunted, tcp, inbox, out, handler, signal, bound, timedOut, arrived>>
      /\ Runs("drain") /\ drain = "running" /\ bound
      /\ \/ drain' = "over" /\ Returns(<<"done">>)
         \/ UNCHANGED <<drain, ready, todo>>
  BY DEF DrainDatagram, clientVars, tcpVars, KeepsRunning, loopVars
<1>2. client # "calling"
  BY <1>1, NotCalling
<1>3. handler \in Collecting
  BY <1>1 DEF IInv, Labels
<1>4. Wordless'
  BY <1>1, <1>2, Standing DEF JInv, Wordless
<1>5. handler \notin {"request", "binding"} /\ "recv" \notin Pending
  BY <1>1, <1>3 DEF JInv, Race, Waiting, Collecting
<1>6. CASE drain' = "over" /\ Returns(<<"done">>)
  <2>1. Done("drain", {"done"}) /\ Passed("drain")
    BY <1>1, <1>6, Schedules, Passing DEF IInv, Reads, Callback, JInv, Task
  <2>2. SomeDamaged'
    BY <1>1, <1>6, DrainDatagramKeeps, Standing
  <2>3. Phases'
    BY <1>1, <1>5, <2>1 DEF JInv, Phases, Done
  <2>4. Race'
    BY <1>1, <1>5, <1>6, <2>1, <2>2 DEF Race, Waiting, Done
  <2> QED
    BY <1>4, <2>1, <2>3, <2>4 DEF JInv, Passed
<1>7. CASE UNCHANGED <<drain, ready, todo>>
  <2>1. Phases'
    BY <1>1, <1>7, Standing DEF JInv, Phases
  <2>2. Race'
    BY <1>1, <1>3, <1>5, <1>7, Standing DEF JInv, Race, Waiting
  <2> QED
    BY <1>4, <1>7, <2>1, <2>2, Standing DEF JInv
<1> QED
  BY <1>1, <1>6, <1>7

\* The drain waits when nothing does, on an entry that works.
LEMMA DrainParksRaces == ASSUME IInv, JInv, DrainParks, IInv' PROVE JInv'
<1>1. /\ UNCHANGED <<client, haunted, tcp, inbox, out, handler, signal, got, bound, queue, timedOut,
                     arrived>>
      /\ Runs("drain") /\ drain = "running" /\ bound /\ got \o queue = <<>> /\ Returns(<<>>)
      /\ drain' = "parked" /\ reader' = IF reader = "stale" THEN "deaf" ELSE "live"
  BY DEF DrainParks, clientVars, tcpVars, audioVars
<1>2. client # "calling"
  BY <1>1, NotCalling
<1>3. handler \in Collecting
  BY <1>1 DEF IInv, Labels
<1>4. got = <<>> /\ queue = <<>>
  <2>1. got \in Seq(Datagrams) /\ queue \in Seq(Datagrams)
    BY DEF IInv, Lists
  <2>2. Len(got) + Len(queue) = 0 /\ Len(got) \in Nat /\ Len(queue) \in Nat
    <3>1. Len(got \o queue) = Len(got) + Len(queue) /\ Len(got) \in Nat /\ Len(queue) \in Nat
      BY <2>1
    <3> QED
      BY <1>1, <3>1
  <2>3. Len(got) = 0 /\ Len(queue) = 0
    BY <2>2
  <2> QED
    BY <2>1, <2>3, NoneLeft
<1>5. Done("drain", {}) /\ Passed("drain")
  BY <1>1, Schedules, Passing DEF IInv, Reads, JInv
<1>6. handler \notin {"request", "binding"} /\ "recv" \notin Pending
  BY <1>1, <1>3 DEF JInv, Race, Waiting, Collecting
<1>7. ~haunted => reader # "stale"
  BY <1>3 DEF IInv, Entries, JInv, Wordless
<1>8. Phases' /\ Wordless'
  <2>1. Phases'
    BY <1>1, <1>5, <1>6 DEF JInv, Phases, Done
  <2>2. Wordless'
    BY <1>1, <1>2, Standing DEF JInv, Wordless
  <2> QED
    BY <2>1, <2>2
<1>9. Race'
  BY <1>1, <1>4, <1>5, <1>6, <1>7 DEF Race, Waiting, Done
<1> QED
  BY <1>5, <1>8, <1>9 DEF JInv, Passed

\* A drain stops after the collection.
LEMMA DrainStopsRaces == ASSUME IInv, JInv, DrainStops, IInv' PROVE JInv'
<1>1. /\ UNCHANGED <<client, handler>> /\ Runs("drain") /\ Returns(<<>>)
      /\ drain = "cancelled" \/ ~bound
  BY DEF DrainStops, clientVars
<1>2. client # "calling"
  BY <1>1, NotCalling
<1>3. handler \notin Collecting
  BY <1>1 DEF IInv, Labels, Tasks
<1>4. "drain" \in Pending
  BY <1>1, Running DEF IInv
<1>5. handler \notin {"request", "binding"}
  BY <1>4 DEF IInv, Scheduled
<1>6. Passed("drain")
  BY <1>1, Passing DEF IInv, JInv
<1> QED
  BY <1>1, <1>2, <1>3, <1>5, <1>6, Outside DEF Passed

\* The sentinel reads its byte in an iteration after the one that reported it.
LEMMA SentinelReadsRaces == ASSUME IInv, JInv, SentinelReads, IInv' PROVE JInv'
<1>1. /\ UNCHANGED <<client, haunted, tcp, out, handler, drain, got, queue, reader, timedOut, arrived>>
      /\ Runs("sentinel")
      /\ \/ inbox = <<>> /\ Returns(<<>>) /\ UNCHANGED <<signal, inbox>>
         \/ inbox # <<>> /\ Returns(<<"done">>)
  BY DEF SentinelReads, clientVars, udpVars, audioVars
<1>2. client # "calling"
  BY <1>1, NotCalling
<1>3. "sentinel" \in Pending /\ ~Later
  <2>1. "sentinel" \in Pending /\ 1 \in 1..Len(ready) /\ ready[1] = "sentinel" /\ todo >= 1
    BY <1>1, Running DEF IInv
  <2>2. todo \in Nat
    BY DEF IInv, Lists
  <2>3. ~(1 > todo)
    BY <2>1, <2>2
  <2> QED
    BY <2>1, <2>3 DEF Later
<1>4. handler \notin {"request", "binding"}
  BY <1>3 DEF JInv, Phases
<1>5. Passed("sentinel") /\ (Done("sentinel", {}) \/ Done("sentinel", {"done"}))
  BY <1>1, Schedules, Passing DEF IInv, Reads, Callback, JInv, Task
<1>6. drain = "running" => "drain" \in Pending
  BY DEF IInv, Scheduled
<1>7. Phases'
  BY <1>1, <1>4, <1>5 DEF JInv, Phases, Done
<1>8. CASE inbox = <<>> /\ UNCHANGED <<signal, inbox>>
  <2>1. Wordless'
    BY <1>1, <1>2, <1>8, Standing DEF JInv, Wordless
  <2>2. Race'
    BY <1>1, <1>5, <1>6, <1>8, Standing DEF JInv, Race, Waiting, Done, Passed
  <2> QED
    BY <1>5, <1>7, <2>1, <2>2 DEF JInv, Passed
<1>9. CASE inbox # <<>>
  <2>1. ~(Waiting /\ ~haunted)
    BY <1>3, <1>9 DEF JInv, Race
  <2>2. handler \in Collecting => client # "reading"
    BY <1>9 DEF JInv, Wordless
  <2>3. Wordless'
    BY <1>1, <1>2, <1>4, <2>2, Standing DEF JInv, Wordless
  <2>4. Race'
    BY <1>1, <1>5, <1>6, <2>1, Standing DEF JInv, Race, Waiting, Done, Passed
  <2> QED
    BY <1>5, <1>7, <2>3, <2>4 DEF JInv, Passed
<1> QED
  BY <1>1, <1>8, <1>9

\* A cancelled sentinel stops after the collection.
LEMMA SentinelStopsRaces == ASSUME IInv, JInv, SentinelStops, IInv' PROVE JInv'
<1>1. /\ UNCHANGED <<client, handler>> /\ Runs("sentinel") /\ Returns(<<>>)
      /\ sentinel = "cancelled"
  BY DEF SentinelStops, clientVars
<1>2. client # "calling"
  BY <1>1, NotCalling
<1>3. handler \notin {"request", "binding"} \cup Collecting
  BY <1>1 DEF IInv, Tasks
<1>4. Passed("sentinel")
  BY <1>1, Passing DEF IInv, JInv
<1> QED
  BY <1>1, <1>2, <1>3, <1>4, Outside DEF Passed

\* The end of the wait keeps its place behind the drain.
LEMMA FirstCompletedRaces == ASSUME IInv, JInv, FirstCompleted, IInv' PROVE JInv'
<1>1. /\ UNCHANGED <<client, haunted, tcp, inbox, out, drain, signal, got, queue, reader, timedOut,
                     arrived>>
      /\ Runs("done")
      /\ \/ handler = "collecting" /\ handler' = "collected" /\ Returns(<<"collect">>)
         \/ handler # "collecting" /\ handler' = handler /\ Returns(<<>>)
  BY DEF FirstCompleted, clientVars, tcpVars, taskVars, udpVars
<1>2. client # "calling"
  BY <1>1, NotCalling
<1>3. "done" \in Pending
  BY <1>1, Running DEF IInv
<1>4. handler \notin {"request", "binding"}
  BY <1>3 DEF JInv, Phases
<1>5. Passed("done") /\ (Done("done", {}) \/ Done("done", {"collect"}))
  BY <1>1, Schedules, Passing DEF IInv, Reads, Callback, JInv, Task
<1>6. drain = "running" => "drain" \in Pending
  BY DEF IInv, Scheduled
<1>7. handler' \notin {"request", "binding", "collecting"} /\ (handler' \in Collecting <=> handler \in Collecting)
  BY <1>1, <1>4 DEF Collecting
<1>8. Phases'
  BY <1>5, <1>7 DEF JInv, Phases, Done
<1>9. Wordless'
  BY <1>1, <1>2, <1>7, Standing DEF JInv, Wordless
<1>10. Race'
  BY <1>1, <1>5, <1>6, <1>7, Standing DEF JInv, Race, Waiting, Done, Passed
<1> QED
  BY <1>5, <1>8, <1>9, <1>10 DEF JInv, Passed

\* The collection ends.
LEMMA CollectRaces == ASSUME IInv, JInv, Collect, IInv' PROVE JInv'
<1>1. /\ UNCHANGED client /\ Runs("collect")
      /\ \/ handler = "collected" /\ handler' \in {"raising", "answering"} /\ CancelPending
         \/ handler # "collected" /\ handler' = handler /\ Returns(<<>>)
  BY DEF Collect, clientVars
<1>2. client # "calling"
  BY <1>1, NotCalling
<1>3. "collect" \in Pending
  BY <1>1, Running DEF IInv
<1>4. handler' \notin {"request", "binding"} \cup Collecting
  BY <1>1, <1>3 DEF JInv, Phases, Collecting
<1>5. Passed("collect")
  <2>1. CASE Returns(<<>>)
    BY <1>1, <2>1, Passing DEF IInv, JInv
  <2>2. CASE CancelPending
    <3> DEFINE a == IF drain = "parked" THEN <<"drain">> ELSE <<>>
               b == IF sentinel = "parked" THEN <<"sentinel">> ELSE <<>>
               c == <<"answer">>
               xs == (a \o b) \o c
    <3>1. a \in Seq(Task) /\ b \in Seq(Task) /\ c \in Seq(Task)
      <4>1. /\ <<"drain">> \in Seq(Task) /\ <<"sentinel">> \in Seq(Task) /\ <<>> \in Seq(Task)
            /\ <<"answer">> \in Seq(Task)
        BY DEF Task
      <4>2. a = <<"drain">> \/ a = <<>>
        OBVIOUS
      <4>3. b = <<"sentinel">> \/ b = <<>>
        OBVIOUS
      <4> QED
        BY <4>1, <4>2, <4>3
    <3>2. Returns(xs)
      BY <2>2 DEF CancelPending
    <3> HIDE DEF a, b, c
    <3>3. xs \in Seq(Task)
      BY <3>1
    <3> HIDE DEF xs
    <3> QED
      BY <1>1, <3>2, <3>3, Passes DEF IInv, JInv
  <2> QED
    BY <1>1, <2>1, <2>2
<1> QED
  BY <1>1, <1>2, <1>4, <1>5, Outside DEF Passed

\* The turn times out.
LEMMA ExpireRaces == ASSUME IInv, JInv, Expire, IInv' PROVE JInv'
<1>1. /\ UNCHANGED client /\ Runs("expire")
      /\ \/ handler \in Collecting /\ handler' = "answering" /\ Returns(<<"answer">>)
         \/ handler \notin Collecting /\ handler' = handler /\ Returns(<<>>)
  BY DEF Expire, clientVars
<1>2. client # "calling"
  BY <1>1, NotCalling
<1>3. "expire" \in Pending
  BY <1>1, Running DEF IInv
<1>4. handler' \notin {"request", "binding"} \cup Collecting
  BY <1>1, <1>3 DEF JInv, Phases, Collecting
<1>5. Passed("expire")
  BY <1>1, Passing DEF IInv, JInv, Task
<1> QED
  BY <1>1, <1>2, <1>4, <1>5, Outside DEF Passed

\* The turn is answered.
LEMMA AnswerRaces == ASSUME IInv, JInv, Answer, IInv' PROVE JInv'
<1>1. /\ UNCHANGED client /\ Runs("answer") /\ handler' = "over"
      /\ Returns(<<>>) \/ Returns(<<"lost">>)
  BY DEF Answer, Closes, Raises, clientVars
<1>2. client # "calling"
  BY <1>1, NotCalling
<1>3. Passed("answer")
  BY <1>1, Passing DEF IInv, JInv, Task
<1> QED
  BY <1>1, <1>2, <1>3, Outside DEF Passed, Collecting

\* A byte and the datagrams before it are reported together.
LEMMA PollRaces == ASSUME IInv, JInv, Poll, IInv' PROVE JInv'
<1>1. /\ UNCHANGED <<client, haunted, tcp, inbox, out, handler, drain, signal, got, queue, reader,
                     timedOut, arrived>>
      /\ todo = 0
  BY DEF Poll, clientVars, tcpVars, taskVars, udpVars, audioVars
<1>2. Lengthened
  BY PollIs
<1> DEFINE n == Len(ready)
           m == Len(ready')
<1>3. /\ todo' = m /\ m \in Nat /\ n \in Nat /\ n <= m
      /\ \A i \in 1..n : ready'[i] = ready[i]
      /\ \A i \in 1..m : i > n =>
            ready'[i] \in Polled \/ (handler \in Collecting /\ ready'[i] = "expire")
      /\ \A i, j \in 1..m : i > n /\ j > n /\ ready'[i] = "recv" /\ ready'[j] = "recv" => i = j
  BY <1>2 DEF Lengthened
<1>4. Polled \subseteq {"accept", "data", "recv"} /\ Polled \subseteq Pending'
  BY <1>2 DEF Polled, Lengthened
<1>5. Pending = {ready[i] : i \in 1..n} /\ Pending' = {ready'[i] : i \in 1..m}
  BY DEF Pending
<1>6. \A i \in 1..n : ready[i] \notin Io
  BY <1>1, <1>3 DEF JInv, Ranked
<1> HIDE DEF n, m
<1>7. ASSUME NEW i \in 1..m
      PROVE  \/ i \in 1..n /\ ready'[i] = ready[i] /\ ready'[i] \notin Io
             \/ i > n /\ (ready'[i] \in Polled \/ (handler \in Collecting /\ ready'[i] = "expire"))
  <2>1. i \in 1..n \/ i > n
    BY <1>3
  <2> QED
    BY <1>3, <1>6, <2>1
<1>8. ASSUME NEW i \in 1..m
      PROVE  ready'[i] \in Io <=> i > n
  <2>1. \A c \in Polled \cup {"expire"} : c \in Io
    BY <1>4 DEF Io
  <2>2. i \in 1..n => ~(i > n)
    BY <1>3
  <2> QED
    BY <1>7, <2>1, <2>2
<1>9. Ranked'
  <2>1. \A i \in 1..m : i <= todo'
    BY <1>3
  <2>2. ASSUME NEW i \in 1..m, NEW j \in 1..m, ready'[i] \in Io, i < j
        PROVE  ready'[j] \in Io
    <3>1. i > n
      BY <1>8, <2>2
    <3>2. j > n
      BY <1>3, <2>2, <3>1
    <3> QED
      BY <1>8, <3>2
  <2>3. ASSUME NEW i \in 1..m, NEW j \in 1..m, ready'[i] = "recv", ready'[j] = "recv"
        PROVE  i = j
    <3>1. i > n /\ j > n
      BY <1>8, <2>3 DEF Io
    <3> QED
      BY <1>3, <2>3, <3>1
  <2> QED
    BY <2>1, <2>2, <2>3 DEF Ranked, m
<1>10. /\ "recv" \notin Pending /\ "data" \notin Pending
       /\ \A c \in Pending' : c \in Pending \/ c \in Polled \/ (handler \in Collecting /\ c = "expire")
       /\ "recv" \in Pending' => "recv" \in Polled
       /\ "data" \in Pending' => "data" \in Polled
  <2>1. "recv" \notin Pending /\ "data" \notin Pending
    BY <1>5, <1>6 DEF Io
  <2>2. ASSUME NEW i \in 1..m
        PROVE  ready'[i] \in Pending \/ ready'[i] \in Polled
                   \/ (handler \in Collecting /\ ready'[i] = "expire")
    BY <1>5, <1>7
  <2>3. \A c \in Pending' : c \in Pending \/ c \in Polled \/ (handler \in Collecting /\ c = "expire")
    BY <1>5, <2>2
  <2> QED
    BY <2>1, <2>3
<1>11. Ordered => Ordered'
  <2> SUFFICES ASSUME Ordered, NEW j \in 1..m, ready'[j] \in {"done", "collect"}
               PROVE  \E i \in 1..m : i < j /\ ready'[i] = "drain"
    BY DEF Ordered, m
  <2>1. j \in 1..n /\ ready[j] \in {"done", "collect"}
    <3>1. ready'[j] \notin Polled /\ ready'[j] # "expire"
      BY <1>4
    <3> QED
      BY <1>7, <3>1
  <2>2. PICK i \in 1..n : i < j /\ ready[i] = "drain"
    BY <2>1 DEF Ordered, n
  <2>3. i \in 1..m /\ ready'[i] = "drain"
    BY <1>3, <2>2
  <2> QED
    BY <2>2, <2>3
<1>12. Phases'
  <2>1. handler \in {"request", "binding"} => "recv" \notin Polled /\ "accept" \notin Polled
    BY DEF IInv, Tasks, Entries, Polled
  <2>2. handler \in {"request", "binding"} => handler \notin Collecting
    BY DEF Collecting
  <2>3. Polled \subseteq {"data", "recv", "accept"}
    BY <1>4
  <2> QED
    BY <1>1, <1>10, <2>1, <2>2, <2>3 DEF JInv, Phases
<1>13. Wordless'
  BY <1>1, Standing DEF JInv, Wordless
<1>14. Race'
  <2>1. "recv" \in Polled <=> reader = "live" /\ queue # <<>>
    BY DEF Polled
  <2>2. reader = "live" /\ handler \in Collecting => drain = "parked"
    BY DEF IInv, Entries, Tasks
  <2>3. ASSUME Waiting, ~haunted
        PROVE  /\ signal = "none" /\ inbox = <<>>
               /\ "recv" \in Pending'
    BY <1>4, <1>10, <2>1, <2>3 DEF JInv, Race, Waiting
  <2> QED
    BY <1>1, <1>10, <1>11, <2>1, <2>2, <2>3, Standing DEF JInv, Race, Waiting
<1> QED
  BY <1>9, <1>12, <1>13, <1>14 DEF JInv

\* A new connection begins without a word.
LEMMA ConnectRaces == ASSUME IInv, JInv, Connect, IInv' PROVE JInv'
<1>1. /\ UNCHANGED <<handler, ready, todo>> /\ handler = "over"
      /\ inbox' = <<>> /\ signal' = "none" /\ out' = <<>> /\ drain' = "none" /\ timedOut' = FALSE
  BY DEF Connect, loopVars
<1>2. handler' \notin {"request", "binding"} \cup Collecting
  BY <1>1 DEF Collecting
<1>3. Phases' /\ Wordless'
  BY <1>1, <1>2 DEF Phases, Wordless, Collecting
<1>4. Race'
  BY <1>1, <1>2 DEF Race, Waiting
<1> QED
  BY <1>1, <1>3, <1>4, Standing DEF JInv

\* The client writes its request.
LEMMA RequestRaces == ASSUME IInv, JInv, NEW b \in Methods, Request(b), IInv' PROVE JInv'
<1>1. /\ UNCHANGED <<haunted, inbox, out, handler, drain, signal, got, queue, ready, todo, timedOut>>
      /\ client = "calling" /\ handler = "request" /\ client' = "reading" /\ tcp' = Append(tcp, b)
  BY DEF Request, taskVars, udpVars, loopVars
<1>2. tcp = <<>> /\ drain = "none" /\ inbox = <<>>
  BY <1>1 DEF IInv, Calling, JInv, Wordless
<1>3. Len(tcp') <= 1
  BY <1>1, <1>2
<1>4. Phases'
  BY <1>1, Standing DEF JInv, Phases
<1>5. Wordless'
  BY <1>1, <1>2, <1>3, Standing DEF JInv, Wordless, Collecting
<1>6. Race'
  BY <1>1, <1>2 DEF Race, Waiting, Collecting
<1> QED
  BY <1>1, <1>4, <1>5, <1>6, Standing DEF JInv

\* The client falls silent: it ends its input, or it hangs up.
LEMMA SilenceRaces ==
    ASSUME IInv, JInv, client' \in {"ended", "away"}, IInv',
           UNCHANGED <<turn, sent, haunted, conn, inbox, out, handler, taskVars, udpVars, audioVars,
                       loopVars, timedOut, arrived>>
    PROVE  JInv'
<1>1. UNCHANGED <<haunted, inbox, out, handler, drain, signal, got, queue, reader, ready, todo,
                  timedOut, arrived>>
  BY DEF taskVars, udpVars, audioVars, loopVars
<1>2. Phases' /\ Wordless'
  <2>1. Phases'
    BY <1>1, Standing DEF JInv, Phases
  <2>2. Wordless'
    BY <1>1, Standing DEF JInv, Wordless
  <2> QED
    BY <2>1, <2>2
<1>3. Race'
  BY <1>1, Standing DEF JInv, Race, Waiting
<1> QED
  BY <1>1, <1>2, <1>3, Standing DEF JInv

\* A datagram arrives before the client has written anything but its request.
LEMMA SendRtpRaces == ASSUME IInv, JInv, NEW d \in Datagrams, SendRtp(d), IInv' PROVE JInv'
<1>1. /\ UNCHANGED <<client, haunted, tcp, inbox, out, handler, drain, signal, got, bound, reader,
                     ready, todo, timedOut>>
      /\ client = "reading" /\ Written("IN-PROGRESS")
      /\ \/ bound /\ queue' = Append(queue, d) /\ arrived' = Append(arrived, d)
         \/ ~bound /\ UNCHANGED <<queue, arrived>>
  BY DEF SendRtp, tcpVars, taskVars, audioVars, loopVars
<1>2. Phases' /\ Wordless'
  <2>1. Phases'
    BY <1>1, Standing DEF JInv, Phases
  <2>2. Wordless'
    BY <1>1, Standing DEF JInv, Wordless
  <2> QED
    BY <2>1, <2>2
<1>3. CASE bound /\ queue' = Append(queue, d) /\ arrived' = Append(arrived, d)
  <2>1. handler \in Collecting
    BY <1>3 DEF IInv, Labels
  <2>2. inbox = <<>> /\ tcp = <<>> /\ signal = "none"
    BY <1>1, <2>1 DEF JInv, Wordless
  <2>3. "data" \notin Pending
    BY <2>2 DEF IInv, Reads
  <2>4. queue' # <<>>
    <3>1. queue \in Seq(Datagrams)
      BY DEF IInv, Lists
    <3> QED
      BY <1>3, <3>1
  <2>5. SomeDamaged => SomeDamaged'
    <3>1. arrived \in Seq(Datagrams)
      BY DEF IInv, Lists
    <3>2. \A i \in DOMAIN arrived : i \in DOMAIN arrived' /\ arrived'[i] = arrived[i]
      BY <1>3, <3>1
    <3> QED
      BY <3>2 DEF SomeDamaged
  <2>6. Race'
    BY <1>1, <2>1, <2>2, <2>3, <2>4, <2>5, Standing DEF JInv, Race, Waiting
  <2> QED
    BY <1>1, <1>2, <2>6, Standing DEF JInv
<1>4. CASE ~bound /\ UNCHANGED <<queue, arrived>>
  <2>1. Race'
    BY <1>1, <1>4, Standing DEF JInv, Race, Waiting
  <2> QED
    BY <1>1, <1>2, <2>1, Standing DEF JInv
<1> QED
  BY <1>1, <1>3, <1>4

LEMMA RaceBegins == Init => JInv
<1> SUFFICES ASSUME Init
             PROVE  JInv
  OBVIOUS
<1>1. /\ client = "away" /\ handler = "over" /\ drain = "none" /\ ready = <<>>
  BY DEF Init
<1>2. Ranked
  BY <1>1 DEF Ranked
<1> QED
  BY <1>1, <1>2 DEF JInv, Phases, Wordless, Race, Waiting, Collecting

LEMMA NextRaces == IInv /\ JInv /\ [Next]_vars => JInv'
<1> SUFFICES ASSUME IInv, JInv, [Next]_vars
             PROVE  JInv'
  OBVIOUS
<1>1. IInv'
  BY NextKeeps
<1>2. CASE Client
  <2>1. ASSUME NEW b \in Signals, EndInput(b)
        PROVE  JInv'
    BY <1>1, <2>1, SilenceRaces DEF EndInput
  <2>2. ASSUME HangUp
        PROVE  JInv'
    BY <1>1, <2>2, SilenceRaces DEF HangUp
  <2> QED
    BY <1>1, <1>2, <2>1, <2>2, ConnectRaces, RequestRaces, SendRtpRaces DEF Client
<1>3. CASE Server
  BY <1>1, <1>3, PollRaces, AcceptRaces, DataReceivedRaces, ConnectionLostRaces, ReadRequestRaces,
     BindRtpSocketRaces, RecvReadyRaces, DrainDatagramRaces, DrainParksRaces, DrainStopsRaces,
     SentinelReadsRaces, SentinelStopsRaces, FirstCompletedRaces, CollectRaces, ExpireRaces,
     AnswerRaces DEF Server
<1>4. CASE UNCHANGED vars
  <2>1. UNCHANGED <<client, haunted, tcp, inbox, out, handler, drain, signal, got, queue, reader,
                    ready, todo, timedOut, arrived>>
    BY <1>4 DEF vars, clientVars, tcpVars, taskVars, udpVars, audioVars, loopVars
  <2>2. Phases'
    BY <2>1, Standing DEF JInv, Phases
  <2>3. Wordless'
    BY <2>1, Standing DEF JInv, Wordless
  <2>4. Race'
    BY <2>1, Standing DEF JInv, Race, Waiting
  <2> QED
    BY <2>1, <2>2, <2>3, <2>4, Standing DEF JInv
<1> QED
  BY <1>2, <1>3, <1>4 DEF Next

\* The drain does not lose its race with the sentinel: when
\* _collect_rtp_until_sentinel cancels its tasks, every datagram that reached
\* the socket before the client sent its end byte has been read (a later one
\* counts as lost), unless an earlier turn left its selector entry to this one
\* or a damaged datagram ended the drain.
THEOREM DrainNeverLosesRace == Spec => []NothingUnread
<1>1. Spec => [](IInv /\ JInv)
  <2>1. Init => IInv /\ JInv
    BY Initially, RaceBegins
  <2>2. IInv /\ JInv /\ [Next]_vars => (IInv /\ JInv)'
    BY NextKeeps, NextRaces
  <2> QED
    BY <2>1, <2>2, PTL DEF Spec
<1>2. IInv /\ JInv => NothingUnread
  <2> SUFFICES ASSUME IInv, JInv, Runs("collect"), handler = "collected", ~haunted, ~SomeDamaged
               PROVE  got = <<>> /\ queue = <<>>
    BY DEF NothingUnread
  <2>1. handler \in Collecting
    BY DEF Collecting
  <2>2. 1 \in 1..Len(ready) /\ ready[1] = "collect"
    BY Running DEF IInv
  <2>3. \A i \in 1..Len(ready) : ~(i < 1)
    OBVIOUS
  <2>4. ~Ordered
    BY <2>2, <2>3 DEF Ordered
  <2>5. drain = "parked"
    BY <2>1, <2>4 DEF JInv, Race, IInv, Tasks
  <2>6. signal # "none"
    BY <2>1 DEF IInv, Reasons, Excused, JInv, Wordless
  <2> QED
    BY <2>5, <2>6 DEF JInv, Race, Waiting
<1> QED
  BY <1>1, <1>2, PTL
=============================================================================
