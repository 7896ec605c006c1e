---------------------------- MODULE JitterProofs ----------------------------
(***************************************************************************)
(* The jitter buffer orders any stream, for every capacity, every first    *)
(* sequence number and any packets within half the number space of the one *)
(* that is due, and it implements the window over positions that never     *)
(* wrap.                                                                   *)
(***************************************************************************)
EXTENDS JitterBuffer, FiniteSetTheorems, WellFoundedInduction, TLAPS

-----------------------------------------------------------------------------
(* Serial arithmetic.                                                      *)

\* First is a number of 16 bits.
LEMMA FirstIs == First \in Int /\ 0 <= First /\ First <= 65535
BY WindowAssumption

\* A remainder is a number of 16 bits.
LEMMA ModIs ==
    ASSUME NEW x \in Int
    PROVE  /\ x % 65536 \in Int /\ 0 <= x % 65536 /\ x % 65536 <= 65535
           /\ \E k \in Int : x = 65536 * k + (x % 65536)
<1>1. /\ x % 65536 \in Int /\ 0 <= x % 65536 /\ x % 65536 <= 65535
      /\ x \div 65536 \in Int /\ x = 65536 * (x \div 65536) + (x % 65536)
  OBVIOUS
<1> QED
  BY <1>1

\* The remainder is unique.
LEMMA ModUnique ==
    ASSUME NEW x \in Int, NEW k \in Int, NEW r \in Nat, r <= 65535, x = 65536 * k + r
    PROVE  x % 65536 = r
OBVIOUS

\* A sequence number has 16 bits ...
LEMMA SequenceType ==
    ASSUME NEW p \in Int
    PROVE  SequenceOf(p) \in Int /\ 0 <= SequenceOf(p) /\ SequenceOf(p) <= 65535
<1>1. First + p \in Int
  BY FirstIs
<1> QED
  BY <1>1, ModIs DEF SequenceOf

\* ... and is the position up to a multiple of 2^16.
LEMMA SequenceIs ==
    ASSUME NEW p \in Int
    PROVE  \E k \in Int : First + p = 65536 * k + SequenceOf(p)
<1>1. First + p \in Int
  BY FirstIs
<1> QED
  BY <1>1, ModIs DEF SequenceOf

\* Positions less than 2^16 apart have different numbers.
LEMMA SequenceInjective ==
    ASSUME NEW p \in Int, NEW q \in Int, p - q < 65536, q - p < 65536, SequenceOf(p) = SequenceOf(q)
    PROVE  p = q
<1>1. PICK j \in Int : First + p = 65536 * j + SequenceOf(p)
  BY SequenceIs
<1>2. PICK k \in Int : First + q = 65536 * k + SequenceOf(q)
  BY SequenceIs
<1>3. p - q = 65536 * (j - k)
  BY <1>1, <1>2, FirstIs, SequenceType
<1>4. j = k
  BY <1>3
<1> QED
  BY <1>3, <1>4

\* The numbers of consecutive positions are consecutive.
LEMMA SequenceNext ==
    ASSUME NEW p \in Int, NEW k \in Nat
    PROVE  (SequenceOf(p) + k) % 65536 = SequenceOf(p + k)
BY FirstIs DEF SequenceOf

\* The distance of two numbers is that of their positions.
LEMMA DistanceIs ==
    ASSUME NEW p \in Int, NEW q \in Int, q - p >= 0, q - p < 65536
    PROVE  SeqDistance(SequenceOf(p), SequenceOf(q)) = q - p
<1> DEFINE a == SequenceOf(p)
           b == SequenceOf(q)
<1>1. a \in Int /\ b \in Int
  BY SequenceType
<1>2. /\ \E j \in Int : First + p = 65536 * j + a
      /\ \E k \in Int : First + q = 65536 * k + b
  BY SequenceIs
<1> HIDE DEF a, b
<1>3. PICK j \in Int : First + p = 65536 * j + a
  BY <1>2
<1>4. PICK k \in Int : First + q = 65536 * k + b
  BY <1>2
<1> DEFINE m == j - k
<1>5. b - a = 65536 * m + (q - p) /\ m \in Int /\ b - a \in Int
  BY <1>1, <1>3, <1>4, FirstIs
<1> HIDE DEF m
<1>6. (b - a) % 65536 = q - p
  BY <1>5, ModUnique
<1> QED
  BY <1>6 DEF SeqDistance, a, b

\* Within half the number space, _seq_less is the order of the positions.
LEMMA SeqLessIs ==
    ASSUME NEW p \in Int, NEW q \in Int, q - p > -Half, q - p <= Half
    PROVE  SeqLess(SequenceOf(q), SequenceOf(p)) <=> q < p
<1>1. SequenceOf(p) \in Int /\ SequenceOf(q) \in Int
  BY SequenceType
<1>2. CASE q >= p
  <2>1. SeqDistance(SequenceOf(p), SequenceOf(q)) = q - p
    BY <1>2, DistanceIs DEF Half
  <2> QED
    BY <1>2, <2>1 DEF SeqLess, SeqDistance, Half
<1>3. CASE q < p
  <2>1. SequenceOf(q + 65536) = SequenceOf(q)
    BY FirstIs DEF SequenceOf
  <2>2. SeqDistance(SequenceOf(p), SequenceOf(q + 65536)) = (q + 65536) - p
    BY <1>3, DistanceIs DEF Half
  <2> QED
    BY <1>3, <2>1, <2>2 DEF SeqLess, SeqDistance, Half
<1> QED
  BY <1>2, <1>3

-----------------------------------------------------------------------------
(* What the buffer holds, as positions.                                    *)

\* The buffer holds the positions H, none before n and none more than half
\* the number space after it, each under its sequence number.
IsWindow(b, H, n) ==
    /\ n \in Int /\ \A p \in H : p \in Int /\ n <= p /\ p <= n + Half
    /\ DOMAIN b = {SequenceOf(p) : p \in H} /\ \A p \in H : b[SequenceOf(p)] = p

\* A number is buffered exactly when its position is held.
LEMMA Member ==
    ASSUME NEW b, NEW H, NEW n, IsWindow(b, H, n), NEW q \in Int, n <= q, q < n + 65536
    PROVE  SequenceOf(q) \in DOMAIN b <=> q \in H
<1>1. ASSUME SequenceOf(q) \in DOMAIN b
      PROVE  q \in H
  <2>1. PICK p \in H : SequenceOf(p) = SequenceOf(q)
    BY <1>1 DEF IsWindow
  <2>2. p \in Int /\ n \in Int /\ n <= p /\ p <= n + Half
    BY DEF IsWindow
  <2>3. p - q < 65536 /\ q - p < 65536
    BY <2>2 DEF Half
  <2> QED
    BY <2>1, <2>2, <2>3, SequenceInjective
<1>2. ASSUME q \in H
      PROVE  SequenceOf(q) \in DOMAIN b
  BY <1>2 DEF IsWindow
<1> QED
  BY <1>1, <1>2

\* As many numbers are buffered as positions are held, and they are finite.
LEMMA CountIs ==
    ASSUME NEW b, NEW H, NEW n, IsWindow(b, H, n)
    PROVE  /\ IsFiniteSet(H) /\ IsFiniteSet(DOMAIN b)
           /\ Cardinality(DOMAIN b) = Cardinality(H) /\ Cardinality(H) \in Nat
           /\ Cardinality(H) <= Half + 1
           /\ {b[s] : s \in DOMAIN b} = H
<1>1. n \in Int /\ n + Half \in Int /\ H \in SUBSET (n..(n + Half))
  BY DEF IsWindow, Half
<1>2. IsFiniteSet(n..(n + Half)) /\ Cardinality(n..(n + Half)) = Half + 1
  <2>1. IsFiniteSet(n..(n + Half))
    BY <1>1, FS_Interval
  <2>2. Cardinality(n..(n + Half)) = IF n > n + Half THEN 0 ELSE (n + Half) - n + 1
    BY <1>1, FS_Interval
  <2> QED
    BY <1>1, <2>1, <2>2 DEF Half
<1>3. IsFiniteSet(H) /\ Cardinality(H) <= Half + 1
  BY <1>1, <1>2, FS_Subset
<1>4. Cardinality(H) \in Nat
  BY <1>3, FS_CardinalityType
<1> DEFINE g == [p \in H |-> SequenceOf(p)]
<1>5. g \in Bijection(H, DOMAIN b)
  <2>1. g \in [H -> DOMAIN b]
    BY DEF IsWindow
  <2>2. \A p, q \in H : g[p] = g[q] => p = q
    BY DEF IsWindow
  <2>3. \A s \in DOMAIN b : \E p \in H : g[p] = s
    BY DEF IsWindow
  <2> HIDE DEF g
  <2> QED
    BY <2>1, <2>2, <2>3 DEF Bijection, Injection, Surjection, IsInjective
<1>6. IsFiniteSet(DOMAIN b) /\ Cardinality(DOMAIN b) = Cardinality(H)
  BY <1>3, <1>5, FS_Bijection DEF ExistsBijection
<1>7. {b[s] : s \in DOMAIN b} = H
  BY DEF IsWindow
<1> QED
  BY <1>3, <1>4, <1>6, <1>7

\* A nonempty set of naturals has a least element.
LEMMA LeastExists ==
    ASSUME NEW T, T \subseteq Nat, T # {}
    PROVE  \E k \in T : \A j \in T : k <= j
<1> DEFINE R == {p \in Nat \X Nat : p[1] < p[2]}
<1>1. IsWellFoundedOn(R, Nat)
  BY NatLessThanWellFounded DEF OpToRel
<1>2. \E k \in T : \A j \in T : <<j, k>> \notin R
  <2> HIDE DEF R
  <2> QED
    BY <1>1, WFMin
<1>3. \A j, k \in Nat : <<j, k>> \notin R => k <= j
  OBVIOUS
<1> HIDE DEF R
<1> QED
  BY <1>2, <1>3

\* Storing a packet of the window.
LEMMA StoredIs ==
    ASSUME NEW b, NEW H, NEW n, IsWindow(b, H, n), NEW p \in Int, n <= p, p <= n + Half
    PROVE  IsWindow(Stored(b, SequenceOf(p), p), H \cup {p}, n)
<1> DEFINE c == Stored(b, SequenceOf(p), p)
<1>1. DOMAIN c = DOMAIN b \cup {SequenceOf(p)}
  BY DEF Stored
<1>2. \A s \in DOMAIN c : c[s] = IF s = SequenceOf(p) THEN p ELSE b[s]
  BY DEF Stored
<1> HIDE DEF c
<1>3. DOMAIN b = {SequenceOf(q) : q \in H} /\ \A q \in H : b[SequenceOf(q)] = q
  BY DEF IsWindow
<1>4. DOMAIN c = {SequenceOf(q) : q \in H \cup {p}}
  BY <1>1, <1>3
<1>5. \A q \in H : SequenceOf(q) = SequenceOf(p) => q = p
  BY Member, SequenceInjective DEF IsWindow, Half
<1>6. \A q \in H \cup {p} : c[SequenceOf(q)] = q
  BY <1>2, <1>3, <1>4, <1>5
<1>7. n \in Int /\ \A q \in H \cup {p} : q \in Int /\ n <= q /\ q <= n + Half
  BY DEF IsWindow
<1> QED
  BY <1>4, <1>6, <1>7 DEF IsWindow, c

\* What the popping loop does from position n: it pops the k positions of the
\* run that starts there, in order, and stops at the first that is not held.
Pops(b, H, n, k) ==
    /\ k \in Nat /\ n + k \notin H /\ n..(n + k - 1) \subseteq H
    /\ Run(b, SequenceOf(n)) = [j \in 1..k |-> n + j - 1]
    /\ AfterRun(b, SequenceOf(n)) = SequenceOf(n + k)
    /\ IsWindow(WithoutRun(b, SequenceOf(n)), H \ (n..(n + k - 1)), n + k)

\* The popping loop.
LEMMA RunIs ==
    ASSUME NEW b, NEW H, NEW n, IsWindow(b, H, n)
    PROVE  \E k \in Nat : Pops(b, H, n, k)
<1> DEFINE T == {k \in Nat : n + k \notin H}
           size == Cardinality(DOMAIN b)
           s(j) == (SequenceOf(n) + j) % 65536
<1>1. n \in Int /\ \A p \in H : p \in Int /\ n <= p /\ p <= n + Half
  BY DEF IsWindow
<1>2. IsFiniteSet(H) /\ size \in Nat /\ size <= Half + 1 /\ size = Cardinality(H)
  BY CountIs
<1>3. Half + 1 \in T
  BY <1>1 DEF Half
<1>4. PICK k \in T : \A j \in T : k <= j
  <2>1. T \subseteq Nat /\ T # {}
    BY <1>3
  <2> HIDE DEF T
  <2> QED
    BY <2>1, LeastExists
<1>5. k \in Nat /\ k <= Half + 1 /\ n + k \notin H /\ \A j \in Nat : j < k => n + j \in H
  BY <1>3, <1>4
<1>6. \A j \in Nat : j <= Half + 1 => s(j) = SequenceOf(n + j) /\ (s(j) \in DOMAIN b <=> n + j \in H)
  <2> SUFFICES ASSUME NEW j \in Nat, j <= Half + 1
               PROVE  s(j) = SequenceOf(n + j) /\ (s(j) \in DOMAIN b <=> n + j \in H)
    OBVIOUS
  <2>1. n + j \in Int /\ n <= n + j /\ n + j < n + 65536
    BY <1>1 DEF Half
  <2>2. s(j) = SequenceOf(n + j)
    BY <1>1, SequenceNext
  <2> HIDE DEF s
  <2> QED
    BY <2>1, <2>2, Member
<1>7. n..(n + k - 1) \subseteq H
  <2> SUFFICES ASSUME NEW p \in n..(n + k - 1)
               PROVE  p \in H
    OBVIOUS
  <2>1. p - n \in Nat /\ p - n < k /\ n + (p - n) = p
    BY <1>1, <1>5
  <2> QED
    BY <1>5, <2>1
<1>8. k <= size
  <2>1. IsFiniteSet(n..(n + k - 1)) /\ Cardinality(n..(n + k - 1)) = k
    <3>1. n + k - 1 \in Int
      BY <1>1, <1>5
    <3>2. Cardinality(n..(n + k - 1)) = IF n > n + k - 1 THEN 0 ELSE (n + k - 1) - n + 1
      BY <1>1, <3>1, FS_Interval
    <3> QED
      BY <1>1, <1>5, <3>1, <3>2, FS_Interval
  <2>2. Cardinality(n..(n + k - 1)) <= Cardinality(H)
    BY <1>2, <1>7, FS_Subset
  <2> QED
    BY <1>2, <2>1, <2>2
<1>9. RunLength(b, SequenceOf(n)) = k
  <2> DEFINE P(m) == /\ \A j \in 0..(m - 1) : s(j) \in DOMAIN b
                     /\ s(m) \notin DOMAIN b
  <2>1. k \in 0..size /\ P(k)
    <3>1. \A j \in 0..(k - 1) : s(j) \in DOMAIN b
      <4> SUFFICES ASSUME NEW j \in 0..(k - 1)
                   PROVE  s(j) \in DOMAIN b
        OBVIOUS
      <4>1. j \in Nat /\ j < k /\ j <= Half + 1
        BY <1>5 DEF Half
      <4> QED
        BY <1>5, <1>6, <4>1
    <3>2. s(k) \notin DOMAIN b
      BY <1>5, <1>6
    <3> QED
      BY <1>2, <1>5, <1>8, <3>1, <3>2
  <2>2. ASSUME NEW m \in 0..size, P(m)
        PROVE  m = k
    <3>1. m \in Nat /\ m <= Half + 1
      BY <1>2 DEF Half
    <3>2. ~(m < k)
      BY <1>5, <1>6, <2>2, <3>1
    <3>3. ~(k < m)
      <4>1. k < m => k \in 0..(m - 1)
        BY <1>5, <3>1
      <4> QED
        BY <1>5, <1>6, <2>2, <4>1
    <3> QED
      BY <1>5, <3>1, <3>2, <3>3
  <2>3. RunLength(b, SequenceOf(n)) = CHOOSE m \in 0..size : P(m)
    BY DEF RunLength
  <2> HIDE DEF P, s, size
  <2>4. (CHOOSE m \in 0..size : P(m)) = k
    BY <2>1, <2>2
  <2> QED
    BY <2>3, <2>4
<1>10. Run(b, SequenceOf(n)) = [j \in 1..k |-> n + j - 1]
  <2>1. ASSUME NEW j \in 1..k
        PROVE  b[(SequenceOf(n) + j - 1) % 65536] = n + j - 1
    <3>1. j - 1 \in Nat /\ j - 1 < k /\ j - 1 <= Half + 1 /\ n + (j - 1) = n + j - 1
          /\ SequenceOf(n) + (j - 1) = SequenceOf(n) + j - 1
      BY <1>1, <1>5, SequenceType DEF Half
    <3>2. n + j - 1 \in H /\ (SequenceOf(n) + j - 1) % 65536 = SequenceOf(n + j - 1)
      BY <1>5, <1>6, <3>1
    <3> QED
      BY <3>2 DEF IsWindow
  <2>2. Run(b, SequenceOf(n)) = [j \in 1..k |-> b[(SequenceOf(n) + j - 1) % 65536]]
    BY <1>9 DEF Run
  <2> QED
    BY <2>1, <2>2
<1>11. AfterRun(b, SequenceOf(n)) = SequenceOf(n + k)
  BY <1>5, <1>6, <1>9 DEF AfterRun
<1>12. IsWindow(WithoutRun(b, SequenceOf(n)), H \ (n..(n + k - 1)), n + k)
  <2> DEFINE c == WithoutRun(b, SequenceOf(n))
             popped == {s(j) : j \in 0..(k - 1)}
             G == H \ (n..(n + k - 1))
  <2>1. c = [u \in DOMAIN b \ popped |-> b[u]]
    BY <1>9 DEF WithoutRun
  <2>2. popped = {SequenceOf(p) : p \in n..(n + k - 1)}
    <3>1. \A j \in 0..(k - 1) : n + j \in n..(n + k - 1) /\ s(j) = SequenceOf(n + j)
      <4> SUFFICES ASSUME NEW j \in 0..(k - 1)
                   PROVE  n + j \in n..(n + k - 1) /\ s(j) = SequenceOf(n + j)
        OBVIOUS
      <4>1. j \in Nat /\ j <= Half + 1 /\ n + j \in n..(n + k - 1)
        BY <1>1, <1>5 DEF Half
      <4> QED
        BY <1>6, <4>1
    <3>2. \A p \in n..(n + k - 1) : p - n \in 0..(k - 1) /\ n + (p - n) = p
      BY <1>1, <1>5
    <3> HIDE DEF s
    <3>3. \A p \in n..(n + k - 1) : SequenceOf(p) = s(p - n)
      BY <3>1, <3>2
    <3> QED
      BY <3>1, <3>2, <3>3
  <2> HIDE DEF c, popped, s
  <2>3. DOMAIN b = {SequenceOf(p) : p \in H} /\ \A p \in H : b[SequenceOf(p)] = p
    BY DEF IsWindow
  <2>4. \A p \in G : SequenceOf(p) \notin popped
    <3> SUFFICES ASSUME NEW p \in G, NEW q \in n..(n + k - 1)
                 PROVE  SequenceOf(p) # SequenceOf(q)
      BY <2>2
    <3>1. b[SequenceOf(p)] = p /\ b[SequenceOf(q)] = q /\ p # q
      BY <1>7, <2>3
    <3> QED
      BY <3>1
  <2>5. DOMAIN c = {SequenceOf(p) : p \in G}
    <3>1. DOMAIN c = DOMAIN b \ popped
      BY <2>1
    <3>2. ASSUME NEW u \in DOMAIN c
          PROVE  \E p \in G : u = SequenceOf(p)
      <4>1. PICK p \in H : u = SequenceOf(p)
        BY <2>3, <3>1
      <4>2. p \notin n..(n + k - 1)
        BY <2>2, <3>1, <4>1
      <4> QED
        BY <4>1, <4>2
    <3>3. \A p \in G : SequenceOf(p) \in DOMAIN c
      BY <2>3, <2>4, <3>1
    <3> QED
      BY <3>2, <3>3
  <2>6. \A p \in G : c[SequenceOf(p)] = p
    BY <2>1, <2>3, <2>4
  <2>7. n + k \in Int /\ \A p \in G : p \in Int /\ n + k <= p /\ p <= n + k + Half
    <3>1. n + k \in Int
      BY <1>1, <1>5
    <3>2. ASSUME NEW p \in G
          PROVE  p \in Int /\ n + k <= p /\ p <= n + k + Half
      <4>1. p \in Int /\ n <= p /\ p <= n + Half /\ p \notin n..(n + k - 1)
        BY <1>1
      <4> QED
        BY <1>1, <1>5, <4>1 DEF Half
    <3> QED
      BY <3>1, <3>2
  <2> HIDE DEF G
  <2>8. IsWindow(c, G, n + k)
    BY <2>5, <2>6, <2>7 DEF IsWindow
  <2> QED
    BY <2>8 DEF c, G
<1> HIDE DEF T, size, s
<1>13. Pops(b, H, n, k)
  BY <1>5, <1>7, <1>10, <1>11, <1>12 DEF Pops
<1> QED
  BY <1>5, <1>13

\* The nearest number past a gap is that of the least position held.
LEMMA NearestIs ==
    ASSUME NEW b, NEW H, NEW n, IsWindow(b, H, n), H # {}
    PROVE  \E m \in H : /\ \A q \in H : m <= q
                        /\ Nearest(b, SequenceOf(n)) = SequenceOf(m)
                        /\ IsWindow(b, H, m)
<1> DEFINE T == {q - n : q \in H}
           base == SequenceOf(n)
           d(p) == SeqDistance(base, p)
<1>1. n \in Int /\ \A p \in H : p \in Int /\ n <= p /\ p <= n + Half
  BY DEF IsWindow
<1>2. DOMAIN b = {SequenceOf(p) : p \in H} /\ \A p \in H : b[SequenceOf(p)] = p
  BY DEF IsWindow
<1>3. T \subseteq Nat /\ T # {}
  BY <1>1
<1>4. PICK m \in H : \A q \in H : m <= q
  <2>1. PICK t \in T : \A u \in T : t <= u
    <3> HIDE DEF T
    <3> QED
      BY <1>3, LeastExists
  <2>2. PICK m \in H : t = m - n
    OBVIOUS
  <2>3. ASSUME NEW q \in H
        PROVE  m <= q
    <3>1. m - n <= q - n
      BY <2>1, <2>2
    <3> QED
      BY <1>1, <3>1
  <2> QED
    BY <2>3
<1>5. \A q \in H : d(SequenceOf(q)) = q - n
  BY <1>1, DistanceIs DEF Half
<1> HIDE DEF d
<1>6. Nearest(b, base) = SequenceOf(m)
  <2> DEFINE P(s) == \A u \in DOMAIN b : d(s) <= d(u)
  <2>1. Nearest(b, base) = CHOOSE s \in DOMAIN b : P(s)
    BY DEF Nearest, d
  <2>2. SequenceOf(m) \in DOMAIN b /\ P(SequenceOf(m))
    BY <1>1, <1>2, <1>4, <1>5
  <2>3. ASSUME NEW s \in DOMAIN b, P(s)
        PROVE  s = SequenceOf(m)
    <3>1. PICK q \in H : s = SequenceOf(q)
      BY <1>2
    <3>2. q - n <= m - n
      BY <1>5, <2>2, <2>3, <3>1
    <3>3. q = m
      BY <1>1, <1>4, <3>2
    <3> QED
      BY <3>1, <3>3
  <2> HIDE DEF P
  <2> QED
    BY <2>1, <2>2, <2>3
<1>7. IsWindow(b, H, m)
  <2>1. \A p \in H : p \in Int /\ m <= p /\ p <= m + Half
    BY <1>1, <1>4 DEF Half
  <2> QED
    BY <1>2, <2>1 DEF IsWindow
<1> QED
  BY <1>4, <1>6, <1>7

-----------------------------------------------------------------------------
(* Payloads in order.                                                      *)

\* f lists the positions S, in order.
Lists(f, S) ==
    /\ f \in Seq(Int) /\ {f[i] : i \in 1..Len(f)} = S
    /\ \A i, j \in 1..Len(f) : i < j => f[i] < f[j]

\* A list in order has as many entries as positions, and the i-th has i - 1
\* positions before it.
LEMMA RankIs ==
    ASSUME NEW S, NEW f, Lists(f, S)
    PROVE  /\ IsFiniteSet(S) /\ Cardinality(S) = Len(f) /\ Len(f) \in Nat /\ S \subseteq Int
           /\ \A i \in 1..Len(f) : f[i] \in S /\ Cardinality({r \in S : r < f[i]}) = i - 1
<1>1. /\ f \in Seq(Int) /\ {f[i] : i \in 1..Len(f)} = S /\ Len(f) \in Nat
      /\ \A i, j \in 1..Len(f) : i < j => f[i] < f[j]
      /\ \A i \in 1..Len(f) : f[i] \in S /\ f[i] \in Int
  BY DEF Lists
<1>2. \A i, j \in 1..Len(f) : /\ f[i] = f[j] => i = j
                              /\ f[i] < f[j] => i < j
  <2> SUFFICES ASSUME NEW i \in 1..Len(f), NEW j \in 1..Len(f)
               PROVE  (f[i] = f[j] => i = j) /\ (f[i] < f[j] => i < j)
    OBVIOUS
  <2>1. f[i] \in Int /\ f[j] \in Int /\ (i < j => f[i] < f[j]) /\ (j < i => f[j] < f[i])
    BY <1>1
  <2> QED
    BY <2>1
<1>3. ASSUME NEW k \in 0..Len(f), NEW B, B = {f[i] : i \in 1..k}
      PROVE  IsFiniteSet(B) /\ Cardinality(B) = k
  <2> DEFINE g == [i \in 1..k |-> f[i]]
  <2>1. k \in Nat /\ 1..k \subseteq 1..Len(f)
    BY <1>1
  <2>2. IsFiniteSet(1..k) /\ Cardinality(1..k) = k
    BY <2>1, FS_Interval
  <2>3. g \in [1..k -> B] /\ \A x \in B : \E i \in 1..k : g[i] = x
    BY <1>3
  <2>4. \A i, j \in 1..k : g[i] = g[j] => i = j
    BY <1>2, <2>1
  <2> HIDE DEF g
  <2>5. g \in Bijection(1..k, B)
    BY <2>3, <2>4 DEF Bijection, Injection, Surjection, IsInjective
  <2> QED
    BY <2>2, <2>5, FS_Bijection DEF ExistsBijection
<1>4. IsFiniteSet(S) /\ Cardinality(S) = Len(f)
  BY <1>1, <1>3
<1>5. ASSUME NEW i \in 1..Len(f)
      PROVE  Cardinality({r \in S : r < f[i]}) = i - 1
  <2>1. i - 1 \in 0..Len(f) /\ \A j \in 1..Len(f) : j \in 1..(i - 1) <=> j < i
    BY <1>1
  <2>2. {r \in S : r < f[i]} = {f[j] : j \in 1..(i - 1)}
    <3>1. ASSUME NEW r \in S, r < f[i]
          PROVE  \E j \in 1..(i - 1) : r = f[j]
      <4>1. PICK j \in 1..Len(f) : r = f[j]
        BY <1>1
      <4> QED
        BY <1>2, <2>1, <3>1, <4>1
    <3>2. ASSUME NEW j \in 1..(i - 1)
          PROVE  f[j] \in S /\ f[j] < f[i]
      <4>1. j \in 1..Len(f) /\ j < i
        BY <1>1
      <4> QED
        BY <1>1, <4>1
    <3> QED
      BY <3>1, <3>2
  <2> QED
    BY <1>3, <2>1, <2>2
<1> QED
  BY <1>1, <1>4, <1>5

\* The abstract window counts as this module does.
LEMMA SameCount ==
    ASSUME NEW S
    PROVE  Window!Cardinality(S) = Cardinality(S)
BY DEF Window!Cardinality, Cardinality

\* So that the abstract window hands on the same list.
LEMMA InOrderIs ==
    ASSUME NEW S, NEW f, Lists(f, S)
    PROVE  Window!InOrder(S) = f
<1> DEFINE rank(q) == Window!Cardinality({r \in S : r < q})
<1>1. /\ Window!Cardinality(S) = Len(f) /\ Len(f) \in Nat
      /\ \A i \in 1..Len(f) : f[i] \in S /\ rank(f[i]) = i - 1
  BY RankIs, SameCount
<1>2. f \in Seq(Int) /\ {f[i] : i \in 1..Len(f)} = S
  BY DEF Lists
<1> HIDE DEF rank
<1>3. ASSUME NEW i \in 1..Len(f)
      PROVE  (CHOOSE q \in S : rank(q) = i - 1) = f[i]
  <2>1. ASSUME NEW q \in S, rank(q) = i - 1
        PROVE  q = f[i]
    <3>1. PICK j \in 1..Len(f) : q = f[j]
      BY <1>2
    <3>2. j - 1 = i - 1
      BY <1>1, <2>1, <3>1
    <3> QED
      BY <3>1, <3>2
  <2> QED
    BY <1>1, <2>1
<1>4. Window!InOrder(S) = [i \in 1..Window!Cardinality(S) |-> CHOOSE q \in S : rank(q) = i - 1]
  BY DEF Window!InOrder, rank
<1>5. f = [i \in 1..Len(f) |-> f[i]]
  BY <1>2
<1> QED
  BY <1>1, <1>3, <1>4, <1>5

\* A finite set of positions can be listed in order: a position's place is the
\* number of positions before it, plus one.
LEMMA ListExists ==
    ASSUME NEW S, IsFiniteSet(S), S \subseteq Int
    PROVE  \E f : Lists(f, S)
<1> DEFINE n == Cardinality(S)
           below(x) == {y \in S : y < x}
           rank == [x \in S |-> Cardinality(below(x)) + 1]
<1>1. n \in Nat
  BY FS_CardinalityType
<1>2. ASSUME NEW x \in S
      PROVE  /\ IsFiniteSet(below(x)) /\ x \notin below(x)
             /\ Cardinality(below(x)) \in Nat /\ Cardinality(below(x)) < n
  <2>1. below(x) \in SUBSET S /\ x \notin below(x)
    OBVIOUS
  <2>2. IsFiniteSet(below(x)) /\ Cardinality(below(x)) <= n /\ below(x) # S
    BY <2>1, FS_Subset
  <2>3. Cardinality(below(x)) # n
    BY <2>1, <2>2, FS_Subset
  <2>4. Cardinality(below(x)) \in Nat
    BY <2>2, FS_CardinalityType
  <2> QED
    BY <1>1, <2>1, <2>2, <2>3, <2>4
<1>3. ASSUME NEW x \in S, NEW y \in S, x < y
      PROVE  rank[x] < rank[y]
  <2>1. below(x) \cup {x} \in SUBSET below(y)
    <3>1. \A z \in S : z \in Int /\ (z < x => z < y)
      BY <1>3
    <3> QED
      BY <1>3, <3>1
  <2>2. Cardinality(below(x) \cup {x}) = Cardinality(below(x)) + 1
    BY <1>2, FS_AddElement
  <2>3. Cardinality(below(x) \cup {x}) <= Cardinality(below(y))
    BY <1>2, <2>1, FS_Subset
  <2> HIDE DEF below
  <2> QED
    BY <1>2, <2>2, <2>3
<1>4. rank \in [S -> 1..n]
  <2>1. \A x \in S : Cardinality(below(x)) \in Nat /\ Cardinality(below(x)) < n
    BY <1>2
  <2> HIDE DEF below, n
  <2> QED
    BY <1>1, <2>1
<1> HIDE DEF rank, n
<1>5. \A x, y \in S : /\ rank[x] = rank[y] => x = y
                      /\ rank[x] < rank[y] => x < y
  <2> SUFFICES ASSUME NEW x \in S, NEW y \in S
               PROVE  (rank[x] = rank[y] => x = y) /\ (rank[x] < rank[y] => x < y)
    OBVIOUS
  <2>1. rank[x] \in Int /\ rank[y] \in Int /\ x \in Int /\ y \in Int
    BY <1>1, <1>4
  <2>2. (x < y => rank[x] < rank[y]) /\ (y < x => rank[y] < rank[x])
    BY <1>3
  <2> QED
    BY <2>1, <2>2
<1>6. rank \in Injection(S, 1..n)
  BY <1>4, <1>5 DEF Injection, IsInjective
<1>7. IsFiniteSet(1..n) /\ Cardinality(1..n) = n
  BY <1>1, FS_Interval
<1>8. rank \in Surjection(S, 1..n)
  BY <1>6, <1>7, FS_Injection DEF n
<1> DEFINE f == [k \in 1..n |-> CHOOSE x \in S : rank[x] = k]
<1>9. \A k \in 1..n : f[k] \in S /\ rank[f[k]] = k
  BY <1>8 DEF Surjection
<1>10. f \in [1..n -> S]
  BY <1>9
<1> HIDE DEF f
<1>11. f \in Seq(Int) /\ Len(f) = n
  <2>1. f \in [1..n -> Int]
    BY <1>10
  <2> QED
    BY <1>1, <2>1
<1>12. {f[i] : i \in 1..Len(f)} = S
  <2>1. ASSUME NEW x \in S
        PROVE  rank[x] \in 1..n /\ f[rank[x]] = x
    BY <1>4, <1>5, <1>9
  <2> QED
    BY <1>9, <1>11, <2>1
<1>13. \A i, j \in 1..Len(f) : i < j => f[i] < f[j]
  BY <1>5, <1>9, <1>11
<1> QED
  BY <1>11, <1>12, <1>13 DEF Lists

-----------------------------------------------------------------------------
(* push and flush.                                                         *)

\* A run of k positions from n is a list in order.
LEMMA RunListed ==
    ASSUME NEW n \in Int, NEW k \in Nat
    PROVE  Lists([j \in 1..k |-> n + j - 1], n..(n + k - 1))
<1> DEFINE f == [j \in 1..k |-> n + j - 1]
<1>1. f \in Seq(Int) /\ Len(f) = k
  BY f \in [1..k -> Int]
<1>2. \A j \in 1..k : f[j] = n + j - 1
  OBVIOUS
<1> HIDE DEF f
<1>3. {f[i] : i \in 1..Len(f)} = n..(n + k - 1)
  <2>1. \A i \in 1..k : f[i] \in n..(n + k - 1)
    BY <1>2
  <2>2. \A p \in n..(n + k - 1) : p - n + 1 \in 1..k /\ n + (p - n + 1) - 1 = p
    OBVIOUS
  <2>3. \A p \in n..(n + k - 1) : f[p - n + 1] = p
    BY <1>2, <2>2
  <2> QED
    BY <1>1, <2>1, <2>2, <2>3
<1>4. \A i, j \in 1..Len(f) : i < j => f[i] < f[j]
  BY <1>1, <1>2
<1>5. Lists(f, n..(n + k - 1))
  BY <1>1, <1>3, <1>4 DEF Lists
<1> QED
  BY <1>5 DEF f

\* Two lists, the second after the first, make one.
LEMMA ListsJoin ==
    ASSUME NEW f, NEW S, Lists(f, S), NEW g, NEW T, Lists(g, T), \A x \in S, y \in T : x < y
    PROVE  Lists(f \o g, S \cup T)
<1> DEFINE h == f \o g
           m == Len(f)
           l == Len(g)
<1>1. /\ f \in Seq(Int) /\ {f[i] : i \in 1..m} = S /\ m \in Nat
      /\ g \in Seq(Int) /\ {g[i] : i \in 1..l} = T /\ l \in Nat
      /\ \A i, j \in 1..m : i < j => f[i] < f[j]
      /\ \A i, j \in 1..l : i < j => g[i] < g[j]
  BY DEF Lists
<1>2. h \in Seq(Int) /\ Len(h) = m + l
  BY <1>1
<1>3. /\ \A i \in 1..m : i \in 1..Len(h) /\ h[i] = f[i]
      /\ \A i \in 1..l : m + i \in 1..Len(h) /\ h[m + i] = g[i]
  BY <1>1
<1>4. \A i \in 1..Len(h) : i \in 1..m \/ (i - m \in 1..l /\ m + (i - m) = i /\ i > m)
  BY <1>1, <1>2
<1> HIDE DEF h, m, l
<1>5. \A i \in 1..Len(h) : \/ i \in 1..m /\ h[i] = f[i] /\ f[i] \in S
                           \/ i > m /\ i - m \in 1..l /\ h[i] = g[i - m] /\ g[i - m] \in T
  BY <1>1, <1>3, <1>4
<1>6. {h[i] : i \in 1..Len(h)} = S \cup T
  <2>1. \A i \in 1..Len(h) : h[i] \in S \cup T
    BY <1>5
  <2>2. \A x \in S : \E i \in 1..Len(h) : h[i] = x
    BY <1>1, <1>3
  <2>3. \A x \in T : \E i \in 1..Len(h) : h[i] = x
    BY <1>1, <1>3
  <2> QED
    BY <2>1, <2>2, <2>3
<1>7. ASSUME NEW i \in 1..Len(h), NEW j \in 1..Len(h), i < j
      PROVE  h[i] < h[j]
  <2>1. CASE i \in 1..m /\ j \in 1..m
    BY <1>1, <1>3, <1>7, <2>1
  <2>2. CASE i \in 1..m /\ j > m
    <3>1. ~(i > m) /\ ~(j \in 1..m)
      BY <1>1, <2>2
    <3>2. h[i] \in S /\ h[j] \in T
      BY <1>5, <3>1
    <3> QED
      BY <3>2
  <2>3. CASE i > m /\ j > m
    <3>1. i - m \in 1..l /\ j - m \in 1..l /\ h[i] = g[i - m] /\ h[j] = g[j - m]
      BY <1>1, <1>5, <2>3
    <3>2. i - m < j - m
      BY <1>1, <1>2, <1>7
    <3> QED
      BY <1>1, <3>1, <3>2
  <2> QED
    BY <1>1, <1>2, <1>5, <1>7, <2>1, <2>2, <2>3
<1> QED
  BY <1>2, <1>6, <1>7 DEF Lists, h

\* The payloads that flush returns are all that are held, in order.
LEMMA FlushIs ==
    ASSUME NEW b, NEW H, NEW n, IsWindow(b, H, n)
    PROVE  Lists(FlushResult(b, SequenceOf(n)), H)
<1> DEFINE base == SequenceOf(n)
           d(u) == SeqDistance(base, u)
           nearer(u) == Cardinality({v \in DOMAIN b : d(v) < d(u)})
           keys == FlushOrder(b, base)
<1>1. n \in Int /\ \A p \in H : p \in Int /\ n <= p /\ p <= n + Half
  BY DEF IsWindow
<1>2. DOMAIN b = {SequenceOf(p) : p \in H} /\ \A p \in H : b[SequenceOf(p)] = p
  BY DEF IsWindow
<1>3. IsFiniteSet(H) /\ Cardinality(DOMAIN b) = Cardinality(H)
  BY CountIs
<1>4. PICK f : Lists(f, H)
  <2>1. H \subseteq Int
    BY <1>1
  <2> QED
    BY <1>3, <2>1, ListExists
<1>5. /\ Cardinality(H) = Len(f) /\ Len(f) \in Nat
      /\ \A i \in 1..Len(f) : f[i] \in H /\ Cardinality({r \in H : r < f[i]}) = i - 1
  BY <1>4, RankIs
<1>6. f \in Seq(Int) /\ {f[i] : i \in 1..Len(f)} = H
  BY <1>4 DEF Lists
<1>7. \A p \in H : d(SequenceOf(p)) = p - n
  BY <1>1, DistanceIs DEF Half
<1>8. keys = [i \in 1..Len(f) |-> CHOOSE s \in DOMAIN b : nearer(s) = i - 1]
  BY <1>3, <1>5 DEF FlushOrder
<1> HIDE DEF d
<1>9. ASSUME NEW i \in 1..Len(f)
      PROVE  nearer(SequenceOf(f[i])) = i - 1
  <2> DEFINE p == f[i]
             A == {r \in H : r < p}
             B == {v \in DOMAIN b : d(v) < d(SequenceOf(p))}
             g == [r \in A |-> SequenceOf(r)]
  <2>1. p \in H /\ Cardinality(A) = i - 1
    BY <1>5
  <2> HIDE DEF p
  <2>2. \A r \in H : d(SequenceOf(r)) < d(SequenceOf(p)) <=> r < p
    BY <1>1, <1>7, <2>1
  <2>3. g \in [A -> B]
    BY <1>2, <2>2
  <2>4. \A v \in B : \E r \in A : g[r] = v
    BY <1>2, <2>2
  <2>5. \A r, q \in A : g[r] = g[q] => r = q
    BY <1>2
  <2>6. IsFiniteSet(A)
    BY <1>3, FS_Subset
  <2> HIDE DEF g, A, B
  <2>7. g \in Bijection(A, B)
    BY <2>3, <2>4, <2>5 DEF Bijection, Injection, Surjection, IsInjective
  <2>8. Cardinality(B) = i - 1
    BY <2>1, <2>6, <2>7, FS_Bijection DEF ExistsBijection
  <2> QED
    BY <2>8 DEF B, p
<1> HIDE DEF nearer
<1>10. ASSUME NEW i \in 1..Len(f)
       PROVE  (CHOOSE s \in DOMAIN b : nearer(s) = i - 1) = SequenceOf(f[i])
  <2>1. SequenceOf(f[i]) \in DOMAIN b /\ nearer(SequenceOf(f[i])) = i - 1
    BY <1>2, <1>5, <1>9
  <2>2. ASSUME NEW s \in DOMAIN b, nearer(s) = i - 1
        PROVE  s = SequenceOf(f[i])
    <3>1. PICK j \in 1..Len(f) : s = SequenceOf(f[j])
      BY <1>2, <1>6
    <3>2. j - 1 = i - 1
      BY <1>9, <2>2, <3>1
    <3>3. j = i
      BY <3>2
    <3> QED
      BY <3>1, <3>3
  <2> QED
    BY <2>1, <2>2
<1>11. keys = [i \in 1..Len(f) |-> SequenceOf(f[i])]
  BY <1>8, <1>10
<1> HIDE DEF keys
<1>12. Len(keys) = Len(f) /\ \A i \in 1..Len(f) : b[keys[i]] = f[i]
  <2>1. Len(keys) = Len(f)
    BY <1>5, <1>11
  <2>2. \A i \in 1..Len(f) : keys[i] = SequenceOf(f[i]) /\ f[i] \in H
    BY <1>5, <1>11
  <2> QED
    BY <1>2, <2>1, <2>2
<1>13. FlushResult(b, base) = [i \in 1..Len(keys) |-> b[keys[i]]]
  BY DEF FlushResult, keys
<1>14. FlushResult(b, base) = [i \in 1..Len(f) |-> f[i]]
  BY <1>12, <1>13
<1>15. FlushResult(b, base) = f
  BY <1>6, <1>14
<1> QED
  BY <1>4, <1>15

\* What the abstract window hands on of S when p is due.
Gone(S, p) ==
    LET rest == S \ Window!RunFrom(S, p)
    IN  Window!RunFrom(S, p) \cup (IF Window!Cardinality(rest) > Capacity
                                   THEN Window!RunFrom(rest, Window!Min(rest)) ELSE {})

\* What a push that is not dropped comes to: the positions G leave, in order,
\* the position m is due, the others stay and are not too many.
Popped(r, H, n, G, m) ==
    /\ IsWindow(r.buffered, H \ G, m) /\ r.nextSeq = SequenceOf(m) /\ Lists(r.out, G)
    /\ G \subseteq H /\ m \in Int
    /\ IF G = {} THEN m = n ELSE m - 1 \in G /\ \A g \in G : g <= m - 1
    /\ Cardinality(H) <= Capacity + 1 => Cardinality(H \ G) <= Capacity

\* The popping loop takes the run that the abstract window takes.
LEMMA RunFromIs ==
    ASSUME NEW b, NEW H, NEW n, IsWindow(b, H, n), NEW k, Pops(b, H, n, k)
    PROVE  Window!RunFrom(H, n) = n..(n + k - 1)
<1>1. n \in Int /\ \A p \in H : p \in Int /\ n <= p
  BY DEF IsWindow
<1>2. k \in Nat /\ n + k \notin H /\ n..(n + k - 1) \subseteq H
  BY DEF Pops
<1>3. ASSUME NEW q \in n..(n + k - 1)
      PROVE  q \in H /\ q >= n /\ n..q \subseteq H
  <2>1. \A r \in n..q : r \in n..(n + k - 1)
    BY <1>1, <1>2
  <2> QED
    BY <1>1, <1>2, <2>1
<1>4. ASSUME NEW q \in H, q >= n, n..q \subseteq H
      PROVE  q \in n..(n + k - 1)
  <2>1. q \in Int /\ n + k \notin n..q
    BY <1>1, <1>2, <1>4
  <2> QED
    BY <1>1, <1>2, <1>4, <2>1
<1> QED
  BY <1>3, <1>4 DEF Window!RunFrom

\* The end of push, up to the run past a gap.
LEMMA PopIs ==
    ASSUME NEW b, NEW H, NEW n, IsWindow(b, H, n)
    PROVE  \E m : Popped(Pop(b, SequenceOf(n)), H, n, Gone(H, n), m)
<1>1. PICK k \in Nat : Pops(b, H, n, k)
  BY RunIs
<1> DEFINE b1 == WithoutRun(b, SequenceOf(n))
           F  == n..(n + k - 1)
           H1 == H \ F
           r  == Pop(b, SequenceOf(n))
<1>2. /\ n + k \notin H /\ F \subseteq H
      /\ Run(b, SequenceOf(n)) = [j \in 1..k |-> n + j - 1]
      /\ AfterRun(b, SequenceOf(n)) = SequenceOf(n + k)
      /\ IsWindow(b1, H1, n + k)
  BY <1>1 DEF Pops
<1>3. n \in Int /\ \A p \in H : p \in Int
  BY DEF IsWindow
<1>4. /\ Cardinality(DOMAIN b1) = Cardinality(H1) /\ IsFiniteSet(H1) /\ Cardinality(H1) \in Nat
      /\ IsFiniteSet(H) /\ Cardinality(H) \in Nat
  BY <1>2, CountIs
<1>5. Lists(Run(b, SequenceOf(n)), F)
  BY <1>2, <1>3, RunListed
<1>6. Window!RunFrom(H, n) = F
  BY <1>1, RunFromIs
<1>7. Gone(H, n) = F \cup (IF Cardinality(H1) > Capacity
                           THEN Window!RunFrom(H1, Window!Min(H1)) ELSE {})
  BY <1>6, SameCount DEF Gone
<1>8. Capacity \in Nat /\ Capacity > 0
  BY WindowAssumption
<1> HIDE DEF b1, H1
<1>9. CASE ~(Cardinality(H1) > Capacity)
  <2>1. r = [buffered |-> b1, nextSeq |-> SequenceOf(n + k), out |-> Run(b, SequenceOf(n))]
    BY <1>2, <1>4, <1>9 DEF Pop, TooMany, b1
  <2>2. r.buffered = b1 /\ r.nextSeq = SequenceOf(n + k) /\ r.out = Run(b, SequenceOf(n))
    BY <2>1
  <2>3. Gone(H, n) = F
    BY <1>7, <1>9
  <2>4. IF F = {} THEN n + k = n ELSE n + k - 1 \in F /\ \A g \in F : g <= n + k - 1
    BY <1>1, <1>3
  <2>5. n + k \in Int /\ Cardinality(H1) <= Capacity
    BY <1>1, <1>3, <1>4, <1>8, <1>9
  <2> HIDE DEF r
  <2>6. Popped(r, H, n, Gone(H, n), n + k)
    <3>1. H \ F = H1
      BY DEF H1
    <3> DEFINE m == n + k
    <3> HIDE DEF F
    <3>2. IsWindow(b1, H1, m) /\ F \subseteq H /\ m \in Int
      BY <1>2, <2>5
    <3>3. IF F = {} THEN m = n ELSE m - 1 \in F /\ \A g \in F : g <= m - 1
      BY <1>1, <1>3, <2>4
    <3>4. r.nextSeq = SequenceOf(m)
      BY <2>2
    <3> HIDE DEF m
    <3>5. Popped(r, H, n, Gone(H, n), m)
      BY <1>5, <2>2, <2>3, <2>5, <3>1, <3>2, <3>3, <3>4 DEF Popped
    <3> QED
      BY <3>5 DEF m
  <2> QED
    BY <2>6 DEF r
<1>10. CASE Cardinality(H1) > Capacity
  <2>1. H1 # {}
    BY <1>4, <1>8, <1>10, FS_EmptySet
  <2>2. PICK m1 \in H1 : /\ \A q \in H1 : m1 <= q
                         /\ Nearest(b1, SequenceOf(n + k)) = SequenceOf(m1)
                         /\ IsWindow(b1, H1, m1)
    BY <1>2, <2>1, NearestIs
  <2>3. PICK l \in Nat : Pops(b1, H1, m1, l)
    BY <2>2, RunIs
  <2> DEFINE b2 == WithoutRun(b1, SequenceOf(m1))
             L  == m1..(m1 + l - 1)
             G  == F \cup L
             m  == m1 + l
  <2>4. /\ m \notin H1 /\ L \subseteq H1
        /\ Run(b1, SequenceOf(m1)) = [j \in 1..l |-> m1 + j - 1]
        /\ AfterRun(b1, SequenceOf(m1)) = SequenceOf(m)
        /\ IsWindow(b2, H1 \ L, m)
    BY <2>3 DEF Pops
  <2>5. m1 \in Int /\ m1 >= n + k /\ l > 0
    <3>1. m1 \in Int /\ n + k \in Int /\ n + k <= m1
      BY <1>2 DEF IsWindow
    <3>2. l # 0
      BY <2>4, <3>1
    <3> QED
      BY <3>1, <3>2
  <2>6. Window!RunFrom(H1, Window!Min(H1)) = L
    <3>1. Window!Min(H1) = m1
      <4>1. \A x \in H1 : x \in Int
        BY <1>3 DEF H1
      <4>2. \A x \in H1 : (\A y \in H1 : x <= y) => x = m1
        BY <2>2, <4>1
      <4> QED
        BY <2>2, <4>2 DEF Window!Min
    <3> QED
      BY <2>2, <2>3, <3>1, RunFromIs
  <2>7. Gone(H, n) = G
    BY <1>7, <1>10, <2>6
  <2>8. Lists(Run(b1, SequenceOf(m1)), L)
    BY <2>4, <2>5, RunListed
  <2>9. Lists(Run(b, SequenceOf(n)) \o Run(b1, SequenceOf(m1)), G)
    <3>1. \A x \in F, y \in L : x < y
      BY <1>1, <1>3, <2>5
    <3> HIDE DEF F, L
    <3> QED
      BY <1>5, <2>8, <3>1, ListsJoin
  <2>10. r = [buffered |-> b2, nextSeq |-> SequenceOf(m),
              out |-> Run(b, SequenceOf(n)) \o Run(b1, SequenceOf(m1))]
    BY <1>2, <1>4, <1>10, <2>2, <2>4 DEF Pop, TooMany, b1
  <2> HIDE DEF r
  <2>11. /\ r.buffered = b2 /\ r.nextSeq = SequenceOf(m)
         /\ r.out = Run(b, SequenceOf(n)) \o Run(b1, SequenceOf(m1))
    BY <2>10
  <2>12. m \in Int /\ m - 1 \in L /\ \A g \in G : g <= m - 1
    <3>1. \A g \in F : g \in Int /\ g <= n + k - 1
      BY <1>3
    <3>2. \A g \in L : g <= m1 + l - 1
      BY <2>5
    <3> QED
      BY <1>1, <1>3, <2>5, <3>1, <3>2
  <2>13. H1 \ L = H \ G /\ G \subseteq H
    BY <1>2, <2>4 DEF H1
  <2>14. Cardinality(H) <= Capacity + 1 => Cardinality(H \ G) <= Capacity
    <3>1. m1 \in L /\ m1 \in H /\ m1 \notin H \ G
      BY <2>4, <2>5 DEF H1
    <3>2. IsFiniteSet(H \ {m1}) /\ Cardinality(H \ {m1}) = Cardinality(H) - 1
      BY <1>4, <3>1, FS_RemoveElement
    <3>3. H \ G \in SUBSET (H \ {m1})
      BY <3>1
    <3>4. Cardinality(H \ G) <= Cardinality(H \ {m1}) /\ Cardinality(H \ G) \in Nat
      <4> HIDE DEF G
      <4> QED
        BY <3>2, <3>3, FS_Subset, FS_CardinalityType
    <3> QED
      BY <1>4, <1>8, <3>2, <3>4
  <2>15. Popped(r, H, n, Gone(H, n), m)
    <3>1. G # {} /\ m - 1 \in G
      BY <2>12
    <3> HIDE DEF G, L, F, m, b2
    <3> QED
      BY <2>4, <2>7, <2>9, <2>11, <2>12, <2>13, <2>14, <3>1 DEF Popped
  <2> QED
    BY <2>15 DEF r
<1> QED
  BY <1>9, <1>10

\* push of a packet that is not too late; before the first packet its own
\* position is due.
LEMMA PushIs ==
    ASSUME NEW b, NEW H, NEW n, IsWindow(b, H, n), NEW p \in Int, n <= p, p <= n + Half,
           NEW x, x = SequenceOf(n) \/ (x = -1 /\ p = n)
    PROVE  \E m : Popped(PushResult(b, x, SequenceOf(p), p), H \cup {p}, n, Gone(H \cup {p}, n), m)
<1>1. n \in Int
  BY DEF IsWindow
<1>2. SequenceOf(n) # -1
  BY <1>1, SequenceType
<1>3. ~SeqLess(SequenceOf(p), SequenceOf(n))
  BY <1>1, SeqLessIs DEF Half
<1>4. PushResult(b, x, SequenceOf(p), p) = Pop(Stored(b, SequenceOf(p), p), SequenceOf(n))
  BY <1>2, <1>3 DEF PushResult
<1>5. IsWindow(Stored(b, SequenceOf(p), p), H \cup {p}, n)
  BY StoredIs
<1> QED
  BY <1>4, <1>5, PopIs

\* push of a packet that comes too late.
LEMMA DropIs ==
    ASSUME NEW b, NEW n \in Int, NEW p \in Int, p < n, p - n > -Half
    PROVE  PushResult(b, SequenceOf(n), SequenceOf(p), p) =
               [buffered |-> b, nextSeq |-> SequenceOf(n), out |-> <<>>]
<1>1. SequenceOf(n) # -1
  BY SequenceType
<1>2. SeqLess(SequenceOf(p), SequenceOf(n))
  BY SeqLessIs DEF Half
<1> QED
  BY <1>1, <1>2 DEF PushResult

-----------------------------------------------------------------------------
(* The inductive invariant.                                                *)

Typed ==
    /\ emitted \in Seq(Int) /\ pushed \in Nat /\ flushed \in BOOLEAN /\ accepted \subseteq Int
    /\ nextSeq \in Int /\ -1 <= nextSeq /\ nextSeq <= 65535

\* Until the stream is over the buffer is the window of the positions it holds,
\* and _next_seq is the number of the one that is due.
Windowed ==
    /\ flushed => buffered = <<>>
    /\ ~flushed => /\ IsWindow(buffered, Held, Due) /\ Cardinality(Held) <= Capacity
                   /\ nextSeq = IF emitted = <<>> THEN -1 ELSE SequenceOf(Due)
                   /\ emitted = <<>> => Held = {}

IInv == Typed /\ Windowed /\ StreamDelivered

Sent == {emitted[i] : i \in 1..Len(emitted)}

\* The last of a list is the greatest.
LEMMA LastIs ==
    ASSUME NEW f, NEW S, Lists(f, S), f # <<>>
    PROVE  Last(f) \in S /\ Last(f) \in Int /\ \A x \in S : x <= Last(f)
<1>1. /\ f \in Seq(Int) /\ {f[i] : i \in 1..Len(f)} = S
      /\ \A i, j \in 1..Len(f) : i < j => f[i] < f[j]
  BY DEF Lists
<1>2. Len(f) \in 1..Len(f) /\ Len(f) \in Nat /\ \A i \in 1..Len(f) : f[i] \in Int
  BY <1>1
<1>3. ASSUME NEW i \in 1..Len(f)
      PROVE  f[i] <= f[Len(f)]
  <2>1. i = Len(f) \/ i < Len(f)
    BY <1>2
  <2>2. f[i] \in Int /\ f[Len(f)] \in Int
    BY <1>2
  <2> QED
    BY <1>1, <1>2, <2>1, <2>2
<1> QED
  BY <1>1, <1>2, <1>3 DEF Last

\* What was handed on is a list, and all of it is before what is due.
LEMMA SentIs ==
    ASSUME Typed, StreamDelivered
    PROVE  /\ Lists(emitted, Sent) /\ Due \in Int /\ \A x \in Sent : x < Due
           /\ emitted = <<>> => Due = 0 /\ Sent = {}
<1>1. Lists(emitted, Sent)
  BY DEF Typed, StreamDelivered, Lists, Sent
<1>2. CASE emitted = <<>>
  BY <1>1, <1>2 DEF Due, Sent
<1>3. CASE emitted # <<>>
  <2>1. Last(emitted) \in Int /\ \A x \in Sent : x \in Int /\ x <= Last(emitted)
    BY <1>1, <1>3, LastIs, RankIs
  <2>2. Due = Last(emitted) + 1
    BY <1>3 DEF Due
  <2> QED
    BY <1>1, <1>3, <2>1, <2>2
<1> QED
  BY <1>2, <1>3

\* Handing on a list of later positions.
LEMMA HandOn ==
    ASSUME Typed, StreamDelivered, NEW o, NEW G, Lists(o, G), \A g \in G : g >= Due,
           emitted' = emitted \o o
    PROVE  /\ Lists(emitted', Sent') /\ Sent' = Sent \cup G /\ emitted' \in Seq(Int)
           /\ G = {} => emitted' = emitted /\ Due' = Due
           /\ G # {} => emitted' # <<>> /\ Due' - 1 \in G /\ Due' \in Int
                        /\ \A g \in G : g <= Due' - 1
<1>1. Lists(emitted, Sent) /\ Due \in Int /\ \A x \in Sent : x < Due
  BY SentIs
<1>2. /\ Cardinality(G) = Len(o) /\ G \subseteq Int /\ o \in Seq(Int) /\ emitted \in Seq(Int)
      /\ Sent \subseteq Int
  BY <1>1, RankIs DEF Lists
<1>3. Lists(emitted', Sent \cup G)
  <2>1. \A x \in Sent, y \in G : x < y
    BY <1>1, <1>2
  <2> QED
    BY <1>1, <2>1, ListsJoin
<1>4. Sent' = Sent \cup G /\ emitted' \in Seq(Int)
  BY <1>3 DEF Lists, Sent
<1>5. CASE G = {}
  <2>1. o = <<>>
    BY <1>2, <1>5, FS_EmptySet
  <2>2. emitted' = emitted
    BY <1>2, <2>1
  <2> QED
    BY <1>3, <1>4, <1>5, <2>2 DEF Due
<1>6. CASE G # {}
  <2>1. emitted' # <<>>
    <3>1. PICK g \in G : TRUE
      BY <1>6
    <3>2. \E i \in 1..Len(emitted') : emitted'[i] = g
      BY <1>4 DEF Sent
    <3> QED
      BY <1>4, <3>2
  <2>2. Last(emitted') \in Sent \cup G /\ Last(emitted') \in Int
        /\ \A x \in Sent \cup G : x <= Last(emitted')
    BY <1>3, <2>1, LastIs
  <2>3. Due' = Last(emitted') + 1
    BY <2>1 DEF Due
  <2>4. Last(emitted') \in G
    <3>1. PICK g \in G : TRUE
      BY <1>6
    <3>2. g \in Int /\ g >= Due /\ g <= Last(emitted')
      BY <1>2, <2>2
    <3>3. Last(emitted') \notin Sent
      BY <1>1, <2>2, <3>2
    <3> QED
      BY <2>2, <3>3
  <2>5. Due' - 1 = Last(emitted')
    BY <2>2, <2>3
  <2> QED
    BY <1>3, <1>4, <1>6, <2>1, <2>2, <2>3, <2>4, <2>5
<1> QED
  BY <1>5, <1>6

\* The greatest of a set.
LEMMA MaxIs ==
    ASSUME NEW G, G \subseteq Int, NEW x \in G, \A g \in G : g <= x
    PROVE  Window!Max(G) = x
<1>1. \A y \in G : (\A g \in G : y >= g) => y = x
  BY SMT
<1> QED
  BY <1>1 DEF Window!Max

\* What push does with a packet that is not too late.
Takes(p) ==
    LET S == Held \cup {p}
        G == Gone(S, Due)
    IN  /\ Held' = S \ G /\ emitted' = emitted \o Window!InOrder(G)
        /\ emitted' # <<>> /\ Due' = IF G = {} THEN Due ELSE Window!Max(G) + 1
        /\ p \in accepted' /\ IInv'

\* The packet is stored and the runs that are due leave.
LEMMA PushTakes ==
    ASSUME IInv, NEW p \in Int, Push(p), p >= Due, p <= Due + Half,
           nextSeq = -1 => p = 0
    PROVE  Takes(p)
<1> DEFINE n == Due
           S == Held \cup {p}
           G == Gone(S, n)
           r == PushResult(buffered, nextSeq, SequenceOf(p), p)
<1>1. /\ ~flushed /\ flushed' = flushed /\ pushed' = pushed + 1
      /\ buffered' = r.buffered /\ nextSeq' = r.nextSeq /\ emitted' = emitted \o r.out
      /\ accepted' = accepted \cup {p}
  BY DEF Push
<1>2. Typed /\ Windowed /\ StreamDelivered
  BY DEF IInv
<1>3. /\ IsWindow(buffered, Held, n) /\ Cardinality(Held) <= Capacity
      /\ nextSeq = IF emitted = <<>> THEN -1 ELSE SequenceOf(n)
      /\ emitted = <<>> => Held = {}
  BY <1>1, <1>2 DEF Windowed
<1>4. /\ Lists(emitted, Sent) /\ n \in Int /\ (\A x \in Sent : x < n)
      /\ emitted = <<>> => n = 0 /\ Sent = {}
  BY <1>2, SentIs
<1>5. nextSeq = SequenceOf(n) \/ (nextSeq = -1 /\ p = n)
  BY <1>3, <1>4
<1> HIDE DEF n
<1>6. PICK m : Popped(r, S, n, G, m)
  BY <1>3, <1>4, <1>5, PushIs DEF n
<1>7. /\ IsWindow(r.buffered, S \ G, m) /\ r.nextSeq = SequenceOf(m) /\ Lists(r.out, G)
      /\ G \subseteq S /\ m \in Int
      /\ IF G = {} THEN m = n ELSE m - 1 \in G /\ \A g \in G : g <= m - 1
      /\ Cardinality(S) <= Capacity + 1 => Cardinality(S \ G) <= Capacity
  BY <1>6 DEF Popped
<1>8. \A g \in S : g \in Int /\ g >= n
  BY <1>3 DEF IsWindow, n
<1>9. emitted = <<>> => G # {}
  <2> SUFFICES ASSUME emitted = <<>>
               PROVE  n \in G
    OBVIOUS
  <2>1. p = n
    BY <1>3, <1>4
  <2>2. n \in S /\ n..n = {n} /\ n >= n
    BY <1>4, <2>1
  <2> QED
    BY <2>2 DEF Gone, Window!RunFrom
<1> HIDE DEF r, S, G
<1>10. /\ Lists(emitted', Sent') /\ Sent' = Sent \cup G /\ emitted' \in Seq(Int)
       /\ G = {} => emitted' = emitted /\ Due' = n
       /\ G # {} => emitted' # <<>> /\ Due' - 1 \in G /\ Due' \in Int
                    /\ \A g \in G : g <= Due' - 1
  <2>1. \A g \in G : g >= Due
    BY <1>7, <1>8 DEF n
  <2> QED
    BY <1>1, <1>2, <1>7, <2>1, HandOn DEF n
<1>11. emitted' # <<>>
  BY <1>9, <1>10
<1>12. Due' = m
  <2>1. CASE G = {}
    BY <1>7, <1>10, <2>1
  <2>2. CASE G # {}
    <3>1. m - 1 <= Due' - 1 /\ Due' - 1 <= m - 1 /\ Due' \in Int /\ m \in Int
      BY <1>7, <1>10, <2>2
    <3>2. \A x, y \in Int : x - 1 <= y - 1 /\ y - 1 <= x - 1 => x = y
      OBVIOUS
    <3> QED
      BY <3>1, <3>2
  <2> QED
    BY <2>1, <2>2
<1>13. Held' = S \ G
  <2>1. Held' = {r.buffered[s] : s \in DOMAIN r.buffered}
    BY <1>1 DEF Held
  <2> QED
    BY <1>7, <2>1, CountIs
<1>14. r.out = Window!InOrder(G)
  BY <1>7, InOrderIs
<1>15. G # {} => Due' = Window!Max(G) + 1
  <2> SUFFICES ASSUME G # {}
               PROVE  Due' = Window!Max(G) + 1
    OBVIOUS
  <2>1. m - 1 \in G /\ (\A g \in G : g <= m - 1) /\ G \subseteq Int
    BY <1>7, <1>8
  <2>2. Window!Max(G) = m - 1
    BY <2>1, MaxIs
  <2> QED
    BY <1>7, <1>12, <2>2
<1>16. Typed'
  <2>1. nextSeq' \in Int /\ -1 <= nextSeq' /\ nextSeq' <= 65535
    BY <1>1, <1>7, SequenceType
  <2> QED
    BY <1>1, <1>2, <1>10, <2>1 DEF Typed
<1>17. Windowed'
  <2>1. Cardinality(S \ G) <= Capacity
    <3>1. IsFiniteSet(Held) /\ Cardinality(Held) \in Nat
      BY <1>3, CountIs
    <3>2. Cardinality(S) <= Cardinality(Held) + 1 /\ Cardinality(S) \in Nat
      <4>1. Cardinality(S) = Cardinality(Held) \/ Cardinality(S) = Cardinality(Held) + 1
        BY <3>1, FS_AddElement DEF S
      <4> QED
        BY <3>1, <4>1
    <3>3. Cardinality(S) <= Capacity + 1
      BY <1>3, <3>1, <3>2, WindowAssumption
    <3> QED
      BY <1>7, <3>3
  <2>2. IsWindow(buffered', Held', Due') /\ nextSeq' = SequenceOf(Due')
    BY <1>1, <1>7, <1>12, <1>13
  <2>3. ~flushed'
    BY <1>1
  <2> QED
    BY <1>11, <1>13, <2>1, <2>2, <2>3 DEF Windowed, IsWindow, SequenceOf
<1>18. StreamDelivered'
  <2>1. \A i, j \in 1..Len(emitted') : i < j => emitted'[i] < emitted'[j]
    BY <1>10 DEF Lists
  <2>2. accepted = Sent \cup Held
    BY <1>2 DEF StreamDelivered, Sent
  <2>3. accepted' = Sent' \cup Held'
    BY <1>1, <1>7, <1>10, <1>13, <2>2 DEF S
  <2>4. ~flushed'
    BY <1>1
  <2> QED
    BY <2>1, <2>3, <2>4 DEF StreamDelivered, Sent
<1> QED
  BY <1>1, <1>10, <1>11, <1>13, <1>14, <1>15, <1>16, <1>17, <1>18 DEF Takes, IInv, n, S, G

\* A packet that comes too late changes nothing but the count.
LEMMA PushDrops ==
    ASSUME IInv, NEW p \in Int, Push(p), p < Due, p - Due > -Half, nextSeq # -1
    PROVE  UNCHANGED <<buffered, nextSeq, emitted, accepted, flushed>> /\ IInv'
<1>1. Typed /\ Windowed /\ StreamDelivered
  BY DEF IInv
<1>2. Due \in Int
  BY <1>1, SentIs
<1>3. ~flushed /\ nextSeq = SequenceOf(Due)
  BY <1>1 DEF Push, Windowed
<1> DEFINE r == PushResult(buffered, nextSeq, SequenceOf(p), p)
<1>4. r = [buffered |-> buffered, nextSeq |-> nextSeq, out |-> <<>>]
  BY <1>2, <1>3, DropIs
<1>5. /\ pushed' = pushed + 1 /\ flushed' = flushed /\ accepted' = accepted
      /\ buffered' = r.buffered /\ nextSeq' = r.nextSeq /\ emitted' = emitted \o r.out
  <2>1. ~(p >= Due)
    BY <1>2
  <2> QED
    BY <2>1 DEF Push
<1> HIDE DEF r
<1>6. /\ buffered' = buffered /\ nextSeq' = nextSeq /\ emitted' = emitted
      /\ accepted' = accepted /\ flushed' = flushed /\ pushed' = pushed + 1
  BY <1>1, <1>4, <1>5 DEF Typed
<1>7. Held' = Held /\ Due' = Due
  BY <1>6 DEF Held, Due
<1>8. Typed'
  BY <1>1, <1>6 DEF Typed
<1>9. Windowed'
  BY <1>1, <1>6, <1>7 DEF Windowed, IsWindow, SequenceOf
<1>10. StreamDelivered'
  BY <1>1, <1>6, <1>7 DEF StreamDelivered
<1> QED
  BY <1>6, <1>8, <1>9, <1>10 DEF IInv

\* Flushing hands on all that is held.
LEMMA FlushEmpties ==
    ASSUME IInv, Flush
    PROVE  /\ Held' = {} /\ emitted # <<>> /\ emitted' # <<>>
           /\ emitted' = IF Held = {} THEN emitted ELSE emitted \o Window!InOrder(Held)
           /\ Held # {} => Due' = Window!Max(Held) + 1
           /\ Held = {} => Due' = Due
           /\ IInv'
<1>1. Typed /\ Windowed /\ StreamDelivered
  BY DEF IInv
<1> DEFINE o == FlushResult(buffered, nextSeq)
<1>2. /\ ~flushed /\ nextSeq # -1 /\ emitted' = emitted \o o
      /\ buffered' = <<>> /\ flushed' = TRUE /\ nextSeq' = nextSeq
      /\ accepted' = accepted /\ pushed' = pushed
  BY DEF Flush
<1>3. IsWindow(buffered, Held, Due) /\ nextSeq = SequenceOf(Due) /\ emitted # <<>>
  BY <1>1, <1>2 DEF Windowed
<1>4. Lists(o, Held)
  BY <1>3, FlushIs
<1> HIDE DEF o
<1>5. \A g \in Held : g \in Int /\ g >= Due
  BY <1>3 DEF IsWindow
<1>6. /\ Lists(emitted', Sent') /\ Sent' = Sent \cup Held /\ emitted' \in Seq(Int)
      /\ Held = {} => emitted' = emitted /\ Due' = Due
      /\ Held # {} => emitted' # <<>> /\ Due' - 1 \in Held /\ Due' \in Int
                      /\ \A g \in Held : g <= Due' - 1
  BY <1>1, <1>2, <1>4, <1>5, HandOn
<1>7. Held' = {}
  BY <1>2 DEF Held
<1>8. o = Window!InOrder(Held)
  BY <1>4, InOrderIs
<1>9. Held # {} => Due' = Window!Max(Held) + 1
  <2> SUFFICES ASSUME Held # {}
               PROVE  Due' = Window!Max(Held) + 1
    OBVIOUS
  <2>1. Due' - 1 \in Held /\ (\A g \in Held : g <= Due' - 1) /\ Held \subseteq Int /\ Due' \in Int
    BY <1>5, <1>6
  <2>2. Window!Max(Held) = Due' - 1
    BY <2>1, MaxIs
  <2>3. \A x \in Int : x = x - 1 + 1
    OBVIOUS
  <2> QED
    BY <2>1, <2>2, <2>3
<1>10. Typed'
  BY <1>1, <1>2, <1>6 DEF Typed
<1>11. Windowed'
  BY <1>2 DEF Windowed
<1>12. StreamDelivered'
  <2>1. \A i, j \in 1..Len(emitted') : i < j => emitted'[i] < emitted'[j]
    BY <1>6 DEF Lists
  <2>2. accepted = Sent \cup Held
    BY <1>1 DEF StreamDelivered, Sent
  <2>3. accepted' = Sent' \cup Held'
    BY <1>2, <1>6, <1>7, <2>2
  <2> QED
    BY <1>7, <2>1, <2>3 DEF StreamDelivered, Sent
<1> QED
  BY <1>2, <1>3, <1>6, <1>7, <1>8, <1>9, <1>10, <1>11, <1>12 DEF IInv

-----------------------------------------------------------------------------
(* The theorems.                                                           *)

\* The steps of the buffer: a packet is taken, or dropped without a trace, or
\* the buffer is emptied.
LEMMA StepIs ==
    ASSUME IInv, Next
    PROVE  \/ \E p \in Int : p >= Due /\ (emitted = <<>> => p = Due) /\ Takes(p)
           \/ Flush
           \/ UNCHANGED <<buffered, nextSeq, emitted, accepted, flushed>> /\ IInv'
<1>1. Typed /\ Windowed /\ StreamDelivered
  BY DEF IInv
<1>2. Due \in Int /\ (emitted = <<>> => Due = 0)
  BY <1>1, SentIs
<1>3. CASE nextSeq = -1 /\ Push(0)
  <2>1. ~flushed
    BY <1>3 DEF Push
  <2>2. emitted = <<>>
    BY <1>1, <1>2, <1>3, <2>1, SequenceType DEF Windowed
  <2>3. 0 >= Due /\ 0 <= Due + Half
    BY <1>2, <2>2 DEF Half
  <2>4. Takes(0)
    BY <1>3, <2>3, PushTakes
  <2> QED
    BY <1>2, <2>2, <2>3, <2>4
<1>4. ASSUME nextSeq # -1, NEW d \in Offsets, Push(Due + d)
      PROVE  \/ \E p \in Int : p >= Due /\ (emitted = <<>> => p = Due) /\ Takes(p)
             \/ UNCHANGED <<buffered, nextSeq, emitted, accepted, flushed>> /\ IInv'
  <2> DEFINE p == Due + d
  <2>1. d \in Int /\ d > -Half /\ d <= Half
    <3>1. Half \in Int
      BY DEF Half
    <3> QED
      BY <3>1, JitterAssumption
  <2>2. /\ p \in Int /\ (p >= Due \/ p < Due) /\ p <= Due + Half /\ p - Due > -Half
    BY <1>2, <2>1 DEF Half
  <2>3. emitted # <<>>
    BY <1>1, <1>4 DEF Push, Windowed
  <2> HIDE DEF p
  <2>4. CASE p >= Due
    BY <1>4, <2>2, <2>3, <2>4, PushTakes DEF p
  <2>5. CASE p < Due
    BY <1>4, <2>2, <2>5, PushDrops DEF p
  <2> QED
    BY <2>2, <2>4, <2>5
<1>5. CASE Over
  <2>1. /\ buffered' = buffered /\ nextSeq' = nextSeq /\ emitted' = emitted
        /\ accepted' = accepted /\ flushed' = flushed /\ pushed' = pushed
    BY <1>5 DEF Over, vars
  <2>2. Held' = Held /\ Due' = Due
    BY <2>1 DEF Held, Due
  <2>3. Typed'
    BY <1>1, <2>1 DEF Typed
  <2>4. Windowed'
    BY <1>1, <2>1, <2>2 DEF Windowed, IsWindow, SequenceOf
  <2>5. StreamDelivered'
    BY <1>1, <2>1, <2>2 DEF StreamDelivered
  <2> QED
    BY <2>1, <2>3, <2>4, <2>5 DEF IInv
<1> QED
  BY <1>3, <1>4, <1>5 DEF Next

\* Before the first packet nothing is held and position 0 is due.
LEMMA Initially == Init => IInv
<1> SUFFICES ASSUME Init
             PROVE  IInv
  OBVIOUS
<1>1. /\ buffered = <<>> /\ nextSeq = -1 /\ emitted = <<>>
      /\ accepted = {} /\ pushed = 0 /\ flushed = FALSE
  BY DEF Init
<1>2. Held = {} /\ Due = 0 /\ DOMAIN buffered = {}
  BY <1>1 DEF Held, Due
<1>3. Typed
  <2>1. nextSeq \in Int /\ -1 <= nextSeq /\ nextSeq <= 65535
    BY <1>1
  <2>2. emitted \in Seq(Int) /\ pushed \in Nat
    BY <1>1
  <2>3. flushed \in BOOLEAN /\ accepted \subseteq Int
    BY <1>1, Zenon
  <2> QED
    BY <2>1, <2>2, <2>3 DEF Typed
<1>4. Windowed
  <2>1. IsWindow(buffered, {}, 0)
    BY <1>2 DEF IsWindow
  <2>2. Cardinality({}) <= Capacity
    BY FS_EmptySet, WindowAssumption
  <2> QED
    BY <1>1, <1>2, <2>1, <2>2 DEF Windowed
<1>5. StreamDelivered
  BY <1>1, <1>2 DEF StreamDelivered
<1> QED
  BY <1>3, <1>4, <1>5 DEF IInv

\* Every step keeps the invariant.
LEMMA NextKeeps == IInv /\ [Next]_vars => IInv'
<1> SUFFICES ASSUME IInv, [Next]_vars
             PROVE  IInv'
  OBVIOUS
<1>1. CASE Next
  BY <1>1, StepIs, FlushEmpties DEF Takes
<1>2. CASE UNCHANGED vars
  <2>1. /\ buffered' = buffered /\ nextSeq' = nextSeq /\ emitted' = emitted
        /\ accepted' = accepted /\ flushed' = flushed /\ pushed' = pushed
    BY <1>2 DEF vars
  <2>2. Held' = Held /\ Due' = Due
    BY <2>1 DEF Held, Due
  <2>3. Typed'
    BY <2>1 DEF IInv, Typed
  <2>4. Windowed'
    BY <2>1, <2>2 DEF IInv, Windowed, IsWindow, SequenceOf
  <2>5. StreamDelivered'
    BY <2>1, <2>2 DEF IInv, StreamDelivered
  <2> QED
    BY <2>3, <2>4, <2>5 DEF IInv
<1> QED
  BY <1>1, <1>2

\* The invariant holds throughout.
THEOREM Invariance == Spec => []IInv
<1> QED
  BY Initially, NextKeeps, PTL DEF Spec

\* The reorder window is bounded by its capacity and keyed by 16-bit numbers.
THEOREM TypeCorrect == Spec => []TypeOK
<1>1. ASSUME IInv
      PROVE  TypeOK
  <2> DEFINE top == 2 * Half - 1
  <2>1. Typed /\ Windowed
    BY <1>1 DEF IInv
  <2>2. top \in Int /\ nextSeq <= top /\ \A p \in Int : SequenceOf(p) <= top
    BY <2>1, SequenceType DEF Half, Typed
  <2> HIDE DEF top
  <2>3. nextSeq \in -1..top
    BY <2>1, <2>2 DEF Typed
  <2>4. /\ DOMAIN buffered \subseteq 0..top /\ Held \subseteq Int
        /\ Cardinality(DOMAIN buffered) <= Capacity
    <3>1. CASE flushed
      <4>1. DOMAIN buffered = {} /\ Held = {}
        BY <2>1, <3>1 DEF Windowed, Held
      <4>2. Cardinality({}) <= Capacity
        BY FS_EmptySet, WindowAssumption
      <4> QED
        BY <4>1, <4>2
    <3>2. CASE ~flushed
      <4>1. IsWindow(buffered, Held, Due) /\ Cardinality(Held) <= Capacity
        BY <2>1, <3>2 DEF Windowed
      <4>2. DOMAIN buffered = {SequenceOf(p) : p \in Held} /\ \A p \in Held : p \in Int
        BY <4>1 DEF IsWindow
      <4>3. \A p \in Int : SequenceOf(p) \in 0..top
        BY <2>2, SequenceType
      <4> QED
        BY <4>1, <4>2, <4>3, CountIs
    <3> QED
      BY <3>1, <3>2
  <2> QED
    BY <2>1, <2>3, <2>4 DEF TypeOK, Typed, top
<1> QED
  BY <1>1, Invariance, PTL

\* However packets are reordered, repeated or lost and wherever the numbers
\* wrap, payloads come out in order and once, and none that was in time is lost.
THEOREM AlwaysDelivered == Spec => []StreamDelivered
<1>1. ASSUME IInv
      PROVE  StreamDelivered
  BY <1>1 DEF IInv
<1> QED
  BY <1>1, Invariance, PTL

\* A step of the buffer is a step of the abstract window, or changes nothing
\* there.
LEMMA StepRefines ==
    ASSUME IInv, Next
    PROVE  [Window!Next]_(Window!vars)
<1> DEFINE nxt == IF emitted = <<>> THEN {} ELSE {Due}
<1>1. ASSUME NEW p \in Int, p >= Due, emitted = <<>> => p = Due, Takes(p)
      PROVE  Window!Next
  <2> DEFINE S == Held \cup {p}
             G == Gone(S, Due)
  <2>1. /\ Held' = S \ G /\ emitted' = emitted \o Window!InOrder(G)
        /\ emitted' # <<>> /\ Due' = IF G = {} THEN Due ELSE Window!Max(G) + 1
        /\ p \in accepted' /\ IInv'
    BY <1>1 DEF Takes
  <2>2. Window!Accept(S, Due)
    <3>1. nxt' = IF G = {} THEN {Due} ELSE {Window!Max(G) + 1}
      BY <2>1
    <3> HIDE DEF S
    <3> QED
      BY <2>1, <3>1 DEF Window!Accept, Gone
  <2>3. Window!Packet(p)
    <3>1. CASE emitted = <<>>
      <4>1. ~flushed => Held = {}
        BY <3>1 DEF IInv, Windowed
      <4>2. flushed => Held = {}
        BY DEF IInv, StreamDelivered
      <4>3. S = {p} /\ Due = p
        BY <1>1, <3>1, <4>1, <4>2 DEF IInv, Typed
      <4> HIDE DEF S
      <4> QED
        BY <2>2, <3>1, <4>3 DEF Window!Packet
    <3>2. CASE emitted # <<>>
      BY <1>1, <2>2, <3>2 DEF Window!Packet
    <3> QED
      BY <3>1, <3>2
  <2>4. p \in Held' \cup {emitted'[i] : i \in DOMAIN emitted'}
    <3>1. emitted' \in Seq(Int) /\ emitted \in Seq(Int) /\ DOMAIN emitted' = 1..Len(emitted')
      BY <2>1 DEF IInv, Typed
    <3>2. accepted' = {emitted'[i] : i \in 1..Len(emitted')} \cup Held'
      BY <2>1 DEF IInv, StreamDelivered
    <3> QED
      BY <2>1, <3>1, <3>2
  <2> QED
    BY <2>3, <2>4 DEF Window!Next
<1>2. CASE Flush
  <2>1. /\ Held' = {} /\ emitted # <<>> /\ emitted' # <<>>
        /\ emitted' = IF Held = {} THEN emitted ELSE emitted \o Window!InOrder(Held)
        /\ Held # {} => Due' = Window!Max(Held) + 1
        /\ Held = {} => Due' = Due
    BY <1>2, FlushEmpties
  <2>2. CASE Held = {}
    BY <2>1, <2>2 DEF Window!vars
  <2>3. CASE Held # {}
    BY <2>1, <2>3 DEF Window!Next, Window!Drain
  <2> QED
    BY <2>2, <2>3
<1>3. CASE UNCHANGED <<buffered, nextSeq, emitted, accepted, flushed>>
  BY <1>3 DEF Window!vars, Held, Due
<1> QED
  BY <1>1, <1>2, <1>3, StepIs

\* The buffer with its 16-bit numbers implements the window over positions
\* that never wrap.
THEOREM Implements == Spec => ImplementsWindow
<1>1. Init => Window!Init
  BY DEF Init, Window!Init, Held
<1>2. IInv /\ [Next]_vars => [Window!Next]_(Window!vars)
  <2> SUFFICES ASSUME IInv, [Next]_vars
               PROVE  [Window!Next]_(Window!vars)
    OBVIOUS
  <2>1. CASE Next
    BY <2>1, StepRefines
  <2>2. CASE UNCHANGED vars
    BY <2>2 DEF vars, Window!vars, Held, Due
  <2> QED
    BY <2>1, <2>2
<1> QED
  BY <1>1, <1>2, Invariance, PTL DEF Spec, ImplementsWindow, Window!Spec
=============================================================================
