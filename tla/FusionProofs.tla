---------------------------- MODULE FusionProofs ----------------------------
(* What the matcher's ranking and the fusion of the two paths compute, for     *)
(* every candidate pool, confidence, hypothesis, weight and n_best.            *)
EXTENDS Orchestrator, FiniteSetTheorems, WellFoundedInduction, TLAPS

-----------------------------------------------------------------------------
(* Sorting.                                                                   *)

(* A finite set with a strict total order R has a sorted enumeration: an       *)
(* element's position is the number of elements before it, plus one.           *)
LEMMA SortedExists ==
    ASSUME NEW S, IsFiniteSet(S), NEW R,
           \A x \in S : <<x, x>> \notin R,
           \A x, y, z \in S : <<x, y>> \in R /\ <<y, z>> \in R => <<x, z>> \in R,
           \A x, y \in S : x = y \/ <<x, y>> \in R \/ <<y, x>> \in R
    PROVE  \E f \in [1 .. Cardinality(S) -> S] :
               \A i, j \in 1 .. Cardinality(S) : i < j => <<f[i], f[j]>> \in R
<1> DEFINE n == Cardinality(S)
           below(x) == {y \in S : <<y, x>> \in R}
           rank == [x \in S |-> Cardinality(below(x)) + 1]
<1>1. n \in Nat
  BY FS_CardinalityType
<1>2. ASSUME NEW x \in S
      PROVE  /\ IsFiniteSet(below(x)) /\ x \notin below(x)
             /\ Cardinality(below(x)) \in Nat /\ Cardinality(below(x)) < n
  <2>1. below(x) \in SUBSET S /\ x \notin below(x)
    OBVIOUS
  <2>2. IsFiniteSet(below(x)) /\ Cardinality(below(x)) <= n /\ below(x) # S
    BY <2>1, FS_Subset
  <2>3. Cardinality(below(x)) # n
    BY <2>1, <2>2, FS_Subset
  <2>4. Cardinality(below(x)) \in Nat
    BY <2>2, FS_CardinalityType
  <2> QED
    BY <1>1, <2>1, <2>2, <2>3, <2>4
<1>3. ASSUME NEW x \in S, NEW y \in S, <<x, y>> \in R
      PROVE  rank[x] < rank[y]
  <2>1. below(x) \cup {x} \in SUBSET below(y)
    BY <1>3
  <2>2. Cardinality(below(x) \cup {x}) = Cardinality(below(x)) + 1
    BY <1>2, FS_AddElement
  <2>3. Cardinality(below(x) \cup {x}) <= Cardinality(below(y))
    BY <1>2, <2>1, FS_Subset
  <2> HIDE DEF below
  <2> QED
    BY <1>2, <2>2, <2>3
<1>4. rank \in [S -> 1 .. n]
  <2>1. \A x \in S : Cardinality(below(x)) \in Nat /\ Cardinality(below(x)) < n
    BY <1>2
  <2> HIDE DEF below, n
  <2> QED
    BY <1>1, <2>1
<1>5. rank \in Injection(S, 1 .. n)
  <2> HIDE DEF rank
  <2>1. \A x \in S : rank[x] \in Int
    BY <1>4
  <2>2. \A x, y \in S : <<x, y>> \in R => rank[x] < rank[y]
    BY <1>3
  <2>3. \A x, y \in S : <<x, y>> \in R => rank[x] # rank[y]
    BY <2>1, <2>2
  <2>4. \A x, y \in S : rank[x] = rank[y] => x = y
    BY <2>3
  <2> QED
    BY <1>4, <2>4 DEF Injection, IsInjective
<1>6. IsFiniteSet(1 .. n) /\ Cardinality(1 .. n) = n
  BY <1>1, FS_Interval
<1>7. rank \in Surjection(S, 1 .. n)
  BY <1>5, <1>6, FS_Injection
<1> DEFINE f == [k \in 1 .. n |-> CHOOSE x \in S : rank[x] = k]
<1>8. \A k \in 1 .. n : f[k] \in S /\ rank[f[k]] = k
  <2> HIDE DEF rank
  <2>1. \A k \in 1 .. n : \E x \in S : rank[x] = k
    BY <1>7 DEF Surjection
  <2> QED
    BY <2>1
<1>9. ASSUME NEW i \in 1 .. n, NEW j \in 1 .. n, i < j
      PROVE  <<f[i], f[j]>> \in R
  <2> HIDE DEF rank, f
  <2>1. f[i] # f[j]
    BY <1>8, <1>9
  <2>2. CASE <<f[j], f[i]>> \in R
    <3>1. rank[f[j]] < rank[f[i]]
      BY <1>3, <1>8, <2>2
    <3> QED
      BY <1>8, <1>9, <3>1
  <2> QED
    BY <1>8, <2>1, <2>2
<1>10. f \in [1 .. n -> S]
  <2>1. \A k \in 1 .. n : f[k] \in S
    BY <1>8
  <2> HIDE DEF rank
  <2> QED
    BY <2>1
<1> QED
  BY <1>9, <1>10

(* A bounded nonempty set of naturals has a largest element: the least of the  *)
(* distances to the bound is that of one.                                      *)
LEMMA LargestExists ==
    ASSUME NEW T, T \subseteq Nat, T # {}, NEW m \in Nat, \A t \in T : t <= m
    PROVE  \E k \in T : \A j \in T : j <= k
<1> DEFINE D == {d \in Nat : m - d \in T}
<1>1. PICK t \in T : TRUE
  OBVIOUS
<1>2. m - t \in D
  OBVIOUS
<1>3. PICK d \in D : \A e \in D : d <= e
  <2> DEFINE R == {p \in Nat \X Nat : p[1] < p[2]}
  <2>1. IsWellFoundedOn(R, Nat)
    BY NatLessThanWellFounded DEF OpToRel
  <2>2. D \subseteq Nat /\ D # {}
    BY <1>2
  <2>3. \E d \in D : \A e \in D : <<e, d>> \notin R
    <3> HIDE DEF D, R
    <3> QED
      BY <2>1, <2>2, WFMin
  <2>4. \A e, d \in Nat : <<e, d>> \notin R => d <= e
    OBVIOUS
  <2> HIDE DEF D, R
  <2> QED
    BY <2>2, <2>3, <2>4
<1>4. ASSUME NEW j \in T
      PROVE  j <= m - d
  <2>1. m - j \in D
    OBVIOUS
  <2> QED
    BY <1>3, <2>1
<1> QED
  BY <1>3, <1>4

(* The first n of a list: no longer than n, and the list's own beginning; all  *)
(* of it when n is large enough.                                               *)
LEMMA FirstNIs ==
    ASSUME NEW S, NEW list \in Seq(S), NEW n \in Nat
    PROVE  /\ FirstN(list, n) \in Seq(S)
           /\ Len(FirstN(list, n)) <= n /\ Len(FirstN(list, n)) <= Len(list)
           /\ \A k \in 1 .. Len(list) : k <= n => k \in 1 .. Len(FirstN(list, n))
           /\ \A k \in 1 .. Len(FirstN(list, n)) : FirstN(list, n)[k] = list[k]
           /\ Len(list) <= n => FirstN(list, n) = list
           /\ n > 0 /\ list # <<>> => FirstN(list, n) # <<>>
<1> DEFINE m == IF n < Len(list) THEN n ELSE Len(list)
           first == FirstN(list, n)
<1>1. m \in Nat /\ m <= n /\ m <= Len(list) /\ (Len(list) <= n => m = Len(list))
  OBVIOUS
<1>2. first = SubSeq(list, 1, m)
  BY DEF FirstN
<1>3. first = [k \in 1 .. m |-> list[k]]
  <2> HIDE DEF m, first
  <2> QED
    BY <1>1, <1>2
<1>4. Len(first) = m /\ first \in Seq(S) /\ \A k \in 1 .. m : first[k] = list[k]
  <2> HIDE DEF m, first
  <2> QED
    BY <1>1, <1>3
<1>5. n > 0 /\ list # <<>> => m > 0
  OBVIOUS
<1>6. Len(list) <= n => first = list
  <2> HIDE DEF m, first
  <2> QED
    BY <1>1, <1>3
<1>7. \A k \in 1 .. Len(list) : k <= n => k \in 1 .. m
  OBVIOUS
<1> HIDE DEF m
<1> QED
  BY <1>1, <1>4, <1>5, <1>6, <1>7

-----------------------------------------------------------------------------
(* Path A.                                                                    *)

Entry == [id : Nat, score : Nat]

(* The positions of a pool that the matcher lists. *)
Scored(pool, heard) == {i \in DOMAIN pool : Lists(heard, pool[i])}

(* f lists these positions once each, best first. *)
BestFirst(f, pool, heard) ==
    /\ f \in [1 .. Cardinality(Scored(pool, heard)) -> Scored(pool, heard)]
    /\ \A i, j \in 1 .. Cardinality(Scored(pool, heard)) :
          i < j => heard.conf[pool[f[i]]] >= heard.conf[pool[f[j]]] /\ f[i] # f[j]

(* The matcher's whole list, for such an order. *)
Listed(f, pool, heard) ==
    [k \in 1 .. Cardinality(Scored(pool, heard)) |->
        [id |-> pool[f[k]].id, score |-> heard.conf[pool[f[k]]]]]

(* What scope() and the matcher hand to the fusion. *)
IsScoring(pool, heard) == pool \in Seq(Intent) /\ heard \in Scorings(pool)

(* A scored position is one of the pool's, its id a number and its confidence  *)
(* at most 1.0; there are finitely many.                                       *)
LEMMA ScoredFacts ==
    ASSUME NEW pool, NEW heard, IsScoring(pool, heard)
    PROVE  /\ IsFiniteSet(DOMAIN pool) /\ IsFiniteSet(Scored(pool, heard))
           /\ Cardinality(Scored(pool, heard)) \in Nat
           /\ \A i \in DOMAIN pool : /\ pool[i].id \in Nat /\ i \in Nat
                                     /\ heard.conf[pool[i]] \in 0 .. MaxConf
                                     /\ pool[i].id \in Ids(pool)
           /\ \A i \in DOMAIN pool \ Scored(pool, heard) : heard.conf[pool[i]] = 0
           /\ Matcher = "stub" => \A i \in Scored(pool, heard) : heard.conf[pool[i]] > 0
<1>1. pool \in Seq(Intent) /\ heard.conf \in [Range(pool) -> 0 .. MaxConf]
  BY DEF IsScoring, Scorings
<1>2. DOMAIN pool = 1 .. Len(pool) /\ Len(pool) \in Nat
  BY <1>1
<1>3. IsFiniteSet(DOMAIN pool)
  BY <1>2, FS_Interval
<1>4. Scored(pool, heard) \in SUBSET DOMAIN pool
  BY DEF Scored
<1>5. IsFiniteSet(Scored(pool, heard)) /\ Cardinality(Scored(pool, heard)) \in Nat
  BY <1>3, <1>4, FS_Subset, FS_CardinalityType
<1>6. \A i \in DOMAIN pool : pool[i] \in Intent /\ pool[i] \in Range(pool)
  BY <1>1 DEF Range
<1>7. \A i \in DOMAIN pool : pool[i].id \in Nat
  BY <1>6 DEF Intent
<1>8. \A i \in DOMAIN pool : heard.conf[pool[i]] \in 0 .. MaxConf
  BY <1>1, <1>6
<1>9. \A i \in DOMAIN pool : pool[i].id \in Ids(pool)
  BY DEF Ids
<1>10. \A i \in DOMAIN pool : Lists(heard, pool[i]) \/ heard.conf[pool[i]] = 0
  <2>1. \A e \in Range(pool) : heard.blank \/ ~e.asked => heard.conf[e] = 0
    BY DEF IsScoring, Scorings
  <2>2. MaxConf \in Nat
    BY OrchestratorAssumption
  <2> QED
    BY <1>6, <1>8, <2>1, <2>2 DEF Lists
<1>11. Matcher = "stub" => \A i \in Scored(pool, heard) : heard.conf[pool[i]] > 0
  BY DEF Scored, Lists
<1> QED
  BY <1>2, <1>3, <1>5, <1>7, <1>8, <1>9, <1>10, <1>11 DEF Scored

(* A matcher's score returns the first n of what it lists, best first. *)
LEMMA RankedIs ==
    ASSUME NEW pool, NEW heard, IsScoring(pool, heard), NEW n
    PROVE  \E f : BestFirst(f, pool, heard) /\ Ranked(pool, heard, n) = FirstN(Listed(f, pool, heard), n)
<1> DEFINE hits == {i \in DOMAIN pool : Lists(heard, pool[i])}
           Before(i, j) == \/ heard.conf[pool[i]] > heard.conf[pool[j]]
                           \/ heard.conf[pool[i]] = heard.conf[pool[j]] /\ pool[i].id < pool[j].id
                           \/ heard.conf[pool[i]] = heard.conf[pool[j]] /\ pool[i].id = pool[j].id /\ i < j
           R == {p \in hits \X hits : Before(p[1], p[2])}
           order == CHOOSE f \in [1 .. Cardinality(hits) -> hits] :
                        \A i, j \in 1 .. Cardinality(hits) : i < j => Before(f[i], f[j])
<1>1. hits = Scored(pool, heard)
  BY DEF Scored
<1>2. IsFiniteSet(hits)
  BY <1>1, ScoredFacts
<1>3. \A i \in hits : pool[i].id \in Nat /\ heard.conf[pool[i]] \in Nat /\ i \in Nat
  BY ScoredFacts, OrchestratorAssumption
<1>4. \A x \in hits : ~Before(x, x)
  BY <1>3
<1>5. \A x, y, z \in hits : Before(x, y) /\ Before(y, z) => Before(x, z)
  BY <1>3
<1>6. \A x, y \in hits : x = y \/ Before(x, y) \/ Before(y, x)
  BY <1>3
<1>7. \A x, y \in hits : <<x, y>> \in R <=> Before(x, y)
  OBVIOUS
<1>8. \E f \in [1 .. Cardinality(hits) -> hits] :
          \A i, j \in 1 .. Cardinality(hits) : i < j => <<f[i], f[j]>> \in R
  <2> HIDE DEF Before, R, hits
  <2> QED
    BY <1>2, <1>4, <1>5, <1>6, <1>7, SortedExists
<1>9. /\ order \in [1 .. Cardinality(hits) -> hits]
      /\ \A i, j \in 1 .. Cardinality(hits) : i < j => Before(order[i], order[j])
  <2> HIDE DEF Before, R, hits
  <2> QED
    BY <1>7, <1>8
<1>10. Ranked(pool, heard, n) = FirstN([k \in DOMAIN order |->
            [id |-> pool[order[k]].id, score |-> heard.conf[pool[order[k]]]]], n)
  BY DEF Ranked, SortedBy
<1>11. DOMAIN order = 1 .. Cardinality(hits)
  <2> HIDE DEF order
  <2> QED
    BY <1>9
<1>12. Ranked(pool, heard, n) = FirstN(Listed(order, pool, heard), n)
  <2> HIDE DEF order
  <2> QED
    BY <1>1, <1>10, <1>11 DEF Listed
<1>13. \A x, y \in hits : Before(x, y) => heard.conf[pool[x]] >= heard.conf[pool[y]] /\ x # y
  BY <1>3
<1>14. BestFirst(order, pool, heard)
  <2> HIDE DEF order, Before, hits
  <2> QED
    BY <1>1, <1>9, <1>13 DEF BestFirst
<1> QED
  BY <1>12, <1>14

(* Path A's list: at most n entries of the pool, sorted; the stub's entries    *)
(* are scored above zero.                                                      *)
LEMMA RankedFacts ==
    ASSUME NEW pool, NEW heard, IsScoring(pool, heard), NEW n \in Nat
    PROVE  LET ranked == Ranked(pool, heard, n)
           IN  /\ ranked \in Seq(Entry) /\ Len(ranked) <= n
               /\ \A k \in 1 .. Len(ranked) :
                     /\ ranked[k].id \in Ids(pool) /\ ranked[k].score \in 0 .. MaxConf
                     /\ Matcher = "stub" => ranked[k].score > 0
               /\ \A k \in 1 .. Len(ranked) - 1 : ranked[k].score >= ranked[k + 1].score
<1> DEFINE hits == Scored(pool, heard)
           ranked == Ranked(pool, heard, n)
<1>1. PICK f : BestFirst(f, pool, heard) /\ ranked = FirstN(Listed(f, pool, heard), n)
  BY RankedIs
<1> DEFINE all == Listed(f, pool, heard)
<1>2. Cardinality(hits) \in Nat
  BY ScoredFacts
<1>3. \A k \in 1 .. Cardinality(hits) : f[k] \in hits
  BY <1>1 DEF BestFirst
<1>4. \A i \in hits : /\ pool[i].id \in Nat /\ pool[i].id \in Ids(pool)
                      /\ heard.conf[pool[i]] \in 0 .. MaxConf
                      /\ Matcher = "stub" => heard.conf[pool[i]] > 0
  <2>1. \A i \in DOMAIN pool : /\ pool[i].id \in Nat /\ pool[i].id \in Ids(pool)
                               /\ heard.conf[pool[i]] \in 0 .. MaxConf
    BY ScoredFacts
  <2>2. \A i \in hits : i \in DOMAIN pool
    BY DEF Scored
  <2>3. Matcher = "stub" => \A i \in hits : heard.conf[pool[i]] > 0
    BY ScoredFacts
  <2> HIDE DEF hits
  <2> QED
    BY <2>1, <2>2, <2>3, OrchestratorAssumption
<1>5. \A k \in 1 .. Cardinality(hits) :
          /\ all[k] = [id |-> pool[f[k]].id, score |-> heard.conf[pool[f[k]]]]
          /\ all[k].id = pool[f[k]].id /\ all[k].score = heard.conf[pool[f[k]]]
  BY DEF Listed
<1>6. DOMAIN all = 1 .. Cardinality(hits) /\ Len(all) = Cardinality(hits)
  BY <1>2 DEF Listed
<1>7. \A k \in 1 .. Cardinality(hits) :
          /\ pool[f[k]].id \in Ids(pool) /\ heard.conf[pool[f[k]]] \in 0 .. MaxConf
          /\ Matcher = "stub" => heard.conf[pool[f[k]]] > 0
          /\ [id |-> pool[f[k]].id, score |-> heard.conf[pool[f[k]]]] \in Entry
  <2> HIDE DEF hits
  <2> QED
    BY <1>3, <1>4, OrchestratorAssumption DEF Entry
<1>8. all \in Seq(Entry)
  BY <1>2, <1>7 DEF Listed
<1>9. \A k \in 1 .. Cardinality(hits) - 1 : all[k].score >= all[k + 1].score
  <2>1. \A i, j \in 1 .. Cardinality(hits) : i < j => heard.conf[pool[f[i]]] >= heard.conf[pool[f[j]]]
    BY <1>1 DEF BestFirst
  <2> HIDE DEF hits, all
  <2> SUFFICES ASSUME NEW k \in 1 .. Cardinality(hits) - 1
               PROVE  all[k].score >= all[k + 1].score
    OBVIOUS
  <2>2. k \in 1 .. Cardinality(hits) /\ k + 1 \in 1 .. Cardinality(hits) /\ k < k + 1
    BY <1>2
  <2> QED
    BY <1>5, <2>1, <2>2
<1>10. /\ ranked \in Seq(Entry) /\ Len(ranked) <= n /\ Len(ranked) <= Len(all)
       /\ \A k \in 1 .. Len(ranked) : ranked[k] = all[k]
  <2> HIDE DEF all, ranked
  <2> QED
    BY <1>1, <1>8, FirstNIs DEF all
<1> HIDE DEF all, hits, ranked
<1>11. Len(ranked) \in Nat /\ Len(ranked) <= Cardinality(hits)
  BY <1>6, <1>10
<1>12. ASSUME NEW k \in 1 .. Len(ranked)
       PROVE  /\ ranked[k].id \in Ids(pool) /\ ranked[k].score \in 0 .. MaxConf
              /\ Matcher = "stub" => ranked[k].score > 0
  <2>1. k \in 1 .. Cardinality(hits)
    BY <1>2, <1>11
  <2> QED
    BY <1>5, <1>7, <1>10, <2>1
<1>13. ASSUME NEW k \in 1 .. Len(ranked) - 1
       PROVE  ranked[k].score >= ranked[k + 1].score
  <2>1. k \in 1 .. Cardinality(hits) - 1 /\ k \in 1 .. Len(ranked) /\ k + 1 \in 1 .. Len(ranked)
    BY <1>2, <1>11
  <2> QED
    BY <1>9, <1>10, <2>1
<1> QED
  BY <1>10, <1>12, <1>13 DEF ranked

-----------------------------------------------------------------------------
(* The fusion.                                                                *)

(* The score of an id, as fuse computes it from Path A's list. *)
Score(ranked, slu, w, id) ==
    WeightedA(ranked, id, w) + (IF id = slu.id THEN w.b * slu.conf ELSE 0)

(* The candidates fuse keeps. *)
Kept(ranked, slu, pool, w) == {id \in Ids(pool) : Score(ranked, slu, w, id) > 0}

IsWeights(w) == w.a \in Nat /\ w.b \in Nat

IsHypothesis(slu) == slu.id \in Nat /\ slu.conf \in 0 .. MaxConf

(* Products grow with their factors. *)
LEMMA Product ==
    \A c, x, y \in Nat : x <= y => c * x \in Nat /\ c * x <= c * y
OBVIOUS

(* Path A's share of a score is at most w_A. *)
LEMMA WeightedAIs ==
    ASSUME NEW ranked \in Seq(Entry), NEW w, IsWeights(w), NEW id,
           \A k \in 1 .. Len(ranked) : ranked[k].score \in 0 .. MaxConf
    PROVE  /\ WeightedA(ranked, id, w) \in Nat /\ WeightedA(ranked, id, w) <= w.a * MaxConf
           /\ \/ /\ \A k \in 1 .. Len(ranked) : ranked[k].id # id
                 /\ WeightedA(ranked, id, w) = 0
              \/ \E k \in 1 .. Len(ranked) :
                    ranked[k].id = id /\ WeightedA(ranked, id, w) = w.a * ranked[k].score
<1> DEFINE at == {k \in DOMAIN ranked : ranked[k].id = id}
           last == CHOOSE k \in at : \A j \in at : j <= k
<1>1. DOMAIN ranked = 1 .. Len(ranked) /\ Len(ranked) \in Nat
  OBVIOUS
<1>2. MaxConf \in Nat /\ w.a \in Nat
  BY OrchestratorAssumption DEF IsWeights
<1>3. CASE at = {}
  <2>1. WeightedA(ranked, id, w) = 0
    BY <1>3 DEF WeightedA
  <2>2. 0 <= w.a * MaxConf
    BY <1>2, Product
  <2> QED
    BY <1>1, <1>3, <2>1, <2>2
<1>4. CASE at # {}
  <2>1. \E k \in at : \A j \in at : j <= k
    <3>1. at \subseteq Nat /\ \A j \in at : j <= Len(ranked)
      BY <1>1
    <3> HIDE DEF at
    <3> QED
      BY <1>1, <1>4, <3>1, LargestExists
  <2>2. last \in at
    BY <2>1
  <2>3. WeightedA(ranked, id, w) = w.a * ranked[last].score
    BY <1>4 DEF WeightedA
  <2>4. last \in 1 .. Len(ranked) /\ ranked[last].id = id
    <3> HIDE DEF last
    <3> QED
      BY <1>1, <2>2
  <2> HIDE DEF last
  <2>5. ranked[last].score \in Nat /\ ranked[last].score <= MaxConf
    BY <1>2, <2>4
  <2>6. /\ w.a * ranked[last].score \in Nat
        /\ w.a * ranked[last].score <= w.a * MaxConf
    BY <1>2, <2>5, Product
  <2> QED
    BY <2>3, <2>4, <2>6
<1> QED
  BY <1>3, <1>4

(* A list without repetitions of as many elements as a finite set has is a     *)
(* list of all of them.                                                        *)
LEMMA ListsAll ==
    ASSUME NEW S, IsFiniteSet(S), NEW f \in [1 .. Cardinality(S) -> S],
           \A i, j \in 1 .. Cardinality(S) : i < j => f[i] # f[j]
    PROVE  \A x \in S : \E k \in 1 .. Cardinality(S) : f[k] = x
<1> DEFINE D == 1 .. Cardinality(S)
<1>1. Cardinality(S) \in Nat
  BY FS_CardinalityType
<1>2. \A i, j \in D : f[i] = f[j] => i = j
  BY <1>1
<1>3. f \in Injection(D, S)
  <2> HIDE DEF D
  <2>1. f \in [D -> S]
    BY DEF D
  <2> QED
    BY <1>2, <2>1 DEF Injection, IsInjective
<1>4. Cardinality(D) = Cardinality(S)
  BY <1>1, FS_Interval
<1>5. f \in Surjection(D, S)
  <2> HIDE DEF D
  <2> QED
    BY <1>3, <1>4, FS_Injection
<1> QED
  BY <1>5 DEF Surjection

(* The ids of a pool are finitely many naturals. *)
LEMMA IdsFacts ==
    ASSUME NEW pool, NEW heard, IsScoring(pool, heard)
    PROVE  IsFiniteSet(Ids(pool)) /\ Ids(pool) \subseteq Nat
<1> DEFINE g == [i \in DOMAIN pool |-> pool[i].id]
<1>1. IsFiniteSet(DOMAIN pool) /\ \A i \in DOMAIN pool : pool[i].id \in Nat
  BY ScoredFacts
<1>2. g \in Surjection(DOMAIN pool, Ids(pool))
  BY DEF Surjection, Ids
<1>3. IsFiniteSet(Ids(pool))
  BY <1>1, <1>2, FS_Surjection
<1> QED
  BY <1>1, <1>3 DEF Ids

(* f lists the kept candidates once each, best first. *)
FusedFirst(f, ranked, slu, pool, w) ==
    LET kept == Kept(ranked, slu, pool, w)
    IN  /\ f \in [1 .. Cardinality(kept) -> kept]
        /\ \A i, j \in 1 .. Cardinality(kept) :
              i < j => /\ f[i] # f[j]
                       /\ Score(ranked, slu, w, f[i]) >= Score(ranked, slu, w, f[j])

(* fuse's whole list, for such an order. *)
Totalled(f, ranked, slu, pool, w) ==
    [k \in 1 .. Cardinality(Kept(ranked, slu, pool, w)) |->
        [id |-> f[k], score |-> Score(ranked, slu, w, f[k])]]

(* What fuse gets: Path A's list, Path B's hypothesis and the scene's weights. *)
IsFusion(ranked, slu, pool, w) ==
    /\ ranked \in Seq(Entry) /\ \A k \in 1 .. Len(ranked) : ranked[k].score \in 0 .. MaxConf
    /\ IsHypothesis(slu) /\ IsWeights(w) /\ BActive(slu, pool)

(* A score is a natural number and at most (w_A + w_B) * 1.0. *)
LEMMA ScoreIs ==
    ASSUME NEW ranked, NEW slu, NEW pool, NEW w, IsFusion(ranked, slu, pool, w), NEW id
    PROVE  /\ Score(ranked, slu, w, id) \in Nat
           /\ Score(ranked, slu, w, id) <= (w.a + w.b) * MaxConf
<1>1. w.a \in Nat /\ w.b \in Nat /\ MaxConf \in Nat /\ slu.conf \in Nat /\ slu.conf <= MaxConf
  BY OrchestratorAssumption DEF IsFusion, IsWeights, IsHypothesis
<1>2. WeightedA(ranked, id, w) \in Nat /\ WeightedA(ranked, id, w) <= w.a * MaxConf
  BY WeightedAIs DEF IsFusion
<1>3. w.b * slu.conf \in Nat /\ w.b * slu.conf <= w.b * MaxConf
  BY <1>1, Product
<1>4. w.a * MaxConf \in Nat /\ w.b * MaxConf \in Nat /\ 0 <= w.b * MaxConf
  BY <1>1, Product
<1>5. (w.a + w.b) * MaxConf = w.a * MaxConf + w.b * MaxConf
  BY <1>1
<1> DEFINE a == WeightedA(ranked, id, w)
           b == IF id = slu.id THEN w.b * slu.conf ELSE 0
           A == w.a * MaxConf
           B == w.b * MaxConf
<1>6. b \in Nat /\ b <= B
  BY <1>3, <1>4
<1>7. Score(ranked, slu, w, id) = a + b
  BY DEF Score
<1> HIDE DEF a, b, A, B
<1>8. a \in Nat /\ a <= A /\ A \in Nat /\ B \in Nat
  BY <1>2, <1>4 DEF a, A, B
<1>9. a + b \in Nat /\ a + b <= A + B
  BY <1>6, <1>8
<1>10. A + B = (w.a + w.b) * MaxConf
  BY <1>5 DEF A, B
<1> QED
  BY <1>7, <1>9, <1>10

(* fuse with an active Path B: the kept candidates, best first, cut at n. *)
LEMMA FusedIs ==
    ASSUME NEW pool, NEW heard, IsScoring(pool, heard), NEW ranked, NEW slu, NEW w,
           IsFusion(ranked, slu, pool, w), NEW n
    PROVE  \E f : /\ FusedFirst(f, ranked, slu, pool, w)
                  /\ Fuse(ranked, slu, pool, w, n) = FirstN(Totalled(f, ranked, slu, pool, w), n)
<1> DEFINE S(id) == WeightedA(ranked, id, w) + (IF id = slu.id THEN w.b * slu.conf ELSE 0)
           ids == {id \in Ids(pool) \cup {slu.id} : S(id) > 0}
           Before(x, y) == S(x) > S(y) \/ (S(x) = S(y) /\ x < y)
           R == {p \in ids \X ids : Before(p[1], p[2])}
           order == CHOOSE f \in [1 .. Cardinality(ids) -> ids] :
                        \A i, j \in 1 .. Cardinality(ids) : i < j => Before(f[i], f[j])
<1>1. \A id : S(id) = Score(ranked, slu, w, id)
  BY DEF Score
<1>2. BActive(slu, pool) /\ slu.id \in Ids(pool)
  BY DEF IsFusion, BActive
<1>3. ids = Kept(ranked, slu, pool, w)
  <2> HIDE DEF S
  <2> QED
    BY <1>1, <1>2 DEF Kept
<1>4. IsFiniteSet(ids) /\ ids \subseteq Nat
  <2>1. Kept(ranked, slu, pool, w) \in SUBSET Ids(pool)
    BY DEF Kept
  <2> QED
    BY <1>3, <2>1, IdsFacts, FS_Subset
<1>5. \A id : S(id) \in Nat
  <2> HIDE DEF S
  <2> QED
    BY <1>1, ScoreIs
<1> HIDE DEF S
<1>6. \A x \in ids : ~Before(x, x)
  BY <1>4, <1>5
<1>7. \A x, y, z \in ids : Before(x, y) /\ Before(y, z) => Before(x, z)
  BY <1>4, <1>5
<1>8. \A x, y \in ids : x = y \/ Before(x, y) \/ Before(y, x)
  BY <1>4, <1>5
<1>9. \A x, y \in ids : <<x, y>> \in R <=> Before(x, y)
  OBVIOUS
<1>10. \E f \in [1 .. Cardinality(ids) -> ids] :
           \A i, j \in 1 .. Cardinality(ids) : i < j => <<f[i], f[j]>> \in R
  <2> HIDE DEF Before, R, ids
  <2> QED
    BY <1>4, <1>6, <1>7, <1>8, <1>9, SortedExists
<1>11. /\ order \in [1 .. Cardinality(ids) -> ids]
       /\ \A i, j \in 1 .. Cardinality(ids) : i < j => Before(order[i], order[j])
  <2> HIDE DEF Before, R, ids
  <2> QED
    BY <1>9, <1>10
<1>12. Fuse(ranked, slu, pool, w, n) =
           FirstN([k \in DOMAIN order |-> [id |-> order[k], score |-> S(order[k])]], n)
  BY <1>2 DEF Fuse, SortedBy, S
<1>13. DOMAIN order = 1 .. Cardinality(ids)
  <2> HIDE DEF order
  <2> QED
    BY <1>11
<1>14. Fuse(ranked, slu, pool, w, n) = FirstN(Totalled(order, ranked, slu, pool, w), n)
  <2> HIDE DEF order, ids
  <2> QED
    BY <1>1, <1>3, <1>12, <1>13 DEF Totalled
<1>15. \A x, y \in ids : Before(x, y) => S(x) >= S(y) /\ x # y
  BY <1>4, <1>5
<1>16. FusedFirst(order, ranked, slu, pool, w)
  <2> HIDE DEF order, Before, ids
  <2> QED
    BY <1>1, <1>3, <1>11, <1>15 DEF FusedFirst
<1> QED
  BY <1>14, <1>16

(* The whole fused list: kept candidates with their scores, sorted. *)
LEMMA TotalledIs ==
    ASSUME NEW pool, NEW heard, IsScoring(pool, heard), NEW ranked, NEW slu, NEW w,
           IsFusion(ranked, slu, pool, w), NEW f, FusedFirst(f, ranked, slu, pool, w)
    PROVE  LET all == Totalled(f, ranked, slu, pool, w)
           IN  /\ all \in Seq(Entry) /\ Len(all) = Cardinality(Kept(ranked, slu, pool, w))
               /\ \A k \in 1 .. Len(all) :
                     /\ all[k].id = f[k] /\ all[k].score = Score(ranked, slu, w, f[k])
                     /\ f[k] \in Ids(pool) /\ all[k].score \in 1 .. (w.a + w.b) * MaxConf
               /\ \A i, j \in 1 .. Len(all) : i < j => all[i].score >= all[j].score
<1> DEFINE kept == Kept(ranked, slu, pool, w)
           all == Totalled(f, ranked, slu, pool, w)
           S(id) == Score(ranked, slu, w, id)
           top == (w.a + w.b) * MaxConf
<1>1. kept \in SUBSET Ids(pool)
  BY DEF Kept
<1>2. Cardinality(kept) \in Nat /\ kept \subseteq Nat
  BY <1>1, IdsFacts, FS_Subset, FS_CardinalityType
<1>3. \A k \in 1 .. Cardinality(kept) : f[k] \in kept
  BY DEF FusedFirst
<1>4. top \in Nat
  <2>1. w.a + w.b \in Nat /\ MaxConf \in Nat
    BY OrchestratorAssumption DEF IsFusion, IsWeights
  <2> QED
    BY <2>1, Product
<1>5. \A id : S(id) \in Nat /\ S(id) <= top
  BY ScoreIs
<1>6. \A id \in kept : S(id) > 0
  BY DEF Kept
<1>7. all = [k \in 1 .. Cardinality(kept) |-> [id |-> f[k], score |-> S(f[k])]]
  BY DEF Totalled
<1>8. \A i, j \in 1 .. Cardinality(kept) : i < j => S(f[i]) >= S(f[j])
  BY DEF FusedFirst
<1> HIDE DEF kept, all, S, top
<1>9. \A k \in 1 .. Cardinality(kept) : [id |-> f[k], score |-> S(f[k])] \in Entry
  BY <1>2, <1>3, <1>5 DEF Entry
<1>10. all \in Seq(Entry) /\ Len(all) = Cardinality(kept)
  BY <1>2, <1>7, <1>9
<1>11. \A k \in 1 .. Cardinality(kept) : all[k].id = f[k] /\ all[k].score = S(f[k])
  BY <1>7
<1>12. \A k \in 1 .. Cardinality(kept) : f[k] \in Ids(pool) /\ all[k].score \in 1 .. top
  <2> TAKE k \in 1 .. Cardinality(kept)
  <2>1. f[k] \in kept /\ f[k] \in Ids(pool)
    BY <1>1, <1>3
  <2>2. S(f[k]) \in 1 .. top
    BY <1>4, <1>5, <1>6, <2>1
  <2> QED
    BY <1>11, <2>1, <2>2
<1>13. \A i, j \in 1 .. Cardinality(kept) : i < j => all[i].score >= all[j].score
  BY <1>8, <1>11
<1> QED
  BY <1>10, <1>11, <1>12, <1>13 DEF kept, all, S, top

(* A pool, a hypothesis or none, and weights, as recognize has them. *)
IsRecognition(pool, heard, slu, w) ==
    IsScoring(pool, heard) /\ IsWeights(w) /\ (slu # None => IsHypothesis(slu))

(* The answer's list, whether Path B takes part or not: at most n candidates   *)
(* of the pool, each with a score in [0, 1], sorted; none of them 0 where Path *)
(* B takes part or the stub scores.                                            *)
LEMMA FuseIsSound ==
    ASSUME NEW pool, NEW heard, NEW slu, NEW w, IsRecognition(pool, heard, slu, w), NEW n \in Nat
    PROVE  LET fused == Fuse(Ranked(pool, heard, n), slu, pool, w, n)
           IN  /\ fused \in Seq(Entry) /\ Len(fused) <= n
               /\ \A k \in 1 .. Len(fused) :
                     /\ fused[k].id \in Ids(pool) /\ fused[k].score \in 0 .. Scale(slu, pool, w)
                     /\ BActive(slu, pool) \/ Matcher = "stub" => fused[k].score > 0
               /\ \A k \in 1 .. Len(fused) - 1 : fused[k].score >= fused[k + 1].score
<1> DEFINE ranked == Ranked(pool, heard, n)
           fused == Fuse(ranked, slu, pool, w, n)
<1>1. IsScoring(pool, heard) /\ IsWeights(w) /\ (slu # None => IsHypothesis(slu))
  BY DEF IsRecognition
<1>2. /\ ranked \in Seq(Entry) /\ Len(ranked) <= n
      /\ \A k \in 1 .. Len(ranked) :
            /\ ranked[k].id \in Ids(pool) /\ ranked[k].score \in 0 .. MaxConf
            /\ Matcher = "stub" => ranked[k].score > 0
      /\ \A k \in 1 .. Len(ranked) - 1 : ranked[k].score >= ranked[k + 1].score
  BY <1>1, RankedFacts
<1> HIDE DEF ranked
<1>3. CASE ~BActive(slu, pool)
  <2>1. fused = FirstN(ranked, n)
    BY <1>3 DEF Fuse
  <2>2. fused = ranked
    BY <1>2, <2>1, FirstNIs
  <2>3. Scale(slu, pool, w) = MaxConf
    BY <1>3 DEF Scale
  <2> QED
    BY <1>2, <1>3, <2>2, <2>3 DEF ranked
<1>4. CASE BActive(slu, pool)
  <2>1. IsFusion(ranked, slu, pool, w)
    BY <1>1, <1>2, <1>4 DEF IsFusion, BActive
  <2>2. PICK f : /\ FusedFirst(f, ranked, slu, pool, w)
                 /\ fused = FirstN(Totalled(f, ranked, slu, pool, w), n)
    BY <1>1, <2>1, FusedIs
  <2> DEFINE all == Totalled(f, ranked, slu, pool, w)
             top == (w.a + w.b) * MaxConf
  <2>3. /\ all \in Seq(Entry)
        /\ \A k \in 1 .. Len(all) : /\ all[k].id = f[k] /\ f[k] \in Ids(pool)
                                    /\ all[k].score \in 1 .. top
        /\ \A i, j \in 1 .. Len(all) : i < j => all[i].score >= all[j].score
    BY <1>1, <2>1, <2>2, TotalledIs
  <2>4. Scale(slu, pool, w) = top
    BY <1>4 DEF Scale
  <2> HIDE DEF all, top, fused
  <2>5. /\ fused \in Seq(Entry) /\ Len(fused) <= n /\ Len(fused) <= Len(all)
        /\ \A k \in 1 .. Len(fused) : fused[k] = all[k]
    BY <2>2, <2>3, FirstNIs DEF all
  <2>6. Len(fused) \in Nat /\ Len(all) \in Nat
    BY <2>3, <2>5
  <2>7. ASSUME NEW k \in 1 .. Len(fused)
        PROVE  fused[k].id \in Ids(pool) /\ fused[k].score \in 0 .. top /\ fused[k].score > 0
    <3>1. k \in 1 .. Len(all)
      BY <2>5, <2>6
    <3>2. fused[k].id \in Ids(pool) /\ fused[k].score \in 1 .. top
      BY <2>3, <2>5, <3>1
    <3> QED
      BY <3>2
  <2>8. ASSUME NEW k \in 1 .. Len(fused) - 1
        PROVE  fused[k].score >= fused[k + 1].score
    <3>1. /\ k \in 1 .. Len(all) /\ k + 1 \in 1 .. Len(all) /\ k < k + 1
          /\ k \in 1 .. Len(fused) /\ k + 1 \in 1 .. Len(fused)
      BY <2>5, <2>6
    <3> QED
      BY <2>3, <2>5, <3>1
  <2> QED
    BY <2>4, <2>5, <2>7, <2>8 DEF fused, ranked
<1> QED
  BY <1>3, <1>4

-----------------------------------------------------------------------------
(* The documented weighted sum.                                               *)

(* Path A's confidence of an id over the whole pool. *)
ConfA(conf, id) == conf[CHOOSE e \in DOMAIN conf : e.id = id]

DistinctIds(pool) == \A i, j \in DOMAIN pool : pool[i].id = pool[j].id => i = j

(* Where ids do not repeat, an id has one confidence: that of its intent.      *)
LEMMA ConfAIs ==
    ASSUME NEW pool, NEW heard, IsScoring(pool, heard), DistinctIds(pool), NEW i \in DOMAIN pool
    PROVE  ConfA(heard.conf, pool[i].id) = heard.conf[pool[i]]
<1>1. DOMAIN heard.conf = {pool[j] : j \in DOMAIN pool}
  BY DEF IsScoring, Scorings, Range
<1>2. pool[i] \in DOMAIN heard.conf
  BY <1>1
<1>3. \A e \in DOMAIN heard.conf : e.id = pool[i].id => e = pool[i]
  <2> TAKE e \in DOMAIN heard.conf
  <2>1. PICK j \in DOMAIN pool : e = pool[j]
    BY <1>1
  <2> QED
    BY <2>1 DEF DistinctIds
<1>4. (CHOOSE e \in DOMAIN heard.conf : e.id = pool[i].id) = pool[i]
  BY <1>2, <1>3
<1> QED
  BY <1>4 DEF ConfA

(* The scored intents are finitely many. *)
LEMMA HitsFinite ==
    ASSUME NEW pool, NEW heard, IsScoring(pool, heard)
    PROVE  LET hits == {e \in DOMAIN heard.conf : heard.conf[e] > 0}
           IN  IsFiniteSet(hits) /\ Cardinality(hits) \in Nat
<1> DEFINE hits == {e \in DOMAIN heard.conf : heard.conf[e] > 0}
           g == [i \in DOMAIN pool |-> pool[i]]
<1>1. DOMAIN heard.conf = {pool[j] : j \in DOMAIN pool}
  BY DEF IsScoring, Scorings, Range
<1>2. g \in Surjection(DOMAIN pool, DOMAIN heard.conf)
  BY <1>1 DEF Surjection
<1>3. IsFiniteSet(DOMAIN heard.conf)
  BY <1>2, ScoredFacts, FS_Surjection
<1>4. hits \in SUBSET DOMAIN heard.conf
  OBVIOUS
<1> QED
  BY <1>3, <1>4, FS_Subset, FS_CardinalityType

(* Where ids do not repeat, what is scored above zero is listed first: at no   *)
(* later place than there are such intents.                                    *)
LEMMA HitsComeFirst ==
    ASSUME NEW pool, NEW heard, IsScoring(pool, heard), DistinctIds(pool),
           NEW f, BestFirst(f, pool, heard), NEW k \in 1 .. Cardinality(Scored(pool, heard)),
           heard.conf[pool[f[k]]] > 0
    PROVE  k <= Cardinality({e \in DOMAIN heard.conf : heard.conf[e] > 0})
<1> DEFINE hits == {e \in DOMAIN heard.conf : heard.conf[e] > 0}
           size == Cardinality(Scored(pool, heard))
           h == [j \in 1 .. k |-> pool[f[j]]]
<1>1. DOMAIN heard.conf = {pool[j] : j \in DOMAIN pool}
  BY DEF IsScoring, Scorings, Range
<1>2. IsFiniteSet(hits) /\ Cardinality(hits) \in Nat
  BY HitsFinite
<1>3. size \in Nat /\ k \in Nat
  BY ScoredFacts
<1>4. \A j \in 1 .. size : f[j] \in DOMAIN pool
  BY DEF BestFirst, Scored
<1>5. \A j \in 1 .. size : heard.conf[pool[f[j]]] \in Int
  BY <1>4, ScoredFacts, OrchestratorAssumption
<1>6. /\ \A i, j \in 1 .. size : i < j => /\ f[i] # f[j]
                                         /\ heard.conf[pool[f[i]]] >= heard.conf[pool[f[j]]]
  BY DEF BestFirst
<1> HIDE DEF size
<1>7. k \in 1 .. size /\ \A j \in 1 .. k : j \in 1 .. size /\ (j = k \/ j < k)
  BY <1>3 DEF size
<1>8. \A j \in 1 .. k : pool[f[j]] \in hits
  <2> TAKE j \in 1 .. k
  <2>1. heard.conf[pool[f[j]]] > 0
    BY <1>5, <1>6, <1>7
  <2> QED
    BY <1>1, <1>4, <1>7, <2>1
<1>9. \A i, j \in 1 .. k : pool[f[i]] = pool[f[j]] => i = j
  <2> SUFFICES ASSUME NEW i \in 1 .. k, NEW j \in 1 .. k, pool[f[i]] = pool[f[j]]
               PROVE  i = j
    OBVIOUS
  <2>1. f[i] = f[j]
    BY <1>4, <1>7 DEF DistinctIds
  <2>2. i < j \/ j < i \/ i = j
    BY <1>3
  <2> QED
    BY <1>6, <1>7, <2>1, <2>2
<1>10. h \in Injection(1 .. k, hits)
  <2> HIDE DEF hits
  <2> QED
    BY <1>8, <1>9 DEF Injection, IsInjective
<1>11. Cardinality(1 .. k) = k
  BY <1>3, FS_Interval
<1> HIDE DEF h, hits
<1>12. Cardinality(1 .. k) <= Cardinality(hits)
  BY <1>2, <1>10, FS_Injection
<1> QED
  BY <1>11, <1>12 DEF hits

(* When the N-best is long enough for what is scored above zero, Path A's      *)
(* share of a score is w_A conf_A: an intent that was cut off has conf_A = 0.  *)
LEMMA ShareOfPathA ==
    ASSUME NEW pool, NEW heard, IsScoring(pool, heard), DistinctIds(pool),
           NEW w, IsWeights(w), NEW n \in Nat,
           Cardinality({e \in DOMAIN heard.conf : heard.conf[e] > 0}) <= n, NEW id \in Ids(pool)
    PROVE  WeightedA(Ranked(pool, heard, n), id, w) = w.a * ConfA(heard.conf, id)
<1> DEFINE hits == Scored(pool, heard)
           ranked == Ranked(pool, heard, n)
           above == Cardinality({e \in DOMAIN heard.conf : heard.conf[e] > 0})
<1>1. PICK i \in DOMAIN pool : pool[i].id = id
  BY DEF Ids
<1>2. ConfA(heard.conf, id) = heard.conf[pool[i]] /\ heard.conf[pool[i]] \in Nat
  BY <1>1, ConfAIs, ScoredFacts, OrchestratorAssumption
<1>3. PICK f : BestFirst(f, pool, heard) /\ ranked = FirstN(Listed(f, pool, heard), n)
  BY RankedIs
<1>4. Cardinality(hits) \in Nat /\ IsFiniteSet(hits) /\ above \in Nat
  BY ScoredFacts, HitsFinite
<1>5. /\ f \in [1 .. Cardinality(hits) -> hits]
      /\ \A j, k \in 1 .. Cardinality(hits) : j < k => f[j] # f[k]
  BY <1>3 DEF BestFirst
<1>6. \A j \in hits : /\ j \in DOMAIN pool /\ pool[j].id \in Nat
                      /\ heard.conf[pool[j]] \in 0 .. MaxConf
  <2>1. \A j \in DOMAIN pool : pool[j].id \in Nat /\ heard.conf[pool[j]] \in 0 .. MaxConf
    BY ScoredFacts
  <2>2. \A j \in hits : j \in DOMAIN pool
    BY DEF Scored
  <2> HIDE DEF hits
  <2> QED
    BY <2>1, <2>2
<1> DEFINE all == Listed(f, pool, heard)
<1>7. all = [k \in 1 .. Cardinality(hits) |->
                [id |-> pool[f[k]].id, score |-> heard.conf[pool[f[k]]]]]
  BY DEF Listed
<1>8. /\ \A k \in 1 .. Cardinality(hits) :
            all[k].id = pool[f[k]].id /\ all[k].score = heard.conf[pool[f[k]]]
      /\ Len(all) = Cardinality(hits)
  <2> HIDE DEF all, hits
  <2> QED
    BY <1>4, <1>7
<1>9. all \in Seq(Entry)
  <2>1. \A k \in 1 .. Cardinality(hits) :
            [id |-> pool[f[k]].id, score |-> heard.conf[pool[f[k]]]] \in Entry
    <3> HIDE DEF hits
    <3> QED
      BY <1>5, <1>6, OrchestratorAssumption DEF Entry
  <2> HIDE DEF all, hits
  <2> QED
    BY <1>4, <1>7, <2>1
<1>10. /\ ranked \in Seq(Entry) /\ Len(ranked) \in Nat /\ Len(ranked) <= Cardinality(hits)
       /\ \A k \in 1 .. Len(ranked) : ranked[k] = all[k]
       /\ \A k \in 1 .. Cardinality(hits) : k <= n => k \in 1 .. Len(ranked)
  <2>1. /\ ranked \in Seq(Entry) /\ Len(ranked) <= Len(all)
        /\ \A k \in 1 .. Len(ranked) : ranked[k] = all[k]
        /\ \A k \in 1 .. Len(all) : k <= n => k \in 1 .. Len(ranked)
    <3> HIDE DEF all, ranked
    <3> QED
      BY <1>3, <1>9, FirstNIs DEF all
  <2> HIDE DEF all, ranked, hits
  <2> QED
    BY <1>8, <2>1
<1> HIDE DEF all, hits, ranked, above
<1>11. \A k \in 1 .. Len(ranked) :
           /\ k \in 1 .. Cardinality(hits) /\ f[k] \in hits
           /\ ranked[k].id = pool[f[k]].id /\ ranked[k].score = heard.conf[pool[f[k]]]
           /\ ranked[k].score \in 0 .. MaxConf
  <2> TAKE k \in 1 .. Len(ranked)
  <2>1. k \in 1 .. Cardinality(hits) /\ f[k] \in hits
    BY <1>4, <1>5, <1>10
  <2> QED
    BY <1>6, <1>8, <1>10, <2>1
<1>12. \/ /\ \A k \in 1 .. Len(ranked) : ranked[k].id # id
          /\ WeightedA(ranked, id, w) = 0
       \/ \E k \in 1 .. Len(ranked) :
             ranked[k].id = id /\ WeightedA(ranked, id, w) = w.a * ranked[k].score
  BY <1>10, <1>11, WeightedAIs
<1>13. \A k \in 1 .. Len(ranked) : ranked[k].id = id => ranked[k].score = heard.conf[pool[i]]
  BY <1>1, <1>6, <1>11 DEF DistinctIds
<1>14. CASE heard.conf[pool[i]] = 0
  <2>1. w.a * 0 = 0
    BY DEF IsWeights
  <2>2. WeightedA(ranked, id, w) = 0
    BY <1>12, <1>13, <1>14, <2>1
  <2> QED
    BY <1>2, <1>14, <2>1, <2>2 DEF ranked
<1>15. CASE heard.conf[pool[i]] # 0
  <2>1. i \in hits /\ heard.conf[pool[i]] > 0
    BY <1>2, <1>15, ScoredFacts DEF hits
  <2>2. PICK k \in 1 .. Cardinality(hits) : f[k] = i
    BY <1>4, <1>5, <2>1, ListsAll
  <2>3. k <= above
    BY <1>3, <2>1, <2>2, HitsComeFirst DEF hits, above
  <2>4. above <= n
    BY DEF above
  <2>5. k \in 1 .. Len(ranked)
    BY <1>4, <1>10, <2>3, <2>4
  <2>6. ranked[k].id = id
    BY <1>1, <1>11, <2>2, <2>5
  <2>7. PICK m \in 1 .. Len(ranked) :
            ranked[m].id = id /\ WeightedA(ranked, id, w) = w.a * ranked[m].score
    BY <1>12, <2>5, <2>6
  <2> QED
    BY <1>2, <1>13, <2>7 DEF ranked
<1> QED
  BY <1>14, <1>15

(* With an active Path B and an N-best that holds every hit, each listed score *)
(* is w_A conf_A + w_B conf_B, and no candidate scores more than the first.    *)
LEMMA FuseIsExact ==
    ASSUME NEW pool, NEW heard, NEW slu, NEW w, IsRecognition(pool, heard, slu, w),
           BActive(slu, pool), DistinctIds(pool), NEW n \in Nat \ {0},
           Cardinality({e \in DOMAIN heard.conf : heard.conf[e] > 0}) <= n
    PROVE  LET fused == Fuse(Ranked(pool, heard, n), slu, pool, w, n)
               Sum(id) == w.a * ConfA(heard.conf, id) + (IF id = slu.id THEN w.b * slu.conf ELSE 0)
           IN  /\ \A k \in 1 .. Len(fused) : fused[k].score = Sum(fused[k].id)
               /\ \A id \in Ids(pool) :
                     Sum(id) > 0 => fused # <<>> /\ Sum(id) <= fused[1].score
<1> DEFINE ranked == Ranked(pool, heard, n)
           fused == Fuse(ranked, slu, pool, w, n)
           Sum(id) == w.a * ConfA(heard.conf, id) + (IF id = slu.id THEN w.b * slu.conf ELSE 0)
           kept == Kept(ranked, slu, pool, w)
<1>1. IsScoring(pool, heard) /\ IsWeights(w) /\ IsHypothesis(slu)
  BY DEF IsRecognition, BActive
<1>2. n \in Nat /\ n > 0
  OBVIOUS
<1>4. /\ ranked \in Seq(Entry)
      /\ \A k \in 1 .. Len(ranked) : ranked[k].score \in 0 .. MaxConf
  BY <1>1, <1>2, RankedFacts
<1>5. \A id \in Ids(pool) : WeightedA(ranked, id, w) = w.a * ConfA(heard.conf, id)
  BY <1>1, <1>2, ShareOfPathA
<1> HIDE DEF ranked
<1>6. IsFusion(ranked, slu, pool, w)
  BY <1>1, <1>4 DEF IsFusion
<1>7. \A id \in Ids(pool) : Score(ranked, slu, w, id) = Sum(id)
  BY <1>5 DEF Score
<1>8. \A id : Score(ranked, slu, w, id) \in Nat
  BY <1>6, ScoreIs
<1> HIDE DEF Sum
<1>9. PICK f : /\ FusedFirst(f, ranked, slu, pool, w)
               /\ fused = FirstN(Totalled(f, ranked, slu, pool, w), n)
  BY <1>1, <1>6, FusedIs
<1> DEFINE all == Totalled(f, ranked, slu, pool, w)
<1>10. /\ all \in Seq(Entry) /\ Len(all) = Cardinality(kept)
       /\ \A k \in 1 .. Len(all) :
             all[k].id = f[k] /\ f[k] \in Ids(pool) /\ all[k].score = Score(ranked, slu, w, f[k])
       /\ \A i, j \in 1 .. Len(all) : i < j => all[i].score >= all[j].score
  BY <1>1, <1>6, <1>9, TotalledIs
<1>11. IsFiniteSet(kept) /\ Cardinality(kept) \in Nat
  <2>1. kept \in SUBSET Ids(pool)
    BY DEF Kept
  <2> QED
    BY <1>1, <2>1, IdsFacts, FS_Subset, FS_CardinalityType
<1>12. \A id \in kept : \E k \in 1 .. Cardinality(kept) : f[k] = id
  <2>1. /\ f \in [1 .. Cardinality(kept) -> kept]
        /\ \A i, j \in 1 .. Cardinality(kept) : i < j => f[i] # f[j]
    BY <1>9 DEF FusedFirst
  <2> HIDE DEF kept
  <2> QED
    BY <1>11, <2>1, ListsAll
<1> HIDE DEF all, fused
<1>13. /\ fused \in Seq(Entry) /\ Len(fused) <= Len(all)
       /\ \A k \in 1 .. Len(fused) : fused[k] = all[k]
       /\ all # <<>> => fused # <<>>
  BY <1>2, <1>9, <1>10, FirstNIs DEF all
<1>14. Len(fused) \in Nat /\ Len(all) \in Nat
  BY <1>10, <1>13
<1>15. ASSUME NEW k \in 1 .. Len(fused)
       PROVE  fused[k].score = Sum(fused[k].id)
  <2>1. k \in 1 .. Len(all)
    BY <1>13, <1>14
  <2> QED
    BY <1>7, <1>10, <1>13, <2>1
<1>16. ASSUME NEW id \in Ids(pool), Sum(id) > 0
       PROVE  fused # <<>> /\ Sum(id) <= fused[1].score
  <2>1. id \in kept
    BY <1>7, <1>16 DEF Kept
  <2>2. PICK k \in 1 .. Len(all) : f[k] = id
    BY <1>10, <1>12, <2>1
  <2>3. Len(all) > 0 /\ 1 \in 1 .. Len(all)
    BY <1>14, <2>2
  <2>4. fused # <<>>
    BY <1>13, <2>3
  <2>5. fused[1] = all[1]
    BY <1>13, <1>14, <2>4
  <2>6. all[k].score = Sum(id)
    BY <1>7, <1>10, <2>2
  <2>7. all[1].score = Score(ranked, slu, w, f[1])
    BY <1>10, <2>3
  <2>8. all[1].score >= all[k].score
    <3>1. CASE k = 1
      BY <1>8, <2>7, <3>1
    <3>2. CASE k # 1
      BY <1>10, <2>3, <3>2
    <3> QED
      BY <3>1, <3>2
  <2>9. Sum(id) \in Nat /\ all[1].score \in Nat
    BY <1>7, <1>8, <2>7
  <2> QED
    BY <2>4, <2>5, <2>6, <2>8, <2>9
<1> QED
  BY <1>15, <1>16 DEF fused, ranked, Sum
=============================================================================
