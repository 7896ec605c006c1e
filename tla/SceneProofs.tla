---------------------------- MODULE SceneProofs ----------------------------
(* Theorems about the loader and the walk of module SceneTree, for every       *)
(* scene file, however many categories it has and however they are wired.      *)
(*                                                                             *)
(* Reachability is the least closed set, so that the walk is shown to visit    *)
(* all of it by showing that what it has visited is closed, and none but it by *)
(* showing that every call it makes is on one of its members: no induction     *)
(* over the tree is needed.                                                    *)
EXTENDS SceneTree, FiniteSetTheorems, WellFoundedInduction, TLAPS

-----------------------------------------------------------------------------
(* Numbers.                                                                   *)

(* A nonempty set of naturals has a least element. *)
LEMMA LeastExists ==
    ASSUME NEW T, T \subseteq Nat, T # {}
    PROVE  \E k \in T : \A j \in T : k <= j
<1> DEFINE R == {p \in Nat \X Nat : p[1] < p[2]}
<1>1. IsWellFoundedOn(R, Nat)
  BY NatLessThanWellFounded DEF OpToRel
<1>2. \E k \in T : \A j \in T : <<j, k>> \notin R
  <2> HIDE DEF R
  <2> QED
    BY <1>1, WFMin
<1>3. \A j, k \in Nat : <<j, k>> \notin R => k <= j
  OBVIOUS
<1> HIDE DEF R
<1> QED
  BY <1>2, <1>3

(* What holds at a and passes on from each place to the next holds up to b. *)
LEMMA Along ==
    ASSUME NEW a \in Nat, NEW b \in Nat, a <= b, NEW P, a \in P,
           \A i \in a .. b - 1 : i \in P => i + 1 \in P
    PROVE  b \in P
<1> SUFFICES ASSUME b \notin P
             PROVE  FALSE
  OBVIOUS
<1> DEFINE T == {i \in a .. b : i \notin P}
<1>1. T \subseteq Nat /\ b \in T
  OBVIOUS
<1> HIDE DEF T
<1>2. PICK k \in T : \A j \in T : k <= j
  BY <1>1, LeastExists
<1>3. k \in a .. b /\ k \notin P /\ k # a
  BY <1>2 DEF T
<1>4. k - 1 \in a .. b - 1 /\ ~(k <= k - 1) /\ (k - 1) + 1 = k /\ k - 1 \in a .. b
  BY <1>3
<1>5. k - 1 \notin T
  BY <1>2, <1>4
<1>6. k - 1 \in P
  BY <1>4, <1>5 DEF T
<1> QED
  BY <1>3, <1>4, <1>6

(* The places of a finite set of numbers, by how many are smaller, are         *)
(* 1 .. Cardinality(S), each taken once.                                       *)
LEMMA RanksAreTaken ==
    ASSUME NEW S, IsFiniteSet(S), S \subseteq Int
    PROVE  /\ Cardinality(S) \in Nat
           /\ \A n \in 1 .. Cardinality(S) : \E i \in S : Cardinality({j \in S : j < i}) = n - 1
           /\ \A i \in S : \E n \in 1 .. Cardinality(S) : Cardinality({j \in S : j < i}) = n - 1
           /\ \A i, k \in S :
                 Cardinality({j \in S : j < i}) = Cardinality({j \in S : j < k}) => i = k
<1> DEFINE n == Cardinality(S)
           below(x) == {y \in S : y < x}
           rank == [x \in S |-> Cardinality(below(x)) + 1]
<1>1. n \in Nat
  BY FS_CardinalityType
<1>2. ASSUME NEW x \in S
      PROVE  /\ IsFiniteSet(below(x)) /\ x \notin below(x)
             /\ Cardinality(below(x)) \in Nat /\ Cardinality(below(x)) < n
  <2>1. below(x) \in SUBSET S /\ x \notin below(x)
    OBVIOUS
  <2>2. IsFiniteSet(below(x)) /\ Cardinality(below(x)) <= n /\ below(x) # S
    BY <2>1, FS_Subset
  <2>3. Cardinality(below(x)) # n
    BY <2>1, <2>2, FS_Subset
  <2>4. Cardinality(below(x)) \in Nat
    BY <2>2, FS_CardinalityType
  <2> QED
    BY <1>1, <2>1, <2>2, <2>3, <2>4
<1>3. ASSUME NEW x \in S, NEW y \in S, x < y
      PROVE  rank[x] < rank[y]
  <2>0. x \in Int /\ y \in Int /\ \A z \in S : z < x => z < y
    BY <1>3
  <2>1. below(x) \cup {x} \in SUBSET below(y)
    BY <1>3, <2>0
  <2>2. Cardinality(below(x) \cup {x}) = Cardinality(below(x)) + 1
    BY <1>2, FS_AddElement
  <2>3. Cardinality(below(x) \cup {x}) <= Cardinality(below(y))
    BY <1>2, <2>1, FS_Subset
  <2> HIDE DEF below
  <2> QED
    BY <1>2, <2>2, <2>3
<1>4. rank \in [S -> 1 .. n]
  <2>1. \A x \in S : Cardinality(below(x)) \in Nat /\ Cardinality(below(x)) < n
    BY <1>2
  <2> HIDE DEF below, n
  <2> QED
    BY <1>1, <2>1
<1>5. \A x, y \in S : rank[x] = rank[y] => x = y
  <2> HIDE DEF rank
  <2>1. \A x \in S : rank[x] \in Int /\ x \in Int
    BY <1>4
  <2>2. \A x, y \in S : x < y => rank[x] < rank[y]
    BY <1>3
  <2> QED
    BY <2>1, <2>2
<1>6. rank \in Injection(S, 1 .. n)
  <2> HIDE DEF rank
  <2> QED
    BY <1>4, <1>5 DEF Injection, IsInjective
<1>7. IsFiniteSet(1 .. n) /\ Cardinality(1 .. n) = n
  BY <1>1, FS_Interval
<1>8. rank \in Surjection(S, 1 .. n)
  BY <1>6, <1>7, FS_Injection
<1>9. \A k \in 1 .. n : \E i \in S : rank[i] = k
  <2> HIDE DEF rank
  <2> QED
    BY <1>8 DEF Surjection
<1>10. \A i \in S : rank[i] = Cardinality(below(i)) + 1 /\ Cardinality(below(i)) \in Nat
  BY <1>2
<1>11. \A k \in 1 .. n : \E i \in S : Cardinality(below(i)) = k - 1
  <2> HIDE DEF rank, below
  <2> QED
    BY <1>1, <1>9, <1>10
<1>12. \A i \in S : \E k \in 1 .. n : Cardinality(below(i)) = k - 1
  <2> HIDE DEF rank, below, n
  <2>1. ASSUME NEW i \in S
        PROVE  rank[i] \in 1 .. n /\ Cardinality(below(i)) = rank[i] - 1
    BY <1>1, <1>4, <1>10
  <2> QED
    BY <2>1
<1>13. \A i, k \in S : Cardinality(below(i)) = Cardinality(below(k)) => i = k
  <2> HIDE DEF rank, below
  <2> QED
    BY <1>5, <1>10
<1> QED
  BY <1>1, <1>11, <1>12, <1>13

-----------------------------------------------------------------------------
(* The tree.                                                                  *)

(* What the loader is given. *)
IsFile == \E family \in RawScenes : raw \in family

(* A file has finitely many categories, none of them None. *)
LEMMA FileFacts ==
    ASSUME IsFile
    PROVE  /\ Len(raw.entries) \in Nat /\ DOMAIN raw.entries = 1 .. Len(raw.entries)
           /\ IsFiniteSet(Ids) /\ None \notin Ids
           /\ \A i \in DOMAIN raw.entries : raw.entries[i].id \in Ids
           /\ \A c \in Ids : \E i \in DOMAIN raw.entries : raw.entries[i].id = c
           /\ \A c \in Ids : /\ Get(c) \in Range(raw.entries) /\ Get(c).id = c
                             /\ Get(c).mode \in Modes
<1>1. /\ raw.entries \in Seq(Range(raw.entries))
      /\ \A e \in Range(raw.entries) : e.id # None /\ e.mode \in Modes
  BY SceneAssumption DEF IsFile
<1>2. Len(raw.entries) \in Nat /\ DOMAIN raw.entries = 1 .. Len(raw.entries)
  BY <1>1
<1>3. Range(raw.entries) = {raw.entries[i] : i \in DOMAIN raw.entries}
  BY DEF Range
<1>4. Ids = {raw.entries[i].id : i \in DOMAIN raw.entries}
  BY <1>3 DEF Ids
<1>5. IsFiniteSet(Ids)
  <2> DEFINE f == [i \in DOMAIN raw.entries |-> raw.entries[i].id]
  <2>1. f \in Surjection(DOMAIN raw.entries, Ids)
    BY <1>4 DEF Surjection
  <2>2. IsFiniteSet(1 .. Len(raw.entries))
    BY <1>2, FS_Interval
  <2> QED
    BY <1>2, <2>1, <2>2, FS_Surjection
<1>6. ASSUME NEW c \in Ids
      PROVE  Get(c) \in Range(raw.entries) /\ Get(c).id = c
  <2>1. \E e \in Range(raw.entries) : e.id = c
    BY DEF Ids
  <2> QED
    BY <2>1 DEF Get
<1> QED
  BY <1>1, <1>2, <1>3, <1>4, <1>5, <1>6 DEF Ids

(* child_ids lists the children, and lists none twice. *)
LEMMA ChildIdsList ==
    ASSUME IsFile, NEW c
    PROVE  /\ ChildIds(c) \in Seq(Ids)
           /\ Children(c) = {raw.entries[i].id : i \in Kids(c)}
           /\ \A k \in Children(c) : \E n \in 1 .. Len(ChildIds(c)) : ChildIds(c)[n] = k
           /\ IdsAreUnique => \A m, n \in 1 .. Len(ChildIds(c)) :
                                 ChildIds(c)[m] = ChildIds(c)[n] => m = n
<1> DEFINE K == Kids(c)
           size == Cardinality(K)
           rank(i) == Cardinality({j \in K : j < i})
           nth(n) == CHOOSE i \in K : rank(i) = n - 1
<1>1. K \subseteq 1 .. Len(raw.entries) /\ Len(raw.entries) \in Nat
      /\ DOMAIN raw.entries = 1 .. Len(raw.entries)
  BY FileFacts DEF Kids
<1>2. IsFiniteSet(K) /\ K \subseteq Int
  <2>1. IsFiniteSet(1 .. Len(raw.entries))
    BY <1>1, FS_Interval
  <2>2. IsFiniteSet(K)
    BY <1>1, <2>1, FS_Subset
  <2> QED
    BY <1>1, <2>2
<1> HIDE DEF K
<1>3. /\ size \in Nat
      /\ \A n \in 1 .. size : \E i \in K : rank(i) = n - 1
      /\ \A i \in K : \E n \in 1 .. size : rank(i) = n - 1
      /\ \A i, k \in K : rank(i) = rank(k) => i = k
  BY <1>2, RanksAreTaken
<1>4. ChildIds(c) = [n \in 1 .. size |-> raw.entries[nth(n)].id]
  BY DEF ChildIds, K
<1> HIDE DEF size, rank
<1>5. \A n \in 1 .. size : nth(n) \in K /\ rank(nth(n)) = n - 1
  BY <1>3
<1>6. \A i \in K : \E n \in 1 .. size : nth(n) = i
  <2> SUFFICES ASSUME NEW i \in K
               PROVE  \E n \in 1 .. size : nth(n) = i
    OBVIOUS
  <2>1. PICK n \in 1 .. size : rank(i) = n - 1
    BY <1>3
  <2>2. nth(n) \in K /\ rank(nth(n)) = n - 1
    BY <1>5
  <2> HIDE DEF nth
  <2>3. nth(n) = i
    BY <1>3, <2>1, <2>2
  <2> QED
    BY <2>3
<1> HIDE DEF nth
<1>7. \A n \in 1 .. size : raw.entries[nth(n)].id \in Ids
  BY <1>1, <1>5, FileFacts
<1>8. /\ ChildIds(c) \in [1 .. size -> Ids]
      /\ \A n \in 1 .. size : ChildIds(c)[n] = raw.entries[nth(n)].id
  BY <1>4, <1>7
<1>9. ChildIds(c) \in Seq(Ids) /\ Len(ChildIds(c)) = size /\ DOMAIN ChildIds(c) = 1 .. size
  BY <1>3, <1>8
<1>10. Children(c) = {raw.entries[i].id : i \in K}
  <2>1. Children(c) = {ChildIds(c)[n] : n \in 1 .. size}
    BY <1>9 DEF Children, Range
  <2> QED
    BY <1>5, <1>6, <1>8, <2>1
<1>11. \A k \in Children(c) : \E n \in 1 .. size : ChildIds(c)[n] = k
  BY <1>9 DEF Children, Range
<1>12. ASSUME IdsAreUnique, NEW m \in 1 .. size, NEW n \in 1 .. size,
              ChildIds(c)[m] = ChildIds(c)[n]
       PROVE  m = n
  <2>1. nth(m) = nth(n)
    BY <1>1, <1>5, <1>8, <1>12 DEF IdsAreUnique
  <2>2. m - 1 = n - 1
    BY <1>5, <2>1
  <2> QED
    BY <1>3, <2>2
<1> QED
  BY <1>9, <1>10, <1>11, <1>12 DEF K

(* The children of a category are those that name it as their parent. *)
LEMMA ChildrenAre ==
    ASSUME IsFile, IdsAreUnique, NEW c
    PROVE  Children(c) = {k \in Ids : k # raw.root /\ Get(k).parent = c}
<1>1. \A i \in DOMAIN raw.entries : Get(raw.entries[i].id) = raw.entries[i]
  <2> SUFFICES ASSUME NEW i \in DOMAIN raw.entries
               PROVE  Get(raw.entries[i].id) = raw.entries[i]
    OBVIOUS
  <2>1. /\ raw.entries[i].id \in Ids
        /\ Get(raw.entries[i].id) \in Range(raw.entries)
        /\ Get(raw.entries[i].id).id = raw.entries[i].id
    BY FileFacts
  <2>2. PICK j \in DOMAIN raw.entries : Get(raw.entries[i].id) = raw.entries[j]
    BY <2>1 DEF Range
  <2> QED
    BY <2>1, <2>2 DEF IdsAreUnique
<1>2. Kids(c) = {i \in DOMAIN raw.entries :
                    raw.entries[i].id # raw.root /\ Get(raw.entries[i].id).parent = c}
  BY <1>1 DEF Kids
<1> QED
  BY <1>2, ChildIdsList, FileFacts

(* In an accepted file the children of a category are categories, and so is    *)
(* what a category extends, which is an ENUM.                                  *)
LEMMA ValidFacts ==
    ASSUME IsFile, Valid
    PROVE  /\ raw.root \in Ids /\ Get(raw.root).parent = None
           /\ \A c \in Ids : c # raw.root => Get(c).parent \in Ids /\ c \in Children(Get(c).parent)
           /\ \A c \in Ids : Extended(c) \subseteq {d \in Ids : Get(d).mode = "ENUM"}
           /\ \A c : Children(c) \subseteq Ids
           /\ \A c \in Ids : Feeds(c) \subseteq Ids
<1>1. IdsAreUnique /\ RootKnown /\ WellParented /\ ExtendsEnum
  BY DEF Valid
<1>2. raw.root \in Ids
  BY <1>1 DEF RootKnown
<1>3. \A c \in Ids : Get(c) \in Range(raw.entries) /\ Get(c).id = c
  BY FileFacts
<1>4. Get(raw.root).parent = None /\ \A c \in Ids : c # raw.root => Get(c).parent \in Ids
  BY <1>1, <1>2, <1>3 DEF WellParented
<1>5. \A c : Children(c) = {k \in Ids : k # raw.root /\ Get(k).parent = c}
  BY <1>1, ChildrenAre
<1>6. \A c \in Ids : Extended(c) \subseteq {d \in Ids : Get(d).mode = "ENUM"}
  BY <1>1, <1>3 DEF ExtendsEnum, Extended
<1>7. \A c : Children(c) \subseteq Ids
  BY <1>5
<1>8. \A c \in Ids : Feeds(c) \subseteq Ids
  BY <1>6, <1>7 DEF Feeds
<1> QED
  BY <1>2, <1>4, <1>5, <1>6, <1>7, <1>8

(* _assert_acyclic leaves no cycle: categories that are all children of one    *)
(* another would not be reached from the root.                                 *)
LEMMA NoCycle ==
    ASSUME IsFile, Valid, NEW C \in SUBSET Ids,
           \A c \in C : \E d \in C : c \in Children(d)
    PROVE  C = {}
<1> DEFINE seen == Ids \ C
<1>1. \A c : Children(c) = {k \in Ids : k # raw.root /\ Get(k).parent = c}
  BY ChildrenAre DEF Valid
<1>2. raw.root \in seen
  BY <1>1, ValidFacts
<1>3. \A c \in seen : Children(c) \subseteq seen
  BY <1>1
<1>4. seen = Ids
  <2>1. seen \in SUBSET Ids /\ Reachable
    BY DEF Valid
  <2> HIDE DEF seen
  <2> QED
    BY <1>2, <1>3, <2>1 DEF Reachable
<1> QED
  BY <1>4

-----------------------------------------------------------------------------
(* Visibility.                                                                *)

(* The least closed set over S holds S and is closed. *)
LEMMA VisibleIsLeast ==
    ASSUME IsFile, Valid, NEW S \in SUBSET Ids
    PROVE  /\ S \subseteq VisibleFrom(S) /\ VisibleFrom(S) \subseteq Ids
           /\ Closed(VisibleFrom(S))
           /\ \A T \in SUBSET Ids : S \subseteq T /\ Closed(T) => VisibleFrom(S) \subseteq T
<1>1. S \subseteq VisibleFrom(S) /\ VisibleFrom(S) \subseteq Ids
  BY DEF VisibleFrom
<1>2. \A T \in SUBSET Ids : S \subseteq T /\ Closed(T) => VisibleFrom(S) \subseteq T
  BY DEF VisibleFrom
<1>3. ASSUME NEW c \in VisibleFrom(S), NEW d \in Feeds(c)
      PROVE  d \in VisibleFrom(S)
  <2>1. d \in Ids
    BY <1>1, ValidFacts
  <2>2. ASSUME NEW T \in SUBSET Ids, S \subseteq T, Closed(T)
        PROVE  d \in T
    <3>1. c \in T
      BY <2>2 DEF VisibleFrom
    <3> QED
      BY <2>2, <3>1 DEF Closed
  <2> QED
    BY <2>1, <2>2 DEF VisibleFrom
<1> QED
  BY <1>1, <1>2, <1>3 DEF Closed

(* A chain of categories, each of which feeds the one before it. *)
Linked(p, n) ==
    /\ p \in [1 .. n -> Ids]
    /\ \A i \in 1 .. n - 1 : p[i + 1] \in Feeds(p[i])

(* A closed set that holds a category of a chain holds those after it. *)
LEMMA ClosedAlong ==
    ASSUME NEW n \in Nat, NEW p, Linked(p, n), NEW T \in SUBSET Ids, Closed(T),
           NEW a \in 1 .. n, NEW b \in 1 .. n, a <= b, p[a] \in T
    PROVE  p[b] \in T
<1> DEFINE P == {i \in 1 .. n : p[i] \in T}
<1>1. a \in P
  OBVIOUS
<1>2. ASSUME NEW i \in a .. b - 1, i \in P
      PROVE  i + 1 \in P
  <2>1. i \in 1 .. n - 1 /\ i + 1 \in 1 .. n
    OBVIOUS
  <2> QED
    BY <1>2, <2>1 DEF Linked, Closed
<1>3. b \in P
  <2> HIDE DEF P
  <2>1. a \in Nat /\ b \in Nat
    OBVIOUS
  <2> QED
    BY <1>1, <1>2, <2>1, Along
<1> QED
  BY <1>3

(* A chain longer than there are categories comes back to one of them. *)
LEMMA LongChainRepeats ==
    ASSUME IsFile, NEW n \in Nat, NEW p \in [1 .. n -> Ids], Cardinality(Ids) < n
    PROVE  \E i, j \in 1 .. n : i < j /\ p[i] = p[j]
<1>1. IsFiniteSet(Ids) /\ IsFiniteSet(1 .. n) /\ Cardinality(1 .. n) = n
  BY FileFacts, FS_Interval
<1>2. \E i, j \in 1 .. n : i # j /\ p[i] = p[j]
  BY <1>1, FS_PigeonHole
<1> QED
  BY <1>2

(* Such a loop passes an ENUM, because the children alone make no cycle, and   *)
(* what it passes is visible from itself.                                      *)
LEMMA LoopHasEnum ==
    ASSUME IsFile, Valid, NEW n \in Nat, NEW p, Linked(p, n),
           NEW i \in 1 .. n, NEW j \in 1 .. n, i < j, p[i] = p[j]
    PROVE  \E k \in 1 .. n : Get(p[k]).mode = "ENUM" /\ p[k] \in VisibleFrom(Feeds(p[k]))
<1>1. PICK k \in i + 1 .. j : p[k] \notin Children(p[k - 1])
  <2> SUFFICES ASSUME \A k \in i + 1 .. j : p[k] \in Children(p[k - 1])
               PROVE  FALSE
    OBVIOUS
  <2> DEFINE C == {p[k] : k \in i + 1 .. j}
  <2>1. C \in SUBSET Ids /\ p[j] \in C
    BY DEF Linked
  <2>2. ASSUME NEW k \in i + 1 .. j
        PROVE  \E d \in C : p[k] \in Children(d)
    <3>1. CASE k = i + 1
      <4>1. k - 1 = i /\ p[k] \in Children(p[i])
        BY <3>1
      <4> QED
        BY <2>1, <4>1
    <3>2. CASE k # i + 1
      <4>1. k - 1 \in i + 1 .. j
        BY <3>2
      <4> QED
        BY <4>1
    <3> QED
      BY <3>1, <3>2
  <2>3. \A c \in C : \E d \in C : c \in Children(d)
    BY <2>2
  <2>4. C = {}
    <3> HIDE DEF C
    <3> QED
      BY <2>1, <2>3, NoCycle
  <2> QED
    BY <2>1, <2>4
<1>2. k \in 1 .. n /\ k - 1 \in 1 .. n - 1 /\ (k - 1) + 1 = k /\ k - 1 \in 1 .. n
      /\ i <= k - 1 /\ k <= j
  OBVIOUS
<1>3. p[k] \in Feeds(p[k - 1]) /\ p[k - 1] \in Ids /\ p[k] \in Ids
  BY <1>2 DEF Linked
<1>4. Get(p[k]).mode = "ENUM"
  BY <1>1, <1>3, ValidFacts DEF Feeds
<1>5. ASSUME NEW T \in SUBSET Ids, Feeds(p[k]) \subseteq T, Closed(T)
      PROVE  p[k] \in T
  <2>1. CASE k = j
    <3>1. i \in 1 .. n - 1 /\ i + 1 \in 1 .. n /\ i + 1 <= k
      BY <1>2
    <3>2. p[i + 1] \in T
      BY <1>5, <2>1, <3>1 DEF Linked
    <3> QED
      BY <1>2, <1>5, <3>1, <3>2, ClosedAlong
  <2>2. CASE k # j
    <3>1. k \in 1 .. n - 1 /\ k + 1 \in 1 .. n /\ k + 1 <= j /\ i <= k
      BY <1>2, <2>2
    <3>2. p[k + 1] \in T
      BY <1>5, <3>1 DEF Linked
    <3>3. p[i] \in T
      BY <1>5, <3>1, <3>2, ClosedAlong
    <3> QED
      BY <1>2, <1>5, <3>1, <3>3, ClosedAlong
  <2> QED
    BY <2>1, <2>2
<1> QED
  BY <1>2, <1>3, <1>4, <1>5 DEF VisibleFrom

-----------------------------------------------------------------------------
(* Paths.                                                                     *)

(* Siblings of an accepted file have different names. *)
LEMMA SiblingsDiffer ==
    ASSUME IsFile, Valid, NEW c \in Ids, NEW k \in Children(c), NEW l \in Children(c),
           Get(k).name = Get(l).name
    PROVE  k = l
<1>1. PICK m \in 1 .. Len(ChildIds(c)) : ChildIds(c)[m] = k
  BY ChildIdsList
<1>2. PICK n \in 1 .. Len(ChildIds(c)) : ChildIds(c)[n] = l
  BY ChildIdsList
<1>3. DOMAIN ChildIds(c) = 1 .. Len(ChildIds(c)) /\ UniqueNamesPerParent
  BY ChildIdsList DEF Valid
<1>4. m = n
  BY <1>1, <1>2, <1>3 DEF UniqueNamesPerParent
<1> QED
  BY <1>1, <1>2, <1>4

(* The n categories of a climb from c to the root. *)
Upward(up, n, c) ==
    /\ n \in Nat \ {0} /\ up \in [1 .. n -> Ids] /\ up[1] = c
    /\ \A i \in 1 .. n - 1 : up[i + 1] = Get(up[i]).parent
    /\ Get(up[n]).parent = None

(* path_of comes to an end: every category can be climbed from, without        *)
(* passing one twice.                                                          *)
LEMMA ClimbExists ==
    ASSUME IsFile, Valid, NEW c \in Ids
    PROVE  \E n \in 1 .. Cardinality(Ids) : \E up \in [1 .. n -> Ids] : up[1] = c /\ Climbs(up)
<1> DEFINE Simple(up, n) == \A i, j \in 1 .. n : up[i] = up[j] => i = j
           seen == {d \in Ids : \E n \in Nat : \E up \in [1 .. n -> Ids] :
                                    Upward(up, n, d) /\ Simple(up, n)}
<1>1. raw.root \in seen
  <2> DEFINE up == [i \in 1 .. 1 |-> raw.root]
  <2>1. up \in [1 .. 1 -> Ids] /\ up[1] = raw.root /\ Get(up[1]).parent = None
    BY ValidFacts
  <2> HIDE DEF up
  <2>2. \A i \in 1 .. 1 : i = 1
    OBVIOUS
  <2>3. Upward(up, 1, raw.root) /\ Simple(up, 1)
    BY <2>1, <2>2 DEF Upward
  <2> QED
    BY <2>1, <2>3, ValidFacts
<1>2. ASSUME NEW d \in seen, NEW k \in Children(d)
      PROVE  k \in seen
  <2>1. PICK n \in Nat : \E up \in [1 .. n -> Ids] : Upward(up, n, d) /\ Simple(up, n)
    OBVIOUS
  <2>2. PICK up \in [1 .. n -> Ids] : Upward(up, n, d) /\ Simple(up, n)
    BY <2>1
  <2>3. k \in Ids /\ Get(k).parent = d /\ d \in Ids /\ d # None
    BY ChildrenAre, FileFacts DEF Valid
  <2>4. /\ n \in Nat \ {0} /\ up[1] = d /\ Get(up[n]).parent = None
        /\ \A i \in 1 .. n - 1 : up[i + 1] = Get(up[i]).parent
        /\ \A i, j \in 1 .. n : up[i] = up[j] => i = j
    BY <2>2 DEF Upward
  <2>5. \A i \in 1 .. n : up[i] # k
    <3> SUFFICES ASSUME NEW i \in 1 .. n, up[i] = k
                 PROVE  FALSE
      OBVIOUS
    <3>1. CASE i = n
      BY <2>3, <2>4, <3>1
    <3>2. CASE i # n
      <4>1. i \in 1 .. n - 1 /\ i + 1 \in 1 .. n /\ 1 \in 1 .. n /\ i + 1 # 1
        BY <2>4, <3>2
      <4>2. up[i + 1] = up[1]
        BY <2>3, <2>4, <4>1
      <4> QED
        BY <2>4, <4>1, <4>2
    <3> QED
      BY <3>1, <3>2
  <2> DEFINE longer == [i \in 1 .. n + 1 |-> IF i = 1 THEN k ELSE up[i - 1]]
  <2>6. longer \in [1 .. n + 1 -> Ids] /\ longer[1] = k
        /\ \A i \in 2 .. n + 1 : longer[i] = up[i - 1] /\ i - 1 \in 1 .. n
    <3>1. \A i \in 1 .. n + 1 : i # 1 => i - 1 \in 1 .. n
      OBVIOUS
    <3>2. 1 \in 1 .. n + 1 /\ \A i \in 2 .. n + 1 : i \in 1 .. n + 1 /\ i # 1
      OBVIOUS
    <3> QED
      BY <2>3, <3>1, <3>2
  <2> HIDE DEF longer
  <2>7. ASSUME NEW i \in 1 .. n
        PROVE  longer[i + 1] = Get(longer[i]).parent
    <3>0. i + 1 \in 2 .. n + 1 /\ (i + 1) - 1 = i
      OBVIOUS
    <3>1. longer[i + 1] = up[i]
      BY <2>6, <3>0
    <3>2. CASE i = 1
      BY <2>3, <2>4, <2>6, <3>1, <3>2
    <3>3. CASE i # 1
      <4>1. i \in 2 .. n + 1 /\ i - 1 \in 1 .. n - 1 /\ (i - 1) + 1 = i
        BY <3>3
      <4> QED
        BY <2>4, <2>6, <3>1, <4>1
    <3> QED
      BY <3>2, <3>3
  <2>8. n + 1 \in 2 .. n + 1 /\ (n + 1) - 1 = n /\ n + 1 \in Nat \ {0}
    BY <2>4
  <2>9. Upward(longer, n + 1, k)
    BY <2>4, <2>6, <2>7, <2>8 DEF Upward
  <2>10. ASSUME NEW i \in 1 .. n + 1, NEW j \in 1 .. n + 1, longer[i] = longer[j]
         PROVE  i = j
    <3>1. CASE i = 1 /\ j # 1
      <4>1. j \in 2 .. n + 1
        BY <3>1
      <4> QED
        BY <2>5, <2>6, <2>10, <3>1, <4>1
    <3>2. CASE i # 1 /\ j = 1
      <4>1. i \in 2 .. n + 1
        BY <3>2
      <4> QED
        BY <2>5, <2>6, <2>10, <3>2, <4>1
    <3>3. CASE i # 1 /\ j # 1
      <4>1. i \in 2 .. n + 1 /\ j \in 2 .. n + 1
        BY <3>3
      <4>2. i - 1 = j - 1
        BY <2>4, <2>6, <2>10, <4>1
      <4> QED
        BY <4>2
    <3> QED
      BY <3>1, <3>2, <3>3
  <2> QED
    BY <2>3, <2>6, <2>8, <2>9, <2>10
<1>3. seen = Ids
  <2>1. seen \in SUBSET Ids /\ Reachable
    BY DEF Valid
  <2> HIDE DEF seen
  <2> QED
    BY <1>1, <1>2, <2>1 DEF Reachable
<1>4. PICK n \in Nat : \E up \in [1 .. n -> Ids] : Upward(up, n, c) /\ Simple(up, n)
  BY <1>3
<1>5. PICK up \in [1 .. n -> Ids] : Upward(up, n, c) /\ Simple(up, n)
  BY <1>4
<1>6. n <= Cardinality(Ids)
  <2>1. up \in Injection(1 .. n, Ids)
    BY <1>5 DEF Injection, IsInjective
  <2>2. Cardinality(1 .. n) = n
    BY FS_Interval
  <2> QED
    BY <2>1, <2>2, FileFacts, FS_Injection
<1>7. Len(up) = n
  OBVIOUS
<1>8. n \in Nat \ {0} /\ up[1] = c /\ Climbs(up)
  BY <1>5, <1>7 DEF Upward, Climbs
<1>9. n \in 1 .. Cardinality(Ids)
  BY <1>6, <1>8, FileFacts, FS_CardinalityType
<1> QED
  BY <1>8, <1>9

(* What path_of joins is the names of a climb, read from the root. *)
LEMMA PathIs ==
    ASSUME IsFile, Valid, NEW c \in Ids
    PROVE  \E n \in Nat \ {0} : \E up \in [1 .. n -> Ids] :
               /\ Upward(up, n, c) /\ up = ClimbFrom(c)
               /\ PathOf(c) = Join([i \in 1 .. n |-> Get(up[n + 1 - i]).name])
<1> DEFINE all == UNION {[1 .. n -> Ids] : n \in 1 .. Cardinality(Ids)}
           it == CHOOSE up \in all : up[1] = c /\ Climbs(up)
<1>1. \E up \in all : up[1] = c /\ Climbs(up)
  BY ClimbExists
<1>2. it \in all /\ it[1] = c /\ Climbs(it)
  <2> HIDE DEF all
  <2> QED
    BY <1>1
<1>3. it = ClimbFrom(c)
  BY DEF ClimbFrom
<1> HIDE DEF it
<1>4. PICK n \in 1 .. Cardinality(Ids) : it \in [1 .. n -> Ids]
  BY <1>2
<1>5. Cardinality(Ids) \in Nat
  BY FileFacts, FS_CardinalityType
<1>6. n \in Nat \ {0}
  BY <1>5
<1>7. Len(it) = n
  BY <1>4, <1>6
<1>8. Upward(it, n, c)
  BY <1>2, <1>4, <1>6, <1>7 DEF Upward, Climbs
<1>9. PathOf(c) = Join([i \in 1 .. n |-> Get(it[n + 1 - i]).name])
  BY <1>3, <1>7, Zenon DEF PathOf
<1> QED
  BY <1>3, <1>4, <1>6, <1>8, <1>9

LEMMA LengthIs ==
    ASSUME NEW n \in Nat, NEW N, NEW f \in [1 .. n -> N]
    PROVE  Len(f) = n
OBVIOUS

(* The segments of joined names are numbered from 1 on. *)
LEMMA JoinIsList ==
    ASSUME NEW n \in Nat, NEW names, DOMAIN names = 1 .. n,
           \A i \in 1 .. n : names[i] \in Seq(Range(names[i]))
    PROVE  \E m \in Nat : DOMAIN Join(names) = 1 .. m
<1> DEFINE block(i) == {i} \X DOMAIN names[i]
           blocks == {block(i) : i \in DOMAIN names}
           f == [i \in 1 .. n |-> block(i)]
<1>1. IsFiniteSet(blocks)
  <2>1. f \in Surjection(1 .. n, blocks)
    <3> HIDE DEF block
    <3> QED
      BY DEF Surjection
  <2> HIDE DEF blocks, f
  <2>2. IsFiniteSet(1 .. n)
    BY FS_Interval
  <2> QED
    BY <2>1, <2>2, FS_Surjection
<1>2. ASSUME NEW i \in 1 .. n
      PROVE  IsFiniteSet(block(i))
  <2>1. Len(names[i]) \in Nat /\ DOMAIN names[i] = 1 .. Len(names[i])
    OBVIOUS
  <2>2. IsFiniteSet(DOMAIN names[i])
    BY <2>1, FS_Interval
  <2>3. IsFiniteSet({i})
    BY FS_Singleton
  <2> QED
    BY <2>2, <2>3, FS_Product
<1>3. IsFiniteSet(UNION blocks)
  <2>1. \A b \in blocks : IsFiniteSet(b)
    <3> HIDE DEF block
    <3> QED
      BY <1>2
  <2> HIDE DEF blocks
  <2> QED
    BY <1>1, <2>1, FS_UNION
<1>4. Cardinality(UNION blocks) \in Nat
  <2> HIDE DEF blocks
  <2> QED
    BY <1>3, FS_CardinalityType
<1>5. DOMAIN Join(names) = 1 .. Cardinality(UNION blocks)
  BY DEF Join
<1> QED
  BY <1>4, <1>5

(* Joined plain names are a list of the names. *)
LEMMA JoinIsPlain ==
    ASSUME NEW n \in Nat, NEW names, DOMAIN names = 1 .. n,
           \A i \in 1 .. n : Plain(names[i]) /\ names[i] \in Seq(Range(names[i]))
    PROVE  Join(names) = [i \in 1 .. n |-> names[i][1]]
<1> DEFINE places == UNION {{i} \X DOMAIN names[i] : i \in DOMAIN names}
           Before(p, q) == p[1] < q[1] \/ (p[1] = q[1] /\ p[2] < q[2])
           rank(p) == Cardinality({q \in places : Before(q, p)})
           Nth(k) == CHOOSE p \in places : rank(p) = k - 1
           firsts(m) == {<<j, 1>> : j \in 1 .. m}
<1>1. \A i \in 1 .. n : DOMAIN names[i] = {1}
  <2> SUFFICES ASSUME NEW i \in 1 .. n
               PROVE  DOMAIN names[i] = {1}
    OBVIOUS
  <2>1. Plain(names[i]) /\ names[i] \in Seq(Range(names[i]))
    OBVIOUS
  <2>2. DOMAIN names[i] = 1 .. Len(names[i])
    BY <2>1
  <2>3. Len(names[i]) = 1
    BY <2>1 DEF Plain
  <2> QED
    BY <2>2, <2>3
<1>2. places = firsts(n)
  BY <1>1
<1>3. ASSUME NEW m \in Nat
      PROVE  Cardinality(firsts(m)) = m
  <2> DEFINE S == firsts(m)
             f == [j \in 1 .. m |-> <<j, 1>>]
  <2>1. f \in Surjection(1 .. m, S) /\ f \in Injection(1 .. m, S)
    BY DEF Surjection, Injection, IsInjective
  <2>2. IsFiniteSet(1 .. m) /\ Cardinality(1 .. m) = m
    BY FS_Interval
  <2> HIDE DEF f, S
  <2>3. Cardinality(S) = m
    BY <2>1, <2>2, FS_Surjection
  <2> QED
    BY <2>3 DEF S
<1>4. ASSUME NEW i \in 1 .. n
      PROVE  <<i, 1>> \in places /\ rank(<<i, 1>>) = i - 1
  <2>1. {q \in places : Before(q, <<i, 1>>)} = firsts(i - 1)
    BY <1>2
  <2>2. i - 1 \in Nat
    OBVIOUS
  <2>3. <<i, 1>> \in places
    BY <1>2
  <2> HIDE DEF places, Before, firsts
  <2> QED
    BY <1>3, <2>1, <2>2, <2>3
<1>5. ASSUME NEW k \in 1 .. n
      PROVE  Nth(k) = <<k, 1>>
  <2>1. ASSUME NEW p \in places, rank(p) = k - 1
        PROVE  p = <<k, 1>>
    <3>1. PICK i \in 1 .. n : p = <<i, 1>>
      BY <1>2
    <3>2. rank(p) = i - 1
      BY <1>4, <3>1
    <3> HIDE DEF rank, places
    <3> QED
      BY <2>1, <3>1, <3>2
  <2>2. <<k, 1>> \in places /\ rank(<<k, 1>>) = k - 1
    BY <1>4
  <2> HIDE DEF rank, places
  <2> QED
    BY <2>1, <2>2
<1>6. Cardinality(places) = n
  <2> HIDE DEF places, firsts
  <2> QED
    BY <1>2, <1>3
<1>7. Join(names) = [k \in 1 .. Cardinality(places) |-> names[Nth(k)[1]][Nth(k)[2]]]
  BY DEF Join
<1> HIDE DEF places, Before, rank, Nth, firsts
<1> QED
  BY <1>5, <1>6, <1>7

(* The segments resolve_path keeps: none of them empty, all of them if none is. *)
LEMMA PartsAre ==
    ASSUME NEW n \in Nat, NEW path, DOMAIN path = 1 .. n
    PROVE  \E m \in Nat : /\ DOMAIN Parts(path) = 1 .. m /\ Len(Parts(path)) = m
                          /\ m = 0 => Parts(path) = <<>>
                          /\ \A k \in 1 .. m : Parts(path)[k] # Blank
                          /\ (\A i \in 1 .. n : path[i] # Blank) =>
                                 m = n /\ \A k \in 1 .. n : Parts(path)[k] = path[k]
<1> DEFINE full == {i \in 1 .. n : path[i] # Blank}
           rank(i) == Cardinality({j \in full : j < i})
           Nth(k) == CHOOSE i \in full : rank(i) = k - 1
           m == Cardinality(full)
<1>1. full \subseteq Int /\ IsFiniteSet(full)
  <2>0. \A i \in full : i \in 1 .. n
    OBVIOUS
  <2>1. full \in SUBSET (1 .. n) /\ full \subseteq Int
    <3> HIDE DEF full
    <3> QED
      BY <2>0
  <2> HIDE DEF full, rank, Nth, m
  <2>2. IsFiniteSet(1 .. n)
    BY FS_Interval
  <2> QED
    BY <2>1, <2>2, FS_Subset
<1>2. Parts(path) = [k \in 1 .. m |-> path[Nth(k)]]
  BY DEF Parts
<1>3. m \in Nat /\ \A k \in 1 .. m : \E i \in full : rank(i) = k - 1
  <2> HIDE DEF full
  <2> QED
    BY <1>1, RanksAreTaken
<1>4. ASSUME NEW k \in 1 .. m
      PROVE  Nth(k) \in full /\ rank(Nth(k)) = k - 1
  <2> HIDE DEF full, rank
  <2> QED
    BY <1>3
<1>5. \A k \in 1 .. m : path[Nth(k)] # Blank
  <2> HIDE DEF Nth, m
  <2> QED
    BY <1>4
<1>6. ASSUME \A i \in 1 .. n : path[i] # Blank
      PROVE  m = n /\ \A k \in 1 .. n : Nth(k) = k
  <2>1. full = 1 .. n
    BY <1>6
  <2>2. m = n
    <3>1. Cardinality(1 .. n) = n
      <4> HIDE DEF full, rank, Nth, m
      <4> QED
        BY FS_Interval
    <3> QED
      BY <2>1, <3>1
  <2>3. ASSUME NEW i \in 1 .. n
        PROVE  rank(i) = i - 1
    <3>1. {j \in full : j < i} = 1 .. i - 1
      <4> HIDE DEF full
      <4> QED
        BY <2>1
    <3>2. Cardinality(1 .. i - 1) = i - 1
      <4> HIDE DEF full, rank, Nth, m
      <4>1. 1 \in Int /\ i - 1 \in Int
        OBVIOUS
      <4>2. Cardinality(1 .. i - 1) = IF 1 > i - 1 THEN 0 ELSE (i - 1) - 1 + 1
        BY <4>1, FS_Interval
      <4> QED
        BY <4>2
    <3> QED
      BY <3>1, <3>2
  <2> HIDE DEF rank, Nth, m
  <2>4. ASSUME NEW k \in 1 .. n
        PROVE  Nth(k) = k
    <3>1. Nth(k) \in 1 .. n /\ rank(Nth(k)) = k - 1
      BY <1>4, <2>1, <2>2
    <3>2. rank(Nth(k)) = Nth(k) - 1
      BY <2>3, <3>1
    <3> QED
      BY <3>1, <3>2
  <2> QED
    BY <2>2, <2>4
<1> HIDE DEF full, rank, Nth, m
<1>7. DOMAIN Parts(path) = 1 .. m /\ \A k \in 1 .. m : Parts(path)[k] = path[Nth(k)]
  BY <1>2
<1>8. Len(Parts(path)) = m
  <2> DEFINE R == {path[Nth(k)] : k \in 1 .. m}
  <2>1. Parts(path) \in [1 .. m -> R]
    BY <1>2
  <2> HIDE DEF R
  <2> QED
    BY <1>3, <2>1, LengthIs
<1>9. m = 0 => Parts(path) = <<>>
  BY <1>2
<1> QED
  BY <1>3, <1>5, <1>6, <1>7, <1>8, <1>9

(* A name is a list of segments. *)
LEMMA NameIs ==
    ASSUME IsFile, NEW c \in Ids
    PROVE  Get(c).name \in Seq(Range(Get(c).name))
<1>1. Get(c) \in Range(raw.entries)
  BY FileFacts
<1> QED
  BY <1>1, SceneAssumption DEF IsFile

(* The n categories from the root to c, each named by one of the parts. *)
Downward(w, n, c, parts) ==
    /\ n \in Nat \ {0} /\ w \in [1 .. n -> Ids] /\ w[n] = c /\ w[1] = raw.root
    /\ \A i \in 2 .. n : w[i - 1] = Get(w[i]).parent
    /\ Len(parts) = n
    /\ \A i \in 1 .. n : Get(w[i]).name = <<parts[i]>>

(* resolve_path retraces a climb whose names are all plain: the trail of the   *)
(* names from the root is the only one.                                        *)
LEMMA PlainResolves ==
    ASSUME IsFile, Valid, NEW c \in Ids, NEW n, NEW w, NEW parts, Downward(w, n, c, parts)
    PROVE  /\ Trails(parts) # {}
           /\ \A d \in Trails(parts) : d[n] = c
<1>0. /\ n \in Nat \ {0} /\ w \in [1 .. n -> Ids] /\ w[n] = c /\ w[1] = raw.root
      /\ \A i \in 2 .. n : w[i - 1] = Get(w[i]).parent
      /\ Len(parts) = n
      /\ \A i \in 1 .. n : Get(w[i]).name = <<parts[i]>>
  BY DEF Downward
<1> USE <1>0
<1>1. ASSUME NEW i \in 2 .. n
      PROVE  Matches(w[i - 1], parts[i]) = {w[i]} /\ i - 1 \in 1 .. n /\ i \in 1 .. n
  <2>1. i \in 1 .. n /\ i - 1 \in 1 .. n
    OBVIOUS
  <2>2. w[i - 1] = Get(w[i]).parent /\ w[i] \in Ids /\ w[i - 1] \in Ids
    BY <2>1
  <2>3. w[i] \in Children(w[i - 1])
    <3>1. w[i] # raw.root
      BY <2>2, FileFacts, ValidFacts
    <3> QED
      BY <2>2, <3>1, ChildrenAre DEF Valid
  <2>4. Get(w[i]).name = <<parts[i]>>
    BY <2>1
  <2>5. \A k \in Children(w[i - 1]) : Get(k).name = <<parts[i]>> => k = w[i]
    BY <2>2, <2>3, <2>4, SiblingsDiffer
  <2> QED
    BY <2>1, <2>3, <2>4, <2>5 DEF Matches
<1>2. Get(raw.root).name = <<parts[1]>>
  <2>1. 1 \in 1 .. n
    OBVIOUS
  <2> QED
    BY <2>1
<1>3. w \in Trails(parts)
  BY <1>1, <1>2 DEF Trails
<1>4. ASSUME NEW d \in Trails(parts)
      PROVE  d[n] = c
  <2>1. /\ d \in [1 .. n -> Ids] /\ d[1] = raw.root
        /\ \A i \in 2 .. n : Matches(d[i - 1], parts[i]) = {d[i]}
    BY DEF Trails
  <2> DEFINE P == {i \in 1 .. n : d[i] = w[i]}
  <2>2. 1 \in P
    BY <2>1
  <2>3. ASSUME NEW i \in 1 .. n - 1, i \in P
        PROVE  i + 1 \in P
    <3>1. i + 1 \in 2 .. n /\ (i + 1) - 1 = i /\ i + 1 \in 1 .. n
      OBVIOUS
    <3>2. {d[i + 1]} = {w[i + 1]}
      <4>1. Matches(d[i], parts[i + 1]) = {d[i + 1]}
        BY <2>1, <3>1
      <4>2. Matches(w[i], parts[i + 1]) = {w[i + 1]}
        BY <1>1, <3>1
      <4>3. d[i] = w[i]
        BY <2>3
      <4> QED
        BY <4>1, <4>2, <4>3
    <3> QED
      BY <3>1, <3>2
  <2>4. n \in P
    <3> HIDE DEF P
    <3>1. 1 \in Nat /\ n \in Nat /\ 1 <= n
      OBVIOUS
    <3> QED
      BY <2>2, <2>3, <3>1, Along
  <2> QED
    BY <2>4
<1> QED
  BY <1>3, <1>4

(* A trail of m parts that ends in c. *)
TrailTo(d, m, parts, c) ==
    m \in Nat \ {0} /\ Len(parts) = m /\ d \in Trails(parts) /\ d[m] = c

(* The climb has the names of the parts. *)
NamedBy(up, n, m, parts) == n = m /\ \A i \in 1 .. n : Get(up[i]).name = <<parts[n + 1 - i]>>

(* A trail that ends in a category is its climb, read from the root, and every *)
(* name on it is one segment.                                                  *)
LEMMA TrailIsClimb ==
    ASSUME IsFile, Valid, NEW c \in Ids, NEW n, NEW up, Upward(up, n, c),
           NEW m, NEW parts, NEW d, TrailTo(d, m, parts, c)
    PROVE  NamedBy(up, n, m, parts)
<1>0. /\ n \in Nat \ {0} /\ up \in [1 .. n -> Ids]
      /\ m \in Nat \ {0} /\ Len(parts) = m /\ d \in Trails(parts) /\ d[m] = c
  BY DEF Upward, TrailTo
<1> USE <1>0
<1>1. /\ d \in [1 .. m -> Ids] /\ d[1] = raw.root /\ Get(raw.root).name = <<parts[1]>>
      /\ \A k \in 2 .. m : Matches(d[k - 1], parts[k]) = {d[k]}
  BY DEF Trails
<1>2. /\ up[1] = c /\ Get(up[n]).parent = None
      /\ \A i \in 1 .. n - 1 : up[i + 1] = Get(up[i]).parent
  BY DEF Upward
<1>3. ASSUME NEW k \in 2 .. m
      PROVE  Get(d[k]).parent = d[k - 1] /\ Get(d[k]).name = <<parts[k]>> /\ d[k - 1] # None
  <2>1. k - 1 \in 1 .. m /\ d[k - 1] \in Ids
    BY <1>1
  <2>2. d[k] \in Matches(d[k - 1], parts[k])
    BY <1>1
  <2>3. d[k] \in Children(d[k - 1]) /\ Get(d[k]).name = <<parts[k]>>
    BY <2>2 DEF Matches
  <2>4. Get(d[k]).parent = d[k - 1]
    BY <2>3, ChildrenAre DEF Valid
  <2> QED
    BY <2>1, <2>3, <2>4, FileFacts
<1> DEFINE Q == {i \in 1 .. m : i <= n /\ up[i] = d[m + 1 - i]}
<1>4. 1 \in Q
  <2>1. m + 1 - 1 = m /\ 1 \in 1 .. m /\ 1 <= n
    OBVIOUS
  <2> QED
    BY <1>2, <2>1
<1>5. ASSUME NEW i \in 1 .. m - 1, i \in Q
      PROVE  i + 1 \in Q
  <2> DEFINE k == m + 1 - i
  <2>1. k \in 2 .. m /\ k - 1 = m + 1 - (i + 1) /\ i + 1 \in 1 .. m
    OBVIOUS
  <2>2. up[i] = d[k] /\ i <= n
    BY <1>5
  <2> HIDE DEF k
  <2>3. Get(up[i]).parent = d[k - 1] /\ d[k - 1] # None
    BY <1>3, <2>1, <2>2
  <2>4. i \in 1 .. n - 1 /\ i + 1 <= n
    BY <1>2, <2>2, <2>3
  <2>5. up[i + 1] = d[k - 1]
    BY <1>2, <2>3, <2>4
  <2> QED
    BY <2>1, <2>4, <2>5
<1>6. ASSUME NEW i \in 1 .. m
      PROVE  i \in Q
  <2> HIDE DEF Q
  <2>1. 1 \in Nat /\ i \in Nat /\ 1 <= i /\ \A j \in 1 .. i - 1 : j \in 1 .. m - 1
    OBVIOUS
  <2> QED
    BY <1>4, <1>5, <2>1, Along
<1>7. n = m
  <2>1. m \in Q /\ m + 1 - m = 1
    BY <1>6
  <2>2. m <= n /\ up[m] = raw.root
    BY <1>1, <2>1
  <2>3. ASSUME m < n
        PROVE  FALSE
    <3>1. up[m + 1] = None /\ m + 1 \in 1 .. n
      BY <1>2, <2>2, <2>3, ValidFacts
    <3> QED
      BY <3>1, FileFacts
  <2> QED
    BY <2>2, <2>3
<1>8. ASSUME NEW i \in 1 .. n
      PROVE  Get(up[i]).name = <<parts[n + 1 - i]>>
  <2> DEFINE k == n + 1 - i
  <2>1. k \in 1 .. m /\ (k = 1 \/ k \in 2 .. m)
    BY <1>7
  <2>2. up[i] = d[k]
    BY <1>6, <1>7
  <2> HIDE DEF k
  <2>3. Get(d[k]).name = <<parts[k]>>
    BY <1>1, <1>3, <2>1
  <2> QED
    BY <2>2, <2>3 DEF k
<1> QED
  BY <1>7, <1>8 DEF NamedBy

(* resolve_path goes back to a category just when each name on its path is     *)
(* plain.                                                                      *)
LEMMA PathResolves ==
    ASSUME IsFile, Valid, NEW c \in Ids
    PROVE  ResolvePath(PathOf(c)) = c <=>
               \A i \in DOMAIN ClimbFrom(c) : Plain(Get(ClimbFrom(c)[i]).name)
<1>1. PICK n \in Nat \ {0} : \E up \in [1 .. n -> Ids] :
               /\ Upward(up, n, c) /\ up = ClimbFrom(c)
               /\ PathOf(c) = Join([i \in 1 .. n |-> Get(up[n + 1 - i]).name])
  BY PathIs
<1>2. PICK up \in [1 .. n -> Ids] :
               /\ Upward(up, n, c) /\ up = ClimbFrom(c)
               /\ PathOf(c) = Join([i \in 1 .. n |-> Get(up[n + 1 - i]).name])
  BY <1>1
<1> DEFINE names == [i \in 1 .. n |-> Get(up[n + 1 - i]).name]
           path == Join(names)
           parts == Parts(path)
<1>3. PathOf(c) = path
  BY <1>2
<1>4. \A i \in 1 .. n : n + 1 - i \in 1 .. n /\ n + 1 - (n + 1 - i) = i
  OBVIOUS
<1>5. /\ DOMAIN names = 1 .. n
      /\ \A i \in 1 .. n : /\ names[i] = Get(up[n + 1 - i]).name
                           /\ names[i] \in Seq(Range(names[i]))
  <2>1. DOMAIN names = 1 .. n /\ \A i \in 1 .. n : names[i] = Get(up[n + 1 - i]).name
    OBVIOUS
  <2> HIDE DEF names
  <2> QED
    BY <1>4, <2>1, NameIs
<1> HIDE DEF names
<1>6. PICK l \in Nat : DOMAIN path = 1 .. l
  BY <1>5, JoinIsList
<1> HIDE DEF path
<1>7. PICK m \in Nat : /\ DOMAIN parts = 1 .. m /\ Len(parts) = m
                       /\ m = 0 => parts = <<>>
                       /\ \A k \in 1 .. m : parts[k] # Blank
                       /\ (\A i \in 1 .. l : path[i] # Blank) =>
                              m = l /\ \A k \in 1 .. l : parts[k] = path[k]
  BY <1>6, PartsAre
<1> HIDE DEF parts
<1> DEFINE trail == CHOOSE d \in Trails(parts) : TRUE
<1>8. ResolvePath(path) = IF parts = <<>> \/ Trails(parts) = {} THEN None ELSE trail[m]
  <2>1. ResolvePath(path) = IF parts = <<>> \/ Trails(parts) = {} THEN None
                            ELSE trail[Len(parts)]
    BY DEF ResolvePath, parts
  <2> HIDE DEF trail
  <2> QED
    BY <1>7, <2>1
<1>9. Trails(parts) # {} => trail \in Trails(parts)
  OBVIOUS
<1> HIDE DEF trail
<1>10. c # None
  BY FileFacts
<1>11. ASSUME \A i \in 1 .. n : Plain(names[i])
       PROVE  ResolvePath(path) = c
  <2>1. path = [i \in 1 .. n |-> names[i][1]]
    BY <1>5, <1>11, JoinIsPlain DEF path
  <2>2. \A i \in 1 .. n : names[i] = <<names[i][1]>> /\ names[i][1] # Blank
    <3> SUFFICES ASSUME NEW i \in 1 .. n
                 PROVE  names[i] = <<names[i][1]>> /\ names[i][1] # Blank
      OBVIOUS
    <3>1. Len(names[i]) = 1 /\ names[i][1] # Blank
      BY <1>11 DEF Plain
    <3>2. names[i] \in Seq(Range(names[i]))
      BY <1>5
    <3> QED
      BY <3>1, <3>2
  <2>3. DOMAIN path = 1 .. n /\ \A i \in 1 .. n : path[i] = names[i][1]
    BY <2>1
  <2>4. l = n
    BY <1>6, <2>3
  <2>5. m = n /\ \A k \in 1 .. n : parts[k] = names[k][1]
    BY <1>7, <2>2, <2>3, <2>4
  <2> DEFINE w == [i \in 1 .. n |-> up[n + 1 - i]]
  <2>6. w \in [1 .. n -> Ids] /\ \A i \in 1 .. n : w[i] = up[n + 1 - i]
    BY <1>4
  <2> HIDE DEF w
  <2>7. w[n] = c /\ w[1] = up[n]
    <3>1. n \in 1 .. n /\ 1 \in 1 .. n /\ n + 1 - n = 1 /\ n + 1 - 1 = n
      OBVIOUS
    <3> QED
      BY <1>2, <2>6, <3>1 DEF Upward
  <2>8. w[1] = raw.root
    <3>1. up[n] \in Ids /\ Get(up[n]).parent = None
      BY <1>2 DEF Upward
    <3> QED
      BY <2>7, <3>1, ValidFacts, FileFacts
  <2>9. ASSUME NEW i \in 2 .. n
        PROVE  w[i - 1] = Get(w[i]).parent
    <3>1. /\ i \in 1 .. n /\ i - 1 \in 1 .. n /\ n + 1 - i \in 1 .. n - 1
          /\ n + 1 - (i - 1) = (n + 1 - i) + 1
      OBVIOUS
    <3> QED
      BY <1>2, <2>6, <3>1 DEF Upward
  <2>10. ASSUME NEW i \in 1 .. n
         PROVE  Get(w[i]).name = <<parts[i]>>
    BY <1>5, <2>2, <2>5, <2>6
  <2>11. Len(parts) = n /\ parts # <<>>
    BY <1>7, <2>5
  <2>12. Trails(parts) # {} /\ \A d \in Trails(parts) : d[n] = c
    <3>1. Downward(w, n, c, parts)
      BY <2>6, <2>7, <2>8, <2>9, <2>10, <2>11 DEF Downward
    <3> QED
      BY <3>1, PlainResolves
  <2> QED
    BY <1>8, <1>9, <2>5, <2>11, <2>12
<1>12. ASSUME ResolvePath(path) = c, NEW i \in 1 .. n
       PROVE  Plain(Get(up[i]).name)
  <2>1. parts # <<>> /\ trail \in Trails(parts) /\ trail[m] = c
    BY <1>8, <1>9, <1>10, <1>12
  <2>2. m \in Nat \ {0} /\ Len(parts) = m
    BY <1>7, <2>1
  <2>3. n = m /\ Get(up[i]).name = <<parts[n + 1 - i]>>
    <3>1. Upward(up, n, c) /\ TrailTo(trail, m, parts, c)
      BY <1>2, <2>1, <2>2 DEF TrailTo
    <3>2. NamedBy(up, n, m, parts)
      BY <3>1, TrailIsClimb, Zenon
    <3> QED
      BY <3>2 DEF NamedBy
  <2>4. parts[n + 1 - i] # Blank
    BY <1>4, <1>7, <2>3
  <2> QED
    BY <2>3, <2>4 DEF Plain
<1>13. (\A i \in 1 .. n : Plain(names[i])) <=> \A i \in 1 .. n : Plain(Get(up[i]).name)
  BY <1>4, <1>5
<1>14. DOMAIN up = 1 .. n /\ up = ClimbFrom(c)
  BY <1>2
<1>15. ResolvePath(path) = c <=> \A i \in 1 .. n : Plain(Get(up[i]).name)
  BY <1>11, <1>12, <1>13
<1> QED
  BY <1>3, <1>14, <1>15

-----------------------------------------------------------------------------
(* The calls of the walk.                                                     *)

(* What the mode table says of the search of a scene. *)
LEMMA ModeFacts ==
    ASSUME NEW m \in Modes
    PROVE  \/ ModeProps[m].searches_down /\ ModeProps[m].search_depth \in {"all", "immediate"}
           \/ ~ModeProps[m].searches_down /\ ModeProps[m].search_depth = "none"
BY DEF Modes, ModeProps

Call == [cat : Ids, enum : BOOLEAN, budget : Budget, depth : Nat]

(* The category a call is on, with its budget. *)
Node(call) == <<call.cat, call.budget>>
Nodes(calls) == {Node(calls[i]) : i \in 1 .. Len(calls)}

(* Calls on what can be fed to c, each at most two frames deeper. *)
Deeper(calls, S, depth) ==
    \A i \in 1 .. Len(calls) :
        /\ calls[i].cat \in S /\ calls[i].depth <= depth + 2
        /\ calls[i].enum => Get(calls[i].cat).mode = "ENUM"

(* A list of calls on children. *)
LEMMA CallsAre ==
    ASSUME IsFile, Valid, NEW c \in Ids, NEW budget \in Budget, NEW depth \in Nat
    PROVE  /\ Calls(ChildIds(c), budget, depth + 1) \in Seq(Call)
           /\ Nodes(Calls(ChildIds(c), budget, depth + 1)) = Children(c) \X {budget}
           /\ Deeper(Calls(ChildIds(c), budget, depth + 1), Children(c), depth)
<1> DEFINE cs == ChildIds(c)
           n == Len(cs)
           d == depth + 1
           calls == Calls(cs, budget, d)
<1>1. cs \in Seq(Ids) /\ n \in Nat /\ d \in Nat /\ d <= depth + 2
  BY ChildIdsList
<1>2. Children(c) = {cs[i] : i \in 1 .. n}
  BY <1>1 DEF Children, Range
<1> HIDE DEF cs, d
<1>3. calls = [i \in 1 .. n |-> [cat |-> cs[i], enum |-> FALSE, budget |-> budget, depth |-> d]]
  BY DEF Calls
<1> HIDE DEF calls, n
<1>4. \A i \in 1 .. n : cs[i] \in Ids /\ cs[i] \in Children(c)
  BY <1>1, <1>2 DEF n
<1>5. \A i \in 1 .. n : /\ calls[i].cat = cs[i] /\ calls[i].budget = budget
                        /\ calls[i].depth = d /\ calls[i].enum = FALSE
  BY <1>3
<1>6. \A i \in 1 .. n : calls[i] \in Call
  BY <1>1, <1>3, <1>4 DEF Call
<1>7. calls \in Seq(Call) /\ Len(calls) = n
  <2>1. calls \in [1 .. n -> Call]
    BY <1>3, <1>6
  <2> QED
    BY <1>1, <2>1
<1>8. Nodes(calls) = Children(c) \X {budget}
  <2>1. Nodes(calls) = {<<cs[i], budget>> : i \in 1 .. n}
    BY <1>5, <1>7 DEF Nodes, Node
  <2> QED
    BY <1>2, <2>1
<1>9. Deeper(calls, Children(c), depth)
  BY <1>1, <1>4, <1>5, <1>7 DEF Deeper
<1> QED
  BY <1>7, <1>8, <1>9 DEF calls, cs, d

(* The call on the ENUM a category extends. *)
LEMMA EnumCallIs ==
    ASSUME IsFile, Valid, NEW c \in Ids, NEW depth \in Nat
    PROVE  /\ EnumCall(c, depth + 1) \in Seq(Call)
           /\ Nodes(EnumCall(c, depth + 1)) = Extended(c) \X {Unbounded}
           /\ Deeper(EnumCall(c, depth + 1), Extended(c), depth)
<1> DEFINE e == Get(c).extends
           d == (depth + 1) + 1
           call == [cat |-> e, enum |-> TRUE, budget |-> Unbounded, depth |-> d]
<1>1. CASE e = None
  <2>1. EnumCall(c, depth + 1) = <<>> /\ Extended(c) = {}
    BY <1>1 DEF EnumCall, Extended
  <2>2. Nodes(<<>>) = {} /\ Deeper(<<>>, Extended(c), depth) /\ <<>> \in Seq(Call)
    BY DEF Nodes, Deeper
  <2>3. {} \X {Unbounded} = {}
    OBVIOUS
  <2> QED
    BY <2>1, <2>2, <2>3
<1>2. CASE e # None
  <2>1. EnumCall(c, depth + 1) = <<call>> /\ Extended(c) = {e}
    BY <1>2 DEF EnumCall, Extended
  <2>2. e \in Ids /\ Get(e).mode = "ENUM"
    BY <2>1, ValidFacts
  <2>3. d \in Nat /\ d <= depth + 2
    OBVIOUS
  <2> HIDE DEF d, e
  <2>4. /\ call \in Call /\ call.cat = e /\ call.budget = Unbounded /\ call.depth = d
        /\ call.enum = TRUE
    BY <2>2, <2>3 DEF Call, Budget
  <2> HIDE DEF call
  <2>5. <<call>> \in Seq(Call) /\ Len(<<call>>) = 1 /\ <<call>>[1] = call
    BY <2>4
  <2>6. \A i \in 1 .. Len(<<call>>) : <<call>>[i] = call
    BY <2>5
  <2>7. Nodes(<<call>>) = {<<e, Unbounded>>}
    BY <2>4, <2>5, <2>6 DEF Nodes, Node
  <2>8. Deeper(<<call>>, Extended(c), depth)
    BY <2>1, <2>2, <2>3, <2>4, <2>6 DEF Deeper
  <2>9. {<<e, Unbounded>>} = {e} \X {Unbounded}
    OBVIOUS
  <2> QED
    BY <2>1, <2>5, <2>7, <2>8, <2>9
<1> QED
  BY <1>1, <1>2

(* No calls, and the calls of two lists. *)
LEMMA NoCalls ==
    ASSUME NEW S, NEW depth
    PROVE  <<>> \in Seq(Call) /\ Nodes(<<>>) = {} /\ Deeper(<<>>, S, depth)
BY DEF Nodes, Deeper

(* What is in two lists one after the other. *)
LEMMA Joined ==
    ASSUME NEW X, NEW a \in Seq(X), NEW b \in Seq(X), NEW s, s = a \o b
    PROVE  /\ s \in Seq(X)
           /\ \A i \in 1 .. Len(s) :
             (\E j \in 1 .. Len(a) : s[i] = a[j]) \/ (\E j \in 1 .. Len(b) : s[i] = b[j])
           /\ \A j \in 1 .. Len(a) : \E i \in 1 .. Len(s) : s[i] = a[j]
           /\ \A j \in 1 .. Len(b) : \E i \in 1 .. Len(s) : s[i] = b[j]
<1> DEFINE m == Len(a)
           n == Len(b)
<1>1. /\ m \in Nat /\ n \in Nat /\ s \in Seq(X) /\ Len(s) = m + n
      /\ \A i \in 1 .. m : s[i] = a[i] /\ i \in 1 .. m + n
      /\ \A i \in 1 .. n : s[m + i] = b[i] /\ m + i \in 1 .. m + n
  OBVIOUS
<1>2. ASSUME NEW i \in 1 .. m + n
      PROVE  \/ i \in 1 .. m /\ s[i] = a[i]
             \/ i - m \in 1 .. n /\ s[i] = b[i - m]
  <2>1. i \in 1 .. m \/ (i - m \in 1 .. n /\ m + (i - m) = i)
    BY <1>1
  <2> QED
    BY <1>1, <2>1
<1> HIDE DEF m, n
<1>3. \A i \in 1 .. Len(s) :
             (\E j \in 1 .. m : s[i] = a[j]) \/ (\E j \in 1 .. n : s[i] = b[j])
  BY <1>1, <1>2
<1>4. /\ \A j \in 1 .. m : \E i \in 1 .. Len(s) : s[i] = a[j]
      /\ \A j \in 1 .. n : \E i \in 1 .. Len(s) : s[i] = b[j]
  BY <1>1
<1> QED
  BY <1>1, <1>3, <1>4 DEF m, n

LEMMA JoinedRange ==
    ASSUME NEW X, NEW a \in Seq(X), NEW b \in Seq(X)
    PROVE  Range(a \o b) = Range(a) \cup Range(b)
<1> DEFINE s == a \o b
<1>0. s = a \o b
  OBVIOUS
<1> HIDE DEF s
<1>1. \A i \in 1 .. Len(s) :
             (\E j \in 1 .. Len(a) : s[i] = a[j]) \/ (\E j \in 1 .. Len(b) : s[i] = b[j])
  BY <1>0, Joined
<1>4. \A j \in 1 .. Len(a) : \E i \in 1 .. Len(s) : s[i] = a[j]
  BY <1>0, Joined
<1>5. \A j \in 1 .. Len(b) : \E i \in 1 .. Len(s) : s[i] = b[j]
  BY <1>0, Joined
<1>6. s \in Seq(X)
  BY <1>0, Joined
<1>2. /\ Range(s) = {s[i] : i \in 1 .. Len(s)} /\ Range(a) = {a[i] : i \in 1 .. Len(a)}
      /\ Range(b) = {b[i] : i \in 1 .. Len(b)}
  BY <1>6 DEF Range
<1>3. Range(s) = Range(a) \cup Range(b)
  BY <1>1, <1>2, <1>4, <1>5
<1> QED
  BY <1>3 DEF s

LEMMA JoinedCalls ==
    ASSUME NEW a \in Seq(Call), NEW b \in Seq(Call)
    PROVE  /\ a \o b \in Seq(Call) /\ Nodes(a \o b) = Nodes(a) \cup Nodes(b)
           /\ \A i \in 1 .. Len(a \o b) : \/ \E j \in 1 .. Len(a) : (a \o b)[i] = a[j]
                                         \/ \E j \in 1 .. Len(b) : (a \o b)[i] = b[j]
<1> DEFINE s == a \o b
<1>0. s = a \o b
  OBVIOUS
<1> HIDE DEF s
<1>1. \A i \in 1 .. Len(s) :
             (\E j \in 1 .. Len(a) : s[i] = a[j]) \/ (\E j \in 1 .. Len(b) : s[i] = b[j])
  BY <1>0, Joined
<1>4. \A j \in 1 .. Len(a) : \E i \in 1 .. Len(s) : s[i] = a[j]
  BY <1>0, Joined
<1>5. \A j \in 1 .. Len(b) : \E i \in 1 .. Len(s) : s[i] = b[j]
  BY <1>0, Joined
<1>6. s \in Seq(Call)
  BY <1>0, Joined
<1>2. Nodes(s) = Nodes(a) \cup Nodes(b)
  BY <1>1, <1>4, <1>5 DEF Nodes
<1> QED
  BY <1>1, <1>2, <1>6 DEF s

LEMMA BothCalls ==
    ASSUME NEW a \in Seq(Call), NEW b \in Seq(Call), NEW A, NEW B, NEW depth,
           Deeper(a, A, depth), Deeper(b, B, depth)
    PROVE  /\ a \o b \in Seq(Call) /\ Nodes(a \o b) = Nodes(a) \cup Nodes(b)
           /\ Deeper(a \o b, A \cup B, depth)
<1> DEFINE s == a \o b
<1>0. s = a \o b
  OBVIOUS
<1> HIDE DEF s
<1>1. \A i \in 1 .. Len(s) :
             (\E j \in 1 .. Len(a) : s[i] = a[j]) \/ (\E j \in 1 .. Len(b) : s[i] = b[j])
  BY <1>0, Joined
<1>2. Deeper(s, A \cup B, depth)
  BY <1>1 DEF Deeper
<1> QED
  BY <1>2, JoinedCalls DEF s

(* What one call of the walk goes on to, and where the walk begins. *)
Follow(c, budget) ==
    (IF PropsOf(c).allow_penetration /\ budget = Unbounded THEN Children(c) \X {Unbounded} ELSE {})
    \cup (IF Exposes(c) THEN Extended(c) \X {Unbounded} ELSE {})

First(c) ==
    Near(c) \X {1}
    \cup (IF PropsOf(c).search_depth = "all" THEN Children(c) \X {Unbounded} ELSE {})
    \cup Extended(c) \X {Unbounded}

(* A frame of _collect_via_ancestor_view calls on what feeds its category. *)
LEMMA DescendIs ==
    ASSUME IsFile, Valid, NEW call \in Call
    PROVE  /\ Descend(call) \in Seq(Call) /\ ~Spent(call.budget)
           /\ Nodes(Descend(call)) = Follow(call.cat, call.budget)
           /\ Deeper(Descend(call), Feeds(call.cat), call.depth)
<1> DEFINE c == call.cat
           d == call.depth
           through == PropsOf(c).allow_penetration
           kids == IF through /\ ~Spent(NextBudget(call.budget))
                   THEN Calls(ChildIds(c), NextBudget(call.budget), d + 1) ELSE <<>>
           enum == IF PropsOf(c).expose_ordinary \/ PropsOf(c).expose_special
                   THEN EnumCall(c, d + 1) ELSE <<>>
           K == IF through THEN Children(c) ELSE {}
           E == IF Exposes(c) THEN Extended(c) ELSE {}
<1>1. c \in Ids /\ d \in Nat /\ call.budget \in {Unbounded, 1} /\ Unbounded \notin Nat
  BY SceneAssumption DEF Call, Budget, Unbounded
<1>2. /\ ~Spent(call.budget)
      /\ call.budget = Unbounded =>
            NextBudget(call.budget) = Unbounded /\ ~Spent(NextBudget(call.budget))
      /\ call.budget # Unbounded => Spent(NextBudget(call.budget))
  <2>1. CASE call.budget = Unbounded
    BY <2>1 DEF NextBudget, Spent
  <2>2. CASE call.budget = 1
    <3>1. NextBudget(call.budget) = 0 /\ Unbounded # 0 /\ Unbounded # 1
      BY <1>1, <2>2 DEF NextBudget
    <3> QED
      BY <2>2, <3>1 DEF Spent
  <2> QED
    BY <1>1, <2>1, <2>2
<1>3. Descend(call) = kids \o enum
  BY DEF Descend
<1> HIDE DEF c, d
<1>4. /\ kids \in Seq(Call) /\ Deeper(kids, K, d)
      /\ Nodes(kids) = IF through /\ call.budget = Unbounded THEN Children(c) \X {Unbounded} ELSE {}
  <2>1. CASE through /\ call.budget = Unbounded
    <3>1. kids = Calls(ChildIds(c), Unbounded, d + 1) /\ K = Children(c)
      BY <1>2, <2>1
    <3>2. Unbounded \in Budget
      BY DEF Budget
    <3> HIDE DEF kids, K
    <3> QED
      BY <1>1, <2>1, <3>1, <3>2, CallsAre
  <2>2. CASE ~(through /\ call.budget = Unbounded)
    <3>1. kids = <<>>
      BY <1>2, <2>2
    <3> HIDE DEF kids, K
    <3> QED
      BY <2>2, <3>1, NoCalls
  <2> QED
    BY <2>1, <2>2
<1>5. /\ enum \in Seq(Call) /\ Deeper(enum, E, d)
      /\ Nodes(enum) = IF Exposes(c) THEN Extended(c) \X {Unbounded} ELSE {}
  <2>1. CASE Exposes(c)
    <3>1. enum = EnumCall(c, d + 1) /\ E = Extended(c)
      BY <2>1 DEF Exposes
    <3> HIDE DEF enum, E
    <3> QED
      BY <1>1, <2>1, <3>1, EnumCallIs
  <2>2. CASE ~Exposes(c)
    <3>1. enum = <<>>
      BY <2>2 DEF Exposes
    <3> HIDE DEF enum, E
    <3> QED
      BY <2>2, <3>1, NoCalls
  <2> QED
    BY <2>1, <2>2
<1>6. Feeds(c) = K \cup E
  BY DEF Feeds
<1> HIDE DEF kids, enum, K, E
<1>7. /\ kids \o enum \in Seq(Call) /\ Nodes(kids \o enum) = Nodes(kids) \cup Nodes(enum)
      /\ Deeper(kids \o enum, K \cup E, d)
  BY <1>4, <1>5, BothCalls
<1>8. Nodes(kids) \cup Nodes(enum) = Follow(c, call.budget)
  BY <1>4, <1>5 DEF Follow
<1> QED
  BY <1>2, <1>3, <1>6, <1>7, <1>8 DEF c, d

(* The calls scope itself makes. *)
LEMMA FirstIs ==
    ASSUME IsFile, Valid, NEW c \in Ids, NEW calls,
           calls = (IF PropsOf(c).searches_down
                    THEN Calls(ChildIds(c), InitialDepth(PropsOf(c).search_depth), 1)
                    ELSE <<>>)
                   \o EnumCall(c, 1)
    PROVE  /\ calls \in Seq(Call) /\ Nodes(calls) = First(c)
           /\ Deeper(calls, Visible(c), 0)
<1> DEFINE depth == PropsOf(c).search_depth
           kids == IF PropsOf(c).searches_down
                   THEN Calls(ChildIds(c), InitialDepth(depth), 1) ELSE <<>>
           enum == EnumCall(c, 1)
           K == IF PropsOf(c).searches_down THEN Children(c) ELSE {}
<1>1. \/ PropsOf(c).searches_down /\ depth \in {"all", "immediate"}
      \/ ~PropsOf(c).searches_down /\ depth = "none"
  BY FileFacts, ModeFacts DEF PropsOf
<1>2. calls = kids \o enum
  OBVIOUS
<1> HIDE DEF depth
<1>3. /\ kids \in Seq(Call) /\ Deeper(kids, K, 0)
      /\ Nodes(kids) = IF depth = "immediate" THEN Children(c) \X {1}
                       ELSE IF depth = "all" THEN Children(c) \X {Unbounded} ELSE {}
  <2>1. CASE PropsOf(c).searches_down /\ depth = "immediate"
    <3>1. kids = Calls(ChildIds(c), 1, 0 + 1) /\ K = Children(c)
      BY <2>1 DEF InitialDepth
    <3>2. 1 \in Budget /\ 0 \in Nat
      BY DEF Budget
    <3>3. /\ Calls(ChildIds(c), 1, 0 + 1) \in Seq(Call)
          /\ Nodes(Calls(ChildIds(c), 1, 0 + 1)) = Children(c) \X {1}
          /\ Deeper(Calls(ChildIds(c), 1, 0 + 1), Children(c), 0)
      BY <3>2, CallsAre
    <3> HIDE DEF kids, K
    <3> QED
      BY <2>1, <3>1, <3>3
  <2>2. CASE PropsOf(c).searches_down /\ depth = "all"
    <3>1. kids = Calls(ChildIds(c), Unbounded, 0 + 1) /\ K = Children(c)
      BY <2>2 DEF InitialDepth
    <3>2. Unbounded \in Budget /\ 0 \in Nat
      BY DEF Budget
    <3>3. /\ Calls(ChildIds(c), Unbounded, 0 + 1) \in Seq(Call)
          /\ Nodes(Calls(ChildIds(c), Unbounded, 0 + 1)) = Children(c) \X {Unbounded}
          /\ Deeper(Calls(ChildIds(c), Unbounded, 0 + 1), Children(c), 0)
      BY <3>2, CallsAre
    <3> HIDE DEF kids, K
    <3> QED
      BY <2>2, <3>1, <3>3
  <2>3. CASE ~PropsOf(c).searches_down /\ depth = "none"
    <3>1. kids = <<>>
      BY <2>3
    <3> HIDE DEF kids, K
    <3> QED
      BY <2>3, <3>1, NoCalls
  <2> QED
    BY <1>1, <2>1, <2>2, <2>3
<1>4. enum \in Seq(Call) /\ Deeper(enum, Extended(c), 0) /\ Nodes(enum) = Extended(c) \X {Unbounded}
  <2>1. EnumCall(c, 0 + 1) = enum /\ 0 \in Nat
    OBVIOUS
  <2> HIDE DEF enum
  <2> QED
    BY <2>1, EnumCallIs
<1>5. K \cup Extended(c) \subseteq Visible(c)
  <2> DEFINE B == Enums(Near(c))
             A == IF PropsOf(c).search_depth = "all" THEN Children(c) ELSE {}
  <2>0. Deep(c) = (A \cup B) \cup Extended(c)
    BY DEF Deep
  <2>1. Deep(c) \in SUBSET Ids
    <3>1. Near(c) \subseteq Ids /\ A \subseteq Ids /\ Extended(c) \subseteq Ids
      BY ValidFacts DEF Near
    <3>2. B \subseteq Ids
      BY <3>1, ValidFacts DEF Enums, Extended
    <3> HIDE DEF A, B
    <3> QED
      BY <2>0, <3>1, <3>2
  <2>2. Deep(c) \subseteq VisibleFrom(Deep(c))
    BY <2>1, VisibleIsLeast
  <2>3. K \subseteq Near(c) \cup Deep(c)
    <3>1. A \subseteq Deep(c)
      <4> HIDE DEF A, B
      <4> QED
        BY <2>0
    <3> QED
      BY <1>1, <3>1 DEF Near, depth
  <2>4. Extended(c) \subseteq Deep(c)
    <3> HIDE DEF A, B
    <3> QED
      BY <2>0
  <2> HIDE DEF K
  <2> QED
    BY <2>2, <2>3, <2>4 DEF Visible
<1> HIDE DEF kids, enum, K
<1>6. /\ kids \o enum \in Seq(Call) /\ Nodes(kids \o enum) = Nodes(kids) \cup Nodes(enum)
      /\ Deeper(kids \o enum, K \cup Extended(c), 0)
  BY <1>3, <1>4, BothCalls
<1>7. Nodes(kids) \cup Nodes(enum) = First(c)
  BY <1>3, <1>4 DEF First, Near, depth
<1>8. Deeper(kids \o enum, Visible(c), 0)
  BY <1>5, <1>6 DEF Deeper
<1> QED
  BY <1>2, <1>6, <1>7, <1>8

-----------------------------------------------------------------------------
(* The invariant.                                                             *)

Intents == Ids \X {"ordinary", "special"}

Shapes ==
    /\ IsFile
    /\ phase \in {"file", "rejected", "ready", "collecting", "done", "raised"}
    /\ todo \in Seq(Call) /\ pool \in Seq(Intents)
    /\ phase \in {"file", "rejected", "ready"} => scene = None /\ todo = <<>>
    /\ phase \in {"collecting", "done", "raised"} => scene \in Ids
    /\ phase = "done" => todo = <<>>

(* Only an accepted file is searched. *)
Accepted == phase \in {"ready", "collecting", "done", "raised"} => Valid

(* A category is searched without a bound when it is visible from the deep     *)
(* ones, and by itself when it is near.                                        *)
Placed(q, c) ==
    /\ q \in Ids \X Budget
    /\ q[1] \in (IF q[2] = Unbounded THEN VisibleFrom(Deep(c)) ELSE Near(c))

(* The categories S were collected, with the budget each was called with; what *)
(* they lead to was collected or is still to be.                               *)
Collected(S) ==
    /\ Range(pool) = Range(OrdinaryIntents(scene)) \cup UNION {Range(Exposed(q[1])) : q \in S}
    /\ First(scene) \subseteq S \cup Nodes(todo)
    /\ \A q \in S : Follow(q[1], q[2]) \subseteq S \cup Nodes(todo)
    /\ \A q \in S \cup Nodes(todo) : Placed(q, scene)

Walked == phase \in {"collecting", "done"} => \E S \in SUBSET (Ids \X Budget) : Collected(S)

(* A call is at the end of a chain of visible categories, one for every two    *)
(* frames of the stack.                                                        *)
AtEndOf(call, p, n) ==
    /\ n \in Nat \ {0} /\ Linked(p, n) /\ p[n] = call.cat /\ call.depth <= 2 * n
    /\ \A i \in 1 .. n : p[i] \in Visible(scene)
    /\ call.enum => Get(call.cat).mode = "ENUM"

Chained ==
    phase \in {"collecting", "raised"} =>
        \A i \in 1 .. Len(todo) : \E n \in Nat : \E p \in [1 .. n -> Ids] : AtEndOf(todo[i], p, n)

Raised ==
    phase = "raised" =>
        \/ Get(scene).mode = "ENUM"
        \/ todo # <<>> /\ Head(todo).depth > RecursionLimit

IInv == Shapes /\ Accepted /\ Walked /\ Chained /\ Raised

(* The definitions that depend on the file only. *)
LEMMA SameFile ==
    ASSUME raw' = raw
    PROVE  /\ Ids' = Ids /\ (IsFile' <=> IsFile) /\ Call' = Call /\ Intents' = Intents
           /\ \A c : Get(c)' = Get(c) /\ Children(c)' = Children(c) /\ Feeds(c)' = Feeds(c)
           /\ \A c : Near(c)' = Near(c) /\ Deep(c)' = Deep(c) /\ Visible(c)' = Visible(c)
           /\ \A c : OrdinaryIntents(c)' = OrdinaryIntents(c) /\ Exposed(c)' = Exposed(c)
           /\ \A c : First(c)' = First(c) /\ \A b : Follow(c, b)' = Follow(c, b)
           /\ \A S : VisibleFrom(S)' = VisibleFrom(S)
           /\ \A p, n : Linked(p, n)' <=> Linked(p, n)
           /\ \A q, c : Placed(q, c)' <=> Placed(q, c)
           /\ Valid' <=> Valid
<1>1. /\ Ids' = Ids /\ (IsFile' <=> IsFile)
      /\ \A c : Get(c)' = Get(c)
  BY DEF Ids, IsFile, Get
<1>2. \A c : Kids(c)' = Kids(c)
  BY DEF Kids
<1>3. \A c : ChildIds(c)' = ChildIds(c)
  <2> SUFFICES ASSUME NEW c
               PROVE  ChildIds(c)' = ChildIds(c)
    OBVIOUS
  <2> DEFINE rank(i) == Cardinality({j \in Kids(c) : j < i})
             nth(n) == CHOOSE i \in Kids(c) : rank(i) = n - 1
  <2>1. Kids(c)' = Kids(c) /\ raw.entries' = raw.entries
    BY <1>2
  <2>2. \A i : rank(i)' = rank(i)
    BY <2>1
  <2> HIDE DEF rank
  <2>3. \A n : nth(n)' = nth(n)
    BY <2>1, <2>2
  <2> HIDE DEF nth
  <2>4. ChildIds(c) = [n \in 1 .. Cardinality(Kids(c)) |-> raw.entries[nth(n)].id]
    BY DEF ChildIds, nth, rank
  <2>5. ChildIds(c)' = [n \in 1 .. Cardinality(Kids(c)') |-> raw.entries'[nth(n)'].id]
    BY DEF ChildIds, nth, rank
  <2> QED
    BY <2>1, <2>3, <2>4, <2>5
<1>4. \A c : Children(c)' = Children(c)
  BY <1>3 DEF Children
<1>5. \A c : PropsOf(c)' = PropsOf(c) /\ Extended(c)' = Extended(c)
  BY <1>1 DEF PropsOf, Extended
<1>6. \A c : /\ OrdinaryIntents(c)' = OrdinaryIntents(c) /\ SpecialIntents(c)' = SpecialIntents(c)
             /\ Exposes(c)' <=> Exposes(c)
  BY <1>1, <1>5 DEF OrdinaryIntents, SpecialIntents, Exposes
<1>7. \A c : Exposed(c)' = Exposed(c)
  BY <1>5, <1>6 DEF Exposed
<1>8. \A c : Feeds(c)' = Feeds(c)
  BY <1>4, <1>5, <1>6 DEF Feeds
<1>9. \A S : Closed(S)' <=> Closed(S)
  BY <1>8 DEF Closed
<1>10. \A S : VisibleFrom(S)' = VisibleFrom(S)
  BY <1>1, <1>9 DEF VisibleFrom
<1>11. \A c : Near(c)' = Near(c)
  BY <1>4, <1>5 DEF Near
<1>12. \A S : Enums(S)' = Enums(S)
  BY <1>1, <1>6 DEF Enums
<1>13. \A c : Deep(c)' = Deep(c)
  BY <1>4, <1>5, <1>11, <1>12 DEF Deep
<1>14. \A c : Visible(c)' = Visible(c)
  BY <1>10, <1>11, <1>13 DEF Visible
<1>15. \A c : First(c)' = First(c) /\ \A b : Follow(c, b)' = Follow(c, b)
  BY <1>4, <1>5, <1>6, <1>11 DEF First, Follow
<1>16. \A p, n : Linked(p, n)' <=> Linked(p, n)
  BY <1>1, <1>8 DEF Linked
<1>19. \A q, c : Placed(q, c)' <=> Placed(q, c)
  BY <1>1, <1>10, <1>11, <1>13 DEF Placed
<1>17. Valid' <=> Valid
  <2>1. (IdsAreUnique' <=> IdsAreUnique) /\ (RootKnown' <=> RootKnown)
        /\ (WellParented' <=> WellParented) /\ (Reachable' <=> Reachable)
    BY <1>1, <1>4 DEF IdsAreUnique, RootKnown, WellParented, Reachable
  <2>2. StructuralRules' <=> StructuralRules
    BY <1>3 DEF StructuralRules
  <2>3. (UniqueNamesPerParent' <=> UniqueNamesPerParent) /\ (ExtendsEnum' <=> ExtendsEnum)
    BY <1>1, <1>3 DEF UniqueNamesPerParent, ExtendsEnum
  <2> QED
    BY <2>1, <2>2, <2>3 DEF Valid
<1>18. Call' = Call /\ Intents' = Intents
  BY <1>1 DEF Call, Intents
<1> QED
  BY <1>1, <1>4, <1>7, <1>6, <1>8, <1>10, <1>11, <1>13, <1>14, <1>15, <1>16, <1>17, <1>18, <1>19

(* What the walk searches from is in the tree. *)
LEMMA DeepInTree ==
    ASSUME IsFile, Valid, NEW c \in Ids
    PROVE  /\ Near(c) \subseteq Ids /\ Deep(c) \in SUBSET Ids
           /\ Enums(Near(c)) \subseteq Deep(c) /\ Extended(c) \subseteq Deep(c)
           /\ PropsOf(c).search_depth = "all" => Children(c) \subseteq Deep(c)
           /\ Deep(c) \subseteq VisibleFrom(Deep(c)) /\ VisibleFrom(Deep(c)) \subseteq Ids
           /\ Closed(VisibleFrom(Deep(c)))
           /\ Unbounded # 1
<1> DEFINE B == Enums(Near(c))
           A == IF PropsOf(c).search_depth = "all" THEN Children(c) ELSE {}
<1>1. Deep(c) = (A \cup B) \cup Extended(c)
  BY DEF Deep
<1>2. Near(c) \subseteq Ids /\ A \subseteq Ids /\ Extended(c) \subseteq Ids
  BY ValidFacts DEF Near
<1>3. B \subseteq Ids
  BY <1>2, ValidFacts DEF Enums, Extended
<1>4. PropsOf(c).search_depth = "all" => A = Children(c)
  OBVIOUS
<1> HIDE DEF A
<1>5. Deep(c) \in SUBSET Ids
  <2> HIDE DEF B
  <2> QED
    BY <1>1, <1>2, <1>3
<1>6. Unbounded # 1
  BY SceneAssumption DEF Unbounded
<1>7. Enums(Near(c)) \subseteq Deep(c)
  BY <1>1
<1>8. /\ Deep(c) \subseteq VisibleFrom(Deep(c)) /\ VisibleFrom(Deep(c)) \subseteq Ids
      /\ Closed(VisibleFrom(Deep(c)))
  BY <1>5, VisibleIsLeast
<1>9. Extended(c) \subseteq Deep(c) /\ (PropsOf(c).search_depth = "all" => Children(c) \subseteq Deep(c))
  <2> HIDE DEF B
  <2> QED
    BY <1>1, <1>4
<1> QED
  BY <1>2, <1>5, <1>6, <1>7, <1>8, <1>9

(* The walk begins in place, and goes on in place. *)
LEMMA FirstPlaced ==
    ASSUME IsFile, Valid, NEW c \in Ids, NEW q \in First(c)
    PROVE  Placed(q, c)
<1> DEFINE N == Near(c)
           V == VisibleFrom(Deep(c))
           E == Extended(c)
           K == Children(c)
<1>1. /\ N \subseteq Ids /\ E \subseteq V /\ V \subseteq Ids /\ Unbounded # 1
      /\ PropsOf(c).search_depth = "all" => K \subseteq V
  BY DeepInTree
<1>2. Budget = {Unbounded, 1}
  BY DEF Budget
<1>3. \/ q \in N \X {1}
      \/ PropsOf(c).search_depth = "all" /\ q \in K \X {Unbounded}
      \/ q \in E \X {Unbounded}
  BY DEF First
<1>4. q \in Ids \X Budget /\ q[1] \in (IF q[2] = Unbounded THEN V ELSE N)
  <2> HIDE DEF N, V, E, K
  <2> QED
    BY <1>1, <1>2, <1>3
<1> QED
  BY <1>4 DEF Placed

LEMMA FollowPlaced ==
    ASSUME IsFile, Valid, NEW c \in Ids, NEW q, Placed(q, c), NEW r \in Follow(q[1], q[2])
    PROVE  Placed(r, c)
<1> DEFINE N == Near(c)
           V == VisibleFrom(Deep(c))
           d == q[1]
           E == Extended(d)
           K == Children(d)
<1>1. /\ N \subseteq Ids /\ V \subseteq Ids /\ Unbounded # 1 /\ Closed(V)
      /\ Enums(N) \subseteq V
  BY DeepInTree
<1>2. Budget = {Unbounded, 1} /\ d \in Ids /\ q[2] \in Budget
      /\ d \in (IF q[2] = Unbounded THEN V ELSE N)
  BY DEF Placed, Budget
<1>3. \/ PropsOf(d).allow_penetration /\ q[2] = Unbounded /\ r \in K \X {Unbounded}
      \/ Exposes(d) /\ r \in E \X {Unbounded}
  BY DEF Follow
<1>4. PropsOf(d).allow_penetration /\ q[2] = Unbounded => K \subseteq V
  <2>1. PropsOf(d).allow_penetration => K \subseteq Feeds(d)
    BY DEF Feeds
  <2> HIDE DEF N, V, K, d
  <2> QED
    BY <1>1, <1>2, <2>1 DEF Closed
<1>5. Exposes(d) => E \subseteq V
  <2>1. Exposes(d) => E \subseteq Feeds(d)
    BY DEF Feeds
  <2>2. Exposes(d) /\ d \in N => E \subseteq Enums(N)
    BY DEF Extended, Enums
  <2>3. d \in V => Feeds(d) \subseteq V
    BY <1>1 DEF Closed
  <2> HIDE DEF N, V, E, d
  <2> QED
    BY <1>1, <1>2, <2>1, <2>2, <2>3
<1>6. r \in Ids \X Budget /\ r[1] \in V /\ r[2] = Unbounded
  <2> HIDE DEF N, V, E, K, d
  <2> QED
    BY <1>1, <1>2, <1>3, <1>4, <1>5
<1> QED
  BY <1>6 DEF Placed

LEMMA PlacedVisible ==
    ASSUME NEW q, NEW c, Placed(q, c)
    PROVE  q[1] \in Ids /\ q[1] \in Visible(c)
BY DEF Placed, Visible

LEMMA IntentLists ==
    ASSUME NEW c \in Ids
    PROVE  OrdinaryIntents(c) \in Seq(Intents) /\ Exposed(c) \in Seq(Intents)
<1> DEFINE o == OrdinaryIntents(c)
           s == SpecialIntents(c)
<1>1. <<c, "ordinary">> \in Intents /\ <<c, "special">> \in Intents
  BY DEF Intents
<1>2. o \in Seq(Intents) /\ s \in Seq(Intents)
  <2> DEFINE x == <<c, "ordinary">>
             y == <<c, "special">>
  <2>1. o \in {<<>>, <<x>>} /\ s \in {<<>>, <<y>>}
    BY DEF OrdinaryIntents, SpecialIntents
  <2>2. x \in Intents /\ y \in Intents
    BY <1>1
  <2> HIDE DEF x, y, o, s
  <2>3. <<>> \in Seq(Intents) /\ <<x>> \in Seq(Intents) /\ <<y>> \in Seq(Intents)
    BY <2>2
  <2> QED
    BY <2>1, <2>3
<1>3. Exposed(c) = (IF PropsOf(c).expose_ordinary THEN o ELSE <<>>)
                   \o (IF PropsOf(c).expose_special THEN s ELSE <<>>)
  BY DEF Exposed
<1> HIDE DEF o, s
<1>4. Exposed(c) \in Seq(Intents)
  BY <1>2, <1>3
<1> QED
  BY <1>2, <1>4 DEF o

(* The innermost pending call and the others. *)
LEMMA HeadAndTail ==
    ASSUME NEW calls \in Seq(Call), calls # <<>>
    PROVE  /\ Head(calls) \in Call /\ Tail(calls) \in Seq(Call)
           /\ Head(calls) = calls[1] /\ 1 \in 1 .. Len(calls)
           /\ Nodes(calls) = {Node(Head(calls))} \cup Nodes(Tail(calls))
           /\ \A j \in 1 .. Len(Tail(calls)) :
                 \E i \in 1 .. Len(calls) : Tail(calls)[j] = calls[i]
<1> DEFINE t == Tail(calls)
           h == Head(calls)
           n == Len(calls)
<1>1. /\ h \in Call /\ t \in Seq(Call) /\ h = calls[1] /\ n \in Nat /\ n > 0 /\ Len(t) = n - 1
      /\ \A j \in 1 .. n - 1 : t[j] = calls[j + 1]
  OBVIOUS
<1> HIDE DEF t, h, n
<1>2. \A j \in 1 .. n - 1 : j + 1 \in 1 .. n
  BY <1>1
<1>3. \A i \in 1 .. n : i = 1 \/ (i - 1 \in 1 .. n - 1 /\ (i - 1) + 1 = i)
  BY <1>1
<1>4. 1 \in 1 .. n
  BY <1>1
<1>5. \A j \in 1 .. Len(t) : \E i \in 1 .. n : t[j] = calls[i]
  BY <1>1, <1>2
<1>6. \A i \in 1 .. n : calls[i] = h \/ \E j \in 1 .. Len(t) : calls[i] = t[j]
  BY <1>1, <1>3
<1>7. Nodes(calls) = {Node(h)} \cup Nodes(t)
  <2>1. Nodes(calls) = {Node(calls[i]) : i \in 1 .. n} /\ Nodes(t) = {Node(t[j]) : j \in 1 .. Len(t)}
    BY DEF Nodes, n
  <2>2. \A i \in 1 .. n : Node(calls[i]) \in {Node(h)} \cup Nodes(t)
    BY <1>6, <2>1
  <2>3. Node(h) \in Nodes(calls)
    BY <1>1, <1>4, <2>1
  <2>4. \A j \in 1 .. Len(t) : Node(t[j]) \in Nodes(calls)
    BY <1>5, <2>1
  <2> QED
    BY <2>1, <2>2, <2>3, <2>4
<1> QED
  BY <1>1, <1>4, <1>5, <1>7 DEF t, h, n

(* A call made by a frame has the chain of that frame and itself. *)
LEMMA ChainGrows ==
    ASSUME NEW call \in Call, NEW n \in Nat, NEW p \in [1 .. n -> Ids], AtEndOf(call, p, n),
           NEW next \in Call, next.cat \in Feeds(call.cat), next.cat \in Visible(scene),
           next.depth <= call.depth + 2, next.enum => Get(next.cat).mode = "ENUM"
    PROVE  \E m \in Nat : \E q \in [1 .. m -> Ids] : AtEndOf(next, q, m)
<1> DEFINE m == n + 1
           q == [i \in 1 .. m |-> IF i = m THEN next.cat ELSE p[i]]
<1>1. /\ n # 0 /\ p[n] = call.cat /\ call.depth <= 2 * n
      /\ \A i \in 1 .. n - 1 : p[i + 1] \in Feeds(p[i])
      /\ \A i \in 1 .. n : p[i] \in Visible(scene)
  BY DEF AtEndOf, Linked
<1>2. next.cat \in Ids /\ next.depth \in Nat /\ call.depth \in Nat
  BY DEF Call
<1>3. m \in Nat \ {0} /\ \A i \in 1 .. m : i = m \/ i \in 1 .. n
  OBVIOUS
<1>4. /\ q \in [1 .. m -> Ids] /\ q[m] = next.cat
      /\ \A i \in 1 .. n : q[i] = p[i]
  BY <1>2, <1>3
<1>5. \A i \in 1 .. m : q[i] \in Visible(scene)
  BY <1>1, <1>3, <1>4
<1>6. ASSUME NEW i \in 1 .. m - 1
      PROVE  q[i + 1] \in Feeds(q[i])
  <2>1. i \in 1 .. n /\ (i = n \/ (i \in 1 .. n - 1 /\ i + 1 \in 1 .. n))
    OBVIOUS
  <2> HIDE DEF q
  <2>2. CASE i = n
    BY <1>1, <1>4, <2>1, <2>2
  <2>3. CASE i \in 1 .. n - 1 /\ i + 1 \in 1 .. n
    BY <1>1, <1>4, <2>1, <2>3
  <2> QED
    BY <2>1, <2>2, <2>3
<1>7. next.depth <= 2 * m
  BY <1>1, <1>2
<1> HIDE DEF q, m
<1>8. AtEndOf(next, q, m)
  BY <1>3, <1>4, <1>5, <1>6, <1>7 DEF AtEndOf, Linked
<1> QED
  BY <1>3, <1>4, <1>8

(* A call made by scope() itself begins a chain. *)
LEMMA ChainBegins ==
    ASSUME NEW c, Visible(c) \subseteq Ids, NEW next \in Call, next.cat \in Visible(c),
           next.depth <= 2, next.enum => Get(next.cat).mode = "ENUM"
    PROVE  \E m \in Nat \ {0} : \E q \in [1 .. m -> Ids] :
              /\ Linked(q, m) /\ q[m] = next.cat /\ next.depth <= 2 * m
              /\ \A i \in 1 .. m : q[i] \in Visible(c)
              /\ next.enum => Get(next.cat).mode = "ENUM"
<1> DEFINE q == [i \in 1 .. 1 |-> next.cat]
<1>1. q \in [1 .. 1 -> Ids] /\ q[1] = next.cat /\ \A i \in 1 .. 1 : q[i] = next.cat
  BY DEF Call
<1>2. 1 .. 1 - 1 = {} /\ 1 \in Nat \ {0} /\ next.depth <= 2 * 1
  BY DEF Call
<1> HIDE DEF q
<1>3. Linked(q, 1)
  BY <1>1, <1>2 DEF Linked
<1>4. \A i \in 1 .. 1 : q[i] \in Visible(c)
  BY <1>1
<1> QED
  BY <1>1, <1>2, <1>3, <1>4

LEMMA InitHolds ==
    ASSUME Init
    PROVE  IInv
<1>1. <<>> \in Seq(Call) /\ <<>> \in Seq(Intents)
  OBVIOUS
<1> QED
  BY <1>1 DEF Init, IInv, IsFile, Shapes, Accepted, Walked, Chained, Raised

(* Nothing changes but the phase. *)
LEMMA LoadHolds ==
    ASSUME IInv, Load
    PROVE  IInv'
<1>1. raw' = raw /\ scene' = scene /\ todo' = todo /\ pool' = pool /\ phase = "file"
      /\ phase' = (IF Valid THEN "ready" ELSE "rejected")
  BY DEF Load
<1>2. /\ Ids' = Ids /\ (IsFile' <=> IsFile) /\ Call' = Call /\ Intents' = Intents
      /\ Valid' <=> Valid
  BY <1>1, SameFile
<1>3. Shapes'
  BY <1>1, <1>2 DEF IInv, Shapes
<1>4. Accepted' /\ Walked' /\ Chained' /\ Raised'
  BY <1>1, <1>2 DEF Accepted, Walked, Chained, Raised
<1> QED
  BY <1>3, <1>4 DEF IInv

(* The lists of a walk that begins. *)
LEMMA ScopeHolds ==
    ASSUME IInv, NEW c \in Ids, Scope(c)
    PROVE  IInv'
<1>1. raw' = raw /\ scene' = c /\ phase = "ready" /\ phase' \in {"raised", "collecting"}
  BY DEF Scope
<1>2. IsFile /\ Valid /\ todo \in Seq(Call) /\ pool \in Seq(Intents)
  BY <1>1 DEF IInv, Shapes, Accepted
<1>3. /\ Ids' = Ids /\ IsFile' /\ Call' = Call /\ Intents' = Intents /\ Valid'
      /\ \A d : Get(d)' = Get(d) /\ Visible(d)' = Visible(d)
      /\ \A d : OrdinaryIntents(d)' = OrdinaryIntents(d) /\ Exposed(d)' = Exposed(d)
      /\ \A d : First(d)' = First(d) /\ \A b : Follow(d, b)' = Follow(d, b)
      /\ \A p, n : Linked(p, n)' <=> Linked(p, n)
      /\ \A q, d : Placed(q, d)' <=> Placed(q, d)
  BY <1>1, <1>2, SameFile
<1>4. Accepted'
  BY <1>3 DEF Accepted
<1>5. CASE Get(c).mode = "ENUM"
  <2>1. phase' = "raised" /\ todo' = todo /\ pool' = pool
    BY <1>5 DEF Scope
  <2>2. todo = <<>>
    BY <1>1 DEF IInv, Shapes
  <2>3. Shapes'
    BY <1>1, <1>2, <1>3, <2>1 DEF Shapes
  <2>4. Raised'
    BY <1>1, <1>3, <1>5 DEF Raised
  <2>5. Chained'
    BY <2>1, <2>2 DEF Chained
  <2> QED
    BY <1>4, <2>1, <2>3, <2>4, <2>5 DEF IInv, Walked
<1>6. CASE Get(c).mode # "ENUM"
  <2>1. phase' = "collecting" /\ pool' = OrdinaryIntents(c)
    BY <1>6 DEF Scope
  <2>2. todo' = (IF PropsOf(c).searches_down
                 THEN Calls(ChildIds(c), InitialDepth(PropsOf(c).search_depth), 1)
                 ELSE <<>>)
                \o EnumCall(c, 1)
    BY <1>6 DEF Scope
  <2>3. todo' \in Seq(Call) /\ Nodes(todo') = First(c) /\ Deeper(todo', Visible(c), 0)
    BY <1>2, <2>2, FirstIs
  <2>4. pool' \in Seq(Intents)
    BY <2>1, IntentLists
  <2>5. Shapes'
    BY <1>1, <1>3, <2>1, <2>3, <2>4 DEF Shapes
  <2>6. Raised'
    BY <2>1 DEF Raised
  <2>7. Walked'
    <3>1. \A q \in Nodes(todo') : Placed(q, c)
      BY <1>2, <2>3, FirstPlaced
    <3>2. Collected({})'
      BY <1>1, <1>3, <2>1, <2>3, <3>1 DEF Collected
    <3>3. {} \in SUBSET (Ids' \X Budget')
      OBVIOUS
    <3> QED
      BY <3>2, <3>3 DEF Walked
  <2>8. Chained'
    <3> DEFINE t == todo'
    <3>1. Visible(c) \subseteq Ids
      BY <1>2, DeepInTree DEF Visible
    <3>2. ASSUME NEW i \in 1 .. Len(t)
          PROVE  \E m \in Nat : \E q \in [1 .. m -> Ids] : AtEndOf(todo[i], q, m)'
      <4>1. /\ t[i] \in Call /\ t[i].cat \in Visible(c) /\ t[i].depth <= 2
            /\ t[i].enum => Get(t[i].cat).mode = "ENUM"
        BY <2>3 DEF Deeper
      <4> DEFINE next == t[i]
      <4> HIDE DEF next
      <4>2. PICK m \in Nat \ {0} : \E q \in [1 .. m -> Ids] :
              /\ Linked(q, m) /\ q[m] = next.cat /\ next.depth <= 2 * m
              /\ \A j \in 1 .. m : q[j] \in Visible(c)
              /\ next.enum => Get(next.cat).mode = "ENUM"
        BY <3>1, <4>1, ChainBegins DEF next
      <4>3. PICK q \in [1 .. m -> Ids] :
              /\ Linked(q, m) /\ q[m] = next.cat /\ next.depth <= 2 * m
              /\ \A j \in 1 .. m : q[j] \in Visible(c)
              /\ next.enum => Get(next.cat).mode = "ENUM"
        BY <4>2
      <4>4. AtEndOf(todo[i], q, m)'
        BY <1>1, <1>3, <4>3 DEF AtEndOf, next, t
      <4> QED
        BY <4>4
    <3> QED
      BY <1>3, <3>2 DEF Chained
  <2> QED
    BY <1>4, <2>5, <2>6, <2>7, <2>8 DEF IInv
<1> QED
  BY <1>5, <1>6

(* A frame of _collect_via_ancestor_view. *)
LEMMA CollectHolds ==
    ASSUME IInv, Collect
    PROVE  IInv'
<1> DEFINE call == Head(todo)
           rest == Tail(todo)
<1>1. raw' = raw /\ scene' = scene /\ phase = "collecting" /\ todo # <<>>
  BY DEF Collect
<1>2. /\ IsFile /\ Valid /\ todo \in Seq(Call) /\ pool \in Seq(Intents) /\ scene \in Ids
      /\ Walked /\ Chained
  BY <1>1 DEF IInv, Shapes, Accepted
<1>3. /\ Ids' = Ids /\ IsFile' /\ Call' = Call /\ Intents' = Intents /\ Valid'
      /\ \A d : Get(d)' = Get(d) /\ Visible(d)' = Visible(d)
      /\ \A d : OrdinaryIntents(d)' = OrdinaryIntents(d) /\ Exposed(d)' = Exposed(d)
      /\ \A d : First(d)' = First(d) /\ \A b : Follow(d, b)' = Follow(d, b)
      /\ \A p, n : Linked(p, n)' <=> Linked(p, n)
      /\ \A q, d : Placed(q, d)' <=> Placed(q, d)
  BY <1>1, <1>2, SameFile
<1>4. Accepted'
  BY <1>3 DEF Accepted
<1>5. /\ call \in Call /\ rest \in Seq(Call) /\ call = todo[1] /\ 1 \in 1 .. Len(todo)
      /\ Nodes(todo) = {Node(call)} \cup Nodes(rest)
      /\ \A j \in 1 .. Len(rest) : \E i \in 1 .. Len(todo) : rest[j] = todo[i]
  BY <1>1, <1>2, HeadAndTail
<1>6. \A i \in 1 .. Len(todo) : \E n \in Nat : \E p \in [1 .. n -> Ids] : AtEndOf(todo[i], p, n)
  BY <1>1, <1>2 DEF Chained
<1>7. \A x, p, n : AtEndOf(x, p, n)' <=> AtEndOf(x, p, n)
  BY <1>1, <1>3 DEF AtEndOf
<1>8. PICK n \in Nat : \E p \in [1 .. n -> Ids] : AtEndOf(call, p, n)
  BY <1>5, <1>6
<1>9. PICK p \in [1 .. n -> Ids] : AtEndOf(call, p, n)
  BY <1>8
<1>10. ~Spent(call.budget) /\ call.cat \in Ids
  BY <1>2, <1>5, DescendIs DEF Call
<1>11. \/ Raises(call) /\ phase' = "raised" /\ todo' = todo /\ pool' = pool
       \/ /\ todo' = Descend(call) \o rest /\ pool' = pool \o Exposed(call.cat)
          /\ phase' = "collecting"
  BY <1>1, <1>10 DEF Collect
<1> HIDE DEF call, rest
<1>12. CASE Raises(call) /\ phase' = "raised" /\ todo' = todo /\ pool' = pool
  <2>1. call.depth > RecursionLimit
    BY <1>9, <1>10, <1>12 DEF Raises, AtEndOf
  <2>2. Shapes'
    BY <1>1, <1>2, <1>3, <1>12 DEF Shapes
  <2>3. Raised'
    BY <1>1, <1>12, <2>1 DEF Raised, call
  <2>4. Chained'
    BY <1>3, <1>6, <1>7, <1>12 DEF Chained
  <2> QED
    BY <1>4, <1>12, <2>2, <2>3, <2>4 DEF IInv, Walked
<1>13. CASE /\ todo' = Descend(call) \o rest /\ pool' = pool \o Exposed(call.cat)
            /\ phase' = "collecting"
  <2> DEFINE calls == Descend(call)
             node == Node(call)
             new == todo'
  <2>1. /\ calls \in Seq(Call) /\ Nodes(calls) = Follow(call.cat, call.budget)
        /\ Deeper(calls, Feeds(call.cat), call.depth)
    BY <1>2, <1>5, DescendIs
  <2>2. node[1] = call.cat /\ node[2] = call.budget
    BY DEF Node
  <2>3. new = calls \o rest
    BY <1>13
  <2> HIDE DEF calls, node, new
  <2>4. new \in Seq(Call) /\ Nodes(new) = Nodes(calls) \cup Nodes(rest)
    BY <1>5, <2>1, <2>3, JoinedCalls
  <2>5. \A i \in 1 .. Len(new) : \/ \E j \in 1 .. Len(calls) : new[i] = calls[j]
                                \/ \E j \in 1 .. Len(rest) : new[i] = rest[j]
    <3>1. calls \in Seq(Call) /\ rest \in Seq(Call)
      BY <1>5, <2>1
    <3>2. \A i \in 1 .. Len(calls \o rest) : \/ \E j \in 1 .. Len(calls) : (calls \o rest)[i] = calls[j]
                                            \/ \E j \in 1 .. Len(rest) : (calls \o rest)[i] = rest[j]
      BY <3>1, JoinedCalls, Zenon
    <3> QED
      BY <2>3, <3>2, Zenon
  <2>6. Exposed(call.cat) \in Seq(Intents)
    BY <1>10, IntentLists
  <2>7. pool' \in Seq(Intents) /\ Range(pool') = Range(pool) \cup Range(Exposed(call.cat))
    BY <1>2, <1>13, <2>6, JoinedRange
  <2>8. Shapes'
    BY <1>1, <1>2, <1>3, <1>13, <2>4, <2>7 DEF Shapes, new
  <2>9. PICK S \in SUBSET (Ids \X Budget) : Collected(S)
    BY <1>1, <1>2 DEF Walked
  <2>14. PICK T : T = S \cup {node}
    OBVIOUS
  <2>10. Placed(node, scene)
    BY <1>5, <2>9 DEF Collected, node
  <2>11. \A q \in Nodes(calls) : Placed(q, scene)
    BY <1>2, <2>1, <2>2, <2>10, FollowPlaced
  <2>12. Walked'
    <3>1. T \in SUBSET (Ids \X Budget)
      BY <2>10, <2>14 DEF Placed
    <3>2. T \cup Nodes(new) = (S \cup Nodes(todo)) \cup Nodes(calls)
      BY <1>5, <2>4, <2>14 DEF node
    <3>3. \A q \in T \cup Nodes(new) : Placed(q, scene)
      BY <2>9, <2>11, <3>2 DEF Collected
    <3>4. First(scene) \subseteq T \cup Nodes(new)
      BY <2>9, <3>2 DEF Collected
    <3>5. \A q \in T : Follow(q[1], q[2]) \subseteq T \cup Nodes(new)
      BY <2>1, <2>2, <2>9, <2>14, <3>2 DEF Collected
    <3>6. Range(pool') = Range(OrdinaryIntents(scene)) \cup UNION {Range(Exposed(q[1])) : q \in T}
      <4>1. Range(pool) = Range(OrdinaryIntents(scene)) \cup UNION {Range(Exposed(q[1])) : q \in S}
        BY <2>9 DEF Collected
      <4> DEFINE U == UNION {Range(Exposed(q[1])) : q \in S}
      <4>2. UNION {Range(Exposed(q[1])) : q \in T} = U \cup Range(Exposed(node[1]))
        BY <2>14, Zenon
      <4> HIDE DEF U
      <4> QED
        BY <2>2, <2>7, <4>1, <4>2 DEF U
    <3>7. Collected(T)'
      BY <1>1, <1>3, <3>3, <3>4, <3>5, <3>6 DEF Collected, new
    <3>8. Budget' = Budget
      BY DEF Budget
    <3> QED
      BY <1>3, <3>1, <3>7, <3>8 DEF Walked
  <2>13. Chained'
    <3>1. ASSUME NEW i \in 1 .. Len(new)
          PROVE  \E m \in Nat : \E q \in [1 .. m -> Ids] : AtEndOf(new[i], q, m)
      <4>1. CASE \E j \in 1 .. Len(calls) : new[i] = calls[j]
        <5>1. PICK j \in 1 .. Len(calls) : new[i] = calls[j]
          BY <4>1
        <5> DEFINE next == new[i]
        <5>2. /\ next \in Call /\ next.cat \in Feeds(call.cat) /\ next.depth <= call.depth + 2
              /\ next.enum => Get(next.cat).mode = "ENUM"
          BY <2>1, <5>1 DEF Deeper
        <5>3. next.cat \in Visible(scene)
          <6>1. Node(next) \in Nodes(calls)
            BY <5>1 DEF Nodes
          <6>2. Node(next)[1] = next.cat
            BY DEF Node
          <6> HIDE DEF next
          <6> QED
            BY <2>11, <6>1, <6>2, PlacedVisible
        <5> HIDE DEF next
        <5> QED
          BY <1>5, <1>9, <5>2, <5>3, ChainGrows DEF next
      <4>2. CASE \E j \in 1 .. Len(rest) : new[i] = rest[j]
        BY <1>5, <1>6, <4>2
      <4> QED
        BY <2>5, <4>1, <4>2
    <3> QED
      BY <1>3, <1>7, <3>1 DEF Chained, new
  <2> QED
    BY <1>4, <1>13, <2>8, <2>12, <2>13 DEF IInv, Raised
<1> QED
  BY <1>11, <1>12, <1>13

LEMMA ReturnHolds ==
    ASSUME IInv, Return
    PROVE  IInv'
<1>1. /\ raw' = raw /\ scene' = scene /\ todo' = todo /\ pool' = pool
      /\ phase = "collecting" /\ phase' = "done" /\ todo = <<>>
  BY DEF Return
<1>2. IsFile /\ Valid /\ todo \in Seq(Call) /\ pool \in Seq(Intents) /\ scene \in Ids /\ Walked
  BY <1>1 DEF IInv, Shapes, Accepted
<1>3. /\ Ids' = Ids /\ IsFile' /\ Call' = Call /\ Intents' = Intents /\ Valid'
      /\ \A d : OrdinaryIntents(d)' = OrdinaryIntents(d) /\ Exposed(d)' = Exposed(d)
      /\ \A d : First(d)' = First(d) /\ \A b : Follow(d, b)' = Follow(d, b)
      /\ \A q, d : Placed(q, d)' <=> Placed(q, d)
  BY <1>1, <1>2, SameFile
<1>4. Shapes'
  BY <1>1, <1>2, <1>3 DEF Shapes
<1>5. Walked'
  <2>1. \A S : Collected(S)' <=> Collected(S)
    BY <1>1, <1>3 DEF Collected, Nodes
  <2>2. Budget' = Budget
    BY DEF Budget
  <2> QED
    BY <1>1, <1>2, <1>3, <2>1, <2>2 DEF Walked
<1> QED
  BY <1>1, <1>3, <1>4, <1>5 DEF IInv, Accepted, Chained, Raised

LEMMA StutterHolds ==
    ASSUME IInv, UNCHANGED vars
    PROVE  IInv'
<1>1. raw' = raw /\ scene' = scene /\ todo' = todo /\ pool' = pool /\ phase' = phase
  BY DEF vars
<1>2. Shapes /\ Accepted /\ Walked /\ Chained /\ Raised
  BY DEF IInv
<1>3. /\ Ids' = Ids /\ (IsFile' <=> IsFile) /\ Call' = Call /\ Intents' = Intents /\ (Valid' <=> Valid)
      /\ \A d : Get(d)' = Get(d) /\ Visible(d)' = Visible(d)
      /\ \A d : OrdinaryIntents(d)' = OrdinaryIntents(d) /\ Exposed(d)' = Exposed(d)
      /\ \A d : First(d)' = First(d) /\ \A b : Follow(d, b)' = Follow(d, b)
      /\ \A p, n : Linked(p, n)' <=> Linked(p, n)
      /\ \A q, d : Placed(q, d)' <=> Placed(q, d)
  BY <1>1, SameFile
<1>4. Shapes'
  BY <1>1, <1>2, <1>3 DEF Shapes
<1>5. Walked'
  <2>1. \A S : Collected(S)' <=> Collected(S)
    BY <1>1, <1>3 DEF Collected, Nodes
  <2>2. Budget' = Budget
    BY DEF Budget
  <2> QED
    BY <1>1, <1>2, <1>3, <2>1, <2>2 DEF Walked
<1>6. Chained'
  <2>1. \A x, p, n : AtEndOf(x, p, n)' <=> AtEndOf(x, p, n)
    BY <1>1, <1>3 DEF AtEndOf
  <2> QED
    BY <1>1, <1>2, <1>3, <2>1 DEF Chained
<1>7. Accepted' /\ Raised'
  BY <1>1, <1>2, <1>3 DEF Accepted, Raised
<1> QED
  BY <1>4, <1>5, <1>6, <1>7 DEF IInv

(* The invariant holds while a scene file is loaded and searched. *)
THEOREM Invariance == Spec => []IInv
<1>1. Init => IInv
  BY InitHolds
<1>2. IInv /\ [Next]_vars => IInv'
  BY LoadHolds, ScopeHolds, CollectHolds, ReturnHolds, StutterHolds DEF Next
<1> QED
  BY <1>1, <1>2, PTL DEF Spec

-----------------------------------------------------------------------------
(* What follows from it.                                                      *)

LEMMA TypeFromInv ==
    ASSUME IInv
    PROVE  TypeOK
<1>1. /\ phase \in {"file", "rejected", "ready", "collecting", "done", "raised"}
      /\ scene \in Ids \cup {None} /\ todo \in Seq(Call) /\ pool \in Seq(Intents)
  BY DEF IInv, Shapes
<1>2. \A call \in Range(todo) : call.budget \in Budget /\ call.depth \in Nat
  <2>1. \A call \in Range(todo) : call \in Call
    BY <1>1 DEF Range
  <2> QED
    BY <2>1 DEF Call
<1>3. Range(pool) \subseteq Intents
  BY <1>1 DEF Range
<1> QED
  BY <1>1, <1>2, <1>3 DEF TypeOK, Intents

(* When nothing is left to call, what was collected is what is visible. *)
LEMMA AllVisibleCollected ==
    ASSUME IsFile, Valid, scene \in Ids, todo = <<>>,
           NEW S \in SUBSET (Ids \X Budget), Collected(S)
    PROVE  {q[1] : q \in S} = Visible(scene)
<1> DEFINE D == Deep(scene)
           N == Near(scene)
           U == {d \in Ids : <<d, Unbounded>> \in S}
<1>1. Nodes(todo) = {}
  BY NoCalls
<1>2. /\ First(scene) \subseteq S /\ \A q \in S : Follow(q[1], q[2]) \subseteq S
      /\ \A q \in S : Placed(q, scene)
  BY <1>1 DEF Collected
<1>3. \A q \in S : q[1] \in Visible(scene)
  BY <1>2, PlacedVisible
<1>4. \A k \in N : <<k, 1>> \in S
  BY <1>2 DEF First
<1>5. D \subseteq U
  <2>1. N \subseteq Ids /\ D \in SUBSET Ids
    BY DeepInTree
  <2>2. ASSUME NEW d \in D
        PROVE  <<d, Unbounded>> \in S
    <3>1. \/ PropsOf(scene).search_depth = "all" /\ d \in Children(scene)
          \/ d \in Enums(N)
          \/ d \in Extended(scene)
      BY DEF Deep
    <3>2. CASE PropsOf(scene).search_depth = "all" /\ d \in Children(scene)
      BY <1>2, <3>2 DEF First
    <3>3. CASE d \in Enums(N)
      <4>1. PICK k \in N : Exposes(k) /\ d = Get(k).extends /\ d # None
        BY <3>3 DEF Enums
      <4>2. d \in Extended(k)
        BY <4>1 DEF Extended
      <4>3. <<d, Unbounded>> \in Follow(k, 1)
        BY <4>1, <4>2 DEF Follow
      <4>4. Follow(<<k, 1>>[1], <<k, 1>>[2]) \subseteq S
        BY <1>2, <1>4
      <4> QED
        BY <4>3, <4>4
    <3>4. CASE d \in Extended(scene)
      BY <1>2, <3>4 DEF First
    <3> QED
      BY <3>1, <3>2, <3>3, <3>4
  <2> QED
    BY <2>1, <2>2
<1>6. Closed(U)
  <2> SUFFICES ASSUME NEW c \in U, NEW d \in Feeds(c)
               PROVE  d \in U
    BY DEF Closed
  <2>1. d \in Ids
    BY ValidFacts
  <2>2. \/ PropsOf(c).allow_penetration /\ d \in Children(c)
        \/ Exposes(c) /\ d \in Extended(c)
    BY DEF Feeds
  <2>3. <<d, Unbounded>> \in Follow(c, Unbounded)
    BY <2>2 DEF Follow
  <2>4. Follow(<<c, Unbounded>>[1], <<c, Unbounded>>[2]) \subseteq S
    BY <1>2
  <2> QED
    BY <2>1, <2>3, <2>4
<1>7. VisibleFrom(D) \subseteq U
  <2>1. D \in SUBSET Ids /\ U \in SUBSET Ids
    BY DeepInTree
  <2> HIDE DEF U, D
  <2> QED
    BY <1>5, <1>6, <2>1, VisibleIsLeast
<1>8. \A c \in Visible(scene) : \E q \in S : q[1] = c
  <2> SUFFICES ASSUME NEW c \in Visible(scene)
               PROVE  \E q \in S : q[1] = c
    OBVIOUS
  <2>1. <<c, 1>>[1] = c /\ <<c, Unbounded>>[1] = c
    OBVIOUS
  <2>2. <<c, 1>> \in S \/ <<c, Unbounded>> \in S
    BY <1>4, <1>7 DEF Visible
  <2> QED
    BY <2>1, <2>2
<1> QED
  BY <1>3, <1>8

(* What a frame exposes, as the V3 table has it. *)
LEMMA ExposedIs ==
    ASSUME NEW c \in Ids
    PROVE  Range(Exposed(c)) = (IF PropsOf(c).expose_ordinary THEN Range(OrdinaryIntents(c)) ELSE {})
                               \cup (IF PropsOf(c).expose_special THEN Range(SpecialIntents(c)) ELSE {})
<1> DEFINE o == OrdinaryIntents(c)
           s == SpecialIntents(c)
           a == IF PropsOf(c).expose_ordinary THEN o ELSE <<>>
           b == IF PropsOf(c).expose_special THEN s ELSE <<>>
<1>1. o \in Seq(Intents) /\ s \in Seq(Intents)
  <2> DEFINE x == <<c, "ordinary">>
             y == <<c, "special">>
  <2>1. o \in {<<>>, <<x>>} /\ s \in {<<>>, <<y>>}
    BY DEF OrdinaryIntents, SpecialIntents
  <2>2. x \in Intents /\ y \in Intents
    BY DEF Intents
  <2> HIDE DEF x, y, o, s
  <2>3. <<>> \in Seq(Intents) /\ <<x>> \in Seq(Intents) /\ <<y>> \in Seq(Intents)
    BY <2>2
  <2> QED
    BY <2>1, <2>3
<1>2. Exposed(c) = a \o b
  BY DEF Exposed
<1> HIDE DEF o, s
<1>3. a \in Seq(Intents) /\ b \in Seq(Intents)
  BY <1>1
<1>4. Range(<<>>) = {}
  BY DEF Range
<1>5. /\ Range(a) = (IF PropsOf(c).expose_ordinary THEN Range(o) ELSE {})
      /\ Range(b) = (IF PropsOf(c).expose_special THEN Range(s) ELSE {})
  BY <1>4
<1> HIDE DEF a, b
<1>6. Range(a \o b) = Range(a) \cup Range(b)
  BY <1>3, JoinedRange
<1> QED
  BY <1>2, <1>5, <1>6 DEF o, s

(* What the walk has collected at its end. *)
LEMMA PoolIsExposed ==
    ASSUME IInv, phase = "done"
    PROVE  Range(pool) = Range(OrdinaryIntents(scene)) \cup ExposedBy(Visible(scene))
<1>1. IsFile /\ Valid /\ scene \in Ids /\ todo = <<>> /\ Walked
  BY DEF IInv, Shapes, Accepted
<1>2. PICK S \in SUBSET (Ids \X Budget) : Collected(S)
  BY <1>1 DEF Walked
<1> DEFINE V == Visible(scene)
           B == UNION {Range(Exposed(q[1])) : q \in S}
           O == UNION {Range(OrdinaryIntents(c)) : c \in {c \in V : PropsOf(c).expose_ordinary}}
           P == UNION {Range(SpecialIntents(c)) : c \in {c \in V : PropsOf(c).expose_special}}
<1>3. {q[1] : q \in S} = V
  BY <1>1, <1>2, AllVisibleCollected
<1>4. Range(pool) = Range(OrdinaryIntents(scene)) \cup B
  BY <1>2 DEF Collected
<1>5. V \subseteq Ids
  BY <1>1, DeepInTree DEF Visible
<1> HIDE DEF V
<1>6. B = O \cup P
  <2>1. ASSUME NEW x
        PROVE  x \in B <=> \E c \in V : x \in Range(Exposed(c))
    <3>1. x \in B <=> \E q \in S : x \in Range(Exposed(q[1]))
      OBVIOUS
    <3> QED
      BY <1>3, <3>1
  <2>2. ASSUME NEW x, NEW c \in V
        PROVE  x \in Range(Exposed(c)) <=> \/ PropsOf(c).expose_ordinary /\ x \in Range(OrdinaryIntents(c))
                                           \/ PropsOf(c).expose_special /\ x \in Range(SpecialIntents(c))
    BY <1>5, ExposedIs
  <2>3. ASSUME NEW x
        PROVE  /\ x \in O <=> \E c \in V : PropsOf(c).expose_ordinary /\ x \in Range(OrdinaryIntents(c))
               /\ x \in P <=> \E c \in V : PropsOf(c).expose_special /\ x \in Range(SpecialIntents(c))
    OBVIOUS
  <2> HIDE DEF B, O, P
  <2> QED
    BY <2>1, <2>2, <2>3
<1> HIDE DEF B, O, P
<1>7. Range(pool) = Range(OrdinaryIntents(scene)) \cup (O \cup P)
  BY <1>4, <1>6
<1> QED
  BY <1>7 DEF V, O, P, ExposedBy

(* The intents of a category are its own. *)
LEMMA IntentsDiffer ==
    ASSUME NEW c, NEW d
    PROVE  /\ \A x \in Range(OrdinaryIntents(c)) : x = <<c, "ordinary">>
           /\ \A x \in Range(SpecialIntents(c)) : x = <<c, "special">>
           /\ Range(OrdinaryIntents(c)) \cap Range(SpecialIntents(d)) = {}
           /\ c # d => Range(SpecialIntents(c)) \cap Range(SpecialIntents(d)) = {}
<1>1. \A k : \A x \in Range(OrdinaryIntents(k)) : x = <<k, "ordinary">>
  BY DEF OrdinaryIntents, Range
<1>2. \A k : \A x \in Range(SpecialIntents(k)) : x = <<k, "special">>
  BY DEF SpecialIntents, Range
<1> QED
  BY <1>1, <1>2

LEMMA PoolFromInv ==
    ASSUME IInv
    PROVE  PoolIsV3
<1> SUFFICES ASSUME phase = "done"
             PROVE  /\ Range(pool) \ Range(SpecialIntents(scene)) = V3Pool(scene)
                    /\ scene \notin Visible(scene) => Range(pool) = V3Pool(scene)
  BY DEF PoolIsV3
<1> DEFINE own == Range(OrdinaryIntents(scene))
           apart == Range(SpecialIntents(scene))
           V == Visible(scene)
           others == V \ {scene}
<1>1. Range(pool) = own \cup ExposedBy(V) /\ V3Pool(scene) = own \cup ExposedBy(others)
  BY PoolIsExposed DEF V3Pool
<1>2. ASSUME NEW S, NEW x
      PROVE  x \in ExposedBy(S) <=>
                 \E c \in S : \/ PropsOf(c).expose_ordinary /\ x \in Range(OrdinaryIntents(c))
                              \/ PropsOf(c).expose_special /\ x \in Range(SpecialIntents(c))
  BY DEF ExposedBy
<1>3. ExposedBy(V) \subseteq ExposedBy(others) \cup own \cup apart
  <2> SUFFICES ASSUME NEW x \in ExposedBy(V), x \notin own, x \notin apart
               PROVE  x \in ExposedBy(others)
    OBVIOUS
  <2>1. PICK c \in V : \/ PropsOf(c).expose_ordinary /\ x \in Range(OrdinaryIntents(c))
                       \/ PropsOf(c).expose_special /\ x \in Range(SpecialIntents(c))
    BY <1>2
  <2>2. c # scene
    BY <2>1
  <2> QED
    BY <1>2, <2>1, <2>2
<1>4. ExposedBy(others) \subseteq ExposedBy(V)
  BY <1>2
<1>5. ExposedBy(others) \cap apart = {} /\ own \cap apart = {}
  <2>1. ASSUME NEW c \in others
        PROVE  /\ Range(OrdinaryIntents(c)) \cap apart = {}
               /\ Range(SpecialIntents(c)) \cap apart = {}
    BY IntentsDiffer
  <2>2. own \cap apart = {}
    BY IntentsDiffer
  <2> HIDE DEF own, apart, others
  <2> QED
    BY <1>2, <2>1, <2>2
<1>6. scene \notin V => others = V
  OBVIOUS
<1> HIDE DEF own, apart, V, others
<1>7. Range(pool) \ apart = V3Pool(scene)
  BY <1>1, <1>3, <1>4, <1>5
<1>8. scene \notin V => Range(pool) = V3Pool(scene)
  BY <1>1, <1>6
<1> QED
  BY <1>7, <1>8 DEF apart, V

(* A frame that is too deep ends a chain that passes some category twice. *)
LEMMA RaisedFromInv ==
    ASSUME IInv
    PROVE  RaisesOnlyOnEnumLoop
<1> SUFFICES ASSUME phase = "raised", Get(scene).mode # "ENUM", 2 * Cardinality(Ids) <= RecursionLimit
             PROVE  \E c \in Visible(scene) : Get(c).mode = "ENUM" /\ c \in VisibleFrom(Feeds(c))
  BY DEF RaisesOnlyOnEnumLoop
<1>1. IsFile /\ Valid /\ todo \in Seq(Call) /\ todo # <<>> /\ Head(todo).depth > RecursionLimit
  BY DEF IInv, Shapes, Accepted, Raised
<1>2. Head(todo) = todo[1] /\ 1 \in 1 .. Len(todo) /\ todo[1] \in Call
  BY <1>1, HeadAndTail
<1>3. PICK n \in Nat : \E p \in [1 .. n -> Ids] : AtEndOf(todo[1], p, n)
  BY <1>2 DEF IInv, Chained
<1>4. PICK p \in [1 .. n -> Ids] : AtEndOf(todo[1], p, n)
  BY <1>3
<1>5. Cardinality(Ids) < n
  <2>1. todo[1].depth \in Nat /\ todo[1].depth > RecursionLimit /\ todo[1].depth <= 2 * n
    BY <1>1, <1>2, <1>4 DEF AtEndOf, Call
  <2>2. Cardinality(Ids) \in Nat /\ RecursionLimit \in Nat
    BY <1>1, FileFacts, FS_CardinalityType, SceneAssumption
  <2> QED
    BY <2>1, <2>2
<1>6. PICK i \in 1 .. n, j \in 1 .. n : i < j /\ p[i] = p[j]
  BY <1>1, <1>5, LongChainRepeats
<1>7. Linked(p, n) /\ \A k \in 1 .. n : p[k] \in Visible(scene)
  BY <1>4 DEF AtEndOf
<1>8. \E k \in 1 .. n : Get(p[k]).mode = "ENUM" /\ p[k] \in VisibleFrom(Feeds(p[k]))
  BY <1>1, <1>6, <1>7, LoopHasEnum
<1> QED
  BY <1>7, <1>8

(* TypeOK: in particular the walk never calls itself with a spent budget, so   *)
(* the check at the top of _collect_via_ancestor_view never fires.             *)
THEOREM TypeCorrect == Spec => []TypeOK
<1>1. IInv => TypeOK
  BY TypeFromInv
<1> QED
  BY <1>1, Invariance, PTL

(* PoolIsV3: for every scene file the loader accepts, scope() returns exactly  *)
(* the intents the V3 table makes visible from the scene, save that a scene    *)
(* which sees itself through an ENUM may get its own special intents.          *)
THEOREM PoolAlwaysV3 == Spec => []PoolIsV3
<1>1. IInv => PoolIsV3
  BY PoolFromInv
<1> QED
  BY <1>1, Invariance, PTL

(* RaisesOnlyOnEnumLoop: the walk of an accepted tree exhausts the stack only  *)
(* where an ENUM lies above a category that extends it.                        *)
THEOREM RaisesOnlyOnLoop == Spec => []RaisesOnlyOnEnumLoop
<1>1. IInv => RaisesOnlyOnEnumLoop
  BY RaisedFromInv
<1> QED
  BY <1>1, Invariance, PTL

(* PathsRoundTrip: in every scene file the loader accepts, resolve_path takes  *)
(* a category's path_of back to it if and only if no name on the path is empty *)
(* or holds the separator.                                                     *)
THEOREM PathsAlwaysRoundTrip == Spec => []PathsRoundTrip
<1>1. ASSUME IInv
      PROVE  PathsRoundTrip
  <2> SUFFICES ASSUME phase = "ready"
               PROVE  \A c \in Ids : ResolvePath(PathOf(c)) = c <=>
                          \A i \in DOMAIN ClimbFrom(c) : Plain(Get(ClimbFrom(c)[i]).name)
    BY DEF PathsRoundTrip
  <2>1. IsFile /\ Valid
    BY <1>1 DEF IInv, Shapes, Accepted
  <2> QED
    BY <2>1, PathResolves
<1> QED
  BY <1>1, Invariance, PTL
=============================================================================
