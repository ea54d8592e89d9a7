---------------------------- MODULE Native_proofs ----------------------------
(***************************************************************************)
(* Proofs about the two parts of the Windows backend that MCNative runs.   *)
(* WifiScan: with any number of requests and interfaces, an answer that    *)
(* says refreshed is fresh on every interface it was asked for, and a      *)
(* callback finds its context unless unregistering failed.  Ipv4Step: with *)
(* any addresses, lists and lease, the step of an adapter and its rollback *)
(* keep the promise of an apply, the rollback succeeds when no call of it  *)
(* fails, and success means what was asked.                                *)
(***************************************************************************)
EXTENDS MCNative, FiniteSetTheorems, WellFoundedInduction, TLAPS

-----------------------------------------------------------------------------
(* Lists.                                                                  *)

\* Every non-empty set of natural numbers has a least element.
LEMMA Least ==
  ASSUME NEW S \in SUBSET Nat, S # {}
  PROVE  \E m \in S : \A n \in S : m <= n
<1> DEFINE R == OpToRel(<, Nat)
<1>1. \E m \in S : \A n \in S : ~ (<<n, m>> \in R)
  BY NatLessThanWellFounded, WFMin
<1>2. \A m, n \in Nat : m < n => <<m, n>> \in R
  <2> SUFFICES ASSUME NEW m \in Nat, NEW n \in Nat, m < n PROVE <<m, n>> \in R
    OBVIOUS
  <2>1. R = {p \in Nat \X Nat : p[1] < p[2]}
    BY DEF OpToRel
  <2> QED
    BY <2>1
<1> HIDE DEF R
<1>3. PICK m \in S : \A n \in S : ~ (<<n, m>> \in R)
  BY <1>1
<1>4. ASSUME NEW n \in S PROVE m <= n
  <2>1. ~ (<<n, m>> \in R)
    BY <1>3
  <2>2. ~ (n < m)
    BY <2>1, <1>2
  <2> QED
    BY <2>2
<1> QED
  BY <1>4

Below(I, k) == {i \in I : i < k}

\* A part of a finite set is finite and no larger.
LEMMA SubsetIsFinite ==
  ASSUME NEW S, IsFiniteSet(S), NEW T, T \subseteq S
  PROVE  IsFiniteSet(T) /\ Cardinality(T) \in Nat /\ Cardinality(T) <= Cardinality(S)
<1>1. IsFiniteSet(T) /\ Cardinality(T) <= Cardinality(S)
  BY FS_Subset
<1> QED
  BY <1>1, FS_CardinalityType

\* A part of a finite set that misses an element is smaller.
LEMMA StrictSubset ==
  ASSUME NEW S, IsFiniteSet(S), NEW T, T \subseteq S, NEW e \in S, e \notin T
  PROVE  Cardinality(T) < Cardinality(S)
<1>1. /\ IsFiniteSet(T) /\ Cardinality(T) \in Nat /\ Cardinality(T) <= Cardinality(S)
      /\ Cardinality(S) \in Nat
  BY SubsetIsFinite
<1>2. Cardinality(S) = Cardinality(T) => S = T
  BY FS_Subset
<1> QED
  BY <1>1, <1>2

\* In a finite set of numbers from 1 on there is, for each j, one with j - 1 before it.
LEMMA Ranked ==
  ASSUME NEW n \in Nat, NEW I \in SUBSET (1..n), NEW j \in 1..Cardinality(I)
  PROVE  \E k \in I : Cardinality(Below(I, k)) = j - 1
<1>0. \A i \in I : i \in Nat /\ 0 < i /\ i < n + 1
  OBVIOUS
<1>1. IsFiniteSet(I) /\ Cardinality(I) \in Nat
  <2>1. IsFiniteSet(1..n)
    BY FS_Interval
  <2> QED
    BY <2>1, SubsetIsFinite
<1>2. \A k : IsFiniteSet(Below(I, k)) /\ Cardinality(Below(I, k)) \in Nat
  <2>1. \A k : Below(I, k) \subseteq I
    BY DEF Below
  <2> QED
    BY <1>1, <2>1, SubsetIsFinite
<1> DEFINE T == {m \in Nat : Cardinality(Below(I, m)) >= j}
<1>3. n + 1 \in T
  <2>1. Below(I, n + 1) = I
    BY <1>0 DEF Below
  <2> QED
    BY <1>1, <2>1
<1>4. PICK m \in T : \A i \in T : m <= i
  <2>1. T \in SUBSET Nat /\ T # {}
    BY <1>3
  <2> HIDE DEF T
  <2> QED
    BY <2>1, Least
<1>5. m # 0
  <2>1. Below(I, 0) = {}
    <3>1. \A i \in I : ~ (i < 0)
      BY <1>0
    <3> QED
      BY <3>1 DEF Below
  <2>2. Cardinality(Below(I, 0)) = 0
    BY <2>1, FS_EmptySet
  <2> QED
    BY <1>4, <2>2
<1> DEFINE k == m - 1
<1>6. k \in Nat /\ k \notin T
  <2>1. m \in Nat /\ k \in Nat /\ ~ (m <= k)
    BY <1>4, <1>5
  <2> QED
    BY <1>4, <2>1
<1>7. Cardinality(Below(I, k)) < j
  BY <1>2, <1>6
<1>8. k \in I
  <2> SUFFICES ASSUME k \notin I PROVE FALSE
    OBVIOUS
  <2>1. \A i \in I : i < m <=> i < k
    BY <1>0, <1>6
  <2>2. Below(I, m) = Below(I, k)
    BY <2>1 DEF Below
  <2> QED
    BY <1>2, <1>4, <1>7, <2>2
<1>9. Below(I, m) = Below(I, k) \cup {k} /\ k \notin Below(I, k)
  <2>1. \A i \in I : i < m <=> i < k \/ i = k
    BY <1>0, <1>6
  <2>2. k \in I /\ ~ (k < k)
    BY <1>6, <1>8
  <2> QED
    BY <2>1, <2>2 DEF Below
<1>10. Cardinality(Below(I, m)) = Cardinality(Below(I, k)) + 1
  BY <1>2, <1>9, FS_AddElement
<1>11. Cardinality(Below(I, k)) = j - 1
  BY <1>2, <1>4, <1>7, <1>10
<1> QED
  BY <1>8, <1>11

Nth(I, j) == CHOOSE k \in I : Cardinality(Below(I, k)) = j - 1

\* Nth(I, j) has j - 1 elements of I below it.
LEMMA NthIs ==
  ASSUME NEW n \in Nat, NEW I \in SUBSET (1..n), NEW j \in 1..Cardinality(I)
  PROVE  Nth(I, j) \in I /\ Cardinality(Below(I, Nth(I, j))) = j - 1
<1>1. \E k \in I : Cardinality(Below(I, k)) = j - 1
  BY Ranked
<1> QED
  BY <1>1 DEF Nth

\* Each is the only one with as many before it.
LEMMA RankIs ==
  ASSUME NEW n \in Nat, NEW I \in SUBSET (1..n), NEW k \in I
  PROVE  LET j == Cardinality(Below(I, k)) + 1 IN j \in 1..Cardinality(I) /\ Nth(I, j) = k
<1> DEFINE j == Cardinality(Below(I, k)) + 1
<1>1. IsFiniteSet(I) /\ Cardinality(I) \in Nat
  <2>1. IsFiniteSet(1..n)
    BY FS_Interval
  <2> QED
    BY <2>1, SubsetIsFinite
<1>2. \A l : Below(I, l) \subseteq I
  BY DEF Below
<1>3. \A l : IsFiniteSet(Below(I, l)) /\ Cardinality(Below(I, l)) \in Nat
  BY <1>1, <1>2, SubsetIsFinite
<1>4. \A i \in I : i \in Nat /\ ~ (i < i)
  OBVIOUS
<1>5. ASSUME NEW l \in I, NEW m \in I, l < m
      PROVE  Cardinality(Below(I, l)) < Cardinality(Below(I, m))
  <2>1. Below(I, l) \subseteq Below(I, m)
    <3>1. \A i \in I : i < l => i < m
      BY <1>4, <1>5
    <3> QED
      BY <3>1 DEF Below
  <2>2. l \in Below(I, m) /\ l \notin Below(I, l)
    BY <1>4, <1>5 DEF Below
  <2> QED
    BY <1>3, <2>1, <2>2, StrictSubset
<1>6. j \in 1..Cardinality(I)
  <2>1. k \notin Below(I, k)
    BY <1>4 DEF Below
  <2>2. Cardinality(Below(I, k)) < Cardinality(I)
    BY <1>1, <1>2, <2>1, StrictSubset
  <2> QED
    BY <1>1, <1>3, <2>2
<1>7. Nth(I, j) \in I /\ Cardinality(Below(I, Nth(I, j))) = Cardinality(Below(I, k))
  <2>1. Nth(I, j) \in I /\ Cardinality(Below(I, Nth(I, j))) = j - 1
    BY <1>6, NthIs
  <2> QED
    BY <1>3, <2>1
<1>8. Nth(I, j) = k
  <2> DEFINE m == Nth(I, j)
  <2>1. m \in I /\ Cardinality(Below(I, m)) = Cardinality(Below(I, k))
    BY <1>7
  <2> HIDE DEF m
  <2>2. ~ (m < k)
    BY <1>3, <1>5, <2>1
  <2>3. ~ (k < m)
    BY <1>3, <1>5, <2>1
  <2>4. m \in Nat /\ k \in Nat
    BY <1>4, <2>1
  <2>5. m = k
    BY <2>2, <2>3, <2>4
  <2> QED
    BY <2>5 DEF m
<1> QED
  BY <1>6, <1>8

Chosen(s, S) == {k \in DOMAIN s : s[k] \in S}

\* Kept, in the terms of this section.
LEMMA KeptByRank ==
  ASSUME NEW s, NEW S
  PROVE  Kept(s, S) = [j \in 1..Cardinality(Chosen(s, S)) |-> s[Nth(Chosen(s, S), j)]]
BY DEF Kept, Chosen, Nth, Below

\* The positions that are kept.
LEMMA ChosenIs ==
  ASSUME NEW V, NEW s \in Seq(V), NEW S
  PROVE  /\ Len(s) \in Nat /\ Chosen(s, S) \in SUBSET (1..Len(s))
         /\ Cardinality(Chosen(s, S)) \in Nat
<1>1. Len(s) \in Nat /\ Chosen(s, S) \in SUBSET (1..Len(s))
  BY DEF Chosen
<1>2. IsFiniteSet(1..Len(s))
  BY <1>1, FS_Interval
<1> QED
  BY <1>1, <1>2, SubsetIsFinite

\* What is kept of a list is a list, of the same elements.
LEMMA KeptOf ==
  ASSUME NEW V, NEW s \in Seq(V), NEW S
  PROVE  /\ Kept(s, S) \in Seq(V)
         /\ ToSet(Kept(s, S)) = ToSet(s) \cap S
<1> DEFINE I == Chosen(s, S)
           t == Kept(s, S)
<1>1. Len(s) \in Nat /\ I \in SUBSET (1..Len(s)) /\ Cardinality(I) \in Nat
  BY ChosenIs
<1>2. \A j \in 1..Cardinality(I) : Nth(I, j) \in I
  BY <1>1, NthIs
<1>3. t = [j \in 1..Cardinality(I) |-> s[Nth(I, j)]]
  BY KeptByRank
<1>4. \A k \in I : k \in DOMAIN s /\ s[k] \in V /\ s[k] \in S
  BY DEF Chosen
<1>5. \A k \in DOMAIN s : s[k] \in S => k \in I
  BY DEF Chosen
<1> HIDE DEF I, t
<1>6. t \in Seq(V)
  <2>1. t \in [1..Cardinality(I) -> V]
    BY <1>2, <1>3, <1>4
  <2> QED
    BY <1>1, <2>1
<1>7. \A j \in DOMAIN t : t[j] \in ToSet(s) /\ t[j] \in S
  BY <1>2, <1>3, <1>4 DEF ToSet
<1>8. ASSUME NEW k \in I PROVE s[k] \in ToSet(t)
  <2> DEFINE j == Cardinality(Below(I, k)) + 1
  <2>1. j \in 1..Cardinality(I) /\ Nth(I, j) = k
    BY <1>1, RankIs
  <2> HIDE DEF j
  <2>2. j \in DOMAIN t /\ t[j] = s[k]
    BY <1>3, <2>1
  <2> QED
    BY <2>2 DEF ToSet
<1>9. ToSet(t) = ToSet(s) \cap S
  BY <1>5, <1>7, <1>8 DEF ToSet
<1> QED
  BY <1>6, <1>9 DEF t

\* Of a list whose elements in S are next to each other these are kept as they are.
LEMMA KeptRun ==
  ASSUME NEW V, NEW s \in Seq(V), NEW S, NEW a \in Nat, NEW b \in Nat,
         \A k \in DOMAIN s : s[k] \in S <=> a < k /\ k <= a + b, a + b <= Len(s)
  PROVE  Kept(s, S) = [j \in 1..b |-> s[a + j]]
<1> DEFINE I == Chosen(s, S)
<1>1. Len(s) \in Nat /\ I \in SUBSET (1..Len(s)) /\ Cardinality(I) \in Nat
  BY ChosenIs
<1>2. I = (a + 1)..(a + b)
  BY <1>1 DEF Chosen
<1>3. Cardinality(I) = b
  BY <1>2, FS_Interval
<1>4. ASSUME NEW j \in 1..b PROVE Nth(I, j) = a + j
  <2>1. a + j \in I
    BY <1>2
  <2>2. Below(I, a + j) = (a + 1)..(a + j - 1)
    <3>1. \A k \in Int : k \in (a + 1)..(a + b) /\ k < a + j <=> k \in (a + 1)..(a + j - 1)
      OBVIOUS
    <3>2. \A k \in I : k \in Int
      BY <1>2
    <3>3. \A k \in (a + 1)..(a + j - 1) : k \in Int
      OBVIOUS
    <3> HIDE DEF I
    <3> QED
      BY <1>2, <3>1, <3>2, <3>3 DEF Below
  <2>3. Cardinality(Below(I, a + j)) = j - 1
    <3>1. Cardinality((a + 1)..(a + j - 1)) = IF a + 1 > a + j - 1 THEN 0 ELSE a + j - 1 - (a + 1) + 1
      BY FS_Interval
    <3> QED
      BY <2>2, <3>1
  <2>4. Nth(I, Cardinality(Below(I, a + j)) + 1) = a + j
    BY <1>1, <2>1, RankIs
  <2> HIDE DEF I
  <2> QED
    BY <2>3, <2>4
<1> HIDE DEF I
<1>5. Kept(s, S) = [j \in 1..Cardinality(I) |-> s[Nth(I, j)]]
  BY KeptByRank DEF I
<1> QED
  BY <1>3, <1>4, <1>5

\* A list whose elements are all in S is kept, one that has none of them is not, and of two
\* such lists one after the other, the first or the second is kept.
LEMMA KeptHead ==
  ASSUME NEW V, NEW s \in Seq(V), NEW t \in Seq(V), NEW S,
         ToSet(s) \subseteq S, ToSet(t) \cap S = {}
  PROVE  Kept(s \o t, S) = s
<1>1. /\ s \o t \in Seq(V) /\ Len(s) \in Nat /\ Len(t) \in Nat
      /\ Len(s \o t) = Len(s) + Len(t) /\ DOMAIN (s \o t) = 1..(Len(s) + Len(t))
  OBVIOUS
<1>2. \A k \in 1..Len(s) : (s \o t)[k] = s[k] /\ s[k] \in S
  BY DEF ToSet
<1>3. \A k \in 1..Len(t) : (s \o t)[Len(s) + k] = t[k] /\ t[k] \notin S
  BY DEF ToSet
<1>4. ASSUME NEW k \in DOMAIN (s \o t) PROVE (s \o t)[k] \in S <=> 0 < k /\ k <= 0 + Len(s)
  <2>1. CASE k <= Len(s)
    BY <1>1, <1>2, <2>1
  <2>2. CASE ~ (k <= Len(s))
    <3>1. k - Len(s) \in 1..Len(t) /\ Len(s) + (k - Len(s)) = k
      BY <1>1, <2>2
    <3>2. (s \o t)[Len(s) + (k - Len(s))] \notin S
      BY <1>3, <3>1
    <3> QED
      BY <2>2, <3>1, <3>2
  <2> QED
    BY <2>1, <2>2
<1>5. Kept(s \o t, S) = [j \in 1..Len(s) |-> (s \o t)[0 + j]]
  <2> DEFINE u == s \o t
  <2>1. /\ u \in Seq(V) /\ Len(s) \in Nat /\ 0 \in Nat /\ 0 + Len(s) <= Len(u)
        /\ \A k \in DOMAIN u : u[k] \in S <=> 0 < k /\ k <= 0 + Len(s)
    BY <1>1, <1>4
  <2> HIDE DEF u
  <2>2. Kept(u, S) = [j \in 1..Len(s) |-> u[0 + j]]
    BY <2>1, KeptRun
  <2> QED
    BY <2>2 DEF u
<1>6. Kept(s \o t, S) = [j \in 1..Len(s) |-> s[j]]
  BY <1>1, <1>2, <1>5
<1>7. s = [j \in 1..Len(s) |-> s[j]]
  OBVIOUS
<1> QED
  BY <1>6, <1>7

\* The second of two lists is kept when the first one is not in S.
LEMMA KeptTail ==
  ASSUME NEW V, NEW s \in Seq(V), NEW t \in Seq(V), NEW S,
         ToSet(s) \cap S = {}, ToSet(t) \subseteq S
  PROVE  Kept(s \o t, S) = t
<1>1. /\ s \o t \in Seq(V) /\ Len(s) \in Nat /\ Len(t) \in Nat
      /\ Len(s \o t) = Len(s) + Len(t) /\ DOMAIN (s \o t) = 1..(Len(s) + Len(t))
  OBVIOUS
<1>2. \A k \in 1..Len(s) : (s \o t)[k] = s[k] /\ s[k] \notin S
  BY DEF ToSet
<1>3. \A k \in 1..Len(t) : (s \o t)[Len(s) + k] = t[k] /\ t[k] \in S
  BY DEF ToSet
<1>4. ASSUME NEW k \in DOMAIN (s \o t)
      PROVE  (s \o t)[k] \in S <=> Len(s) < k /\ k <= Len(s) + Len(t)
  <2>1. CASE k <= Len(s)
    BY <1>1, <1>2, <2>1
  <2>2. CASE ~ (k <= Len(s))
    <3>1. k - Len(s) \in 1..Len(t) /\ Len(s) + (k - Len(s)) = k
      BY <1>1, <2>2
    <3>2. (s \o t)[Len(s) + (k - Len(s))] \in S
      BY <1>3, <3>1
    <3> QED
      BY <1>1, <2>2, <3>1, <3>2
  <2> QED
    BY <2>1, <2>2
<1>5. Kept(s \o t, S) = [j \in 1..Len(t) |-> (s \o t)[Len(s) + j]]
  <2> DEFINE u == s \o t
  <2>1. /\ u \in Seq(V) /\ Len(s) \in Nat /\ Len(t) \in Nat /\ Len(s) + Len(t) <= Len(u)
        /\ \A k \in DOMAIN u : u[k] \in S <=> Len(s) < k /\ k <= Len(s) + Len(t)
    BY <1>1, <1>4
  <2> HIDE DEF u
  <2>2. Kept(u, S) = [j \in 1..Len(t) |-> u[Len(s) + j]]
    BY <2>1, KeptRun
  <2> QED
    BY <2>2 DEF u
<1>6. Kept(s \o t, S) = [j \in 1..Len(t) |-> t[j]]
  BY <1>1, <1>3, <1>5
<1>7. t = [j \in 1..Len(t) |-> t[j]]
  OBVIOUS
<1> QED
  BY <1>6, <1>7

\* A list without elements is empty.
LEMMA Emptied ==
  ASSUME NEW V, NEW s \in Seq(V)
  PROVE  ToSet(s) = {} <=> s = <<>>
BY DEF ToSet

\* A list within S is kept as it is.
LEMMA KeptAll ==
  ASSUME NEW V, NEW s \in Seq(V), NEW S, ToSet(s) \subseteq S
  PROVE  Kept(s, S) = s
<1>1. <<>> \in Seq(V) /\ s \o <<>> = s
  OBVIOUS
<1>2. ToSet(<<>>) \cap S = {}
  BY <1>1, Emptied
<1>3. Kept(s \o <<>>, S) = s
  BY <1>1, <1>2, KeptHead
<1> QED
  BY <1>1, <1>3

\* Nothing is kept exactly when no element is in S.
LEMMA KeptNone ==
  ASSUME NEW V, NEW s \in Seq(V), NEW S
  PROVE  Kept(s, S) = <<>> <=> ToSet(s) \cap S = {}
<1>1. Kept(s, S) \in Seq(V) /\ ToSet(Kept(s, S)) = ToSet(s) \cap S
  BY KeptOf
<1> QED
  BY <1>1, Emptied

\* What Without leaves.
LEMMA WithoutOf ==
  ASSUME NEW V, NEW s \in Seq(V), NEW t \in Seq(V)
  PROVE  /\ Without(s, t) \in Seq(V) /\ ToSet(Without(s, t)) = ToSet(s) \ ToSet(t)
         /\ ToSet(s) \cap ToSet(t) = {} => Without(s, t) = s
<1>1. Without(s, t) \in Seq(V) /\ ToSet(Without(s, t)) = ToSet(s) \cap (ToSet(s) \ ToSet(t))
  BY KeptOf DEF Without
<1>2. ASSUME ToSet(s) \cap ToSet(t) = {} PROVE Without(s, t) = s
  <2>1. ToSet(s) \subseteq ToSet(s) \ ToSet(t)
    BY <1>2
  <2> QED
    BY <2>1, KeptAll DEF Without
<1> QED
  BY <1>1, <1>2

\* The element of a list of one.
LEMMA OneElement == ASSUME NEW e PROVE ToSet(<<e>>) = {e}
BY DEF ToSet

\* The elements of the parts of a list.
LEMMA Parted ==
  ASSUME NEW V, NEW s \in Seq(V), s # <<>>
  PROVE  /\ Head(s) \in V /\ Tail(s) \in Seq(V) /\ Head(s) \in ToSet(s)
         /\ ToSet(s) = {Head(s)} \cup ToSet(Tail(s))
<1>1. Head(s) = s[1] /\ Len(s) \in Nat \ {0} /\ Len(Tail(s)) = Len(s) - 1 /\ Tail(s) \in Seq(V)
  OBVIOUS
<1>2. \A k \in 1..(Len(s) - 1) : Tail(s)[k] = s[k + 1]
  OBVIOUS
<1>3. s[1] \in ToSet(s) /\ s[1] \in V
  BY <1>1 DEF ToSet
<1>4. ASSUME NEW k \in 1..Len(s), k # 1 PROVE s[k] \in ToSet(Tail(s))
  <2>1. k - 1 \in 1..(Len(s) - 1) /\ (k - 1) + 1 = k
    BY <1>1, <1>4
  <2>2. Tail(s)[k - 1] = s[k] /\ k - 1 \in DOMAIN Tail(s)
    BY <1>1, <1>2, <2>1
  <2> QED
    BY <2>2 DEF ToSet
<1>5. ASSUME NEW k \in DOMAIN Tail(s) PROVE Tail(s)[k] \in ToSet(s)
  <2>1. k \in 1..(Len(s) - 1) /\ k + 1 \in DOMAIN s
    BY <1>1
  <2> QED
    BY <1>2, <2>1 DEF ToSet
<1>6. ToSet(s) \subseteq {s[1]} \cup ToSet(Tail(s))
  BY <1>4 DEF ToSet
<1>7. ToSet(Tail(s)) \subseteq ToSet(s)
  BY <1>5 DEF ToSet
<1> QED
  BY <1>1, <1>3, <1>6, <1>7

\* The elements of two lists joined.
LEMMA Joined ==
  ASSUME NEW V, NEW s \in Seq(V), NEW t \in Seq(V)
  PROVE  s \o t \in Seq(V) /\ ToSet(s \o t) = ToSet(s) \cup ToSet(t)
<1>1. /\ s \o t \in Seq(V) /\ Len(s) \in Nat /\ Len(t) \in Nat
      /\ DOMAIN (s \o t) = 1..(Len(s) + Len(t))
  OBVIOUS
<1>2. \A k \in 1..Len(s) : (s \o t)[k] = s[k] /\ k \in DOMAIN (s \o t)
  OBVIOUS
<1>3. \A k \in 1..Len(t) : (s \o t)[Len(s) + k] = t[k] /\ Len(s) + k \in DOMAIN (s \o t)
  OBVIOUS
<1>4. ASSUME NEW k \in DOMAIN (s \o t) PROVE (s \o t)[k] \in ToSet(s) \cup ToSet(t)
  <2>1. CASE k <= Len(s)
    BY <1>1, <1>2, <2>1 DEF ToSet
  <2>2. CASE ~ (k <= Len(s))
    <3>1. k - Len(s) \in 1..Len(t) /\ Len(s) + (k - Len(s)) = k
      BY <1>1, <2>2
    <3>2. (s \o t)[k] = t[k - Len(s)]
      BY <1>3, <3>1
    <3>3. k - Len(s) \in DOMAIN t
      BY <1>1, <3>1
    <3> QED
      BY <3>2, <3>3 DEF ToSet
  <2> QED
    BY <2>1, <2>2
<1>5. ASSUME NEW k \in DOMAIN s PROVE s[k] \in ToSet(s \o t)
  <2>1. (s \o t)[k] = s[k] /\ k \in DOMAIN (s \o t)
    BY <1>1, <1>2
  <2> QED
    BY <2>1 DEF ToSet
<1>6. ASSUME NEW k \in DOMAIN t PROVE t[k] \in ToSet(s \o t)
  <2>1. (s \o t)[Len(s) + k] = t[k] /\ Len(s) + k \in DOMAIN (s \o t)
    BY <1>1, <1>3
  <2> QED
    BY <2>1 DEF ToSet
<1>7. ToSet(s \o t) \subseteq ToSet(s) \cup ToSet(t)
  BY <1>4 DEF ToSet
<1>8. ToSet(s) \subseteq ToSet(s \o t)
  BY <1>5 DEF ToSet
<1>9. ToSet(t) \subseteq ToSet(s \o t)
  BY <1>6 DEF ToSet
<1> QED
  BY <1>1, <1>7, <1>8, <1>9

\* The empty list has no elements.
LEMMA NoElement == ToSet(<<>>) = {}
BY DEF ToSet

\* The elements of three lists joined.
LEMMA JoinedThree ==
  ASSUME NEW V, NEW s \in Seq(V), NEW t \in Seq(V), NEW u \in Seq(V)
  PROVE  /\ s \o t \in Seq(V) /\ s \o t \o u \in Seq(V)
         /\ ToSet(s \o t) = ToSet(s) \cup ToSet(t)
         /\ ToSet(s \o t \o u) = ToSet(s) \cup ToSet(t) \cup ToSet(u)
<1> DEFINE w == s \o t
<1>1. w \in Seq(V) /\ ToSet(w) = ToSet(s) \cup ToSet(t)
  BY Joined
<1> HIDE DEF w
<1>2. w \o u \in Seq(V) /\ ToSet(w \o u) = ToSet(w) \cup ToSet(u)
  BY <1>1, Joined
<1> QED
  BY <1>1, <1>2 DEF w

-----------------------------------------------------------------------------
(* WifiScan. *)


Listening == {"scan", "wait", "unregister"}

\* The context of a request exists exactly while its scan is under way.
ContextIsListening(r) == r \in context <=> req[r].at \in Listening

\* A callback that is registered or runs has its context, or could not be unregistered.
HeardHasContext(r) == r \in hears \/ calling[r] # Silent => r \in context \/ r \in broken

\* A notification that a scan is complete tells of a fresh interface, and so does the
\* event the callback let through.
NewsIsFresh(r) ==
  /\ calling[r].event = "complete" => calling[r].on \in fresh[r]
  /\ r \in context /\ inbox[r] = "complete" => Here(r) \in fresh[r]

\* Who works on an interface has one left, and who answered has none.
HereExists(r) ==
  /\ req[r].at \in Listening \cup {"register", "list"} => req[r].found # <<>>
  /\ At(r, "answered") => req[r].found = <<>>

\* refreshed so far: what is behind is fresh.
FreshSoFar(r) ==
  req[r].refreshed =>
    /\ req[r].refresh /\ req[r].at \notin {"idle", "radios"}
    /\ ~At(r, "failed") => req[r].asked \subseteq fresh[r] \cup ToSet(req[r].found)
    /\ At(r, "list") \/ (At(r, "unregister") /\ ~req[r].failing) => Here(r) \in fresh[r]

RequestInv(r) == /\ ContextIsListening(r) /\ HeardHasContext(r) /\ NewsIsFresh(r)
                 /\ HereExists(r) /\ FreshSoFar(r)

WifiInv == TypeOK /\ CallbacksFindContext /\ \A r \in Requests : RequestInv(r)

-----------------------------------------------------------------------------
(* Types.                                                                  *)

Places == {"idle", "radios", "next", "register", "scan", "wait", "unregister", "list", "answered", "failed"}
Req == [at : Places, asked : SUBSET Interfaces, refresh : BOOLEAN, left : Seq(Interfaces),
        found : Seq(Interfaces), refreshed : BOOLEAN, failing : BOOLEAN]
Notice == [on : Interfaces \cup {"none"}, event : {"none", "complete", "fail", "other"}]

\* A request has the fields of Req.
LEMMA ReqType == TypeOK => req \in [Requests -> Req]
BY DEF TypeOK, Req, Places

\* An order of the interfaces is a sequence of them.
LEMMA OrderIsSequence ==
  ASSUME NEW s \in SetToSeqs(Interfaces)
  PROVE  s \in Seq(Interfaces)
<1>1. Cardinality(Interfaces) \in Nat
  BY InterfacesAssumption, FS_CardinalityType
<1>2. s \in [1..Cardinality(Interfaces) -> Interfaces]
  BY DEF SetToSeqs
<1> QED BY <1>1, <1>2

\* The members of a sequence.
LEMMA MembersType ==
  ASSUME NEW S, NEW s \in Seq(S)
  PROVE  ToSet(s) \subseteq S
BY DEF ToSet

\* What a step may set of a request.
LEMMA ReqUpdates ==
  ASSUME NEW q \in Req
  PROVE  /\ \A p \in Places : [q EXCEPT !.at = p] \in Req
         /\ \A p \in Places, b \in BOOLEAN : [q EXCEPT !.at = p, !.refreshed = b] \in Req
         /\ \A p \in Places, b \in BOOLEAN : [q EXCEPT !.at = p, !.failing = b] \in Req
         /\ \A p \in Places, b, d \in BOOLEAN : [q EXCEPT !.at = p, !.failing = b, !.refreshed = d] \in Req
         /\ \A p \in Places, t \in Seq(Interfaces) : [q EXCEPT !.at = p, !.found = t] \in Req
         /\ \A s, t \in Seq(Interfaces) : [q EXCEPT !.left = s, !.found = t] \in Req
BY DEF Req

\* Actions of one request: what they set has its type.
LEMMA WorkTypes ==
  ASSUME TypeOK, NEW r \in Requests, Request(r) \/ Work(r) \/ CloseHandle(r) \/ Callback(r), HereExists(r)
  PROVE  TypeOK'
<1> DEFINE q == req[r]
<1>1. req \in [Requests -> Req] /\ q \in Req
  BY ReqType
<1>2. SUFFICES req' \in [Requests -> Req] /\ UNCHANGED radio /\ scanning' \subseteq Interfaces
               /\ (inbox \in [Requests -> {"none", "complete", "fail"}])'
               /\ (calling \in [Requests -> Notice])'
               /\ hears' \subseteq Requests /\ context' \subseteq Requests /\ broken' \subseteq Requests
               /\ UNCHANGED fresh /\ dangling' \in BOOLEAN
  BY DEF TypeOK, Req, Places, Notice
<1>3. calling \in [Requests -> Notice]
  BY DEF TypeOK, Notice
<1>4. CASE Request(r)
  <2>1. \A s \in SetToSeqs(Interfaces) : s \in Seq(Interfaces)
    BY OrderIsSequence
  <2>2. \A i \in Interfaces : <<i>> \in Seq(Interfaces)
    OBVIOUS
  <2>3. PICK refresh \in BOOLEAN, chosen \in Seq(Interfaces) :
          req' = [req EXCEPT ![r] = [Idle EXCEPT !.at = "radios", !.refresh = refresh,
                                                 !.left = chosen, !.asked = ToSet(chosen)]]
    BY <1>4, <2>1, <2>2 DEF Request
  <2>4. <<>> \in Seq(Interfaces) /\ ToSet(chosen) \in SUBSET Interfaces
    BY <2>3, MembersType
  <2>5. [Idle EXCEPT !.at = "radios", !.refresh = refresh, !.left = chosen, !.asked = ToSet(chosen)] \in Req
    BY <2>3, <2>4 DEF Idle, Req, Places
  <2> QED BY <1>1, <1>3, <1>4, <2>3, <2>5 DEF Request, air, port, TypeOK
<1>5. CASE QueryRadio(r)
  <2>1. /\ q.left \in Seq(Interfaces) /\ q.found \in Seq(Interfaces) /\ q.left # <<>>
        /\ Tail(q.left) \in Seq(Interfaces) /\ Append(q.found, Head(q.left)) \in Seq(Interfaces)
    BY <1>1, <1>5, Parted DEF QueryRadio, Req
  <2>2. \/ req' = [req EXCEPT ![r] = [q EXCEPT !.at = "failed"]]
        \/ \E t \in Seq(Interfaces) : req' = [req EXCEPT ![r] = [q EXCEPT !.left = Tail(q.left), !.found = t]]
    BY <1>1, <1>5, <2>1 DEF QueryRadio, End
  <2>3. req' \in [Requests -> Req]
    <3>1. [q EXCEPT !.at = "failed"] \in Req
      BY <1>1, ReqUpdates DEF Places
    <3>2. \A t \in Seq(Interfaces) : [q EXCEPT !.left = Tail(q.left), !.found = t] \in Req
      BY <1>1, <2>1, ReqUpdates
    <3> QED BY <1>1, <2>2, <3>1, <3>2
  <2> QED BY <1>3, <1>5, <2>3 DEF QueryRadio, End, air, port, TypeOK
<1>6. CASE AfterRadios(r) \/ NextInterface(r)
  <2>1. \/ \E p \in Places : req' = [req EXCEPT ![r] = [q EXCEPT !.at = p]]
        \/ \E b \in BOOLEAN : req' = [req EXCEPT ![r] = [q EXCEPT !.at = "next", !.refreshed = b]]
    BY <1>1, <1>6 DEF AfterRadios, NextInterface, End, Req, Places
  <2>2. req' \in [Requests -> Req]
    <3>1. \A p \in Places : [q EXCEPT !.at = p] \in Req
      BY <1>1, ReqUpdates
    <3>2. \A b \in BOOLEAN : [q EXCEPT !.at = "next", !.refreshed = b] \in Req
      BY <1>1, ReqUpdates DEF Places
    <3> QED BY <1>1, <2>1, <3>1, <3>2
  <2> QED BY <1>3, <1>6, <2>2 DEF AfterRadios, NextInterface, End, air, port, TypeOK
<1>7. CASE ListNetworks(r)
  <2>1. Tail(q.found) \in Seq(Interfaces)
    BY <1>1, <1>7, Parted DEF ListNetworks, HereExists, At, Req
  <2>2. \/ req' = [req EXCEPT ![r] = [q EXCEPT !.at = "failed"]]
        \/ req' = [req EXCEPT ![r] = [q EXCEPT !.at = "next", !.found = Tail(q.found)]]
    BY <1>1, <1>7 DEF ListNetworks, End
  <2>3. req' \in [Requests -> Req]
    <3>1. [q EXCEPT !.at = "failed"] \in Req
      BY <1>1, ReqUpdates DEF Places
    <3>2. [q EXCEPT !.at = "next", !.found = Tail(q.found)] \in Req
      BY <1>1, <2>1, ReqUpdates DEF Places
    <3> QED BY <1>1, <2>2, <3>1, <3>2
  <2> QED BY <1>3, <1>7, <2>3 DEF ListNetworks, End, air, port, TypeOK
<1>8. CASE CloseHandle(r)
  BY <1>1, <1>3, <1>8 DEF CloseHandle, air, TypeOK
<1>9. CASE Register(r)
  <2>1. \/ req' = [req EXCEPT ![r] = [q EXCEPT !.at = "failed"]]
        \/ req' = [req EXCEPT ![r] = [q EXCEPT !.at = "scan", !.failing = FALSE]]
    BY <1>1, <1>9 DEF Register, End
  <2>2. req' \in [Requests -> Req]
    <3>1. [q EXCEPT !.at = "failed"] \in Req
      BY <1>1, ReqUpdates DEF Places
    <3>2. [q EXCEPT !.at = "scan", !.failing = FALSE] \in Req
      BY <1>1, ReqUpdates DEF Places
    <3> QED BY <1>1, <2>1, <3>1, <3>2
  <2> QED BY <1>3, <1>9, <2>2 DEF Register, End, air, TypeOK
<1>10. CASE Scan(r)
  <2>1. Here(r) \in Interfaces
    BY <1>1, <1>10, Parted DEF Scan, HereExists, Here, At, Listening, Req
  <2>2. \/ req' = [req EXCEPT ![r] = [q EXCEPT !.at = "unregister", !.failing = TRUE]]
        \/ req' = [req EXCEPT ![r] = [q EXCEPT !.at = "wait"]]
    BY <1>1, <1>10 DEF Scan
  <2>3. req' \in [Requests -> Req]
    <3>1. [q EXCEPT !.at = "unregister", !.failing = TRUE] \in Req
      BY <1>1, ReqUpdates DEF Places
    <3>2. [q EXCEPT !.at = "wait"] \in Req
      BY <1>1, ReqUpdates DEF Places
    <3> QED BY <1>1, <2>2, <3>1, <3>2
  <2> QED BY <1>3, <1>10, <2>1, <2>3 DEF Scan, port, TypeOK
<1>11. CASE Receive(r) \/ Unregister(r)
  <2>1. \/ \E b, d \in BOOLEAN :
             req' = [req EXCEPT ![r] = [q EXCEPT !.at = "unregister", !.failing = b, !.refreshed = d]]
        \/ \E p \in Places : req' = [req EXCEPT ![r] = [q EXCEPT !.at = p]]
    BY <1>1, <1>11 DEF Receive, Unregister, Req, Places
  <2>2. req' \in [Requests -> Req]
    <3>1. \A p \in Places : [q EXCEPT !.at = p] \in Req
      BY <1>1, ReqUpdates
    <3>2. \A b, d \in BOOLEAN : [q EXCEPT !.at = "unregister", !.failing = b, !.refreshed = d] \in Req
      BY <1>1, ReqUpdates DEF Places
    <3> QED BY <1>1, <2>1, <3>1, <3>2
  <2> QED BY <1>3, <1>11, <2>2 DEF Receive, Unregister, air, port, TypeOK
<1>12. CASE Callback(r)
  BY <1>1, <1>3, <1>12 DEF Callback, Accepts, air, TypeOK, Notice, Silent
<1> QED BY <1>4, <1>5, <1>6, <1>7, <1>8, <1>9, <1>10, <1>11, <1>12 DEF Work

\* The WLAN service.
LEMMA ServiceTypes ==
  ASSUME TypeOK, NEW i \in Interfaces, ScanEnds(i) \/ OtherNews(i) \/ Elsewhere(i)
  PROVE  TypeOK'
<1>1. ASSUME NEW event \in {"complete", "fail", "other"}, Notify(i, event)
      PROVE  /\ UNCHANGED <<radio, req, inbox, hears, context, broken, dangling>>
             /\ calling' \in [Requests -> Notice] /\ fresh' \in [Requests -> SUBSET Interfaces]
  BY <1>1 DEF Notify, TypeOK, Notice
<1>2. CASE ScanEnds(i) \/ OtherNews(i)
  <2>1. scanning' \subseteq Interfaces
    BY <1>2 DEF ScanEnds, OtherNews, TypeOK
  <2>2. PICK event \in {"complete", "fail", "other"} : Notify(i, event)
    BY <1>2 DEF ScanEnds, OtherNews
  <2> QED BY <1>1, <2>1, <2>2 DEF TypeOK, Notice
<1>3. CASE Elsewhere(i)
  BY <1>3 DEF Elsewhere, port, TypeOK
<1> QED BY <1>2, <1>3

-----------------------------------------------------------------------------
(* Steps.                                                                  *)

\* What nobody works on stays as it is; news only adds to what is fresh.
LEMMA RequestKept ==
  ASSUME NEW r \in Requests, RequestInv(r), req'[r] = req[r], inbox'[r] = inbox[r],
         r \in context' <=> r \in context, r \in hears' => r \in hears, r \in broken => r \in broken',
         calling'[r] = calling[r] \/ calling'[r] = Silent, fresh[r] \subseteq fresh'[r]
  PROVE  RequestInv(r)'
BY DEF RequestInv, ContextIsListening, HeardHasContext, NewsIsFresh, HereExists, FreshSoFar, Here, At, Silent

\* An action of a request leaves the others alone.
LEMMA OthersKept ==
  ASSUME WifiInv, NEW r \in Requests, Request(r) \/ Work(r) \/ CloseHandle(r) \/ Callback(r),
         NEW e \in Requests, e # r
  PROVE  RequestInv(e)'
<1>1. RequestInv(e)
  BY DEF WifiInv
<1>2. req'[e] = req[e]
  BY DEF WifiInv, TypeOK, Request, Work, QueryRadio, AfterRadios, NextInterface, ListNetworks, Register, Scan,
         Receive, Unregister, CloseHandle, Callback, End
<1>3. inbox'[e] = inbox[e] /\ calling'[e] = calling[e] /\ fresh' = fresh
  BY DEF WifiInv, TypeOK, Request, Work, QueryRadio, AfterRadios, NextInterface, ListNetworks, Register, Scan,
         Receive, Unregister, CloseHandle, Callback, End, port
<1>4. /\ e \in context' <=> e \in context
      /\ e \in hears' <=> e \in hears
      /\ e \in broken => e \in broken'
  BY DEF Request, Work, QueryRadio, AfterRadios, NextInterface, ListNetworks, Register, Scan,
         Receive, Unregister, CloseHandle, Callback, End, port
<1> QED BY <1>1, <1>2, <1>3, <1>4, RequestKept

\* A step of one request keeps the invariant of every request.
LEMMA RequestStep ==
  ASSUME WifiInv, TypeOK', NEW r \in Requests, Request(r) \/ Work(r) \/ CloseHandle(r) \/ Callback(r)
  PROVE  RequestInv(r)'
<1> DEFINE q == req[r]
<1>1. TypeOK /\ req \in [Requests -> Req] /\ q \in Req /\ RequestInv(r)
  BY ReqType DEF WifiInv
<1> USE DEF Listening
<1>2. CASE Request(r)
  <2>1. req'[r].at = "radios" /\ ~req'[r].refreshed /\ q.at = "idle" /\ UNCHANGED port
    BY <1>1, <1>2 DEF Request, Idle, At
  <2> QED BY <1>1, <2>1 DEF RequestInv, ContextIsListening, HeardHasContext, NewsIsFresh, HereExists,
                            FreshSoFar, At, port
<1>3. CASE QueryRadio(r)
  <2>1. /\ q.at = "radios" /\ ~q.refreshed /\ req'[r].at \in {"radios", "failed"} /\ ~req'[r].refreshed
        /\ UNCHANGED port
    <3>1. /\ q.at = "radios" /\ UNCHANGED port
          /\ \/ req'[r] = [q EXCEPT !.at = "failed"]
             \/ req'[r] = [q EXCEPT !.left = Tail(q.left),
                                    !.found = IF radio[Head(q.left)] THEN Append(q.found, Head(q.left)) ELSE q.found]
      BY <1>1, <1>3 DEF QueryRadio, End, At
    <3>2. ~q.refreshed
      BY <1>1, <3>1 DEF RequestInv, FreshSoFar
    <3> QED BY <1>1, <3>1, <3>2 DEF Req
  <2> QED BY <1>1, <2>1 DEF RequestInv, ContextIsListening, HeardHasContext, NewsIsFresh, HereExists,
                            FreshSoFar, At, port
<1>4. CASE AfterRadios(r)
  <2>1. q.at = "radios" /\ ~q.refreshed /\ UNCHANGED port
    BY <1>1, <1>4 DEF AfterRadios, At, RequestInv, FreshSoFar
  <2>2. \/ req'[r].at = "failed" /\ ~req'[r].refreshed
        \/ /\ req'[r].at = "next" /\ req'[r].found = q.found /\ req'[r].refresh = q.refresh
           /\ req'[r].asked = q.asked /\ req'[r].refreshed = (q.refresh /\ ToSet(q.found) = q.asked)
    BY <1>1, <1>4, <2>1 DEF AfterRadios, End, Req
  <2> QED BY <1>1, <2>1, <2>2 DEF RequestInv, ContextIsListening, HeardHasContext, NewsIsFresh, HereExists,
                                  FreshSoFar, At, port
<1>5. CASE NextInterface(r)
  <2>1. /\ q.at = "next" /\ UNCHANGED port
        /\ req'[r] = [q EXCEPT !.at = IF q.found = <<>> THEN "answered"
                                      ELSE IF q.refresh THEN "register" ELSE "list"]
    BY <1>1, <1>5 DEF NextInterface, At
  <2>2. /\ req'[r].found = q.found /\ req'[r].refresh = q.refresh /\ req'[r].asked = q.asked
        /\ req'[r].refreshed = q.refreshed
        /\ req'[r].at = IF q.found = <<>> THEN "answered" ELSE IF q.refresh THEN "register" ELSE "list"
    BY <1>1, <2>1 DEF Req
  <2> QED BY <1>1, <2>1, <2>2 DEF RequestInv, ContextIsListening, HeardHasContext, NewsIsFresh, HereExists,
                                  FreshSoFar, At, port
<1>6. CASE ListNetworks(r)
  <2>1. /\ q.at = "list" /\ UNCHANGED port /\ q.found # <<>>
        /\ \/ req'[r] = [q EXCEPT !.at = "failed"]
           \/ req'[r] = [q EXCEPT !.at = "next", !.found = Tail(q.found)]
    BY <1>1, <1>6 DEF ListNetworks, End, At, RequestInv, HereExists
  <2>2. ToSet(q.found) \subseteq {Here(r)} \cup ToSet(Tail(q.found))
    BY <1>1, <2>1, Parted DEF Req, Here
  <2>3. /\ req'[r].refresh = q.refresh /\ req'[r].asked = q.asked /\ req'[r].refreshed = q.refreshed
        /\ \/ req'[r].at = "failed"
           \/ req'[r].at = "next" /\ req'[r].found = Tail(q.found)
    BY <1>1, <2>1 DEF Req
  <2>4. FreshSoFar(r)'
    BY <1>1, <2>1, <2>2, <2>3 DEF RequestInv, FreshSoFar, At, port
  <2> QED BY <1>1, <2>1, <2>3, <2>4 DEF RequestInv, ContextIsListening, HeardHasContext, NewsIsFresh,
                                        HereExists, At, port
<1>7. CASE CloseHandle(r)
  BY <1>1, <1>7, RequestKept DEF CloseHandle, air
<1>8. CASE Register(r)
  <2>1. q.at = "register" /\ UNCHANGED <<calling, fresh, broken>>
    BY <1>8 DEF Register, At
  <2>2. \/ req'[r] = [q EXCEPT !.at = "failed"] /\ UNCHANGED <<hears, context, inbox>>
        \/ /\ req'[r] = [q EXCEPT !.at = "scan", !.failing = FALSE]
           /\ r \in context' /\ inbox'[r] = "none"
    BY <1>1, <1>8 DEF Register, End, TypeOK
  <2>3. /\ req'[r].found = q.found /\ req'[r].refresh = q.refresh /\ req'[r].asked = q.asked
        /\ req'[r].refreshed = q.refreshed
        /\ \/ req'[r].at = "failed" /\ UNCHANGED <<hears, context, inbox>>
           \/ req'[r].at = "scan" /\ r \in context' /\ inbox'[r] = "none"
    BY <1>1, <2>2 DEF Req
  <2> QED BY <1>1, <2>1, <2>3 DEF RequestInv, ContextIsListening, HeardHasContext, NewsIsFresh, HereExists,
                                  FreshSoFar, At
<1>9. CASE Scan(r)
  <2>1. /\ q.at = "scan" /\ UNCHANGED port
        /\ \/ req'[r] = [q EXCEPT !.at = "unregister", !.failing = TRUE]
           \/ req'[r] = [q EXCEPT !.at = "wait"]
    BY <1>1, <1>9 DEF Scan, At
  <2>2. /\ req'[r].found = q.found /\ req'[r].refresh = q.refresh /\ req'[r].asked = q.asked
        /\ req'[r].refreshed = q.refreshed
        /\ req'[r].at = "wait" \/ (req'[r].at = "unregister" /\ req'[r].failing)
    BY <1>1, <2>1 DEF Req
  <2> QED BY <1>1, <2>1, <2>2 DEF RequestInv, ContextIsListening, HeardHasContext, NewsIsFresh, HereExists,
                                  FreshSoFar, At, Here, port
<1>10. CASE Receive(r)
  <2>1. /\ q.at = "wait" /\ UNCHANGED port
        /\ req'[r] = [q EXCEPT !.at = "unregister", !.failing = inbox[r] = "fail",
                               !.refreshed = q.refreshed /\ inbox[r] = "complete"]
    BY <1>1, <1>10 DEF Receive, At
  <2>2. /\ req'[r].found = q.found /\ req'[r].refresh = q.refresh /\ req'[r].asked = q.asked
        /\ req'[r].at = "unregister" /\ req'[r].refreshed = (q.refreshed /\ inbox[r] = "complete")
    BY <1>1, <2>1 DEF Req
  <2> QED BY <1>1, <2>1, <2>2 DEF RequestInv, ContextIsListening, HeardHasContext, NewsIsFresh, HereExists,
                                  FreshSoFar, At, Here, port
<1>11. CASE Unregister(r)
  <2>1. /\ q.at = "unregister" /\ context' = context \ {r} /\ UNCHANGED <<calling, inbox, fresh>>
        /\ \/ /\ calling[r] = Silent /\ r \notin hears'
              /\ req'[r] = [q EXCEPT !.at = IF q.failing THEN "failed" ELSE "list"]
           \/ r \in broken' /\ req'[r] = [q EXCEPT !.at = "failed"]
    BY <1>1, <1>11 DEF Unregister, At
  <2>2. /\ req'[r].found = q.found /\ req'[r].refresh = q.refresh /\ req'[r].asked = q.asked
        /\ req'[r].refreshed = q.refreshed
        /\ req'[r].at = "failed" \/ (req'[r].at = "list" /\ ~q.failing)
    BY <1>1, <2>1 DEF Req
  <2> QED BY <1>1, <2>1, <2>2 DEF RequestInv, ContextIsListening, HeardHasContext, NewsIsFresh, HereExists,
                                  FreshSoFar, At, Here
<1>12. CASE Callback(r)
  <2>1. /\ calling[r] # Silent /\ calling'[r] = Silent /\ UNCHANGED <<req, hears, context, fresh, broken>>
        /\ inbox'[r] = IF r \in context /\ inbox[r] = "none" /\ Accepts(r) THEN calling[r].event ELSE inbox[r]
    BY <1>1, <1>12 DEF Callback, TypeOK
  <2>2. NewsIsFresh(r)'
    BY <1>1, <2>1 DEF RequestInv, NewsIsFresh, Accepts, Here, Silent
  <2> QED BY <1>1, <2>1, <2>2 DEF RequestInv, ContextIsListening, HeardHasContext, HereExists,
                                  FreshSoFar, At, Here
<1> QED BY <1>2, <1>3, <1>4, <1>5, <1>6, <1>7, <1>8, <1>9, <1>10, <1>11, <1>12 DEF Work

\* What the WLAN service and other programs do keeps the invariant of a request.
LEMMA ServiceStep ==
  ASSUME WifiInv, NEW i \in Interfaces, ScanEnds(i) \/ OtherNews(i) \/ Elsewhere(i), NEW r \in Requests
  PROVE  RequestInv(r)'
<1>1. RequestInv(r)
  BY DEF WifiInv
<1>2. ASSUME NEW event \in {"complete", "fail", "other"}, Notify(i, event)
      PROVE  RequestInv(r)'
  <2>1. /\ UNCHANGED <<req, inbox, hears, context, broken>> /\ fresh[r] \subseteq fresh'[r]
        /\ r \notin hears => calling'[r] = calling[r]
        /\ r \in hears => calling'[r] = [on |-> i, event |-> event]
        /\ r \in hears /\ event = "complete" => i \in fresh'[r]
    BY <1>2 DEF Notify
  <2>2. HeardHasContext(r)' /\ NewsIsFresh(r)'
    BY <1>1, <2>1 DEF RequestInv, HeardHasContext, NewsIsFresh, Here
  <2> QED BY <1>1, <2>1, <2>2 DEF RequestInv, ContextIsListening, HereExists, FreshSoFar, At, Here
<1>3. CASE Elsewhere(i)
  BY <1>1, <1>3, RequestKept DEF Elsewhere, port
<1> QED BY <1>2, <1>3 DEF ScanEnds, OtherNews

\* The invariant holds before the first request.
LEMMA WifiInit == Init => WifiInv
<1> SUFFICES ASSUME Init PROVE WifiInv
  OBVIOUS
<1>1. TypeOK
  <2>1. <<>> \in Seq(Interfaces)
    OBVIOUS
  <2>2. Idle \in Req
    BY <2>1 DEF Idle, Req, Places
  <2>3. req \in [Requests -> Req]
    BY <2>2 DEF Init
  <2>4. calling \in [Requests -> Notice]
    BY DEF Init, Silent, Notice
  <2> QED BY <2>3, <2>4 DEF Init, TypeOK, Req, Places, Notice
<1>2. ASSUME NEW r \in Requests PROVE RequestInv(r)
  <2>1. req[r].at = "idle" /\ ~req[r].refreshed /\ calling[r] = Silent /\ context = {} /\ hears = {}
    BY DEF Init, Idle
  <2> QED BY <2>1 DEF RequestInv, ContextIsListening, HeardHasContext, NewsIsFresh, HereExists, FreshSoFar,
                      At, Listening, Silent
<1> QED BY <1>1, <1>2 DEF WifiInv, CallbacksFindContext, Init

\* Every step keeps the invariant.
LEMMA WifiStep == WifiInv /\ [Next]_vars => WifiInv'
<1> SUFFICES ASSUME WifiInv, [Next]_vars PROVE WifiInv'
  OBVIOUS
<1>1. ASSUME NEW r \in Requests, Request(r) \/ Work(r) \/ CloseHandle(r) \/ Callback(r)
      PROVE  WifiInv'
  <2>1. TypeOK /\ HereExists(r) /\ HeardHasContext(r) /\ CallbacksFindContext
    BY DEF WifiInv, RequestInv
  <2>2. TypeOK'
    BY <1>1, <2>1, WorkTypes
  <2>3. CallbacksFindContext'
    <3>1. CASE Callback(r)
      BY <2>1, <3>1 DEF Callback, CallbacksFindContext, HeardHasContext
    <3>2. CASE Request(r) \/ Work(r) \/ CloseHandle(r)
      <4>1. UNCHANGED dangling /\ broken \subseteq broken'
        BY <3>2 DEF Request, Work, QueryRadio, AfterRadios, NextInterface, ListNetworks, Register, Scan,
                    Receive, Unregister, CloseHandle, End, port
      <4> QED BY <2>1, <4>1 DEF CallbacksFindContext
    <3> QED BY <1>1, <3>1, <3>2
  <2>4. \A e \in Requests : RequestInv(e)'
    BY <1>1, <2>2, RequestStep, OthersKept
  <2> QED BY <2>2, <2>3, <2>4 DEF WifiInv
<1>2. ASSUME NEW i \in Interfaces, ScanEnds(i) \/ OtherNews(i) \/ Elsewhere(i)
      PROVE  WifiInv'
  <2>1. TypeOK'
    BY <1>2, ServiceTypes DEF WifiInv
  <2>2. CallbacksFindContext'
    BY <1>2 DEF WifiInv, CallbacksFindContext, ScanEnds, OtherNews, Elsewhere, Notify, port
  <2>3. \A r \in Requests : RequestInv(r)'
    BY <1>2, ServiceStep
  <2> QED BY <2>1, <2>2, <2>3 DEF WifiInv
<1>3. CASE UNCHANGED vars
  BY <1>3 DEF vars, WifiInv, TypeOK, CallbacksFindContext, RequestInv, ContextIsListening, HeardHasContext,
              NewsIsFresh, HereExists, FreshSoFar, At, Here
<1> QED BY <1>1, <1>2, <1>3 DEF Next

\* The invariant holds in every state.
LEMMA WifiInvAlways == Spec => []WifiInv
BY WifiInit, WifiStep, PTL DEF Spec

-----------------------------------------------------------------------------
(* What follows.                                                           *)

\* Every variable keeps its type (wifi_scan, windows.rs, and scan_and_wait, windows/wifi.rs).
THEOREM WifiTypes == Spec => []TypeOK
<1>1. WifiInv => TypeOK
  BY DEF WifiInv
<1> QED BY <1>1, WifiInvAlways, PTL

\* refreshed is never answered for an interface that did not complete a scan while the
\* request listened (the flag windows.rs sets from scan_and_wait).
THEOREM RefreshedIsAlwaysFresh == Spec => []RefreshedIsFresh
<1>1. WifiInv => RefreshedIsFresh
  <2> SUFFICES ASSUME WifiInv, NEW r \in Requests, At(r, "answered"), req[r].refreshed
               PROVE  req[r].refresh /\ req[r].asked \subseteq fresh[r]
    BY DEF RefreshedIsFresh
  <2>1. HereExists(r) /\ FreshSoFar(r)
    BY DEF WifiInv, RequestInv
  <2> QED BY <2>1, NoElement DEF HereExists, FreshSoFar, At
<1> QED BY <1>1, WifiInvAlways, PTL

\* The notification callback reads a dropped ScanContext only after WlanRegisterNotification
\* failed to unregister it (windows/wifi.rs).
THEOREM CallbacksAlwaysFindContext == Spec => []CallbacksFindContext
<1>1. WifiInv => CallbacksFindContext
  BY DEF WifiInv
<1> QED BY <1>1, WifiInvAlways, PTL

-----------------------------------------------------------------------------
(* The netsh calls, and what they make of one list of the adapter.         *)

ServerLists == {"dns", "dns6", "wins"}
Lists       == ServerLists \cup {"manual", "gateways"}

DhcpCalls    == [do : {"dhcp"}]
PrimaryCalls == [do : {"primary"}, address : Values, gateway : Values \cup {None}]
SetCalls     == [do : {"set"}, list : ServerLists, to : Seq(Values)]
AddCalls     == [do : {"add"}, list : Lists, one : Values]
DeleteCalls  == [do : {"delete"}, list : {"manual", "gateways"}, one : Values]

\* The servers of a call are of the family of its list.
InFamily(c) ==
  /\ c \in SetCalls => /\ c.list = "dns" => ToSet(c.to) \cap Servers6 = {}
                       /\ c.list = "dns6" => ToSet(c.to) \subseteq Servers6
  /\ c \in AddCalls => /\ c.list = "dns" => c.one \notin Servers6
                       /\ c.list = "dns6" => c.one \in Servers6

Netshs ==
  {c \in DhcpCalls \cup PrimaryCalls \cup SetCalls \cup AddCalls \cup DeleteCalls : InFamily(c)}

\* What is in list f once call c succeeded, when v was in it.
After(f, v, c) ==
  IF c.do = "set" /\ c.list = f THEN c.to
  ELSE IF c.do = "add" /\ c.list = f THEN Append(v, c.one)
  ELSE IF c.do = "delete" /\ c.list = f THEN Without(v, <<c.one>>)
  ELSE IF c.do = "primary" /\ f = "manual" THEN <<c.address>>
  ELSE IF c.do = "primary" /\ f = "gateways"
    THEN IF c.gateway = None THEN <<>> ELSE <<c.gateway>>
  ELSE v

\* What the calls C, when all succeed, make of list f with v in it is t.
Leads(f, v, C, t) ==
  \E tr \in [0..Len(C) -> Seq(Values)] :
    /\ tr[0] = v /\ tr[Len(C)] = t
    /\ \A k \in 1..Len(C) : tr[k] = After(f, tr[k - 1], C[k])

\* The calls of one kind differ from those of the others.
LEMMA Kinds ==
  ASSUME NEW c \in Netshs
  PROVE  \/ c \in DhcpCalls /\ c.do = "dhcp"
         \/ c \in PrimaryCalls /\ c.do = "primary"
         \/ c \in SetCalls /\ c.do = "set" /\ InFamily(c)
         \/ c \in AddCalls /\ c.do = "add" /\ InFamily(c)
         \/ c \in DeleteCalls /\ c.do = "delete"
BY DEF Netshs, DhcpCalls, PrimaryCalls, SetCalls, AddCalls, DeleteCalls

\* A call leaves a list of values.
LEMMA AfterTyped ==
  ASSUME NEW f \in Lists, NEW v \in Seq(Values), NEW c \in Netshs
  PROVE  After(f, v, c) \in Seq(Values)
<1>1. CASE c \in DhcpCalls /\ c.do = "dhcp"
  BY <1>1 DEF After
<1>2. CASE c \in PrimaryCalls /\ c.do = "primary"
  <2>1. c.address \in Values /\ c.gateway \in Values \cup {None}
    BY <1>2 DEF PrimaryCalls
  <2> QED
    BY <1>2, <2>1 DEF After
<1>3. CASE c \in SetCalls /\ c.do = "set" /\ InFamily(c)
  <2>1. c.to \in Seq(Values)
    BY <1>3 DEF SetCalls
  <2> QED
    BY <1>3, <2>1 DEF After
<1>4. CASE c \in AddCalls /\ c.do = "add" /\ InFamily(c)
  <2>1. c.one \in Values
    BY <1>4 DEF AddCalls
  <2> QED
    BY <1>4, <2>1 DEF After
<1>5. CASE c \in DeleteCalls /\ c.do = "delete"
  <2>1. <<c.one>> \in Seq(Values)
    BY <1>5 DEF DeleteCalls
  <2>2. Without(v, <<c.one>>) \in Seq(Values)
    BY <2>1, WithoutOf
  <2> QED
    BY <1>5, <2>2 DEF After
<1> QED
  BY <1>1, <1>2, <1>3, <1>4, <1>5, Kinds

-----------------------------------------------------------------------------
(* Leads. *)

\* Without a call left, the list is what the calls led to.
LEMMA LeadsEnd ==
  ASSUME NEW f, NEW v, NEW t, Leads(f, v, <<>>, t)
  PROVE  v = t
BY DEF Leads

\* One call leads to what it makes of the list.
LEMMA LeadsOne ==
  ASSUME NEW f \in Lists, NEW v \in Seq(Values), NEW c \in Netshs
  PROVE  Leads(f, v, <<c>>, After(f, v, c))
<1> DEFINE w == After(f, v, c)
           tr == [k \in 0..1 |-> IF k = 0 THEN v ELSE w]
<1>1. w \in Seq(Values)
  BY AfterTyped
<1>2. Len(<<c>>) = 1 /\ <<c>>[1] = c
  OBVIOUS
<1>3. w = After(f, v, c)
  OBVIOUS
<1> HIDE DEF w
<1>4. tr \in [0..1 -> Seq(Values)] /\ tr[0] = v /\ tr[1] = w
  BY <1>1
<1> HIDE DEF tr
<1>5. \A k \in 1..1 : tr[k] = After(f, tr[k - 1], <<c>>[k])
  BY <1>2, <1>3, <1>4
<1>6. Leads(f, v, <<c>>, w)
  BY <1>2, <1>4, <1>5 DEF Leads
<1> QED
  BY <1>3, <1>6

\* Calls that lead on from where the calls before them led to.
LEMMA LeadsJoin ==
  ASSUME NEW f, NEW v, NEW u, NEW t, NEW C \in Seq(Netshs), NEW D \in Seq(Netshs),
         Leads(f, v, C, u), Leads(f, u, D, t)
  PROVE  Leads(f, v, C \o D, t)
<1> DEFINE m == Len(C)
           n == Len(D)
<1>1. /\ m \in Nat /\ n \in Nat /\ Len(C \o D) = m + n
      /\ \A k \in 1..m : (C \o D)[k] = C[k]
      /\ \A k \in 1..n : (C \o D)[m + k] = D[k]
  OBVIOUS
<1>2. PICK tr \in [0..m -> Seq(Values)] :
        tr[0] = v /\ tr[m] = u /\ \A k \in 1..m : tr[k] = After(f, tr[k - 1], C[k])
  BY DEF Leads
<1>3. PICK tr2 \in [0..n -> Seq(Values)] :
        tr2[0] = u /\ tr2[n] = t /\ \A k \in 1..n : tr2[k] = After(f, tr2[k - 1], D[k])
  BY DEF Leads
<1> DEFINE all == [k \in 0..(m + n) |-> IF k <= m THEN tr[k] ELSE tr2[k - m]]
           E == C \o D
<1> HIDE DEF m, n, E
<1>4. all \in [0..(m + n) -> Seq(Values)]
  <2> SUFFICES ASSUME NEW k \in 0..(m + n)
               PROVE  (IF k <= m THEN tr[k] ELSE tr2[k - m]) \in Seq(Values)
    OBVIOUS
  <2>1. CASE k <= m
    BY <1>1, <1>2, <2>1
  <2>2. CASE ~ (k <= m)
    <3>1. k - m \in 0..n
      BY <1>1, <2>2
    <3> QED
      BY <1>3, <2>2, <3>1
  <2> QED
    BY <2>1, <2>2
<1>5. \A k \in 0..m : all[k] = tr[k]
  BY <1>1
<1>6. \A k \in 0..n : all[m + k] = tr2[k]
  <2> SUFFICES ASSUME NEW k \in 0..n PROVE all[m + k] = tr2[k]
    OBVIOUS
  <2>1. CASE k = 0
    BY <1>1, <1>2, <1>3, <2>1
  <2>2. CASE k # 0
    BY <1>1, <2>2
  <2> QED
    BY <2>1, <2>2
<1> HIDE DEF all
<1>7. ASSUME NEW k \in 1..(m + n) PROVE all[k] = After(f, all[k - 1], E[k])
  <2>1. CASE k <= m
    <3>1. k \in 1..m /\ k \in 0..m /\ k - 1 \in 0..m
      BY <1>1, <2>1
    <3>2. E[k] = C[k]
      BY <1>1, <3>1 DEF E
    <3> QED
      BY <1>2, <1>5, <3>1, <3>2
  <2>2. CASE ~ (k <= m)
    <3> DEFINE j == k - m
    <3>1. j \in 1..n /\ j \in 0..n /\ j - 1 \in 0..n /\ m + j = k /\ m + (j - 1) = k - 1
      BY <1>1, <2>2
    <3> HIDE DEF j
    <3>2. E[k] = D[j]
      BY <1>1, <3>1 DEF E
    <3>3. all[k] = tr2[j] /\ all[k - 1] = tr2[j - 1]
      BY <1>6, <3>1
    <3> QED
      BY <1>3, <3>1, <3>2, <3>3
  <2> QED
    BY <2>1, <2>2
<1>8. all[0] = v /\ all[m + n] = t
  <2>1. 0 \in 0..m /\ n \in 0..n
    BY <1>1
  <2> QED
    BY <1>2, <1>3, <1>5, <1>6, <2>1
<1>9. Len(E) = m + n
  BY <1>1 DEF E
<1>10. Leads(f, v, E, t)
  BY <1>4, <1>7, <1>8, <1>9 DEF Leads
<1> QED
  BY <1>10 DEF E

\* The calls left after the first one lead to the same list.
LEMMA LeadsStep ==
  ASSUME NEW f, NEW v, NEW t, NEW C \in Seq(Netshs), C # <<>>, Leads(f, v, C, t)
  PROVE  Leads(f, After(f, v, Head(C)), Tail(C), t)
<1> DEFINE n == Len(C)
           D == Tail(C)
<1>1. /\ n \in Nat \ {0} /\ Len(D) = n - 1 /\ Head(C) = C[1]
      /\ \A k \in 1..(n - 1) : D[k] = C[k + 1]
  OBVIOUS
<1>2. PICK tr \in [0..n -> Seq(Values)] :
        tr[0] = v /\ tr[n] = t /\ \A k \in 1..n : tr[k] = After(f, tr[k - 1], C[k])
  BY DEF Leads
<1> DEFINE rest == [k \in 0..(n - 1) |-> tr[k + 1]]
<1> HIDE DEF n, D
<1>3. rest \in [0..(n - 1) -> Seq(Values)] /\ \A k \in 0..(n - 1) : rest[k] = tr[k + 1]
  BY <1>1, <1>2
<1> HIDE DEF rest
<1>4. rest[0] = After(f, v, Head(C)) /\ rest[n - 1] = t
  BY <1>1, <1>2, <1>3
<1>5. ASSUME NEW k \in 1..(n - 1) PROVE rest[k] = After(f, rest[k - 1], D[k])
  <2>1. k \in 0..(n - 1) /\ k - 1 \in 0..(n - 1) /\ k + 1 \in 1..n /\ (k - 1) + 1 = k
    BY <1>1
  <2>2. rest[k] = tr[k + 1] /\ rest[k - 1] = tr[k]
    BY <1>3, <2>1
  <2>3. tr[k + 1] = After(f, tr[(k + 1) - 1], C[k + 1]) /\ (k + 1) - 1 = k
    BY <1>2, <2>1
  <2> QED
    BY <1>1, <2>2, <2>3
<1>6. Leads(f, After(f, v, Head(C)), D, t)
  BY <1>1, <1>3, <1>4, <1>5 DEF Leads
<1> QED
  BY <1>6 DEF D

\* The calls that leave list f alone.
Besides(f) == {c \in Netshs : \A v \in Seq(Values) : After(f, v, c) = v}

\* Calls that leave a list alone lead to the same list.
LEMMA LeadsQuiet ==
  ASSUME NEW f, NEW v \in Seq(Values), NEW C \in Seq(Netshs), ToSet(C) \subseteq Besides(f)
  PROVE  Leads(f, v, C, v)
<1> DEFINE n == Len(C)
           tr == [k \in 0..n |-> v]
<1>1. n \in Nat
  OBVIOUS
<1>2. \A k \in 1..n : C[k] \in Besides(f)
  BY DEF ToSet
<1> HIDE DEF n
<1>3. tr \in [0..n -> Seq(Values)] /\ \A k \in 0..n : tr[k] = v
  OBVIOUS
<1> HIDE DEF tr
<1>4. ASSUME NEW k \in 1..n PROVE tr[k] = After(f, tr[k - 1], C[k])
  <2>1. k \in 0..n /\ k - 1 \in 0..n
    BY <1>1
  <2>2. After(f, v, C[k]) = v
    BY <1>2 DEF Besides
  <2> QED
    BY <1>3, <2>1, <2>2
<1>5. tr[0] = v /\ tr[n] = v
  BY <1>1, <1>3
<1> QED
  BY <1>3, <1>4, <1>5 DEF Leads, n

\* No call leaves the list as it is.
LEMMA LeadsNil ==
  ASSUME NEW f, NEW v \in Seq(Values), NEW C, C = <<>>
  PROVE  Leads(f, v, C, v)
<1>1. C \in Seq(Netshs) /\ ToSet(C) = {}
  BY NoElement
<1> QED
  BY <1>1, LeadsQuiet

\* Calls that leave the list alone may follow.
LEMMA LeadsThen ==
  ASSUME NEW f, NEW v, NEW t \in Seq(Values), NEW C \in Seq(Netshs), NEW D \in Seq(Netshs),
         Leads(f, v, C, t), ToSet(D) \subseteq Besides(f)
  PROVE  Leads(f, v, C \o D, t)
<1>1. Leads(f, t, D, t)
  BY LeadsQuiet
<1> QED
  BY <1>1, LeadsJoin

\* Calls that leave the list alone may come before.
LEMMA LeadsLater ==
  ASSUME NEW f, NEW v \in Seq(Values), NEW t, NEW C \in Seq(Netshs), NEW D \in Seq(Netshs),
         ToSet(C) \subseteq Besides(f), Leads(f, v, D, t)
  PROVE  Leads(f, v, C \o D, t)
<1>1. Leads(f, v, C, v)
  BY LeadsQuiet
<1> QED
  BY <1>1, LeadsJoin

\* The calls that fill list f, and those that delete x from it.
ListCalls(f)  == {c \in SetCalls \cup AddCalls : c.list = f /\ InFamily(c)}
DeletesOf(f)  == {c \in DeleteCalls : c.list = f}

\* The calls about one list leave the other lists alone.
LEMMA OtherLists ==
  ASSUME NEW f \in Lists, NEW g \in Lists
  PROVE  /\ ListCalls(f) \subseteq Netshs /\ DeletesOf(f) \subseteq Netshs
         /\ \A c \in ListCalls(f) : c.do \in {"set", "add"}
         /\ \A c \in DeletesOf(f) : c.do = "delete"
         /\ f # g => ListCalls(f) \subseteq Besides(g) /\ DeletesOf(f) \subseteq Besides(g)
<1>1. ASSUME NEW c \in ListCalls(f) PROVE c \in Netshs /\ c.do \in {"set", "add"} /\ c.list = f
  BY DEF ListCalls, Netshs, SetCalls, AddCalls
<1>2. ASSUME NEW c \in DeletesOf(f) PROVE c \in Netshs /\ c.do = "delete" /\ c.list = f
  <2>1. c \in DeleteCalls /\ c.list = f
    BY DEF DeletesOf
  <2>2. c.do = "delete"
    BY <2>1 DEF DeleteCalls
  <2>3. c \notin SetCalls /\ c \notin AddCalls
    BY <2>2 DEF SetCalls, AddCalls
  <2>4. InFamily(c)
    BY <2>3 DEF InFamily
  <2> QED
    BY <2>1, <2>2, <2>4 DEF Netshs
<1>3. ASSUME f # g, NEW c \in ListCalls(f), NEW v PROVE After(g, v, c) = v
  BY <1>1, <1>3 DEF After
<1>4. ASSUME f # g, NEW c \in DeletesOf(f), NEW v PROVE After(g, v, c) = v
  BY <1>2, <1>4 DEF After
<1>5. ASSUME f # g PROVE ListCalls(f) \subseteq Besides(g)
  BY <1>1, <1>3, <1>5 DEF Besides
<1>6. ASSUME f # g PROVE DeletesOf(f) \subseteq Besides(g)
  BY <1>2, <1>4, <1>6 DEF Besides
<1> QED
  BY <1>1, <1>2, <1>5, <1>6

\* A change of the mode leaves the servers alone.
LEMMA ModeCalls ==
  /\ PrimaryCalls \subseteq Netshs /\ DhcpCalls \subseteq Netshs
  /\ \A f \in ServerLists : PrimaryCalls \subseteq Besides(f)
  /\ \A f \in Lists : DhcpCalls \subseteq Besides(f)
<1>1. ASSUME NEW c \in PrimaryCalls PROVE c \in Netshs /\ c.do = "primary"
  <2>1. c.do = "primary"
    BY DEF PrimaryCalls
  <2>2. c \notin SetCalls /\ c \notin AddCalls
    BY <2>1 DEF SetCalls, AddCalls
  <2> QED
    BY <2>1, <2>2 DEF Netshs, InFamily
<1>2. ASSUME NEW c \in DhcpCalls PROVE c \in Netshs /\ c.do = "dhcp"
  <2>1. c.do = "dhcp"
    BY DEF DhcpCalls
  <2>2. c \notin SetCalls /\ c \notin AddCalls
    BY <2>1 DEF SetCalls, AddCalls
  <2> QED
    BY <2>1, <2>2 DEF Netshs, InFamily
<1>3. ASSUME NEW f \in ServerLists, NEW c \in PrimaryCalls PROVE c \in Besides(f)
  <2>1. f # "manual" /\ f # "gateways"
    BY DEF ServerLists
  <2>2. \A v : After(f, v, c) = v
    BY <1>1, <2>1 DEF After
  <2> QED
    BY <1>1, <2>2 DEF Besides
<1>4. ASSUME NEW f \in Lists, NEW c \in DhcpCalls PROVE c \in Besides(f)
  <2>1. \A v : After(f, v, c) = v
    BY <1>2 DEF After
  <2> QED
    BY <1>2, <2>1 DEF Besides
<1> QED
  BY <1>1, <1>2, <1>3, <1>4

Fits(f, s) == /\ f = "dns" => ToSet(s) \cap Servers6 = {}
              /\ f = "dns6" => ToSet(s) \subseteq Servers6

\* AddAll appends its elements to the list.
LEMMA AddAllOf ==
  ASSUME NEW f \in Lists, NEW s \in Seq(Values), Fits(f, s)
  PROVE  /\ AddAll(f, s) \in Seq(Netshs) /\ ToSet(AddAll(f, s)) \subseteq ListCalls(f)
         /\ \A c \in ToSet(AddAll(f, s)) : c.do = "add" /\ c.one \in ToSet(s)
         /\ \A v \in Seq(Values) : Leads(f, v, AddAll(f, s), v \o s)
<1> DEFINE n == Len(s)
           C == AddAll(f, s)
           call(k) == [do |-> "add", list |-> f, one |-> s[k]]
<1>1. n \in Nat /\ DOMAIN s = 1..n /\ \A k \in 1..n : s[k] \in Values /\ s[k] \in ToSet(s)
  BY DEF ToSet
<1>2. C = [k \in 1..n |-> [do |-> "add", list |-> f, one |-> s[k]]]
  BY <1>1 DEF AddAll
<1>3. ASSUME NEW k \in 1..n
      PROVE  call(k) \in AddCalls /\ InFamily(call(k)) /\ call(k).one = s[k] /\ call(k).list = f
             /\ call(k).do = "add"
  <2>1. call(k) \in AddCalls
    BY <1>1 DEF AddCalls
  <2>2. call(k).do = "add" /\ call(k).one = s[k] /\ call(k).list = f
    OBVIOUS
  <2>3. call(k) \notin SetCalls
    BY <2>2 DEF SetCalls
  <2>4. f = "dns" => s[k] \notin Servers6
    BY <1>1 DEF Fits
  <2>5. f = "dns6" => s[k] \in Servers6
    BY <1>1 DEF Fits
  <2> HIDE DEF call
  <2> QED
    BY <2>1, <2>2, <2>3, <2>4, <2>5 DEF InFamily
<1>4. \A k \in 1..n : C[k] = call(k)
  BY <1>2
<1>5. \A k \in 1..n : C[k] \in ListCalls(f) /\ C[k].one = s[k] /\ C[k].do = "add" /\ C[k].list = f
  <2> HIDE DEF call, C
  <2> QED
    BY <1>3, <1>4 DEF ListCalls
<1>6. C \in Seq(Netshs) /\ Len(C) = n /\ DOMAIN C = 1..n
  <2>1. C \in [1..n -> Netshs]
    BY <1>2, <1>5, OtherLists
  <2> HIDE DEF C
  <2> QED
    BY <1>1, <2>1
<1>7. ToSet(C) \subseteq ListCalls(f) /\ \A c \in ToSet(C) : c.do = "add" /\ c.one \in ToSet(s)
  <2> HIDE DEF C
  <2> QED
    BY <1>1, <1>5, <1>6 DEF ToSet
<1> HIDE DEF C
<1>8. ASSUME NEW v \in Seq(Values) PROVE Leads(f, v, C, v \o s)
  <2> DEFINE tr == [k \in 0..n |-> v \o SubSeq(s, 1, k)]
  <2>1. \A k \in 0..n : v \o SubSeq(s, 1, k) \in Seq(Values)
    OBVIOUS
  <2>2. v \o SubSeq(s, 1, 0) = v
    OBVIOUS
  <2>3. v \o SubSeq(s, 1, n) = v \o s
    OBVIOUS
  <2>4. ASSUME NEW k \in 1..n
        PROVE  v \o SubSeq(s, 1, k) = Append(v \o SubSeq(s, 1, k - 1), s[k])
    OBVIOUS
  <2>5. tr \in [0..n -> Seq(Values)] /\ tr[0] = v /\ tr[n] = v \o s
    BY <1>1, <2>1, <2>2, <2>3
  <2>6. \A k \in 1..n : tr[k] = Append(tr[k - 1], s[k])
    <3>1. \A k \in 1..n : k \in 0..n /\ k - 1 \in 0..n
      BY <1>1
    <3> QED
      BY <2>4, <3>1
  <2> HIDE DEF tr
  <2>7. ASSUME NEW k \in 1..n PROVE tr[k] = After(f, tr[k - 1], C[k])
    BY <1>5, <2>6 DEF After
  <2> QED
    BY <1>6, <2>5, <2>7 DEF Leads
<1> QED
  BY <1>6, <1>7, <1>8 DEF C

Delete(f, x) == [do |-> "delete", list |-> f, one |-> x]

\* DeleteAll has one call for each element.
LEMMA DeleteAllOf ==
  ASSUME NEW f \in {"manual", "gateways"}, NEW s \in Seq(Values)
  PROVE  /\ DeleteAll(f, s) \in Seq(Netshs) /\ ToSet(DeleteAll(f, s)) \subseteq DeletesOf(f)
         /\ \A x : Delete(f, x) \in ToSet(DeleteAll(f, s)) <=> x \in ToSet(s)
         /\ \A c \in ToSet(DeleteAll(f, s)) : c.one \in ToSet(s) /\ c = Delete(f, c.one)
         /\ s = <<>> => DeleteAll(f, s) = <<>>
         /\ s # <<>> => DeleteAll(f, s) # <<>> /\ Head(DeleteAll(f, s)) = Delete(f, Head(s))
<1> DEFINE n == Len(s)
           C == DeleteAll(f, s)
<1>1. n \in Nat /\ DOMAIN s = 1..n /\ \A k \in 1..n : s[k] \in Values /\ s[k] \in ToSet(s)
  BY DEF ToSet
<1>2. C = [k \in 1..n |-> Delete(f, s[k])]
  BY <1>1 DEF DeleteAll, Delete
<1>3. ASSUME NEW x \in Values
      PROVE  Delete(f, x) \in DeletesOf(f)
  BY DEF Delete, DeletesOf, DeleteCalls
<1>4. \A x : Delete(f, x).one = x
  BY DEF Delete
<1>5. C \in Seq(Netshs) /\ Len(C) = n /\ DOMAIN C = 1..n
  <2>1. f \in Lists
    BY DEF Lists
  <2>2. C \in [1..n -> Netshs]
    BY <1>1, <1>2, <1>3, <2>1, OtherLists
  <2> HIDE DEF C
  <2> QED
    BY <1>1, <2>2
<1>6. \A k \in 1..n : C[k] = Delete(f, s[k])
  BY <1>2
<1> HIDE DEF C
<1>7. ToSet(C) \subseteq DeletesOf(f)
  BY <1>1, <1>3, <1>5, <1>6 DEF ToSet
<1>8. ASSUME NEW c \in ToSet(C) PROVE c.one \in ToSet(s) /\ c = Delete(f, c.one)
  <2>1. PICK k \in 1..n : c = C[k]
    BY <1>5 DEF ToSet
  <2> QED
    BY <1>1, <1>4, <1>6, <2>1
<1>9. ASSUME NEW x \in ToSet(s) PROVE Delete(f, x) \in ToSet(C)
  <2>1. PICK k \in 1..n : x = s[k]
    BY <1>1 DEF ToSet
  <2> QED
    BY <1>5, <1>6, <2>1 DEF ToSet
<1>10. \A x : Delete(f, x) \in ToSet(C) <=> x \in ToSet(s)
  BY <1>4, <1>8, <1>9
<1>11. s = <<>> => C = <<>>
  <2>1. s = <<>> => n = 0
    BY DEF n
  <2> QED
    BY <1>5, <2>1
<1>12. s # <<>> => C # <<>> /\ Head(C) = Delete(f, Head(s))
  <2>1. ASSUME s # <<>> PROVE n # 0 /\ 1 \in 1..n /\ Head(s) = s[1]
    BY <1>1, <2>1
  <2>2. ASSUME s # <<>> PROVE C # <<>> /\ Head(C) = C[1]
    BY <1>5, <2>1, <2>2
  <2> QED
    BY <1>6, <2>1, <2>2
<1> QED
  BY <1>5, <1>7, <1>8, <1>10, <1>11, <1>12 DEF C

First(s) == IF s = <<>> THEN <<>> ELSE <<Head(s)>>

\* SetList leads to its list, whatever was there.
LEMMA SetListOf ==
  ASSUME NEW f \in ServerLists, NEW s \in Seq(Values), Fits(f, s)
  PROVE  /\ SetList(f, s) \in Seq(Netshs) /\ ToSet(SetList(f, s)) \subseteq ListCalls(f)
         /\ \A c \in ToSet(SetList(f, s)) : c.do = "set"
         /\ SetList(f, s) # <<>>
         /\ \A v \in Seq(Values) : Leads(f, v, SetList(f, s), s)
<1> DEFINE c == [do |-> "set", list |-> f, to |-> s]
<1>1. c \in SetCalls /\ c.do = "set" /\ c.list = f /\ c.to = s
  BY DEF SetCalls
<1>2. f \in Lists
  BY DEF Lists
<1>3. SetList(f, s) = <<c>>
  BY DEF SetList
<1> HIDE DEF c
<1>4. c \notin AddCalls
  BY <1>1 DEF AddCalls
<1>5. c \in ListCalls(f)
  BY <1>1, <1>4 DEF ListCalls, InFamily, Fits
<1>6. c \in Netshs
  BY <1>2, <1>5, OtherLists
<1>7. \A v : After(f, v, c) = s
  BY <1>1 DEF After
<1>8. <<c>> \in Seq(Netshs) /\ ToSet(<<c>>) = {c} /\ <<c>> # <<>>
  BY <1>6, OneElement
<1>9. \A v \in Seq(Values) : Leads(f, v, <<c>>, s)
  BY <1>2, <1>6, <1>7, LeadsOne
<1> QED
  BY <1>1, <1>3, <1>5, <1>8, <1>9

\* Rest leads from the first element to the whole list.
LEMMA RestOf ==
  ASSUME NEW f \in Lists, NEW s \in Seq(Values), Fits(f, s)
  PROVE  /\ Rest(f, s) \in Seq(Netshs) /\ ToSet(Rest(f, s)) \subseteq ListCalls(f)
         /\ \A c \in ToSet(Rest(f, s)) : c.do = "add" /\ c.one \in ToSet(s)
         /\ First(s) \in Seq(Values) /\ ToSet(First(s)) \subseteq ToSet(s)
         /\ Leads(f, First(s), Rest(f, s), s)
<1>1. CASE s = <<>>
  <2>1. Rest(f, s) = <<>> /\ First(s) = <<>>
    BY <1>1 DEF Rest, First
  <2>2. <<>> \in Seq(Netshs) /\ ToSet(<<>>) = {} /\ <<>> \in Seq(Values)
    BY NoElement
  <2>3. Leads(f, <<>>, <<>>, <<>>)
    BY <2>2, LeadsQuiet
  <2> QED
    BY <1>1, <2>1, <2>2, <2>3
<1>2. CASE s # <<>>
  <2>1. Rest(f, s) = AddAll(f, Tail(s)) /\ First(s) = <<Head(s)>>
    BY <1>2 DEF Rest, First
  <2>2. /\ Head(s) \in Values /\ Tail(s) \in Seq(Values) /\ Head(s) \in ToSet(s)
        /\ ToSet(s) = {Head(s)} \cup ToSet(Tail(s))
    BY <1>2, Parted
  <2>3. Fits(f, Tail(s))
    BY <2>2 DEF Fits
  <2>4. <<Head(s)>> \in Seq(Values) /\ ToSet(<<Head(s)>>) = {Head(s)}
    BY <2>2, OneElement
  <2>5. <<Head(s)>> \o Tail(s) = s
    BY <1>2
  <2>6. /\ AddAll(f, Tail(s)) \in Seq(Netshs) /\ ToSet(AddAll(f, Tail(s))) \subseteq ListCalls(f)
        /\ \A c \in ToSet(AddAll(f, Tail(s))) : c.do = "add" /\ c.one \in ToSet(Tail(s))
        /\ Leads(f, <<Head(s)>>, AddAll(f, Tail(s)), <<Head(s)>> \o Tail(s))
    BY <2>2, <2>3, <2>4, AddAllOf
  <2> QED
    BY <2>1, <2>2, <2>4, <2>5, <2>6
<1> QED
  BY <1>1, <1>2

\* Replace leads to its list, whatever was there.
LEMMA ReplaceOf ==
  ASSUME NEW f \in ServerLists, NEW s \in Seq(Values), Fits(f, s)
  PROVE  /\ Replace(f, s) \in Seq(Netshs) /\ ToSet(Replace(f, s)) \subseteq ListCalls(f)
         /\ \A v \in Seq(Values) : Leads(f, v, Replace(f, s), s)
<1>1. f \in Lists
  BY DEF Lists
<1>2. Replace(f, s) = SetList(f, First(s)) \o Rest(f, s)
  BY DEF Replace, First
<1>3. /\ Rest(f, s) \in Seq(Netshs) /\ ToSet(Rest(f, s)) \subseteq ListCalls(f)
      /\ First(s) \in Seq(Values) /\ ToSet(First(s)) \subseteq ToSet(s)
      /\ Leads(f, First(s), Rest(f, s), s)
  BY <1>1, RestOf
<1>4. Fits(f, First(s))
  BY <1>3 DEF Fits
<1>5. /\ SetList(f, First(s)) \in Seq(Netshs) /\ ToSet(SetList(f, First(s))) \subseteq ListCalls(f)
      /\ \A v \in Seq(Values) : Leads(f, v, SetList(f, First(s)), First(s))
  BY <1>3, <1>4, SetListOf
<1>6. /\ SetList(f, First(s)) \o Rest(f, s) \in Seq(Netshs)
      /\ ToSet(SetList(f, First(s)) \o Rest(f, s))
           = ToSet(SetList(f, First(s))) \cup ToSet(Rest(f, s))
  BY <1>3, <1>5, Joined
<1>7. \A v \in Seq(Values) : Leads(f, v, SetList(f, First(s)) \o Rest(f, s), s)
  BY <1>3, <1>5, LeadsJoin
<1> QED
  BY <1>2, <1>3, <1>5, <1>6, <1>7

\* What the calls for the name servers and for the WINS servers do.
ServerCalls == ListCalls("dns") \cup ListCalls("dns6") \cup ListCalls("wins")

\* The names of the lists differ.
LEMMA ServerNames ==
  /\ "dns" \in ServerLists /\ "dns6" \in ServerLists /\ "wins" \in ServerLists
  /\ ServerLists \subseteq Lists /\ "manual" \in Lists /\ "gateways" \in Lists
  /\ "manual" \notin ServerLists /\ "gateways" \notin ServerLists
  /\ "dns" # "dns6" /\ "dns" # "wins" /\ "dns6" # "wins" /\ "manual" # "gateways"
BY DEF ServerLists, Lists

\* The calls about servers leave the addresses and the gateways alone.
LEMMA ServerCallsOf ==
  /\ ServerCalls \subseteq Netshs
  /\ ServerCalls \subseteq Besides("manual") /\ ServerCalls \subseteq Besides("gateways")
  /\ \A c \in ServerCalls : c.do \in {"set", "add"} /\ c.list \in ServerLists
  /\ \A f \in ServerLists : ListCalls(f) \subseteq ServerCalls
<1>1. \A f \in ServerLists : f = "dns" \/ f = "dns6" \/ f = "wins"
  BY DEF ServerLists
<1>2. \A f \in ServerLists : /\ ListCalls(f) \subseteq Netshs
                             /\ ListCalls(f) \subseteq Besides("manual")
                             /\ ListCalls(f) \subseteq Besides("gateways")
                             /\ \A c \in ListCalls(f) : c.do \in {"set", "add"}
  BY ServerNames, OtherLists
<1>3. \A f : \A c \in ListCalls(f) : c.list = f
  BY DEF ListCalls
<1> QED
  BY <1>1, <1>2, <1>3, ServerNames DEF ServerCalls

\* The servers of both families.
LEMMA FamiliesOf ==
  ASSUME NEW s \in Seq(Values)
  PROVE  /\ OfIpv4(s) \in Seq(Values) /\ Fits("dns", OfIpv4(s))
         /\ OfIpv6(s) \in Seq(Values) /\ Fits("dns6", OfIpv6(s))
<1>1. /\ OfIpv4(s) \in Seq(Values) /\ ToSet(OfIpv4(s)) = ToSet(s) \cap (ToSet(s) \ Servers6)
      /\ OfIpv6(s) \in Seq(Values) /\ ToSet(OfIpv6(s)) = ToSet(s) \cap Servers6
  BY KeptOf DEF OfIpv4, OfIpv6
<1> QED
  BY <1>1, ServerNames DEF Fits

\* ReplaceDns leads each family to its part of the servers.
LEMMA ReplaceDnsOf ==
  ASSUME NEW s \in Seq(Values)
  PROVE  LET C == ReplaceDns(s, FALSE) IN
         /\ C \in Seq(Netshs) /\ ToSet(C) \subseteq ListCalls("dns") \cup ListCalls("dns6")
         /\ \A v \in Seq(Values) : Leads("dns", v, C, OfIpv4(s)) /\ Leads("dns6", v, C, OfIpv6(s))
<1> DEFINE A == Replace("dns", OfIpv4(s))
           B == Replace("dns6", OfIpv6(s))
<1>1. ReplaceDns(s, FALSE) = A \o B
  BY DEF ReplaceDns
<1>2. /\ OfIpv4(s) \in Seq(Values) /\ Fits("dns", OfIpv4(s))
      /\ OfIpv6(s) \in Seq(Values) /\ Fits("dns6", OfIpv6(s))
  BY FamiliesOf
<1>3. /\ A \in Seq(Netshs) /\ ToSet(A) \subseteq ListCalls("dns")
      /\ \A v \in Seq(Values) : Leads("dns", v, A, OfIpv4(s))
  BY <1>2, ServerNames, ReplaceOf
<1>4. /\ B \in Seq(Netshs) /\ ToSet(B) \subseteq ListCalls("dns6")
      /\ \A v \in Seq(Values) : Leads("dns6", v, B, OfIpv6(s))
  BY <1>2, ServerNames, ReplaceOf
<1> HIDE DEF A, B
<1>5. ListCalls("dns") \subseteq Besides("dns6") /\ ListCalls("dns6") \subseteq Besides("dns")
  BY ServerNames, OtherLists
<1>6. A \o B \in Seq(Netshs) /\ ToSet(A \o B) = ToSet(A) \cup ToSet(B)
  BY <1>3, <1>4, Joined
<1>7. ToSet(A) \subseteq Besides("dns6") /\ ToSet(B) \subseteq Besides("dns")
  BY <1>3, <1>4, <1>5
<1>8. \A v \in Seq(Values) : Leads("dns", v, A \o B, OfIpv4(s))
  BY <1>2, <1>3, <1>4, <1>7, LeadsThen
<1>9. \A v \in Seq(Values) : Leads("dns6", v, A \o B, OfIpv6(s))
  BY <1>2, <1>3, <1>4, <1>7, LeadsLater
<1> QED
  BY <1>1, <1>3, <1>4, <1>6, <1>8, <1>9

\* The calls that set the mode, the addresses and the gateways.
AddressCalls(a, g) ==
  Primary(Head(a), FirstOr(g)) \o Rest("manual", a) \o Rest("gateways", g)

\* The calls for static addresses lead to these addresses and gateways.
LEMMA AddressCallsOf ==
  ASSUME NEW a \in Seq(Values), a # <<>>, NEW g \in Seq(Values), None \notin Values
  PROVE  LET C == AddressCalls(a, g) IN
         /\ C \in Seq(Netshs) /\ C # <<>> /\ Head(C).do = "primary"
         /\ ToSet(C) \subseteq PrimaryCalls \cup ListCalls("manual") \cup ListCalls("gateways")
         /\ \A c \in ToSet(C) : c.do = "primary" => c.address \in ToSet(a)
         /\ \A c \in ToSet(C) : c.do = "add" /\ c.list = "manual" => c.one \in ToSet(a)
         /\ \A v \in Seq(Values) : Leads("manual", v, C, a) /\ Leads("gateways", v, C, g)
<1> DEFINE p == [do |-> "primary", address |-> Head(a), gateway |-> FirstOr(g)]
           A == Rest("manual", a)
           G == Rest("gateways", g)
<1>1. Primary(Head(a), FirstOr(g)) = <<p>>
  BY DEF Primary
<1>2. Head(a) \in ToSet(a) /\ Head(a) \in Values /\ First(a) = <<Head(a)>>
  BY Parted DEF First
<1>3. First(g) = IF FirstOr(g) = None THEN <<>> ELSE <<FirstOr(g)>>
  <2>1. CASE g = <<>>
    BY <2>1 DEF First, FirstOr
  <2>2. CASE g # <<>>
    <3>1. Head(g) # None
      BY <2>2, Parted
    <3> QED
      BY <2>2, <3>1 DEF First, FirstOr
  <2> QED
    BY <2>1, <2>2
<1>4. FirstOr(g) \in Values \cup {None}
  BY Parted DEF FirstOr
<1>5. /\ p \in PrimaryCalls /\ p.do = "primary" /\ p.address = Head(a)
      /\ p.gateway = FirstOr(g)
  BY <1>2, <1>4 DEF PrimaryCalls
<1> HIDE DEF p
<1>6. p \in Netshs /\ <<p>> \in Seq(Netshs) /\ ToSet(<<p>>) = {p}
  BY <1>5, ModeCalls, OneElement
<1>7. /\ \A v : After("manual", v, p) = First(a)
      /\ \A v : After("gateways", v, p) = First(g)
  BY <1>2, <1>3, <1>5, ServerNames DEF After
<1>8. Fits("manual", a) /\ Fits("gateways", g)
  BY DEF Fits
<1>9. /\ A \in Seq(Netshs) /\ ToSet(A) \subseteq ListCalls("manual")
      /\ \A c \in ToSet(A) : c.do = "add" /\ c.one \in ToSet(a)
      /\ First(a) \in Seq(Values)
      /\ Leads("manual", First(a), A, a)
  BY <1>8, ServerNames, RestOf
<1>10. /\ G \in Seq(Netshs) /\ ToSet(G) \subseteq ListCalls("gateways")
       /\ \A c \in ToSet(G) : c.do = "add"
       /\ First(g) \in Seq(Values)
       /\ Leads("gateways", First(g), G, g)
  BY <1>8, ServerNames, RestOf
<1> HIDE DEF A, G
<1>11. ListCalls("manual") \subseteq Besides("gateways") /\ ListCalls("gateways") \subseteq Besides("manual")
  BY ServerNames, OtherLists
<1>12. /\ <<p>> \o A \in Seq(Netshs) /\ ToSet(<<p>> \o A) = {p} \cup ToSet(A)
       /\ <<p>> \o A \o G \in Seq(Netshs)
       /\ ToSet(<<p>> \o A \o G) = {p} \cup ToSet(A) \cup ToSet(G)
  <2> DEFINE P == <<p>>
  <2>1. P \in Seq(Netshs) /\ ToSet(P) = {p}
    BY <1>6
  <2> HIDE DEF P
  <2>2. /\ P \o A \in Seq(Netshs) /\ P \o A \o G \in Seq(Netshs)
        /\ ToSet(P \o A) = ToSet(P) \cup ToSet(A)
        /\ ToSet(P \o A \o G) = ToSet(P) \cup ToSet(A) \cup ToSet(G)
    BY <1>9, <1>10, <2>1, JoinedThree
  <2> QED
    BY <2>1, <2>2 DEF P
<1>13. <<p>> \o A \o G # <<>> /\ Head(<<p>> \o A \o G) = p
  BY <1>6, <1>9, <1>10
<1>14. ASSUME NEW v \in Seq(Values) PROVE Leads("manual", v, <<p>> \o A \o G, a)
  <2>1. Leads("manual", v, <<p>>, First(a))
    BY <1>6, <1>7, ServerNames, LeadsOne
  <2>2. Leads("manual", v, <<p>> \o A, a)
    BY <1>6, <1>9, <2>1, LeadsJoin
  <2>3. ToSet(G) \subseteq Besides("manual")
    BY <1>10, <1>11
  <2> QED
    BY <1>10, <1>12, <2>2, <2>3, LeadsThen
<1>15. ASSUME NEW v \in Seq(Values) PROVE Leads("gateways", v, <<p>> \o A \o G, g)
  <2>1. Leads("gateways", v, <<p>>, First(g))
    BY <1>6, <1>7, ServerNames, LeadsOne
  <2>2. ToSet(A) \subseteq Besides("gateways")
    BY <1>9, <1>11
  <2>3. Leads("gateways", v, <<p>> \o A, First(g))
    BY <1>6, <1>9, <1>10, <2>1, <2>2, LeadsThen
  <2> QED
    BY <1>10, <1>12, <2>3, LeadsJoin
<1>16. AddressCalls(a, g) = <<p>> \o A \o G
  BY <1>1 DEF AddressCalls, A, G
<1>17. \A c \in ListCalls("gateways") : c.list = "gateways"
  BY DEF ListCalls
<1> QED
  <2> DEFINE C == <<p>> \o A \o G
  <2>1. ToSet(C) = {p} \cup ToSet(A) \cup ToSet(G) /\ C \in Seq(Netshs) /\ C # <<>> /\ Head(C) = p
    BY <1>12, <1>13
  <2>2. \A v \in Seq(Values) : Leads("manual", v, C, a) /\ Leads("gateways", v, C, g)
    BY <1>14, <1>15
  <2> HIDE DEF C
  <2>3. \A c \in ToSet(C) : c.do = "primary" => c.address \in ToSet(a)
    BY <1>2, <1>5, <1>9, <1>10, <2>1
  <2>4. \A c \in ToSet(C) : c.do = "add" /\ c.list = "manual" => c.one \in ToSet(a)
    BY <1>5, <1>9, <1>10, <1>17, <2>1, ServerNames
  <2>5. ToSet(C) \subseteq PrimaryCalls \cup ListCalls("manual") \cup ListCalls("gateways")
    BY <1>5, <1>9, <1>10, <2>1
  <2>6. C = AddressCalls(a, g)
    BY <1>16 DEF C
  <2> QED
    BY <1>5, <2>1, <2>2, <2>3, <2>4, <2>5, <2>6

-----------------------------------------------------------------------------
(* The adapter. *)

AdapterType ==
  [dhcp : BOOLEAN, lease : {"none", "due", "bound"}, manual : Seq(Values),
   gateways : Seq(Values), address : BOOLEAN, offered : Seq(Values),
   dns : Seq(Values), dns6 : Seq(Values), wins : Seq(Values)]

\* The fields of an adapter.
LEMMA AdapterFields ==
  ASSUME NEW n, IsAdapter(n)
  PROVE  /\ n \in AdapterType
         /\ n.dhcp \in BOOLEAN /\ n.address \in BOOLEAN
         /\ n.manual \in Seq(Values) /\ n.gateways \in Seq(Values) /\ n.offered \in Seq(Values)
         /\ n.dns \in Seq(Values) /\ n.dns6 \in Seq(Values) /\ n.wins \in Seq(Values)
         /\ ToSet(n.dns) \cap Servers6 = {} /\ ToSet(n.dns6) \subseteq Servers6
         /\ n.dhcp <=> n.lease # "none"
         /\ n.lease # "bound" => ~n.address /\ n.offered = <<>>
BY DEF IsAdapter, AdapterType

\* Two adapters that differ in nothing the families of the servers depend on.
LEMMA StaysAdapter ==
  ASSUME NEW n, IsAdapter(n), NEW m \in AdapterType,
         m.dhcp <=> m.lease # "none", m.lease # "bound" => ~m.address /\ m.offered = <<>>,
         ToSet(m.dns) \cap Servers6 = {}, ToSet(m.dns6) \subseteq Servers6
  PROVE  IsAdapter(m)
BY DEF IsAdapter, AdapterType

\* The mode of an adapter, and its lists that depend on the mode, changed together.
OnDemand(n, a, g) ==
  [n EXCEPT !.dhcp = TRUE, !.lease = "due", !.address = FALSE, !.offered = <<>>,
            !.manual = a, !.gateways = g]

AsSet(n, a, g) ==
  [n EXCEPT !.dhcp = FALSE, !.lease = "none", !.address = FALSE, !.offered = <<>>,
            !.manual = a, !.gateways = g]

\* An adapter whose mode and address lists were set.
LEMMA ModeSet ==
  ASSUME NEW n \in AdapterType, NEW a \in Seq(Values), NEW g \in Seq(Values),
         NEW m, m = OnDemand(n, a, g) \/ m = AsSet(n, a, g)
  PROVE  /\ m \in AdapterType
         /\ m = OnDemand(n, a, g) => m.dhcp /\ m.lease = "due"
         /\ m = AsSet(n, a, g) => ~m.dhcp /\ m.lease = "none"
         /\ ~m.address /\ m.offered = <<>> /\ m.manual = a /\ m.gateways = g
         /\ m.dns = n.dns /\ m.dns6 = n.dns6 /\ m.wins = n.wins
<1> DEFINE lists(k) ==
             [k EXCEPT !.offered = <<>>, !.manual = a, !.gateways = g]
           due  == [n EXCEPT !.dhcp = TRUE, !.lease = "due", !.address = FALSE]
           none == [n EXCEPT !.dhcp = FALSE, !.lease = "none", !.address = FALSE]
<1>1. /\ due \in AdapterType /\ due.dhcp /\ due.lease = "due" /\ ~due.address
      /\ due.dns = n.dns /\ due.dns6 = n.dns6 /\ due.wins = n.wins
  BY DEF AdapterType
<1>2. /\ none \in AdapterType /\ ~none.dhcp /\ none.lease = "none" /\ ~none.address
      /\ none.dns = n.dns /\ none.dns6 = n.dns6 /\ none.wins = n.wins
  BY DEF AdapterType
<1>3. OnDemand(n, a, g) = lists(due) /\ AsSet(n, a, g) = lists(none)
  BY DEF OnDemand, AsSet
<1> HIDE DEF due, none
<1>4. ASSUME NEW k \in AdapterType
      PROVE  /\ lists(k) \in AdapterType /\ lists(k).dhcp = k.dhcp /\ lists(k).lease = k.lease
             /\ lists(k).address = k.address /\ lists(k).offered = <<>> /\ lists(k).manual = a
             /\ lists(k).gateways = g /\ lists(k).dns = k.dns /\ lists(k).dns6 = k.dns6
             /\ lists(k).wins = k.wins
  <2> DEFINE q == [k EXCEPT !.offered = <<>>]
             r == [q EXCEPT !.manual = a]
             t == [r EXCEPT !.gateways = g]
  <2>0. <<>> \in Seq(Values)
    OBVIOUS
  <2>1. /\ q \in AdapterType /\ q.dhcp = k.dhcp /\ q.lease = k.lease /\ q.address = k.address
        /\ q.offered = <<>> /\ q.dns = k.dns /\ q.dns6 = k.dns6 /\ q.wins = k.wins
    BY <2>0 DEF AdapterType
  <2> HIDE DEF q
  <2>2. /\ r \in AdapterType /\ r.dhcp = k.dhcp /\ r.lease = k.lease /\ r.address = k.address
        /\ r.offered = <<>> /\ r.manual = a
        /\ r.dns = k.dns /\ r.dns6 = k.dns6 /\ r.wins = k.wins
    BY <2>1 DEF AdapterType
  <2> HIDE DEF r
  <2>3. /\ t \in AdapterType /\ t.dhcp = k.dhcp /\ t.lease = k.lease /\ t.address = k.address
        /\ t.offered = <<>> /\ t.manual = a /\ t.gateways = g
        /\ t.dns = k.dns /\ t.dns6 = k.dns6 /\ t.wins = k.wins
    BY <2>2 DEF AdapterType
  <2> HIDE DEF t
  <2>4. t = lists(k)
    BY DEF q, r, t
  <2> HIDE DEF lists
  <2> QED
    BY <2>3, <2>4
<1> HIDE DEF lists
<1>5. CASE m = OnDemand(n, a, g)
  <2>1. m = lists(due)
    BY <1>3, <1>5
  <2>2. /\ m \in AdapterType /\ m.dhcp /\ m.lease = "due" /\ ~m.address /\ m.offered = <<>>
        /\ m.manual = a /\ m.gateways = g
        /\ m.dns = n.dns /\ m.dns6 = n.dns6 /\ m.wins = n.wins
    BY <1>1, <1>4, <2>1
  <2>3. m # AsSet(n, a, g)
    BY <1>2, <1>3, <1>4, <2>2
  <2> QED
    BY <1>5, <2>2, <2>3
<1>6. CASE m = AsSet(n, a, g)
  <2>1. m = lists(none)
    BY <1>3, <1>6
  <2>2. /\ m \in AdapterType /\ ~m.dhcp /\ m.lease = "none" /\ ~m.address /\ m.offered = <<>>
        /\ m.manual = a /\ m.gateways = g
        /\ m.dns = n.dns /\ m.dns6 = n.dns6 /\ m.wins = n.wins
    BY <1>2, <1>4, <2>1
  <2>3. m # OnDemand(n, a, g)
    BY <1>1, <1>3, <1>4, <2>2
  <2> QED
    BY <1>6, <2>2, <2>3
<1> QED
  BY <1>5, <1>6

\* What a change to DHCP makes of the adapter.
LEMMA DhcpEffect ==
  ASSUME NEW n, IsAdapter(n), NEW m \in ToDhcp(n)
  PROVE  /\ IsAdapter(m) /\ m.dhcp /\ m.manual \in {<<>>, n.manual}
         /\ m.dns = n.dns /\ m.dns6 = n.dns6 /\ m.wins = n.wins
<1>1. /\ n \in AdapterType /\ n.manual \in Seq(Values) /\ n.gateways \in Seq(Values)
      /\ <<>> \in Seq(Values)
      /\ ToSet(n.dns) \cap Servers6 = {} /\ ToSet(n.dns6) \subseteq Servers6
  BY AdapterFields
<1>2. m = OnDemand(n, <<>>, <<>>) \/ m = OnDemand(n, n.manual, n.gateways)
  <2>1. [n EXCEPT !.dhcp = TRUE, !.lease = "due", !.manual = <<>>, !.gateways = <<>>,
                  !.address = FALSE, !.offered = <<>>] = OnDemand(n, <<>>, <<>>)
    BY <1>1 DEF OnDemand, AdapterType
  <2>2. [OnDemand(n, <<>>, <<>>) EXCEPT !.manual = n.manual, !.gateways = n.gateways]
          = OnDemand(n, n.manual, n.gateways)
    BY <1>1 DEF OnDemand, AdapterType
  <2>3. \/ m = OnDemand(n, <<>>, <<>>)
        \/ m = [OnDemand(n, <<>>, <<>>) EXCEPT !.manual = n.manual, !.gateways = n.gateways]
    BY <2>1 DEF ToDhcp
  <2> QED
    BY <2>2, <2>3
<1>3. /\ m \in AdapterType /\ m.dhcp /\ m.lease = "due" /\ ~m.address /\ m.offered = <<>>
      /\ m.manual \in {<<>>, n.manual} /\ m.dns = n.dns /\ m.dns6 = n.dns6 /\ m.wins = n.wins
  <2> DEFINE e == <<>>
  <2>1. CASE m = OnDemand(n, <<>>, <<>>)
    <3>1. e \in Seq(Values) /\ m = OnDemand(n, e, e)
      BY <1>1, <2>1
    <3> HIDE DEF e
    <3>2. /\ m \in AdapterType /\ m.dhcp /\ m.lease = "due" /\ ~m.address /\ m.offered = <<>>
          /\ m.manual = e /\ m.dns = n.dns /\ m.dns6 = n.dns6 /\ m.wins = n.wins
      BY <1>1, <3>1, ModeSet
    <3> QED
      BY <3>2 DEF e
  <2>2. CASE m = OnDemand(n, n.manual, n.gateways)
    BY <1>1, <2>2, ModeSet
  <2> QED
    BY <1>2, <2>1, <2>2
<1> QED
  BY <1>1, <1>3, StaysAdapter

\* What a change to a static address makes of the adapter.
LEMMA StaticEffect ==
  ASSUME NEW n, IsAdapter(n), NEW c \in PrimaryCalls
  PROVE  LET m == ToStatic(n, c) IN
         /\ IsAdapter(m) /\ ~m.dhcp /\ m.manual = <<c.address>>
         /\ m.gateways = IF c.gateway = None THEN <<>> ELSE <<c.gateway>>
         /\ m.dns = n.dns /\ m.dns6 = n.dns6 /\ m.wins = n.wins
<1> DEFINE m == ToStatic(n, c)
           a == <<c.address>>
           g == IF c.gateway = None THEN <<>> ELSE <<c.gateway>>
<1>1. /\ n \in AdapterType
      /\ ToSet(n.dns) \cap Servers6 = {} /\ ToSet(n.dns6) \subseteq Servers6
  BY AdapterFields
<1>2. c.address \in Values /\ c.gateway \in Values \cup {None}
  BY DEF PrimaryCalls
<1>3. g \in Seq(Values) /\ a \in Seq(Values)
  BY <1>2
<1>4. m = AsSet(n, a, g)
  BY DEF ToStatic, AsSet
<1> HIDE DEF m, a, g
<1>5. /\ m \in AdapterType /\ ~m.dhcp /\ m.lease = "none" /\ ~m.address
      /\ m.offered = <<>> /\ m.manual = a /\ m.gateways = g
      /\ m.dns = n.dns /\ m.dns6 = n.dns6 /\ m.wins = n.wins
  BY <1>1, <1>3, <1>4, ModeSet
<1>6. IsAdapter(m)
  BY <1>1, <1>5, StaysAdapter
<1> QED
  BY <1>5, <1>6 DEF m, a, g

\* What a deletion makes of the adapter.
LEMMA DeleteEffect ==
  ASSUME NEW n, IsAdapter(n), NEW c \in DeleteCalls
  PROVE  LET m == Removed(n, c) IN
         /\ IsAdapter(m) /\ m.dhcp = n.dhcp
         /\ m.manual = IF c.list = "manual" THEN Without(n.manual, <<c.one>>) ELSE n.manual
         /\ m.gateways = IF c.list = "gateways" THEN Without(n.gateways, <<c.one>>) ELSE n.gateways
         /\ m.dns = n.dns /\ m.dns6 = n.dns6 /\ m.wins = n.wins
<1> DEFINE m == Removed(n, c)
<1>1. /\ n \in AdapterType /\ n.offered \in Seq(Values)
      /\ n.manual \in Seq(Values) /\ n.gateways \in Seq(Values)
      /\ ToSet(n.dns) \cap Servers6 = {} /\ ToSet(n.dns6) \subseteq Servers6
      /\ n.dhcp <=> n.lease # "none"
      /\ n.lease # "bound" => ~n.address /\ n.offered = <<>>
  BY AdapterFields
<1>2. c.one \in Values /\ <<c.one>> \in Seq(Values) /\ c.list \in {"manual", "gateways"}
  BY DEF DeleteCalls
<1>3. /\ Without(n.manual, <<c.one>>) \in Seq(Values)
      /\ Without(n.gateways, <<c.one>>) \in Seq(Values)
      /\ Without(n.offered, <<c.one>>) \in Seq(Values)
  BY <1>1, <1>2, WithoutOf
<1>4. Without(<<>>, <<c.one>>) = <<>>
  <2>1. <<>> \in Seq(Values) /\ ToSet(<<>>) \cap ToSet(<<c.one>>) = {}
    BY NoElement
  <2> QED
    BY <1>2, <2>1, WithoutOf
<1>5. CASE c.list = "manual"
  <2>1. m = [n EXCEPT !.manual = Without(n.manual, <<c.one>>),
                      !.address = n.address /\ c.one # Lease.address]
    BY <1>5 DEF Removed
  <2>2. /\ m \in AdapterType /\ m.manual = Without(n.manual, <<c.one>>)
        /\ m.gateways = n.gateways /\ m.dhcp = n.dhcp /\ m.lease = n.lease
        /\ m.offered = n.offered /\ m.dns = n.dns /\ m.dns6 = n.dns6 /\ m.wins = n.wins
        /\ m.address => n.address
    BY <1>1, <1>3, <2>1 DEF AdapterType
  <2> HIDE DEF m
  <2>3. IsAdapter(m)
    BY <1>1, <2>2, StaysAdapter
  <2> QED
    BY <1>5, <2>2, <2>3, ServerNames DEF m
<1>6. CASE c.list = "gateways"
  <2>1. m = [n EXCEPT !.gateways = Without(n.gateways, <<c.one>>),
                      !.offered = Without(n.offered, <<c.one>>)]
    BY <1>6, ServerNames DEF Removed
  <2>2. /\ m \in AdapterType /\ m.gateways = Without(n.gateways, <<c.one>>)
        /\ m.manual = n.manual /\ m.dhcp = n.dhcp /\ m.lease = n.lease /\ m.address = n.address
        /\ m.offered = Without(n.offered, <<c.one>>)
        /\ m.dns = n.dns /\ m.dns6 = n.dns6 /\ m.wins = n.wins
    BY <1>1, <1>3, <2>1 DEF AdapterType
  <2> HIDE DEF m
  <2>3. IsAdapter(m)
    BY <1>1, <1>4, <2>2, StaysAdapter
  <2> QED
    BY <1>6, <2>2, <2>3, ServerNames DEF m
<1> QED
  BY <1>2, <1>5, <1>6

\* A call fills one list: with to, or with one more element.
Filled(n, f, s) == [n EXCEPT ![f] = s]

\* It leaves the others as they are.
LEMMA FillEffect ==
  ASSUME NEW n, IsAdapter(n), NEW f \in Lists, NEW s \in Seq(Values), Fits(f, s),
         NEW m, m = Filled(n, f, s)
  PROVE  /\ IsAdapter(m) /\ m.dhcp = n.dhcp
         /\ m.manual = IF f = "manual" THEN s ELSE n.manual
         /\ m.gateways = IF f = "gateways" THEN s ELSE n.gateways
         /\ m.dns = IF f = "dns" THEN s ELSE n.dns
         /\ m.dns6 = IF f = "dns6" THEN s ELSE n.dns6
         /\ m.wins = IF f = "wins" THEN s ELSE n.wins
<1>1. /\ n \in AdapterType /\ n.offered \in Seq(Values)
      /\ ToSet(n.dns) \cap Servers6 = {} /\ ToSet(n.dns6) \subseteq Servers6
      /\ n.dhcp <=> n.lease # "none"
      /\ n.lease # "bound" => ~n.address /\ n.offered = <<>>
  BY AdapterFields
<1>2. f \in {"dns", "dns6", "wins", "manual", "gateways"}
  BY DEF Lists, ServerLists
<1>3. /\ m \in AdapterType /\ m.dhcp = n.dhcp /\ m.lease = n.lease /\ m.address = n.address
      /\ m.offered = n.offered
      /\ m.manual = (IF f = "manual" THEN s ELSE n.manual)
      /\ m.gateways = (IF f = "gateways" THEN s ELSE n.gateways)
      /\ m.dns = (IF f = "dns" THEN s ELSE n.dns)
      /\ m.dns6 = (IF f = "dns6" THEN s ELSE n.dns6)
      /\ m.wins = (IF f = "wins" THEN s ELSE n.wins)
  BY <1>1, <1>2 DEF AdapterType, Filled
<1>4. IsAdapter(m)
  BY <1>1, <1>3, StaysAdapter DEF Fits
<1> QED
  BY <1>3, <1>4

\* What a call makes of the lists is what After says, whatever else it does.
LEMMA EffectsOf ==
  ASSUME NEW n, IsAdapter(n), NEW c \in Netshs, NEW m \in Effects(n, c)
  PROVE  /\ IsAdapter(m)
         /\ m.dns = After("dns", n.dns, c) /\ m.dns6 = After("dns6", n.dns6, c)
         /\ m.wins = After("wins", n.wins, c)
         /\ c.do # "dhcp" => /\ m.manual = After("manual", n.manual, c)
                             /\ m.gateways = After("gateways", n.gateways, c)
         /\ c.do = "dhcp" => m.dhcp /\ m.manual \in {<<>>, n.manual}
         /\ c.do = "primary" => ~m.dhcp
         /\ c.do \notin {"dhcp", "primary"} => m.dhcp = n.dhcp
<1>0. /\ n.manual \in Seq(Values) /\ n.gateways \in Seq(Values)
      /\ n.dns \in Seq(Values) /\ n.dns6 \in Seq(Values) /\ n.wins \in Seq(Values)
      /\ ToSet(n.dns) \cap Servers6 = {} /\ ToSet(n.dns6) \subseteq Servers6
  BY AdapterFields
<1>1. CASE c \in DhcpCalls /\ c.do = "dhcp"
  <2>1. m \in ToDhcp(n)
    BY <1>1 DEF Effects
  <2>2. \A f, v : After(f, v, c) = v
    BY <1>1 DEF After
  <2>3. /\ IsAdapter(m) /\ m.dhcp /\ m.manual \in {<<>>, n.manual}
        /\ m.dns = n.dns /\ m.dns6 = n.dns6 /\ m.wins = n.wins
    BY <2>1, DhcpEffect
  <2> QED
    BY <1>1, <2>2, <2>3
<1>2. CASE c \in PrimaryCalls /\ c.do = "primary"
  <2>1. m = ToStatic(n, c)
    BY <1>2 DEF Effects
  <2>2. /\ \A v : After("manual", v, c) = <<c.address>>
        /\ \A v : After("gateways", v, c) = IF c.gateway = None THEN <<>> ELSE <<c.gateway>>
        /\ \A f \in ServerLists : \A v : After(f, v, c) = v
    BY <1>2, ServerNames DEF After
  <2>3. /\ IsAdapter(m) /\ ~m.dhcp /\ m.manual = <<c.address>>
        /\ m.gateways = (IF c.gateway = None THEN <<>> ELSE <<c.gateway>>)
        /\ m.dns = n.dns /\ m.dns6 = n.dns6 /\ m.wins = n.wins
    BY <1>2, <2>1, StaticEffect
  <2> QED
    BY <1>2, <2>2, <2>3, ServerNames
<1>3. CASE c \in SetCalls /\ c.do = "set" /\ InFamily(c)
  <2>1. c.list \in Lists /\ c.to \in Seq(Values) /\ c.list \in ServerLists
    BY <1>3, ServerNames DEF SetCalls
  <2>2. Fits(c.list, c.to)
    BY <1>3 DEF InFamily, Fits
  <2>3. m = Filled(n, c.list, c.to)
    BY <1>3 DEF Effects, Filled
  <2>4. /\ IsAdapter(m) /\ m.dhcp = n.dhcp
        /\ m.manual = (IF c.list = "manual" THEN c.to ELSE n.manual)
        /\ m.gateways = (IF c.list = "gateways" THEN c.to ELSE n.gateways)
        /\ m.dns = (IF c.list = "dns" THEN c.to ELSE n.dns)
        /\ m.dns6 = (IF c.list = "dns6" THEN c.to ELSE n.dns6)
        /\ m.wins = (IF c.list = "wins" THEN c.to ELSE n.wins)
    BY <2>1, <2>2, <2>3, FillEffect
  <2>5. \A f, v : After(f, v, c) = IF c.list = f THEN c.to ELSE v
    BY <1>3 DEF After
  <2>6. /\ m.dns = After("dns", n.dns, c) /\ m.dns6 = After("dns6", n.dns6, c)
        /\ m.wins = After("wins", n.wins, c)
    BY <2>4, <2>5
  <2>7. m.manual = After("manual", n.manual, c) /\ m.gateways = After("gateways", n.gateways, c)
    BY <2>4, <2>5
  <2>8. c.do \notin {"dhcp", "primary"}
    BY <1>3
  <2>9. IsAdapter(m) /\ m.dhcp = n.dhcp
    BY <2>4
  <2> QED
    BY <2>6, <2>7, <2>8, <2>9
<1>4. CASE c \in AddCalls /\ c.do = "add" /\ InFamily(c)
  <2>1. c.list \in Lists /\ c.one \in Values
    BY <1>4 DEF AddCalls
  <2>2. n[c.list] \in Seq(Values) /\ Append(n[c.list], c.one) \in Seq(Values)
    BY <1>0, <2>1 DEF Lists, ServerLists
  <2>3. ASSUME NEW v \in Seq(Values) PROVE ToSet(Append(v, c.one)) = ToSet(v) \cup {c.one}
    <3>1. Append(v, c.one) = v \o <<c.one>> /\ <<c.one>> \in Seq(Values)
      BY <2>1
    <3>2. ToSet(v \o <<c.one>>) = ToSet(v) \cup ToSet(<<c.one>>)
      BY <3>1, Joined
    <3> QED
      BY <3>1, <3>2, OneElement
  <2>4. c.list = "dns" => c.one \notin Servers6
    BY <1>4 DEF InFamily
  <2>5. c.list = "dns6" => c.one \in Servers6
    BY <1>4 DEF InFamily
  <2>6. Fits(c.list, Append(n[c.list], c.one))
    BY <1>0, <2>3, <2>4, <2>5 DEF Fits
  <2>7. m = Filled(n, c.list, Append(n[c.list], c.one))
    BY <1>4 DEF Effects, Filled
  <2> DEFINE s == Append(n[c.list], c.one)
  <2>8. /\ c.list = "dns" => s = Append(n.dns, c.one)
        /\ c.list = "dns6" => s = Append(n.dns6, c.one)
        /\ c.list = "wins" => s = Append(n.wins, c.one)
        /\ c.list = "manual" => s = Append(n.manual, c.one)
        /\ c.list = "gateways" => s = Append(n.gateways, c.one)
    OBVIOUS
  <2>9. s \in Seq(Values) /\ Fits(c.list, s) /\ m = Filled(n, c.list, s)
    BY <2>2, <2>6, <2>7
  <2> HIDE DEF s
  <2>10. /\ IsAdapter(m) /\ m.dhcp = n.dhcp
         /\ m.manual = (IF c.list = "manual" THEN s ELSE n.manual)
         /\ m.gateways = (IF c.list = "gateways" THEN s ELSE n.gateways)
         /\ m.dns = (IF c.list = "dns" THEN s ELSE n.dns)
         /\ m.dns6 = (IF c.list = "dns6" THEN s ELSE n.dns6)
         /\ m.wins = (IF c.list = "wins" THEN s ELSE n.wins)
    BY <2>1, <2>9, FillEffect
  <2>11. \A f, v : After(f, v, c) = IF c.list = f THEN Append(v, c.one) ELSE v
    BY <1>4 DEF After
  <2>12. m.dns = After("dns", n.dns, c)
    BY <2>8, <2>10, <2>11
  <2>13. m.dns6 = After("dns6", n.dns6, c)
    BY <2>8, <2>10, <2>11
  <2>14. m.wins = After("wins", n.wins, c)
    BY <2>8, <2>10, <2>11
  <2>15. m.manual = After("manual", n.manual, c)
    BY <2>8, <2>10, <2>11
  <2>16. m.gateways = After("gateways", n.gateways, c)
    BY <2>8, <2>10, <2>11
  <2>17. c.do \notin {"dhcp", "primary"}
    BY <1>4
  <2>18. IsAdapter(m) /\ m.dhcp = n.dhcp
    BY <2>10
  <2> QED
    BY <2>12, <2>13, <2>14, <2>15, <2>16, <2>17, <2>18
<1>5. CASE c \in DeleteCalls /\ c.do = "delete"
  <2>1. m = Removed(n, c) /\ c.list \in {"manual", "gateways"}
    BY <1>5 DEF Effects, DeleteCalls
  <2>2. /\ IsAdapter(m) /\ m.dhcp = n.dhcp
        /\ m.manual = (IF c.list = "manual" THEN Without(n.manual, <<c.one>>) ELSE n.manual)
        /\ m.gateways = (IF c.list = "gateways" THEN Without(n.gateways, <<c.one>>) ELSE n.gateways)
        /\ m.dns = n.dns /\ m.dns6 = n.dns6 /\ m.wins = n.wins
    BY <1>5, <2>1, DeleteEffect
  <2>3. \A f, v : After(f, v, c) = IF c.list = f THEN Without(v, <<c.one>>) ELSE v
    BY <1>5 DEF After
  <2> QED
    BY <1>5, <2>1, <2>2, <2>3, ServerNames
<1> QED
  BY <1>1, <1>2, <1>3, <1>4, <1>5, Kinds

\* What an inventory shows.
LEMMA ShownIs ==
  ASSUME StepAssumption, NEW n, IsAdapter(n)
  PROVE  /\ ShownGateways(n) \in Seq(Values)
         /\ ToSet(ShownGateways(n)) = ToSet(n.gateways) \cup ToSet(n.offered)
         /\ ~n.dhcp => ShownGateways(n) = n.gateways /\ ShownAddresses(n) = ToSet(n.manual)
                       /\ ShownWins(n) = n.wins
         /\ ToSet(n.manual) \subseteq ShownAddresses(n)
         /\ ShownAddresses(n) \subseteq ToSet(n.manual) \cup {Lease.address}
         /\ ShownDns(n) \in Seq(Values) /\ (n.dns # <<>> => ShownDns(n) = n.dns \o n.dns6)
         /\ ShownWins(n) \in Seq(Values) /\ (n.wins # <<>> => ShownWins(n) = n.wins)
<1>1. /\ n.gateways \in Seq(Values) /\ n.offered \in Seq(Values)
      /\ n.dns \in Seq(Values) /\ n.dns6 \in Seq(Values) /\ n.wins \in Seq(Values)
      /\ n.dhcp <=> n.lease # "none"
      /\ n.lease # "bound" => ~n.address /\ n.offered = <<>>
  BY AdapterFields
<1>2. Lease.dns \in Seq(Values) /\ Lease.wins \in Seq(Values)
  BY DEF StepAssumption
<1>3. /\ ShownGateways(n) \in Seq(Values)
      /\ ToSet(ShownGateways(n)) = ToSet(n.gateways) \cup ToSet(n.offered)
  <2> DEFINE g == n.gateways
             o == n.offered
  <2>1. g \in Seq(Values) /\ o \in Seq(Values) /\ ShownGateways(n) = g \o o
    BY <1>1 DEF ShownGateways
  <2> HIDE DEF g, o
  <2>2. g \o o \in Seq(Values) /\ ToSet(g \o o) = ToSet(g) \cup ToSet(o)
    BY <2>1, Joined
  <2> QED
    BY <2>1, <2>2 DEF g, o
<1>4. ASSUME ~n.dhcp
      PROVE  /\ ShownGateways(n) = n.gateways /\ ShownAddresses(n) = ToSet(n.manual)
             /\ ShownWins(n) = n.wins
  <2>1. n.lease = "none" /\ ~n.address /\ n.offered = <<>> /\ ~Bound(n)
    BY <1>1, <1>4 DEF Bound
  <2>2. ShownGateways(n) = n.gateways
    BY <1>1, <2>1 DEF ShownGateways
  <2>3. ShownAddresses(n) = ToSet(n.manual)
    BY <2>1 DEF ShownAddresses
  <2>4. ShownWins(n) = n.wins
    BY <2>1 DEF ShownWins
  <2> QED
    BY <2>2, <2>3, <2>4
<1>5. /\ ToSet(n.manual) \subseteq ShownAddresses(n)
      /\ ShownAddresses(n) \subseteq ToSet(n.manual) \cup {Lease.address}
  BY DEF ShownAddresses
<1>6. ShownDns(n) \in Seq(Values) /\ (n.dns # <<>> => ShownDns(n) = n.dns \o n.dns6)
  <2> DEFINE d == IF n.dns = <<>> /\ Bound(n) THEN Lease.dns ELSE n.dns
  <2>1. d \in Seq(Values) /\ (n.dns # <<>> => d = n.dns)
    BY <1>1, <1>2
  <2>2. ShownDns(n) = d \o n.dns6
    BY DEF ShownDns
  <2>3. n.dns6 \in Seq(Values)
    BY <1>1
  <2> HIDE DEF d
  <2>4. d \o n.dns6 \in Seq(Values)
    BY <2>1, <2>3
  <2>5. n.dns # <<>> => ShownDns(n) = n.dns \o n.dns6
    BY <2>1, <2>2
  <2> QED
    BY <2>2, <2>4, <2>5
<1>7. ShownWins(n) \in Seq(Values) /\ (n.wins # <<>> => ShownWins(n) = n.wins)
  BY <1>1, <1>2 DEF ShownWins
<1> QED
  BY <1>3, <1>4, <1>5, <1>6, <1>7

\* A list of servers tells which of them are of which family.
LEMMA FamiliesSplit ==
  ASSUME NEW a \in Seq(Values), NEW b \in Seq(Values),
         ToSet(a) \cap Servers6 = {}, ToSet(b) \subseteq Servers6
  PROVE  a \o b \in Seq(Values) /\ OfIpv4(a \o b) = a /\ OfIpv6(a \o b) = b
<1> DEFINE S == ToSet(a \o b) \ Servers6
<1>1. a \o b \in Seq(Values) /\ ToSet(a \o b) = ToSet(a) \cup ToSet(b)
  BY Joined
<1>2. ToSet(a) \subseteq S /\ ToSet(b) \cap S = {}
  BY <1>1
<1> HIDE DEF S
<1>3. Kept(a \o b, S) = a
  BY <1>2, KeptHead
<1>4. Kept(a \o b, Servers6) = b
  BY KeptTail
<1> QED
  BY <1>1, <1>3, <1>4 DEF OfIpv4, OfIpv6, S

\* The fields of an Ipv4Config.
LEMMA WantedFields ==
  ASSUME NEW w, IsWanted(w)
  PROVE  /\ w.mode \in {"dhcp", "static"}
         /\ w.mode = "dhcp" => w.dns \in BOOLEAN
         /\ w.mode = "static" => /\ w.addresses \in Seq(Values) /\ w.addresses # <<>>
                                 /\ w.gateways \in Seq(Values) /\ w.dns \in Seq(Values)
                                 /\ w.wins \in Seq(Values)
<1>1. ASSUME w \in [mode : {"dhcp"}, dns : BOOLEAN]
      PROVE  w.mode = "dhcp" /\ w.dns \in BOOLEAN
  BY <1>1
<1>2. ASSUME w \in [mode : {"static"}, addresses : Seq(Values), gateways : Seq(Values),
                    dns : Seq(Values), wins : Seq(Values)]
      PROVE  w.mode = "static" /\ w.addresses \in Seq(Values) /\ w.gateways \in Seq(Values)
             /\ w.dns \in Seq(Values) /\ w.wins \in Seq(Values)
  BY <1>2
<1> QED
  BY <1>1, <1>2 DEF IsWanted

\* What the entry of the step holds.
LEMMA RecordedIs ==
  ASSUME StepAssumption, NEW n, IsAdapter(n), NEW w, IsWanted(w)
  PROVE  LET r == Recorded(n, w) IN
         /\ r.shown = Capture(n)
         /\ r.shown.dhcp = n.dhcp /\ r.shown.manual = n.manual
         /\ r.shown.gateways = ShownGateways(n)
         /\ r.shown.dns = ShownDns(n) /\ r.shown.wins = ShownWins(n)
         /\ r.addresses \in Seq(Values) /\ ToSet(r.addresses) \cap ToSet(n.manual) = {}
         /\ r.gateways \in Seq(Values) /\ ToSet(r.gateways) \cap ToSet(n.gateways) = {}
         /\ w.mode = "static" => ToSet(w.addresses) \subseteq ToSet(n.manual) \cup ToSet(r.addresses)
         /\ w.mode = "dhcp" => r.addresses = <<>>
<1> DEFINE r == Recorded(n, w)
           sh == Capture(n)
<1>1. /\ sh.dhcp = n.dhcp /\ sh.manual = n.manual /\ sh.gateways = ShownGateways(n)
      /\ sh.dns = ShownDns(n) /\ sh.wins = ShownWins(n)
  BY DEF Capture
<1> HIDE DEF sh
<1>2. /\ r.shown = sh
      /\ r.addresses = (IF w.mode = "static" THEN Without(w.addresses, n.manual) ELSE <<>>)
      /\ r.gateways = (IF w.mode = "static" THEN Without(w.gateways, ShownGateways(n)) ELSE <<>>)
  BY DEF Recorded, sh
<1> HIDE DEF r
<1>3. /\ n.manual \in Seq(Values) /\ ShownGateways(n) \in Seq(Values)
      /\ ToSet(n.gateways) \subseteq ToSet(ShownGateways(n))
  BY AdapterFields, ShownIs
<1>4. CASE w.mode = "static"
  <2>1. w.addresses \in Seq(Values) /\ w.gateways \in Seq(Values)
    BY <1>4, WantedFields
  <2>2. /\ r.addresses \in Seq(Values) /\ ToSet(r.addresses) = ToSet(w.addresses) \ ToSet(n.manual)
    BY <1>2, <1>3, <1>4, <2>1, WithoutOf
  <2>3. /\ r.gateways \in Seq(Values)
        /\ ToSet(r.gateways) = ToSet(w.gateways) \ ToSet(ShownGateways(n))
    BY <1>2, <1>3, <1>4, <2>1, WithoutOf
  <2>4. ToSet(r.addresses) \cap ToSet(n.manual) = {} /\ ToSet(r.gateways) \cap ToSet(n.gateways) = {}
        /\ ToSet(w.addresses) \subseteq ToSet(n.manual) \cup ToSet(r.addresses)
    BY <1>3, <2>2, <2>3
  <2> QED
    BY <1>1, <1>2, <1>4, <2>2, <2>3, <2>4 DEF r, sh
<1>5. CASE w.mode # "static"
  <2>1. r.addresses = <<>> /\ r.gateways = <<>> /\ <<>> \in Seq(Values)
    BY <1>2, <1>5
  <2> QED
    BY <1>1, <1>2, <1>5, <2>1, NoElement DEF r, sh
<1> QED
  BY <1>4, <1>5

\* What Among finds.
LEMMA AmongOf ==
  ASSUME NEW s \in Seq(Values), NEW S
  PROVE  Among(s, S) \in Seq(Values) /\ ToSet(Among(s, S)) = ToSet(s) \cap S
         /\ (Among(s, S) = <<>> <=> ToSet(s) \cap S = {})
BY KeptOf, KeptNone DEF Among

\* The calls that delete addresses and then gateways.
Removals == DeletesOf("manual") \cup DeletesOf("gateways")

\* The deletions of addresses and then of gateways.
LEMMA RemovalsOf ==
  ASSUME NEW a \in Seq(Values), NEW g \in Seq(Values)
  PROVE  LET C == DeleteAll("manual", a) \o DeleteAll("gateways", g) IN
         /\ C \in Seq(Netshs) /\ ToSet(C) \subseteq Removals
         /\ \A c \in ToSet(C) : c.list = "manual" => c.one \in ToSet(a)
         /\ \A c \in ToSet(C) : c.list = "gateways" => c.one \in ToSet(g)
         /\ \A x \in ToSet(a) : Delete("manual", x) \in ToSet(C)
         /\ a = <<>> /\ g = <<>> => C = <<>>
         /\ a # <<>> => C # <<>> /\ Head(C) = Delete("manual", Head(a))
<1> DEFINE A == DeleteAll("manual", a)
           G == DeleteAll("gateways", g)
<1>1. /\ A \in Seq(Netshs) /\ ToSet(A) \subseteq DeletesOf("manual")
      /\ \A x : Delete("manual", x) \in ToSet(A) <=> x \in ToSet(a)
      /\ \A c \in ToSet(A) : c.one \in ToSet(a)
      /\ a = <<>> => A = <<>>
      /\ a # <<>> => A # <<>> /\ Head(A) = Delete("manual", Head(a))
  BY DeleteAllOf
<1>2. /\ G \in Seq(Netshs) /\ ToSet(G) \subseteq DeletesOf("gateways")
      /\ \A c \in ToSet(G) : c.one \in ToSet(g)
      /\ g = <<>> => G = <<>>
  BY DeleteAllOf
<1> HIDE DEF A, G
<1>3. A \o G \in Seq(Netshs) /\ ToSet(A \o G) = ToSet(A) \cup ToSet(G)
  BY <1>1, <1>2, Joined
<1>4. \A f : \A c \in DeletesOf(f) : c.list = f
  BY DEF DeletesOf
<1>5. a = <<>> /\ g = <<>> => A \o G = <<>>
  BY <1>1, <1>2
<1>6. a # <<>> => A \o G # <<>> /\ Head(A \o G) = Delete("manual", Head(a))
  <2>1. A # <<>> => A \o G # <<>> /\ Head(A \o G) = Head(A)
    BY <1>1, <1>2
  <2> QED
    BY <1>1, <2>1
<1>7. ToSet(A \o G) \subseteq Removals
  BY <1>1, <1>2, <1>3 DEF Removals
<1>8. \A c \in ToSet(A \o G) : c.list = "manual" => c.one \in ToSet(a)
  BY <1>1, <1>2, <1>3, <1>4, ServerNames
<1>9. \A c \in ToSet(A \o G) : c.list = "gateways" => c.one \in ToSet(g)
  BY <1>1, <1>2, <1>3, <1>4, ServerNames
<1> QED
  BY <1>1, <1>3, <1>5, <1>6, <1>7, <1>8, <1>9 DEF A, G

\* Deletions leave the servers alone.
LEMMA RemovalsAre ==
  /\ Removals \subseteq Netshs /\ \A f \in ServerLists : Removals \subseteq Besides(f)
  /\ \A c \in Removals : c.do = "delete" /\ c.list \in {"manual", "gateways"}
<1>1. \A f \in {"manual", "gateways"} : \A c \in DeletesOf(f) : c.list = f
  BY DEF DeletesOf
<1> QED
  BY <1>1, ServerNames, OtherLists DEF Removals

-----------------------------------------------------------------------------
(* The calls of the parts. *)

\* What apply_ipv4 calls for static addresses.
LEMMA StaticCallsOf ==
  ASSUME StepAssumption, NEW w, IsWanted(w), w.mode = "static"
  PROVE  LET C == StaticCalls(w) IN
         /\ C \in Seq(Netshs) /\ C # <<>> /\ Head(C).do = "primary"
         /\ ToSet(C) \subseteq PrimaryCalls \cup ListCalls("manual") \cup ListCalls("gateways")
                                \cup ServerCalls
         /\ \A c \in ToSet(C) : c.do = "primary" => c.address \in ToSet(w.addresses)
         /\ \A c \in ToSet(C) : c.do = "add" /\ c.list = "manual" => c.one \in ToSet(w.addresses)
         /\ \A v \in Seq(Values) :
              /\ Leads("manual", v, C, w.addresses) /\ Leads("gateways", v, C, w.gateways)
              /\ Leads("dns", v, C, OfIpv4(w.dns)) /\ Leads("dns6", v, C, OfIpv6(w.dns))
              /\ Leads("wins", v, C, w.wins)
<1> DEFINE A == AddressCalls(w.addresses, w.gateways)
           D == ReplaceDns(w.dns, FALSE)
           W == ReplaceWins(w.wins, FALSE)
<1>1. /\ w.addresses \in Seq(Values) /\ w.addresses # <<>> /\ w.gateways \in Seq(Values)
      /\ w.dns \in Seq(Values) /\ w.wins \in Seq(Values) /\ None \notin Values
  BY WantedFields DEF StepAssumption
<1>2. StaticCalls(w) = A \o D \o W
  BY DEF StaticCalls, AddressCalls
<1>3. /\ A \in Seq(Netshs) /\ A # <<>> /\ Head(A).do = "primary"
      /\ ToSet(A) \subseteq PrimaryCalls \cup ListCalls("manual") \cup ListCalls("gateways")
      /\ \A c \in ToSet(A) : c.do = "primary" => c.address \in ToSet(w.addresses)
      /\ \A c \in ToSet(A) : c.do = "add" /\ c.list = "manual" => c.one \in ToSet(w.addresses)
      /\ \A v \in Seq(Values) : Leads("manual", v, A, w.addresses) /\ Leads("gateways", v, A, w.gateways)
  BY <1>1, AddressCallsOf
<1>4. /\ D \in Seq(Netshs) /\ ToSet(D) \subseteq ListCalls("dns") \cup ListCalls("dns6")
      /\ \A v \in Seq(Values) : Leads("dns", v, D, OfIpv4(w.dns)) /\ Leads("dns6", v, D, OfIpv6(w.dns))
  BY <1>1, ReplaceDnsOf
<1>5. /\ W \in Seq(Netshs) /\ ToSet(W) \subseteq ListCalls("wins")
      /\ \A v \in Seq(Values) : Leads("wins", v, W, w.wins)
  <2>1. W = Replace("wins", w.wins)
    BY DEF ReplaceWins
  <2>2. Fits("wins", w.wins)
    BY ServerNames DEF Fits
  <2> HIDE DEF W
  <2> QED
    BY <1>1, <2>1, <2>2, ServerNames, ReplaceOf
<1> HIDE DEF A, D, W
<1>6. /\ A \o D \in Seq(Netshs) /\ A \o D \o W \in Seq(Netshs)
      /\ ToSet(A \o D) = ToSet(A) \cup ToSet(D)
      /\ ToSet(A \o D \o W) = ToSet(A) \cup ToSet(D) \cup ToSet(W)
  BY <1>3, <1>4, <1>5, JoinedThree
<1>7. A \o D \o W # <<>> /\ Head(A \o D \o W) = Head(A)
  <2>1. A \o D # <<>> /\ Head(A \o D) = Head(A)
    BY <1>3, <1>4
  <2> QED
    BY <1>5, <1>6, <2>1
<1>8. /\ ToSet(D) \subseteq ServerCalls /\ ToSet(W) \subseteq ServerCalls
  BY <1>4, <1>5, ServerNames, ServerCallsOf
<1>9. /\ ServerCalls \subseteq Besides("manual") /\ ServerCalls \subseteq Besides("gateways")
      /\ \A c \in ServerCalls : c.do \in {"set", "add"} /\ c.list \in ServerLists
  BY ServerCallsOf
<1>10. /\ ToSet(A) \subseteq Besides("dns") /\ ToSet(A) \subseteq Besides("dns6")
       /\ ToSet(A) \subseteq Besides("wins")
  <2>1. \A f \in ServerLists : /\ PrimaryCalls \subseteq Besides(f)
                               /\ ListCalls("manual") \subseteq Besides(f)
                               /\ ListCalls("gateways") \subseteq Besides(f)
    BY ServerNames, ModeCalls, OtherLists
  <2> QED
    BY <1>3, <2>1, ServerNames
<1>11. /\ ToSet(W) \subseteq Besides("dns") /\ ToSet(W) \subseteq Besides("dns6")
       /\ ToSet(D) \subseteq Besides("wins")
  <2>1. /\ ListCalls("wins") \subseteq Besides("dns") /\ ListCalls("wins") \subseteq Besides("dns6")
        /\ ListCalls("dns") \subseteq Besides("wins") /\ ListCalls("dns6") \subseteq Besides("wins")
    BY ServerNames, OtherLists
  <2> QED
    BY <1>4, <1>5, <2>1
<1>12. OfIpv4(w.dns) \in Seq(Values) /\ OfIpv6(w.dns) \in Seq(Values)
  BY <1>1, FamiliesOf
<1>13. ASSUME NEW v \in Seq(Values)
       PROVE  /\ Leads("manual", v, A \o D \o W, w.addresses)
              /\ Leads("gateways", v, A \o D \o W, w.gateways)
  <2>1. Leads("manual", v, A \o D, w.addresses) /\ Leads("gateways", v, A \o D, w.gateways)
    BY <1>1, <1>3, <1>4, <1>8, <1>9, LeadsThen
  <2> QED
    BY <1>1, <1>5, <1>6, <1>8, <1>9, <2>1, LeadsThen
<1>14. ASSUME NEW v \in Seq(Values)
       PROVE  /\ Leads("dns", v, A \o D \o W, OfIpv4(w.dns))
              /\ Leads("dns6", v, A \o D \o W, OfIpv6(w.dns))
  <2>1. Leads("dns", v, A \o D, OfIpv4(w.dns)) /\ Leads("dns6", v, A \o D, OfIpv6(w.dns))
    BY <1>3, <1>4, <1>10, LeadsLater
  <2> QED
    BY <1>5, <1>6, <1>11, <1>12, <2>1, LeadsThen
<1>15. ASSUME NEW v \in Seq(Values) PROVE Leads("wins", v, A \o D \o W, w.wins)
  <2>1. ToSet(A \o D) \subseteq Besides("wins")
    BY <1>6, <1>10, <1>11
  <2> QED
    BY <1>5, <1>6, <2>1, LeadsLater
<1>16. ASSUME NEW c \in ToSet(A \o D \o W), c.do = "primary" PROVE c.address \in ToSet(w.addresses)
  BY <1>3, <1>6, <1>8, <1>9, <1>16
<1>17. ASSUME NEW c \in ToSet(A \o D \o W), c.do = "add", c.list = "manual"
       PROVE  c.one \in ToSet(w.addresses)
  BY <1>3, <1>6, <1>8, <1>9, <1>17, ServerNames
<1>18. ToSet(A \o D \o W) \subseteq PrimaryCalls \cup ListCalls("manual") \cup ListCalls("gateways")
                                      \cup ServerCalls
  BY <1>3, <1>6, <1>8
<1> DEFINE C == A \o D \o W
<1>19. /\ C \in Seq(Netshs) /\ C # <<>> /\ Head(C).do = "primary" /\ StaticCalls(w) = C
       /\ ToSet(C) \subseteq PrimaryCalls \cup ListCalls("manual") \cup ListCalls("gateways")
                              \cup ServerCalls
       /\ \A c \in ToSet(C) : c.do = "primary" => c.address \in ToSet(w.addresses)
       /\ \A c \in ToSet(C) : c.do = "add" /\ c.list = "manual" => c.one \in ToSet(w.addresses)
  BY <1>2, <1>3, <1>6, <1>7, <1>16, <1>17, <1>18
<1>20. \A v \in Seq(Values) :
         /\ Leads("manual", v, C, w.addresses) /\ Leads("gateways", v, C, w.gateways)
         /\ Leads("dns", v, C, OfIpv4(w.dns)) /\ Leads("dns6", v, C, OfIpv6(w.dns))
         /\ Leads("wins", v, C, w.wins)
  BY <1>13, <1>14, <1>15
<1> HIDE DEF C
<1> QED
  BY <1>19, <1>20

\* What restore() calls for the servers: after these calls they are the ones of the adapter o,
\* except that the IPv6 servers are left when the IPv4 servers come from DHCP.
LEMMA RestoreListsOf ==
  ASSUME StepAssumption, IsAdapter(nic), NEW o, IsAdapter(o)
  PROVE  LET C == RestoreLists(Capture(o)) IN
         /\ C \in Seq(Netshs) /\ ToSet(C) \subseteq ServerCalls
         /\ Leads("dns", nic.dns, C, o.dns) /\ Leads("wins", nic.wins, C, o.wins)
         /\ o.dns # <<>> => Leads("dns6", nic.dns6, C, o.dns6)
<1> DEFINE s == Capture(o)
           now == Capture(nic)
           D == IF now.dnsFromDhcp # s.dnsFromDhcp \/ (~s.dnsFromDhcp /\ now.dns # s.dns)
                  THEN ReplaceDns(s.dns, s.dnsFromDhcp) ELSE <<>>
           W == IF now.winsFromDhcp # s.winsFromDhcp \/ (~s.winsFromDhcp /\ now.wins # s.wins)
                  THEN ReplaceWins(s.wins, s.winsFromDhcp) ELSE <<>>
<1>1. RestoreLists(s) = D \o W
  BY DEF RestoreLists
<1>2. /\ s.dns = ShownDns(o) /\ s.dnsFromDhcp = (o.dns = <<>>)
      /\ s.wins = ShownWins(o) /\ s.winsFromDhcp = (o.wins = <<>>)
  BY DEF Capture
<1>3. /\ now.dns = ShownDns(nic) /\ now.dnsFromDhcp = (nic.dns = <<>>)
      /\ now.wins = ShownWins(nic) /\ now.winsFromDhcp = (nic.wins = <<>>)
  BY DEF Capture
<1> HIDE DEF s, now
<1>4. /\ nic.dns \in Seq(Values) /\ nic.dns6 \in Seq(Values) /\ nic.wins \in Seq(Values)
      /\ o.dns \in Seq(Values) /\ o.dns6 \in Seq(Values) /\ o.wins \in Seq(Values)
      /\ ToSet(nic.dns) \cap Servers6 = {} /\ ToSet(nic.dns6) \subseteq Servers6
      /\ ToSet(o.dns) \cap Servers6 = {} /\ ToSet(o.dns6) \subseteq Servers6
  BY AdapterFields
<1>5. /\ ShownDns(o) \in Seq(Values) /\ (o.dns # <<>> => ShownDns(o) = o.dns \o o.dns6)
      /\ ShownWins(o) \in Seq(Values) /\ (o.wins # <<>> => ShownWins(o) = o.wins)
      /\ nic.dns # <<>> => ShownDns(nic) = nic.dns \o nic.dns6
      /\ nic.wins # <<>> => ShownWins(nic) = nic.wins
  BY ShownIs
<1>6. <<>> \in Seq(Netshs) /\ ToSet(<<>>) = {} /\ <<>> \in Seq(Values)
  BY NoElement
<1>8. OfIpv4(o.dns \o o.dns6) = o.dns /\ OfIpv6(o.dns \o o.dns6) = o.dns6
  BY <1>4, FamiliesSplit
<1>9. OfIpv4(nic.dns \o nic.dns6) = nic.dns /\ OfIpv6(nic.dns \o nic.dns6) = nic.dns6
  BY <1>4, FamiliesSplit
<1>10. /\ D \in Seq(Netshs) /\ ToSet(D) \subseteq ListCalls("dns") \cup ListCalls("dns6")
       /\ Leads("dns", nic.dns, D, o.dns)
       /\ o.dns # <<>> => Leads("dns6", nic.dns6, D, o.dns6)
  <2>1. CASE D = <<>> /\ nic.dns = o.dns /\ (o.dns # <<>> => nic.dns6 = o.dns6)
    <3>1. D \in Seq(Netshs) /\ ToSet(D) = {}
      BY <1>6, <2>1
    <3> HIDE DEF D
    <3>2. /\ Leads("dns", nic.dns, D, nic.dns) /\ Leads("dns6", nic.dns6, D, nic.dns6)
      BY <1>4, <2>1, LeadsNil
    <3> QED
      BY <2>1, <3>1, <3>2
  <2>2. CASE o.dns = <<>> /\ D = ReplaceDns(s.dns, TRUE)
    <3> DEFINE e == <<>>
    <3>1. D = SetList("dns", e) /\ e \in Seq(Values) /\ ToSet(e) = {} /\ o.dns = e
      BY <1>6, <2>2 DEF ReplaceDns
    <3> HIDE DEF e, D
    <3>2. Fits("dns", e)
      BY <3>1, ServerNames DEF Fits
    <3>3. /\ D \in Seq(Netshs) /\ ToSet(D) \subseteq ListCalls("dns")
          /\ \A v \in Seq(Values) : Leads("dns", v, D, e)
      BY <3>1, <3>2, ServerNames, SetListOf
    <3> QED
      BY <1>4, <2>2, <3>1, <3>3
  <2>3. CASE o.dns # <<>> /\ D = ReplaceDns(s.dns, FALSE)
    <3>1. s.dns \in Seq(Values) /\ OfIpv4(s.dns) = o.dns /\ OfIpv6(s.dns) = o.dns6
      BY <1>2, <1>5, <1>8, <2>3
    <3> HIDE DEF D
    <3>2. /\ D \in Seq(Netshs) /\ ToSet(D) \subseteq ListCalls("dns") \cup ListCalls("dns6")
          /\ \A v \in Seq(Values) : Leads("dns", v, D, OfIpv4(s.dns)) /\ Leads("dns6", v, D, OfIpv6(s.dns))
      BY <2>3, <3>1, ReplaceDnsOf
    <3> QED
      BY <1>4, <2>3, <3>1, <3>2
  <2>4. CASE ~ (now.dnsFromDhcp # s.dnsFromDhcp \/ (~s.dnsFromDhcp /\ now.dns # s.dns))
    <3>1. D = <<>>
      BY <2>4
    <3>2. (nic.dns = <<>>) = (o.dns = <<>>)
      BY <1>2, <1>3, <2>4
    <3>3. o.dns # <<>> => nic.dns \o nic.dns6 = o.dns \o o.dns6
      BY <1>2, <1>3, <1>5, <2>4, <3>2
    <3>4. nic.dns = o.dns /\ (o.dns # <<>> => nic.dns6 = o.dns6)
      BY <1>8, <1>9, <3>2, <3>3
    <3> QED
      BY <2>1, <3>1, <3>4
  <2>5. CASE now.dnsFromDhcp # s.dnsFromDhcp \/ (~s.dnsFromDhcp /\ now.dns # s.dns)
    <3>1. D = ReplaceDns(s.dns, s.dnsFromDhcp)
      BY <2>5
    <3>2. s.dnsFromDhcp = TRUE \/ s.dnsFromDhcp = FALSE
      BY <1>2
    <3> QED
      BY <1>2, <2>2, <2>3, <3>1, <3>2
  <2> QED
    BY <2>4, <2>5
<1>11. /\ W \in Seq(Netshs) /\ ToSet(W) \subseteq ListCalls("wins")
       /\ Leads("wins", nic.wins, W, o.wins)
  <2>1. CASE W = <<>> /\ nic.wins = o.wins
    <3>1. W \in Seq(Netshs) /\ ToSet(W) = {}
      BY <1>6, <2>1
    <3> HIDE DEF W
    <3>2. Leads("wins", nic.wins, W, nic.wins)
      BY <1>4, <2>1, LeadsNil
    <3> QED
      BY <2>1, <3>1, <3>2
  <2>2. CASE o.wins = <<>> /\ W = ReplaceWins(s.wins, TRUE)
    <3> DEFINE e == <<>>
    <3>1. W = SetList("wins", e) /\ e \in Seq(Values) /\ ToSet(e) = {} /\ o.wins = e
      BY <1>6, <2>2 DEF ReplaceWins
    <3> HIDE DEF e, W
    <3>2. Fits("wins", e)
      BY <3>1, ServerNames DEF Fits
    <3> QED
      BY <1>4, <3>1, <3>2, ServerNames, SetListOf
  <2>3. CASE o.wins # <<>> /\ W = ReplaceWins(s.wins, FALSE)
    <3>1. s.wins = o.wins
      BY <1>2, <1>5, <2>3
    <3>2. W = Replace("wins", o.wins)
      BY <2>3, <3>1 DEF ReplaceWins
    <3> HIDE DEF W
    <3>3. Fits("wins", o.wins)
      BY ServerNames DEF Fits
    <3> QED
      BY <1>4, <3>2, <3>3, ServerNames, ReplaceOf
  <2>4. CASE ~ (now.winsFromDhcp # s.winsFromDhcp \/ (~s.winsFromDhcp /\ now.wins # s.wins))
    <3>1. W = <<>>
      BY <2>4
    <3>2. (nic.wins = <<>>) = (o.wins = <<>>)
      BY <1>2, <1>3, <2>4
    <3>3. nic.wins = o.wins
      BY <1>2, <1>3, <1>5, <2>4, <3>2
    <3> QED
      BY <2>1, <3>1, <3>3
  <2>5. CASE now.winsFromDhcp # s.winsFromDhcp \/ (~s.winsFromDhcp /\ now.wins # s.wins)
    <3>1. W = ReplaceWins(s.wins, s.winsFromDhcp)
      BY <2>5
    <3>2. s.winsFromDhcp = TRUE \/ s.winsFromDhcp = FALSE
      BY <1>2
    <3> QED
      BY <1>2, <2>2, <2>3, <3>1, <3>2
  <2> QED
    BY <2>4, <2>5
<1> HIDE DEF D, W
<1>12. D \o W \in Seq(Netshs) /\ ToSet(D \o W) = ToSet(D) \cup ToSet(W)
  BY <1>10, <1>11, Joined
<1>13. ToSet(D \o W) \subseteq ServerCalls
  BY <1>10, <1>11, <1>12, ServerNames, ServerCallsOf
<1>14. /\ ListCalls("wins") \subseteq Besides("dns") /\ ListCalls("wins") \subseteq Besides("dns6")
       /\ ListCalls("dns") \subseteq Besides("wins") /\ ListCalls("dns6") \subseteq Besides("wins")
  BY ServerNames, OtherLists
<1>15. Leads("dns", nic.dns, D \o W, o.dns)
  BY <1>4, <1>10, <1>11, <1>14, LeadsThen
<1>16. o.dns # <<>> => Leads("dns6", nic.dns6, D \o W, o.dns6)
  BY <1>4, <1>10, <1>11, <1>14, LeadsThen
<1>17. Leads("wins", nic.wins, D \o W, o.wins)
  <2>1. ToSet(D) \subseteq Besides("wins")
    BY <1>10, <1>14
  <2> QED
    BY <1>4, <1>10, <1>11, <2>1, LeadsLater
<1> QED
  BY <1>1, <1>12, <1>13, <1>15, <1>16, <1>17 DEF s

\* What restore() calls for the addresses: those of the adapter o, when it had any set by hand
\* and they or its gateways differ; the change to DHCP, when it had none and was on DHCP.
LEMMA RestoreAddressesOf ==
  ASSUME StepAssumption, IsAdapter(nic), NEW o, IsAdapter(o)
  PROVE  LET C == RestoreAddresses(Capture(o)) IN
         /\ C \in Seq(Netshs)
         /\ ToSet(C) \subseteq DhcpCalls \cup PrimaryCalls
                               \cup ListCalls("manual") \cup ListCalls("gateways")
         /\ \A f \in ServerLists : ToSet(C) \subseteq Besides(f)
         /\ \A c \in ToSet(C) : c.do = "primary" => c.address \in ToSet(o.manual)
         /\ \A c \in ToSet(C) : c.do = "add" /\ c.list = "manual" => c.one \in ToSet(o.manual)
         /\ o.manual # <<>> => /\ \A c \in ToSet(C) : c.do # "dhcp"
                               /\ \/ /\ C # <<>> /\ Head(C).do = "primary"
                                     /\ Leads("manual", nic.manual, C, o.manual)
                                     /\ Leads("gateways", nic.gateways, C, ShownGateways(o))
                                  \/ /\ C = <<>> /\ nic.manual = o.manual
                                     /\ ShownGateways(nic) = ShownGateways(o)
         /\ o.manual = <<>> => \A c \in ToSet(C) : c.do = "dhcp"
         /\ o.manual = <<>> /\ o.dhcp => nic.dhcp \/ (C # <<>> /\ Head(C).do = "dhcp")
<1> DEFINE s == Capture(o)
           A == AddressCalls(o.manual, ShownGateways(o))
           C == RestoreAddresses(s)
<1>1. s.manual = o.manual /\ s.gateways = ShownGateways(o) /\ s.dhcp = o.dhcp
  BY DEF Capture
<1> HIDE DEF s
<1>2. /\ o.manual \in Seq(Values) /\ ShownGateways(o) \in Seq(Values) /\ None \notin Values
      /\ nic.manual \in Seq(Values) /\ nic.gateways \in Seq(Values)
  BY AdapterFields, ShownIs DEF StepAssumption
<1>3. C = IF o.manual # <<>>
            THEN IF nic.manual # o.manual \/ ShownGateways(nic) # ShownGateways(o) THEN A ELSE <<>>
            ELSE IF o.dhcp /\ ~nic.dhcp THEN SourceDhcp ELSE <<>>
  BY <1>1 DEF RestoreAddresses, AddressCalls
<1> HIDE DEF A, C
<1>4. \A f \in ServerLists : /\ PrimaryCalls \subseteq Besides(f) /\ DhcpCalls \subseteq Besides(f)
                             /\ ListCalls("manual") \subseteq Besides(f)
                             /\ ListCalls("gateways") \subseteq Besides(f)
  BY ServerNames, ModeCalls, OtherLists
<1>5. CASE C = <<>>
  <2>1. C \in Seq(Netshs) /\ ToSet(C) = {}
    BY <1>5, NoElement
  <2>2. o.manual # <<>> => nic.manual = o.manual /\ ShownGateways(nic) = ShownGateways(o)
    <3>1. ASSUME o.manual # <<>>, nic.manual # o.manual \/ ShownGateways(nic) # ShownGateways(o)
          PROVE  FALSE
      <4>1. C = A
        BY <1>3, <3>1
      <4>2. A # <<>>
        BY <1>2, <3>1, AddressCallsOf DEF A
      <4> QED
        BY <1>5, <4>1, <4>2
    <3> QED
      BY <3>1
  <2>3. o.manual = <<>> /\ o.dhcp => nic.dhcp
    <3>1. SourceDhcp # <<>>
      BY DEF SourceDhcp
    <3> QED
      BY <1>3, <1>5, <3>1
  <2> QED
    BY <1>5, <2>1, <2>2, <2>3 DEF C, s
<1>6. CASE o.manual # <<>> /\ C = A
  <2>1. /\ A \in Seq(Netshs) /\ A # <<>> /\ Head(A).do = "primary"
        /\ ToSet(A) \subseteq PrimaryCalls \cup ListCalls("manual") \cup ListCalls("gateways")
        /\ \A c \in ToSet(A) : c.do = "primary" => c.address \in ToSet(o.manual)
        /\ \A c \in ToSet(A) : c.do = "add" /\ c.list = "manual" => c.one \in ToSet(o.manual)
        /\ \A v \in Seq(Values) :
             Leads("manual", v, A, o.manual) /\ Leads("gateways", v, A, ShownGateways(o))
    BY <1>2, <1>6, AddressCallsOf DEF A
  <2>2. \A f \in ServerLists : ToSet(A) \subseteq Besides(f)
    BY <1>4, <2>1
  <2>3. \A c \in ToSet(A) : c.do # "dhcp"
    <3>1. \A c \in PrimaryCalls : c.do = "primary"
      BY DEF PrimaryCalls
    <3>2. \A f \in {"manual", "gateways"} : \A c \in ListCalls(f) : c.do \in {"set", "add"}
      BY ServerNames, OtherLists
    <3> QED
      BY <2>1, <3>1, <3>2
  <2> QED
    BY <1>2, <1>6, <2>1, <2>2, <2>3 DEF C, s
<1>7. CASE o.manual = <<>> /\ C = SourceDhcp
  <2> DEFINE d == [do |-> "dhcp"]
  <2>1. C = <<d>>
    BY <1>7 DEF SourceDhcp
  <2>2. d \in DhcpCalls /\ d.do = "dhcp"
    BY DEF DhcpCalls
  <2> HIDE DEF d
  <2>3. d \in Netshs /\ \A f \in ServerLists : d \in Besides(f)
    BY <1>4, <2>2, ModeCalls
  <2>4. C \in Seq(Netshs) /\ ToSet(C) = {d} /\ C # <<>> /\ Head(C) = d
    BY <2>1, <2>3, OneElement
  <2> QED
    BY <1>7, <2>2, <2>3, <2>4 DEF C, s
<1> QED
  BY <1>3, <1>5, <1>6, <1>7

\* What remove_captured_network and the reset of the servers call, after the deletions gone.
LEMMA ResetOf ==
  ASSUME NEW f \in ServerLists, NEW b \in BOOLEAN
  PROVE  LET C == IF b THEN SetList(f, <<>>) ELSE <<>> IN
         /\ C \in Seq(Netshs) /\ ToSet(C) \subseteq ListCalls(f)
         /\ \A v \in Seq(Values) : Leads(f, v, C, IF b THEN <<>> ELSE v)
<1> DEFINE e == <<>>
<1>1. e \in Seq(Values) /\ e \in Seq(Netshs) /\ ToSet(e) = {}
  BY NoElement
<1>2. e = <<>>
  OBVIOUS
<1> HIDE DEF e
<1>3. Fits(f, e)
  BY <1>1 DEF Fits
<1>4. /\ SetList(f, e) \in Seq(Netshs) /\ ToSet(SetList(f, e)) \subseteq ListCalls(f)
      /\ \A v \in Seq(Values) : Leads(f, v, SetList(f, e), e)
  BY <1>1, <1>3, SetListOf
<1>5. \A v \in Seq(Values) : Leads(f, v, e, v)
  BY <1>2, LeadsNil
<1> QED
  BY <1>1, <1>2, <1>4, <1>5

\* The cleanup of a change to DHCP: deletions, and then the servers back to DHCP.
LEMMA CleanupCallsOf ==
  ASSUME NEW gone \in Seq(Netshs), ToSet(gone) \subseteq Removals,
         NEW b \in BOOLEAN, NEW d \in BOOLEAN
  PROVE  LET C == gone \o (IF b THEN SetList("dns", <<>>) ELSE <<>>)
                       \o (IF d THEN SetList("wins", <<>>) ELSE <<>>) IN
         /\ C \in Seq(Netshs)
         /\ ToSet(gone) \subseteq ToSet(C) /\ ToSet(C) \subseteq ToSet(gone) \cup ServerCalls
         /\ \A v \in Seq(Values) : Leads("dns", v, C, IF b THEN <<>> ELSE v)
         /\ \A v \in Seq(Values) : Leads("wins", v, C, IF d THEN <<>> ELSE v)
         /\ gone # <<>> => C # <<>> /\ Head(C) = Head(gone)
<1> DEFINE D == IF b THEN SetList("dns", <<>>) ELSE <<>>
           W == IF d THEN SetList("wins", <<>>) ELSE <<>>
           after(k, v) == IF k THEN <<>> ELSE v
<1>1. /\ D \in Seq(Netshs) /\ ToSet(D) \subseteq ListCalls("dns")
      /\ \A v \in Seq(Values) : Leads("dns", v, D, after(b, v))
  BY ServerNames, ResetOf
<1>2. /\ W \in Seq(Netshs) /\ ToSet(W) \subseteq ListCalls("wins")
      /\ \A v \in Seq(Values) : Leads("wins", v, W, after(d, v))
  BY ServerNames, ResetOf
<1>3. \A k \in BOOLEAN : \A v \in Seq(Values) : after(k, v) \in Seq(Values)
  OBVIOUS
<1> HIDE DEF D, W, after
<1>4. /\ gone \o D \in Seq(Netshs) /\ gone \o D \o W \in Seq(Netshs)
      /\ ToSet(gone \o D) = ToSet(gone) \cup ToSet(D)
      /\ ToSet(gone \o D \o W) = ToSet(gone) \cup ToSet(D) \cup ToSet(W)
  BY <1>1, <1>2, JoinedThree
<1>5. ToSet(D) \subseteq ServerCalls /\ ToSet(W) \subseteq ServerCalls
  BY <1>1, <1>2, ServerNames, ServerCallsOf
<1>6. /\ ToSet(gone) \subseteq Besides("dns") /\ ToSet(gone) \subseteq Besides("wins")
      /\ ToSet(W) \subseteq Besides("dns") /\ ToSet(D) \subseteq Besides("wins")
  BY <1>1, <1>2, ServerNames, RemovalsAre, OtherLists
<1>7. ASSUME NEW v \in Seq(Values) PROVE Leads("dns", v, gone \o D \o W, after(b, v))
  <2>1. Leads("dns", v, gone \o D, after(b, v))
    BY <1>1, <1>6, LeadsLater
  <2> QED
    BY <1>2, <1>3, <1>4, <1>6, <2>1, LeadsThen
<1>8. ASSUME NEW v \in Seq(Values) PROVE Leads("wins", v, gone \o D \o W, after(d, v))
  <2>1. ToSet(gone \o D) \subseteq Besides("wins")
    BY <1>4, <1>6
  <2> QED
    BY <1>2, <1>4, <2>1, LeadsLater
<1>9. gone # <<>> => gone \o D \o W # <<>> /\ Head(gone \o D \o W) = Head(gone)
  <2>1. gone # <<>> => gone \o D # <<>> /\ Head(gone \o D) = Head(gone)
    BY <1>1
  <2>2. gone \o D # <<>> => gone \o D \o W # <<>> /\ Head(gone \o D \o W) = Head(gone \o D)
    BY <1>2, <1>4
  <2> QED
    BY <2>1, <2>2
<1> DEFINE C == gone \o D \o W
<1>10. /\ C \in Seq(Netshs) /\ ToSet(gone) \subseteq ToSet(C)
       /\ ToSet(C) \subseteq ToSet(gone) \cup ServerCalls
       /\ \A v \in Seq(Values) : Leads("dns", v, C, after(b, v)) /\ Leads("wins", v, C, after(d, v))
       /\ gone # <<>> => C # <<>> /\ Head(C) = Head(gone)
  BY <1>4, <1>5, <1>7, <1>8, <1>9
<1> HIDE DEF C
<1>11. C = gone \o (IF b THEN SetList("dns", <<>>) ELSE <<>>)
                \o (IF d THEN SetList("wins", <<>>) ELSE <<>>)
  BY DEF C, D, W
<1> QED
  BY <1>10, <1>11 DEF after

-----------------------------------------------------------------------------
(* Types, and the parts of the step. *)

AtParts  == {"apply", "cleanup", "end", "restore", "tidy", "verify", "done"}
Outcomes == {"none", "succeeded", "failed", "rolled_back"}

StepTypes ==
  /\ IsAdapter(nic) /\ IsAdapter(orig) /\ IsWanted(want)
  /\ saved = Recorded(orig, want)
  /\ calls \in Seq(Netshs)
  /\ at \in AtParts /\ outcome \in Outcomes
  /\ changed \in BOOLEAN /\ trouble \in BOOLEAN
  /\ at \in {"apply", "restore", "done"} => calls = <<>>
  /\ outcome = "none" <=> at # "done"
  /\ at = "cleanup" => want.mode = "dhcp"
  /\ at = "apply" => ~changed

\* The facts the steps need of what was recorded.
LEMMA SavedIs ==
  ASSUME StepAssumption, StepTypes
  PROVE  /\ saved.shown = Capture(orig)
         /\ saved.shown.dhcp = orig.dhcp /\ saved.shown.manual = orig.manual
         /\ saved.shown.gateways = ShownGateways(orig)
         /\ saved.shown.dns = ShownDns(orig) /\ saved.shown.dnsFromDhcp = (orig.dns = <<>>)
         /\ saved.shown.wins = ShownWins(orig) /\ saved.shown.winsFromDhcp = (orig.wins = <<>>)
         /\ saved.addresses \in Seq(Values) /\ ToSet(saved.addresses) \cap ToSet(orig.manual) = {}
         /\ saved.gateways \in Seq(Values) /\ ToSet(saved.gateways) \cap ToSet(orig.gateways) = {}
         /\ want.mode = "static" =>
              ToSet(want.addresses) \subseteq ToSet(orig.manual) \cup ToSet(saved.addresses)
         /\ want.mode = "dhcp" => saved.addresses = <<>>
         /\ orig.manual \in Seq(Values) /\ ShownGateways(orig) \in Seq(Values)
<1>1. IsAdapter(orig) /\ IsWanted(want) /\ saved = Recorded(orig, want)
  BY DEF StepTypes
<1>2. orig.manual \in Seq(Values) /\ ShownGateways(orig) \in Seq(Values)
  BY <1>1, AdapterFields, ShownIs
<1> DEFINE r == Recorded(orig, want)
<1>3. /\ r.shown = Capture(orig)
      /\ r.shown.dhcp = orig.dhcp /\ r.shown.manual = orig.manual
      /\ r.shown.gateways = ShownGateways(orig)
      /\ r.shown.dns = ShownDns(orig) /\ r.shown.wins = ShownWins(orig)
      /\ r.addresses \in Seq(Values) /\ ToSet(r.addresses) \cap ToSet(orig.manual) = {}
      /\ r.gateways \in Seq(Values) /\ ToSet(r.gateways) \cap ToSet(orig.gateways) = {}
      /\ want.mode = "static" =>
           ToSet(want.addresses) \subseteq ToSet(orig.manual) \cup ToSet(r.addresses)
      /\ want.mode = "dhcp" => r.addresses = <<>>
  BY <1>1, RecordedIs
<1>4. saved = r
  BY <1>1
<1> HIDE DEF r
<1> DEFINE s == Capture(orig)
<1>5. s.dnsFromDhcp = (orig.dns = <<>>) /\ s.winsFromDhcp = (orig.wins = <<>>)
  BY DEF Capture
<1>6. saved.shown = s
  BY <1>3, <1>4
<1> HIDE DEF s
<1>7. /\ saved.shown.dnsFromDhcp = (orig.dns = <<>>)
      /\ saved.shown.winsFromDhcp = (orig.wins = <<>>)
  BY <1>5, <1>6
<1> QED
  BY <1>2, <1>3, <1>4, <1>7

\* A call that succeeds: what it makes of the adapter, and that it is one call less.
LEMMA NetshStep ==
  ASSUME StepTypes, Netsh
  PROVE  LET c == Head(calls) IN
         /\ c \in Netshs /\ calls' \in Seq(Netshs) /\ ToSet(calls) = {c} \cup ToSet(calls')
         /\ IsAdapter(nic')
         /\ nic'.dns = After("dns", nic.dns, c) /\ nic'.dns6 = After("dns6", nic.dns6, c)
         /\ nic'.wins = After("wins", nic.wins, c)
         /\ c.do # "dhcp" => /\ nic'.manual = After("manual", nic.manual, c)
                             /\ nic'.gateways = After("gateways", nic.gateways, c)
         /\ c.do = "dhcp" => nic'.dhcp /\ nic'.manual \in {<<>>, nic.manual}
         /\ c.do = "primary" => ~nic'.dhcp
         /\ c.do \notin {"dhcp", "primary"} => nic'.dhcp = nic.dhcp
         /\ \A t : Leads("dns", nic.dns, calls, t) => Leads("dns", nic'.dns, calls', t)
         /\ \A t : Leads("dns6", nic.dns6, calls, t) => Leads("dns6", nic'.dns6, calls', t)
         /\ \A t : Leads("wins", nic.wins, calls, t) => Leads("wins", nic'.wins, calls', t)
         /\ c.do # "dhcp" =>
              /\ \A t : Leads("manual", nic.manual, calls, t) => Leads("manual", nic'.manual, calls', t)
              /\ \A t : Leads("gateways", nic.gateways, calls, t)
                          => Leads("gateways", nic'.gateways, calls', t)
<1> DEFINE c == Head(calls)
<1>1. /\ calls \in Seq(Netshs) /\ calls # <<>> /\ calls' = Tail(calls) /\ nic' \in Effects(nic, c)
      /\ IsAdapter(nic)
  BY DEF StepTypes, Netsh
<1>2. c \in Netshs /\ calls' \in Seq(Netshs) /\ ToSet(calls) = {c} \cup ToSet(calls')
  BY <1>1, Parted
<1>3. \A f : \A v, t : Leads(f, v, calls, t) => Leads(f, After(f, v, c), calls', t)
  BY <1>1, LeadsStep
<1> HIDE DEF c
<1>4. /\ IsAdapter(nic')
      /\ nic'.dns = After("dns", nic.dns, c) /\ nic'.dns6 = After("dns6", nic.dns6, c)
      /\ nic'.wins = After("wins", nic.wins, c)
      /\ c.do # "dhcp" => /\ nic'.manual = After("manual", nic.manual, c)
                          /\ nic'.gateways = After("gateways", nic.gateways, c)
      /\ c.do = "dhcp" => nic'.dhcp /\ nic'.manual \in {<<>>, nic.manual}
      /\ c.do = "primary" => ~nic'.dhcp
      /\ c.do \notin {"dhcp", "primary"} => nic'.dhcp = nic.dhcp
  BY <1>1, <1>2, EffectsOf
<1> QED
  BY <1>2, <1>3, <1>4 DEF c

\* The arrival of the lease changes no list set by hand.
LEMMA BindStep ==
  ASSUME StepAssumption, StepTypes, Bind
  PROVE  /\ IsAdapter(nic') /\ nic.dhcp /\ nic'.dhcp
         /\ nic'.manual = nic.manual /\ nic'.gateways = nic.gateways
         /\ nic'.dns = nic.dns /\ nic'.dns6 = nic.dns6 /\ nic'.wins = nic.wins
         /\ UNCHANGED <<orig, want, saved, calls, at, changed, trouble, outcome>>
<1>1. /\ nic.lease = "due" /\ IsAdapter(nic)
      /\ nic' = [nic EXCEPT !.lease = "bound", !.address = TRUE, !.offered = Lease.gateways]
      /\ UNCHANGED <<orig, want, saved, calls, at, changed, trouble, outcome>>
  BY DEF Bind, StepTypes
<1>2. /\ nic \in AdapterType /\ (nic.dhcp <=> nic.lease # "none")
      /\ ToSet(nic.dns) \cap Servers6 = {} /\ ToSet(nic.dns6) \subseteq Servers6
  BY <1>1, AdapterFields
<1>3. Lease.gateways \in Seq(Values)
  BY DEF StepAssumption
<1>4. /\ nic' \in AdapterType /\ nic'.dhcp = nic.dhcp /\ nic'.lease = "bound"
      /\ nic'.manual = nic.manual /\ nic'.gateways = nic.gateways
      /\ nic'.dns = nic.dns /\ nic'.dns6 = nic.dns6 /\ nic'.wins = nic.wins
  <2> DEFINE p == [nic EXCEPT !.lease = "bound", !.address = TRUE]
             m == [p EXCEPT !.offered = Lease.gateways]
  <2>1. nic' = m
    BY <1>1
  <2>2. /\ p \in AdapterType /\ p.dhcp = nic.dhcp /\ p.lease = "bound"
        /\ p.manual = nic.manual /\ p.gateways = nic.gateways
        /\ p.dns = nic.dns /\ p.dns6 = nic.dns6 /\ p.wins = nic.wins
    BY <1>2 DEF AdapterType
  <2> HIDE DEF p
  <2>3. /\ m \in AdapterType /\ m.dhcp = p.dhcp /\ m.lease = p.lease
        /\ m.manual = p.manual /\ m.gateways = p.gateways
        /\ m.dns = p.dns /\ m.dns6 = p.dns6 /\ m.wins = p.wins
    BY <1>3, <2>2 DEF AdapterType
  <2> HIDE DEF m
  <2> QED
    BY <2>1, <2>2, <2>3
<1>5. IsAdapter(nic')
  BY <1>1, <1>2, <1>4, StaysAdapter
<1> QED
  BY <1>1, <1>2, <1>4, <1>5

\* The types hold before the step.
LEMMA InitStepTypes == ASSUME StepAssumption, StepInit PROVE StepTypes
<1>1. IsAdapter(nic) /\ IsAdapter(orig) /\ IsWanted(want)
  BY DEF StepInit, StepAssumption
<1>2. calls = <<>> /\ at = "apply" /\ outcome = "none" /\ ~changed /\ changed \in BOOLEAN
      /\ trouble \in BOOLEAN
  BY DEF StepInit
<1>3. saved = Recorded(orig, want)
  BY DEF StepInit
<1> QED
  BY <1>1, <1>2, <1>3 DEF StepTypes, AtParts, Outcomes

\* The calls of every part are calls of netsh.
LEMMA BeginCalls ==
  ASSUME StepAssumption, StepTypes, Begin
  PROVE  \/ want.mode = "static" /\ calls' = <<>> /\ changed' = FALSE /\ at' = "end"
              /\ Matches(saved.shown, want)
         \/ want.mode = "static" /\ calls' = StaticCalls(want) /\ at' = "end"
         \/ want.mode = "dhcp" /\ calls' = <<>> /\ at' = "cleanup" /\ orig.dhcp
         \/ want.mode = "dhcp" /\ calls' = SourceDhcp /\ at' = "cleanup" /\ ~orig.dhcp
<1>1. saved.shown.dhcp = orig.dhcp
  BY SavedIs
<1>2. want.mode \in {"dhcp", "static"}
  BY WantedFields DEF StepTypes
<1> QED
  BY <1>1, <1>2 DEF Begin

\* The change to DHCP is one call.
LEMMA SourceDhcpIs ==
  /\ SourceDhcp \in Seq(Netshs) /\ SourceDhcp # <<>> /\ Head(SourceDhcp).do = "dhcp"
  /\ ToSet(SourceDhcp) \subseteq DhcpCalls
  /\ \A c \in ToSet(SourceDhcp) : c.do = "dhcp"
<1> DEFINE d == [do |-> "dhcp"]
<1>1. SourceDhcp = <<d>>
  BY DEF SourceDhcp
<1>2. d \in DhcpCalls /\ d.do = "dhcp"
  BY DEF DhcpCalls
<1> HIDE DEF d
<1>3. d \in Netshs
  BY <1>2, ModeCalls
<1> QED
  BY <1>1, <1>2, <1>3, OneElement

\* The cleanup deletes the addresses of before that are still shown, and their gateways.
LEMMA CleanupCalls ==
  ASSUME StepAssumption, StepTypes, Cleanup
  PROVE  /\ calls' \in Seq(Netshs) /\ ToSet(calls') \subseteq Removals \cup ServerCalls
         /\ \A x \in ToSet(orig.manual) \cap ToSet(nic.manual) : Delete("manual", x) \in ToSet(calls')
         /\ ToSet(orig.manual) \cap ToSet(nic.manual) # {}
              => /\ calls' # <<>> /\ Head(calls').do = "delete" /\ Head(calls').list = "manual"
                 /\ Head(calls').one \in ToSet(orig.manual)
         /\ \A v \in Seq(Values) :
              /\ Leads("dns", v, calls', IF want.dns /\ orig.dns # <<>> THEN <<>> ELSE v)
              /\ Leads("wins", v, calls', IF want.dns /\ orig.wins # <<>> THEN <<>> ELSE v)
<1> DEFINE s == saved.shown
           a == Among(s.manual, ShownAddresses(nic))
           g == Among(s.gateways, ToSet(ShownGateways(nic)))
           R == DeleteAll("manual", a) \o DeleteAll("gateways", g)
           gone == IF s.manual = <<>> THEN <<>> ELSE R
           b == want.dns /\ ~s.dnsFromDhcp
           d == want.dns /\ ~s.winsFromDhcp
<1>1. calls' = gone \o (IF b THEN SetList("dns", <<>>) ELSE <<>>)
                    \o (IF d THEN SetList("wins", <<>>) ELSE <<>>)
  BY DEF Cleanup
<1>2. /\ s.manual = orig.manual /\ s.gateways = ShownGateways(orig)
      /\ s.dnsFromDhcp = (orig.dns = <<>>) /\ s.winsFromDhcp = (orig.wins = <<>>)
      /\ orig.manual \in Seq(Values) /\ ShownGateways(orig) \in Seq(Values)
  BY SavedIs
<1>3. /\ a \in Seq(Values) /\ ToSet(a) = ToSet(orig.manual) \cap ShownAddresses(nic)
      /\ g \in Seq(Values)
  BY <1>2, AmongOf
<1>4. want.dns \in BOOLEAN
  <2>1. want.mode = "dhcp" /\ IsWanted(want)
    BY DEF StepTypes, Cleanup
  <2> QED
    BY <2>1, WantedFields
<1>5. ToSet(nic.manual) \subseteq ShownAddresses(nic)
  <2>1. IsAdapter(nic)
    BY DEF StepTypes
  <2> QED
    BY <2>1, ShownIs
<1>6. b \in BOOLEAN /\ d \in BOOLEAN /\ (b <=> want.dns /\ orig.dns # <<>>)
      /\ (d <=> want.dns /\ orig.wins # <<>>)
  BY <1>2, <1>4
<1> HIDE DEF s, a, g, b, d
<1>7. /\ R \in Seq(Netshs) /\ ToSet(R) \subseteq Removals
      /\ \A c \in ToSet(R) : c.list = "manual" => c.one \in ToSet(a)
      /\ \A x \in ToSet(a) : Delete("manual", x) \in ToSet(R)
      /\ a # <<>> => R # <<>> /\ Head(R) = Delete("manual", Head(a))
  BY <1>3, RemovalsOf
<1> HIDE DEF R
<1>8. <<>> \in Seq(Netshs) /\ ToSet(<<>>) = {}
  BY NoElement
<1>9. gone \in Seq(Netshs) /\ ToSet(gone) \subseteq Removals
  BY <1>7, <1>8
<1>10. \A x \in ToSet(orig.manual) \cap ToSet(nic.manual) : Delete("manual", x) \in ToSet(gone)
  <2>1. ToSet(orig.manual) \cap ToSet(nic.manual) \subseteq ToSet(a)
    BY <1>3, <1>5
  <2>2. ToSet(orig.manual) # {} => orig.manual # <<>>
    BY <1>8
  <2> QED
    BY <1>2, <1>7, <2>1, <2>2
<1>11. ASSUME ToSet(orig.manual) \cap ToSet(nic.manual) # {}
       PROVE  /\ gone # <<>> /\ Head(gone).do = "delete" /\ Head(gone).list = "manual"
              /\ Head(gone).one \in ToSet(orig.manual)
  <2>1. ToSet(a) # {} /\ ToSet(orig.manual) # {}
    BY <1>3, <1>5, <1>11
  <2>2. a # <<>> /\ orig.manual # <<>>
    BY <1>8, <2>1
  <2>3. gone = R /\ gone # <<>> /\ Head(gone) = Delete("manual", Head(a))
    BY <1>2, <1>7, <2>2
  <2>4. Head(a) \in ToSet(a)
    BY <1>3, <2>2, Parted
  <2> QED
    BY <1>3, <2>3, <2>4 DEF Delete
<1> HIDE DEF gone
<1> DEFINE C == gone \o (IF b THEN SetList("dns", <<>>) ELSE <<>>)
                     \o (IF d THEN SetList("wins", <<>>) ELSE <<>>)
<1>12. /\ C \in Seq(Netshs)
       /\ ToSet(gone) \subseteq ToSet(C) /\ ToSet(C) \subseteq ToSet(gone) \cup ServerCalls
       /\ \A v \in Seq(Values) : Leads("dns", v, C, IF b THEN <<>> ELSE v)
       /\ \A v \in Seq(Values) : Leads("wins", v, C, IF d THEN <<>> ELSE v)
       /\ gone # <<>> => C # <<>> /\ Head(C) = Head(gone)
  BY <1>6, <1>9, CleanupCallsOf
<1>13. calls' = C
  BY <1>1
<1> HIDE DEF C
<1>14. ASSUME NEW v \in Seq(Values)
       PROVE  /\ Leads("dns", v, C, IF want.dns /\ orig.dns # <<>> THEN <<>> ELSE v)
              /\ Leads("wins", v, C, IF want.dns /\ orig.wins # <<>> THEN <<>> ELSE v)
  <2>1. (IF b THEN <<>> ELSE v) = (IF want.dns /\ orig.dns # <<>> THEN <<>> ELSE v)
    BY <1>6
  <2>2. (IF d THEN <<>> ELSE v) = (IF want.dns /\ orig.wins # <<>> THEN <<>> ELSE v)
    BY <1>6
  <2> QED
    BY <1>12, <2>1, <2>2
<1>15. ToSet(C) \subseteq Removals \cup ServerCalls
  BY <1>9, <1>12
<1>16. \A x \in ToSet(orig.manual) \cap ToSet(nic.manual) : Delete("manual", x) \in ToSet(C)
  BY <1>10, <1>12
<1>17. ToSet(orig.manual) \cap ToSet(nic.manual) # {}
         => /\ C # <<>> /\ Head(C).do = "delete" /\ Head(C).list = "manual"
            /\ Head(C).one \in ToSet(orig.manual)
  BY <1>11, <1>12
<1> QED
  BY <1>12, <1>13, <1>14, <1>15, <1>16, <1>17

\* The restore calls for the addresses first and then for the servers.
LEMMA RestoreCalls ==
  ASSUME StepAssumption, StepTypes, Restore
  PROVE  /\ calls' \in Seq(Netshs)
         /\ \A c \in ToSet(calls') : c.do \in {"dhcp", "primary", "set", "add"}
         /\ \A c \in ToSet(calls') : c.do = "primary" => c.address \in ToSet(orig.manual)
         /\ \A c \in ToSet(calls') :
              c.do = "add" /\ c.list = "manual" => c.one \in ToSet(orig.manual)
         /\ Leads("dns", nic.dns, calls', orig.dns) /\ Leads("wins", nic.wins, calls', orig.wins)
         /\ orig.dns # <<>> => Leads("dns6", nic.dns6, calls', orig.dns6)
         /\ orig.manual # <<>> =>
              /\ \A c \in ToSet(calls') : c.do # "dhcp"
              /\ \/ /\ calls' # <<>> /\ Head(calls').do = "primary"
                    /\ Leads("manual", nic.manual, calls', orig.manual)
                    /\ Leads("gateways", nic.gateways, calls', ShownGateways(orig))
                 \/ /\ ToSet(calls') \subseteq ServerCalls
                    /\ nic.manual = orig.manual /\ ShownGateways(nic) = ShownGateways(orig)
         /\ orig.manual = <<>> => \A c \in ToSet(calls') : c.do # "primary"
         /\ orig.manual = <<>> /\ orig.dhcp => nic.dhcp \/ (calls' # <<>> /\ Head(calls').do = "dhcp")
<1> DEFINE A == RestoreAddresses(Capture(orig))
           L == RestoreLists(Capture(orig))
<1>1. IsAdapter(nic) /\ IsAdapter(orig) /\ saved.shown = Capture(orig)
  BY SavedIs DEF StepTypes
<1>2. calls' = A \o L
  BY <1>1 DEF Restore
<1>3. /\ A \in Seq(Netshs)
      /\ ToSet(A) \subseteq DhcpCalls \cup PrimaryCalls \cup ListCalls("manual") \cup ListCalls("gateways")
      /\ \A f \in ServerLists : ToSet(A) \subseteq Besides(f)
      /\ \A c \in ToSet(A) : c.do = "primary" => c.address \in ToSet(orig.manual)
      /\ \A c \in ToSet(A) : c.do = "add" /\ c.list = "manual" => c.one \in ToSet(orig.manual)
      /\ orig.manual # <<>> => /\ \A c \in ToSet(A) : c.do # "dhcp"
                               /\ \/ /\ A # <<>> /\ Head(A).do = "primary"
                                     /\ Leads("manual", nic.manual, A, orig.manual)
                                     /\ Leads("gateways", nic.gateways, A, ShownGateways(orig))
                                  \/ /\ A = <<>> /\ nic.manual = orig.manual
                                     /\ ShownGateways(nic) = ShownGateways(orig)
      /\ orig.manual = <<>> => \A c \in ToSet(A) : c.do = "dhcp"
      /\ orig.manual = <<>> /\ orig.dhcp => nic.dhcp \/ (A # <<>> /\ Head(A).do = "dhcp")
  BY <1>1, RestoreAddressesOf
<1>4. /\ L \in Seq(Netshs) /\ ToSet(L) \subseteq ServerCalls
      /\ Leads("dns", nic.dns, L, orig.dns) /\ Leads("wins", nic.wins, L, orig.wins)
      /\ orig.dns # <<>> => Leads("dns6", nic.dns6, L, orig.dns6)
  BY <1>1, RestoreListsOf
<1> HIDE DEF A, L
<1>5. A \o L \in Seq(Netshs) /\ ToSet(A \o L) = ToSet(A) \cup ToSet(L)
  BY <1>3, <1>4, Joined
<1>6. /\ nic.dns \in Seq(Values) /\ nic.dns6 \in Seq(Values) /\ nic.wins \in Seq(Values)
      /\ orig.manual \in Seq(Values)
  BY <1>1, AdapterFields
<1>7. /\ Leads("dns", nic.dns, A \o L, orig.dns) /\ Leads("wins", nic.wins, A \o L, orig.wins)
      /\ orig.dns # <<>> => Leads("dns6", nic.dns6, A \o L, orig.dns6)
  <2>1. /\ ToSet(A) \subseteq Besides("dns") /\ ToSet(A) \subseteq Besides("dns6")
        /\ ToSet(A) \subseteq Besides("wins")
    BY <1>3, ServerNames
  <2>2. Leads("dns", nic.dns, A \o L, orig.dns)
    BY <1>3, <1>4, <1>6, <2>1, LeadsLater
  <2>3. Leads("wins", nic.wins, A \o L, orig.wins)
    BY <1>3, <1>4, <1>6, <2>1, LeadsLater
  <2>4. orig.dns # <<>> => Leads("dns6", nic.dns6, A \o L, orig.dns6)
    BY <1>3, <1>4, <1>6, <2>1, LeadsLater
  <2> QED
    BY <2>2, <2>3, <2>4
<1>8. /\ ServerCalls \subseteq Besides("manual") /\ ServerCalls \subseteq Besides("gateways")
      /\ \A c \in ServerCalls : c.do \in {"set", "add"} /\ c.list \in ServerLists
  BY ServerCallsOf
<1>9. ShownGateways(orig) \in Seq(Values)
  BY <1>1, ShownIs
<1>10. A # <<>> => A \o L # <<>> /\ Head(A \o L) = Head(A)
  BY <1>3, <1>4
<1>11. A = <<>> => ToSet(A \o L) \subseteq ServerCalls
  BY <1>4, <1>5, NoElement
<1>12. Leads("manual", nic.manual, A, orig.manual) => Leads("manual", nic.manual, A \o L, orig.manual)
  BY <1>3, <1>4, <1>6, <1>8, LeadsThen
<1>13. Leads("gateways", nic.gateways, A, ShownGateways(orig))
         => Leads("gateways", nic.gateways, A \o L, ShownGateways(orig))
  BY <1>3, <1>4, <1>8, <1>9, LeadsThen
<1>14. \A c \in ToSet(A) : c.do \in {"dhcp", "primary", "set", "add"}
  <2>1. \A c \in PrimaryCalls : c.do = "primary"
    BY DEF PrimaryCalls
  <2>2. \A c \in DhcpCalls : c.do = "dhcp"
    BY DEF DhcpCalls
  <2>3. \A f \in {"manual", "gateways"} : \A c \in ListCalls(f) : c.do \in {"set", "add"}
    BY ServerNames, OtherLists
  <2> QED
    BY <1>3, <2>1, <2>2, <2>3
<1> DEFINE C == A \o L
<1>15. \A c \in ToSet(C) : c.do \in {"dhcp", "primary", "set", "add"}
  BY <1>4, <1>5, <1>8, <1>14
<1>16. \A c \in ToSet(C) : c.do = "primary" => c.address \in ToSet(orig.manual)
  BY <1>3, <1>4, <1>5, <1>8
<1>17. \A c \in ToSet(C) : c.do = "add" /\ c.list = "manual" => c.one \in ToSet(orig.manual)
  BY <1>3, <1>4, <1>5, <1>8, ServerNames
<1>18. orig.manual # <<>> =>
         /\ \A c \in ToSet(C) : c.do # "dhcp"
         /\ \/ /\ C # <<>> /\ Head(C).do = "primary"
               /\ Leads("manual", nic.manual, C, orig.manual)
               /\ Leads("gateways", nic.gateways, C, ShownGateways(orig))
            \/ /\ ToSet(C) \subseteq ServerCalls
               /\ nic.manual = orig.manual /\ ShownGateways(nic) = ShownGateways(orig)
  BY <1>3, <1>4, <1>5, <1>8, <1>10, <1>11, <1>12, <1>13
<1>19. orig.manual = <<>> => \A c \in ToSet(C) : c.do # "primary"
  BY <1>3, <1>4, <1>5, <1>8
<1>20. orig.manual = <<>> /\ orig.dhcp => nic.dhcp \/ (C # <<>> /\ Head(C).do = "dhcp")
  BY <1>3, <1>10
<1>21. calls' = C /\ C \in Seq(Netshs)
  BY <1>2, <1>5
<1>22. /\ Leads("dns", nic.dns, C, orig.dns) /\ Leads("wins", nic.wins, C, orig.wins)
       /\ orig.dns # <<>> => Leads("dns6", nic.dns6, C, orig.dns6)
  BY <1>7
<1> HIDE DEF C
<1> QED
  BY <1>15, <1>16, <1>17, <1>18, <1>19, <1>20, <1>21, <1>22

\* The tidying deletes what the step added and is still shown.
LEMMA TidyCalls ==
  ASSUME StepAssumption, StepTypes, Tidy
  PROVE  /\ calls' \in Seq(Netshs) /\ ToSet(calls') \subseteq Removals
         /\ \A c \in ToSet(calls') : c.list = "manual" => c.one \in ToSet(saved.addresses)
         /\ \A c \in ToSet(calls') : c.list = "gateways" => c.one \in ToSet(saved.gateways)
         /\ \A x \in ToSet(saved.addresses) \cap ToSet(nic.manual) :
              Delete("manual", x) \in ToSet(calls')
         /\ ToSet(saved.addresses) \cap ShownAddresses(nic) = {}
              /\ ToSet(saved.gateways) \cap ToSet(ShownGateways(nic)) = {} => calls' = <<>>
<1> DEFINE a == Among(saved.addresses, ShownAddresses(nic))
           g == Among(saved.gateways, ToSet(ShownGateways(nic)))
           C == DeleteAll("manual", a) \o DeleteAll("gateways", g)
<1>1. calls' = C
  BY DEF Tidy
<1>2. IsAdapter(nic) /\ saved.addresses \in Seq(Values) /\ saved.gateways \in Seq(Values)
  BY SavedIs DEF StepTypes
<1>3. /\ a \in Seq(Values) /\ ToSet(a) = ToSet(saved.addresses) \cap ShownAddresses(nic)
      /\ a = <<>> <=> ToSet(saved.addresses) \cap ShownAddresses(nic) = {}
  BY <1>2, AmongOf
<1>4. /\ g \in Seq(Values) /\ ToSet(g) = ToSet(saved.gateways) \cap ToSet(ShownGateways(nic))
      /\ g = <<>> <=> ToSet(saved.gateways) \cap ToSet(ShownGateways(nic)) = {}
  BY <1>2, AmongOf
<1>5. ToSet(nic.manual) \subseteq ShownAddresses(nic)
  BY <1>2, ShownIs
<1> HIDE DEF a, g
<1>6. /\ C \in Seq(Netshs) /\ ToSet(C) \subseteq Removals
      /\ \A c \in ToSet(C) : c.list = "manual" => c.one \in ToSet(a)
      /\ \A c \in ToSet(C) : c.list = "gateways" => c.one \in ToSet(g)
      /\ \A x \in ToSet(a) : Delete("manual", x) \in ToSet(C)
      /\ a = <<>> /\ g = <<>> => C = <<>>
  BY <1>3, <1>4, RemovalsOf
<1> HIDE DEF C
<1> QED
  BY <1>1, <1>3, <1>4, <1>5, <1>6

-----------------------------------------------------------------------------
(* Types. *)

\* The parts of StepTypes that only the parts of the step change.
LEMMA TypesKept ==
  ASSUME StepTypes, UNCHANGED <<orig, want, saved>>, IsAdapter(nic'), calls' \in Seq(Netshs),
         at' \in AtParts, outcome' \in Outcomes, changed' \in BOOLEAN, trouble' \in BOOLEAN,
         at' \in {"apply", "restore", "done"} => calls' = <<>>,
         outcome' = "none" <=> at' # "done",
         at' = "cleanup" => want.mode = "dhcp", at' = "apply" => ~changed'
  PROVE  StepTypes'
BY DEF StepTypes

\* A part of the step that leaves the adapter alone and answers nothing.
LEMMA PartBegun ==
  ASSUME StepTypes, UNCHANGED <<nic, orig, want, saved, trouble, outcome>>, at # "done",
         calls' \in Seq(Netshs), changed' \in BOOLEAN, at' \in {"cleanup", "end", "tidy", "verify"},
         at' = "cleanup" => want.mode = "dhcp"
  PROVE  StepTypes'
<1>1. /\ at' \in AtParts /\ at' \notin {"apply", "restore", "done"} /\ at' # "done" /\ at' # "apply"
      /\ at' # "restore"
  BY DEF AtParts
<1>2. /\ IsAdapter(nic') /\ outcome' \in Outcomes /\ trouble' \in BOOLEAN /\ outcome' = "none"
  BY DEF StepTypes
<1> QED
  BY <1>1, <1>2, TypesKept

\* Every step keeps the types.
LEMMA TypesStep == ASSUME StepAssumption, StepTypes, StepNext PROVE StepTypes'
<1>0. changed \in BOOLEAN /\ <<>> \in Seq(Netshs)
  BY DEF StepTypes
<1>1. CASE Begin
  <2>1. UNCHANGED <<nic, orig, want, saved, trouble, outcome>> /\ at # "done"
    BY <1>1 DEF Begin
  <2>2. at' \in {"cleanup", "end"} /\ (at' = "cleanup" => want.mode = "dhcp")
    BY <1>1, BeginCalls
  <2>3. calls' \in Seq(Netshs)
    <3>1. IsWanted(want)
      BY DEF StepTypes
    <3>2. want.mode = "static" => StaticCalls(want) \in Seq(Netshs)
      BY <3>1, StaticCallsOf
    <3> QED
      BY <1>0, <1>1, <3>2, BeginCalls, SourceDhcpIs
  <2>4. changed' \in BOOLEAN
    BY <1>1 DEF Begin
  <2> QED
    BY <2>1, <2>2, <2>3, <2>4, PartBegun
<1>2. CASE Cleanup
  <2>1. /\ UNCHANGED <<nic, orig, want, saved, trouble, outcome>> /\ at # "done" /\ at' = "end"
        /\ changed' \in BOOLEAN
    BY <1>2 DEF Cleanup
  <2>2. calls' \in Seq(Netshs)
    BY <1>2, CleanupCalls
  <2> QED
    BY <2>1, <2>2, PartBegun
<1>3. CASE Done
  BY <1>3 DEF Done, StepTypes, AtParts, Outcomes
<1>4. CASE Restore
  <2>1. /\ UNCHANGED <<nic, orig, want, saved, changed, trouble, outcome>>
        /\ at # "done" /\ at' = "tidy"
    BY <1>4 DEF Restore
  <2>2. calls' \in Seq(Netshs)
    BY <1>4, RestoreCalls
  <2> QED
    BY <1>0, <2>1, <2>2, PartBegun
<1>5. CASE Tidy
  <2>1. /\ UNCHANGED <<nic, orig, want, saved, changed, trouble, outcome>>
        /\ at # "done" /\ at' = "verify"
    BY <1>5 DEF Tidy
  <2>2. calls' \in Seq(Netshs)
    BY <1>5, TidyCalls
  <2> QED
    BY <1>0, <2>1, <2>2, PartBegun
<1>6. CASE Verify
  BY <1>6 DEF Verify, StepTypes, AtParts, Outcomes
<1>7. CASE Netsh
  <2>1. IsAdapter(nic') /\ calls' \in Seq(Netshs)
    BY <1>7, NetshStep
  <2>2. UNCHANGED <<orig, want, saved, at, changed, trouble, outcome>> /\ calls # <<>>
    BY <1>7 DEF Netsh
  <2> QED
    BY <2>1, <2>2 DEF StepTypes
<1>8. CASE Fail
  BY <1>0, <1>8 DEF Fail, StepTypes, AtParts, Outcomes
<1>9. CASE Bind
  BY <1>9, BindStep DEF StepTypes
<1> QED
  BY <1>1, <1>2, <1>3, <1>4, <1>5, <1>6, <1>7, <1>8, <1>9 DEF StepNext

\* The step and its entry keep their types: the families of the servers stay apart, calls are
\* pending in no part that makes none, and the apply has answered exactly when it is done.
THEOREM StepTypesHold == StepSpec => []StepTypes
<1>1. StepInit => StepTypes
  BY StepAssumption, InitStepTypes
<1>2. StepTypes /\ [StepNext]_stepVars => StepTypes'
  <2>1. ASSUME StepTypes, StepNext PROVE StepTypes'
    BY <2>1, StepAssumption, TypesStep
  <2>2. ASSUME StepTypes, UNCHANGED stepVars PROVE StepTypes'
    BY <2>2 DEF StepTypes, stepVars
  <2> QED
    BY <2>1, <2>2
<1> QED
  BY <1>1, <1>2, PTL DEF StepSpec

-----------------------------------------------------------------------------
(* The adapter is as found after a rollback. *)

\* The addresses the step or its restore may set: those of before and those it adds.
Known == ToSet(orig.manual) \cup ToSet(saved.addresses)

\* No other address is set by hand, nor will be.
KnownAddresses ==
  /\ ToSet(nic.manual) \subseteq Known
  /\ \A c \in ToSet(calls) : /\ c.do = "primary" => c.address \in Known
                             /\ c.do = "add" /\ c.list = "manual" => c.one \in Known

\* What a call does to the elements of a list.
LEMMA AfterElements ==
  ASSUME NEW f \in Lists, NEW v \in Seq(Values), NEW c \in Netshs
  PROVE  /\ c.do = "set" /\ c.list = f => After(f, v, c) = c.to
         /\ c.do = "add" /\ c.list = f => ToSet(After(f, v, c)) = ToSet(v) \cup {c.one}
         /\ c.do = "delete" /\ c.list = f =>
              /\ ToSet(After(f, v, c)) = ToSet(v) \ {c.one}
              /\ c.one \notin ToSet(v) => After(f, v, c) = v
         /\ c.do = "primary" /\ f = "manual" => ToSet(After(f, v, c)) = {c.address}
         /\ c.do \in {"set", "add", "delete"} /\ c.list # f => After(f, v, c) = v
         /\ c.do = "dhcp" => After(f, v, c) = v
<1>1. CASE c \in DhcpCalls /\ c.do = "dhcp"
  BY <1>1 DEF After
<1>2. CASE c \in PrimaryCalls /\ c.do = "primary"
  BY <1>2, OneElement DEF After
<1>3. CASE c \in SetCalls /\ c.do = "set" /\ InFamily(c)
  BY <1>3 DEF After
<1>4. CASE c \in AddCalls /\ c.do = "add" /\ InFamily(c)
  <2> DEFINE e == <<c.one>>
  <2>1. e \in Seq(Values) /\ Append(v, c.one) = v \o e
    BY <1>4 DEF AddCalls
  <2>2. ToSet(e) = {c.one}
    BY OneElement
  <2> HIDE DEF e
  <2>3. ToSet(Append(v, c.one)) = ToSet(v) \cup {c.one}
    BY <2>1, <2>2, Joined
  <2>4. c.list = f => After(f, v, c) = Append(v, c.one)
    BY <1>4 DEF After
  <2>5. c.list # f => After(f, v, c) = v
    BY <1>4 DEF After
  <2> QED
    BY <1>4, <2>3, <2>4, <2>5
<1>5. CASE c \in DeleteCalls /\ c.do = "delete"
  <2> DEFINE e == <<c.one>>
  <2>1. e \in Seq(Values) /\ ToSet(e) = {c.one}
    BY <1>5, OneElement DEF DeleteCalls
  <2>2. c.list = f => After(f, v, c) = Without(v, e)
    BY <1>5 DEF After
  <2> HIDE DEF e
  <2>3. /\ ToSet(Without(v, e)) = ToSet(v) \ ToSet(e)
        /\ ToSet(v) \cap ToSet(e) = {} => Without(v, e) = v
    BY <2>1, WithoutOf
  <2>4. c.list # f => After(f, v, c) = v
    BY <1>5 DEF After
  <2> QED
    BY <1>5, <2>1, <2>2, <2>3, <2>4
<1> QED
  BY <1>1, <1>2, <1>3, <1>4, <1>5, Kinds

\* No step sets another address.
LEMMA KnownStep ==
  ASSUME StepAssumption, StepTypes, KnownAddresses, StepNext
  PROVE  KnownAddresses'
<1>0. /\ IsAdapter(nic) /\ ToSet(<<>>) = {} /\ IsWanted(want)
      /\ want.mode = "static" => ToSet(want.addresses) \subseteq Known
  BY SavedIs, NoElement DEF StepTypes, Known
<1> DEFINE Quiet(c) == /\ c.do = "primary" => c.address \in Known
                       /\ c.do = "add" /\ c.list = "manual" => c.one \in Known
<1>a. ASSUME UNCHANGED <<nic, orig, saved>>, \A c \in ToSet(calls') : Quiet(c)
      PROVE  KnownAddresses'
  BY <1>a DEF KnownAddresses, Known
<1>b. \A c \in Removals : c.do = "delete"
  BY RemovalsAre
<1>c. \A c \in ServerCalls : c.do \in {"set", "add"} /\ c.list # "manual"
  BY ServerCallsOf, ServerNames
<1>1. CASE Begin
  <2>1. UNCHANGED <<nic, orig, saved>>
    BY <1>1 DEF Begin
  <2>2. ASSUME want.mode = "static", NEW c \in ToSet(StaticCalls(want)) PROVE Quiet(c)
    BY <1>0, <2>2, StaticCallsOf
  <2>3. \A c \in ToSet(calls') : Quiet(c)
    BY <1>0, <1>1, <2>2, BeginCalls, SourceDhcpIs
  <2> QED
    BY <1>a, <2>1, <2>3
<1>2. CASE Cleanup
  <2>1. UNCHANGED <<nic, orig, saved>>
    BY <1>2 DEF Cleanup
  <2>2. \A c \in ToSet(calls') : Quiet(c)
    BY <1>2, <1>b, <1>c, CleanupCalls
  <2> QED
    BY <1>a, <2>1, <2>2
<1>3. CASE Done
  BY <1>3 DEF Done, KnownAddresses, Known
<1>4. CASE Restore
  <2>1. UNCHANGED <<nic, orig, saved>>
    BY <1>4 DEF Restore
  <2>2. \A c \in ToSet(calls') : Quiet(c)
    BY <1>4, RestoreCalls DEF Known
  <2> QED
    BY <1>a, <2>1, <2>2
<1>5. CASE Tidy
  <2>1. UNCHANGED <<nic, orig, saved>>
    BY <1>5 DEF Tidy
  <2>2. \A c \in ToSet(calls') : Quiet(c)
    BY <1>5, <1>b, TidyCalls
  <2> QED
    BY <1>a, <2>1, <2>2
<1>6. CASE Verify
  BY <1>6 DEF Verify, KnownAddresses, Known
<1>7. CASE Netsh
  <2> DEFINE c == Head(calls)
  <2>1. /\ c \in Netshs /\ ToSet(calls) = {c} \cup ToSet(calls')
        /\ c.do # "dhcp" => nic'.manual = After("manual", nic.manual, c)
        /\ c.do = "dhcp" => nic'.manual \in {<<>>, nic.manual}
    BY <1>7, NetshStep
  <2>2. UNCHANGED <<orig, saved>>
    BY <1>7 DEF Netsh
  <2>3. nic.manual \in Seq(Values)
    BY <1>0, AdapterFields
  <2>4. Quiet(c)
    BY <2>1 DEF KnownAddresses
  <2> HIDE DEF c
  <2>5. c.list = "manual" => c \notin SetCalls
    BY ServerNames DEF SetCalls
  <2>6. c.do = "set" => c.list # "manual"
    BY <2>1, <2>5, Kinds
  <2>7. c.do \in {"dhcp", "primary", "set", "add", "delete"}
    BY <2>1, Kinds
  <2>8. c.do # "dhcp" => ToSet(After("manual", nic.manual, c)) \subseteq Known
    BY <2>1, <2>3, <2>4, <2>6, <2>7, AfterElements, ServerNames DEF KnownAddresses
  <2>9. ToSet(nic'.manual) \subseteq Known
    BY <1>0, <2>1, <2>8 DEF KnownAddresses
  <2> QED
    BY <2>1, <2>2, <2>9 DEF KnownAddresses, Known
<1>8. CASE Fail
  BY <1>0, <1>8 DEF Fail, KnownAddresses, Known
<1>9. CASE Bind
  BY <1>9, BindStep DEF KnownAddresses, Known
<1> QED
  BY <1>1, <1>2, <1>3, <1>4, <1>5, <1>6, <1>7, <1>8, <1>9 DEF StepNext

\* An adapter on DHCP with addresses by hand: while it is on DHCP one of them is lost or the
\* gateways by hand are those of before, and the pending calls keep that so: they begin with a
\* change to static, or they lose an address or leave these gateways.
Lost == ~ (ToSet(orig.manual) \subseteq ToSet(nic.manual))

LosesAddress ==
  calls # <<>> /\ Head(calls).do = "delete" /\ Head(calls).list = "manual"
    /\ Head(calls).one \in ToSet(orig.manual)

SetsNothing == \A c \in ToSet(calls) : c \in Removals \cup ServerCalls

LeavesGateways ==
  \A c \in ToSet(calls) :
    c.do = "delete" /\ c.list = "gateways" => c.one \notin ToSet(orig.gateways)

GatewaysOrLost ==
  orig.dhcp /\ orig.manual # <<>> =>
    /\ \A c \in ToSet(calls) : c.do # "dhcp"
    /\ nic.dhcp =>
         /\ Lost \/ nic.gateways = orig.gateways
         /\ \/ calls # <<>> /\ Head(calls).do = "primary"
            \/ SetsNothing /\ (Lost \/ LosesAddress \/ LeavesGateways)

\* Every step keeps GatewaysOrLost.
LEMMA GatewaysStep ==
  ASSUME StepAssumption, StepTypes, GatewaysOrLost, StepNext
  PROVE  GatewaysOrLost'
<1>0. /\ IsAdapter(nic) /\ IsAdapter(orig) /\ ToSet(<<>>) = {} /\ IsWanted(want)
      /\ nic.manual \in Seq(Values) /\ nic.gateways \in Seq(Values) /\ orig.manual \in Seq(Values)
  BY AdapterFields, NoElement DEF StepTypes
<1>a. CASE ~ (orig.dhcp /\ orig.manual # <<>>)
  <2>1. UNCHANGED orig
    BY DEF StepNext, Begin, Cleanup, Done, Restore, Tidy, Verify, Netsh, Fail, Bind
  <2> QED
    BY <1>a, <2>1 DEF GatewaysOrLost
<1>b. CASE orig.dhcp /\ orig.manual # <<>>
  <2>0. ToSet(orig.manual) # {}
    BY <1>0, <1>b, Emptied
  <2>a. ASSUME UNCHANGED <<nic, orig>>, calls' = <<>> PROVE GatewaysOrLost'
    BY <1>0, <1>b, <2>a DEF GatewaysOrLost, Lost, SetsNothing, LeavesGateways
  <2>b. /\ \A c \in Removals : c.do = "delete"
        /\ \A c \in ServerCalls : c.do \in {"set", "add"}
    BY RemovalsAre, ServerCallsOf
  <2>1. CASE Begin
    <3>1. UNCHANGED <<nic, orig>>
      BY <2>1 DEF Begin
    <3>2. CASE calls' = <<>>
      BY <2>a, <3>1, <3>2
    <3>3. CASE want.mode = "static" /\ calls' = StaticCalls(want)
      <4>1. /\ calls' # <<>> /\ Head(calls').do = "primary"
            /\ ToSet(calls') \subseteq PrimaryCalls \cup ListCalls("manual") \cup ListCalls("gateways")
                                         \cup ServerCalls
        BY <1>0, <3>3, StaticCallsOf
      <4>2. \A c \in PrimaryCalls : c.do = "primary"
        BY DEF PrimaryCalls
      <4>3. \A f \in {"manual", "gateways"} : \A c \in ListCalls(f) : c.do \in {"set", "add"}
        BY ServerNames, OtherLists
      <4>4. \A c \in ToSet(calls') : c.do # "dhcp"
        BY <2>b, <4>1, <4>2, <4>3
      <4> QED
        BY <3>1, <4>1, <4>4 DEF GatewaysOrLost, Lost
    <3> QED
      BY <1>b, <2>1, <3>2, <3>3, BeginCalls
  <2>2. CASE Cleanup
    <3>1. UNCHANGED <<nic, orig>>
      BY <2>2 DEF Cleanup
    <3>2. /\ ToSet(calls') \subseteq Removals \cup ServerCalls
          /\ ToSet(orig.manual) \cap ToSet(nic.manual) # {}
               => /\ calls' # <<>> /\ Head(calls').do = "delete" /\ Head(calls').list = "manual"
                  /\ Head(calls').one \in ToSet(orig.manual)
      BY <2>2, CleanupCalls
    <3>3. \A c \in ToSet(calls') : c.do # "dhcp"
      BY <2>b, <3>2
    <3>4. SetsNothing'
      BY <3>2 DEF SetsNothing
    <3>5. Lost' \/ LosesAddress'
      BY <2>0, <3>1, <3>2 DEF Lost, LosesAddress
    <3>6. nic.dhcp => Lost' \/ nic.gateways = orig.gateways
      BY <1>b, <3>1 DEF GatewaysOrLost, Lost
    <3> QED
      BY <3>1, <3>3, <3>4, <3>5, <3>6 DEF GatewaysOrLost
  <2>3. CASE Done
    BY <2>3, <2>a DEF Done
  <2>4. CASE Restore
    <3>1. UNCHANGED <<nic, orig>>
      BY <2>4 DEF Restore
    <3>2. /\ \A c \in ToSet(calls') : c.do # "dhcp"
          /\ \/ calls' # <<>> /\ Head(calls').do = "primary"
             \/ ToSet(calls') \subseteq ServerCalls
      BY <1>b, <2>4, RestoreCalls
    <3>3. nic.dhcp => Lost' \/ nic.gateways = orig.gateways
      BY <1>b, <3>1 DEF GatewaysOrLost, Lost
    <3>4. ToSet(calls') \subseteq ServerCalls => SetsNothing' /\ LeavesGateways'
      BY <2>b DEF SetsNothing, LeavesGateways
    <3> QED
      BY <3>1, <3>2, <3>3, <3>4 DEF GatewaysOrLost
  <2>5. CASE Tidy
    <3>1. UNCHANGED <<nic, orig>>
      BY <2>5 DEF Tidy
    <3>2. /\ ToSet(calls') \subseteq Removals
          /\ \A c \in ToSet(calls') : c.list = "gateways" => c.one \in ToSet(saved.gateways)
      BY <2>5, TidyCalls
    <3>3. ToSet(saved.gateways) \cap ToSet(orig.gateways) = {}
      BY SavedIs
    <3>4. \A c \in ToSet(calls') : c.do # "dhcp"
      BY <2>b, <3>2
    <3>5. SetsNothing' /\ LeavesGateways'
      BY <3>1, <3>2, <3>3 DEF SetsNothing, LeavesGateways
    <3>6. nic.dhcp => Lost' \/ nic.gateways = orig.gateways
      BY <1>b, <3>1 DEF GatewaysOrLost, Lost
    <3> QED
      BY <3>1, <3>4, <3>5, <3>6 DEF GatewaysOrLost
  <2>6. CASE Verify
    BY <2>6, <2>a DEF Verify
  <2>7. CASE Netsh
    <3> DEFINE c == Head(calls)
    <3>1. /\ c \in Netshs /\ ToSet(calls) = {c} \cup ToSet(calls')
          /\ c.do # "dhcp" => /\ nic'.manual = After("manual", nic.manual, c)
                              /\ nic'.gateways = After("gateways", nic.gateways, c)
          /\ c.do = "primary" => ~nic'.dhcp
          /\ c.do \notin {"dhcp", "primary"} => nic'.dhcp = nic.dhcp
      BY <2>7, NetshStep
    <3>2. UNCHANGED orig /\ calls # <<>>
      BY <2>7 DEF Netsh
    <3>3. c.do # "dhcp" /\ \A d \in ToSet(calls') : d.do # "dhcp"
      BY <1>b, <3>1 DEF GatewaysOrLost
    <3>4. CASE ~nic'.dhcp
      BY <3>2, <3>3, <3>4 DEF GatewaysOrLost
    <3>5. CASE nic'.dhcp
      <4>1. nic.dhcp /\ c.do # "primary"
        BY <3>1, <3>3, <3>5
      <4>2. /\ Lost \/ nic.gateways = orig.gateways
            /\ SetsNothing /\ (Lost \/ LosesAddress \/ LeavesGateways)
        BY <1>b, <4>1 DEF GatewaysOrLost
      <4>3. SetsNothing' /\ c \in Removals \cup ServerCalls
        BY <3>1, <4>2 DEF SetsNothing
      <4>4. LosesAddress => c.do = "delete" /\ c.list = "manual" /\ c.one \in ToSet(orig.manual)
        BY DEF LosesAddress
      <4> HIDE DEF c
      <4>5. ToSet(After("manual", nic.manual, c)) \subseteq ToSet(nic.manual)
        <5>1. CASE c \in ServerCalls
          BY <1>0, <5>1, ServerCallsOf DEF Besides
        <5>2. CASE c \in Removals
          <6>1. c.do = "delete" /\ c.list \in {"manual", "gateways"}
            BY <5>2, RemovalsAre
          <6> QED
            BY <1>0, <3>1, <6>1, AfterElements, ServerNames
        <5> QED
          BY <4>3, <5>1, <5>2
      <4>6. Lost => Lost'
        BY <3>1, <3>2, <3>3, <4>5 DEF Lost
      <4>7. LosesAddress => Lost'
        <5>1. ASSUME LosesAddress PROVE c.one \notin ToSet(nic'.manual)
          BY <1>0, <3>1, <3>3, <4>4, <5>1, AfterElements, ServerNames
        <5> QED
          BY <3>2, <4>4, <5>1 DEF Lost
      <4>8. ASSUME LeavesGateways, nic.gateways = orig.gateways
            PROVE  LeavesGateways' /\ nic'.gateways = orig'.gateways
        <5>1. LeavesGateways'
          BY <3>1, <3>2, <4>8 DEF LeavesGateways
        <5>2. c.do = "delete" /\ c.list = "gateways" => c.one \notin ToSet(nic.gateways)
          BY <3>1, <4>8 DEF LeavesGateways
        <5>3. After("gateways", nic.gateways, c) = nic.gateways
          <6>1. CASE c \in ServerCalls
            BY <1>0, <6>1, ServerCallsOf DEF Besides
          <6>2. CASE c \in Removals
            <7>1. c.do = "delete" /\ c.list \in {"manual", "gateways"}
              BY <6>2, RemovalsAre
            <7> QED
              BY <1>0, <3>1, <5>2, <7>1, AfterElements, ServerNames
          <6> QED
            BY <4>3, <6>1, <6>2
        <5> QED
          BY <3>1, <3>2, <3>3, <4>8, <5>1, <5>3
      <4>9. Lost' \/ (LeavesGateways' /\ nic'.gateways = orig'.gateways)
        BY <4>2, <4>6, <4>7, <4>8
      <4> QED
        BY <3>2, <3>3, <4>3, <4>9 DEF GatewaysOrLost
    <3> QED
      BY <3>4, <3>5
  <2>8. CASE Fail
    BY <2>8, <2>a DEF Fail
  <2>9. CASE Bind
    BY <1>b, <2>9, BindStep
       DEF GatewaysOrLost, Lost, LosesAddress, SetsNothing, LeavesGateways
  <2> QED
    BY <2>1, <2>2, <2>3, <2>4, <2>5, <2>6, <2>7, <2>8, <2>9 DEF StepNext
<1> QED
  BY <1>a, <1>b

\* What verify_restored accepts is the adapter as it was found.
LEMMA VerifiedIsAsFound ==
  ASSUME StepAssumption, StepTypes, KnownAddresses, GatewaysOrLost, calls = <<>>,
         Verified(Capture(nic), saved.shown)
  PROVE  AsFound
<1> DEFINE now == Capture(nic)
           s == saved.shown
<1>1. /\ s.dhcp = orig.dhcp /\ s.manual = orig.manual /\ s.gateways = ShownGateways(orig)
      /\ s.dns = ShownDns(orig) /\ s.dnsFromDhcp = (orig.dns = <<>>)
      /\ s.wins = ShownWins(orig) /\ s.winsFromDhcp = (orig.wins = <<>>)
      /\ saved.addresses \in Seq(Values)
  BY SavedIs
<1>2. /\ now.dhcp = nic.dhcp /\ now.manual = nic.manual /\ now.gateways = ShownGateways(nic)
      /\ now.dns = ShownDns(nic) /\ now.dnsFromDhcp = (nic.dns = <<>>)
      /\ now.wins = ShownWins(nic) /\ now.winsFromDhcp = (nic.wins = <<>>)
  BY DEF Capture
<1> HIDE DEF now
<1>3. /\ now.dhcp = s.dhcp
      /\ IF s.manual = <<>> THEN Among(saved.addresses, ShownAddresses(nic)) = <<>>
                            ELSE now.manual = s.manual /\ now.gateways = s.gateways
      /\ now.dnsFromDhcp = s.dnsFromDhcp /\ (s.dnsFromDhcp \/ now.dns = s.dns)
      /\ now.winsFromDhcp = s.winsFromDhcp /\ (s.winsFromDhcp \/ now.wins = s.wins)
  BY DEF Verified, now
<1> HIDE DEF s
<1>4. /\ IsAdapter(nic) /\ IsAdapter(orig) /\ nic.manual \in Seq(Values)
      /\ nic.dns \in Seq(Values) /\ nic.dns6 \in Seq(Values)
      /\ orig.dns \in Seq(Values) /\ orig.dns6 \in Seq(Values)
      /\ ToSet(nic.dns) \cap Servers6 = {} /\ ToSet(nic.dns6) \subseteq Servers6
      /\ ToSet(orig.dns) \cap Servers6 = {} /\ ToSet(orig.dns6) \subseteq Servers6
  BY AdapterFields DEF StepTypes
<1>5. /\ nic.dns # <<>> => ShownDns(nic) = nic.dns \o nic.dns6
      /\ nic.wins # <<>> => ShownWins(nic) = nic.wins
      /\ orig.dns # <<>> => ShownDns(orig) = orig.dns \o orig.dns6
      /\ orig.wins # <<>> => ShownWins(orig) = orig.wins
      /\ ToSet(nic.manual) \subseteq ShownAddresses(nic)
      /\ ~nic.dhcp => ShownGateways(nic) = nic.gateways
      /\ ~orig.dhcp => ShownGateways(orig) = orig.gateways
  BY <1>4, ShownIs
<1>6. nic.dhcp = orig.dhcp
  BY <1>1, <1>2, <1>3
<1>7. nic.manual = orig.manual
  <2>1. CASE orig.manual # <<>>
    BY <1>1, <1>2, <1>3, <2>1
  <2>2. CASE orig.manual = <<>>
    <3>1. Among(saved.addresses, ShownAddresses(nic)) = <<>>
      BY <1>1, <1>3, <2>2
    <3>2. ToSet(saved.addresses) \cap ShownAddresses(nic) = {}
      BY <1>1, <3>1, AmongOf
    <3>3. ToSet(nic.manual) \subseteq ToSet(saved.addresses)
      BY <2>2, NoElement DEF KnownAddresses, Known
    <3>4. ToSet(nic.manual) = {}
      BY <1>5, <3>2, <3>3
    <3> QED
      BY <1>4, <2>2, <3>4, Emptied
  <2> QED
    BY <2>1, <2>2
<1>8. nic.dns = orig.dns /\ (orig.dns # <<>> => nic.dns6 = orig.dns6)
  <2>1. (nic.dns = <<>>) = (orig.dns = <<>>)
    BY <1>1, <1>2, <1>3
  <2>2. orig.dns # <<>> => ShownDns(nic) = ShownDns(orig)
    BY <1>1, <1>2, <1>3
  <2>3. orig.dns # <<>> => nic.dns \o nic.dns6 = orig.dns \o orig.dns6
    BY <1>5, <2>1, <2>2
  <2>4. /\ OfIpv4(nic.dns \o nic.dns6) = nic.dns /\ OfIpv6(nic.dns \o nic.dns6) = nic.dns6
    BY <1>4, FamiliesSplit
  <2>5. /\ OfIpv4(orig.dns \o orig.dns6) = orig.dns /\ OfIpv6(orig.dns \o orig.dns6) = orig.dns6
    BY <1>4, FamiliesSplit
  <2> QED
    BY <2>1, <2>3, <2>4, <2>5
<1>9. nic.wins = orig.wins
  <2>1. (nic.wins = <<>>) = (orig.wins = <<>>)
    BY <1>1, <1>2, <1>3
  <2>2. orig.wins # <<>> => ShownWins(nic) = ShownWins(orig)
    BY <1>1, <1>2, <1>3
  <2> QED
    BY <1>5, <2>1, <2>2
<1>10. orig.manual # <<>> => nic.gateways = orig.gateways
  <2> SUFFICES ASSUME orig.manual # <<>> PROVE nic.gateways = orig.gateways
    OBVIOUS
  <2>1. CASE ~orig.dhcp
    <3>1. ShownGateways(nic) = ShownGateways(orig)
      BY <1>1, <1>2, <1>3
    <3>2. ~nic.dhcp
      BY <1>6, <2>1
    <3> QED
      BY <1>5, <2>1, <3>1, <3>2
  <2>2. CASE orig.dhcp
    <3>1. nic.dhcp /\ ~Lost
      BY <1>6, <1>7, <2>2 DEF Lost
    <3> QED
      BY <2>2, <3>1 DEF GatewaysOrLost
  <2> QED
    BY <2>1, <2>2
<1> QED
  BY <1>6, <1>7, <1>8, <1>9, <1>10 DEF AsFound

RolledBackIsAsFound == outcome = "rolled_back" => AsFound

\* What a rolled back adapter needs to be as found, in every step.
RestoreInv == StepTypes /\ KnownAddresses /\ GatewaysOrLost /\ RolledBackIsAsFound

\* Only the lease moves an adapter whose apply has answered, and it moves nothing set by hand.
LEMMA AfterTheAnswer ==
  ASSUME StepTypes, StepNext, outcome # "none"
  PROVE  Bind
BY DEF StepTypes, StepNext, Begin, Cleanup, Done, Restore, Tidy, Verify, Netsh, Fail, Fails

\* The lease does not count.
LEMMA BindKeepsAsFound ==
  ASSUME StepAssumption, StepTypes, Bind
  PROVE  AsFound' <=> AsFound
BY BindStep DEF AsFound

\* Only verify_restored answers rolled_back.
LEMMA AsFoundStep ==
  ASSUME StepAssumption, RestoreInv, StepNext
  PROVE  RolledBackIsAsFound'
<1>0. StepTypes /\ KnownAddresses /\ GatewaysOrLost /\ RolledBackIsAsFound
  BY DEF RestoreInv
<1>1. CASE outcome # "none"
  <2>1. Bind
    BY <1>0, <1>1, AfterTheAnswer
  <2>2. outcome' = outcome
    BY <2>1 DEF Bind
  <2> QED
    BY <1>0, <2>1, <2>2, BindKeepsAsFound DEF RolledBackIsAsFound
<1>2. CASE outcome = "none" /\ outcome' = "rolled_back"
  <2>1. Verify
    BY <1>2 DEF StepNext, Begin, Cleanup, Done, Restore, Tidy, Verify, Netsh, Fail, Bind
  <2>2. calls = <<>> /\ Verified(Capture(nic), saved.shown) /\ UNCHANGED <<nic, orig>>
    BY <1>2, <2>1 DEF Verify
  <2>3. AsFound
    BY <1>0, <2>2, VerifiedIsAsFound
  <2> QED
    BY <2>2, <2>3 DEF RolledBackIsAsFound, AsFound
<1>3. CASE outcome = "none" /\ outcome' # "rolled_back"
  BY <1>3 DEF RolledBackIsAsFound
<1> QED
  BY <1>1, <1>2, <1>3

\* The invariant of the restore holds in every state.
LEMMA RestoreInvHolds == StepSpec => []RestoreInv
<1>1. StepInit => RestoreInv
  <2> SUFFICES ASSUME StepInit PROVE RestoreInv
    OBVIOUS
  <2>1. StepTypes
    BY StepAssumption, InitStepTypes
  <2>2. nic = orig /\ calls = <<>> /\ outcome = "none"
    BY DEF StepInit
  <2>3. KnownAddresses
    BY <2>2, NoElement DEF KnownAddresses, Known
  <2>4. GatewaysOrLost
    BY <2>2, NoElement DEF GatewaysOrLost, SetsNothing, LeavesGateways
  <2> QED
    BY <2>1, <2>2, <2>3, <2>4 DEF RestoreInv, RolledBackIsAsFound
<1>2. RestoreInv /\ [StepNext]_stepVars => RestoreInv'
  <2>1. ASSUME RestoreInv, StepNext PROVE RestoreInv'
    BY <2>1, StepAssumption, TypesStep, KnownStep, GatewaysStep, AsFoundStep DEF RestoreInv
  <2>2. ASSUME RestoreInv, UNCHANGED stepVars PROVE RestoreInv'
    BY <2>2 DEF stepVars, RestoreInv, StepTypes, KnownAddresses, Known, GatewaysOrLost, Lost,
       LosesAddress, SetsNothing, LeavesGateways, RolledBackIsAsFound, AsFound
  <2> QED
    BY <2>1, <2>2
<1> QED
  BY <1>1, <1>2, PTL DEF StepSpec

\* The promise of an apply: whichever call fails and whenever the lease arrives, the apply that
\* answers rolled_back (NetworkRestore::restore and verify_restored without an error) leaves the
\* adapter as it was found, and nothing is done to the adapter after the answer.
THEOREM StepKeepsThePromise == StepSpec => AdapterAsFound
<1>1. StepInit => Promise!Init
  <2> SUFFICES ASSUME StepInit PROVE Promise!Init
    OBVIOUS
  <2>1. outcome = "none" /\ nic = orig
    BY DEF StepInit
  <2>2. AsFound = TRUE
    BY <2>1 DEF AsFound
  <2> QED
    BY <2>1, <2>2 DEF Promise!Init
<1>2. ASSUME RestoreInv, RestoreInv', [StepNext]_stepVars PROVE [Promise!Next]_(Promise!vars)
  <2>0. StepTypes /\ StepAssumption
    BY <1>2, StepAssumption DEF RestoreInv
  <2>1. CASE UNCHANGED stepVars
    <3>1. AsFound' <=> AsFound
      BY <2>1 DEF stepVars, AsFound
    <3>2. AsFound' = AsFound
      BY <3>1 DEF AsFound
    <3> QED
      BY <2>1, <3>2 DEF stepVars, Promise!vars
  <2>2. CASE StepNext /\ outcome # "none"
    <3>1. Bind
      BY <2>0, <2>2, AfterTheAnswer
    <3>2. outcome' = outcome
      BY <3>1 DEF Bind
    <3>3. AsFound' <=> AsFound
      BY <2>0, <3>1, BindKeepsAsFound
    <3>4. AsFound' = AsFound
      BY <3>3 DEF AsFound
    <3> QED
      BY <3>2, <3>4 DEF Promise!vars
  <2>3. CASE StepNext /\ outcome = "none" /\ outcome' = "none"
    <3>1. AsFound' \in BOOLEAN
      BY DEF AsFound
    <3> QED
      BY <2>3, <3>1 DEF Promise!Next, Promise!Work
  <2>4. CASE StepNext /\ outcome = "none" /\ outcome' # "none"
    <3>1. UNCHANGED <<nic, orig>> /\ outcome' \in {"succeeded", "failed", "rolled_back"}
      BY <2>4 DEF StepNext, Begin, Cleanup, Done, Restore, Tidy, Verify, Netsh, Fail, Bind
    <3>2. AsFound' <=> AsFound
      BY <3>1 DEF AsFound
    <3>3. AsFound' = AsFound
      BY <3>2 DEF AsFound
    <3>4. outcome' = "rolled_back" => AsFound
      BY <1>2, <3>2 DEF RestoreInv, RolledBackIsAsFound
    <3> QED
      BY <2>4, <3>1, <3>3, <3>4
         DEF Promise!Next, Promise!Succeed, Promise!RollBack, Promise!GiveUp
  <2> QED
    BY <1>2, <2>1, <2>2, <2>3, <2>4
<1> QED
  BY <1>1, <1>2, RestoreInvHolds, PTL DEF StepSpec, AdapterAsFound, Promise!Spec

-----------------------------------------------------------------------------
(* A rollback without an error succeeds. *)

\* The adapters that can be put back with netsh.
OnDhcpOnly == orig.dhcp /\ orig.manual = <<>>
ByHandOnly == ~orig.dhcp /\ orig.manual # <<>>

\* Where the calls of restore() lead: to the servers of before; to DHCP, or to the addresses and
\* gateways of before, unless restore() found these in force beside DHCP and leaves them.
RestoreLeads ==
  at = "tidy" =>
    /\ Leads("dns", nic.dns, calls, orig.dns) /\ Leads("wins", nic.wins, calls, orig.wins)
    /\ orig.dns # <<>> => Leads("dns6", nic.dns6, calls, orig.dns6)
    /\ OnDhcpOnly => /\ nic.dhcp \/ (calls # <<>> /\ Head(calls).do = "dhcp")
                     /\ \A c \in ToSet(calls) : c.do # "primary"
    /\ ByHandOnly =>
         \/ /\ Leads("manual", nic.manual, calls, orig.manual)
            /\ Leads("gateways", nic.gateways, calls, orig.gateways)
            /\ nic.dhcp => calls # <<>> /\ Head(calls).do = "primary"
            /\ \A c \in ToSet(calls) : c.do # "dhcp"
         \/ nic.dhcp /\ nic.manual = orig.manual /\ ToSet(calls) \subseteq ServerCalls

\* Every step keeps RestoreLeads.
LEMMA RestoreLeadsStep ==
  ASSUME StepAssumption, StepTypes, RestoreLeads, StepNext
  PROVE  RestoreLeads'
<1>0. /\ IsAdapter(nic) /\ IsAdapter(orig)
      /\ nic.manual \in Seq(Values) /\ nic.gateways \in Seq(Values)
  BY AdapterFields DEF StepTypes
<1>1. CASE Restore
  <2>1. UNCHANGED <<nic, orig>>
    BY <1>1 DEF Restore
  <2>2. /\ calls' \in Seq(Netshs)
        /\ Leads("dns", nic.dns, calls', orig.dns) /\ Leads("wins", nic.wins, calls', orig.wins)
        /\ orig.dns # <<>> => Leads("dns6", nic.dns6, calls', orig.dns6)
        /\ orig.manual # <<>> =>
              /\ \A c \in ToSet(calls') : c.do # "dhcp"
              /\ \/ /\ calls' # <<>> /\ Head(calls').do = "primary"
                    /\ Leads("manual", nic.manual, calls', orig.manual)
                    /\ Leads("gateways", nic.gateways, calls', ShownGateways(orig))
                 \/ /\ ToSet(calls') \subseteq ServerCalls
                    /\ nic.manual = orig.manual /\ ShownGateways(nic) = ShownGateways(orig)
        /\ orig.manual = <<>> => \A c \in ToSet(calls') : c.do # "primary"
        /\ orig.manual = <<>> /\ orig.dhcp => nic.dhcp \/ (calls' # <<>> /\ Head(calls').do = "dhcp")
    BY <1>1, RestoreCalls
  <2>3. /\ ~orig.dhcp => ShownGateways(orig) = orig.gateways
        /\ ~nic.dhcp => ShownGateways(nic) = nic.gateways
    BY <1>0, ShownIs
  <2>4. ServerCalls \subseteq Besides("manual") /\ ServerCalls \subseteq Besides("gateways")
    BY ServerCallsOf
  <2>5. ASSUME ByHandOnly, ~nic.dhcp, ToSet(calls') \subseteq ServerCalls,
               nic.manual = orig.manual, ShownGateways(nic) = ShownGateways(orig)
        PROVE  /\ Leads("manual", nic.manual, calls', orig.manual)
               /\ Leads("gateways", nic.gateways, calls', orig.gateways)
    <3>1. ToSet(calls') \subseteq Besides("manual") /\ ToSet(calls') \subseteq Besides("gateways")
      BY <2>4, <2>5
    <3>2. Leads("manual", nic.manual, calls', nic.manual)
      BY <1>0, <2>2, <3>1, LeadsQuiet
    <3>3. Leads("gateways", nic.gateways, calls', nic.gateways)
      BY <1>0, <2>2, <3>1, LeadsQuiet
    <3>4. nic.gateways = orig.gateways
      BY <2>3, <2>5 DEF ByHandOnly
    <3> QED
      BY <2>5, <3>2, <3>3, <3>4
  <2>6. OnDhcpOnly => /\ nic.dhcp \/ (calls' # <<>> /\ Head(calls').do = "dhcp")
                      /\ \A c \in ToSet(calls') : c.do # "primary"
    BY <2>2 DEF OnDhcpOnly
  <2>7. ByHandOnly =>
         \/ /\ Leads("manual", nic.manual, calls', orig.manual)
            /\ Leads("gateways", nic.gateways, calls', orig.gateways)
            /\ nic.dhcp => calls' # <<>> /\ Head(calls').do = "primary"
            /\ \A c \in ToSet(calls') : c.do # "dhcp"
         \/ nic.dhcp /\ nic.manual = orig.manual /\ ToSet(calls') \subseteq ServerCalls
    BY <2>2, <2>3, <2>5 DEF ByHandOnly
  <2>8. (OnDhcpOnly' <=> OnDhcpOnly) /\ (ByHandOnly' <=> ByHandOnly)
    BY <2>1 DEF OnDhcpOnly, ByHandOnly
  <2> QED
    BY <2>1, <2>2, <2>6, <2>7, <2>8 DEF RestoreLeads
<1>2. CASE Netsh
  <2> DEFINE c == Head(calls)
  <2>1. UNCHANGED <<orig, at>>
    BY <1>2 DEF Netsh
  <2> SUFFICES ASSUME at = "tidy" PROVE RestoreLeads'
    BY <2>1 DEF RestoreLeads
  <2>2. /\ c \in Netshs /\ ToSet(calls) = {c} \cup ToSet(calls')
        /\ c.do # "dhcp" => /\ nic'.manual = After("manual", nic.manual, c)
                            /\ nic'.gateways = After("gateways", nic.gateways, c)
        /\ c.do = "dhcp" => nic'.dhcp
        /\ c.do = "primary" => ~nic'.dhcp
        /\ c.do \notin {"dhcp", "primary"} => nic'.dhcp = nic.dhcp
        /\ \A t : Leads("dns", nic.dns, calls, t) => Leads("dns", nic'.dns, calls', t)
        /\ \A t : Leads("dns6", nic.dns6, calls, t) => Leads("dns6", nic'.dns6, calls', t)
        /\ \A t : Leads("wins", nic.wins, calls, t) => Leads("wins", nic'.wins, calls', t)
        /\ c.do # "dhcp" =>
              /\ \A t : Leads("manual", nic.manual, calls, t) => Leads("manual", nic'.manual, calls', t)
              /\ \A t : Leads("gateways", nic.gateways, calls, t)
                          => Leads("gateways", nic'.gateways, calls', t)
    BY <1>2, NetshStep
  <2>3. /\ Leads("dns", nic'.dns, calls', orig.dns) /\ Leads("wins", nic'.wins, calls', orig.wins)
        /\ orig.dns # <<>> => Leads("dns6", nic'.dns6, calls', orig.dns6)
    BY <2>2 DEF RestoreLeads
  <2>4. OnDhcpOnly => nic'.dhcp /\ \A d \in ToSet(calls') : d.do # "primary"
    BY <2>2 DEF RestoreLeads
  <2>5. ASSUME ByHandOnly,
               Leads("manual", nic.manual, calls, orig.manual),
               Leads("gateways", nic.gateways, calls, orig.gateways),
               nic.dhcp => calls # <<>> /\ Head(calls).do = "primary",
               \A d \in ToSet(calls) : d.do # "dhcp"
        PROVE  /\ Leads("manual", nic'.manual, calls', orig.manual)
               /\ Leads("gateways", nic'.gateways, calls', orig.gateways)
               /\ ~nic'.dhcp /\ \A d \in ToSet(calls') : d.do # "dhcp"
    BY <2>2, <2>5
  <2>6. ASSUME nic.dhcp, nic.manual = orig.manual, ToSet(calls) \subseteq ServerCalls
        PROVE  nic'.dhcp /\ nic'.manual = orig.manual /\ ToSet(calls') \subseteq ServerCalls
    <3>1. c \in ServerCalls /\ ToSet(calls') \subseteq ServerCalls
      BY <2>2, <2>6
    <3>2. c.do \in {"set", "add"} /\ c \in Besides("manual")
      BY <3>1, ServerCallsOf
    <3>3. After("manual", nic.manual, c) = nic.manual
      BY <1>0, <3>2 DEF Besides
    <3> QED
      BY <2>2, <2>6, <3>1, <3>2, <3>3
  <2>7. (OnDhcpOnly' <=> OnDhcpOnly) /\ (ByHandOnly' <=> ByHandOnly)
    BY <2>1 DEF OnDhcpOnly, ByHandOnly
  <2>8. ByHandOnly =>
         \/ /\ Leads("manual", nic'.manual, calls', orig.manual)
            /\ Leads("gateways", nic'.gateways, calls', orig.gateways)
            /\ ~nic'.dhcp /\ \A d \in ToSet(calls') : d.do # "dhcp"
         \/ nic'.dhcp /\ nic'.manual = orig.manual /\ ToSet(calls') \subseteq ServerCalls
    BY <2>5, <2>6 DEF RestoreLeads
  <2> QED
    BY <2>1, <2>3, <2>4, <2>7, <2>8 DEF RestoreLeads
<1>3. CASE Bind
  BY <1>3, BindStep DEF RestoreLeads, OnDhcpOnly, ByHandOnly
<1>4. CASE Begin \/ Cleanup \/ Done \/ Tidy \/ Verify \/ Fail
  <2>1. at' # "tidy"
    BY <1>4 DEF Begin, Cleanup, Done, Tidy, Verify, Fail
  <2> QED
    BY <2>1 DEF RestoreLeads
<1> QED
  BY <1>1, <1>2, <1>3, <1>4 DEF StepNext

\* What the deletions of the restore leave: every address the step added and still shows is among
\* them, and no address of before; off DHCP there is nothing to delete.
TidyLeads ==
  at = "verify" =>
    /\ nic.dns = orig.dns /\ nic.wins = orig.wins /\ (orig.dns # <<>> => nic.dns6 = orig.dns6)
    /\ ToSet(calls) \subseteq Removals
    /\ OnDhcpOnly =>
         /\ nic.dhcp
         /\ \A x \in ToSet(saved.addresses) \cap ToSet(nic.manual) : Delete("manual", x) \in ToSet(calls)
    /\ ByHandOnly =>
         /\ nic.manual = orig.manual
         /\ \A c \in ToSet(calls) : c.list = "manual" => c.one \notin ToSet(orig.manual)
         /\ nic.dhcp \/ (nic.gateways = orig.gateways /\ calls = <<>>)

\* Every step keeps TidyLeads.
LEMMA TidyLeadsStep ==
  ASSUME StepAssumption, StepTypes, RestoreLeads, TidyLeads, StepNext
  PROVE  TidyLeads'
<1>0. /\ IsAdapter(nic) /\ IsAdapter(orig) /\ nic.manual \in Seq(Values)
      /\ nic.dns \in Seq(Values) /\ nic.dns6 \in Seq(Values) /\ nic.wins \in Seq(Values)
      /\ ToSet(saved.addresses) \cap ToSet(orig.manual) = {}
      /\ ToSet(saved.gateways) \cap ToSet(orig.gateways) = {}
  BY AdapterFields, SavedIs DEF StepTypes
<1>1. CASE Tidy
  <2>1. UNCHANGED <<nic, orig, saved>> /\ at = "tidy" /\ calls = <<>>
    BY <1>1 DEF Tidy
  <2>2. /\ ToSet(calls') \subseteq Removals
        /\ \A c \in ToSet(calls') : c.list = "manual" => c.one \in ToSet(saved.addresses)
        /\ \A x \in ToSet(saved.addresses) \cap ToSet(nic.manual) :
              Delete("manual", x) \in ToSet(calls')
        /\ ToSet(saved.addresses) \cap ShownAddresses(nic) = {}
              /\ ToSet(saved.gateways) \cap ToSet(ShownGateways(nic)) = {} => calls' = <<>>
    BY <1>1, TidyCalls
  <2>3. \A f, v, t : Leads(f, v, calls, t) => v = t
    BY <2>1, LeadsEnd
  <2>4. nic.dns = orig.dns /\ nic.wins = orig.wins /\ (orig.dns # <<>> => nic.dns6 = orig.dns6)
    BY <2>1, <2>3 DEF RestoreLeads
  <2>5. OnDhcpOnly => nic.dhcp
    BY <2>1 DEF RestoreLeads
  <2>6. ByHandOnly =>
          nic.manual = orig.manual /\ (nic.dhcp \/ nic.gateways = orig.gateways)
    BY <2>1, <2>3 DEF RestoreLeads
  <2>7. ~nic.dhcp => ShownGateways(nic) = nic.gateways /\ ShownAddresses(nic) = ToSet(nic.manual)
    BY <1>0, ShownIs
  <2>8. ByHandOnly => nic.dhcp \/ (nic.gateways = orig.gateways /\ calls' = <<>>)
    BY <1>0, <2>2, <2>6, <2>7
  <2>9. (OnDhcpOnly' <=> OnDhcpOnly) /\ (ByHandOnly' <=> ByHandOnly)
    BY <2>1 DEF OnDhcpOnly, ByHandOnly
  <2>10. \A c \in ToSet(calls') : c.list = "manual" => c.one \notin ToSet(orig.manual)
    BY <1>0, <2>2
  <2> QED
    BY <2>1, <2>2, <2>4, <2>5, <2>6, <2>8, <2>9, <2>10 DEF TidyLeads
<1>2. CASE Netsh
  <2> DEFINE c == Head(calls)
  <2>1. UNCHANGED <<orig, saved, at>> /\ calls # <<>>
    BY <1>2 DEF Netsh
  <2> SUFFICES ASSUME at = "verify" PROVE TidyLeads'
    BY <2>1 DEF TidyLeads
  <2>2. /\ c \in Netshs /\ ToSet(calls) = {c} \cup ToSet(calls')
        /\ nic'.dns = After("dns", nic.dns, c) /\ nic'.dns6 = After("dns6", nic.dns6, c)
        /\ nic'.wins = After("wins", nic.wins, c)
        /\ c.do # "dhcp" => nic'.manual = After("manual", nic.manual, c)
        /\ c.do \notin {"dhcp", "primary"} => nic'.dhcp = nic.dhcp
    BY <1>2, NetshStep
  <2> HIDE DEF c
  <2>3. c \in Removals /\ ToSet(calls') \subseteq Removals
    BY <2>2 DEF TidyLeads
  <2>4. c.do = "delete" /\ c.list \in {"manual", "gateways"}
    BY <2>3, RemovalsAre
  <2>5. nic'.dns = nic.dns /\ nic'.dns6 = nic.dns6 /\ nic'.wins = nic.wins
    <3>1. c \in Besides("dns") /\ c \in Besides("dns6") /\ c \in Besides("wins")
      BY <2>3, RemovalsAre, ServerNames
    <3> QED
      BY <1>0, <2>2, <3>1 DEF Besides
  <2>6. nic'.dhcp = nic.dhcp /\ nic'.manual = After("manual", nic.manual, c)
    BY <2>2, <2>4
  <2>7. /\ c.list = "manual" => ToSet(nic'.manual) = ToSet(nic.manual) \ {c.one}
        /\ c.list = "manual" /\ c.one \notin ToSet(nic.manual) => nic'.manual = nic.manual
        /\ c.list # "manual" => nic'.manual = nic.manual
    BY <1>0, <2>2, <2>4, <2>6, AfterElements, ServerNames
  <2>8. ASSUME OnDhcpOnly, NEW x \in ToSet(saved.addresses) \cap ToSet(nic'.manual)
        PROVE  Delete("manual", x) \in ToSet(calls')
    <3>1. x \in ToSet(nic.manual)
      BY <2>7, <2>8
    <3>2. Delete("manual", x) \in ToSet(calls)
      BY <2>8, <3>1 DEF TidyLeads
    <3>3. c # Delete("manual", x)
      <4>1. Delete("manual", x).list = "manual" /\ Delete("manual", x).one = x
        BY DEF Delete
      <4> QED
        BY <2>7, <2>8, <4>1
    <3> QED
      BY <2>2, <3>2, <3>3
  <2>9. OnDhcpOnly => nic'.dhcp
    BY <2>6 DEF TidyLeads
  <2>10. ASSUME ByHandOnly
         PROVE  /\ nic'.manual = orig.manual /\ nic'.dhcp
                /\ \A d \in ToSet(calls') : d.list = "manual" => d.one \notin ToSet(orig.manual)
    BY <2>1, <2>2, <2>6, <2>7, <2>10 DEF TidyLeads
  <2>11. (OnDhcpOnly' <=> OnDhcpOnly) /\ (ByHandOnly' <=> ByHandOnly)
    BY <2>1 DEF OnDhcpOnly, ByHandOnly
  <2>12. nic'.dns = orig.dns /\ nic'.wins = orig.wins /\ (orig.dns # <<>> => nic'.dns6 = orig.dns6)
    BY <2>5 DEF TidyLeads
  <2> QED
    BY <2>1, <2>3, <2>8, <2>9, <2>10, <2>11, <2>12 DEF TidyLeads
<1>3. CASE Bind
  BY <1>3, BindStep DEF TidyLeads, OnDhcpOnly, ByHandOnly
<1>4. CASE Begin \/ Cleanup \/ Done \/ Restore \/ Verify \/ Fail
  <2>1. at' # "verify"
    BY <1>4 DEF Begin, Cleanup, Done, Restore, Verify, Fail
  <2> QED
    BY <2>1 DEF TidyLeads
<1> QED
  BY <1>1, <1>2, <1>3, <1>4 DEF StepNext

\* verify_restored accepts what the restore left.
LEMMA RestoredIsVerified ==
  ASSUME StepAssumption, StepTypes, TidyLeads, at = "verify", calls = <<>>,
         ~Mixed, ~LeaseGivesWanted, ~ModeOverlooked
  PROVE  Verified(Capture(nic), saved.shown)
<1> DEFINE now == Capture(nic)
           s == saved.shown
<1>1. /\ s.dhcp = orig.dhcp /\ s.manual = orig.manual /\ s.gateways = ShownGateways(orig)
      /\ s.dns = ShownDns(orig) /\ s.dnsFromDhcp = (orig.dns = <<>>)
      /\ s.wins = ShownWins(orig) /\ s.winsFromDhcp = (orig.wins = <<>>)
      /\ saved.addresses \in Seq(Values) /\ (want.mode = "dhcp" => saved.addresses = <<>>)
  BY SavedIs
<1>2. /\ now.dhcp = nic.dhcp /\ now.manual = nic.manual /\ now.gateways = ShownGateways(nic)
      /\ now.dns = ShownDns(nic) /\ now.dnsFromDhcp = (nic.dns = <<>>)
      /\ now.wins = ShownWins(nic) /\ now.winsFromDhcp = (nic.wins = <<>>)
  BY DEF Capture
<1> HIDE DEF now, s
<1>3. /\ IsAdapter(nic) /\ IsAdapter(orig) /\ orig.dhcp \in BOOLEAN
      /\ want.mode \in {"dhcp", "static"}
  BY AdapterFields, WantedFields DEF StepTypes
<1>4. nic.dns = orig.dns /\ nic.wins = orig.wins /\ (orig.dns # <<>> => nic.dns6 = orig.dns6)
  BY DEF TidyLeads
<1>5. OnDhcpOnly \/ ByHandOnly
  BY <1>3 DEF Mixed, OnDhcpOnly, ByHandOnly
<1>6. /\ nic.dns # <<>> => ShownDns(nic) = nic.dns \o nic.dns6
      /\ nic.wins # <<>> => ShownWins(nic) = nic.wins
      /\ orig.dns # <<>> => ShownDns(orig) = orig.dns \o orig.dns6
      /\ orig.wins # <<>> => ShownWins(orig) = orig.wins
      /\ ShownAddresses(nic) \subseteq ToSet(nic.manual) \cup {Lease.address}
      /\ ~nic.dhcp => ShownGateways(nic) = nic.gateways
      /\ ~orig.dhcp => ShownGateways(orig) = orig.gateways
  BY <1>3, ShownIs
<1>7. now.dnsFromDhcp = s.dnsFromDhcp /\ (s.dnsFromDhcp \/ now.dns = s.dns)
  BY <1>1, <1>2, <1>4, <1>6
<1>8. now.winsFromDhcp = s.winsFromDhcp /\ (s.winsFromDhcp \/ now.wins = s.wins)
  BY <1>1, <1>2, <1>4, <1>6
<1>9. /\ now.dhcp = s.dhcp
      /\ IF s.manual = <<>> THEN Among(saved.addresses, ShownAddresses(nic)) = <<>>
                            ELSE now.manual = s.manual /\ now.gateways = s.gateways
  <2>1. CASE OnDhcpOnly
    <3>1. ToSet(saved.addresses) \cap ToSet(nic.manual) = {}
      BY <2>1, NoElement DEF TidyLeads
    <3>2. Lease.address \notin ToSet(saved.addresses)
      BY <1>1, <1>3, NoElement DEF LeaseGivesWanted
    <3>3. Among(saved.addresses, ShownAddresses(nic)) = <<>>
      BY <1>1, <1>6, <3>1, <3>2, AmongOf
    <3>4. nic.dhcp /\ orig.dhcp /\ nic.dhcp \in BOOLEAN
      BY <1>3, <2>1, AdapterFields DEF TidyLeads, OnDhcpOnly
    <3> QED
      BY <1>1, <1>2, <1>3, <2>1, <3>3, <3>4 DEF OnDhcpOnly
  <2>2. CASE ByHandOnly
    <3>1. nic.manual = orig.manual /\ orig.manual # <<>> /\ ~orig.dhcp
      BY <2>2 DEF TidyLeads, ByHandOnly
    <3>2. ~nic.dhcp /\ nic.dhcp \in BOOLEAN
      BY <1>3, <3>1, AdapterFields DEF ModeOverlooked
    <3>3. nic.gateways = orig.gateways
      BY <2>2, <3>2 DEF TidyLeads
    <3> QED
      BY <1>1, <1>2, <1>3, <1>6, <3>1, <3>2, <3>3
  <2> QED
    BY <1>5, <2>1, <2>2
<1> QED
  BY <1>7, <1>8, <1>9 DEF Verified, now, s

RollbackInv == StepTypes /\ RestoreLeads /\ TidyLeads /\ RollbackSucceeds

\* A rollback fails by an error or in one of the exceptions.
LEMMA RollbackStep ==
  ASSUME StepAssumption, RollbackInv, StepNext
  PROVE  RollbackSucceeds'
<1>0. StepTypes /\ TidyLeads /\ RollbackSucceeds
  BY DEF RollbackInv
<1>1. CASE outcome # "none"
  <2>1. Bind
    BY <1>0, <1>1, AfterTheAnswer
  <2>2. /\ nic.dhcp /\ nic'.dhcp /\ nic'.manual = nic.manual
        /\ UNCHANGED <<orig, want, saved, changed, trouble, outcome>>
    BY <1>0, <2>1, BindStep
  <2> QED
    BY <1>0, <2>2 DEF RollbackSucceeds, Mixed, LeaseGivesWanted, ModeOverlooked
<1>2. CASE outcome = "none" /\ outcome' = "failed"
  <2>1. Done \/ Verify \/ Fail
    BY <1>2 DEF StepNext, Begin, Cleanup, Done, Restore, Tidy, Verify, Netsh, Fail, Bind
  <2>2. CASE Done
    <3>1. ~changed /\ changed' = changed
      BY <1>2, <2>2 DEF Done
    <3> QED
      BY <3>1 DEF RollbackSucceeds
  <2>3. CASE Fail
    <3>1. trouble'
      BY <1>2, <2>3 DEF Fail
    <3> QED
      BY <3>1 DEF RollbackSucceeds
  <2>4. CASE Verify
    <3>1. /\ at = "verify" /\ calls = <<>> /\ ~Verified(Capture(nic), saved.shown)
          /\ UNCHANGED <<nic, orig, want, saved, changed, trouble>>
      BY <1>2, <2>4 DEF Verify
    <3>2. Mixed \/ LeaseGivesWanted \/ ModeOverlooked
      BY <1>0, <3>1, RestoredIsVerified
    <3> QED
      BY <3>1, <3>2 DEF RollbackSucceeds, Mixed, LeaseGivesWanted, ModeOverlooked
  <2> QED
    BY <2>1, <2>2, <2>3, <2>4
<1>3. CASE outcome = "none" /\ outcome' # "failed"
  BY <1>3 DEF RollbackSucceeds
<1> QED
  BY <1>1, <1>2, <1>3

\* A rollback without an error of a call succeeds, except for an adapter that has both DHCP and
\* addresses by hand or neither, a lease that gives an address of the step, and addresses by hand
\* that survived the change to DHCP (NetworkRestore::restore, verify_restored).
THEOREM RollbackSucceedsHolds == StepSpec => []RollbackSucceeds
<1>1. StepInit => RollbackInv
  <2> SUFFICES ASSUME StepInit PROVE RollbackInv
    OBVIOUS
  <2>1. StepTypes
    BY StepAssumption, InitStepTypes
  <2>2. at = "apply" /\ outcome = "none"
    BY DEF StepInit
  <2> QED
    BY <2>1, <2>2 DEF RollbackInv, RestoreLeads, TidyLeads, RollbackSucceeds
<1>2. RollbackInv /\ [StepNext]_stepVars => RollbackInv'
  <2>1. ASSUME RollbackInv, StepNext PROVE RollbackInv'
    BY <2>1, StepAssumption, TypesStep, RestoreLeadsStep, TidyLeadsStep, RollbackStep DEF RollbackInv
  <2>2. ASSUME RollbackInv, UNCHANGED stepVars PROVE RollbackInv'
    BY <2>2 DEF stepVars, RollbackInv, StepTypes, RestoreLeads, TidyLeads, OnDhcpOnly, ByHandOnly,
       RollbackSucceeds, Mixed, LeaseGivesWanted, ModeOverlooked
  <2> QED
    BY <2>1, <2>2
<1>3. RollbackInv => RollbackSucceeds
  BY DEF RollbackInv
<1> QED
  BY <1>1, <1>2, <1>3, PTL DEF StepSpec

-----------------------------------------------------------------------------
(* Success means what the document asks. *)

\* Nothing has been done to the settings of the adapter.
Untouched ==
  /\ nic.dhcp = orig.dhcp /\ nic.manual = orig.manual /\ nic.gateways = orig.gateways
  /\ nic.dns = orig.dns /\ nic.dns6 = orig.dns6 /\ nic.wins = orig.wins

BeforeTheStep == at = "apply" => Untouched

\* The calls for static addresses lead to what was asked; without a call it was there before.
StaticLeads ==
  at = "end" /\ want.mode = "static" =>
    \/ calls = <<>> /\ ~changed /\ Matches(saved.shown, want) /\ Untouched
    \/ /\ Leads("manual", nic.manual, calls, want.addresses)
       /\ Leads("gateways", nic.gateways, calls, want.gateways)
       /\ Leads("dns", nic.dns, calls, OfIpv4(want.dns))
       /\ Leads("dns6", nic.dns6, calls, OfIpv6(want.dns))
       /\ Leads("wins", nic.wins, calls, want.wins)
       /\ nic.dhcp => calls # <<>> /\ Head(calls).do = "primary"
       /\ \A c \in ToSet(calls) : c.do # "dhcp"

\* Before the cleanup the adapter is on DHCP or about to be, its servers are those of before and
\* the addresses by hand at most those of before.
DhcpLeads ==
  at = "cleanup" =>
    /\ nic.dns = orig.dns /\ nic.wins = orig.wins
    /\ ToSet(nic.manual) \subseteq ToSet(orig.manual)
    /\ \A c \in ToSet(calls) : c.do = "dhcp"
    /\ nic.dhcp \/ calls # <<>>

\* The cleanup deletes every address by hand, and the servers by hand if that was asked.
CleanupLeads ==
  at = "end" /\ want.mode = "dhcp" =>
    /\ nic.dhcp
    /\ ToSet(calls) \subseteq Removals \cup ServerCalls
    /\ \A x \in ToSet(nic.manual) : Delete("manual", x) \in ToSet(calls)
    /\ want.dns => Leads("dns", nic.dns, calls, <<>>) /\ Leads("wins", nic.wins, calls, <<>>)

\* Before its first call the step has done nothing.
LEMMA BeforeTheStepStep ==
  ASSUME StepAssumption, StepTypes, BeforeTheStep, StepNext
  PROVE  BeforeTheStep'
<1>1. CASE Bind
  BY <1>1, BindStep DEF BeforeTheStep, Untouched
<1>2. CASE Netsh
  <2>1. at # "apply" /\ at' = at
    BY <1>2 DEF Netsh, StepTypes
  <2> QED
    BY <2>1 DEF BeforeTheStep
<1>3. CASE Begin \/ Cleanup \/ Done \/ Restore \/ Tidy \/ Verify \/ Fail
  <2>1. at' # "apply"
    BY <1>3 DEF Begin, Cleanup, Done, Restore, Tidy, Verify, Fail
  <2> QED
    BY <2>1 DEF BeforeTheStep
<1> QED
  BY <1>1, <1>2, <1>3 DEF StepNext

\* Every step keeps StaticLeads.
LEMMA StaticLeadsStep ==
  ASSUME StepAssumption, StepTypes, BeforeTheStep, StaticLeads, StepNext
  PROVE  StaticLeads'
<1>0. /\ IsAdapter(nic) /\ IsWanted(want)
      /\ nic.manual \in Seq(Values) /\ nic.gateways \in Seq(Values)
      /\ nic.dns \in Seq(Values) /\ nic.dns6 \in Seq(Values) /\ nic.wins \in Seq(Values)
  BY AdapterFields DEF StepTypes
<1>1. CASE Begin
  <2>1. UNCHANGED <<nic, orig, want, saved>> /\ at = "apply"
    BY <1>1 DEF Begin
  <2> SUFFICES ASSUME want.mode = "static" PROVE StaticLeads'
    BY <2>1 DEF StaticLeads
  <2>2. Untouched'
    BY <2>1 DEF BeforeTheStep, Untouched
  <2>3. CASE calls' = <<>> /\ changed' = FALSE /\ Matches(saved.shown, want)
    BY <2>1, <2>2, <2>3 DEF StaticLeads
  <2>4. CASE calls' = StaticCalls(want)
    <3>1. /\ calls' # <<>> /\ Head(calls').do = "primary"
          /\ ToSet(calls') \subseteq PrimaryCalls \cup ListCalls("manual") \cup ListCalls("gateways")
                                       \cup ServerCalls
          /\ \A v \in Seq(Values) :
               /\ Leads("manual", v, calls', want.addresses)
               /\ Leads("gateways", v, calls', want.gateways)
               /\ Leads("dns", v, calls', OfIpv4(want.dns))
               /\ Leads("dns6", v, calls', OfIpv6(want.dns))
               /\ Leads("wins", v, calls', want.wins)
      BY <1>0, <2>4, StaticCallsOf
    <3>2. \A c \in PrimaryCalls : c.do = "primary"
      BY DEF PrimaryCalls
    <3>3. \A f \in {"manual", "gateways"} : \A c \in ListCalls(f) : c.do \in {"set", "add"}
      BY ServerNames, OtherLists
    <3>4. \A c \in ToSet(calls') : c.do # "dhcp"
      BY <3>1, <3>2, <3>3, ServerCallsOf
    <3>5. /\ Leads("manual", nic.manual, calls', want.addresses)
          /\ Leads("gateways", nic.gateways, calls', want.gateways)
          /\ Leads("dns", nic.dns, calls', OfIpv4(want.dns))
          /\ Leads("dns6", nic.dns6, calls', OfIpv6(want.dns))
          /\ Leads("wins", nic.wins, calls', want.wins)
      BY <1>0, <3>1
    <3> QED
      BY <2>1, <3>1, <3>4, <3>5 DEF StaticLeads
  <2> QED
    BY <1>1, <2>3, <2>4, BeginCalls
<1>2. CASE Netsh
  <2> DEFINE c == Head(calls)
  <2>1. UNCHANGED <<orig, want, at>> /\ calls # <<>>
    BY <1>2 DEF Netsh
  <2> SUFFICES ASSUME at = "end", want.mode = "static" PROVE StaticLeads'
    BY <2>1 DEF StaticLeads
  <2>2. /\ c \in Netshs /\ ToSet(calls) = {c} \cup ToSet(calls')
        /\ c.do = "primary" => ~nic'.dhcp
        /\ c.do \notin {"dhcp", "primary"} => nic'.dhcp = nic.dhcp
        /\ \A t : Leads("dns", nic.dns, calls, t) => Leads("dns", nic'.dns, calls', t)
        /\ \A t : Leads("dns6", nic.dns6, calls, t) => Leads("dns6", nic'.dns6, calls', t)
        /\ \A t : Leads("wins", nic.wins, calls, t) => Leads("wins", nic'.wins, calls', t)
        /\ c.do # "dhcp" =>
              /\ \A t : Leads("manual", nic.manual, calls, t) => Leads("manual", nic'.manual, calls', t)
              /\ \A t : Leads("gateways", nic.gateways, calls, t)
                          => Leads("gateways", nic'.gateways, calls', t)
    BY <1>2, NetshStep
  <2>3. /\ Leads("manual", nic.manual, calls, want.addresses)
        /\ Leads("gateways", nic.gateways, calls, want.gateways)
        /\ Leads("dns", nic.dns, calls, OfIpv4(want.dns))
        /\ Leads("dns6", nic.dns6, calls, OfIpv6(want.dns))
        /\ Leads("wins", nic.wins, calls, want.wins)
        /\ nic.dhcp => c.do = "primary"
        /\ \A d \in ToSet(calls) : d.do # "dhcp"
    BY <2>1 DEF StaticLeads
  <2> HIDE DEF c
  <2>4. c.do # "dhcp" /\ ~nic'.dhcp /\ \A d \in ToSet(calls') : d.do # "dhcp"
    BY <2>2, <2>3
  <2>5. /\ Leads("manual", nic'.manual, calls', want.addresses)
        /\ Leads("gateways", nic'.gateways, calls', want.gateways)
        /\ Leads("dns", nic'.dns, calls', OfIpv4(want.dns))
        /\ Leads("dns6", nic'.dns6, calls', OfIpv6(want.dns))
        /\ Leads("wins", nic'.wins, calls', want.wins)
    BY <2>2, <2>3, <2>4
  <2> QED
    BY <2>1, <2>4, <2>5 DEF StaticLeads
<1>3. CASE Bind
  BY <1>3, BindStep DEF StaticLeads, Untouched
<1>4. CASE Cleanup
  <2>1. want' = want /\ want.mode = "dhcp"
    BY <1>4 DEF Cleanup, StepTypes
  <2> QED
    BY <2>1 DEF StaticLeads
<1>5. CASE Done \/ Restore \/ Tidy \/ Verify \/ Fail
  <2>1. at' # "end"
    BY <1>5 DEF Done, Restore, Tidy, Verify, Fail
  <2> QED
    BY <2>1 DEF StaticLeads
<1> QED
  BY <1>1, <1>2, <1>3, <1>4, <1>5 DEF StepNext

\* Every step keeps DhcpLeads.
LEMMA DhcpLeadsStep ==
  ASSUME StepAssumption, StepTypes, BeforeTheStep, DhcpLeads, StepNext
  PROVE  DhcpLeads'
<1>0. /\ IsAdapter(nic) /\ nic.manual \in Seq(Values)
      /\ nic.dns \in Seq(Values) /\ nic.wins \in Seq(Values)
  BY AdapterFields DEF StepTypes
<1>1. CASE Begin
  <2>1. UNCHANGED <<nic, orig, want, saved>> /\ at = "apply"
    BY <1>1 DEF Begin
  <2>2. Untouched
    BY <2>1 DEF BeforeTheStep
  <2>3. at' = "cleanup" =>
          \/ calls' = <<>> /\ orig.dhcp
          \/ calls' = SourceDhcp
    BY <1>1, BeginCalls
  <2>4. at' = "cleanup" => /\ \A c \in ToSet(calls') : c.do = "dhcp"
                           /\ nic.dhcp \/ calls' # <<>>
    BY <2>2, <2>3, NoElement, SourceDhcpIs DEF Untouched
  <2> QED
    BY <2>1, <2>2, <2>4 DEF DhcpLeads, Untouched
<1>2. CASE Netsh
  <2> DEFINE c == Head(calls)
  <2>1. UNCHANGED <<orig, at>>
    BY <1>2 DEF Netsh
  <2> SUFFICES ASSUME at = "cleanup" PROVE DhcpLeads'
    BY <2>1 DEF DhcpLeads
  <2>2. /\ c \in Netshs /\ ToSet(calls) = {c} \cup ToSet(calls')
        /\ nic'.dns = After("dns", nic.dns, c) /\ nic'.wins = After("wins", nic.wins, c)
        /\ c.do = "dhcp" => nic'.dhcp /\ nic'.manual \in {<<>>, nic.manual}
    BY <1>2, NetshStep
  <2> HIDE DEF c
  <2>3. c.do = "dhcp" /\ \A d \in ToSet(calls') : d.do = "dhcp"
    BY <2>2 DEF DhcpLeads
  <2>4. nic'.dns = nic.dns /\ nic'.wins = nic.wins
    BY <1>0, <2>2, <2>3, AfterElements, ServerNames
  <2>5. ToSet(nic'.manual) \subseteq ToSet(nic.manual)
    BY <2>2, <2>3, NoElement
  <2> QED
    BY <2>1, <2>2, <2>3, <2>4, <2>5 DEF DhcpLeads
<1>3. CASE Bind
  BY <1>3, BindStep DEF DhcpLeads
<1>4. CASE Cleanup \/ Done \/ Restore \/ Tidy \/ Verify \/ Fail
  <2>1. at' # "cleanup"
    BY <1>4 DEF Cleanup, Done, Restore, Tidy, Verify, Fail
  <2> QED
    BY <2>1 DEF DhcpLeads
<1> QED
  BY <1>1, <1>2, <1>3, <1>4 DEF StepNext

\* Every step keeps CleanupLeads.
LEMMA CleanupLeadsStep ==
  ASSUME StepAssumption, StepTypes, DhcpLeads, CleanupLeads, StepNext
  PROVE  CleanupLeads'
<1>0. /\ IsAdapter(nic) /\ nic.manual \in Seq(Values)
      /\ nic.dns \in Seq(Values) /\ nic.wins \in Seq(Values)
  BY AdapterFields DEF StepTypes
<1>1. CASE Cleanup
  <2>1. /\ UNCHANGED <<nic, orig, want, saved>> /\ at = "cleanup" /\ calls = <<>>
    BY <1>1 DEF Cleanup
  <2>2. /\ ToSet(calls') \subseteq Removals \cup ServerCalls
        /\ \A x \in ToSet(orig.manual) \cap ToSet(nic.manual) : Delete("manual", x) \in ToSet(calls')
        /\ \A v \in Seq(Values) :
              /\ Leads("dns", v, calls', IF want.dns /\ orig.dns # <<>> THEN <<>> ELSE v)
              /\ Leads("wins", v, calls', IF want.dns /\ orig.wins # <<>> THEN <<>> ELSE v)
    BY <1>1, CleanupCalls
  <2>3. /\ nic.dns = orig.dns /\ nic.wins = orig.wins /\ nic.dhcp
        /\ ToSet(nic.manual) \subseteq ToSet(orig.manual)
    BY <2>1 DEF DhcpLeads
  <2>4. ASSUME want.dns
        PROVE  Leads("dns", nic.dns, calls', <<>>) /\ Leads("wins", nic.wins, calls', <<>>)
    <3>1. (IF want.dns /\ orig.dns # <<>> THEN <<>> ELSE nic.dns) = <<>>
      BY <2>3, <2>4
    <3>2. (IF want.dns /\ orig.wins # <<>> THEN <<>> ELSE nic.wins) = <<>>
      BY <2>3, <2>4
    <3>3. Leads("dns", nic.dns, calls', IF want.dns /\ orig.dns # <<>> THEN <<>> ELSE nic.dns)
      BY <1>0, <2>2
    <3>4. Leads("wins", nic.wins, calls', IF want.dns /\ orig.wins # <<>> THEN <<>> ELSE nic.wins)
      BY <1>0, <2>2
    <3> QED
      BY <3>1, <3>2, <3>3, <3>4
  <2> QED
    BY <2>1, <2>2, <2>3, <2>4 DEF CleanupLeads
<1>2. CASE Netsh
  <2> DEFINE c == Head(calls)
  <2>1. UNCHANGED <<orig, want, at>>
    BY <1>2 DEF Netsh
  <2> SUFFICES ASSUME at = "end", want.mode = "dhcp" PROVE CleanupLeads'
    BY <2>1 DEF CleanupLeads
  <2>2. /\ c \in Netshs /\ ToSet(calls) = {c} \cup ToSet(calls')
        /\ c.do # "dhcp" => nic'.manual = After("manual", nic.manual, c)
        /\ c.do \notin {"dhcp", "primary"} => nic'.dhcp = nic.dhcp
        /\ \A t : Leads("dns", nic.dns, calls, t) => Leads("dns", nic'.dns, calls', t)
        /\ \A t : Leads("wins", nic.wins, calls, t) => Leads("wins", nic'.wins, calls', t)
    BY <1>2, NetshStep
  <2> HIDE DEF c
  <2>3. c \in Removals \cup ServerCalls /\ ToSet(calls') \subseteq Removals \cup ServerCalls
    BY <2>2 DEF CleanupLeads
  <2>4. c.do \in {"delete", "set", "add"}
    BY <2>3, RemovalsAre, ServerCallsOf
  <2>5. nic'.dhcp
    BY <2>2, <2>4 DEF CleanupLeads
  <2>6. ASSUME NEW x \in ToSet(nic'.manual) PROVE Delete("manual", x) \in ToSet(calls')
    <3>1. CASE c \in ServerCalls
      <4>1. nic'.manual = nic.manual
        BY <1>0, <2>2, <2>4, <3>1, ServerCallsOf DEF Besides
      <4>2. c # Delete("manual", x)
        BY <3>1, ServerCallsOf DEF Delete
      <4> QED
        BY <2>2, <4>1, <4>2 DEF CleanupLeads
    <3>2. CASE c \in Removals
      <4>1. c.do = "delete"
        BY <3>2, RemovalsAre
      <4>2. /\ c.list = "manual" => ToSet(nic'.manual) = ToSet(nic.manual) \ {c.one}
            /\ c.list # "manual" => nic'.manual = nic.manual
        BY <1>0, <2>2, <4>1, AfterElements, ServerNames
      <4>3. x \in ToSet(nic.manual) /\ (c.list = "manual" => x # c.one)
        BY <4>2
      <4>4. Delete("manual", x).list = "manual" /\ Delete("manual", x).one = x
        BY DEF Delete
      <4>5. c # Delete("manual", x)
        BY <4>3, <4>4
      <4> QED
        BY <2>2, <4>3, <4>5 DEF CleanupLeads
    <3> QED
      BY <2>3, <3>1, <3>2
  <2>7. want.dns => Leads("dns", nic'.dns, calls', <<>>) /\ Leads("wins", nic'.wins, calls', <<>>)
    BY <2>2 DEF CleanupLeads
  <2> QED
    BY <2>1, <2>3, <2>5, <2>6, <2>7 DEF CleanupLeads
<1>3. CASE Bind
  BY <1>3, BindStep DEF CleanupLeads
<1>4. CASE Begin
  <2>1. at' = "end" => want'.mode = "static"
    BY <1>4 DEF Begin
  <2> QED
    BY <2>1 DEF CleanupLeads
<1>5. CASE Done \/ Restore \/ Tidy \/ Verify \/ Fail
  <2>1. at' # "end"
    BY <1>5 DEF Done, Restore, Tidy, Verify, Fail
  <2> QED
    BY <2>1 DEF CleanupLeads
<1> QED
  BY <1>1, <1>2, <1>3, <1>4, <1>5 DEF StepNext

\* What static_network_matches accepts, off DHCP, is what was asked.
LEMMA MatchedIsAsAsked ==
  ASSUME StepAssumption, StepTypes, Matches(saved.shown, want), Untouched,
         want.mode = "static", ~orig.dhcp
  PROVE  /\ ~nic.dhcp /\ nic.manual = want.addresses /\ ShownGateways(nic) = want.gateways
         /\ nic.dns = OfIpv4(want.dns) /\ nic.dns6 = OfIpv6(want.dns)
         /\ ShownWins(nic) = want.wins
<1>1. /\ ~saved.shown.dnsFromDhcp /\ ~saved.shown.winsFromDhcp
      /\ saved.shown.manual = want.addresses /\ saved.shown.gateways = want.gateways
      /\ saved.shown.dns = want.dns /\ saved.shown.wins = want.wins
  BY DEF Matches
<1>2. /\ orig.manual = want.addresses /\ ShownGateways(orig) = want.gateways
      /\ ShownDns(orig) = want.dns /\ ShownWins(orig) = want.wins
      /\ orig.dns # <<>> /\ orig.wins # <<>>
  BY <1>1, SavedIs
<1>3. /\ IsAdapter(nic) /\ IsAdapter(orig)
      /\ orig.dns \in Seq(Values) /\ orig.dns6 \in Seq(Values)
      /\ ToSet(orig.dns) \cap Servers6 = {} /\ ToSet(orig.dns6) \subseteq Servers6
  BY AdapterFields DEF StepTypes
<1>4. ~nic.dhcp
  BY DEF Untouched
<1>5. /\ ShownGateways(nic) = nic.gateways /\ ShownGateways(orig) = orig.gateways
      /\ ShownWins(nic) = nic.wins /\ ShownWins(orig) = orig.wins
      /\ ShownDns(orig) = orig.dns \o orig.dns6
  BY <1>2, <1>3, <1>4, ShownIs
<1>6. OfIpv4(want.dns) = orig.dns /\ OfIpv6(want.dns) = orig.dns6
  BY <1>2, <1>3, <1>5, FamiliesSplit
<1> QED
  BY <1>2, <1>4, <1>5, <1>6 DEF Untouched

StepInv ==
  StepTypes /\ BeforeTheStep /\ StaticLeads /\ DhcpLeads /\ CleanupLeads /\ AppliedIsAsAsked

\* The step is done only when it has done what was asked.
LEMMA AppliedStep ==
  ASSUME StepAssumption, StepInv, StepNext
  PROVE  AppliedIsAsAsked'
<1>0. StepTypes /\ StaticLeads /\ CleanupLeads /\ AppliedIsAsAsked /\ IsAdapter(nic) /\ IsWanted(want)
  BY DEF StepInv, StepTypes
<1>a. want.mode \in {"dhcp", "static"} /\ orig.dhcp \in BOOLEAN
  BY <1>0, WantedFields, AdapterFields DEF StepTypes
<1>1. CASE outcome # "none"
  <2>1. Bind
    BY <1>0, <1>1, AfterTheAnswer
  <2>2. /\ nic.dhcp /\ nic'.dhcp /\ nic'.manual = nic.manual
        /\ nic'.dns = nic.dns /\ nic'.wins = nic.wins
        /\ UNCHANGED <<orig, want, changed, outcome>>
    BY <1>0, <2>1, BindStep
  <2>3. CASE outcome = "succeeded" /\ want.mode = "static"
    <3>1. Mixed /\ ~changed
      BY <1>0, <2>2, <2>3 DEF AppliedIsAsAsked
    <3> QED
      BY <2>2, <2>3, <3>1 DEF AppliedIsAsAsked, Mixed
  <2>4. CASE outcome = "succeeded" /\ want.mode # "static"
    <3>1. nic.manual = <<>> /\ (want.dns => nic.dns = <<>> /\ nic.wins = <<>>)
      BY <1>0, <2>4 DEF AppliedIsAsAsked
    <3> QED
      BY <2>2, <2>4, <3>1 DEF AppliedIsAsAsked
  <2>5. CASE outcome # "succeeded"
    BY <2>2, <2>5 DEF AppliedIsAsAsked
  <2> QED
    BY <2>3, <2>4, <2>5
<1>2. CASE outcome = "none" /\ outcome' = "succeeded"
  <2>1. Done
    BY <1>2 DEF StepNext, Begin, Cleanup, Done, Restore, Tidy, Verify, Netsh, Fail, Bind
  <2>2. at = "end" /\ calls = <<>> /\ UNCHANGED <<nic, orig, want, changed>>
    BY <2>1 DEF Done
  <2>3. \A f, v, t : Leads(f, v, calls, t) => v = t
    BY <2>2, LeadsEnd
  <2>4. CASE want.mode = "static"
    <3> DEFINE Asked == /\ ~nic.dhcp /\ nic.manual = want.addresses
                        /\ ShownGateways(nic) = want.gateways
                        /\ nic.dns = OfIpv4(want.dns) /\ nic.dns6 = OfIpv6(want.dns)
                        /\ ShownWins(nic) = want.wins
    <3>1. ASSUME ~changed, Matches(saved.shown, want), Untouched
          PROVE  Asked \/ (Mixed /\ ~changed)
      <4>1. ASSUME ~orig.dhcp PROVE Asked
        BY <1>0, <2>4, <3>1, <4>1, MatchedIsAsAsked
      <4>2. ASSUME orig.dhcp PROVE Mixed /\ ~changed
        <5>1. orig.manual = want.addresses
          BY <1>0, <3>1, SavedIs DEF Matches
        <5>2. want.addresses # <<>>
          BY <1>0, <2>4, WantedFields
        <5>3. Mixed
          BY <1>a, <4>2, <5>1, <5>2 DEF Mixed
        <5> QED
          BY <3>1, <5>3
      <4> QED
        BY <4>1, <4>2
    <3>2. ASSUME Leads("manual", nic.manual, calls, want.addresses),
                 Leads("gateways", nic.gateways, calls, want.gateways),
                 Leads("dns", nic.dns, calls, OfIpv4(want.dns)),
                 Leads("dns6", nic.dns6, calls, OfIpv6(want.dns)),
                 Leads("wins", nic.wins, calls, want.wins),
                 ~nic.dhcp
          PROVE  Asked
      <4>1. ShownGateways(nic) = nic.gateways /\ ShownWins(nic) = nic.wins
        BY <1>0, <3>2, ShownIs
      <4> QED
        BY <2>3, <3>2, <4>1
    <3>3. Asked \/ (Mixed /\ ~changed)
      BY <1>0, <2>2, <2>4, <3>1, <3>2 DEF StaticLeads
    <3> QED
      BY <2>2, <2>4, <3>3 DEF AppliedIsAsAsked, Mixed
  <2>5. CASE want.mode # "static"
    <3>1. /\ nic.dhcp /\ \A x \in ToSet(nic.manual) : Delete("manual", x) \in ToSet(calls)
          /\ want.dns => nic.dns = <<>> /\ nic.wins = <<>>
      BY <1>0, <1>a, <2>2, <2>3, <2>5 DEF CleanupLeads
    <3>2. ToSet(nic.manual) = {} /\ nic.manual \in Seq(Values)
      BY <1>0, <2>2, <3>1, NoElement, AdapterFields
    <3>3. nic.manual = <<>>
      BY <3>2, Emptied
    <3> QED
      BY <2>2, <2>5, <3>1, <3>3 DEF AppliedIsAsAsked
  <2> QED
    BY <2>4, <2>5
<1>3. CASE outcome = "none" /\ outcome' # "succeeded"
  BY <1>3 DEF AppliedIsAsAsked
<1> QED
  BY <1>1, <1>2, <1>3

\* A succeeded apply leaves the adapter as the document asks (apply_ipv4,
\* remove_captured_network): the static addresses, gateways, servers of both families and WINS, or
\* DHCP without an address by hand and, if asked, without servers by hand. Only an adapter on DHCP
\* that had exactly these addresses by hand is left on DHCP, since static_network_matches ignores
\* the mode.
THEOREM AppliedIsAsAskedHolds == StepSpec => []AppliedIsAsAsked
<1>1. StepInit => StepInv
  <2> SUFFICES ASSUME StepInit PROVE StepInv
    OBVIOUS
  <2>1. StepTypes
    BY StepAssumption, InitStepTypes
  <2>2. at = "apply" /\ outcome = "none" /\ nic = orig
    BY DEF StepInit
  <2> QED
    BY <2>1, <2>2
       DEF StepInv, BeforeTheStep, Untouched, StaticLeads, DhcpLeads, CleanupLeads, AppliedIsAsAsked
<1>2. StepInv /\ [StepNext]_stepVars => StepInv'
  <2>1. ASSUME StepInv, StepNext PROVE StepInv'
    BY <2>1, StepAssumption, TypesStep, BeforeTheStepStep, StaticLeadsStep, DhcpLeadsStep,
       CleanupLeadsStep, AppliedStep DEF StepInv
  <2>2. ASSUME StepInv, UNCHANGED stepVars PROVE StepInv'
    BY <2>2 DEF stepVars, StepInv, StepTypes, BeforeTheStep, Untouched, StaticLeads, DhcpLeads,
       CleanupLeads, AppliedIsAsAsked, Mixed
  <2> QED
    BY <2>1, <2>2
<1>3. StepInv => AppliedIsAsAsked
  BY DEF StepInv
<1> QED
  BY <1>1, <1>2, <1>3, PTL DEF StepSpec
==============================================================================
