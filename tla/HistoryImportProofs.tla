------------------------ MODULE HistoryImportProofs ------------------------
(***************************************************************************)
(* Proofs about the program history-import, whatever the logs hold, the    *)
(* files to import and how often it is killed: that its steps lose no line *)
(* but to a write that is cut off, and what that leaves mixed; that they   *)
(* put lines among lines, as DayLogs says; that a sort sorts; and that an  *)
(* import does not double what it is given once and finds alone.           *)
(*                                                                         *)
(* The first part is about the n-th of the places in a file, the second    *)
(* about its lines and what a write puts between them.  Then come the      *)
(* invariants: what the process may rely on in a call of history_add, what *)
(* a sort has put into the files so far, and which lines the position that *)
(* is kept from one call to the next has left behind.                      *)
(***************************************************************************)
EXTENDS HistoryImport, SequenceTheorems, FiniteSetTheorems, WellFoundedInduction, TLAPS

StartOfText(unit) == unit.kind = "text" /\ unit.part = 1

\* A set of places in a file of N units.
Places(S, N) == N \in Nat /\ S \subseteq 1 .. N

\* The numbers of a set before one.
Before(S, k) == {j \in S : j < k}
-----------------------------------------------------------------------------
\* Every set of numbers has a least one.
LEMMA LeastOf ==
    ASSUME NEW S, S \subseteq Nat, S # {}
    PROVE  \E k \in S : \A j \in S : k <= j
<1>1. PICK k \in S : \A j \in S : ~(<<j, k>> \in OpToRel(<, Nat))
  BY NatLessThanWellFounded, WFMin
<1>2. ASSUME NEW j \in S PROVE k <= j
  <2>1. ~(j < k) BY <1>1 DEF OpToRel
  <2> QED BY <2>1
<1> QED BY <1>2

\* A set of places is finite, and so are its subsets.
LEMMA PlacesFinite ==
    ASSUME NEW N, NEW S, Places(S, N)
    PROVE  /\ N \in Nat /\ \A k \in S : k \in Nat /\ k >= 1 /\ k <= N
           /\ IsFiniteSet(S) /\ Cardinality(S) \in Nat
           /\ \A T \in SUBSET S : /\ IsFiniteSet(T) /\ Cardinality(T) \in Nat
                                  /\ Cardinality(T) <= Cardinality(S)
<1>1. N \in Int /\ IsFiniteSet(1 .. N) BY FS_Interval DEF Places
<1>2. IsFiniteSet(S) BY <1>1, FS_Subset DEF Places
<1>3. N \in Nat /\ \A k \in S : k \in Nat /\ k >= 1 /\ k <= N BY DEF Places
<1> QED BY <1>2, <1>3, FS_Subset, FS_CardinalityType

\* There is an n-th one, if there are that many.
LEMMA NthIs ==
    ASSUME NEW N, NEW S, Places(S, N), NEW n \in 1 .. Cardinality(S)
    PROVE  NthOf(S, n) \in S /\ Cardinality(Before(S, NthOf(S, n))) = n - 1
<1>1. /\ IsFiniteSet(S) /\ Cardinality(S) \in Nat
      /\ \A T \in SUBSET S : IsFiniteSet(T) /\ Cardinality(T) \in Nat
  BY PlacesFinite
<1>2. N \in Nat /\ \A j \in S : j \in Nat /\ j >= 1 /\ j <= N BY PlacesFinite
<1>n. n \in Nat /\ n >= 1 /\ n <= Cardinality(S) BY <1>1
<1> DEFINE Enough == {k \in Nat : Cardinality({j \in S : j <= k}) >= n}
<1>3. Enough # {}
  <2>1. {j \in S : j <= N} = S BY <1>2
  <2>2. N \in Enough BY <2>1, <1>1, <1>2, <1>n
  <2> QED BY <2>2
<1>4. PICK k \in Enough : \A j \in Enough : k <= j
  <2>1. Enough \in SUBSET Nat OBVIOUS
  <2> HIDE DEF Enough
  <2> QED BY <1>3, <2>1, LeastOf
<1>k. k \in Nat OBVIOUS
<1> DEFINE upto == {j \in S : j <= k}   before == {j \in S : j < k}
<1>u. upto \in SUBSET S /\ before \in SUBSET S OBVIOUS
<1>6. Cardinality(upto) >= n OBVIOUS
<1>e. ASSUME NEW i \in Nat, Cardinality({j \in S : j <= i}) >= n PROVE k <= i
  BY <1>e, <1>4
<1> HIDE DEF Enough
<1>5. Cardinality(before) < n
  <2>1. CASE k = 0
    <3>1. before = {} BY ONLY <2>1, <1>2
    <3> QED BY <3>1, FS_EmptySet, <1>n
  <2>2. CASE k # 0
    <3>1. k - 1 \in Nat BY <1>k, <2>2
    <3>2. ~(Cardinality({j \in S : j <= k - 1}) >= n)
      <4>1. ~(k <= k - 1) BY <1>k
      <4> QED BY ONLY <1>e, <3>1, <4>1
    <3>3. {j \in S : j <= k - 1} = before BY ONLY <1>2, <1>k
    <3>4. ~(Cardinality(before) >= n) BY ONLY <3>2, <3>3
    <3> HIDE DEF before
    <3> QED BY ONLY <3>4, <1>1, <1>u, <1>n
  <2> QED BY <2>1, <2>2
<1>7. k \in S
  <2>1. SUFFICES ASSUME k \notin S PROVE FALSE OBVIOUS
  <2>2. upto = before BY ONLY <2>1, <1>2, <1>k
  <2> QED BY <2>2, <1>5, <1>6, <1>1, <1>u, <1>n
<1>8. Cardinality(before) = n - 1
  <2>1. upto \subseteq before \cup {k} /\ before \subseteq upto /\ k \notin before
    BY ONLY <1>2, <1>k
  <2>a. k \in upto BY ONLY <1>7, <1>k
  <2>2. Cardinality(upto) = Cardinality(before) + 1
    <3> HIDE DEF upto, before
    <3>1. upto = before \cup {k} BY ONLY <2>1, <2>a
    <3> QED BY <2>1, <3>1, <1>1, <1>u, FS_AddElement
  <2> QED BY <2>2, <1>6, <1>5, <1>1, <1>u, <1>n
<1> DEFINE P(x) == x \in S /\ Cardinality({j \in S : j < x}) = n - 1
<1>9. P(k) BY <1>7, <1>8
<1>10. P(NthOf(S, n))
  <2>1. NthOf(S, n) = CHOOSE x \in S : Cardinality({j \in S : j < x}) = n - 1 BY DEF NthOf
  <2> QED BY <2>1, <1>9
<1> QED BY <1>10 DEF Before

\* It is the one that has as many before it.
LEMMA BeforeIs ==
    ASSUME NEW N, NEW S, Places(S, N), NEW j \in S, NEW k \in S, j < k
    PROVE  Cardinality(Before(S, j)) < Cardinality(Before(S, k))
<1>1. \A T \in SUBSET S : IsFiniteSet(T) /\ Cardinality(T) \in Nat BY PlacesFinite
<1>n. \A i \in S : i \in Nat BY PlacesFinite
<1>2. Before(S, j) \cup {j} \in SUBSET Before(S, k) /\ j \notin Before(S, j)
      /\ Before(S, j) \in SUBSET S /\ Before(S, k) \in SUBSET S
  BY ONLY <1>n, j \in S, k \in S, j < k DEF Before
<1>3. Cardinality(Before(S, j) \cup {j}) = Cardinality(Before(S, j)) + 1
  BY <1>1, <1>2, FS_AddElement
<1>4. Cardinality(Before(S, j) \cup {j}) <= Cardinality(Before(S, k))
  BY <1>1, <1>2, FS_Subset
<1> QED BY <1>1, <1>2, <1>3, <1>4

LEMMA NthOnly ==
    ASSUME NEW N, NEW S, Places(S, N), NEW k \in S
    PROVE  /\ Cardinality(Before(S, k)) + 1 \in 1 .. Cardinality(S)
           /\ NthOf(S, Cardinality(Before(S, k)) + 1) = k
<1> DEFINE n == Cardinality(Before(S, k)) + 1   m == NthOf(S, n)
<1>1. /\ IsFiniteSet(S) /\ Cardinality(S) \in Nat
      /\ \A T \in SUBSET S : /\ IsFiniteSet(T) /\ Cardinality(T) \in Nat
                             /\ Cardinality(T) <= Cardinality(S)
  BY PlacesFinite
<1>2. Before(S, k) \in SUBSET S /\ k \notin Before(S, k) /\ Before(S, k) \cup {k} \in SUBSET S
  <2>1. k \in Nat BY PlacesFinite
  <2> QED BY <2>1 DEF Before
<1>3. Cardinality(Before(S, k) \cup {k}) = n BY <1>1, <1>2, FS_AddElement
<1>4. n \in 1 .. Cardinality(S) BY <1>1, <1>2, <1>3
<1> HIDE DEF n
<1>5. m \in S /\ Cardinality(Before(S, m)) = n - 1 BY <1>4, NthIs
<1>6. Cardinality(Before(S, m)) = Cardinality(Before(S, k)) BY <1>5, <1>1, <1>2 DEF n
<1> HIDE DEF m
<1>7. m \in Nat /\ k \in Nat BY <1>5, PlacesFinite
<1> DEFINE c(x) == Cardinality(Before(S, x))
<1>c. \A x \in S, y \in S : x < y => c(x) < c(y) BY BeforeIs
<1>d. c(m) = c(k) /\ c(k) \in Nat BY <1>6, <1>1, <1>2
<1> HIDE DEF c
<1>8. ~(m < k) BY <1>c, <1>d, <1>5
<1>10. ~(k < m) BY <1>c, <1>d, <1>5
<1>11. m = k BY <1>7, <1>8, <1>10
<1> USE DEF m, n
<1> QED BY <1>4, <1>11

\* A later one is behind an earlier one.
LEMMA NthOrdered ==
    ASSUME NEW N, NEW S, Places(S, N),
           NEW m \in 1 .. Cardinality(S), NEW n \in 1 .. Cardinality(S), m < n
    PROVE  NthOf(S, m) < NthOf(S, n)
<1> DEFINE j == NthOf(S, m)   k == NthOf(S, n)
<1>0. Cardinality(S) \in Nat BY PlacesFinite
<1>1. j \in S /\ k \in S /\ Cardinality(Before(S, j)) = m - 1 /\ Cardinality(Before(S, k)) = n - 1
  BY NthIs
<1> HIDE DEF j, k
<1>2. j \in Nat /\ k \in Nat BY <1>1, PlacesFinite
<1>3. j # k BY <1>0, <1>1
<1>4. ~(k < j)
  <2>1. SUFFICES ASSUME k < j PROVE FALSE OBVIOUS
  <2>2. n - 1 < m - 1 BY <2>1, <1>1, BeforeIs
  <2> QED BY <2>2, <1>0
<1> USE DEF j, k
<1> QED BY <1>2, <1>3, <1>4

\* The places up to one.
UpTo(S, p) == {k \in S : k <= p}

\* Two sets that have the same places up to one have the same first ones.
LEMMA SamePlaces ==
    ASSUME NEW N, NEW S, Places(S, N), NEW T, Places(T, N), NEW p \in Nat,
           UpTo(S, p) = UpTo(T, p), NEW n \in 1 .. Cardinality(UpTo(S, p))
    PROVE  /\ n \in 1 .. Cardinality(S) /\ n \in 1 .. Cardinality(T)
           /\ NthOf(S, n) <= p /\ NthOf(T, n) = NthOf(S, n)
<1> DEFINE low == {x \in S : x <= p}   k == NthOf(S, n)
<1>0. low = UpTo(S, p) /\ low = {x \in T : x <= p} BY DEF UpTo
<1>1. \A U \in SUBSET S : /\ IsFiniteSet(U) /\ Cardinality(U) \in Nat
                          /\ Cardinality(U) <= Cardinality(S)
  BY PlacesFinite
<1>2. \A U \in SUBSET T : Cardinality(U) \in Nat /\ Cardinality(U) <= Cardinality(T)
  BY PlacesFinite
<1>3. low \in SUBSET S /\ low \in SUBSET T BY <1>0
<1>4. Cardinality(S) \in Nat /\ Cardinality(T) \in Nat BY PlacesFinite
<1>t. \A x \in S \cup T : x \in Nat BY PlacesFinite
<1>s. \A x \in S : x <= p => x \in low OBVIOUS
<1>5. n \in 1 .. Cardinality(S) /\ n \in 1 .. Cardinality(T)
  BY <1>0, <1>1, <1>2, <1>3, <1>4
<1>6. k \in S /\ Cardinality(Before(S, k)) = n - 1 BY <1>5, NthIs
<1>7. Before(S, k) \in SUBSET S BY DEF Before
<1> HIDE DEF k
<1>8. k <= p
  <2>1. SUFFICES ASSUME ~(k <= p) PROVE FALSE OBVIOUS
  <2>2. low \subseteq Before(S, k) BY <2>1, <1>6, <1>t DEF Before
  <2>3. Cardinality(low) <= Cardinality(Before(S, k)) BY <2>2, <1>1, <1>7, FS_Subset
  <2>4. n \in 1 .. Cardinality(low) BY <1>0
  <2> QED BY <2>3, <2>4, <1>6, <1>1, <1>3, <1>4
<1>9. k \in T BY <1>6, <1>8, <1>s, <1>3
<1>10. Before(T, k) = Before(S, k)
  <2>1. ASSUME NEW x PROVE x \in Before(T, k) <=> x \in Before(S, k)
    <3>1. \A y \in S \cup T : y < k => y <= p BY <1>8, <1>t, <1>6
    <3>2. \A y : y <= p => (y \in S <=> y \in T) BY <1>s, <1>0
    <3> QED BY <3>1, <3>2 DEF Before
  <2> QED BY <2>1
<1>11. NthOf(T, Cardinality(Before(T, k)) + 1) = k BY <1>9, NthOnly
<1>12. Cardinality(Before(T, k)) + 1 = n BY <1>10, <1>6
<1> USE DEF k
<1> QED BY <1>5, <1>8, <1>11, <1>12

\* As many numbers, moved by the same distance.
LEMMA MovedCount ==
    ASSUME NEW S, IsFiniteSet(S), S \subseteq Nat, NEW w \in Nat
    PROVE  IsFiniteSet({j + w : j \in S}) /\ Cardinality({j + w : j \in S}) = Cardinality(S)
<1> DEFINE T == {j + w : j \in S}   f == [j \in S |-> j + w]
<1>1. \A i, j \in S : i + w = j + w => i = j OBVIOUS
<1>2. f \in Bijection(S, T) BY <1>1 DEF Bijection, Injection, Surjection, IsInjective
<1>3. ExistsBijection(S, T) BY <1>2 DEF ExistsBijection
<1> QED BY <1>3, FS_Bijection

\* With a place put in behind p, those behind it move up.
WithPlace(S, p, w) == {k \in S : k <= p} \cup {p + 1} \cup {k + w : k \in {j \in S : j > p}}

LEMMA PlacePutIn ==
    ASSUME NEW N, NEW S, Places(S, N), NEW p \in Nat, NEW w \in Nat \ {0}
    PROVE  /\ Cardinality(UpTo(S, p)) \in 0 .. Cardinality(S)
           /\ Cardinality(WithPlace(S, p, w)) = Cardinality(S) + 1
           /\ \A n \in 1 .. Cardinality(UpTo(S, p)) :
                 NthOf(S, n) <= p /\ NthOf(WithPlace(S, p, w), n) = NthOf(S, n)
           /\ NthOf(WithPlace(S, p, w), Cardinality(UpTo(S, p)) + 1) = p + 1
           /\ \A n \in Cardinality(UpTo(S, p)) + 1 .. Cardinality(S) :
                 NthOf(S, n) > p /\ NthOf(WithPlace(S, p, w), n + 1) = NthOf(S, n) + w
<1> DEFINE T == WithPlace(S, p, w)
           low == {k \in S : k <= p}   high == {k \in S : k > p}
           moved == {k + w : k \in high}
           m == Cardinality(low)
<1>0. low = UpTo(S, p) /\ T = WithPlace(S, p, w) BY DEF UpTo
<1>t. N \in Nat /\ \A x \in S : x \in Nat /\ x >= 1 /\ x <= N BY PlacesFinite
<1>1. /\ IsFiniteSet(S) /\ Cardinality(S) \in Nat
      /\ \A U \in SUBSET S : /\ IsFiniteSet(U) /\ Cardinality(U) \in Nat
                             /\ Cardinality(U) <= Cardinality(S)
  BY PlacesFinite
<1>2. low \in SUBSET S /\ high \in SUBSET S /\ low \cup high = S /\ low \cap high = {}
  BY <1>t
<1>3. T = low \cup {p + 1} \cup moved BY DEF WithPlace
<1> DEFINE NT == N + p + 1 + w
<1>4. Places(S, NT) /\ Places(T, NT)
  <2>1. NT \in Nat BY <1>t
  <2>2. \A x \in S : x \in 1 .. NT BY <1>t, <2>1
  <2>3. \A x \in T : x \in 1 .. NT BY <1>t, <1>3, <2>1
  <2> HIDE DEF NT
  <2> QED BY <2>1, <2>2, <2>3 DEF Places
<1>m. \A x : x \in moved <=> \E k \in S : k > p /\ x = k + w OBVIOUS
<1>l. \A x : x \in low <=> x \in S /\ x <= p OBVIOUS
<1>h. \A x : x \in high <=> x \in S /\ x > p OBVIOUS
<1> HIDE DEF T, low, high, moved, NT
<1>5. Cardinality(S) = m + Cardinality(high)
  <2>1. Cardinality(low \cup high) = m + Cardinality(high) - Cardinality(low \cap high)
    BY <1>1, <1>2, FS_Union
  <2> QED BY <2>1, <1>1, <1>2, FS_EmptySet
<1>6. \A H \in SUBSET high : LET M == {k + w : k \in H} IN
         IsFiniteSet(M) /\ Cardinality(M) = Cardinality(H) /\ Cardinality(H) \in Nat
  <2>1. TAKE H \in SUBSET high
  <2>2. IsFiniteSet(H) /\ Cardinality(H) \in Nat /\ H \subseteq Nat BY <1>1, <1>2, <1>t
  <2> QED BY <2>2, MovedCount
\* How many are in a part of the new set.
<1>7. ASSUME NEW H \in SUBSET high
      PROVE  /\ Cardinality(low \cup {p + 1} \cup {k + w : k \in H}) = m + 1 + Cardinality(H)
             /\ Cardinality(H) \in Nat
  <2> DEFINE M == {k + w : k \in H}
  <2>1. IsFiniteSet(M) /\ Cardinality(M) = Cardinality(H) /\ Cardinality(H) \in Nat BY <1>6
  <2>2. p + 1 \notin low BY <1>l
  <2>3. Cardinality(low \cup {p + 1}) = m + 1 /\ IsFiniteSet(low \cup {p + 1})
    BY <2>2, <1>1, <1>2, FS_AddElement
  <2>4. ASSUME NEW x \in M PROVE x \notin low \cup {p + 1}
    <3>1. PICK k \in H : x = k + w OBVIOUS
    <3>2. k > p /\ k \in Nat BY <1>h, <1>t
    <3> QED BY <3>1, <3>2, <1>l
  <2> HIDE DEF M
  <2>5. (low \cup {p + 1}) \cap M = {} BY <2>4
  <2>6. Cardinality((low \cup {p + 1}) \cup M)
            = Cardinality(low \cup {p + 1}) + Cardinality(M) - Cardinality((low \cup {p + 1}) \cap M)
    BY <2>1, <2>3, FS_Union
  <2>7. Cardinality((low \cup {p + 1}) \cap M) = 0 BY <2>5, FS_EmptySet
  <2>8. m \in Nat BY <1>1, <1>2
  <2>9. Cardinality((low \cup {p + 1}) \cup M) = m + 1 + Cardinality(H)
    BY <2>6, <2>7, <2>3, <2>1, <2>8
  <2> QED BY <2>1, <2>9 DEF M
<1>8. Cardinality(T) = Cardinality(S) + 1
  <2>1. moved = {k + w : k \in high} BY DEF moved
  <2>2. high \in SUBSET high OBVIOUS
  <2>3. Cardinality(T) = m + 1 + Cardinality(high) BY <2>1, <2>2, <1>3, <1>7
  <2> QED BY <2>3, <1>5, <1>1, <1>2
<1>9. m \in 0 .. Cardinality(S) BY <1>1, <1>2
<1>10. UpTo(T, p) = UpTo(S, p)
  <2>1. ASSUME NEW x PROVE (x \in T /\ x <= p) <=> (x \in S /\ x <= p)
    <3>1. x \in moved => ~(x <= p) BY <1>m, <1>t
    <3>2. x = p + 1 => ~(x <= p) OBVIOUS
    <3> QED BY <3>1, <3>2, <1>3, <1>l
  <2> QED BY <2>1 DEF UpTo
<1>11. ASSUME NEW n \in 1 .. m PROVE NthOf(S, n) <= p /\ NthOf(T, n) = NthOf(S, n)
  <2>1. n \in 1 .. Cardinality(UpTo(S, p)) BY <1>0
  <2> QED BY <2>1, <1>10, <1>4, SamePlaces
<1>12. NthOf(T, m + 1) = p + 1
  <2>1. p + 1 \in T BY <1>3
  <2>2. Before(T, p + 1) = low
    <3>1. ASSUME NEW x PROVE (x \in T /\ x < p + 1) <=> x \in low
      <4>1. x \in moved => ~(x < p + 1) BY <1>m, <1>t
      <4>2. x \in low => x < p + 1 BY <1>l, <1>t
      <4> QED BY <4>1, <4>2, <1>3
    <3> QED BY <3>1 DEF Before
  <2>3. NthOf(T, Cardinality(Before(T, p + 1)) + 1) = p + 1 BY <2>1, <1>4, NthOnly
  <2> QED BY <2>2, <2>3
<1>13. ASSUME NEW n \in m + 1 .. Cardinality(S)
       PROVE  NthOf(S, n) > p /\ NthOf(T, n + 1) = NthOf(S, n) + w
  <2> DEFINE k == NthOf(S, n)   H == {j \in S : j > p /\ j < k}
  <2>1. n \in 1 .. Cardinality(S) /\ n \in Nat BY <1>9, <1>1
  <2>2. k \in S /\ Cardinality(Before(S, k)) = n - 1 BY <2>1, NthIs
  <2>3. \A x : x \in H <=> x \in S /\ x > p /\ x < k OBVIOUS
  <2>b. \A x : x \in Before(S, k) <=> x \in S /\ x < k BY DEF Before
  <2> HIDE DEF k, H
  <2>4. k > p
    <3>1. SUFFICES ASSUME ~(k > p) PROVE FALSE OBVIOUS
    <3>2. k \in low /\ k \notin Before(S, k) BY <3>1, <2>2, <1>l, <1>t, <2>b
    <3>3. Before(S, k) \cup {k} \in SUBSET low BY <3>1, <3>2, <2>b, <1>l, <1>t, <2>2
    <3>4. Before(S, k) \in SUBSET S BY <2>b
    <3>5. Cardinality(Before(S, k) \cup {k}) = n
      <4>1. IsFiniteSet(Before(S, k)) BY <3>4, <1>1
      <4>2. Cardinality(Before(S, k) \cup {k}) = Cardinality(Before(S, k)) + 1
        BY <4>1, <3>2, FS_AddElement
      <4> QED BY <4>2, <2>2, <2>1
    <3>6. Cardinality(Before(S, k) \cup {k}) <= m BY <3>3, <1>1, <1>2, FS_Subset
    <3> QED BY <3>5, <3>6, <1>9, <1>1
  <2>5. k \in Nat /\ k + w \in T BY <2>2, <2>4, <1>3, <1>m, <1>t
  <2>6. H \in SUBSET high /\ low \cup H = Before(S, k) /\ low \cap H = {}
    BY <2>3, <2>4, <2>5, <2>b, <1>l, <1>h, <1>t
  <2>7. n - 1 = m + Cardinality(H)
    <3>1. IsFiniteSet(H) /\ Cardinality(H) \in Nat BY <2>6, <1>2, <1>1
    <3>2. Cardinality(low \cup H) = m + Cardinality(H) - Cardinality(low \cap H)
      BY <3>1, <1>1, <1>2, FS_Union
    <3>3. Cardinality(low \cap H) = 0 BY <2>6, FS_EmptySet
    <3>4. m \in Nat BY <1>1, <1>2
    <3>5. Cardinality(low \cup H) = n - 1 BY <2>2, <2>6
    <3> HIDE DEF m
    <3> QED BY ONLY <3>1, <3>2, <3>3, <3>4, <3>5
  <2>8. Before(T, k + w) = low \cup {p + 1} \cup {j + w : j \in H}
    <3>1. ASSUME NEW x
          PROVE  (x \in T /\ x < k + w) <=> x \in low \cup {p + 1} \cup {j + w : j \in H}
      <4>1. x \in moved /\ x < k + w <=> \E j \in H : x = j + w
        BY <1>m, <2>3, <2>5, <1>t
      <4>2. x \in low => x < k + w BY <1>l, <1>t, <2>4, <2>5
      <4>3. p + 1 < k + w BY <2>4, <2>5
      <4> QED BY <4>1, <4>2, <4>3, <1>3
    <3> QED BY <3>1 DEF Before
  <2>9. Cardinality(Before(T, k + w)) = m + 1 + Cardinality(H) /\ Cardinality(H) \in Nat
    BY <2>6, <2>8, <1>7
  <2>10. Cardinality(Before(T, k + w)) + 1 = n + 1 BY <2>7, <2>9, <2>1, <1>9, <1>1
  <2>11. NthOf(T, Cardinality(Before(T, k + w)) + 1) = k + w BY <2>5, <1>4, NthOnly
  <2> QED BY <2>4, <2>10, <2>11 DEF k
<1> QED BY ONLY <1>0, <1>8, <1>9, <1>11, <1>12, <1>13
-----------------------------------------------------------------------------
\* The places where a text begins, behind the byte order mark.
Begins(file) == {k \in 2 .. Len(file) : StartOfText(file[k])}

HasNo(unit, units) == \A i \in 1 .. Len(units) : units[i] # unit

\* The characters that end a line are no text.
LEMMA UnitFacts ==
    /\ CR \in Units /\ LF \in Units /\ BOM \in Units
    /\ CR # LF /\ BOM # CR
    /\ ~StartOfText(CR) /\ ~StartOfText(LF) /\ ~StartOfText(BOM)
BY DEF CR, LF, BOM, Units, NoEntry, StartOfText

LEMMA UnitsOf ==
    ASSUME NEW file \in Seq(Units)
    PROVE  Len(file) \in Nat /\ \A i \in 1 .. Len(file) : file[i] \in Units
BY LenProperties

\* A line ends before the first carriage return, or with the file.
LEMMA LineEndIs ==
    ASSUME NEW file \in Seq(Units), NEW k \in Nat, NEW j \in k .. Len(file),
           \A i \in k .. j : file[i] # CR, j < Len(file) => file[j + 1] = CR
    PROVE  LineEnd(file, k) = j
<1> DEFINE n == Len(file)
           P(x) == /\ \A i \in k .. x : file[i] # CR
                   /\ x < n => file[x + 1] = CR
           e == CHOOSE x \in k .. n : P(x)
<1>1. n \in Nat /\ k \in Nat /\ j \in Nat BY UnitsOf
<1>2. P(j) /\ j \in k .. n OBVIOUS
<1>3. e \in k .. n /\ P(e) BY <1>2
<1>4. e = LineEnd(file, k) BY DEF LineEnd
<1>5. ASSUME NEW x \in k .. n, NEW y \in k .. n, P(x), P(y) PROVE ~(x < y)
  <2>1. SUFFICES ASSUME x < y PROVE FALSE OBVIOUS
  <2>2. x < n /\ x + 1 \in k .. y BY <2>1, <1>1
  <2> QED BY <2>2, <1>5
<1> HIDE DEF e, P
<1>6. ~(e < j) /\ ~(j < e) BY <1>2, <1>3, <1>5
<1> QED BY <1>1, <1>3, <1>4, <1>6

LEMMA LineEnds ==
    ASSUME NEW file \in Seq(Units), NEW k \in 1 .. Len(file), file[k] # CR
    PROVE  /\ LineEnd(file, k) \in k .. Len(file)
           /\ \A i \in k .. LineEnd(file, k) : file[i] # CR
           /\ LineEnd(file, k) < Len(file) => file[LineEnd(file, k) + 1] = CR
<1> DEFINE n == Len(file)   C == {i \in k .. n : file[i] = CR}
<1>1. n \in Nat /\ k \in Nat /\ k >= 1 /\ k <= n BY UnitsOf
<1>2. \E j \in k .. n : (\A i \in k .. j : file[i] # CR) /\ (j < n => file[j + 1] = CR)
  <2>1. CASE C = {}
    <3>1. n \in k .. n /\ \A i \in k .. n : file[i] # CR BY <2>1, <1>1
    <3> QED BY <3>1
  <2>2. CASE C # {}
    <3>1. C \subseteq Nat BY <1>1
    <3>2. PICK c \in C : \A i \in C : c <= i BY <2>2, <3>1, LeastOf
    <3>3. c \in k .. n /\ file[c] = CR /\ c # k OBVIOUS
    <3>4. c - 1 \in k .. n /\ c - 1 + 1 = c BY <3>3, <1>1
    <3>5. ASSUME NEW i \in k .. c - 1 PROVE file[i] # CR
      <4>1. i \in k .. n /\ ~(c <= i) BY <3>3, <1>1
      <4> QED BY <4>1, <3>2
    <3> QED BY <3>3, <3>4, <3>5
  <2> QED BY <2>1, <2>2
<1>3. PICK j \in k .. n : (\A i \in k .. j : file[i] # CR) /\ (j < n => file[j + 1] = CR)
  BY <1>2
<1>4. LineEnd(file, k) = j BY <1>1, <1>3, LineEndIs
<1> QED BY <1>3, <1>4

\* What a part of a sequence holds.
LEMMA PartOf ==
    ASSUME NEW S, NEW s \in Seq(S), NEW a \in 1 .. Len(s) + 1, NEW b \in a - 1 .. Len(s)
    PROVE  /\ SubSeq(s, a, b) \in Seq(S)
           /\ Len(SubSeq(s, a, b)) = b - a + 1
           /\ \A i \in 1 .. b - a + 1 : SubSeq(s, a, b)[i] = s[a + i - 1]
<1>1. Len(s) \in Nat /\ (\A i \in 1 .. Len(s) : s[i] \in S) BY LenProperties
<1>2. a \in Int /\ b \in Int /\ (\A i \in a .. b : s[i] \in S) BY <1>1
<1>3. /\ SubSeq(s, a, b) \in Seq(S)
      /\ Len(SubSeq(s, a, b)) = IF a <= b THEN b - a + 1 ELSE 0
      /\ \A i \in 1 .. b - a + 1 : SubSeq(s, a, b)[i] = s[a + i - 1]
  BY <1>2, SubSeqProperties
<1>4. (IF a <= b THEN b - a + 1 ELSE 0) = b - a + 1 BY <1>1
<1> DEFINE q == SubSeq(s, a, b)
<1>5. Len(q) = b - a + 1 BY <1>3, <1>4
<1> QED BY <1>3, <1>5

\* Sequences with the same elements are the same.
LEMMA SameElements ==
    ASSUME NEW S, NEW s \in Seq(S), NEW t \in Seq(S), Len(s) = Len(t),
           \A i \in 1 .. Len(s) : s[i] = t[i]
    PROVE  s = t
BY SeqEqual

\* A line that is found in another file, moved by d, is the same.
LEMMA SameLine ==
    ASSUME NEW file \in Seq(Units), NEW other \in Seq(Units),
           NEW k \in 1 .. Len(file), NEW d \in Int, k + d \in 1 .. Len(other),
           file[k] # CR,
           LineEnd(file, k) + d <= Len(other),
           \A i \in k .. LineEnd(file, k) : other[i + d] = file[i],
           LineEnd(file, k) + d < Len(other) => other[LineEnd(file, k) + d + 1] = CR
    PROVE  LineFrom(other, k + d) = LineFrom(file, k)
<1> DEFINE e == LineEnd(file, k)   a == k + d   b == e + d
<1>1. Len(file) \in Nat /\ Len(other) \in Nat /\ k \in Nat BY UnitsOf
<1>2. e \in k .. Len(file) /\ \A i \in k .. e : file[i] # CR BY LineEnds
<1>3. a \in 1 .. Len(other) /\ b \in a .. Len(other) BY <1>1, <1>2
<1>4. LineEnd(other, a) = b
  <2>1. ASSUME NEW i \in a .. b PROVE other[i] # CR
    <3>1. i - d \in k .. e /\ (i - d) + d = i BY <1>1, <1>2
    <3> QED BY <3>1, <1>2
  <2>2. b < Len(other) => other[b + 1] = CR OBVIOUS
  <2>3. a \in Nat BY <1>3
  <2> HIDE DEF a, b
  <2> QED BY <2>1, <2>2, <2>3, <1>3, LineEndIs
<1> DEFINE s == SubSeq(file, k, e)   t == SubSeq(other, a, b)
<1>5. /\ s \in Seq(Units) /\ Len(s) = e - k + 1
      /\ \A i \in 1 .. e - k + 1 : s[i] = file[k + i - 1]
  <2>1. k \in 1 .. Len(file) + 1 /\ e \in k - 1 .. Len(file) BY <1>1, <1>2
  <2> HIDE DEF e
  <2> QED BY <2>1, PartOf
<1>6. /\ t \in Seq(Units) /\ Len(t) = b - a + 1
      /\ \A i \in 1 .. b - a + 1 : t[i] = other[a + i - 1]
  <2>1. a \in 1 .. Len(other) + 1 /\ b \in a - 1 .. Len(other) BY <1>1, <1>3
  <2> HIDE DEF a, b
  <2> QED BY <2>1, PartOf
<1>7. ASSUME NEW i \in 1 .. e - k + 1 PROVE s[i] = t[i]
  <2>1. i \in 1 .. b - a + 1 /\ k + i - 1 \in k .. e /\ a + i - 1 = (k + i - 1) + d
    BY <1>1, <1>2, SMTT(30)
  <2>2. s[i] = file[k + i - 1] BY <1>5
  <2>3. t[i] = other[a + i - 1] BY <1>6, <2>1
  <2> QED BY <2>1, <2>2, <2>3
<1>8. b - a + 1 = e - k + 1 BY <1>1, <1>2
<1> HIDE DEF s, t, a, b, e
<1>9. s = t BY <1>5, <1>6, <1>7, <1>8, SameElements
<1> QED BY <1>4, <1>9 DEF LineFrom, s, t, a, b, e

\* One carriage return behind another is passed over, if getline stops at that.
LEMMA StopsNext ==
    ASSUME NEW file \in Seq(Units), NEW i \in 2 .. Len(file)
    PROVE  StopsAt(file, i) <=> file[i] = CR /\ ~StopsAt(file, i - 1)
<1> DEFINE run(x) == {j \in 2 .. x : \A k \in j .. x : file[k] = CR}
           h == i - 1
<1>1. i \in Nat /\ i >= 2 /\ h \in Nat /\ h = i - 1 BY UnitsOf
<1> HIDE DEF h
<1>2. IsFiniteSet(run(h)) /\ Cardinality(run(h)) \in Nat
  <2>1. IsFiniteSet(2 .. h) BY <1>1, FS_Interval
  <2>2. run(h) \subseteq 2 .. h OBVIOUS
  <2> HIDE DEF run
  <2> QED BY <2>1, <2>2, FS_Subset, FS_CardinalityType
<1>3. ASSUME file[i] = CR PROVE run(i) = run(h) \cup {i} /\ i \notin run(h)
  <2>1. ASSUME NEW j PROVE j \in run(i) <=> j \in run(h) \/ j = i
    <3>1. ASSUME j \in run(i), j # i PROVE j \in run(h) BY <3>1, <1>1
    <3>2. ASSUME j \in run(h) PROVE j \in run(i)
      <4>1. j \in 2 .. i /\ \A k \in j .. i : k = i \/ k \in j .. h BY <3>2, <1>1
      <4> QED BY <4>1, <3>2, <1>3
    <3>3. i \in run(i) BY <1>1, <1>3
    <3> QED BY <3>1, <3>2, <3>3
  <2>2. i \notin run(h) BY <1>1
  <2> HIDE DEF run
  <2> QED BY <2>1, <2>2
<1>4. StopsAt(file, i) <=> file[i] = CR /\ Cardinality(run(i)) % 2 = 1 BY DEF StopsAt
<1>5. StopsAt(file, i - 1) <=> file[h] = CR /\ Cardinality(run(h)) % 2 = 1 BY <1>1 DEF StopsAt
<1>6. file[h] # CR => run(h) = {} BY <1>1
<1> HIDE DEF run
<1>7. StopsAt(file, i - 1) <=> Cardinality(run(h)) % 2 = 1
  <2>1. file[h] # CR => Cardinality(run(h)) % 2 = 0 BY <1>6, FS_EmptySet
  <2> QED BY <2>1, <1>5
<1>8. file[i] = CR => Cardinality(run(i)) = Cardinality(run(h)) + 1
  BY <1>2, <1>3, FS_AddElement
<1> DEFINE c == Cardinality(run(h))
<1>9. c \in Nat BY <1>2
<1> HIDE DEF c
<1>10. (c + 1) % 2 = 1 <=> ~(c % 2 = 1) BY <1>9
<1> QED BY <1>4, <1>7, <1>8, <1>10 DEF c

\* It never stops at the byte order mark.
LEMMA StopsBehind ==
    ASSUME NEW file, NEW i \in Nat, StopsAt(file, i)
    PROVE  i >= 2 /\ file[i] = CR
<1> DEFINE run == {j \in 2 .. i : \A k \in j .. i : file[k] = CR}
<1>1. file[i] = CR /\ Cardinality(run) % 2 = 1 BY DEF StopsAt
<1>2. SUFFICES ASSUME ~(i >= 2) PROVE FALSE BY <1>1
<1>3. run = {} BY <1>2
<1> HIDE DEF run
<1>4. Cardinality(run) = 0 BY <1>3, FS_EmptySet
<1>5. 0 % 2 = 0 OBVIOUS
<1> QED BY <1>1, <1>4, <1>5

\* A carriage return that follows none ends a line.
LEMMA StopsAlone ==
    ASSUME NEW file \in Seq(Units), NEW i \in 2 .. Len(file), file[i] = CR,
           file[i - 1] # CR
    PROVE  StopsAt(file, i)
<1>1. ~StopsAt(file, i - 1) BY DEF StopsAt
<1> QED BY <1>1, StopsNext

\* The starts of the lines of a file are places in it.
LEMMA StartsAre ==
    ASSUME NEW file \in Seq(Units)
    PROVE  /\ Places(LineStarts(file), Len(file))
           /\ \A k : k \in LineStarts(file) <=>
                /\ k \in 2 .. Len(file) /\ StartOfText(file[k])
                /\ k = 2 \/ StopsAt(file, k - 2)
<1>1. \A u : <<u>>[1] = u /\ <<u>> # <<>> OBVIOUS
<1>2. \A u : IsText(<<u>>) <=> StartOfText(u) BY <1>1 DEF IsText, StartOfText
<1>3. Len(file) \in Nat BY UnitsOf
<1>4. \A k : k \in LineStarts(file) <=>
                /\ k \in 2 .. Len(file) /\ StartOfText(file[k])
                /\ k = 2 \/ StopsAt(file, k - 2)
  BY <1>2 DEF LineStarts
<1>5. \A k \in LineStarts(file) : k \in 1 .. Len(file) BY <1>3, <1>4
<1>6. Places(LineStarts(file), Len(file)) BY <1>3, <1>5 DEF Places
<1> QED BY <1>4, <1>6

LEMMA BeginsAre ==
    ASSUME NEW file \in Seq(Units)
    PROVE  /\ Places(Begins(file), Len(file))
           /\ \A k : k \in Begins(file) <=> k \in 2 .. Len(file) /\ StartOfText(file[k])
<1>1. Len(file) \in Nat BY UnitsOf
<1>2. \A k : k \in Begins(file) <=> k \in 2 .. Len(file) /\ StartOfText(file[k]) BY DEF Begins
<1>3. \A k \in Begins(file) : k \in 1 .. Len(file) BY <1>1, <1>2
<1> QED BY <1>1, <1>2, <1>3 DEF Places

\* What it is for a file to be unmixed.
LEMMA UnmixedIs ==
    ASSUME NEW file \in Seq(Units)
    PROVE  Unmixed(file) <=>
             \A k \in 2 .. Len(file) :
                /\ file[k - 1] = CR => file[k] = LF
                /\ StartOfText(file[k]) => k = 2 \/ (k > 3 /\ file[k - 2] = CR /\ file[k - 1] = LF)
<1>1. \A u : <<u>>[1] = u /\ <<u>> # <<>> OBVIOUS
<1>2. \A u : IsText(<<u>>) <=> StartOfText(u) BY <1>1 DEF IsText, StartOfText
<1> QED BY <1>2 DEF Unmixed

\* Texts begin where lines do, in an unmixed file.
LEMMA UnmixedStarts ==
    ASSUME NEW file \in Seq(Units), Unmixed(file)
    PROVE  LineStarts(file) = Begins(file)
<1>1. Len(file) \in Nat BY UnitsOf
<1>2. \A k \in 2 .. Len(file) :
         /\ file[k - 1] = CR => file[k] = LF
         /\ StartOfText(file[k]) => k = 2 \/ (k > 3 /\ file[k - 2] = CR /\ file[k - 1] = LF)
  BY UnmixedIs
<1>3. ASSUME NEW k \in Begins(file) PROVE k \in LineStarts(file)
  <2>1. k \in 2 .. Len(file) /\ StartOfText(file[k]) BY BeginsAre
  <2>2. CASE k = 2 BY <2>1, <2>2, StartsAre
  <2>3. CASE k # 2
    <3>1. k > 3 /\ file[k - 2] = CR BY <1>2, <2>1, <2>3
    <3>2. k - 2 \in 1 .. Len(file) /\ k - 2 \in 2 .. Len(file) BY <1>1, <2>1, <3>1
    <3>3. file[(k - 2) - 1] # CR BY <1>2, <3>1, <3>2, UnitFacts
    <3>4. StopsAt(file, k - 2) BY <3>1, <3>2, <3>3, StopsAlone
    <3> QED BY <2>1, <3>4, StartsAre
  <2> QED BY <2>2, <2>3
<1>4. ASSUME NEW k \in LineStarts(file) PROVE k \in Begins(file) BY StartsAre, BeginsAre
<1> QED BY <1>3, <1>4

\* A line as it is read: it begins with its text, and no carriage return is in it.
LEMMA LineIs ==
    ASSUME NEW file \in Seq(Units), NEW k \in LineStarts(file)
    PROVE  /\ LineFrom(file, k) \in Seq(Units) /\ Len(LineFrom(file, k)) >= 1
           /\ LineFrom(file, k)[1] = file[k]
           /\ IsText(LineFrom(file, k)) /\ HasNo(CR, LineFrom(file, k))
           /\ TimeOf(LineFrom(file, k)) = file[k].entry.time
           /\ file[k].entry.time \in Nat
<1> DEFINE e == LineEnd(file, k)   s == SubSeq(file, k, e)
<1>1. Len(file) \in Nat /\ \A i \in 1 .. Len(file) : file[i] \in Units BY UnitsOf
<1>2. k \in 2 .. Len(file) /\ StartOfText(file[k]) BY StartsAre
<1>3. k \in 1 .. Len(file) /\ file[k] # CR BY <1>1, <1>2, UnitFacts
<1>4. e \in k .. Len(file) /\ \A i \in k .. e : file[i] # CR BY <1>3, LineEnds
<1>5. /\ s \in Seq(Units) /\ Len(s) = e - k + 1
      /\ \A i \in 1 .. e - k + 1 : s[i] = file[k + i - 1]
  <2>1. k \in 1 .. Len(file) + 1 /\ e \in k - 1 .. Len(file) BY <1>1, <1>2, <1>4
  <2> HIDE DEF e
  <2> QED BY <2>1, PartOf
<1>6. 1 \in 1 .. e - k + 1 /\ k + 1 - 1 = k BY <1>1, <1>2, <1>4
<1>7. s[1] = file[k] /\ Len(s) >= 1 BY <1>5, <1>6
<1>8. ASSUME NEW i \in 1 .. Len(s) PROVE s[i] # CR
  <2>1. i \in 1 .. e - k + 1 /\ k + i - 1 \in k .. e BY <1>5, <1>2, <1>4, <1>1
  <2> QED BY <2>1, <1>4, <1>5
<1>9. file[k] \in Units BY <1>1, <1>3
<1>10. file[k].entry.time \in Nat BY <1>9 DEF Units
<1> HIDE DEF s
<1>11. s # <<>> BY <1>7
<1>12. IsText(s) BY <1>2, <1>7, <1>11 DEF IsText, StartOfText
<1> QED BY <1>5, <1>7, <1>8, <1>10, <1>12 DEF HasNo, TimeOf, LineFrom, s

\* The lines of a file, in its order.
LEMMA LinesAre ==
    ASSUME NEW file \in Seq(Units)
    PROVE  /\ LinesOf(file) \in Seq(Seq(Units))
           /\ Len(LinesOf(file)) = Cardinality(LineStarts(file))
           /\ DOMAIN LinesOf(file) = 1 .. Cardinality(LineStarts(file))
           /\ Cardinality(LineStarts(file)) \in Nat
           /\ \A n \in 1 .. Cardinality(LineStarts(file)) :
                /\ NthOf(LineStarts(file), n) \in LineStarts(file)
                /\ LinesOf(file)[n] = LineFrom(file, NthOf(LineStarts(file), n))
<1> DEFINE S == LineStarts(file)   c == Cardinality(S)
           L == [n \in 1 .. c |-> LineFrom(file, NthOf(S, n))]
<1>1. L = LinesOf(file) BY DEF LinesOf
<1>2. Places(S, Len(file)) BY StartsAre
<1>3. c \in Nat
  <2> HIDE DEF S
  <2> QED BY <1>2, PlacesFinite
<1>4. ASSUME NEW n \in 1 .. c PROVE NthOf(S, n) \in S
  <2> HIDE DEF S
  <2> QED BY <1>2, NthIs
<1>5. \A n \in 1 .. c : LineFrom(file, NthOf(S, n)) \in Seq(Units) BY <1>4, LineIs
<1> HIDE DEF S, c
<1>6. L \in [1 .. c -> Seq(Units)] BY <1>5
<1>7. L \in Seq(Seq(Units)) BY <1>3, <1>6, SeqDef
<1>8. DOMAIN L = 1 .. c OBVIOUS
<1>9. Len(L) = c
  <2>1. Len(L) \in Nat /\ DOMAIN L = 1 .. Len(L) BY <1>7, LenProperties
  <2> DEFINE l == Len(L)
  <2>2. l \in Nat /\ 1 .. l = 1 .. c BY <2>1, <1>8
  <2> HIDE DEF l, L
  <2>3. l = c BY <2>2, <1>3
  <2> QED BY <2>3 DEF l
<1>10. \A n \in 1 .. c : L[n] = LineFrom(file, NthOf(S, n)) OBVIOUS
<1> HIDE DEF L
<1> QED BY <1>1, <1>3, <1>4, <1>7, <1>8, <1>9, <1>10 DEF S, c

\* The lines that are in a file.
LEMMA LinesInAre ==
    ASSUME NEW file \in Seq(Units)
    PROVE  \A line : line \in LinesIn(file)
                       <=> \E k \in LineStarts(file) : line = LineFrom(file, k)
<1> DEFINE S == LineStarts(file)   c == Cardinality(S)
<1>1. /\ DOMAIN LinesOf(file) = 1 .. c
      /\ \A n \in 1 .. c : NthOf(S, n) \in S /\ LinesOf(file)[n] = LineFrom(file, NthOf(S, n))
  BY LinesAre
<1>2. \A line : line \in LinesIn(file) <=> \E n \in DOMAIN LinesOf(file) : line = LinesOf(file)[n]
  BY DEF LinesIn
<1>3. Places(S, Len(file)) BY StartsAre
<1> HIDE DEF S
<1>4. ASSUME NEW k \in S PROVE \E n \in 1 .. c : NthOf(S, n) = k BY <1>3, NthOnly
<1> HIDE DEF c
<1>5. ASSUME NEW line PROVE line \in LinesIn(file) <=> \E k \in S : line = LineFrom(file, k)
  <2>1. ASSUME line \in LinesIn(file) PROVE \E k \in S : line = LineFrom(file, k)
    BY <1>1, <1>2, <2>1
  <2>2. ASSUME NEW k \in S, line = LineFrom(file, k) PROVE line \in LinesIn(file)
    <3>1. PICK n \in 1 .. c : NthOf(S, n) = k BY <1>4
    <3>2. n \in DOMAIN LinesOf(file) /\ LinesOf(file)[n] = line BY <1>1, <2>2, <3>1
    <3> QED BY <1>2, <3>2
  <2> QED BY <2>1, <2>2
<1> QED BY <1>5 DEF S

\* The times of the lines do not decrease.
InTime(file) ==
    \A j, k \in LineStarts(file) : j < k => file[j].entry.time <= file[k].entry.time

\* That is what it is for the lines of a file to be in order.
LEMMA InOrderTimes ==
    ASSUME NEW file \in Seq(Units)
    PROVE  InOrder(LinesOf(file)) <=> InTime(file)
<1> DEFINE S == LineStarts(file)   c == Cardinality(S)   L == LinesOf(file)
<1>1. /\ DOMAIN L = 1 .. c /\ c \in Nat
      /\ \A n \in 1 .. c : NthOf(S, n) \in S /\ L[n] = LineFrom(file, NthOf(S, n))
  BY LinesAre
<1>2. Places(S, Len(file)) BY StartsAre
<1>3. S = LineStarts(file) OBVIOUS
<1>4. \A k \in S : /\ TimeOf(LineFrom(file, k)) = file[k].entry.time
                   /\ file[k].entry.time \in Nat
  BY LineIs
<1> HIDE DEF S
<1>5. \A n \in 1 .. c : TimeOf(L[n]) = file[NthOf(S, n)].entry.time BY <1>1, <1>4
<1>6. ASSUME InOrder(L), NEW j \in S, NEW k \in S, j < k
      PROVE  file[j].entry.time <= file[k].entry.time
  <2> DEFINE a == Cardinality(Before(S, j)) + 1   b == Cardinality(Before(S, k)) + 1
  <2>1. a \in 1 .. c /\ NthOf(S, a) = j /\ b \in 1 .. c /\ NthOf(S, b) = k
    BY <1>2, NthOnly
  <2>2. a < b
    <3>1. Cardinality(Before(S, j)) < Cardinality(Before(S, k)) BY <1>2, <1>6, BeforeIs
    <3>2. a \in Nat /\ b \in Nat /\ a - 1 = Cardinality(Before(S, j)) /\ b - 1 = Cardinality(Before(S, k))
      <4>1. Before(S, j) \in SUBSET S /\ Before(S, k) \in SUBSET S BY DEF Before
      <4>2. Cardinality(Before(S, j)) \in Nat /\ Cardinality(Before(S, k)) \in Nat
        BY <4>1, <1>2, PlacesFinite
      <4> QED BY <4>2
    <3> HIDE DEF a, b
    <3> QED BY <3>1, <3>2
  <2> HIDE DEF a, b, c, L
  <2>3. TimeOf(L[a]) <= TimeOf(L[b]) BY <2>1, <2>2, <1>1, <1>6 DEF InOrder
  <2> QED BY <2>1, <2>3, <1>5
<1>7. ASSUME InTime(file) PROVE InOrder(L)
  <2> HIDE DEF L
  <2>1. ASSUME NEW m \in 1 .. c, NEW n \in 1 .. c, m < n PROVE TimeOf(L[m]) <= TimeOf(L[n])
    <3>1. NthOf(S, m) < NthOf(S, n) BY <1>2, <2>1, NthOrdered
    <3>2. NthOf(S, m) \in LineStarts(file) /\ NthOf(S, n) \in LineStarts(file) BY <1>1, <1>3
    <3>3. file[NthOf(S, m)].entry.time <= file[NthOf(S, n)].entry.time
      BY <1>7, <3>1, <3>2 DEF InTime
    <3> QED BY <3>3, <1>5
  <2> QED BY <2>1, <1>1 DEF InOrder
<1> HIDE DEF L
<1> QED BY <1>3, <1>6, <1>7 DEF InTime, L

\* The times of texts do not decrease.
Sorted(file) ==
    \A j, k \in Begins(file) : j < k => file[j].entry.time <= file[k].entry.time

LEMMA InOrderIs ==
    ASSUME NEW file \in Seq(Units), Unmixed(file)
    PROVE  InOrder(LinesOf(file)) <=> Sorted(file)
BY InOrderTimes, UnmixedStarts DEF InTime, Sorted
-----------------------------------------------------------------------------
\* The text and the end of a line are put into a file behind p.
PutIn(file, other, p, text) ==
    /\ file \in Seq(Units) /\ other \in Seq(Units) /\ text \in Seq(Units)
    /\ p \in 1 .. Len(file)
    /\ Len(other) = Len(file) + Len(text) + 2
    /\ \A i \in 1 .. p : other[i] = file[i]
    /\ \A i \in 1 .. Len(text) : other[p + i] = text[i]
    /\ other[p + Len(text) + 1] = CR /\ other[p + Len(text) + 2] = LF
    /\ \A i \in p + 1 .. Len(file) : other[i + Len(text) + 2] = file[i]

\* A text of a line.
LEMMA TextIs ==
    ASSUME NEW text \in Seq(Units), IsText(text)
    PROVE  /\ Len(text) \in Nat /\ Len(text) >= 1 /\ StartOfText(text[1])
           /\ \A i \in 1 .. Len(text) : text[i] \in Units
<1>1. Len(text) \in Nat /\ (\A i \in 1 .. Len(text) : text[i] \in Units) BY UnitsOf
<1>2. text # <<>> BY DEF IsText
<1>3. Len(text) # 0 BY <1>2, EmptySeq
<1> QED BY <1>1, <1>3 DEF IsText, StartOfText

\* Put in before a text that begins a line, it makes no other file unmixed.
LEMMA StaysMixed ==
    ASSUME NEW file, NEW other, NEW p, NEW text, PutIn(file, other, p, text), IsText(text),
           p < Len(file) => StartOfText(file[p + 1]),
           Unmixed(other)
    PROVE  Unmixed(file)
<1> DEFINE n == Len(file)   w == Len(text) + 2
<1>1. file \in Seq(Units) /\ other \in Seq(Units) /\ text \in Seq(Units) BY DEF PutIn
<1>2. /\ n \in Nat /\ Len(text) \in Nat /\ Len(text) >= 1 /\ StartOfText(text[1])
      /\ w \in Nat /\ w >= 3
  BY <1>1, UnitsOf, TextIs
<1>3. /\ p \in 1 .. n /\ Len(other) = n + w
      /\ \A i \in 1 .. p : other[i] = file[i]
      /\ other[p + 1] = text[1]
      /\ other[p + w] = LF
      /\ \A i \in p + 1 .. n : other[i + w] = file[i]
  BY <1>2 DEF PutIn
<1> HIDE DEF w, n
<1>4. \A k \in 2 .. n + w :
         /\ other[k - 1] = CR => other[k] = LF
         /\ StartOfText(other[k])
              => k = 2 \/ (k > 3 /\ other[k - 2] = CR /\ other[k - 1] = LF)
  BY <1>1, <1>3, UnmixedIs
<1>5. ASSUME NEW k \in 2 .. n
      PROVE  /\ file[k - 1] = CR => file[k] = LF
             /\ StartOfText(file[k])
                  => k = 2 \/ (k > 3 /\ file[k - 2] = CR /\ file[k - 1] = LF)
  <2>1. CASE k <= p
    <3>1. k \in 2 .. n + w /\ k \in 1 .. p /\ k - 1 \in 1 .. p /\ (k > 3 => k - 2 \in 1 .. p)
      BY <2>1, <1>2, <1>3
    <3>2. other[k] = file[k] /\ other[k - 1] = file[k - 1]
          /\ (k > 3 => other[k - 2] = file[k - 2])
      BY <3>1, <1>3
    <3> QED BY <3>1, <3>2, <1>4
  <2>2. CASE k = p + 1
    <3>1. StartOfText(file[k]) /\ p \in 1 .. p /\ p + 1 \in 2 .. n + w BY <2>2, <1>2, <1>3 DEF n
    <3>2. file[p] # CR
      <4>1. StartOfText(other[p + 1]) BY <1>2, <1>3
      <4> QED BY <4>1, <3>1, <1>2, <1>3, <1>4, UnitFacts
    <3>3. k = 2 \/ (k > 3 /\ file[k - 2] = CR /\ file[k - 1] = LF)
      <4>1. StartOfText(other[p + 1]) BY <1>2, <1>3
      <4>2. p + 1 = 2 \/ (p + 1 > 3 /\ other[p + 1 - 2] = CR /\ other[p + 1 - 1] = LF)
        BY <4>1, <3>1, <1>4
      <4>3. p + 1 > 3 => p + 1 - 2 \in 1 .. p /\ p + 1 - 1 \in 1 .. p BY <1>2, <1>3
      <4> QED BY <4>2, <4>3, <2>2, <1>3
    <3> QED BY <3>1, <3>2, <3>3, <2>2, <1>3
  <2>3. CASE k > p + 1
    <3>1. k + w \in 2 .. n + w /\ k \in p + 1 .. n /\ k - 1 \in p + 1 .. n BY <2>3, <1>2, <1>3
    <3>2. (k + w) - 1 = (k - 1) + w /\ (k + w) - 2 = (k - 2) + w BY <1>2, <1>3
    <3>3. other[k + w] = file[k] /\ other[(k + w) - 1] = file[k - 1] BY <3>1, <3>2, <1>3
    <3>4. StartOfText(file[p + 1]) BY <2>3, <1>2, <1>3 DEF n
    <3>5. ASSUME StartOfText(file[k])
          PROVE  k > 3 /\ file[k - 2] = CR /\ file[k - 1] = LF
      <4>1. other[(k + w) - 2] = CR /\ file[k - 1] = LF
        <5>1. k + w # 2 BY <1>2
        <5> QED BY <5>1, <3>1, <3>3, <3>5, <1>4
      <4>2. k # p + 2
        <5>1. SUFFICES ASSUME k = p + 2 PROVE FALSE OBVIOUS
        <5>2. file[k - 1] = file[p + 1] BY <5>1, <1>3
        <5> QED BY <5>2, <4>1, <3>4, UnitFacts
      <4>3. k - 2 \in p + 1 .. n /\ k > 3 BY <4>2, <2>3, <1>2, <1>3
      <4> QED BY <4>1, <4>3, <3>2, <1>3
    <3> QED BY <3>1, <3>3, <3>5, <1>4
  <2> QED BY <2>1, <2>2, <2>3, <1>2, <1>3
<1> QED BY <1>1, <1>5, UnmixedIs DEF n

\* Behind a file whose last line lacks its line feed the texts are mixed.
LEMMA MixedBehind ==
    ASSUME NEW file, NEW other, NEW p, NEW text, PutIn(file, other, p, text), IsText(text),
           p = Len(file), file[p] = CR
    PROVE  ~Unmixed(other)
<1>1. file \in Seq(Units) /\ other \in Seq(Units) /\ text \in Seq(Units) BY DEF PutIn
<1>2. /\ Len(file) \in Nat /\ Len(text) \in Nat /\ Len(text) >= 1 /\ StartOfText(text[1])
  BY <1>1, UnitsOf, TextIs
<1>3. /\ p \in 1 .. Len(file) /\ Len(other) = Len(file) + Len(text) + 2
      /\ other[p] = CR /\ StartOfText(other[p + 1])
  BY <1>2 DEF PutIn
<1>4. p + 1 \in 2 .. Len(other) /\ (p + 1) - 1 = p BY <1>2, <1>3
<1>5. other[p + 1] # LF BY <1>3, UnitFacts
<1> QED BY <1>1, <1>3, <1>4, <1>5, UnmixedIs

\* The places of the texts that were there move with them.
LEMMA BeginsMove ==
    ASSUME NEW file, NEW other, NEW p, NEW text, PutIn(file, other, p, text), IsText(text)
    PROVE  /\ p + 1 \in Begins(other) /\ other[p + 1] = text[1]
           /\ \A k \in Begins(file) : k <= p => k \in Begins(other) /\ other[k] = file[k]
           /\ \A k \in Begins(file) : k > p =>
                 k + Len(text) + 2 \in Begins(other) /\ other[k + Len(text) + 2] = file[k]
           /\ Len(text) \in Nat /\ Len(text) >= 1
<1>1. file \in Seq(Units) /\ other \in Seq(Units) /\ text \in Seq(Units) BY DEF PutIn
<1>2. Len(file) \in Nat /\ Len(text) \in Nat /\ Len(text) >= 1 /\ StartOfText(text[1])
  BY <1>1, UnitsOf, TextIs
<1>3. /\ p \in 1 .. Len(file) /\ Len(other) = Len(file) + Len(text) + 2
      /\ other[p + 1] = text[1]
      /\ \A i \in 1 .. p : other[i] = file[i]
      /\ \A i \in p + 1 .. Len(file) : other[i + Len(text) + 2] = file[i]
  BY <1>2 DEF PutIn
<1>4. \A k : k \in Begins(file) <=> k \in 2 .. Len(file) /\ StartOfText(file[k]) BY <1>1, BeginsAre
<1>5. \A k : k \in Begins(other) <=> k \in 2 .. Len(other) /\ StartOfText(other[k]) BY <1>1, BeginsAre
<1>6. p + 1 \in 2 .. Len(other) BY <1>2, <1>3
<1>7. ASSUME NEW k \in Begins(file), k <= p PROVE k \in Begins(other) /\ other[k] = file[k]
  <2>1. k \in 2 .. Len(file) /\ StartOfText(file[k]) BY <1>4
  <2>2. k \in 1 .. p /\ k \in 2 .. Len(other) BY <2>1, <1>7, <1>2, <1>3
  <2> QED BY <2>1, <2>2, <1>3, <1>5
<1>8. ASSUME NEW k \in Begins(file), k > p
      PROVE  k + Len(text) + 2 \in Begins(other) /\ other[k + Len(text) + 2] = file[k]
  <2>1. k \in 2 .. Len(file) /\ StartOfText(file[k]) BY <1>4
  <2>2. k \in p + 1 .. Len(file) /\ k + Len(text) + 2 \in 2 .. Len(other)
    BY <2>1, <1>8, <1>2, <1>3
  <2> QED BY <2>1, <2>2, <1>3, <1>5
<1> QED BY <1>2, <1>3, <1>5, <1>6, <1>7, <1>8

\* No line out of order comes into order by it.
LEMMA StaysUnsorted ==
    ASSUME NEW file, NEW other, NEW p, NEW text, PutIn(file, other, p, text), IsText(text),
           Sorted(other)
    PROVE  Sorted(file)
<1> DEFINE w == Len(text) + 2   New(k) == IF k <= p THEN k ELSE k + w
<1>1. /\ file \in Seq(Units) /\ p \in 1 .. Len(file) BY DEF PutIn
<1>2. Len(file) \in Nat /\ \A k \in Begins(file) : k \in Nat BY <1>1, UnitsOf, BeginsAre
<1>3. /\ \A k \in Begins(file) : k <= p => k \in Begins(other) /\ other[k] = file[k]
      /\ \A k \in Begins(file) : k > p => k + w \in Begins(other) /\ other[k + w] = file[k]
      /\ w \in Nat
  <2>1. \A k \in Begins(file) : k + Len(text) + 2 = k + w /\ Len(text) \in Nat
    BY <1>2, BeginsMove
  <2>2. w \in Nat BY BeginsMove
  <2> HIDE DEF w
  <2> QED BY <2>1, <2>2, BeginsMove
<1> HIDE DEF w
<1>4. \A k \in Begins(file) : New(k) \in Begins(other) /\ other[New(k)] = file[k]
  BY <1>1, <1>2, <1>3
<1>5. \A j, k \in Begins(file) : j < k => New(j) < New(k) BY <1>1, <1>2, <1>3
<1> HIDE DEF New
<1> QED BY <1>4, <1>5 DEF Sorted

\* What is so behind every write before the start of a text.
LEMMA PutInFacts ==
    ASSUME NEW file, NEW other, NEW p, NEW text, PutIn(file, other, p, text),
           IsText(text), HasNo(CR, text),
           Unmixed(file), p < Len(file), StartOfText(file[p + 1])
    PROVE  LET n == Len(file)   l == Len(text)   w == l + 2
           IN  /\ file \in Seq(Units) /\ other \in Seq(Units) /\ text \in Seq(Units)
               /\ n \in Nat /\ l \in Nat /\ l >= 1 /\ w \in Nat /\ w >= 3 /\ w = l + 2
               /\ p \in Nat /\ p >= 1 /\ p < n /\ Len(other) = n + w
               /\ \A i \in 1 .. p : other[i] = file[i]
               /\ \A i \in 1 .. l : other[p + i] = text[i] /\ text[i] # CR
               /\ other[p + l + 1] = CR /\ other[p + w] = LF
               /\ \A i \in p + 1 .. n : other[i + w] = file[i]
               /\ StartOfText(other[p + 1]) /\ file[p] # CR
               /\ p = 1 \/ (p > 2 /\ file[p - 1] = CR /\ file[p] = LF)
               /\ \A k \in 2 .. n :
                     /\ file[k - 1] = CR => file[k] = LF
                     /\ StartOfText(file[k])
                          => k = 2 \/ (k > 3 /\ file[k - 2] = CR /\ file[k - 1] = LF)
<1> DEFINE n == Len(file)   l == Len(text)   w == l + 2
<1>1. file \in Seq(Units) /\ other \in Seq(Units) /\ text \in Seq(Units) BY DEF PutIn
<1>2. /\ n \in Nat /\ l \in Nat /\ l >= 1 /\ w \in Nat /\ w >= 3 /\ StartOfText(text[1])
  BY <1>1, UnitsOf, TextIs
<1>3. /\ p \in 1 .. n /\ Len(other) = n + l + 2
      /\ \A i \in 1 .. p : other[i] = file[i]
      /\ \A i \in 1 .. l : other[p + i] = text[i]
      /\ other[p + l + 1] = CR /\ other[p + l + 2] = LF
      /\ \A i \in p + 1 .. n : other[i + l + 2] = file[i]
  BY DEF PutIn
<1>4. p \in Nat /\ p >= 1 /\ p < n BY <1>2, <1>3
<1>5. \A k \in 2 .. n :
         /\ file[k - 1] = CR => file[k] = LF
         /\ StartOfText(file[k]) => k = 2 \/ (k > 3 /\ file[k - 2] = CR /\ file[k - 1] = LF)
  BY <1>1, UnmixedIs
<1>6. \A i \in 1 .. l : text[i] # CR BY DEF HasNo
<1>7. p + l + 2 = p + w /\ n + l + 2 = n + w /\ \A i \in p + 1 .. n : i + l + 2 = i + w
  BY <1>2, <1>4
<1>8. other[p + w] = LF /\ Len(other) = n + w /\ \A i \in p + 1 .. n : other[i + w] = file[i]
  BY <1>3, <1>7
<1>9. StartOfText(other[p + 1]) BY <1>2, <1>3
<1>10. p + 1 \in 2 .. n /\ (p + 1) - 1 = p /\ (p + 1) - 2 = p - 1 BY <1>4, <1>2
<1>11. file[p] # CR BY <1>5, <1>10, UnitFacts
<1>12. p = 1 \/ (p > 2 /\ file[p - 1] = CR /\ file[p] = LF) BY <1>5, <1>10, <1>4
<1>13. w = l + 2 OBVIOUS
<1> HIDE DEF n, l, w
<1>14. /\ n \in Nat /\ l \in Nat /\ l >= 1 /\ w \in Nat /\ w >= 3 /\ w = l + 2
       /\ p \in Nat /\ p >= 1 /\ p < n /\ Len(other) = n + w
       /\ \A i \in 1 .. l : other[p + i] = text[i] /\ text[i] # CR
       /\ other[p + l + 1] = CR /\ other[p + w] = LF
  BY <1>2, <1>3, <1>4, <1>6, <1>8, <1>13
<1> QED BY <1>1, <1>3, <1>5, <1>8, <1>9, <1>11, <1>12, <1>14 DEF n, l, w

\* Two files are the same up to a place.
Alike(file, other, p) ==
    /\ p \in 1 .. Len(file) /\ p <= Len(other)
    /\ \A i \in 1 .. p : other[i] = file[i]

\* A line that ends before that place is the same.
LEMMA AlikeLine ==
    ASSUME NEW file \in Seq(Units), NEW other \in Seq(Units), NEW p, Alike(file, other, p),
           NEW k \in 1 .. p, file[k] # CR, \E c \in k .. p : file[c] = CR
    PROVE  LineFrom(other, k) = LineFrom(file, k)
<1>1. /\ Len(file) \in Nat /\ Len(other) \in Nat /\ p \in 1 .. Len(file) /\ p <= Len(other)
      /\ \A i \in 1 .. p : other[i] = file[i]
  BY UnitsOf DEF Alike
<1>2. PICK c \in k .. p : file[c] = CR OBVIOUS
<1> DEFINE e == LineEnd(file, k)   d == 0
<1>3. k \in 1 .. Len(file) /\ k \in 1 .. Len(other) BY <1>1
<1>4. e \in k .. Len(file) /\ (\A i \in k .. e : file[i] # CR) /\ (e < Len(file) => file[e + 1] = CR)
  BY <1>3, LineEnds
<1>d. d \in Int /\ \A i \in Int : i + d = i OBVIOUS
<1> HIDE DEF e, d
<1>5. ~(e >= c)
  <2>1. SUFFICES ASSUME e >= c PROVE FALSE OBVIOUS
  <2>2. c \in k .. e BY <2>1, <1>1, <1>4
  <2> QED BY <2>2, <1>2, <1>4
<1>6. e \in Int /\ k \in Int /\ e + 1 \in 1 .. p /\ e < Len(file) /\ e < Len(other)
      /\ \A i \in k .. e : i \in 1 .. p /\ i + d = i
  BY <1>1, <1>2, <1>3, <1>4, <1>5, <1>d
<1>7. e + d = e /\ k + d = k BY <1>6, <1>d
<1>8. other[e + 1] = CR BY <1>1, <1>4, <1>6
<1>9. \A i \in k .. e : other[i + d] = file[i] BY <1>1, <1>6
<1>10. /\ k + d \in 1 .. Len(other) /\ e + d <= Len(other)
       /\ e + d < Len(other) => other[e + d + 1] = CR
  BY <1>1, <1>3, <1>6, <1>7, <1>8
<1>11. LineFrom(other, k + d) = LineFrom(file, k)
  BY ONLY file \in Seq(Units), other \in Seq(Units), file[k] # CR, <1>3, <1>d, <1>9, <1>10, SameLine DEF e
<1> QED BY <1>7, <1>11

LEMMA StopsAlike ==
    ASSUME NEW file \in Seq(Units), NEW other \in Seq(Units), NEW p, Alike(file, other, p),
           NEW i \in 1 .. p
    PROVE  StopsAt(other, i) <=> StopsAt(file, i)
<1>1. Len(file) \in Nat /\ p \in 1 .. Len(file) /\ \A k \in 1 .. p : other[k] = file[k]
  BY UnitsOf DEF Alike
<1> DEFINE mine(f) == {j \in 2 .. i : \A k \in j .. i : f[k] = CR}
<1>2. \A j \in 2 .. i : \A k \in j .. i : other[k] = file[k] BY <1>1
<1>3. mine(other) = mine(file) BY <1>2
<1>4. other[i] = file[i] BY <1>1
<1>5. \A f : StopsAt(f, i) <=> f[i] = CR /\ Cardinality(mine(f)) % 2 = 1 BY DEF StopsAt
<1> HIDE DEF mine
<1> QED BY <1>3, <1>4, <1>5

\* Behind a place that holds none, carriage returns stop getline wherever they move.
LEMMA StopsMoved ==
    ASSUME NEW file \in Seq(Units), NEW other \in Seq(Units), NEW p \in Nat, p >= 1,
           NEW w \in Nat, \A i \in p + 1 .. Len(file) : other[i + w] = file[i],
           p < Len(file), file[p + 1] # CR, NEW i \in p + 1 .. Len(file)
    PROVE  StopsAt(other, i + w) <=> StopsAt(file, i)
<1> DEFINE run == {j \in 2 .. i : \A k \in j .. i : file[k] = CR}
           moved == {j \in 2 .. i + w : \A k \in j .. i + w : other[k] = CR}
<1>1. Len(file) \in Nat /\ i \in Nat /\ i >= p + 1 BY UnitsOf
<1>2. ASSUME NEW j \in run PROVE j \in Nat /\ j > p + 1
  <2>1. SUFFICES ASSUME ~(j > p + 1) PROVE FALSE BY <1>1
  <2>2. p + 1 \in j .. i BY <2>1, <1>1
  <2> QED BY <2>2
<1>3. ASSUME NEW j \in moved PROVE j - w \in run /\ (j - w) + w = j
  <2>1. j > p + 1 + w
    <3>1. SUFFICES ASSUME ~(j > p + 1 + w) PROVE FALSE BY <1>1
    <3>2. (p + 1) + w \in j .. i + w /\ p + 1 \in p + 1 .. Len(file) BY <3>1, <1>1
    <3>3. other[(p + 1) + w] = CR BY <3>2
    <3> QED BY <3>2, <3>3
  <2>2. ASSUME NEW k \in j - w .. i PROVE file[k] = CR
    <3>1. k + w \in j .. i + w /\ k \in p + 1 .. Len(file) BY <2>1, <1>1
    <3> QED BY <3>1
  <2>3. j - w \in 2 .. i BY <2>1, <1>1
  <2> QED BY <2>2, <2>3
<1>4. ASSUME NEW j \in run PROVE j + w \in moved
  <2>1. ASSUME NEW k \in j + w .. i + w PROVE other[k] = CR
    <3>1. k - w \in j .. i /\ k - w \in p + 1 .. Len(file) /\ (k - w) + w = k BY <1>1, <1>2
    <3>2. file[k - w] = CR BY <3>1
    <3> QED BY <3>1, <3>2
  <2>2. j + w \in 2 .. i + w BY <1>1, <1>2
  <2> QED BY <2>1, <2>2
<1>5. IsFiniteSet(run) /\ run \subseteq Nat
  <2>1. IsFiniteSet(2 .. i) /\ run \subseteq 2 .. i BY <1>1, FS_Interval
  <2> HIDE DEF run
  <2> QED BY <2>1, <1>2, FS_Subset
<1>6. StopsAt(other, i + w) <=> other[i + w] = CR /\ Cardinality(moved) % 2 = 1 BY DEF StopsAt
<1>7. StopsAt(file, i) <=> file[i] = CR /\ Cardinality(run) % 2 = 1 BY DEF StopsAt
<1>8. other[i + w] = file[i] OBVIOUS
<1> HIDE DEF run, moved
<1>9. moved = {j + w : j \in run} BY <1>3, <1>4
<1>10. Cardinality(moved) = Cardinality(run) BY <1>5, <1>9, MovedCount
<1> QED BY <1>6, <1>7, <1>8, <1>10

\* What it is to put a text in, by itself.
LEMMA PutFacts ==
    ASSUME NEW file, NEW other, NEW p, NEW text, PutIn(file, other, p, text),
           IsText(text), HasNo(CR, text)
    PROVE  LET n == Len(file)   l == Len(text)   w == l + 2
           IN  /\ file \in Seq(Units) /\ other \in Seq(Units) /\ text \in Seq(Units)
               /\ n \in Nat /\ l \in Nat /\ l >= 1 /\ w \in Nat /\ w >= 3 /\ w = l + 2
               /\ p \in Nat /\ p >= 1 /\ p <= n /\ Len(other) = n + w
               /\ \A i \in 1 .. p : other[i] = file[i]
               /\ \A i \in 1 .. l : other[p + i] = text[i] /\ text[i] # CR
               /\ other[p + l + 1] = CR /\ other[p + w] = LF
               /\ \A i \in p + 1 .. n : other[i + w] = file[i]
               /\ StartOfText(other[p + 1])
<1> DEFINE n == Len(file)   l == Len(text)   w == l + 2
<1>1. file \in Seq(Units) /\ other \in Seq(Units) /\ text \in Seq(Units) BY DEF PutIn
<1>2. /\ n \in Nat /\ l \in Nat /\ l >= 1 /\ w \in Nat /\ w >= 3 /\ StartOfText(text[1])
  BY <1>1, UnitsOf, TextIs
<1>3. /\ p \in 1 .. n /\ Len(other) = n + l + 2
      /\ \A i \in 1 .. p : other[i] = file[i]
      /\ \A i \in 1 .. l : other[p + i] = text[i]
      /\ other[p + l + 1] = CR /\ other[p + l + 2] = LF
      /\ \A i \in p + 1 .. n : other[i + l + 2] = file[i]
  BY DEF PutIn
<1>4. p \in Nat /\ p >= 1 /\ p <= n BY <1>2, <1>3
<1>5. \A i \in 1 .. l : text[i] # CR BY DEF HasNo
<1>6. p + l + 2 = p + w /\ n + l + 2 = n + w /\ \A i \in p + 1 .. n : i + l + 2 = i + w
  BY <1>2, <1>4
<1>7. other[p + w] = LF /\ Len(other) = n + w /\ \A i \in p + 1 .. n : other[i + w] = file[i]
  BY <1>3, <1>6
<1>8. StartOfText(other[p + 1]) BY <1>2, <1>3
<1>9. w = l + 2 OBVIOUS
<1> HIDE DEF n, l, w
<1>10. /\ n \in Nat /\ l \in Nat /\ l >= 1 /\ w \in Nat /\ w >= 3 /\ w = l + 2
       /\ p \in Nat /\ p >= 1 /\ p <= n /\ Len(other) = n + w
       /\ \A i \in 1 .. l : other[p + i] = text[i] /\ text[i] # CR
       /\ other[p + l + 1] = CR /\ other[p + w] = LF
  BY <1>2, <1>3, <1>4, <1>5, <1>7, <1>9
<1> QED BY <1>1, <1>3, <1>7, <1>8, <1>10 DEF n, l, w

\* A scan begins a line behind the byte order mark, and behind the character that
\* is passed over where getline has stopped.
AtLine(file, q) == q = 1 \/ (q \in 3 .. Len(file) /\ StopsAt(file, q - 1))

LEMMA AtLineIs ==
    ASSUME NEW file \in Seq(Units), NEW q, AtLine(file, q)
    PROVE  q \in Nat /\ q >= 1 /\ ~StopsAt(file, q)
<1>1. Len(file) \in Nat BY UnitsOf
<1>2. CASE q = 1 BY <1>2, StopsBehind
<1>3. CASE q \in 3 .. Len(file) /\ StopsAt(file, q - 1)
  <2>1. q \in 2 .. Len(file) /\ q \in Nat /\ q >= 1 BY <1>1, <1>3
  <2> QED BY <2>1, <1>3, StopsNext
<1> QED BY <1>2, <1>3 DEF AtLine

\* A text that begins there is a line.
LEMMA AtLineStarts ==
    ASSUME NEW file \in Seq(Units), NEW q, AtLine(file, q), q < Len(file), StartOfText(file[q + 1])
    PROVE  q + 1 \in LineStarts(file)
<1>1. Len(file) \in Nat /\ q \in Nat /\ q >= 1 BY UnitsOf, AtLineIs
<1>2. q + 1 \in 2 .. Len(file) /\ (q + 1) - 2 = q - 1 BY <1>1
<1>3. q + 1 = 2 \/ StopsAt(file, q - 1) BY <1>1 DEF AtLine
<1> QED BY <1>2, <1>3, StartsAre

\* In an unmixed file all texts begin at such places.
LEMMA UnmixedLine ==
    ASSUME NEW file \in Seq(Units), Unmixed(file), NEW p \in 1 .. Len(file), p < Len(file),
           StartOfText(file[p + 1])
    PROVE  AtLine(file, p) /\ p + 1 \in LineStarts(file)
<1>1. Len(file) \in Nat BY UnitsOf
<1>2. p + 1 \in 2 .. Len(file) BY <1>1
<1>3. p + 1 \in Begins(file) BY <1>2, BeginsAre
<1>4. p + 1 \in LineStarts(file) BY <1>3, UnmixedStarts
<1>5. p + 1 = 2 \/ StopsAt(file, (p + 1) - 2) BY <1>4, StartsAre
<1>6. CASE p = 1 BY <1>4, <1>6 DEF AtLine
<1>7. CASE p # 1
  <2>1. p \in 2 .. Len(file) /\ (p + 1) - 2 = p - 1 /\ p + 1 # 2 /\ p - 1 \in Nat BY <1>1, <1>7
  <2>2. StopsAt(file, p - 1) BY <2>1, <1>5
  <2>3. p - 1 >= 2 BY <2>1, <2>2, StopsBehind
  <2>4. p \in 3 .. Len(file) BY <2>1, <2>3
  <2> QED BY <2>2, <2>4, <1>4 DEF AtLine
<1> QED BY <1>6, <1>7

\* Where the lines begin behind a write before one of them.
LEMMA StartsPut ==
    ASSUME NEW file, NEW other, NEW p, NEW text, PutIn(file, other, p, text),
           IsText(text), HasNo(CR, text), AtLine(file, p), p + 1 \in LineStarts(file)
    PROVE  LineStarts(other) = WithPlace(LineStarts(file), p, Len(text) + 2)
<1> DEFINE n == Len(file)   l == Len(text)   w == l + 2   S == LineStarts(file)
<1>1. /\ file \in Seq(Units) /\ other \in Seq(Units) /\ text \in Seq(Units)
      /\ n \in Nat /\ l \in Nat /\ l >= 1 /\ w \in Nat /\ w >= 3 /\ w = l + 2
      /\ p \in Nat /\ p >= 1 /\ p <= n /\ Len(other) = n + w
  BY PutFacts
<1>2. /\ \A i \in 1 .. p : other[i] = file[i]
      /\ \A i \in 1 .. l : other[p + i] = text[i] /\ text[i] # CR
      /\ other[p + l + 1] = CR /\ other[p + w] = LF
      /\ \A i \in p + 1 .. n : other[i + w] = file[i]
      /\ StartOfText(other[p + 1])
  BY PutFacts
<1>3. \A k : k \in S <=> k \in 2 .. n /\ StartOfText(file[k]) /\ (k = 2 \/ StopsAt(file, k - 2))
  BY <1>1, StartsAre
<1>4. \A k : k \in LineStarts(other) <=> /\ k \in 2 .. n + w /\ StartOfText(other[k])
                                         /\ k = 2 \/ StopsAt(other, k - 2)
  BY <1>1, StartsAre
<1>5. p < n /\ StartOfText(file[p + 1]) /\ file[p + 1] # CR BY <1>1, <1>3, UnitFacts
<1>6. \A i \in 1 .. p : StopsAt(other, i) <=> StopsAt(file, i)
  <2>1. Alike(file, other, p) BY <1>1, <1>2 DEF Alike
  <2> HIDE DEF w
  <2> QED BY <2>1, <1>1, StopsAlike
<1>7. \A i \in p + 1 .. n : StopsAt(other, i + w) <=> StopsAt(file, i)
  <2>1. ASSUME NEW i \in p + 1 .. n PROVE StopsAt(other, i + w) <=> StopsAt(file, i)
    <3>1. p \in Nat /\ p >= 1 /\ w \in Nat /\ p < Len(file) /\ i \in p + 1 .. Len(file) BY <1>1, <1>5
    <3>2. \A k \in p + 1 .. Len(file) : other[k + w] = file[k] BY <1>2
    <3> HIDE DEF w, n
    <3>3. file \in Seq(Units) /\ other \in Seq(Units) /\ file[p + 1] # CR BY <1>1, <1>5
    <3> QED BY ONLY <3>1, <3>2, <3>3, StopsMoved
  <2> QED BY <2>1
<1>8. ~StopsAt(file, p) /\ (p = 1 \/ StopsAt(file, p - 1)) BY <1>1, AtLineIs DEF AtLine
<1>s. \A i : StopsAt(other, i) => other[i] = CR BY DEF StopsAt
<1>r. p + 1 \in S OBVIOUS
<1> HIDE DEF n, l, w, S
<1>9. StopsAt(other, p + l + 1)
  <2>1. p + l + 1 \in 2 .. Len(other) /\ (p + l + 1) - 1 = p + l /\ l \in 1 .. l BY <1>1
  <2>2. other[(p + l + 1) - 1] # CR BY <2>1, <1>2
  <2> QED BY <2>1, <2>2, <1>1, <1>2, StopsAlone
<1>10. ASSUME NEW x \in LineStarts(other)
       PROVE  \/ x \in S /\ x <= p
              \/ x = p + 1
              \/ \E k \in S : k > p /\ x = k + w
  <2>1. x \in 2 .. n + w /\ StartOfText(other[x]) /\ (x = 2 \/ StopsAt(other, x - 2)) BY <1>4
  <2>2. CASE x <= p
    <3>1. x \in 1 .. p /\ x \in 2 .. n /\ (x # 2 => x - 2 \in 1 .. p) BY <2>1, <2>2, <1>1
    <3>2. StartOfText(file[x]) BY <3>1, <2>1, <1>2
    <3>3. x = 2 \/ StopsAt(file, x - 2) BY <3>1, <2>1, <1>6
    <3> QED BY <3>1, <3>2, <3>3, <2>2, <1>3
  <2>3. CASE x > p + 1 /\ x <= p + l
    <3>1. x # 2 /\ x - 2 >= p BY <2>3, <2>1, <1>1
    <3>2. x - 2 # p
      <4>1. p \in 1 .. p BY <1>1
      <4> QED BY <4>1, <3>1, <2>1, <1>6, <1>8
    <3>3. (x - 2) - p \in 1 .. l /\ p + ((x - 2) - p) = x - 2 BY <3>1, <3>2, <2>1, <2>3, <1>1
    <3>4. other[x - 2] # CR BY <3>3, <1>2
    <3> QED BY <3>1, <3>4, <2>1, <1>s
  <2>4. CASE x = p + l + 1 BY <2>4, <2>1, <1>2, UnitFacts
  <2>5. CASE x = p + w BY <2>5, <2>1, <1>2, UnitFacts
  <2>6. CASE x > p + w
    <3> DEFINE k == x - w
    <3>0. n \in Nat /\ w \in Nat /\ p \in Nat BY <1>1
    <3>1. k \in p + 1 .. n /\ k \in 2 .. n /\ k + w = x /\ x # 2 /\ k > p BY <2>1, <2>6, <1>1
    <3>2. StartOfText(file[k]) BY <3>1, <2>1, <1>2
    <3>3. k # p + 2
      <4>1. SUFFICES ASSUME k = p + 2 PROVE FALSE OBVIOUS
      <4>2. x - 2 = p + w BY <4>1, <3>1, <1>1
      <4> QED BY <4>2, <3>1, <2>1, <1>2, <1>s, UnitFacts
    <3>4. k \in S
      <4>1. CASE k = p + 1 BY <4>1, <1>r
      <4>2. CASE k # p + 1
        <5>1. k - 2 \in p + 1 .. n /\ (k - 2) + w = x - 2
          <6> HIDE DEF k
          <6> QED BY ONLY <4>2, <3>0, <3>1, <3>3, SMTT(30)
        <5>2. StopsAt(file, k - 2) BY <5>1, <3>1, <2>1, <1>7
        <5> QED BY <5>2, <3>1, <3>2, <1>3
      <4> QED BY <4>1, <4>2
    <3> HIDE DEF k
    <3> QED BY <3>1, <3>4
  <2> QED BY <2>1, <2>2, <2>3, <2>4, <2>5, <2>6, <1>1
<1>11. ASSUME NEW x \in S, x <= p PROVE x \in LineStarts(other)
  <2>1. x \in 2 .. n /\ StartOfText(file[x]) /\ (x = 2 \/ StopsAt(file, x - 2)) BY <1>3
  <2>2. x \in 1 .. p /\ x \in 2 .. n + w /\ (x # 2 => x - 2 \in 1 .. p) BY <2>1, <1>11, <1>1
  <2>3. StartOfText(other[x]) BY <2>1, <2>2, <1>2
  <2>4. x = 2 \/ StopsAt(other, x - 2) BY <2>1, <2>2, <1>6
  <2> QED BY <2>2, <2>3, <2>4, <1>4
<1>12. p + 1 \in LineStarts(other)
  <2>1. p + 1 \in 2 .. n + w /\ (p + 1) - 2 = p - 1 BY <1>1
  <2>2. CASE p = 1 BY <2>1, <2>2, <1>2, <1>4
  <2>3. CASE p # 1
    <3>1. p - 1 \in 1 .. p BY <2>3, <1>1
    <3>2. StopsAt(other, p - 1) BY <3>1, <2>3, <1>6, <1>8
    <3> QED BY <2>1, <3>2, <1>2, <1>4
  <2> QED BY <2>2, <2>3
<1>13. ASSUME NEW k \in S, k > p PROVE k + w \in LineStarts(other)
  <2>1. k \in 2 .. n /\ StartOfText(file[k]) /\ (k = 2 \/ StopsAt(file, k - 2)) BY <1>3
  <2>2. k \in p + 1 .. n /\ k + w \in 2 .. n + w BY <2>1, <1>13, <1>1
  <2>3. StartOfText(other[k + w]) BY <2>1, <2>2, <1>2
  <2>4. CASE k = p + 1
    <3>1. (k + w) - 2 = p + l + 1 BY <2>4, <1>1
    <3> QED BY <3>1, <2>2, <2>3, <1>4, <1>9
  <2>5. CASE k # p + 1
    <3>1. k # 2 /\ k # p + 2
      <4>1. k # 2 BY <2>2, <2>5, <1>1
      <4>2. k = p + 2 => k - 2 = p BY <1>1
      <4> QED BY <4>1, <4>2, <2>1, <1>8
    <3>2. k - 2 \in p + 1 .. n /\ (k + w) - 2 = (k - 2) + w BY <3>1, <2>2, <2>5, <1>1
    <3>3. StopsAt(other, (k + w) - 2) BY <3>1, <3>2, <2>1, <1>7
    <3> QED BY <3>3, <2>2, <2>3, <1>4
  <2> QED BY <2>4, <2>5
<1>14. \A x : x \in WithPlace(S, p, w)
                <=> \/ x \in S /\ x <= p
                    \/ x = p + 1
                    \/ \E k \in S : k > p /\ x = k + w
  BY DEF WithPlace
<1>15. \A x : x \in LineStarts(other) <=> x \in WithPlace(S, p, w)
  BY <1>10, <1>11, <1>12, <1>13, <1>14
<1> QED BY <1>15 DEF w, l, S

\* The lines that were there are the same, and one is the text.
LEMMA LinesFromPut ==
    ASSUME NEW file, NEW other, NEW p, NEW text, PutIn(file, other, p, text),
           IsText(text), HasNo(CR, text), AtLine(file, p), p + 1 \in LineStarts(file)
    PROVE  /\ LineFrom(other, p + 1) = text
           /\ \A k \in LineStarts(file) : k <= p => LineFrom(other, k) = LineFrom(file, k)
           /\ \A k \in LineStarts(file) : k > p =>
                 LineFrom(other, k + (Len(text) + 2)) = LineFrom(file, k)
<1> DEFINE n == Len(file)   l == Len(text)   w == l + 2   S == LineStarts(file)
<1>1. /\ file \in Seq(Units) /\ other \in Seq(Units) /\ text \in Seq(Units)
      /\ n \in Nat /\ l \in Nat /\ l >= 1 /\ w \in Nat /\ w >= 3 /\ w = l + 2
      /\ p \in Nat /\ p >= 1 /\ p <= n /\ Len(other) = n + w
  BY PutFacts
<1>2. /\ \A i \in 1 .. p : other[i] = file[i]
      /\ \A i \in 1 .. l : other[p + i] = text[i] /\ text[i] # CR
      /\ other[p + l + 1] = CR /\ other[p + w] = LF
      /\ \A i \in p + 1 .. n : other[i + w] = file[i]
  BY PutFacts
<1>4. \A k : k \in S <=> k \in 2 .. n /\ StartOfText(file[k]) /\ (k = 2 \/ StopsAt(file, k - 2))
  BY <1>1, StartsAre
<1>a. Alike(file, other, p) BY <1>1, <1>2 DEF Alike
<1> HIDE DEF n, l, w, S
<1>5. LineFrom(other, p + 1) = text
  <2> DEFINE a == p + 1   b == p + l   t == SubSeq(other, a, b)
  <2>1. a \in Nat /\ b \in a .. Len(other) /\ a \in 1 .. Len(other) + 1 /\ b \in a - 1 .. Len(other)
    BY <1>1
  <2>2. ASSUME NEW i \in a .. b PROVE other[i] # CR
    <3>1. i - p \in 1 .. l /\ p + (i - p) = i BY <1>1
    <3> QED BY <3>1, <1>2
  <2>3. other[b + 1] = CR BY <1>2
  <2>4. b - a + 1 = l /\ \A i \in 1 .. l : a + i - 1 = p + i BY <1>1
  <2> HIDE DEF a, b
  <2>5. LineEnd(other, a) = b BY <2>1, <2>2, <2>3, <1>1, LineEndIs
  <2>6. /\ t \in Seq(Units) /\ Len(t) = b - a + 1
        /\ \A i \in 1 .. b - a + 1 : t[i] = other[a + i - 1]
    BY <2>1, <1>1, PartOf
  <2> HIDE DEF t
  <2>7. ASSUME NEW i \in 1 .. l PROVE t[i] = text[i]
    <3>1. t[i] = other[a + i - 1] BY <2>4, <2>6
    <3> QED BY <3>1, <2>4, <1>2
  <2>8. t = text BY <2>4, <2>6, <2>7, <1>1, SameElements DEF l
  <2> QED BY <2>5, <2>8 DEF LineFrom, t, a
<1>6. ASSUME NEW k \in S
      PROVE  /\ k \in 1 .. n /\ file[k] # CR /\ k \in Int
             /\ LineEnd(file, k) \in k .. n
             /\ \A i \in k .. LineEnd(file, k) : file[i] # CR
             /\ LineEnd(file, k) < n => file[LineEnd(file, k) + 1] = CR
  <2>1. k \in 1 .. n /\ file[k] # CR /\ k \in Int BY <1>1, <1>4, UnitFacts
  <2> QED BY <2>1, <1>1, LineEnds DEF n
<1>7. ASSUME NEW k \in S, k <= p PROVE LineFrom(other, k) = LineFrom(file, k)
  <2>1. k \in 2 .. n /\ StartOfText(file[k]) /\ (k = 2 \/ StopsAt(file, k - 2)) BY <1>4
  <2>2. p \in 3 .. n /\ StopsAt(file, p - 1)
    <3>1. p # 1 BY <2>1, <1>7, <1>1
    <3> QED BY <3>1 DEF AtLine, n
  <2>3. file[p - 1] = CR BY <2>2 DEF StopsAt
  <2>4. k # p - 1 BY <2>1, <2>3, UnitFacts
  <2>5. k # p
    <3>1. SUFFICES ASSUME k = p PROVE FALSE OBVIOUS
    <3>2. p - 1 \in 2 .. n /\ k # 2 /\ k - 2 = (p - 1) - 1 BY <3>1, <2>2, <1>1
    <3>3. ~StopsAt(file, (p - 1) - 1) BY <3>2, <2>2, <1>1, StopsNext DEF n
    <3> QED BY <3>2, <3>3, <2>1
  <2>6. k \in 1 .. p /\ p - 1 \in k .. p BY <2>1, <2>2, <2>4, <2>5, <1>1, <1>7
  <2> QED BY <2>3, <2>6, <1>1, <1>6, <1>a, AlikeLine
<1>8. ASSUME NEW k \in S, k > p PROVE LineFrom(other, k + w) = LineFrom(file, k)
  <2> DEFINE e == LineEnd(file, k)
  <2>1. k \in 1 .. n /\ file[k] # CR BY <1>6
  <2>2. e \in k .. n /\ (e < n => file[e + 1] = CR) BY <1>6
  <2> HIDE DEF e
  <2>3. /\ k + w \in 1 .. Len(other) /\ e + w <= Len(other) /\ w \in Int
        /\ \A i \in k .. e : i \in p + 1 .. n
        /\ e + w < Len(other) => e < n /\ e + 1 \in p + 1 .. n
        /\ (e + 1) + w = e + w + 1
    BY <2>1, <2>2, <1>1, <1>8
  <2>4. \A i \in k .. e : other[i + w] = file[i] BY <2>3, <1>2
  <2>5. e + w < Len(other) => other[e + w + 1] = CR BY <2>2, <2>3, <1>2
  <2> QED BY <2>1, <2>3, <2>4, <2>5, <1>1, SameLine DEF n, e
<1> QED BY <1>5, <1>7, <1>8 DEF w, l, S

\* In an unmixed file that is before any text.
LEMMA StartsPutIn ==
    ASSUME NEW file, NEW other, NEW p, NEW text, PutIn(file, other, p, text),
           IsText(text), HasNo(CR, text),
           Unmixed(file), p < Len(file), StartOfText(file[p + 1])
    PROVE  LineStarts(other) = WithPlace(Begins(file), p, Len(text) + 2)
<1>1. file \in Seq(Units) /\ p \in 1 .. Len(file) BY DEF PutIn
<1>2. AtLine(file, p) /\ p + 1 \in LineStarts(file) BY <1>1, UnmixedLine
<1>3. LineStarts(file) = Begins(file) BY <1>1, UnmixedStarts
<1> QED BY <1>2, <1>3, StartsPut

LEMMA LinesFromPutIn ==
    ASSUME NEW file, NEW other, NEW p, NEW text, PutIn(file, other, p, text),
           IsText(text), HasNo(CR, text),
           Unmixed(file), p < Len(file), StartOfText(file[p + 1])
    PROVE  /\ LineFrom(other, p + 1) = text
           /\ \A k \in Begins(file) : k <= p => LineFrom(other, k) = LineFrom(file, k)
           /\ \A k \in Begins(file) : k > p =>
                 LineFrom(other, k + (Len(text) + 2)) = LineFrom(file, k)
<1>1. file \in Seq(Units) /\ p \in 1 .. Len(file) BY DEF PutIn
<1>2. AtLine(file, p) /\ p + 1 \in LineStarts(file) BY <1>1, UnmixedLine
<1>3. LineStarts(file) = Begins(file) BY <1>1, UnmixedStarts
<1> QED BY <1>2, <1>3, LinesFromPut

\* A text whose parts behind the first begin none.
Whole(text) == \A i \in 2 .. Len(text) : ~StartOfText(text[i])

\* Whole lines put between whole lines mix nothing.
LEMMA StaysUnmixed ==
    ASSUME NEW file, NEW other, NEW p, NEW text, PutIn(file, other, p, text),
           IsText(text), HasNo(CR, text), Whole(text),
           Unmixed(file), p < Len(file), StartOfText(file[p + 1])
    PROVE  Unmixed(other)
<1> DEFINE n == Len(file)   l == Len(text)   w == l + 2
<1>1. /\ file \in Seq(Units) /\ other \in Seq(Units) /\ text \in Seq(Units)
      /\ n \in Nat /\ l \in Nat /\ l >= 1 /\ w \in Nat /\ w >= 3 /\ w = l + 2
      /\ p \in Nat /\ p >= 1 /\ p < n /\ Len(other) = n + w
  BY PutInFacts
<1>2. /\ \A i \in 1 .. p : other[i] = file[i]
      /\ \A i \in 1 .. l : other[p + i] = text[i] /\ text[i] # CR
      /\ other[p + l + 1] = CR /\ other[p + w] = LF
      /\ \A i \in p + 1 .. n : other[i + w] = file[i]
      /\ StartOfText(other[p + 1]) /\ file[p] # CR
      /\ p = 1 \/ (p > 2 /\ file[p - 1] = CR /\ file[p] = LF)
  BY PutInFacts, SMTT(30)
<1>3. \A k \in 2 .. n :
         /\ file[k - 1] = CR => file[k] = LF
         /\ StartOfText(file[k]) => k = 2 \/ (k > 3 /\ file[k - 2] = CR /\ file[k - 1] = LF)
  BY PutInFacts
<1>4. \A i \in 2 .. l : ~StartOfText(text[i]) BY DEF Whole
<1>s. StartOfText(file[p + 1]) BY DEF n
<1> HIDE DEF n, l, w
<1>5. ASSUME NEW k \in 2 .. n + w
      PROVE  /\ other[k - 1] = CR => other[k] = LF
             /\ StartOfText(other[k])
                  => k = 2 \/ (k > 3 /\ other[k - 2] = CR /\ other[k - 1] = LF)
  <2>1. CASE k <= p
    <3>1. k \in 2 .. n /\ k \in 1 .. p /\ k - 1 \in 1 .. p /\ (k > 3 => k - 2 \in 1 .. p)
      BY <2>1, <1>1
    <3>2. other[k] = file[k] /\ other[k - 1] = file[k - 1]
          /\ (k > 3 => other[k - 2] = file[k - 2])
      BY <3>1, <1>2
    <3> QED BY <3>1, <3>2, <1>3
  <2>2. CASE k = p + 1
    <3>1. k - 1 = p /\ k - 2 = p - 1 /\ p \in 1 .. p /\ (p > 2 => p - 1 \in 1 .. p /\ k > 3)
      BY <2>2, <1>1
    <3>2. other[k - 1] # CR BY <3>1, <1>2
    <3>3. p > 2 => other[k - 2] = file[p - 1] /\ other[k - 1] = file[p] BY <3>1, <1>2
    <3> QED BY <2>2, <3>1, <3>2, <3>3, <1>1, <1>2
  <2>3. CASE k > p + 1 /\ k <= p + l
    <3>1. k - p \in 2 .. l /\ k - p \in 1 .. l /\ (k - 1) - p \in 1 .. l
          /\ p + (k - p) = k /\ p + ((k - 1) - p) = k - 1
      BY <2>3, <1>1
    <3>2. other[p + (k - p)] = text[k - p] BY <3>1, <1>2
    <3>3. other[p + ((k - 1) - p)] = text[(k - 1) - p] /\ text[(k - 1) - p] # CR BY <3>1, <1>2
    <3>4. other[k] = text[k - p] BY ONLY <3>1, <3>2
    <3>5. other[k - 1] # CR BY ONLY <3>1, <3>3
    <3> QED BY <3>1, <3>4, <3>5, <1>4
  <2>4. CASE k = p + l + 1
    <3>1. k - 1 = p + l /\ l \in 1 .. l BY <2>4, <1>1
    <3>2. other[k - 1] # CR /\ other[k] = CR BY <2>4, <3>1, <1>2
    <3> QED BY <3>2, UnitFacts
  <2>5. CASE k = p + w BY <2>5, <1>2, UnitFacts
  <2>6. CASE k = p + w + 1
    <3>1. k - 1 = p + w /\ k - 2 = p + l + 1 /\ k > 3 BY <2>6, <1>1
    <3> QED BY <3>1, <1>2, UnitFacts
  <2>7. CASE k > p + w + 1
    <3>1. k - w \in 2 .. n /\ k - w \in p + 1 .. n /\ (k - w) - 1 \in p + 1 .. n
          /\ (k - w) + w = k /\ ((k - w) - 1) + w = k - 1 /\ ((k - w) - 2) + w = k - 2
          /\ k - w # 2 /\ k > 3
      BY <2>7, <1>1
    <3>2. other[k] = file[k - w] /\ other[k - 1] = file[(k - w) - 1] BY <3>1, <1>2
    <3>3. ASSUME StartOfText(other[k]) PROVE other[k - 2] = CR /\ other[k - 1] = LF
      <4>1. file[(k - w) - 2] = CR /\ file[(k - w) - 1] = LF BY <3>1, <3>2, <3>3, <1>3
      <4>2. (k - w) - 2 # p BY <4>1, <1>2
      <4>3. (k - w) - 2 \in p + 1 .. n BY <4>2, <3>1, <1>1
      <4> QED BY <4>1, <4>3, <3>1, <3>2, <1>2
    <3> QED BY <3>1, <3>2, <3>3, <1>3
  <2> QED BY <2>1, <2>2, <2>3, <2>4, <2>5, <2>6, <2>7, <1>1
<1> QED BY <1>1, <1>5, UnmixedIs

\* A line is put among others.
Among(before, after, m, line) ==
    /\ before \in Seq(Seq(Units)) /\ after \in Seq(Seq(Units))
    /\ m \in 0 .. Len(before) /\ Len(after) = Len(before) + 1
    /\ after[m + 1] = line
    /\ \A n \in 1 .. m : after[n] = before[n]
    /\ \A n \in m + 1 .. Len(before) : after[n + 1] = before[n]

LEMMA AmongTypes ==
    ASSUME NEW before, NEW after, NEW m, NEW line, Among(before, after, m, line)
    PROVE  /\ Len(before) \in Nat /\ DOMAIN before = 1 .. Len(before) /\ m \in Nat
           /\ DOMAIN after = 1 .. Len(before) + 1 /\ m <= Len(before)
           /\ \A n \in 1 .. Len(before) + 1 :
                \/ n \in 1 .. m /\ after[n] = before[n]
                \/ n = m + 1 /\ after[n] = line
                \/ n - 1 \in m + 1 .. Len(before) /\ after[n] = before[n - 1]
<1>1. /\ before \in Seq(Seq(Units)) /\ after \in Seq(Seq(Units))
      /\ m \in 0 .. Len(before) /\ Len(after) = Len(before) + 1
      /\ after[m + 1] = line
      /\ \A n \in 1 .. m : after[n] = before[n]
      /\ \A n \in m + 1 .. Len(before) : after[n + 1] = before[n]
  BY DEF Among
<1>2. Len(before) \in Nat /\ DOMAIN before = 1 .. Len(before) BY <1>1, LenProperties
<1>3. DOMAIN after = 1 .. Len(before) + 1 BY <1>1, LenProperties
<1>4. ASSUME NEW n \in 1 .. Len(before) + 1
      PROVE  \/ n \in 1 .. m /\ after[n] = before[n]
             \/ n = m + 1 /\ after[n] = line
             \/ n - 1 \in m + 1 .. Len(before) /\ after[n] = before[n - 1]
  <2>1. CASE n <= m BY <2>1, <1>1, <1>2
  <2>2. CASE n = m + 1 BY <2>2, <1>1
  <2>3. CASE n > m + 1
    <3>1. n - 1 \in m + 1 .. Len(before) /\ (n - 1) + 1 = n BY <2>3, <1>1, <1>2
    <3> QED BY <3>1, <1>1
  <2> QED BY <2>1, <2>2, <2>3, <1>1, <1>2
<1> QED BY <1>1, <1>2, <1>3, <1>4

\* Without it, they are what they were.
LEMMA AmongWithout ==
    ASSUME NEW before, NEW after, NEW m, NEW line, Among(before, after, m, line)
    PROVE  m + 1 \in DOMAIN after /\ DayLog!Without(before, after, m + 1)
<1> DEFINE b == Len(before)   k == m + 1
           s == SubSeq(after, 1, k - 1)   t == SubSeq(after, k + 1, Len(after))
           both == s \o t
<1>1. /\ before \in Seq(Seq(Units)) /\ after \in Seq(Seq(Units))
      /\ m \in 0 .. b /\ Len(after) = b + 1
      /\ \A n \in 1 .. m : after[n] = before[n]
      /\ \A n \in m + 1 .. b : after[n + 1] = before[n]
  BY DEF Among
<1>2. b \in Nat /\ DOMAIN after = 1 .. b + 1 BY AmongTypes
<1>3. /\ s \in Seq(Seq(Units)) /\ Len(s) = m
      /\ \A i \in 1 .. m : s[i] = after[i]
  <2>1. 1 \in 1 .. Len(after) + 1 /\ k - 1 \in 1 - 1 .. Len(after) /\ k - 1 = m /\ m - 1 + 1 = m
        /\ \A i \in 1 .. m : 1 + i - 1 = i
    BY <1>1, <1>2
  <2>2. /\ SubSeq(after, 1, m) \in Seq(Seq(Units)) /\ Len(SubSeq(after, 1, m)) = m - 1 + 1
        /\ \A i \in 1 .. m - 1 + 1 : SubSeq(after, 1, m)[i] = after[1 + i - 1]
    BY <2>1, <1>1, PartOf
  <2> QED BY <2>1, <2>2
<1>4. /\ t \in Seq(Seq(Units)) /\ Len(t) = b - m
      /\ \A i \in 1 .. b - m : t[i] = after[m + 1 + i]
  <2> DEFINE x == k + 1   y == Len(after)
  <2>1. /\ x \in 1 .. Len(after) + 1 /\ y \in x - 1 .. Len(after) /\ y - x + 1 = b - m
        /\ \A i \in 1 .. b - m : x + i - 1 = m + 1 + i
    BY <1>1, <1>2
  <2> HIDE DEF x, y
  <2>2. /\ SubSeq(after, x, y) \in Seq(Seq(Units)) /\ Len(SubSeq(after, x, y)) = y - x + 1
        /\ \A i \in 1 .. y - x + 1 : SubSeq(after, x, y)[i] = after[x + i - 1]
    BY <2>1, <1>1, PartOf
  <2> QED BY <2>1, <2>2 DEF x, y
<1> HIDE DEF s, t
<1>5. /\ both \in Seq(Seq(Units)) /\ Len(both) = Len(s) + Len(t)
      /\ \A i \in 1 .. Len(s) + Len(t) : both[i] = IF i <= Len(s) THEN s[i] ELSE t[i - Len(s)]
  BY <1>3, <1>4, ConcatProperties
<1> HIDE DEF both
<1>6. Len(s) + Len(t) = b BY <1>1, <1>2, <1>3, <1>4
<1>7. ASSUME NEW i \in 1 .. b PROVE before[i] = both[i]
  <2>1. CASE i <= m
    <3>1. i \in 1 .. m BY <2>1
    <3> QED BY <2>1, <3>1, <1>1, <1>3, <1>5, <1>6
  <2>2. CASE ~(i <= m)
    <3>1. i - m \in 1 .. b - m /\ m + 1 + (i - m) = i + 1 /\ i \in m + 1 .. b
      BY <2>2, <1>1, <1>2
    <3>2. both[i] = t[i - m] BY <2>2, <1>3, <1>5, <1>6
    <3> QED BY <3>1, <3>2, <1>1, <1>4
  <2> QED BY <2>1, <2>2
<1>8. before = both BY <1>1, <1>5, <1>6, <1>7, SameElements
<1>9. m + 1 \in DOMAIN after BY <1>1, <1>2
<1> QED BY <1>1, <1>8, <1>9 DEF DayLog!Without, both, s, t

\* They are in order, if it is at its place.
LEMMA AmongInOrder ==
    ASSUME NEW before, NEW after, NEW m, NEW line, Among(before, after, m, line),
           InOrder(before),
           \A n \in 1 .. m : TimeOf(before[n]) <= TimeOf(line),
           \A n \in m + 1 .. Len(before) : TimeOf(line) <= TimeOf(before[n]),
           TimeOf(line) \in Nat, \A n \in 1 .. Len(before) : TimeOf(before[n]) \in Nat
    PROVE  InOrder(after)
<1> DEFINE b == Len(before)
<1>1. /\ b \in Nat /\ DOMAIN before = 1 .. b /\ m \in Nat
      /\ DOMAIN after = 1 .. b + 1 /\ m <= b
  BY AmongTypes
<1>2. \A n \in 1 .. b + 1 :
         \/ n \in 1 .. m /\ after[n] = before[n]
         \/ n = m + 1 /\ after[n] = line
         \/ n - 1 \in m + 1 .. b /\ after[n] = before[n - 1]
  BY AmongTypes
<1> HIDE DEF b
<1>3. \A j, k \in 1 .. b : j <= k => TimeOf(before[j]) <= TimeOf(before[k])
  <2>1. \A j, k \in 1 .. b : j < k => TimeOf(before[j]) <= TimeOf(before[k])
    BY <1>1 DEF InOrder
  <2>2. \A j \in 1 .. b : TimeOf(before[j]) \in Nat BY DEF b
  <2> QED BY <2>1, <2>2
<1>4. ASSUME NEW j \in 1 .. b + 1, NEW k \in 1 .. b + 1, j < k
      PROVE  TimeOf(after[j]) <= TimeOf(after[k])
  <2>1. CASE k \in 1 .. m /\ after[k] = before[k]
    <3>1. j \in 1 .. m /\ j \in 1 .. b /\ k \in 1 .. b /\ j # m + 1 /\ j - 1 \notin m + 1 .. b
      BY <2>1, <1>1, <1>4
    <3>2. after[j] = before[j] BY <3>1, <1>2
    <3> QED BY <2>1, <3>1, <3>2, <1>3, <1>4
  <2>2. CASE k = m + 1 /\ after[k] = line
    <3>1. j \in 1 .. m /\ j # m + 1 /\ j - 1 \notin m + 1 .. b BY <2>2, <1>1, <1>4
    <3>2. after[j] = before[j] BY <3>1, <1>2
    <3> QED BY <2>2, <3>1, <3>2
  <2>3. CASE k - 1 \in m + 1 .. b /\ after[k] = before[k - 1]
    <3>1. CASE j \in 1 .. m /\ after[j] = before[j]
      <4>1. j \in 1 .. b /\ k - 1 \in 1 .. b /\ j <= k - 1 BY <2>3, <3>1, <1>1
      <4> QED BY <2>3, <3>1, <4>1, <1>3
    <3>2. CASE j = m + 1 /\ after[j] = line BY <2>3, <3>2 DEF b
    <3>3. CASE j - 1 \in m + 1 .. b /\ after[j] = before[j - 1]
      <4>1. j - 1 \in 1 .. b /\ k - 1 \in 1 .. b /\ j - 1 <= k - 1 BY <2>3, <3>3, <1>1, <1>4
      <4> QED BY <2>3, <3>3, <4>1, <1>3
    <3> QED BY <3>1, <3>2, <3>3, <1>2
  <2> QED BY <2>1, <2>2, <2>3, <1>2
<1> QED BY <1>1, <1>4 DEF InOrder

\* One more of it, and as many of the others.
LEMMA AmongTimes ==
    ASSUME NEW before, NEW after, NEW m, NEW line, Among(before, after, m, line), NEW x
    PROVE  /\ Times(x, before) \in Nat
           /\ Times(x, after) = IF x = line THEN Times(x, before) + 1 ELSE Times(x, before)
<1> DEFINE b == Len(before)   A == {k \in 1 .. b : before[k] = x}
           B == {k \in 1 .. b + 1 : after[k] = x}
           T == WithPlace(A, m, 1)
<1>1. /\ b \in Nat /\ DOMAIN before = 1 .. b /\ m \in Nat
      /\ DOMAIN after = 1 .. b + 1 /\ m <= b
  BY AmongTypes
<1>2. /\ after[m + 1] = line
      /\ \A n \in 1 .. m : after[n] = before[n]
      /\ \A n \in m + 1 .. b : after[n + 1] = before[n]
      /\ \A n \in 1 .. b + 1 :
           \/ n \in 1 .. m /\ after[n] = before[n]
           \/ n = m + 1 /\ after[n] = line
           \/ n - 1 \in m + 1 .. b /\ after[n] = before[n - 1]
  <2>1. /\ after[m + 1] = line
        /\ \A n \in 1 .. m : after[n] = before[n]
        /\ \A n \in m + 1 .. b : after[n + 1] = before[n]
    BY DEF Among
  <2> QED BY <2>1, AmongTypes
<1>3. Times(x, before) = Cardinality(A) /\ Times(x, after) = Cardinality(B) BY <1>1 DEF Times
<1>4. Places(A, b) /\ Places(B, b + 1) BY <1>1 DEF Places
<1>a. \A k : k \in A <=> k \in 1 .. b /\ before[k] = x OBVIOUS
<1>b. \A k : k \in B <=> k \in 1 .. b + 1 /\ after[k] = x OBVIOUS
<1>t. \A k : k \in T <=> (k \in A /\ k <= m) \/ k = m + 1 \/ (\E j \in A : j > m /\ k = j + 1)
  BY DEF WithPlace
<1> HIDE DEF A, B, T, b
<1>5. Cardinality(A) \in Nat /\ IsFiniteSet(B) /\ Cardinality(B) \in Nat BY <1>4, PlacesFinite
<1>6. Cardinality(T) = Cardinality(A) + 1
  <2>1. 1 \in Nat \ {0} OBVIOUS
  <2> QED BY <2>1, <1>1, <1>4, PlacePutIn DEF T
<1>7. ASSUME NEW k PROVE k \in B \/ k = m + 1 <=> k \in T
  <2>1. ASSUME k \in B PROVE k \in T
    <3>1. k \in 1 .. b + 1 /\ after[k] = x BY <2>1, <1>b
    <3>2. CASE k \in 1 .. m /\ after[k] = before[k]
      <4>1. k \in 1 .. b /\ k <= m BY <3>2, <1>1
      <4> QED BY <4>1, <3>1, <3>2, <1>a, <1>t
    <3>3. CASE k = m + 1 BY <3>3, <1>t
    <3>4. CASE k - 1 \in m + 1 .. b /\ after[k] = before[k - 1]
      <4>1. k - 1 \in 1 .. b /\ k - 1 > m /\ k = (k - 1) + 1 BY <3>1, <3>4, <1>1
      <4>2. k - 1 \in A BY <4>1, <3>1, <3>4, <1>a
      <4> QED BY <4>1, <4>2, <1>t
    <3> QED BY <3>1, <3>2, <3>3, <3>4, <1>2
  <2>2. ASSUME k \in T, k # m + 1 PROVE k \in B
    <3>1. CASE k \in A /\ k <= m
      <4>1. k \in 1 .. m /\ k \in 1 .. b + 1 /\ before[k] = x BY <3>1, <1>a, <1>1
      <4> QED BY <4>1, <1>2, <1>b
    <3>2. CASE \E j \in A : j > m /\ k = j + 1
      <4>1. PICK j \in A : j > m /\ k = j + 1 BY <3>2
      <4>2. j \in m + 1 .. b /\ k \in 1 .. b + 1 /\ before[j] = x BY <4>1, <1>a, <1>1
      <4> QED BY <4>1, <4>2, <1>2, <1>b
    <3> QED BY <2>2, <3>1, <3>2, <1>t
  <2>3. k = m + 1 => k \in T BY <1>t
  <2> QED BY <2>1, <2>2, <2>3
<1>8. m + 1 \in B <=> x = line BY <1>1, <1>2, <1>b
<1>9. B \cup {m + 1} = T BY <1>7
<1>10. Cardinality(T) = IF m + 1 \in B THEN Cardinality(B) ELSE Cardinality(B) + 1
  BY <1>5, <1>9, FS_AddElement
<1> QED BY <1>3, <1>5, <1>6, <1>8, <1>10

\* What a file holds that is written over from a position on.
LEMMA WrittenOver ==
    ASSUME NEW file \in Seq(Units), NEW pos \in 0 .. Len(file), NEW units \in Seq(Units)
    PROVE  /\ Overwrite(file, pos, units) \in Seq(Units)
           /\ Len(Overwrite(file, pos, units)) >= pos + Len(units)
           /\ Len(Overwrite(file, pos, units)) >= Len(file)
           /\ Len(Overwrite(file, pos, units)) = pos + Len(units)
                 \/ Len(Overwrite(file, pos, units)) = Len(file)
           /\ \A i \in 1 .. pos : Overwrite(file, pos, units)[i] = file[i]
           /\ \A i \in 1 .. Len(units) : Overwrite(file, pos, units)[pos + i] = units[i]
           /\ \A i \in pos + Len(units) + 1 .. Len(file) : Overwrite(file, pos, units)[i] = file[i]
<1> DEFINE a == SubSeq(file, 1, pos)
           n == Len(file)   u == Len(units)
           rest == SubSeq(file, pos + u + 1, n)
           both == a \o units
           new == both \o rest
<1>1. n \in Nat /\ u \in Nat /\ pos \in Nat /\ pos <= n
      /\ (\A i \in 1 .. n : file[i] \in Units)
  BY LenProperties
<1>2. new = Overwrite(file, pos, units) BY DEF Overwrite
<1>3. a \in Seq(Units) /\ Len(a) = pos /\ (\A i \in 1 .. pos : a[i] = file[i])
  <2>1. 1 \in 1 .. Len(file) + 1 /\ pos \in 1 - 1 .. Len(file) /\ pos - 1 + 1 = pos BY <1>1
  <2>2. /\ a \in Seq(Units) /\ Len(a) = pos - 1 + 1
        /\ \A i \in 1 .. pos - 1 + 1 : a[i] = file[1 + i - 1]
    BY <2>1, PartOf
  <2> HIDE DEF a
  <2>3. \A i \in 1 .. pos : 1 + i - 1 = i BY <1>1
  <2> QED BY <2>1, <2>2, <2>3
<1>4. /\ rest \in Seq(Units)
      /\ Len(rest) = IF pos + u + 1 <= n THEN n - (pos + u) ELSE 0
      /\ \A i \in 1 .. n - (pos + u) : rest[i] = file[pos + u + i]
  <2>1. pos + u + 1 \in Int /\ n \in Int /\ (\A i \in pos + u + 1 .. n : file[i] \in Units) BY <1>1
  <2>2. n - (pos + u + 1) + 1 = n - (pos + u) BY <1>1
  <2> DEFINE m == pos + u + 1
  <2> HIDE DEF m, n
  <2>3. /\ SubSeq(file, m, n) \in Seq(Units)
        /\ Len(SubSeq(file, m, n)) = IF m <= n THEN n - m + 1 ELSE 0
        /\ \A i \in 1 .. n - m + 1 : SubSeq(file, m, n)[i] = file[m + i - 1]
    BY <2>1, SubSeqProperties DEF m
  <2>4. n - m + 1 = n - (pos + u) /\ (\A i \in Nat : m + i - 1 = pos + u + i) BY <1>1 DEF m
  <2>5. rest = SubSeq(file, m, n) BY DEF m
  <2> HIDE DEF rest
  <2>6. Len(rest) = IF pos + u + 1 <= n THEN n - (pos + u) ELSE 0
    BY <2>3, <2>4, <2>5 DEF m
  <2>7. ASSUME NEW i \in 1 .. n - (pos + u) PROVE rest[i] = file[pos + u + i]
    <3>1. i \in Nat /\ i \in 1 .. n - m + 1 BY <2>4, <1>1
    <3>2. rest[i] = file[m + i - 1] BY <3>1, <2>3, <2>5
    <3> QED BY <3>1, <3>2, <2>4
  <2> QED BY <2>3, <2>5, <2>6, <2>7
<1> HIDE DEF a, rest
<1>5. /\ both \in Seq(Units) /\ Len(both) = pos + u
      /\ \A i \in 1 .. pos + u : both[i] = IF i <= pos THEN a[i] ELSE units[i - pos]
  BY <1>3, ConcatProperties
<1> HIDE DEF both, n, u
<1>6. /\ new \in Seq(Units) /\ Len(new) = Len(both) + Len(rest)
      /\ \A i \in 1 .. Len(both) + Len(rest) :
            new[i] = IF i <= Len(both) THEN both[i] ELSE rest[i - Len(both)]
  BY <1>4, <1>5, ConcatProperties
<1> HIDE DEF new
<1>7. Len(new) = IF pos + u + 1 <= n THEN n ELSE pos + u
  BY <1>1, <1>4, <1>5, <1>6
<1>8. \A i \in 1 .. pos + u : new[i] = IF i <= pos THEN a[i] ELSE units[i - pos]
  <2>1. SUFFICES ASSUME NEW i \in 1 .. pos + u
                 PROVE  new[i] = IF i <= pos THEN a[i] ELSE units[i - pos]
    OBVIOUS
  <2>2. Len(rest) \in Nat BY <1>1, <1>4
  <2>3. i \in 1 .. Len(both) + Len(rest) /\ i <= Len(both) BY <1>1, <1>5, <2>2
  <2>4. new[i] = both[i] BY <1>6, <2>3
  <2> QED BY <1>5, <2>4
<1>9. \A i \in 1 .. pos : new[i] = file[i]
  <2>1. \A i \in 1 .. pos : i \in 1 .. pos + u /\ i <= pos BY <1>1
  <2> QED BY <1>3, <1>8, <2>1
<1>10. \A i \in 1 .. u : new[pos + i] = units[i]
  <2>1. SUFFICES ASSUME NEW i \in 1 .. u PROVE new[pos + i] = units[i] OBVIOUS
  <2> DEFINE k == pos + i
  <2>2. k \in 1 .. pos + u /\ ~(k <= pos) /\ k - pos = i BY <1>1
  <2> HIDE DEF k
  <2>3. new[k] = units[k - pos] BY <1>8, <2>2
  <2> QED BY <2>2, <2>3 DEF k
<1>11. \A i \in pos + u + 1 .. n : new[i] = file[i]
  <2>1. SUFFICES ASSUME NEW i \in pos + u + 1 .. n PROVE new[i] = file[i] OBVIOUS
  <2> DEFINE k == i - (pos + u)
  <2>2. k \in 1 .. n - (pos + u) /\ pos + u + k = i /\ i \in 1 .. n BY <1>1
  <2>3. pos + u + 1 <= n BY <1>1
  <2>4. Len(both) + Len(rest) = n BY <1>1, <1>4, <1>5, <2>3
  <2>5. ~(i <= Len(both)) /\ i - Len(both) = k BY <1>1, <1>5
  <2> HIDE DEF k
  <2>6. new[i] = rest[i - Len(both)] BY <1>6, <2>2, <2>4, <2>5
  <2> QED BY <1>4, <2>2, <2>5, <2>6
<1>12. Len(new) >= pos + u /\ Len(new) >= n /\ (Len(new) = pos + u \/ Len(new) = n)
  BY <1>1, <1>7
<1> QED BY <1>2, <1>6, <1>9, <1>10, <1>11, <1>12 DEF n, u

\* A sequence behind another.
LEMMA Joined ==
    ASSUME NEW s \in Seq(Units), NEW t \in Seq(Units)
    PROVE  /\ s \o t \in Seq(Units) /\ Len(s \o t) = Len(s) + Len(t)
           /\ Len(s) \in Nat /\ Len(t) \in Nat
           /\ \A i \in 1 .. Len(s) : (s \o t)[i] = s[i]
           /\ \A i \in 1 .. Len(t) : (s \o t)[Len(s) + i] = t[i]
<1>1. Len(s) \in Nat /\ Len(t) \in Nat BY LenProperties
<1>2. /\ s \o t \in Seq(Units) /\ Len(s \o t) = Len(s) + Len(t)
      /\ \A i \in 1 .. Len(s) + Len(t) : (s \o t)[i] = IF i <= Len(s) THEN s[i] ELSE t[i - Len(s)]
  BY ConcatProperties
<1>3. ASSUME NEW i \in 1 .. Len(s) PROVE (s \o t)[i] = s[i]
  <2>1. i \in 1 .. Len(s) + Len(t) /\ i <= Len(s) BY <1>1
  <2> QED BY <2>1, <1>2
<1>4. ASSUME NEW i \in 1 .. Len(t) PROVE (s \o t)[Len(s) + i] = t[i]
  <2> DEFINE k == Len(s) + i
  <2>1. k \in 1 .. Len(s) + Len(t) /\ ~(k <= Len(s)) /\ k - Len(s) = i BY <1>1
  <2> HIDE DEF k
  <2>2. (s \o t)[k] = t[k - Len(s)] BY <1>2, <2>1
  <2> QED BY <2>1, <2>2 DEF k
<1> QED BY <1>1, <1>2, <1>3, <1>4

\* What a call writes: its text and the end of a line.
LEMMA LineIsWritten ==
    ASSUME NEW message, message.text \in Seq(Units)
    PROVE  LET l == Len(message.text)
           IN  /\ Line(message) \in Seq(Units) /\ Len(Line(message)) = l + 2 /\ l \in Nat
               /\ \A i \in 1 .. l : Line(message)[i] = message.text[i]
               /\ Line(message)[l + 1] = CR /\ Line(message)[l + 2] = LF
<1> DEFINE l == Len(message.text)   s == message.text   t == <<CR, LF>>
<1>1. t \in Seq(Units) /\ Len(t) = 2 /\ t[1] = CR /\ t[2] = LF BY UnitFacts
<1> HIDE DEF t, s
<1>s. s \in Seq(Units) BY DEF s
<1>2. /\ s \o t \in Seq(Units) /\ Len(s \o t) = Len(s) + Len(t)
      /\ Len(s) \in Nat
      /\ \A i \in 1 .. Len(s) : (s \o t)[i] = s[i]
      /\ \A i \in 1 .. Len(t) : (s \o t)[Len(s) + i] = t[i]
  BY ONLY <1>1, <1>s, Joined
<1>3. 1 \in 1 .. Len(t) /\ 2 \in 1 .. Len(t) BY <1>1
<1>4. (s \o t)[Len(s) + 1] = CR /\ (s \o t)[Len(s) + 2] = LF BY <1>1, <1>2, <1>3
<1>5. Line(message) = s \o t BY DEF Line, s, t
<1> QED BY <1>1, <1>2, <1>4, <1>5 DEF s

\* The write of a call puts its line in at its place.
LEMMA WritePutsIn ==
    ASSUME NEW message, message.text \in Seq(Units),
           NEW file \in Seq(Units), NEW p \in 1 .. Len(file),
           NEW rest, rest = SubSeq(file, p + 1, Len(file))
    PROVE  PutIn(file, Overwrite(file, p, Line(message) \o rest), p, message.text)
<1> DEFINE n == Len(file)   l == Len(message.text)   line == Line(message)
           units == line \o rest   other == Overwrite(file, p, units)
<1>1. n \in Nat /\ p \in Nat /\ p >= 1 /\ p <= n BY UnitsOf
<1>2. /\ line \in Seq(Units) /\ Len(line) = l + 2 /\ l \in Nat
      /\ \A i \in 1 .. l : line[i] = message.text[i]
      /\ line[l + 1] = CR /\ line[l + 2] = LF
  BY LineIsWritten
<1>3. /\ rest \in Seq(Units) /\ Len(rest) = n - p
      /\ \A i \in 1 .. n - p : rest[i] = file[p + i]
  <2> DEFINE a == p + 1
  <2>1. a \in 1 .. n + 1 /\ n \in a - 1 .. n /\ n - a + 1 = n - p
        /\ \A i \in 1 .. n - p : a + i - 1 = p + i
    BY <1>1
  <2> HIDE DEF a
  <2>2. /\ SubSeq(file, a, n) \in Seq(Units) /\ Len(SubSeq(file, a, n)) = n - a + 1
        /\ \A i \in 1 .. n - a + 1 : SubSeq(file, a, n)[i] = file[a + i - 1]
    BY <2>1, PartOf
  <2>3. rest = SubSeq(file, a, n) BY DEF a
  <2> QED BY <2>1, <2>2, <2>3
<1> HIDE DEF line
<1>4. /\ units \in Seq(Units) /\ Len(units) = Len(line) + Len(rest)
      /\ \A i \in 1 .. Len(line) : units[i] = line[i]
      /\ \A i \in 1 .. Len(rest) : units[Len(line) + i] = rest[i]
  BY ONLY <1>2, <1>3, Joined
<1> HIDE DEF units
<1>5. /\ other \in Seq(Units)
      /\ Len(other) >= p + Len(units)
      /\ Len(other) = p + Len(units) \/ Len(other) = n
      /\ \A i \in 1 .. p : other[i] = file[i]
      /\ \A i \in 1 .. Len(units) : other[p + i] = units[i]
  <2>1. p \in 0 .. Len(file) BY <1>1
  <2> QED BY <2>1, <1>4, WrittenOver
<1> HIDE DEF other, n, l
<1>6. Len(units) = l + 2 + (n - p) BY <1>1, <1>2, <1>3, <1>4
<1>7. Len(other) = n + l + 2 BY <1>1, <1>2, <1>5, <1>6
<1>8. ASSUME NEW i \in 1 .. l + 2 PROVE other[p + i] = line[i]
  <2>1. i \in 1 .. Len(units) /\ i \in 1 .. Len(line) BY <1>1, <1>2, <1>6
  <2> QED BY <2>1, <1>4, <1>5
<1>9. \A i \in 1 .. l : other[p + i] = message.text[i]
  <2>1. \A i \in 1 .. l : i \in 1 .. l + 2 BY <1>2
  <2> QED BY <2>1, <1>2, <1>8
<1>10. other[p + l + 1] = CR /\ other[p + l + 2] = LF
  <2>1. l + 1 \in 1 .. l + 2 /\ l + 2 \in 1 .. l + 2
        /\ p + (l + 1) = p + l + 1 /\ p + (l + 2) = p + l + 2
    BY <1>1, <1>2
  <2>2. other[p + (l + 1)] = line[l + 1] /\ other[p + (l + 2)] = line[l + 2] BY ONLY <2>1, <1>8
  <2> QED BY <2>1, <2>2, <1>2
<1>11. ASSUME NEW i \in p + 1 .. n PROVE other[i + l + 2] = file[i]
  <2> DEFINE j == i - p   k == l + 2 + j
  <2>1. j \in 1 .. n - p /\ k \in 1 .. Len(units) /\ p + j = i /\ p + k = i + l + 2
        /\ Len(line) + j = k /\ j \in 1 .. Len(rest)
    BY <1>1, <1>2, <1>3, <1>6
  <2> HIDE DEF j, k
  <2>2. rest[j] = file[i] BY <2>1, <1>3
  <2>3. units[k] = rest[j] BY <2>1, <1>4
  <2>4. other[p + k] = units[k] BY <2>1, <1>5
  <2> QED BY <2>1, <2>2, <2>3, <2>4
<1>12. other[p + l + 1] = CR /\ other[p + l + 2] = LF BY <1>10
<1> QED BY <1>5, <1>7, <1>9, <1>11, <1>12 DEF PutIn, other, units, line, n, l

\* A write that is cut off leaves what is before its place.
LEMMA CutLeaves ==
    ASSUME NEW file \in Seq(Units), NEW p \in 1 .. Len(file),
           NEW units \in Seq(Units), NEW k \in 0 .. Len(units)
    PROVE  LET other == Overwrite(file, p, SubSeq(units, 1, k))
           IN  /\ other \in Seq(Units) /\ Len(other) >= Len(file)
               /\ \A i \in 1 .. p : other[i] = file[i]
<1> DEFINE s == SubSeq(units, 1, k)
<1>1. Len(file) \in Nat /\ Len(units) \in Nat BY UnitsOf
<1>2. s \in Seq(Units)
  <2>1. 1 \in 1 .. Len(units) + 1 /\ k \in 1 - 1 .. Len(units) BY <1>1
  <2> QED BY <2>1, PartOf
<1>3. p \in 0 .. Len(file) BY <1>1
<1> HIDE DEF s
<1>4. LET other == Overwrite(file, p, s)
      IN  /\ other \in Seq(Units) /\ Len(other) >= Len(file)
          /\ \A i \in 1 .. p : other[i] = file[i]
  BY <1>2, <1>3, WrittenOver
<1> QED BY <1>4 DEF s

\* Put in before a line, the text is a line among the others.
LEMMA AmongPut ==
    ASSUME NEW file, NEW other, NEW p, NEW text, PutIn(file, other, p, text),
           IsText(text), HasNo(CR, text), AtLine(file, p), p + 1 \in LineStarts(file)
    PROVE  LET m == Cardinality(UpTo(LineStarts(file), p))
           IN  /\ Among(LinesOf(file), LinesOf(other), m, text)
               /\ m \in 0 .. Cardinality(LineStarts(file))
               /\ \A n \in 1 .. m : NthOf(LineStarts(file), n) <= p
               /\ \A n \in m + 1 .. Cardinality(LineStarts(file)) :
                     NthOf(LineStarts(file), n) > p
<1> DEFINE S == LineStarts(file)   T == LineStarts(other)   w == Len(text) + 2
           c == Cardinality(S)   low == UpTo(S, p)   m == Cardinality(low)
           L == LinesOf(file)   M == LinesOf(other)
<1>1. /\ file \in Seq(Units) /\ other \in Seq(Units) /\ text \in Seq(Units)
      /\ w \in Nat /\ w >= 3 /\ p \in Nat
  BY PutFacts
<1>3. /\ L \in Seq(Seq(Units)) /\ Len(L) = c /\ c \in Nat
      /\ \A n \in 1 .. c : NthOf(S, n) \in S /\ L[n] = LineFrom(file, NthOf(S, n))
  BY <1>1, LinesAre
<1>4. /\ M \in Seq(Seq(Units)) /\ Len(M) = Cardinality(T)
      /\ \A n \in 1 .. Cardinality(T) : M[n] = LineFrom(other, NthOf(T, n))
  BY <1>1, LinesAre
<1>5. T = WithPlace(S, p, w) BY StartsPut
<1>6. Places(S, Len(file)) BY <1>1, StartsAre
<1>7. /\ LineFrom(other, p + 1) = text
      /\ \A k \in S : k <= p => LineFrom(other, k) = LineFrom(file, k)
      /\ \A k \in S : k > p => LineFrom(other, k + w) = LineFrom(file, k)
  BY LinesFromPut
<1> HIDE DEF S, T, w
<1>9. /\ m \in 0 .. c
      /\ Cardinality(T) = c + 1
      /\ \A n \in 1 .. m : NthOf(S, n) <= p /\ NthOf(T, n) = NthOf(S, n)
      /\ NthOf(T, m + 1) = p + 1
      /\ \A n \in m + 1 .. c : NthOf(S, n) > p /\ NthOf(T, n + 1) = NthOf(S, n) + w
  <2>1. w \in Nat \ {0} BY <1>1
  <2>2. p \in Nat BY <1>1
  <2> DEFINE N == Len(file)
  <2>3. Places(S, N) BY <1>6
  <2> HIDE DEF N, m, c, low
  <2>4. Cardinality(WithPlace(S, p, w)) = Cardinality(S) + 1
    BY ONLY <2>1, <2>2, <2>3, PlacePutIn
  <2> QED BY ONLY <2>1, <2>2, <2>3, <1>5, PlacePutIn, SMTT(30) DEF m, low, c
<1> HIDE DEF m, c, L, M
<1>10. /\ \A n \in 1 .. m : n \in 1 .. c /\ n \in 1 .. c + 1
       /\ \A n \in m + 1 .. c : n \in 1 .. c /\ n + 1 \in 1 .. c + 1
       /\ m + 1 \in 1 .. c + 1
  BY <1>3, <1>9
<1>11. Among(L, M, m, text)
  <2>1. M[m + 1] = text BY <1>4, <1>7, <1>9, <1>10
  <2>2. ASSUME NEW n \in 1 .. m PROVE M[n] = L[n] BY <1>3, <1>4, <1>7, <1>9, <1>10
  <2>3. ASSUME NEW n \in m + 1 .. c PROVE M[n + 1] = L[n]
    <3>1. M[n + 1] = LineFrom(other, NthOf(T, n + 1)) BY <1>4, <1>9, <1>10
    <3>2. NthOf(S, n) \in S /\ L[n] = LineFrom(file, NthOf(S, n)) BY <1>3, <1>10
    <3> QED BY <3>1, <3>2, <1>7, <1>9
  <2> QED BY <2>1, <2>2, <2>3, <1>3, <1>4, <1>9 DEF Among
<1> QED BY <1>9, <1>11 DEF S, L, M, m, low, c

\* Put in before the start of a text, the text is a line among the others, and in
\* order if its time is between theirs.
LEMMA LinesPutIn ==
    ASSUME NEW file, NEW other, NEW p, NEW text, PutIn(file, other, p, text),
           IsText(text), HasNo(CR, text),
           Unmixed(file), p < Len(file), StartOfText(file[p + 1])
    PROVE  /\ \E m : Among(LinesOf(file), LinesOf(other), m, text)
           /\ (/\ Sorted(file)
               /\ \A k \in Begins(file) : k <= p => file[k].entry.time <= TimeOf(text)
               /\ \A k \in Begins(file) : k > p => TimeOf(text) <= file[k].entry.time)
                 => InOrder(LinesOf(other))
<1> DEFINE S == Begins(file)   c == Cardinality(S)   m == Cardinality(UpTo(S, p))
           L == LinesOf(file)   M == LinesOf(other)
<1>1. file \in Seq(Units) /\ text \in Seq(Units) /\ p \in 1 .. Len(file) BY DEF PutIn
<1>2. LineStarts(file) = S BY <1>1, UnmixedStarts
<1>3. /\ L \in Seq(Seq(Units)) /\ Len(L) = c /\ c \in Nat
      /\ \A n \in 1 .. c : NthOf(S, n) \in S /\ L[n] = LineFrom(file, NthOf(S, n))
  BY <1>1, <1>2, LinesAre
<1>8. \A k \in S : TimeOf(LineFrom(file, k)) = file[k].entry.time /\ file[k].entry.time \in Nat
  BY <1>1, <1>2, LineIs
<1>4. AtLine(file, p) /\ p + 1 \in LineStarts(file) BY <1>1, UnmixedLine
<1>9. /\ Among(L, M, m, text) /\ m \in 0 .. c
      /\ \A n \in 1 .. m : NthOf(S, n) <= p
      /\ \A n \in m + 1 .. c : NthOf(S, n) > p
  BY <1>2, <1>4, AmongPut
<1> HIDE DEF S, m, c, L, M
<1>10. (\A n \in 1 .. m : n \in 1 .. c) /\ (\A n \in m + 1 .. c : n \in 1 .. c) BY <1>3, <1>9
<1>12. ASSUME Sorted(file),
              \A k \in S : k <= p => file[k].entry.time <= TimeOf(text),
              \A k \in S : k > p => TimeOf(text) <= file[k].entry.time
       PROVE  InOrder(M)
  <2>1. InOrder(L) BY <1>12, <1>1, InOrderIs DEF L
  <2>2. \A n \in 1 .. c : TimeOf(L[n]) = file[NthOf(S, n)].entry.time /\ TimeOf(L[n]) \in Nat
    BY <1>3, <1>8
  <2>3. \A n \in 1 .. m : TimeOf(L[n]) <= TimeOf(text)
    BY <2>2, <1>3, <1>9, <1>10, <1>12
  <2>4. \A n \in m + 1 .. c : TimeOf(text) <= TimeOf(L[n])
    BY <2>2, <1>3, <1>9, <1>10, <1>12
  <2>5. TimeOf(text) \in Nat
    <3>1. Len(text) >= 1 /\ Len(text) \in Nat /\ \A i \in 1 .. Len(text) : text[i] \in Units
      BY <1>1, TextIs
    <3>2. text[1] \in Units BY <3>1
    <3> QED BY <3>2 DEF TimeOf, Units
  <2> QED BY <2>1, <2>2, <2>3, <2>4, <2>5, <1>3, <1>9, AmongInOrder
<1> QED BY <1>9, <1>12 DEF S, L, M

\* Where two files are the same up to a place, the same lines begin.
LEMMA AlikeStarts ==
    ASSUME NEW file \in Seq(Units), NEW other \in Seq(Units), NEW p, Alike(file, other, p),
           Unmixed(file), NEW k, k <= p
    PROVE  k \in LineStarts(other) <=> k \in Begins(file)
<1>1. /\ Len(file) \in Nat /\ Len(other) \in Nat /\ p \in 1 .. Len(file) /\ p <= Len(other)
      /\ \A i \in 1 .. p : other[i] = file[i]
  BY UnitsOf DEF Alike
<1>2. \A j : j \in Begins(file) <=> j \in 2 .. Len(file) /\ StartOfText(file[j]) BY BeginsAre
<1>3. \A j : j \in LineStarts(other) <=> /\ j \in 2 .. Len(other) /\ StartOfText(other[j])
                                         /\ j = 2 \/ StopsAt(other, j - 2)
  BY StartsAre
<1>4. \A j \in 2 .. Len(file) :
         /\ file[j - 1] = CR => file[j] = LF
         /\ StartOfText(file[j]) => j = 2 \/ (j > 3 /\ file[j - 2] = CR /\ file[j - 1] = LF)
  BY UnmixedIs
<1>5. ASSUME k \in LineStarts(other) PROVE k \in Begins(file)
  <2>1. k \in 2 .. Len(other) /\ StartOfText(other[k]) BY <1>5, <1>3
  <2>2. k \in 1 .. p /\ k \in 2 .. Len(file) BY <2>1, <1>1
  <2> QED BY <2>1, <2>2, <1>1, <1>2
<1>6. ASSUME k \in Begins(file) PROVE k \in LineStarts(other)
  <2>1. k \in 2 .. Len(file) /\ StartOfText(file[k]) BY <1>6, <1>2
  <2>2. k \in 1 .. p /\ k \in 2 .. Len(other) BY <2>1, <1>1
  <2>3. StartOfText(other[k]) BY <2>1, <2>2, <1>1
  <2>4. CASE k # 2
    <3>1. k > 3 /\ file[k - 2] = CR BY <2>1, <2>4, <1>4
    <3>2. k - 2 \in 2 .. Len(file) /\ k - 2 \in 1 .. p /\ (k - 2) - 1 \in 1 .. p
          /\ k - 2 \in 1 .. Len(other)
      BY <3>1, <2>2, <1>1
    <3>3. file[(k - 2) - 1] # CR BY <3>1, <3>2, <1>4, UnitFacts
    <3>4. other[k - 2] = CR /\ other[(k - 2) - 1] # CR BY <3>1, <3>2, <3>3, <1>1
    <3>5. StopsAt(other, k - 2) BY <3>2, <3>4, StopsAlone
    <3> QED BY <2>2, <2>3, <3>5, <1>3
  <2> QED BY <2>2, <2>3, <2>4, <1>3
<1> QED BY <1>5, <1>6

\* In an unmixed file every line that begins before such a place ends before it.
LEMMA EndsBefore ==
    ASSUME NEW file \in Seq(Units), Unmixed(file), NEW p \in 1 .. Len(file),
           (p < Len(file) /\ StartOfText(file[p + 1])) \/ file[p] = CR,
           NEW k \in Begins(file), k <= p
    PROVE  k \in 1 .. p /\ file[k] # CR /\ \E c \in k .. p : file[c] = CR
<1>1. Len(file) \in Nat BY UnitsOf
<1>2. k \in 2 .. Len(file) /\ StartOfText(file[k]) BY BeginsAre
<1>3. \A j \in 2 .. Len(file) :
         /\ file[j - 1] = CR => file[j] = LF
         /\ StartOfText(file[j]) => j = 2 \/ (j > 3 /\ file[j - 2] = CR /\ file[j - 1] = LF)
  BY UnmixedIs
<1>4. k \in 1 .. p /\ file[k] # CR BY <1>1, <1>2, UnitFacts
<1>5. CASE file[p] = CR BY <1>4, <1>5
<1>6. CASE p < Len(file) /\ StartOfText(file[p + 1])
  <2>1. p + 1 \in 2 .. Len(file) /\ p + 1 # 2 /\ (p + 1) - 2 = p - 1 /\ (p + 1) - 1 = p
    BY <1>1, <1>2, <1>4, <1>6
  <2>2. file[p - 1] = CR /\ file[p] = LF BY <2>1, <1>3, <1>6
  <2>3. k # p BY <2>2, <1>2, UnitFacts
  <2>4. p - 1 \in k .. p BY <2>3, <1>4
  <2> QED BY <2>2, <2>4, <1>4
<1> QED BY <1>5, <1>6

\* Files with the same lines in the same places.
LEMMA SameLines ==
    ASSUME NEW file \in Seq(Units), NEW other \in Seq(Units),
           LineStarts(other) = LineStarts(file),
           \A k \in LineStarts(file) : LineFrom(other, k) = LineFrom(file, k)
    PROVE  LinesOf(other) = LinesOf(file)
<1> DEFINE S == LineStarts(file)   c == Cardinality(S)
<1>1. c \in Nat /\ \A n \in 1 .. c : NthOf(S, n) \in S BY LinesAre
<1>2. \A n \in 1 .. c : LineFrom(other, NthOf(S, n)) = LineFrom(file, NthOf(S, n)) BY <1>1
<1> QED BY <1>2 DEF LinesOf

\* Behind a line feed that is missing, a line that is whole is none.
LEMMA LinesBehindStop ==
    ASSUME NEW file, NEW other, NEW p, NEW text, PutIn(file, other, p, text),
           IsText(text), HasNo(CR, text), Whole(text),
           p = Len(file), StopsAt(file, p)
    PROVE  LinesOf(other) = LinesOf(file)
<1> DEFINE l == Len(text)   w == l + 2
<1>1. /\ file \in Seq(Units) /\ other \in Seq(Units) /\ text \in Seq(Units)
      /\ l \in Nat /\ l >= 1 /\ p \in Nat /\ p >= 1 /\ Len(other) = p + w /\ w = l + 2
  BY PutFacts
<1>2. /\ \A i \in 1 .. p : other[i] = file[i]
      /\ \A i \in 1 .. l : other[p + i] = text[i]
      /\ other[p + l + 1] = CR /\ other[p + l + 2] = LF
  BY DEF PutIn
<1> HIDE DEF l, w
<1>e. other[p + w] = LF
  <2>1. p + l + 2 = p + w BY <1>1
  <2> QED BY <2>1, <1>2
<1>3. Alike(file, other, p) BY <1>1, <1>2 DEF Alike
<1>4. p >= 2 /\ file[p] = CR BY <1>1, StopsBehind
<1>5. \A k : k \in LineStarts(other) <=> /\ k \in 2 .. p + w /\ StartOfText(other[k])
                                         /\ k = 2 \/ StopsAt(other, k - 2)
  BY <1>1, StartsAre
<1>6. \A k : k \in LineStarts(file) <=> /\ k \in 2 .. p /\ StartOfText(file[k])
                                        /\ k = 2 \/ StopsAt(file, k - 2)
  <2>1. \A k : k \in LineStarts(file) <=> /\ k \in 2 .. Len(file) /\ StartOfText(file[k])
                                          /\ k = 2 \/ StopsAt(file, k - 2)
    BY <1>1, StartsAre
  <2> QED BY <2>1
<1>7. \A i \in 1 .. p : StopsAt(other, i) <=> StopsAt(file, i) BY <1>1, <1>3, StopsAlike
<1>8. \A i \in 2 .. l : ~StartOfText(text[i]) BY DEF Whole, l
<1>9. ASSUME NEW k \in LineStarts(other) PROVE k <= p
  <2>1. SUFFICES ASSUME ~(k <= p) PROVE FALSE OBVIOUS
  <2>2. k \in 2 .. p + w /\ StartOfText(other[k]) /\ (k = 2 \/ StopsAt(other, k - 2)) BY <1>5
  <2>3. CASE k = p + 1
    <3>1. k # 2 /\ k - 2 = p - 1 /\ p - 1 \in 1 .. p /\ p \in 2 .. Len(file) BY <2>3, <1>1, <1>4
    <3>2. StopsAt(file, p - 1) BY <3>1, <2>2, <1>7
    <3> QED BY <3>1, <3>2, <1>1, StopsNext
  <2>4. CASE k > p + 1 /\ k <= p + l
    <3>1. k - p \in 2 .. l /\ k - p \in 1 .. l /\ p + (k - p) = k BY <2>2, <2>4, <1>1
    <3>2. other[p + (k - p)] = text[k - p] BY <3>1, <1>2
    <3> QED BY <3>1, <3>2, <2>2, <1>8
  <2>5. CASE k = p + l + 1 BY <2>2, <2>5, <1>2, UnitFacts
  <2>6. CASE k = p + w BY <2>2, <2>6, <1>e, UnitFacts
  <2>7. k = p + 1 \/ (k > p + 1 /\ k <= p + l) \/ k = p + l + 1 \/ k = p + w
    <3>1. k \in 2 .. p + w /\ p \in Nat /\ l \in Nat /\ w = l + 2 BY <2>2, <1>1
    <3> QED BY ONLY <2>1, <3>1, SMTT(30)
  <2> QED BY ONLY <2>3, <2>4, <2>5, <2>6, <2>7
<1>10. ASSUME NEW k, k \in LineStarts(file) \/ k \in LineStarts(other)
       PROVE  /\ k \in LineStarts(file) /\ k \in LineStarts(other)
              /\ k \in 1 .. p /\ file[k] # CR
  <2>1. k \in 2 .. p
    <3>1. CASE k \in LineStarts(file) BY <3>1, <1>6
    <3>2. CASE k \in LineStarts(other)
      <4>1. k \in 2 .. p + w /\ k <= p BY <3>2, <1>5, <1>9
      <4> QED BY <4>1, <1>1
    <3> QED BY <3>1, <3>2, <1>10
  <2>2. k \in 1 .. p /\ k \in 2 .. p + w /\ (k # 2 => k - 2 \in 1 .. p) BY <2>1, <1>1
  <2>3. other[k] = file[k] BY <2>2, <1>2
  <2>4. k # 2 => (StopsAt(other, k - 2) <=> StopsAt(file, k - 2)) BY <2>2, <1>7
  <2> QED BY <2>1, <2>2, <2>3, <2>4, <1>5, <1>6, <1>10, UnitFacts
<1>11. LineStarts(other) = LineStarts(file) BY <1>10
<1>12. ASSUME NEW k \in LineStarts(file) PROVE LineFrom(other, k) = LineFrom(file, k)
  <2>1. k \in 1 .. p /\ file[k] # CR /\ p \in k .. p BY <1>1, <1>10
  <2> QED BY <2>1, <1>1, <1>3, <1>4, AlikeLine
<1> QED BY <1>1, <1>11, <1>12, SameLines

LEMMA LinesBehind ==
    ASSUME NEW file, NEW other, NEW p, NEW text, PutIn(file, other, p, text),
           IsText(text), HasNo(CR, text), Whole(text),
           Unmixed(file), p = Len(file), p >= 2, file[p] = CR
    PROVE  LinesOf(other) = LinesOf(file)
<1>1. file \in Seq(Units) /\ p \in 2 .. Len(file)
  <2>1. file \in Seq(Units) BY DEF PutIn
  <2> QED BY <2>1, UnitsOf
<1>2. file[p - 1] # CR BY <1>1, UnmixedIs, UnitFacts
<1>3. StopsAt(file, p) BY <1>1, <1>2, StopsAlone
<1> QED BY <1>3, LinesBehindStop

\* The places in a file are places in a longer one too.
LEMMA PlacesIn ==
    ASSUME NEW N, NEW M \in Nat, NEW S, Places(S, N), N <= M
    PROVE  Places(S, M)
<1>1. N \in Nat /\ \A k \in S : k \in Nat /\ k >= 1 /\ k <= N BY PlacesFinite
<1>2. \A k \in S : k \in 1 .. M BY <1>1
<1> QED BY <1>2 DEF Places

\* A place up to p is one of the first.
LEMMA AmongFirst ==
    ASSUME NEW N, NEW S, Places(S, N), NEW p \in Nat,
           NEW n \in 1 .. Cardinality(S), NthOf(S, n) <= p
    PROVE  n \in 1 .. Cardinality(UpTo(S, p))
<1> DEFINE k == NthOf(S, n)
<1>1. \A T \in SUBSET S : IsFiniteSet(T) /\ Cardinality(T) \in Nat BY PlacesFinite
<1>2. k \in S /\ Cardinality(Before(S, k)) = n - 1 BY NthIs
<1>3. k <= p OBVIOUS
<1>n. \A i \in S : i \in Nat BY PlacesFinite
<1> HIDE DEF k
<1>4. Before(S, k) \in SUBSET S /\ UpTo(S, p) \in SUBSET S /\ k \notin Before(S, k)
      /\ Before(S, k) \cup {k} \in SUBSET UpTo(S, p)
  BY ONLY <1>2, <1>3, <1>n, p \in Nat DEF Before, UpTo
<1>5. Cardinality(Before(S, k) \cup {k}) = Cardinality(Before(S, k)) + 1
  BY <1>1, <1>4, FS_AddElement
<1>6. Cardinality(Before(S, k) \cup {k}) <= Cardinality(UpTo(S, p)) BY <1>1, <1>4, FS_Subset
<1>7. n \in Nat /\ n >= 1
  <2>1. Cardinality(S) \in Nat BY PlacesFinite
  <2> QED BY <2>1
<1>8. Cardinality(UpTo(S, p)) \in Nat BY <1>1, <1>4
<1> QED BY ONLY <1>2, <1>5, <1>6, <1>7, <1>8

\* Files that are the same up to the end of a line have the same lines up to there.
LEMMA KeptLines ==
    ASSUME NEW file \in Seq(Units), NEW other \in Seq(Units), NEW p, Alike(file, other, p),
           Unmixed(file), (p < Len(file) /\ StartOfText(file[p + 1])) \/ file[p] = CR,
           NEW n \in DOMAIN LinesOf(file), NthOf(Begins(file), n) <= p
    PROVE  n \in DOMAIN LinesOf(other) /\ LinesOf(other)[n] = LinesOf(file)[n]
<1> DEFINE S == Begins(file)   T == LineStarts(other)   k == NthOf(S, n)   N == Len(file) + Len(other)
<1>1. LineStarts(file) = S BY UnmixedStarts
<1>2. /\ n \in 1 .. Cardinality(S) /\ k \in S
      /\ LinesOf(file)[n] = LineFrom(file, k)
  BY <1>1, LinesAre
<1>3. /\ DOMAIN LinesOf(other) = 1 .. Cardinality(T)
      /\ \A i \in 1 .. Cardinality(T) : LinesOf(other)[i] = LineFrom(other, NthOf(T, i))
  BY LinesAre
<1>4. p \in 1 .. Len(file) /\ Len(file) \in Nat /\ Len(other) \in Nat /\ p \in Nat
  BY UnitsOf DEF Alike
<1>5. \A i : i <= p => (i \in T <=> i \in S) BY AlikeStarts
<1>6. Places(S, Len(file)) /\ Places(T, Len(other)) BY BeginsAre, StartsAre
<1>n. N \in Nat /\ Len(file) <= N /\ Len(other) <= N BY <1>4
<1>8. k <= p OBVIOUS
<1> HIDE DEF S, T, N, k
<1>7. Places(S, N) /\ Places(T, N) BY ONLY <1>n, <1>6, PlacesIn
<1>9. UpTo(S, p) = UpTo(T, p) BY ONLY <1>5 DEF UpTo
<1>10. n \in 1 .. Cardinality(UpTo(S, p)) BY ONLY <1>2, <1>4, <1>7, <1>8, AmongFirst DEF k
<1>11. n \in 1 .. Cardinality(T) /\ NthOf(T, n) = k
  BY ONLY <1>4, <1>7, <1>9, <1>10, SamePlaces DEF k
<1>12. k \in 1 .. p /\ file[k] # CR /\ \E c \in k .. p : file[c] = CR
  BY <1>2, <1>4, <1>8, EndsBefore DEF S
<1>13. LineFrom(other, k) = LineFrom(file, k) BY <1>12, AlikeLine
<1> QED BY <1>2, <1>3, <1>11, <1>13

\* There are no lines in a file that does not exist.
LEMMA NoLines ==
    /\ LinesOf(<<>>) = <<>> /\ LinesIn(<<>>) = {} /\ Begins(<<>>) = {}
    /\ Unmixed(<<>>) /\ Sorted(<<>>) /\ <<>> \in Seq(Units)
    /\ \A x : Times(x, <<>>) = 0
<1> DEFINE file == <<>>
<1>1. file \in Seq(Units) /\ Len(file) = 0 OBVIOUS
<1>2. Begins(file) = {} BY <1>1 DEF Begins
<1>3. LineStarts(file) = {} BY <1>1 DEF LineStarts
<1>4. Cardinality(LineStarts(file)) = 0 BY <1>3, FS_EmptySet
<1> HIDE DEF file
<1>5. LinesOf(file) \in Seq(Seq(Units)) /\ Len(LinesOf(file)) = 0 BY <1>1, <1>4, LinesAre
<1>6. LinesOf(file) = <<>> BY <1>5, EmptySeq
<1>7. DOMAIN LinesOf(file) = {} BY <1>6
<1>8. LinesIn(file) = {} BY <1>7 DEF LinesIn
<1>9. Unmixed(file) BY <1>1 DEF Unmixed
<1>10. Sorted(file) BY <1>2 DEF Sorted
<1>11. ASSUME NEW x PROVE Times(x, <<>>) = 0
  <2>1. {i \in DOMAIN <<>> : <<>>[i] = x} = {} OBVIOUS
  <2> QED BY <2>1, FS_EmptySet DEF Times
<1> QED BY <1>1, <1>2, <1>6, <1>8, <1>9, <1>10, <1>11 DEF file

\* The first line of a new file is its only one.
LEMMA OneLine ==
    ASSUME NEW message, message.text \in Seq(Units), IsText(message.text), HasNo(CR, message.text)
    PROVE  LET file == <<BOM>> \o Line(message)
           IN  /\ file \in Seq(Units) /\ file # <<>> /\ file[Len(file)] = LF
               /\ Len(LinesOf(file)) = 1 /\ LinesOf(file)[1] = message.text
               /\ Unmixed(file) => Begins(file) \subseteq {2}
               /\ Whole(message.text) => Unmixed(file) /\ Sorted(file)
<1> DEFINE file == <<BOM>> \o Line(message)   text == message.text   l == Len(text)
<1>1. /\ Line(message) \in Seq(Units) /\ Len(Line(message)) = l + 2 /\ l \in Nat
      /\ \A i \in 1 .. l : Line(message)[i] = text[i]
      /\ Line(message)[l + 1] = CR /\ Line(message)[l + 2] = LF
  BY LineIsWritten
<1>2. <<BOM>> \in Seq(Units) /\ Len(<<BOM>>) = 1 /\ <<BOM>>[1] = BOM BY UnitFacts
<1>3. /\ file \in Seq(Units) /\ Len(file) = l + 3 /\ file[1] = BOM
      /\ \A i \in 1 .. l + 2 : file[1 + i] = Line(message)[i]
  BY ONLY <1>1, <1>2, Joined
<1>4. l >= 1 /\ StartOfText(text[1]) BY TextIs
<1>5. \A i \in 1 .. l : text[i] # CR BY DEF HasNo
<1> HIDE DEF file, text, l
<1>6. /\ \A i \in 1 .. l : file[1 + i] = text[i]
      /\ file[l + 2] = CR /\ file[l + 3] = LF
  <2>1. ASSUME NEW i \in 1 .. l PROVE file[1 + i] = text[i]
    <3>1. i \in 1 .. l + 2 BY <1>1
    <3> QED BY <3>1, <1>1, <1>3
  <2>2. l + 1 \in 1 .. l + 2 /\ l + 2 \in 1 .. l + 2 /\ 1 + (l + 1) = l + 2 /\ 1 + (l + 2) = l + 3
    BY <1>1
  <2>3. file[1 + (l + 1)] = CR /\ file[1 + (l + 2)] = LF BY <2>2, <1>1, <1>3
  <2> QED BY <2>1, <2>2, <2>3
<1>7. \A k \in 2 .. l + 1 : file[k] = text[k - 1] /\ file[k] # CR
  <2>1. TAKE k \in 2 .. l + 1
  <2>2. k - 1 \in 1 .. l /\ 1 + (k - 1) = k BY <1>1
  <2>3. file[1 + (k - 1)] = text[k - 1] BY <2>2, <1>6
  <2> QED BY <2>2, <2>3, <1>5
<1>8. file[1] # CR /\ ~StartOfText(file[l + 2]) /\ ~StartOfText(file[l + 3]) /\ file[l + 3] # CR
  BY <1>3, <1>6, UnitFacts
<1>9. file[2] = text[1] /\ StartOfText(file[2]) BY <1>1, <1>4, <1>7
<1>10. ASSUME NEW k \in 2 .. Len(file), StartOfText(file[k]), k # 2
       PROVE  k \in 3 .. l + 1 /\ file[k - 2] # CR
  <2>1. k \in 3 .. l + 1 BY <1>10, <1>1, <1>3, <1>8
  <2>2. k - 2 = 1 \/ k - 2 \in 2 .. l + 1 BY <2>1, <1>1
  <2> QED BY <2>1, <2>2, <1>7, <1>8
<1>11. \A k : k \in LineStarts(file) <=> k = 2
  <2>1. \A k : k \in LineStarts(file) <=> /\ k \in 2 .. Len(file) /\ StartOfText(file[k])
                                          /\ k = 2 \/ StopsAt(file, k - 2)
    BY <1>3, StartsAre
  <2>2. \A k : StopsAt(file, k - 2) => file[k - 2] = CR BY DEF StopsAt
  <2>3. 2 \in 2 .. Len(file) BY <1>1, <1>3
  <2> QED BY <2>1, <2>2, <2>3, <1>9, <1>10
<1>12. LineStarts(file) = {2} /\ Cardinality(LineStarts(file)) = 1 BY <1>11, FS_Singleton
<1>13. LineEnd(file, 2) = l + 1
  <2>1. l + 1 \in 2 .. Len(file) BY <1>1, <1>3, <1>4
  <2>2. \A i \in 2 .. l + 1 : file[i] # CR BY <1>7
  <2>3. l + 1 < Len(file) => file[(l + 1) + 1] = CR BY <1>1, <1>6
  <2>4. 2 \in Nat OBVIOUS
  <2> QED BY <2>1, <2>2, <2>3, <2>4, <1>3, LineEndIs
<1>14. LineFrom(file, 2) = text
  <2>1. 2 \in 1 .. Len(file) + 1 /\ l + 1 \in 2 - 1 .. Len(file) BY <1>1, <1>3
  <2>2. /\ SubSeq(file, 2, l + 1) \in Seq(Units) /\ Len(SubSeq(file, 2, l + 1)) = (l + 1) - 2 + 1
        /\ \A i \in 1 .. (l + 1) - 2 + 1 : SubSeq(file, 2, l + 1)[i] = file[2 + i - 1]
    BY <2>1, <1>3, PartOf
  <2>3. (l + 1) - 2 + 1 = l BY <1>1
  <2>4. \A i \in 1 .. l : 2 + i - 1 = 1 + i BY <1>1
  <2>5. \A i \in 1 .. l : SubSeq(file, 2, l + 1)[i] = text[i] BY <2>2, <2>3, <2>4, <1>6
  <2>6. text \in Seq(Units) /\ Len(text) = l BY DEF text, l
  <2>7. SubSeq(file, 2, l + 1) = text BY ONLY <2>2, <2>3, <2>5, <2>6, SameElements
  <2> QED BY <2>7, <1>13 DEF LineFrom
<1>15. Len(LinesOf(file)) = 1 /\ LinesOf(file)[1] = text
  <2>1. Len(LinesOf(file)) = 1 BY <1>3, <1>12, LinesAre
  <2>2. 1 \in 1 .. Cardinality(LineStarts(file)) BY <1>12
  <2>3. /\ NthOf(LineStarts(file), 1) \in LineStarts(file)
        /\ LinesOf(file)[1] = LineFrom(file, NthOf(LineStarts(file), 1))
    BY <2>2, <1>3, LinesAre
  <2> QED BY <2>1, <2>3, <1>11, <1>14
<1>16. ASSUME Unmixed(file) PROVE Begins(file) \subseteq {2}
  <2>1. LineStarts(file) = Begins(file) BY <1>3, <1>16, UnmixedStarts
  <2> QED BY <2>1, <1>12
<1>17. ASSUME Whole(text) PROVE Unmixed(file) /\ Sorted(file)
  <2>1. ASSUME NEW k \in 2 .. Len(file), StartOfText(file[k]) PROVE k = 2
    <3>1. SUFFICES ASSUME k # 2 PROVE FALSE OBVIOUS
    <3>2. k \in 3 .. l + 1 BY <2>1, <3>1, <1>10
    <3>3. k - 1 \in 2 .. l /\ k \in 2 .. l + 1 BY <3>2, <1>1
    <3>4. ~StartOfText(text[k - 1]) BY <3>3, <1>17 DEF Whole, l
    <3> QED BY <3>3, <3>4, <2>1, <1>7
  <2>2. ASSUME NEW k \in 2 .. Len(file), file[k - 1] = CR PROVE file[k] = LF
    <3>1. k - 1 = 1 \/ k - 1 \in 2 .. l + 1 \/ k - 1 = l + 2 BY <2>2, <1>1, <1>3
    <3>2. k - 1 = l + 2 BY <3>1, <2>2, <1>7, <1>8
    <3>3. k = l + 3 BY <3>2, <1>1
    <3> QED BY <3>3, <1>6
  <2>3. Unmixed(file) BY <2>1, <2>2, <1>3, UnmixedIs
  <2>4. \A k : k \in Begins(file) => k = 2 BY <2>1, <1>3, BeginsAre
  <2>5. Sorted(file) BY <2>4 DEF Sorted
  <2> QED BY <2>3, <2>5
<1>18. file # <<>> /\ file[Len(file)] = LF BY <1>1, <1>3, <1>6
<1> QED BY <1>3, <1>15, <1>16, <1>17, <1>18 DEF file, text
-----------------------------------------------------------------------------
\* What history_add may be given: the text of a line, with its time.
IsMessage(message) ==
    /\ message \in [file : Files, time : Nat, text : Seq(Units)]
    /\ IsText(message.text) /\ HasNo(CR, message.text)
    /\ message.time = TimeOf(message.text)
Messages == {message \in [file : Files, time : Nat, text : Seq(Units)] : IsMessage(message)}

\* A place before the text of a line, and one behind a last line without a line feed.
AtText(p) == p \in 1 .. Len(File) /\ p < Len(File) /\ StartOfText(File[p + 1])
AtEnd(p) == p = Len(File) /\ p \in Nat /\ p >= 2 /\ File[p] = CR

StoreTypes ==
    /\ files \in [Files -> Seq(Units)] /\ backup \in [Files -> Seq(Units)]
    /\ ~has_backup => backup = NoBackup

StaticTypes ==
    /\ static_position = -1 \/ (static_position \in Nat /\ static_position >= 2)
    /\ static_datetime \in Nat

\* No process but one that imports or sorts has a line to add.
ProcessTypes ==
    /\ vm \subseteq {"miranda", "sort", "remove-backup"}
    /\ in_file \in Seq(Messages)
    /\ pc \in {"idle", "scan", "write"}
    /\ pc # "idle" => added \in Messages
    /\ pc # "idle" \/ in_file # <<>> => phase \in {"import", "sort"}
    /\ phase = "import" => itr \subseteq Seq(Entries)
    /\ phase = "sort" => itr \subseteq Files

\* What a process imports is whole.
ImportsWhole ==
    phase = "import" => /\ \A k \in DOMAIN in_file : Whole(in_file[k].text)
                        /\ pc # "idle" => Whole(added.text)

\* How far a call has read.
Scanned ==
    pc = "scan" =>
        /\ in_pos \in Nat /\ in_pos >= 1 /\ current_datetime \in Nat /\ File # <<>>
        /\ failbit => eofbit
        /\ eofbit /\ ~failbit => AtEnd(Len(File))
        /\ current_datetime > added.time /\ ~eofbit => AtText(in_pos - line_size)

\* Where it writes.
Located ==
    pc = "write" /\ file_pos # -1 =>
        /\ AtText(file_pos) \/ AtEnd(file_pos)
        /\ data = SubSeq(File, file_pos + 1, Len(File))

\* The files of a sort end with a line feed.
Endings ==
    phase \in {"sort", "sorted"} =>
        \A name \in Files : files[name] # <<>> => files[name][Len(files[name])] = LF

Control == StoreTypes /\ StaticTypes /\ ProcessTypes /\ ImportsWhole /\ Scanned /\ Located /\ Endings

LEMMA MessagesAre ==
    ASSUME NEW message \in Messages
    PROVE  /\ message.file \in Files /\ message.time \in Nat /\ message.text \in Seq(Units)
           /\ IsText(message.text) /\ HasNo(CR, message.text)
           /\ message.time = TimeOf(message.text)
BY DEF Messages, IsMessage

\* The message of an entry is one, and whole.
LEMMA EntryMessage ==
    ASSUME NEW entry \in Entries
    PROVE  Message(entry) \in Messages /\ Whole(Message(entry).text)
<1> DEFINE text == Text(entry)
<1>1. entry \in [file : Files, time : Nat, size : Nat \ {0}] BY LogAssumption DEF LogAssumption
<1>2. entry.file \in Files /\ entry.time \in Nat /\ entry.size \in Nat /\ entry.size >= 1 BY <1>1
<1>e. entry \in [file : Files \cup {NoFile}, time : Nat, size : Nat] BY <1>1
<1>3. \A k \in 1 .. entry.size : [kind |-> "text", entry |-> entry, part |-> k] \in Units
  BY <1>2, <1>e DEF Units
<1>4. /\ text \in Seq(Units) /\ Len(text) = entry.size
      /\ \A k \in 1 .. entry.size : text[k] = [kind |-> "text", entry |-> entry, part |-> k]
  BY <1>2, <1>3 DEF Text
<1> HIDE DEF text
<1>5. 1 \in 1 .. entry.size BY <1>2
<1>6. text[1] = [kind |-> "text", entry |-> entry, part |-> 1] BY <1>4, <1>5
<1>7. text # <<>> BY <1>2, <1>4
<1>8. IsText(text) /\ TimeOf(text) = entry.time BY <1>6, <1>7 DEF IsText, TimeOf
<1>9. HasNo(CR, text)
  <2>1. \A k \in 1 .. Len(text) : text[k].kind = "text"
    <3>1. TAKE k \in 1 .. Len(text)
    <3>2. text[k] = [kind |-> "text", entry |-> entry, part |-> k] BY <1>4
    <3> QED BY <3>2
  <2>2. CR.kind = "cr" BY DEF CR
  <2> QED BY <2>1, <2>2 DEF HasNo
<1>10. Whole(text)
  <2>1. \A k \in 2 .. Len(text) : k \in 1 .. entry.size /\ k # 1 BY <1>2, <1>4
  <2>2. \A k \in 2 .. Len(text) : text[k].part = k
    <3>1. TAKE k \in 2 .. Len(text)
    <3>2. text[k] = [kind |-> "text", entry |-> entry, part |-> k] BY <2>1, <1>4
    <3> QED BY <3>2
  <2> QED BY <2>1, <2>2 DEF Whole, StartOfText
<1>11. /\ Message(entry) \in [file : Files, time : Nat, text : Seq(Units)]
       /\ Message(entry).text = text /\ Message(entry).time = entry.time
  BY <1>2, <1>4 DEF Message, text
<1> QED BY <1>8, <1>9, <1>10, <1>11 DEF Messages, IsMessage

\* A line of a file is the text of a message.
LEMMA LineMessage ==
    ASSUME NEW file \in Seq(Units), NEW name \in Files, NEW n \in DOMAIN LinesOf(file)
    PROVE  [file |-> name, time |-> TimeOf(LinesOf(file)[n]), text |-> LinesOf(file)[n]] \in Messages
<1> DEFINE k == NthOf(LineStarts(file), n)   line == LinesOf(file)[n]
           message == [file |-> name, time |-> TimeOf(line), text |-> line]
<1>1. k \in LineStarts(file) /\ line = LineFrom(file, k) BY LinesAre
<1> HIDE DEF k, line
<1>2. /\ line \in Seq(Units) /\ IsText(line) /\ HasNo(CR, line) /\ TimeOf(line) \in Nat
  BY <1>1, LineIs
<1>3. message \in [file : Files, time : Nat, text : Seq(Units)] BY <1>2
<1>4. message.text = line /\ message.time = TimeOf(line) OBVIOUS
<1> QED BY <1>2, <1>3, <1>4 DEF Messages, IsMessage, line

\* In an unmixed file they are whole.
LEMMA LineWhole ==
    ASSUME NEW file \in Seq(Units), Unmixed(file), NEW n \in DOMAIN LinesOf(file)
    PROVE  Whole(LinesOf(file)[n])
<1> DEFINE k == NthOf(LineStarts(file), n)   e == LineEnd(file, k)   line == SubSeq(file, k, e)
<1>1. k \in LineStarts(file) /\ LinesOf(file)[n] = LineFrom(file, k) BY LinesAre
<1>2. k \in 2 .. Len(file) /\ StartOfText(file[k]) BY <1>1, StartsAre
<1>3. Len(file) \in Nat /\ k \in 1 .. Len(file) /\ file[k] # CR BY <1>2, UnitsOf, UnitFacts
<1>4. e \in k .. Len(file) /\ \A i \in k .. e : file[i] # CR BY <1>3, LineEnds
<1> HIDE DEF k, e
<1>5. k \in 1 .. Len(file) + 1 /\ e \in k - 1 .. Len(file) BY <1>3, <1>4
<1>6. Len(line) = e - k + 1 /\ \A i \in 1 .. e - k + 1 : line[i] = file[k + i - 1] BY <1>5, PartOf
<1> HIDE DEF line
<1>7. ASSUME NEW i \in 2 .. Len(line) PROVE ~StartOfText(line[i])
  <2> DEFINE j == k + i - 1
  <2>1. i \in 1 .. e - k + 1 /\ j \in k + 1 .. e /\ j \in 2 .. Len(file)
    BY <1>2, <1>3, <1>4, <1>6
  <2>2. line[i] = file[j] BY <2>1, <1>6
  <2> HIDE DEF j
  <2>3. SUFFICES ASSUME StartOfText(file[j]) PROVE FALSE BY <2>2
  <2>4. j # 2 /\ j - 1 \in k .. e BY <2>1, <1>2, <1>3, <1>4
  <2>5. j > 3 /\ file[j - 2] = CR /\ file[j - 1] = LF BY <2>1, <2>3, <2>4, UnmixedIs
  <2>6. j - 1 # k BY <2>5, <1>2, UnitFacts
  <2>7. j - 2 \in k .. e BY <2>1, <2>4, <2>6, <1>3, <1>4
  <2> QED BY <2>5, <2>7, <1>4
<1>8. LinesOf(file)[n] = line BY <1>1 DEF LineFrom, line, e
<1> QED BY <1>7, <1>8 DEF Whole

\* What getline reads, up to the first carriage return.
LEMMA LineReadIs ==
    ASSUME File \in Seq(Units), in_pos \in Nat, Returns # {}
    PROVE  /\ FirstReturn \in in_pos + 1 .. Len(File) /\ File[FirstReturn] = CR
           /\ \A i \in in_pos + 1 .. FirstReturn - 1 : File[i] # CR
           /\ AfterLine = IF FirstReturn < Len(File) THEN FirstReturn + 1 ELSE FirstReturn
           /\ AfterLine \in Nat /\ AfterLine <= Len(File) /\ Len(File) \in Nat
           /\ LineRead \in Seq(Units) /\ Len(LineRead) = FirstReturn - 1 - in_pos
           /\ \A i \in 1 .. FirstReturn - 1 - in_pos : LineRead[i] = File[in_pos + i]
<1> DEFINE r == FirstReturn
<1>1. Len(File) \in Nat BY UnitsOf
<1>2. Returns \subseteq Nat BY <1>1 DEF Returns
<1>3. \E k \in Returns : \A j \in Returns : k <= j BY <1>2, LeastOf
<1>4. r \in Returns /\ \A j \in Returns : r <= j BY <1>3 DEF FirstReturn
<1> HIDE DEF r
<1>5. r \in in_pos + 1 .. Len(File) /\ File[r] = CR BY <1>4 DEF Returns
<1>6. ASSUME NEW i \in in_pos + 1 .. r - 1 PROVE File[i] # CR
  <2>1. i \in in_pos + 1 .. Len(File) /\ ~(r <= i) BY <1>1, <1>5
  <2>2. i \notin Returns BY <2>1, <1>4
  <2> QED BY <2>1, <2>2 DEF Returns
<1>7. in_pos + 1 \in 1 .. Len(File) + 1 /\ r - 1 \in (in_pos + 1) - 1 .. Len(File)
      /\ (r - 1) - (in_pos + 1) + 1 = r - 1 - in_pos
  BY <1>1, <1>5
<1>8. /\ SubSeq(File, in_pos + 1, r - 1) \in Seq(Units)
      /\ Len(SubSeq(File, in_pos + 1, r - 1)) = (r - 1) - (in_pos + 1) + 1
      /\ \A i \in 1 .. (r - 1) - (in_pos + 1) + 1 :
            SubSeq(File, in_pos + 1, r - 1)[i] = File[in_pos + 1 + i - 1]
  BY <1>7, PartOf
<1>9. \A i \in 1 .. r - 1 - in_pos : in_pos + 1 + i - 1 = in_pos + i BY <1>5
<1>10. LineRead = SubSeq(File, in_pos + 1, r - 1) BY DEF LineRead, r
<1>11. /\ LineRead \in Seq(Units) /\ Len(LineRead) = r - 1 - in_pos
       /\ \A i \in 1 .. r - 1 - in_pos : LineRead[i] = File[in_pos + i]
  BY <1>7, <1>8, <1>9, <1>10
<1>12. AfterLine = IF r < Len(File) THEN r + 1 ELSE r BY DEF AfterLine, HasNewline, r
<1>13. AfterLine \in Nat /\ AfterLine <= Len(File) BY <1>1, <1>5, <1>12
<1> QED BY <1>1, <1>5, <1>6, <1>11, <1>12, <1>13 DEF r

\* If that is a line of the log, its text begins there.
LEMMA LogLineIs ==
    ASSUME File \in Seq(Units), in_pos \in Nat, Returns # {}, IsText(LineRead)
    PROVE  /\ in_pos + 1 < FirstReturn /\ in_pos + 1 \in 1 .. Len(File)
           /\ StartOfText(File[in_pos + 1])
           /\ TimeOf(LineRead) = File[in_pos + 1].entry.time /\ TimeOf(LineRead) \in Nat
<1>1. /\ FirstReturn \in in_pos + 1 .. Len(File) /\ Len(File) \in Nat
      /\ LineRead \in Seq(Units) /\ Len(LineRead) = FirstReturn - 1 - in_pos
      /\ \A i \in 1 .. FirstReturn - 1 - in_pos : LineRead[i] = File[in_pos + i]
  BY LineReadIs
<1>2. Len(LineRead) >= 1 /\ StartOfText(LineRead[1]) /\ 1 \in 1 .. Len(LineRead) BY <1>1, TextIs
<1>3. LineRead[1] = File[in_pos + 1] BY <1>1, <1>2
<1>4. in_pos + 1 < FirstReturn /\ in_pos + 1 \in 1 .. Len(File) BY <1>1, <1>2
<1>5. LineRead[1] \in Units BY <1>1, <1>2, UnitsOf
<1>6. LineRead[1].entry.time \in Nat BY <1>5 DEF Units
<1> QED BY <1>2, <1>3, <1>4, <1>6 DEF TimeOf
-----------------------------------------------------------------------------
\* A write puts the text of its message into the file, and no other.
LEMMA WriteIs ==
    ASSUME Control, Write, file_pos # -1
    PROVE  /\ added \in Messages /\ File \in Seq(Units) /\ files' \in [Files -> Seq(Units)]
           /\ PutIn(File, files'[added.file], file_pos, added.text)
           /\ \A name \in Files : name # added.file => files'[name] = files[name]
           /\ AtText(file_pos) \/ AtEnd(file_pos)
<1> DEFINE other == Overwrite(File, file_pos, Line(added) \o data)
<1>1. added \in Messages BY DEF Write, Control, ProcessTypes
<1>2. added.file \in Files /\ added.text \in Seq(Units) BY <1>1, MessagesAre
<1>3. files \in [Files -> Seq(Units)] BY DEF Control, StoreTypes
<1>4. File \in Seq(Units) /\ Len(File) \in Nat BY <1>2, <1>3, UnitsOf DEF File
<1>5. /\ AtText(file_pos) \/ AtEnd(file_pos)
      /\ data = SubSeq(File, file_pos + 1, Len(File))
  BY DEF Write, Control, Located
<1>6. file_pos \in 1 .. Len(File) BY <1>4, <1>5 DEF AtText, AtEnd
<1>7. PutIn(File, other, file_pos, added.text) BY <1>2, <1>4, <1>5, <1>6, WritePutsIn
<1>8. files' = [files EXCEPT ![added.file] = other] BY DEF Write
<1> HIDE DEF other
<1>9. other \in Seq(Units) BY <1>7 DEF PutIn
<1> QED BY <1>1, <1>2, <1>3, <1>4, <1>5, <1>7, <1>8, <1>9

\* A write that is cut off leaves what is before its place, and every other file.
LEMMA CutIs ==
    ASSUME Control, KillWriting
    PROVE  /\ added \in Messages /\ File \in Seq(Units) /\ files' \in [Files -> Seq(Units)]
           /\ Alike(File, files'[added.file], file_pos)
           /\ \A name \in Files : name # added.file => files'[name] = files[name]
           /\ AtText(file_pos) \/ AtEnd(file_pos)
<1>1. added \in Messages BY DEF KillWriting, Control, ProcessTypes
<1>2. added.file \in Files /\ added.text \in Seq(Units) BY <1>1, MessagesAre
<1>3. files \in [Files -> Seq(Units)] BY DEF Control, StoreTypes
<1>4. File \in Seq(Units) /\ Len(File) \in Nat BY <1>2, <1>3, UnitsOf DEF File
<1>5. /\ AtText(file_pos) \/ AtEnd(file_pos)
      /\ data = SubSeq(File, file_pos + 1, Len(File))
  BY DEF KillWriting, Control, Located
<1>6. file_pos \in 1 .. Len(File) BY <1>4, <1>5 DEF AtText, AtEnd
<1> DEFINE units == Line(added) \o data
<1>7. units \in Seq(Units)
  <2>1. Line(added) \in Seq(Units) BY <1>2, LineIsWritten
  <2>2. file_pos + 1 \in 1 .. Len(File) + 1 /\ Len(File) \in (file_pos + 1) - 1 .. Len(File)
    BY <1>4, <1>6
  <2>3. data \in Seq(Units) BY <2>2, <1>4, <1>5, PartOf
  <2> QED BY <2>1, <2>3, Joined
<1>8. PICK written \in Beginnings(units) :
         files' = [files EXCEPT ![added.file] = Overwrite(File, file_pos, written)]
  BY DEF KillWriting
<1> HIDE DEF units
<1>9. PICK k \in 0 .. Len(units) : written = SubSeq(units, 1, k) BY <1>8 DEF Beginnings
<1> DEFINE other == Overwrite(File, file_pos, written)
<1>10. /\ other \in Seq(Units) /\ Len(other) >= Len(File)
       /\ \A i \in 1 .. file_pos : other[i] = File[i]
  BY <1>4, <1>6, <1>7, <1>9, CutLeaves
<1>11. files' = [files EXCEPT ![added.file] = other] BY <1>8
<1> HIDE DEF other
<1>12. Len(other) \in Nat BY <1>10, UnitsOf
<1>13. Alike(File, other, file_pos) BY <1>4, <1>6, <1>10, <1>12 DEF Alike
<1> QED BY <1>1, <1>2, <1>3, <1>4, <1>5, <1>10, <1>11, <1>13

\* A new file has its first line, or a beginning of it.
LEMMA CreateIs ==
    ASSUME Control, NEW message \in Messages, Create(message)
    PROVE  /\ files[message.file] = <<>> /\ message.file \in Files
           /\ files' \in [Files -> Seq(Units)]
           /\ files'[message.file] = <<BOM>> \o Line(message)
           /\ \A name \in Files : name # message.file => files'[name] = files[name]
<1> DEFINE other == <<BOM>> \o Line(message)
<1>1. message.file \in Files /\ other \in Seq(Units) BY MessagesAre, OneLine
<1>2. files \in [Files -> Seq(Units)] BY DEF Control, StoreTypes
<1>3. files' = [files EXCEPT ![message.file] = other] /\ files[message.file] = <<>> BY DEF Create
<1> HIDE DEF other
<1>4. /\ files' \in [Files -> Seq(Units)] /\ files'[message.file] = other
      /\ \A name \in Files : name # message.file => files'[name] = files[name]
  BY <1>1, <1>2, <1>3
<1> QED BY <1>1, <1>3, <1>4 DEF other

LEMMA CutCreateIs ==
    ASSUME Control, KillCreating
    PROVE  \E name \in Files :
              /\ files[name] = <<>> /\ files' \in [Files -> Seq(Units)]
              /\ \A other \in Files : other # name => files'[other] = files[other]
<1> DEFINE message == Head(in_file)   units == <<BOM>> \o Line(message)
<1>1. in_file \in Seq(Messages) /\ in_file # <<>> BY DEF KillCreating, Control, ProcessTypes
<1>2. message \in Messages BY <1>1
<1>3. files[message.file] = <<>> BY DEF KillCreating
<1>4. PICK written \in Beginnings(units) : files' = [files EXCEPT ![message.file] = written]
  BY DEF KillCreating
<1> HIDE DEF message
<1>5. message.file \in Files /\ units \in Seq(Units) BY <1>2, MessagesAre, OneLine
<1>6. files \in [Files -> Seq(Units)] BY DEF Control, StoreTypes
<1> HIDE DEF units
<1>7. written \in Seq(Units)
  <2>1. PICK k \in 0 .. Len(units) : written = SubSeq(units, 1, k) BY <1>4 DEF Beginnings
  <2>2. Len(units) \in Nat BY <1>5, UnitsOf
  <2>3. 1 \in 1 .. Len(units) + 1 /\ k \in 1 - 1 .. Len(units) BY <2>1, <2>2
  <2> QED BY <2>1, <2>3, <1>5, PartOf
<1> QED BY <1>3, <1>4, <1>5, <1>6, <1>7

\* A process is started with its static variables unset, and no call is made.
LEMMA ControlStart ==
    ASSUME Control, ImportNext,
           \/ \E options \in Options, from \in Sources : StartImport(options, from)
           \/ \E options \in Options : StartSort(options)
    PROVE  Control'
<1>0. StoreTypes /\ StaticTypes /\ ProcessTypes /\ Scanned /\ Located /\ Endings BY DEF Control
<1>1. PICK options \in Options :
         \/ \E from \in Sources : StartImport(options, from)
         \/ StartSort(options)
  OBVIOUS
<1>2. /\ phase = "off" /\ vm' = options /\ in_file' = <<>> /\ pc' = pc /\ files' = files
      /\ backup' = backup /\ has_backup' = has_backup
      /\ static_datetime' = 0 /\ static_position' = -1
  BY <1>1 DEF StartImport, StartSort, Unset, NoCall, storeVars
<1>3. pc = "idle" BY <1>0, <1>2 DEF ProcessTypes
<1>4. options \subseteq {"miranda", "sort", "remove-backup"} BY ImportAssumption DEF ImportAssumption
<1>5. /\ phase' \in {"off", "import", "rename"}
      /\ phase' = "import" => itr' \subseteq Seq(Entries)
  <2>1. CASE StartSort(options) BY <2>1 DEF StartSort, AfterImport
  <2>2. ASSUME NEW from \in Sources, StartImport(options, from)
        PROVE  /\ phase' \in {"off", "import", "rename"}
               /\ phase' = "import" => itr' \subseteq Seq(Entries)
    BY <2>2, ImportAssumption DEF ImportAssumption, StartImport
  <2> QED BY <1>1, <2>1, <2>2
<1>6. StoreTypes' BY <1>0, <1>2 DEF StoreTypes
<1>7. StaticTypes' BY <1>2 DEF StaticTypes
<1>8. ProcessTypes' BY <1>2, <1>3, <1>4, <1>5 DEF ProcessTypes
<1>9. ImportsWhole' BY <1>2, <1>3 DEF ImportsWhole
<1>10. Scanned' /\ Located' BY <1>2, <1>3 DEF Scanned, Located
<1>11. Endings' BY <1>5 DEF Endings
<1> QED BY <1>6, <1>7, <1>8, <1>9, <1>10, <1>11 DEF Control

\* A process that is killed makes no call any more.
LEMMA ControlKilled ==
    ASSUME Control, Killed, files' \in [Files -> Seq(Units)]
    PROVE  Control'
<1>0. StoreTypes /\ StaticTypes /\ ProcessTypes /\ Scanned /\ Located /\ Endings BY DEF Control
<1>1. /\ phase' = "off" /\ in_file' = <<>> /\ pc' = "idle" /\ vm' = vm
      /\ backup' = backup /\ has_backup' = has_backup
      /\ static_position' = static_position /\ static_datetime' = static_datetime
  BY DEF Killed, cacheVars
<1>2. StoreTypes' BY <1>0, <1>1 DEF StoreTypes
<1>3. StaticTypes' BY <1>0, <1>1 DEF StaticTypes
<1>4. ProcessTypes' BY <1>0, <1>1 DEF ProcessTypes
<1>5. ImportsWhole' BY <1>1 DEF ImportsWhole
<1>6. Scanned' /\ Located' BY <1>1 DEF Scanned, Located
<1>7. Endings' BY <1>1 DEF Endings
<1> QED BY <1>2, <1>3, <1>4, <1>5, <1>6, <1>7 DEF Control

\* The steps of the process between two calls change nothing of a call, and no file.
Between == ImportFile \/ EndImport \/ Refuse \/ SortFile \/ EndSort \/ Exit

LEMMA BetweenIs ==
    ASSUME Control, Between
    PROVE  /\ UNCHANGED vars /\ pc = "idle" /\ phase # "off" /\ UNCHANGED <<kills, grown, runs>>
           /\ UNCHANGED <<backup, has_backup>>
<1>1. ProcessTypes BY DEF Control
<1>2. KeepBackup BY <1>1 DEF ProcessTypes, KeepBackup
<1>3. pc = "idle" BY <1>1 DEF ProcessTypes, Between, ImportFile, EndImport, Refuse, SortFile,
                           EndSort, Exit, Idle
<1> QED BY <1>2, <1>3 DEF Between, ImportFile, EndImport, Refuse, SortFile, EndSort, Exit, storeVars

\* The messages of a file to import, and of a file to sort.
LEMMA ImportFileIs ==
    ASSUME Control, ImportFile
    PROVE  /\ phase' = "import" /\ vm' = vm /\ itr' \subseteq Seq(Entries)
           /\ in_file' \in Seq(Messages) /\ \A k \in DOMAIN in_file' : Whole(in_file'[k].text)
<1>1. phase = "import" /\ phase' = phase /\ vm' = vm BY DEF ImportFile
<1>2. itr \subseteq Seq(Entries) BY <1>1 DEF Control, ProcessTypes
<1>3. PICK source \in itr :
         /\ itr' = itr \ {source}
         /\ in_file' = [k \in DOMAIN source |-> Message(source[k])]
  BY DEF ImportFile
<1>4. source \in Seq(Entries) BY <1>2
<1>5. DOMAIN source = 1 .. Len(source) /\ Len(source) \in Nat
      /\ \A k \in 1 .. Len(source) : source[k] \in Entries
  BY <1>4
<1>6. \A k \in 1 .. Len(source) :
         Message(source[k]) \in Messages /\ Whole(Message(source[k]).text)
  BY <1>5, EntryMessage
<1>7. in_file' \in Seq(Messages) /\ DOMAIN in_file' = 1 .. Len(source)
      /\ \A k \in 1 .. Len(source) : in_file'[k] = Message(source[k])
  <2>1. in_file' = [k \in 1 .. Len(source) |-> Message(source[k])] BY <1>3, <1>5
  <2> QED BY <2>1, <1>5, <1>6, SeqDef
<1> QED BY <1>1, <1>2, <1>3, <1>6, <1>7

LEMMA SortFileIs ==
    ASSUME Control, SortFile
    PROVE  /\ phase = "sort" /\ phase' = "sort" /\ vm' = vm /\ pc = "idle" /\ in_file = <<>>
           /\ \E name \in itr :
                /\ name \in Files /\ itr' = itr \ {name} /\ backup[name] \in Seq(Units)
                /\ in_file' \in Seq(Messages)
                /\ DOMAIN in_file' = DOMAIN LinesOf(backup[name])
                /\ \A k \in DOMAIN in_file' : /\ in_file'[k].file = name
                                              /\ in_file'[k].text = LinesOf(backup[name])[k]
<1>1. phase = "sort" /\ phase' = phase /\ vm' = vm /\ pc = "idle" /\ in_file = <<>>
  BY DEF SortFile, Idle
<1>2. itr \subseteq Files /\ backup \in [Files -> Seq(Units)]
  BY <1>1 DEF Control, ProcessTypes, StoreTypes
<1>3. PICK name \in itr :
         /\ itr' = itr \ {name}
         /\ LET lines == LinesOf(backup[name])
            IN  in_file' = [k \in DOMAIN lines |->
                               [file |-> name, time |-> TimeOf(lines[k]), text |-> lines[k]]]
  BY DEF SortFile
<1> DEFINE lines == LinesOf(backup[name])
<1>4. name \in Files /\ backup[name] \in Seq(Units) BY <1>2
<1>5. DOMAIN lines = 1 .. Len(lines) /\ Len(lines) \in Nat BY <1>4, LinesAre
<1>6. \A k \in DOMAIN lines :
         [file |-> name, time |-> TimeOf(lines[k]), text |-> lines[k]] \in Messages
  BY <1>4, LineMessage
<1>7. in_file' = [k \in 1 .. Len(lines) |->
                     [file |-> name, time |-> TimeOf(lines[k]), text |-> lines[k]]]
  BY <1>3, <1>5
<1> HIDE DEF lines
<1>8. in_file' \in Seq(Messages)
  <2>1. \A k \in 1 .. Len(lines) :
           [file |-> name, time |-> TimeOf(lines[k]), text |-> lines[k]] \in Messages
    BY <1>5, <1>6
  <2>2. in_file' \in [1 .. Len(lines) -> Messages] BY ONLY <2>1, <1>7
  <2> QED BY ONLY <2>2, <1>5, SeqDef
<1>9. DOMAIN in_file' = DOMAIN lines BY <1>5, <1>7
<1>10. \A k \in DOMAIN in_file' : in_file'[k].file = name /\ in_file'[k].text = lines[k]
  BY <1>5, <1>7, <1>9
<1> QED BY <1>1, <1>3, <1>4, <1>8, <1>9, <1>10 DEF lines

LEMMA ControlBetween ==
    ASSUME Control, Between
    PROVE  Control'
<1>0. /\ StoreTypes /\ StaticTypes /\ ProcessTypes /\ ImportsWhole /\ Scanned /\ Located /\ Endings
  BY DEF Control
<1>1. /\ UNCHANGED vars /\ pc = "idle" /\ UNCHANGED <<backup, has_backup>>
  BY BetweenIs
<1>2. /\ files' = files /\ pc' = pc
      /\ static_position' = static_position /\ static_datetime' = static_datetime
  BY <1>1 DEF vars, cacheVars
<1>3. /\ vm' = vm /\ in_file' \in Seq(Messages)
      /\ in_file' # <<>> => phase' \in {"import", "sort"}
      /\ phase' = "import" => itr' \subseteq Seq(Entries)
      /\ phase' = "sort" => itr' \subseteq Files
      /\ phase' = "import" => \A k \in DOMAIN in_file' : Whole(in_file'[k].text)
      /\ phase' \in {"sort", "sorted"} => phase \in {"sort", "sorted"}
  <2>1. CASE ImportFile BY <2>1, ImportFileIs
  <2>2. CASE EndImport BY <2>2, <1>0 DEF EndImport, Idle, AfterImport, ProcessTypes
  <2>3. CASE Refuse BY <2>3, <1>0 DEF Refuse, ProcessTypes
  <2>4. CASE SortFile BY <2>4, <1>0, SortFileIs DEF ProcessTypes
  <2>5. CASE EndSort BY <2>5, <1>0 DEF EndSort, Idle, ProcessTypes
  <2>6. CASE Exit BY <2>6, <1>0 DEF Exit, ProcessTypes
  <2> QED BY <2>1, <2>2, <2>3, <2>4, <2>5, <2>6 DEF Between
<1>4. StoreTypes' /\ StaticTypes' BY <1>0, <1>1, <1>2 DEF StoreTypes, StaticTypes
<1>5. ProcessTypes' BY <1>0, <1>1, <1>2, <1>3 DEF ProcessTypes
<1>6. ImportsWhole' BY <1>1, <1>2, <1>3 DEF ImportsWhole
<1>7. Scanned' /\ Located' BY <1>1, <1>2 DEF Scanned, Located
<1>8. Endings' BY <1>0, <1>2, <1>3 DEF Endings
<1> QED BY <1>4, <1>5, <1>6, <1>7, <1>8 DEF Control

LEMMA ControlRename ==
    ASSUME Control, Rename
    PROVE  Control'
<1>0. /\ StoreTypes /\ StaticTypes /\ ProcessTypes /\ ImportsWhole /\ Scanned /\ Located /\ Endings
  BY DEF Control
<1>1. /\ phase = "rename" /\ phase' = "sort" /\ vm' = vm /\ pc' = pc /\ in_file' = in_file
      /\ files' = NoBackup /\ backup' = files /\ has_backup' = TRUE /\ itr' \subseteq Files
      /\ static_position' = static_position /\ static_datetime' = static_datetime
  BY DEF Rename, NoCall, cacheVars
<1>2. pc = "idle" BY <1>0, <1>1 DEF ProcessTypes
<1>3. NoBackup \in [Files -> Seq(Units)] BY NoLines DEF NoBackup
<1>4. StoreTypes' /\ StaticTypes' BY <1>0, <1>1, <1>3 DEF StoreTypes, StaticTypes
<1>5. ProcessTypes' BY <1>0, <1>1, <1>2 DEF ProcessTypes
<1>6. ImportsWhole' /\ Scanned' /\ Located' BY <1>1, <1>2 DEF ImportsWhole, Scanned, Located
<1>7. Endings' BY <1>1 DEF Endings, NoBackup
<1> QED BY <1>4, <1>5, <1>6, <1>7 DEF Control

\* The next line to add is a message.
LEMMA NextLine ==
    ASSUME Control, AddLine
    PROVE  /\ Head(in_file) \in Messages /\ in_file' = Tail(in_file) /\ in_file' \in Seq(Messages)
           /\ in_file \in Seq(Messages) /\ in_file # <<>>
           /\ DOMAIN in_file = 1 .. Len(in_file) /\ Len(in_file) \in Nat /\ Len(in_file) >= 1
           /\ Head(in_file) = in_file[1] /\ DOMAIN in_file' = 1 .. Len(in_file) - 1
           /\ \A k \in 1 .. Len(in_file) - 1 : in_file'[k] = in_file[k + 1]
           /\ phase \in {"import", "sort"} /\ phase' = phase /\ vm' = vm /\ itr' = itr
           /\ backup' = backup /\ has_backup' = has_backup /\ pc = "idle" /\ kills' = kills
           /\ Create(Head(in_file)) \/ Open(Head(in_file), IgnoresDuplicates)
<1>1. in_file \in Seq(Messages) /\ in_file # <<>> /\ in_file' = Tail(in_file)
  BY DEF AddLine, Control, ProcessTypes
<1>2. /\ Len(in_file) \in Nat /\ Len(in_file) >= 1 /\ DOMAIN in_file = 1 .. Len(in_file)
      /\ Head(in_file) = in_file[1] /\ Head(in_file) \in Messages
  BY <1>1, EmptySeq
<1>3. /\ in_file' \in Seq(Messages) /\ Len(in_file') = Len(in_file) - 1
      /\ DOMAIN in_file' = 1 .. Len(in_file) - 1
      /\ \A k \in 1 .. Len(in_file) - 1 : in_file'[k] = in_file[k + 1]
  BY <1>1, HeadTailProperties
<1>4. Create(Head(in_file)) \/ Open(Head(in_file), IgnoresDuplicates) BY DEF AddLine, Call
<1>5. pc = "idle" BY <1>4 DEF Create, Open
<1> QED BY <1>1, <1>2, <1>3, <1>4, <1>5 DEF AddLine

LEMMA ControlAddLine ==
    ASSUME Control, AddLine
    PROVE  Control'
<1>0. /\ StoreTypes /\ StaticTypes /\ ProcessTypes /\ ImportsWhole /\ Scanned /\ Located /\ Endings
  BY DEF Control
<1> DEFINE message == Head(in_file)
<1>1. /\ message \in Messages /\ in_file' \in Seq(Messages)
      /\ phase \in {"import", "sort"} /\ phase' = phase /\ vm' = vm /\ itr' = itr
      /\ backup' = backup /\ has_backup' = has_backup /\ pc = "idle"
      /\ Create(message) \/ Open(message, IgnoresDuplicates)
  BY NextLine
<1>2. phase = "import" => Whole(message.text) /\ \A k \in DOMAIN in_file' : Whole(in_file'[k].text)
  <2>1. SUFFICES ASSUME phase = "import"
                 PROVE  Whole(message.text) /\ \A k \in DOMAIN in_file' : Whole(in_file'[k].text)
    OBVIOUS
  <2>2. \A k \in DOMAIN in_file : Whole(in_file[k].text) BY <1>0, <2>1 DEF ImportsWhole
  <2>3. /\ DOMAIN in_file = 1 .. Len(in_file) /\ Len(in_file) \in Nat /\ Len(in_file) >= 1
        /\ message = in_file[1] /\ DOMAIN in_file' = 1 .. Len(in_file) - 1
        /\ \A k \in 1 .. Len(in_file) - 1 : in_file'[k] = in_file[k + 1]
    BY NextLine
  <2>4. \A k \in 1 .. Len(in_file) - 1 : k + 1 \in DOMAIN in_file BY <2>3
  <2>5. 1 \in DOMAIN in_file BY <2>3
  <2> QED BY <2>2, <2>3, <2>4, <2>5
<1> HIDE DEF message
<1>m. message.file \in Files BY <1>1, MessagesAre
<1>3. CASE Create(message)
  <2>1. /\ files' \in [Files -> Seq(Units)] /\ files'[message.file] = <<BOM>> \o Line(message)
        /\ \A name \in Files : name # message.file => files'[name] = files[name]
    BY <1>1, <1>3, CreateIs
  <2>2. /\ pc' = pc /\ added' = added
        /\ static_position' = static_position /\ static_datetime' = static_datetime
    BY <1>3 DEF Create, cacheVars, callVars
  <2>3. StoreTypes' /\ StaticTypes' BY <1>0, <1>1, <2>1, <2>2 DEF StoreTypes, StaticTypes
  <2>4. ProcessTypes' BY <1>0, <1>1, <2>2 DEF ProcessTypes
  <2>5. ImportsWhole' /\ Scanned' /\ Located'
    BY <1>1, <1>2, <2>2 DEF ImportsWhole, Scanned, Located
  <2>6. Endings'
    <3>1. LET file == <<BOM>> \o Line(message) IN file[Len(file)] = LF
      BY <1>1, MessagesAre, OneLine
    <3>2. files'[message.file][Len(files'[message.file])] = LF BY <2>1, <3>1
    <3> QED BY <3>2, <2>1, <1>0, <1>1 DEF Endings
  <2> QED BY <2>3, <2>4, <2>5, <2>6 DEF Control
<1>4. CASE Open(message, IgnoresDuplicates)
  <2>1. /\ files' = files /\ files[message.file] # <<>> /\ added' = message /\ pc' = "scan"
        /\ in_pos' = IF CacheHit(message) THEN static_position ELSE 1
        /\ current_datetime' = IF CacheHit(message) THEN static_datetime ELSE 0
        /\ eofbit' = FALSE /\ failbit' = FALSE
        /\ static_position' = static_position /\ static_datetime' = static_datetime
    BY <1>4 DEF Open, cacheVars
  <2>2. StoreTypes' /\ StaticTypes' BY <1>0, <1>1, <2>1 DEF StoreTypes, StaticTypes
  <2>3. ProcessTypes' BY <1>0, <1>1, <2>1 DEF ProcessTypes
  <2>4. ImportsWhole' /\ Located' BY <1>1, <1>2, <2>1 DEF ImportsWhole, Located
  <2>5. Scanned'
    <3>1. in_pos' \in Nat /\ in_pos' >= 1 /\ current_datetime' \in Nat
      BY <1>0, <2>1 DEF StaticTypes, CacheHit
    <3>2. current_datetime' <= message.time
      <4>1. message.time \in Nat BY <1>1, MessagesAre
      <4> QED BY <2>1, <4>1 DEF CacheHit
    <3>3. ~(current_datetime' > message.time)
      <4>1. message.time \in Nat BY <1>1, MessagesAre
      <4> QED BY <3>1, <3>2, <4>1
    <3> QED BY <3>1, <3>3, <2>1 DEF Scanned, File
  <2>6. Endings' BY <1>0, <1>1, <2>1 DEF Endings
  <2> QED BY <2>2, <2>3, <2>4, <2>5, <2>6 DEF Control
<1> QED BY <1>1, <1>3, <1>4

\* A step of a call that reads changes no file, and where it is it will be known.
LEMMA ControlRead ==
    ASSUME Control, HistoryAdd, ReadLogLine \/ ReadOther \/ ReadEnd \/ ReadTornLine
    PROVE  Control'
<1>0. /\ StoreTypes /\ StaticTypes /\ ProcessTypes /\ ImportsWhole /\ Scanned /\ Located /\ Endings
  BY DEF Control
<1>1. /\ pc = "scan" /\ current_datetime <= added.time /\ ~eofbit
      /\ files' = files /\ added' = added /\ pc' \in {"scan", "idle"}
      /\ backup' = backup /\ has_backup' = has_backup
      /\ phase' = phase /\ vm' = vm /\ itr' = itr /\ in_file' = in_file
  BY DEF HistoryAdd, storeVars, processVars, ReadLogLine, ReadOther, ReadEnd, ReadTornLine,
         Scanning, callVars, cacheVars
<1>2. /\ added \in Messages /\ added.file \in Files /\ added.time \in Nat
      /\ in_pos \in Nat /\ in_pos >= 1 /\ current_datetime \in Nat /\ File # <<>> /\ ~failbit
  BY <1>0, <1>1, MessagesAre DEF ProcessTypes, Scanned
<1>3. File \in Seq(Units) /\ File' = File /\ Len(File) \in Nat BY <1>0, <1>1, <1>2, UnitsOf DEF StoreTypes, File
<1>4. StoreTypes' BY <1>0, <1>1 DEF StoreTypes
<1>5. ProcessTypes' BY <1>0, <1>1 DEF ProcessTypes
<1>6. ImportsWhole' BY <1>0, <1>1 DEF ImportsWhole
<1>7. Located' BY <1>1 DEF Located
<1>8. Endings' BY <1>0, <1>1 DEF Endings
<1>9. StaticTypes' /\ Scanned'
  <2>1. CASE ReadLogLine
    <3>1. /\ Returns # {} /\ IsText(LineRead) /\ in_pos' = AfterLine
          /\ line_size' = AfterLine - in_pos /\ eofbit' = ~HasNewline /\ failbit' = failbit
          /\ current_datetime' = TimeOf(LineRead) /\ static_datetime' = TimeOf(LineRead)
          /\ static_position' = AfterLine
      BY <2>1 DEF ReadLogLine
    <3>2. /\ FirstReturn \in in_pos + 1 .. Len(File) /\ File[FirstReturn] = CR
          /\ AfterLine = IF FirstReturn < Len(File) THEN FirstReturn + 1 ELSE FirstReturn
          /\ AfterLine \in Nat /\ AfterLine <= Len(File)
      BY <1>2, <1>3, <3>1, LineReadIs
    <3>3. /\ in_pos + 1 < FirstReturn /\ in_pos + 1 \in 1 .. Len(File)
          /\ StartOfText(File[in_pos + 1]) /\ TimeOf(LineRead) \in Nat
      BY <1>2, <1>3, <3>1, LogLineIs
    <3>4. AfterLine >= 2 BY <1>2, <3>2, <3>3
    <3>5. in_pos' - line_size' = in_pos /\ AtText(in_pos)
      BY <1>2, <1>3, <3>1, <3>2, <3>3 DEF AtText
    <3>6. AtText(in_pos - line_size)' BY <1>3, <3>5 DEF AtText
    <3>7. eofbit' => AtEnd(Len(File))'
      <4>1. SUFFICES ASSUME eofbit' PROVE AtEnd(Len(File))' OBVIOUS
      <4>e. ~HasNewline BY <3>1, <4>1
      <4>2. FirstReturn = Len(File) BY <1>3, <3>2, <4>e DEF HasNewline
      <4> QED BY <1>2, <1>3, <3>2, <3>3, <4>2 DEF AtEnd
    <3>8. StaticTypes' BY <3>1, <3>2, <3>3, <3>4 DEF StaticTypes
    <3>9. in_pos' \in Nat /\ in_pos' >= 1 /\ ~failbit' /\ current_datetime' \in Nat
      BY <1>2, <3>1, <3>2, <3>3, <3>4
    <3>10. Scanned' BY <1>2, <1>3, <3>6, <3>7, <3>9 DEF Scanned
    <3> QED BY <3>8, <3>10
  <2>2. CASE ReadOther
    <3>1. /\ Returns # {} /\ ~IsText(LineRead) /\ in_pos' = AfterLine
          /\ eofbit' = ~HasNewline /\ failbit' = failbit
          /\ current_datetime' = current_datetime /\ static_datetime' = static_datetime
          /\ static_position' = static_position
      BY <2>2 DEF ReadOther, cacheVars
    <3>2. /\ FirstReturn \in in_pos + 1 .. Len(File) /\ File[FirstReturn] = CR
          /\ AfterLine = IF FirstReturn < Len(File) THEN FirstReturn + 1 ELSE FirstReturn
          /\ AfterLine \in Nat /\ AfterLine <= Len(File)
      BY <1>2, <1>3, <3>1, LineReadIs
    <3>3. eofbit' => AtEnd(Len(File))'
      <4>1. SUFFICES ASSUME eofbit' PROVE AtEnd(Len(File))' OBVIOUS
      <4>e. ~HasNewline BY <3>1, <4>1
      <4>2. FirstReturn = Len(File) BY <1>3, <3>2, <4>e DEF HasNewline
      <4> QED BY <1>2, <1>3, <3>2, <4>2 DEF AtEnd
    <3>4. StaticTypes' BY <1>0, <3>1 DEF StaticTypes
    <3>5. /\ in_pos' \in Nat /\ in_pos' >= 1 /\ ~failbit' /\ current_datetime' \in Nat
          /\ ~(current_datetime' > added.time)
      BY <1>1, <1>2, <3>1, <3>2
    <3>6. Scanned' BY <1>1, <1>2, <1>3, <3>3, <3>5 DEF Scanned
    <3> QED BY <3>4, <3>6
  <2>3. CASE ReadEnd
    <3>1. /\ in_pos' = IF in_pos < Len(File) THEN Len(File) ELSE in_pos
          /\ eofbit' /\ failbit' /\ current_datetime' = current_datetime
          /\ static_datetime' = static_datetime /\ static_position' = static_position
      BY <2>3 DEF ReadEnd, cacheVars
    <3>2. StaticTypes' BY <1>0, <3>1 DEF StaticTypes
    <3>3. in_pos' \in Nat /\ in_pos' >= 1 BY <1>2, <1>3, <3>1
    <3>4. Scanned' BY <1>2, <1>3, <3>1, <3>3 DEF Scanned
    <3> QED BY <3>2, <3>4
  <2>4. CASE ReadTornLine
    <3>1. /\ Returns = {} /\ IsText(LastLine) /\ in_pos' = Len(File)
          /\ eofbit' /\ failbit' /\ current_datetime' = TimeOf(LastLine)
          /\ static_datetime' = TimeOf(LastLine) /\ static_position' = -1
      BY <2>4 DEF ReadTornLine
    <3>2. TimeOf(LastLine) \in Nat /\ Len(File) >= 1
      <4>1. in_pos < Len(File)
        <5>1. SUFFICES ASSUME ~(in_pos < Len(File)) PROVE FALSE OBVIOUS
        <5>2. LastLine = <<>> BY <5>1, <1>2, <1>3, SubSeqProperties, EmptySeq DEF LastLine
        <5> QED BY <5>2, <3>1 DEF IsText
      <4>2. in_pos + 1 \in 1 .. Len(File) + 1 /\ Len(File) \in (in_pos + 1) - 1 .. Len(File)
        BY <4>1, <1>2, <1>3
      <4>3. LastLine \in Seq(Units) BY <4>2, <1>3, PartOf DEF LastLine
      <4>4. LastLine[1] \in Units
        <5>1. Len(LastLine) >= 1 /\ Len(LastLine) \in Nat BY <4>3, <3>1, TextIs
        <5>2. 1 \in 1 .. Len(LastLine) BY <5>1
        <5> QED BY <5>2, <4>3, UnitsOf
      <4> QED BY <4>1, <4>4, <1>2, <1>3 DEF TimeOf, Units
    <3>3. StaticTypes' BY <3>1, <3>2 DEF StaticTypes
    <3>4. Scanned' BY <1>2, <1>3, <3>1, <3>2 DEF Scanned
    <3> QED BY <3>3, <3>4
  <2> QED BY <2>1, <2>2, <2>3, <2>4
<1> QED BY <1>4, <1>5, <1>6, <1>7, <1>8, <1>9 DEF Control

LEMMA ControlLocate ==
    ASSUME Control, HistoryAdd, Locate
    PROVE  Control'
<1>0. /\ StoreTypes /\ StaticTypes /\ ProcessTypes /\ ImportsWhole /\ Scanned /\ Located /\ Endings
  BY DEF Control
<1>1. /\ pc = "scan" /\ ~Scanning /\ pc' = "write" /\ file_pos' = Place
      /\ data' = IF Place = -1 THEN <<>> ELSE SubSeq(File, Place + 1, Len(File))
      /\ files' = files /\ added' = added
      /\ static_position' = static_position /\ static_datetime' = static_datetime
      /\ backup' = backup /\ has_backup' = has_backup
      /\ phase' = phase /\ vm' = vm /\ itr' = itr /\ in_file' = in_file
  BY DEF HistoryAdd, storeVars, processVars, Locate, callVars, cacheVars
<1>2. StoreTypes' /\ StaticTypes' BY <1>0, <1>1 DEF StoreTypes, StaticTypes
<1>3. ProcessTypes' BY <1>0, <1>1 DEF ProcessTypes
<1>4. ImportsWhole' /\ Scanned' BY <1>0, <1>1 DEF ImportsWhole, Scanned
<1>5. Endings' BY <1>0, <1>1 DEF Endings
<1>6. Place # -1 => AtText(Place) \/ AtEnd(Place)
  <2>1. SUFFICES ASSUME ~failbit PROVE AtText(Place) \/ AtEnd(Place) BY DEF Place
  <2>2. CASE eofbit BY <2>1, <2>2, <1>0, <1>1 DEF Scanned, Place
  <2>3. CASE ~eofbit
    <3>1. current_datetime \in Nat /\ added.time \in Nat
      BY <1>0, <1>1, MessagesAre DEF Scanned, ProcessTypes
    <3>2. current_datetime > added.time BY <1>1, <2>3, <3>1 DEF Scanning
    <3> QED BY <2>1, <2>3, <3>2, <1>0, <1>1 DEF Scanned, Place
  <2> QED BY <2>2, <2>3
<1>7. Located'
  <2>1. File' = File BY <1>1 DEF File
  <2>2. SUFFICES ASSUME file_pos' # -1
                 PROVE  /\ AtText(file_pos)' \/ AtEnd(file_pos)'
                        /\ data' = SubSeq(File, file_pos' + 1, Len(File))
    BY <2>1 DEF Located
  <2>3. AtText(file_pos)' \/ AtEnd(file_pos)' BY <1>1, <1>6, <2>1, <2>2 DEF AtText, AtEnd
  <2>4. data' = SubSeq(File, file_pos' + 1, Len(File)) BY <1>1, <2>2
  <2> QED BY <2>3, <2>4
<1> QED BY <1>2, <1>3, <1>4, <1>5, <1>7 DEF Control

LEMMA ControlWrite ==
    ASSUME Control, HistoryAdd, Write
    PROVE  Control'
<1>0. /\ StoreTypes /\ StaticTypes /\ ProcessTypes /\ ImportsWhole /\ Scanned /\ Located /\ Endings
  BY DEF Control
<1>1. /\ pc = "write" /\ pc' = "idle" /\ added' = added
      /\ files' = IF file_pos = -1 THEN files
                  ELSE [files EXCEPT ![added.file] = Overwrite(File, file_pos, Line(added) \o data)]
      /\ static_position' = static_position /\ static_datetime' = static_datetime
      /\ backup' = backup /\ has_backup' = has_backup
      /\ phase' = phase /\ vm' = vm /\ itr' = itr /\ in_file' = in_file
  BY DEF HistoryAdd, storeVars, processVars, Write, callVars, cacheVars
<1>2. StaticTypes' BY <1>0, <1>1 DEF StaticTypes
<1>3. ProcessTypes' BY <1>0, <1>1 DEF ProcessTypes
<1>4. ImportsWhole' /\ Scanned' /\ Located' BY <1>0, <1>1 DEF ImportsWhole, Scanned, Located
<1>5. CASE file_pos = -1
  <2>1. files' = files BY <1>1, <1>5
  <2> QED BY <2>1, <1>0, <1>1, <1>2, <1>3, <1>4 DEF Control, StoreTypes, Endings
<1>6. CASE file_pos # -1
  <2>1. /\ File \in Seq(Units) /\ files' \in [Files -> Seq(Units)] /\ added \in Messages
        /\ PutIn(File, files'[added.file], file_pos, added.text)
        /\ \A name \in Files : name # added.file => files'[name] = files[name]
        /\ AtText(file_pos) \/ AtEnd(file_pos)
    BY <1>6, WriteIs
  <2>2. StoreTypes' BY <2>1, <1>0, <1>1 DEF StoreTypes
  <2>3. Endings'
    <3>1. SUFFICES ASSUME phase \in {"sort", "sorted"}, NEW name \in Files, files'[name] # <<>>
                   PROVE  files'[name][Len(files'[name])] = LF
      BY <1>1 DEF Endings
    <3>2. \A other \in Files : files[other] # <<>> => files[other][Len(files[other])] = LF
      BY <3>1, <1>0 DEF Endings
    <3>3. CASE name # added.file BY <3>1, <3>2, <3>3, <2>1
    <3>4. CASE name = added.file
      <4> DEFINE n == Len(File)   l == Len(added.text)   other == files'[added.file]
      <4>1. n \in Nat /\ l \in Nat /\ file_pos \in 1 .. n /\ Len(other) = n + l + 2
            /\ \A i \in file_pos + 1 .. n : other[i + l + 2] = File[i]
        <5>1. added.text \in Seq(Units) BY <2>1 DEF PutIn
        <5> QED BY <2>1, <5>1, UnitsOf DEF PutIn
      <4>2. File # <<>> BY <4>1
      <4>3. File[n] = LF BY <4>2, <3>2, <3>4 DEF File
      <4>4. file_pos < n
        <5>1. File[n] # CR BY <4>3, UnitFacts
        <5> HIDE DEF n
        <5>2. n = Len(File) BY DEF n
        <5> QED BY <5>1, <5>2, <4>1, <2>1 DEF AtText, AtEnd
      <4> HIDE DEF n, l, other
      <4>5. n \in file_pos + 1 .. n BY <4>1, <4>4
      <4>6. other[n + l + 2] = LF BY <4>1, <4>3, <4>5
      <4> QED BY <4>1, <4>6, <3>4 DEF other
    <3> QED BY <3>3, <3>4
  <2> QED BY <2>2, <2>3, <1>2, <1>3, <1>4 DEF Control
<1> QED BY <1>5, <1>6

\* The control of the process holds in every state.
LEMMA ControlStep ==
    ASSUME Control, [ImportNext]_allVars
    PROVE  Control'
<1>1. CASE \/ \E options \in Options, from \in Sources : StartImport(options, from)
           \/ \E options \in Options : StartSort(options)
  BY <1>1, ControlStart DEF ImportNext
<1>2. CASE Between BY <1>2, ControlBetween
<1>3. CASE AddLine BY <1>3, ControlAddLine
<1>4. CASE HistoryAdd
  BY <1>4, ControlRead, ControlLocate, ControlWrite DEF HistoryAdd, CallStep
<1>5. CASE Rename BY <1>5, ControlRename
<1>6. CASE Kill
  <2>1. files' \in [Files -> Seq(Units)] BY <1>6 DEF Kill, Control, StoreTypes
  <2> QED BY <2>1, <1>6, ControlKilled DEF Kill
<1>7. CASE KillWriting
  <2>1. files' \in [Files -> Seq(Units)] BY <1>7, CutIs
  <2> QED BY <2>1, <1>7, ControlKilled DEF KillWriting
<1>8. CASE KillCreating
  <2>1. files' \in [Files -> Seq(Units)] BY <1>8, CutCreateIs
  <2> QED BY <2>1, <1>8, ControlKilled DEF KillCreating
<1>9. CASE UNCHANGED allVars
  <2>1. Control' <=> Control
    BY <1>9 DEF allVars, vars, storeVars, processVars, cacheVars, streamVars, callVars,
       Control, StoreTypes, StaticTypes, ProcessTypes, ImportsWhole, Scanned, Located, Endings,
       File, AtText, AtEnd
  <2> QED BY <2>1
<1> QED BY <1>1, <1>2, <1>3, <1>4, <1>5, <1>6, <1>7, <1>8, <1>9 DEF ImportNext, ProcessStep, Between

LEMMA ControlInit ==
    ASSUME ImportInit
    PROVE  Control
<1>1. files \in [Files -> Seq(Units)] BY ImportAssumption DEF ImportAssumption, ImportInit, Init
<1>2. NoBackup \in [Files -> Seq(Units)] BY NoLines DEF NoBackup
<1>3. /\ backup = NoBackup /\ phase = "off" /\ vm = {} /\ in_file = <<>> /\ pc = "idle"
      /\ static_position = -1 /\ static_datetime = 0
  BY DEF ImportInit, Init
<1>4. StoreTypes /\ StaticTypes BY <1>1, <1>2, <1>3 DEF StoreTypes, StaticTypes
<1>5. ProcessTypes /\ ImportsWhole BY <1>3 DEF ProcessTypes, ImportsWhole
<1>6. Scanned /\ Located /\ Endings BY <1>3 DEF Scanned, Located, Endings
<1> QED BY <1>4, <1>5, <1>6 DEF Control

LEMMA ControlAlways == ImportSpec => []Control
<1>1. ImportInit => Control BY ControlInit
<1>2. Control /\ [ImportNext]_allVars => Control' BY ControlStep
<1> QED BY <1>1, <1>2, PTL DEF ImportSpec
-----------------------------------------------------------------------------
\* A write loses no line of an unmixed file.
LEMMA LinesKept ==
    ASSUME Control, Write, NEW name \in Files, Unmixed(files[name])
    PROVE  LinesIn(files[name]) \subseteq LinesIn(files'[name])
<1>1. CASE file_pos = -1
  <2>1. files' = files BY <1>1 DEF Write
  <2> QED BY <2>1
<1>2. CASE file_pos # -1 /\ name # added.file
  <2>1. files'[name] = files[name] BY <1>2, WriteIs
  <2> QED BY <2>1
<1>3. CASE file_pos # -1 /\ name = added.file
  <2> DEFINE file == files[name]   other == files'[name]   p == file_pos   text == added.text
             L == LinesOf(file)   M == LinesOf(other)
  <2>1. /\ PutIn(file, other, p, text) /\ added \in Messages
        /\ \/ p < Len(file) /\ StartOfText(file[p + 1])
           \/ p = Len(file) /\ file[p] = CR
    BY <1>3, WriteIs DEF File, AtText, AtEnd
  <2>2. IsText(text) /\ HasNo(CR, text) BY <2>1, MessagesAre
  <2>3. file \in Seq(Units) /\ other \in Seq(Units) BY <2>1 DEF PutIn
  <2>u. Unmixed(file) OBVIOUS
  <2> HIDE DEF file, other, p, text
  <2>4. ASSUME NEW n \in DOMAIN L PROVE \E k \in DOMAIN M : M[k] = L[n]
    <3>1. CASE p < Len(file) /\ StartOfText(file[p + 1])
      <4>1. PICK m : Among(L, M, m, text) BY <2>1, <2>2, <2>u, <3>1, LinesPutIn
      <4> HIDE DEF L, M
      <4>2. DOMAIN L = 1 .. Len(L) /\ DOMAIN M = 1 .. Len(L) + 1 /\ Len(L) \in Nat /\ m \in Nat
        BY <4>1, AmongTypes
      <4>3. CASE n <= m
        <5>1. n \in 1 .. m /\ n \in DOMAIN M BY <4>2, <4>3
        <5> QED BY <5>1, <4>1 DEF Among
      <4>4. CASE ~(n <= m)
        <5>1. n \in m + 1 .. Len(L) /\ n + 1 \in DOMAIN M BY <4>2, <4>4
        <5> QED BY <5>1, <4>1 DEF Among
      <4> QED BY <4>3, <4>4
    <3>2. CASE p = Len(file) /\ file[p] = CR
      <4>1. /\ p \in 1 .. Len(file) /\ Len(file) \in Nat /\ Len(text) \in Nat
            /\ Len(other) = Len(file) + Len(text) + 2 /\ \A i \in 1 .. p : other[i] = file[i]
        BY <2>1, UnitsOf DEF PutIn
      <4>2. Alike(file, other, p) BY <4>1, <3>2 DEF Alike
      <4>3. n \in 1 .. Cardinality(Begins(file)) BY <2>3, <2>u, LinesAre, UnmixedStarts
      <4>4. NthOf(Begins(file), n) \in Begins(file)
        <5>1. Places(Begins(file), Len(file)) BY <2>3, BeginsAre
        <5> QED BY <5>1, <4>3, NthIs
      <4>5. NthOf(Begins(file), n) <= p BY <4>4, <3>2, <2>3, <4>1, BeginsAre
      <4> QED BY <4>2, <4>5, <3>2, <2>3, <2>u, KeptLines
    <3> QED BY <2>1, <3>1, <3>2 DEF file, p
  <2> HIDE DEF L, M
  <2>5. LinesIn(file) \subseteq LinesIn(other) BY <2>4 DEF LinesIn, L, M
  <2> QED BY <2>5 DEF file, other
<1> QED BY <1>1, <1>2, <1>3

\* A line of the log directory is from then on in the directory or in its backup:
\* no step of history_add, of an import or of a sort loses it, not even that the
\* directory is renamed or that a process is killed; only a write that is cut off
\* does, or one into a file that such a write has left mixed.
THEOREM LinesAreSomewhere == ImportSpec => LinesSomewhere
<1> DEFINE Kept == \A name \in Files : \A line \in LinesIn(files[name]) \cup LinesIn(backup[name]) :
                      \/ line \in LinesIn(files'[name]) \cup LinesIn(backup'[name])
                      \/ KillWriting
                      \/ pc = "write" /\ ~Unmixed(files[name])
<1>1. ASSUME Control, [ImportNext]_allVars PROVE [Kept]_<<files, backup>>
  <2>0. StoreTypes /\ files \in [Files -> Seq(Units)] /\ backup \in [Files -> Seq(Units)]
    BY <1>1 DEF Control, StoreTypes
  <2>1. ASSUME UNCHANGED <<files, backup>> PROVE [Kept]_<<files, backup>> BY <2>1
  <2>2. ASSUME NEW gone \in Files, files[gone] = <<>>, backup' = backup,
               \A name \in Files : name # gone => files'[name] = files[name]
        PROVE  Kept
    <3>1. LinesIn(files[gone]) = {} BY <2>2, NoLines
    <3> QED BY <2>2, <3>1
  <2>3. CASE \/ \E options \in Options, from \in Sources : StartImport(options, from)
             \/ \E options \in Options : StartSort(options)
    BY <2>1, <2>3 DEF StartImport, StartSort, storeVars
  <2>4. CASE Between BY <1>1, <2>1, <2>4, BetweenIs DEF vars
  <2>5. CASE AddLine
    <3>1. /\ Head(in_file) \in Messages /\ backup' = backup
          /\ Create(Head(in_file)) \/ Open(Head(in_file), IgnoresDuplicates)
      BY <1>1, <2>5, NextLine
    <3>2. CASE Create(Head(in_file))
      <4>1. /\ Head(in_file).file \in Files /\ files[Head(in_file).file] = <<>>
            /\ \A name \in Files : name # Head(in_file).file => files'[name] = files[name]
        BY <1>1, <3>1, <3>2, CreateIs
      <4> HIDE DEF Kept
      <4> QED BY <4>1, <3>1, <2>2
    <3>3. CASE Open(Head(in_file), IgnoresDuplicates) BY <3>1, <3>3, <2>1 DEF Open
    <3> QED BY <3>1, <3>2, <3>3
  <2>6. CASE HistoryAdd
    <3>1. backup' = backup BY <2>6 DEF HistoryAdd, storeVars
    <3>2. CASE Write
      <4>1. pc = "write" BY <3>2 DEF Write
      <4>2. \A name \in Files : Unmixed(files[name]) => LinesIn(files[name]) \subseteq LinesIn(files'[name])
        BY <1>1, <3>2, LinesKept
      <4> QED BY <3>1, <4>1, <4>2
    <3>3. CASE ReadLogLine \/ ReadOther \/ ReadEnd \/ ReadTornLine \/ Locate
      <4>1. files' = files BY <3>3 DEF ReadLogLine, ReadOther, ReadEnd, ReadTornLine, Locate
      <4> QED BY <3>1, <4>1, <2>1
    <3> QED BY <2>6, <3>2, <3>3 DEF HistoryAdd, CallStep
  <2>7. CASE Rename
    <3>1. backup = NoBackup /\ backup' = files BY <2>7, <2>0 DEF Rename, StoreTypes
    <3>2. \A name \in Files : LinesIn(backup[name]) = {} BY <3>1, NoLines DEF NoBackup
    <3> QED BY <3>1, <3>2
  <2>8. CASE Kill BY <2>1, <2>8 DEF Kill, Killed
  <2>9. CASE KillWriting BY <2>9
  <2>10. CASE KillCreating
    <3>1. backup' = backup BY <2>10 DEF KillCreating, Killed
    <3>2. PICK gone \in Files :
             files[gone] = <<>> /\ \A name \in Files : name # gone => files'[name] = files[name]
      BY <1>1, <2>10, CutCreateIs
    <3> HIDE DEF Kept
    <3> QED BY <3>1, <3>2, <2>2
  <2>11. CASE UNCHANGED allVars BY <2>1, <2>11 DEF allVars, vars, storeVars
  <2> HIDE DEF Kept
  <2> QED BY <1>1, <2>3, <2>4, <2>5, <2>6, <2>7, <2>8, <2>9, <2>10, <2>11
          DEF ImportNext, ProcessStep, Between
<1>2. Control /\ [ImportNext]_allVars => [Kept]_<<files, backup>> BY <1>1
<1> QED BY <1>2, ControlAlways, PTL DEF ImportSpec, LinesSomewhere
-----------------------------------------------------------------------------
Ordered(file) == Unmixed(file) /\ Sorted(file)

\* The texts that are passed over from position s on are not later than a time:
\* those that begin before s, the one behind a line feed if s is before that, and
\* the only one of a file that was new when s was taken for another.
PassedNotLater(file, s, time) ==
    \/ \A j \in Begins(file) : j <= s \/ (j = s + 2 /\ file[s] = CR) => file[j].entry.time <= time
    \/ s >= 2 /\ \A j \in Begins(file) : j = 2

\* The place to write is before a later text, the last one that was read, and no
\* text begins from there to the position behind its line.
InPlace(p) ==
    /\ static_filename = added.file /\ static_datetime > added.time
    /\ File[p + 1].entry.time = static_datetime
    /\ static_position \in Nat /\ static_position >= p + 1
    /\ Unmixed(File) => \A j \in Begins(File) : j <= p + 1 \/ j > static_position
    /\ Ordered(File) => \A j \in Begins(File) : j <= p => File[j].entry.time <= added.time

Reached ==
    pc = "scan" =>
        /\ current_datetime > added.time /\ ~eofbit => InPlace(in_pos - line_size)
        /\ current_datetime <= added.time /\ ~failbit /\ Ordered(File) =>
              PassedNotLater(File, in_pos, added.time)

Placed == pc = "write" /\ file_pos # -1 => AtEnd(file_pos) \/ InPlace(file_pos)

\* The cached position is behind texts that are not later than the cached time.
Remembered ==
    /\ phase # "off" /\ static_position # -1 /\ static_filename \in Files
    /\ Ordered(files[static_filename])
    => PassedNotLater(files[static_filename], static_position, static_datetime)

Order == Reached /\ Placed /\ Remembered

\* The times of the texts are numbers.
LEMMA BeginTimes ==
    ASSUME NEW file \in Seq(Units), NEW j \in Begins(file)
    PROVE  j \in Nat /\ j >= 2 /\ j <= Len(file) /\ StartOfText(file[j]) /\ file[j].entry.time \in Nat
<1>1. j \in 2 .. Len(file) /\ StartOfText(file[j]) /\ Len(file) \in Nat BY BeginsAre, UnitsOf
<1>2. j \in 1 .. Len(file) BY <1>1
<1>3. file[j] \in Units BY <1>2, UnitsOf
<1> QED BY <1>1, <1>3 DEF Units

LEMMA PassedFromStart ==
    ASSUME NEW file \in Seq(Units), Unmixed(file), NEW time
    PROVE  PassedNotLater(file, 1, time)
<1>1. ASSUME NEW j \in Begins(file), j <= 1 \/ j = 1 + 2 PROVE FALSE
  <2>1. j \in 2 .. Len(file) /\ StartOfText(file[j]) /\ j = 3 BY <1>1, BeginTimes, UnitsOf
  <2> QED BY <2>1, UnmixedIs
<1> QED BY <1>1 DEF PassedNotLater

LEMMA PassedLater ==
    ASSUME NEW file \in Seq(Units), NEW s, NEW t \in Nat, NEW u \in Nat, t <= u,
           PassedNotLater(file, s, t)
    PROVE  PassedNotLater(file, s, u)
<1>1. ASSUME NEW j \in Begins(file), file[j].entry.time <= t PROVE file[j].entry.time <= u
  <2>1. file[j].entry.time \in Nat BY BeginTimes
  <2> QED BY <2>1, <1>1
<1> QED BY <1>1 DEF PassedNotLater

\* Behind the first carriage return at or behind q + 1, no texts are passed over but
\* one that begins at q + 1, and one at q + 2 behind another carriage return.
LEMMA PassedBy ==
    ASSUME NEW file \in Seq(Units), Unmixed(file), NEW q \in Nat, q >= 1,
           NEW r \in q + 1 .. Len(file), file[r] = CR, \A i \in q + 1 .. r - 1 : file[i] # CR,
           NEW s, s = IF r < Len(file) THEN r + 1 ELSE r,
           NEW j \in Begins(file), j <= s \/ (j = s + 2 /\ file[s] = CR)
    PROVE  j <= q \/ j = q + 1 \/ (j = q + 2 /\ file[q] = CR)
<1>1. /\ j \in Nat /\ j >= 2 /\ j <= Len(file) /\ StartOfText(file[j]) /\ Len(file) \in Nat
      /\ j \in 2 .. Len(file)
  BY BeginTimes, UnitsOf
<1>2. \A k \in 2 .. Len(file) :
         /\ file[k - 1] = CR => file[k] = LF
         /\ StartOfText(file[k]) => k = 2 \/ (k > 3 /\ file[k - 2] = CR /\ file[k - 1] = LF)
  BY UnmixedIs
<1>3. j <= s
  <2>1. SUFFICES ASSUME j = s + 2, file[s] = CR PROVE FALSE OBVIOUS
  <2>2. s = r + 1 /\ r + 1 \in 2 .. Len(file) /\ (r + 1) - 1 = r BY <2>1, <1>1
  <2>3. file[r + 1] = LF BY <2>2, <1>2
  <2> QED BY <2>1, <2>2, <2>3, UnitFacts
<1>4. SUFFICES ASSUME j > q + 1 PROVE j = q + 2 /\ file[q] = CR BY <1>1
<1>5. file[j - 2] = CR BY <1>1, <1>2, <1>4
<1>6. j = q + 2
  <2>1. SUFFICES ASSUME j > q + 2 PROVE FALSE BY <1>1, <1>4
  <2>2. j - 2 \in q + 1 .. r - 1 BY <2>1, <1>1, <1>3
  <2> QED BY <2>2, <1>5
<1> QED BY <1>5, <1>6

LEMMA PassedOther ==
    ASSUME NEW file \in Seq(Units), Unmixed(file), NEW q \in Nat, q >= 1,
           NEW r \in q + 1 .. Len(file), file[r] = CR, \A i \in q + 1 .. r - 1 : file[i] # CR,
           NEW s, s = IF r < Len(file) THEN r + 1 ELSE r,
           ~StartOfText(file[q + 1]), NEW time, PassedNotLater(file, q, time)
    PROVE  PassedNotLater(file, s, time)
<1>1. s \in Nat /\ s >= q BY UnitsOf
<1>2. CASE \A j \in Begins(file) :
              j <= q \/ (j = q + 2 /\ file[q] = CR) => file[j].entry.time <= time
  <2>1. ASSUME NEW j \in Begins(file), j <= s \/ (j = s + 2 /\ file[s] = CR)
        PROVE  file[j].entry.time <= time
    <3>1. j <= q \/ j = q + 1 \/ (j = q + 2 /\ file[q] = CR) BY <2>1, PassedBy
    <3>2. j # q + 1 BY BeginTimes
    <3> QED BY <3>1, <3>2, <1>2
  <2> QED BY <2>1 DEF PassedNotLater
<1>3. CASE q >= 2 /\ \A j \in Begins(file) : j = 2
  <2>1. s >= 2 BY <1>1, <1>3
  <2> QED BY <2>1, <1>3 DEF PassedNotLater
<1> QED BY <1>2, <1>3 DEF PassedNotLater

\* A line of the log is read: what is behind it, and what was passed over before.
LEMMA PassedLine ==
    ASSUME NEW file \in Seq(Units), Unmixed(file), NEW q \in Nat, q >= 1,
           NEW r \in q + 1 .. Len(file), file[r] = CR, \A i \in q + 1 .. r - 1 : file[i] # CR,
           NEW s, s = IF r < Len(file) THEN r + 1 ELSE r,
           StartOfText(file[q + 1])
    PROVE  /\ \A j \in Begins(file) : j <= q + 1 \/ j > s
           /\ Sorted(file) => PassedNotLater(file, s, file[q + 1].entry.time)
<1>0. Len(file) \in Nat /\ s \in Nat BY UnitsOf
<1>1. \A k \in 2 .. Len(file) : file[k - 1] = CR => file[k] = LF BY UnmixedIs
<1>2. q + 1 \in 2 .. Len(file) /\ (q + 1) - 1 = q BY <1>0
<1>3. file[q] # CR BY <1>1, <1>2, UnitFacts
<1>4. q + 1 \in Begins(file) BY <1>2, BeginsAre
<1>5. ASSUME NEW j \in Begins(file), j <= s \/ (j = s + 2 /\ file[s] = CR)
      PROVE  j <= q \/ j = q + 1
  BY <1>3, <1>5, PassedBy
<1>6. ASSUME NEW j \in Begins(file) PROVE j <= q + 1 \/ j > s
  <2>1. j \in Nat BY BeginTimes
  <2> QED BY <2>1, <1>0, <1>5
<1>7. ASSUME Sorted(file) PROVE PassedNotLater(file, s, file[q + 1].entry.time)
  <2>1. ASSUME NEW j \in Begins(file), j <= s \/ (j = s + 2 /\ file[s] = CR)
        PROVE  file[j].entry.time <= file[q + 1].entry.time
    <3>1. j <= q \/ j = q + 1 BY <2>1, <1>5
    <3>2. j \in Nat /\ file[j].entry.time \in Nat BY BeginTimes
    <3>3. CASE j = q + 1 BY <3>2, <3>3
    <3>4. CASE j <= q
      <4>1. j < q + 1 BY <3>2, <3>4
      <4> QED BY <4>1, <1>4, <1>7 DEF Sorted
    <3> QED BY <3>1, <3>3, <3>4
  <2> QED BY <2>1 DEF PassedNotLater
<1> QED BY <1>6, <1>7

\* The texts of a file a text was put into.
LEMMA BeginsPutIn ==
    ASSUME NEW file, NEW other, NEW p, NEW text, PutIn(file, other, p, text),
           IsText(text), HasNo(CR, text), p < Len(file), StartOfText(file[p + 1]),
           Unmixed(other)
    PROVE  /\ Unmixed(file)
           /\ \A j \in Begins(other) :
                \/ j \in Begins(file) /\ j <= p /\ other[j] = file[j]
                \/ j = p + 1 /\ other[j] = text[1]
                \/ \E k \in Begins(file) : k > p /\ j = k + (Len(text) + 2) /\ other[j] = file[k]
<1>1. Unmixed(file) BY StaysMixed
<1>2. file \in Seq(Units) /\ other \in Seq(Units) /\ Len(text) \in Nat
  <2>1. text \in Seq(Units) BY DEF PutIn
  <2> QED BY <2>1, UnitsOf DEF PutIn
<1>3. Begins(other) = WithPlace(Begins(file), p, Len(text) + 2)
  BY <1>1, <1>2, StartsPutIn, UnmixedStarts
<1>4. /\ other[p + 1] = text[1]
      /\ \A k \in Begins(file) : k <= p => k \in Begins(other) /\ other[k] = file[k]
      /\ \A k \in Begins(file) : k > p => other[k + Len(text) + 2] = file[k]
  BY BeginsMove
<1>5. \A k \in Begins(file) : k + Len(text) + 2 = k + (Len(text) + 2)
  <2>1. TAKE k \in Begins(file)
  <2>2. k \in Nat BY <1>2, BeginTimes
  <2> QED BY <2>2, <1>2
<1>6. ASSUME NEW j \in Begins(other)
      PROVE  \/ j \in Begins(file) /\ j <= p /\ other[j] = file[j]
             \/ j = p + 1 /\ other[j] = text[1]
             \/ \E k \in Begins(file) : k > p /\ j = k + (Len(text) + 2) /\ other[j] = file[k]
  <2> DEFINE B == Begins(file)   w == Len(text) + 2
  <2>1. \/ j \in {k \in B : k <= p} \/ j = p + 1
        \/ j \in {k + w : k \in {i \in B : i > p}}
    BY <1>3 DEF WithPlace
  <2>2. CASE j \in {k \in B : k <= p} BY <2>2, <1>4
  <2>3. CASE j = p + 1 BY <2>3, <1>4
  <2>4. CASE j \in {k + w : k \in {i \in B : i > p}}
    <3>1. PICK k \in B : k > p /\ j = k + w BY <2>4
    <3>2. other[k + Len(text) + 2] = file[k] /\ k + Len(text) + 2 = k + w BY <3>1, <1>4, <1>5
    <3>3. other[j] = file[k] BY <3>1, <3>2
    <3> HIDE DEF w
    <3> QED BY <3>1, <3>3 DEF w
  <2> QED BY <2>1, <2>2, <2>3, <2>4
<1> QED BY <1>1, <1>6

\* What was passed over before the write is so behind it.
LEMMA PassedPutIn ==
    ASSUME NEW file, NEW other, NEW p, NEW text, PutIn(file, other, p, text),
           IsText(text), HasNo(CR, text), p < Len(file), StartOfText(file[p + 1]),
           Ordered(other), NEW s \in Nat, s >= p + 1,
           Unmixed(file) => \A j \in Begins(file) : j <= p + 1 \/ j > s,
           TimeOf(text) <= file[p + 1].entry.time
    PROVE  PassedNotLater(other, s, file[p + 1].entry.time)
<1> DEFINE w == Len(text) + 2   time == file[p + 1].entry.time
<1>1. /\ Unmixed(file)
      /\ \A j \in Begins(other) :
                \/ j \in Begins(file) /\ j <= p /\ other[j] = file[j]
                \/ j = p + 1 /\ other[j] = text[1]
                \/ \E k \in Begins(file) : k > p /\ j = k + w /\ other[j] = file[k]
  BY BeginsPutIn DEF Ordered
<1>2. Sorted(file) BY StaysUnsorted DEF Ordered
<1>3. /\ file \in Seq(Units) /\ other \in Seq(Units) /\ text \in Seq(Units)
      /\ p \in Nat /\ p >= 1 /\ Len(file) \in Nat /\ Len(text) \in Nat /\ Len(text) >= 1
  <2>1. /\ file \in Seq(Units) /\ other \in Seq(Units) /\ text \in Seq(Units) /\ p \in 1 .. Len(file)
    BY DEF PutIn
  <2> QED BY <2>1, UnitsOf, TextIs
<1>4. p + 1 \in Begins(file)
  <2>1. p + 1 \in 2 .. Len(file) BY <1>3
  <2> QED BY <2>1, <1>3, BeginsAre
<1>5. w \in Nat /\ w >= 3 BY <1>3
<1> HIDE DEF w
<1>6. ASSUME NEW j \in Begins(other), j <= s \/ j = s + 2
      PROVE  other[j].entry.time <= time
  <2>1. CASE j \in Begins(file) /\ j <= p /\ other[j] = file[j]
    <3>1. j < p + 1 BY <2>1, <1>3, BeginTimes
    <3>2. file[j].entry.time <= file[p + 1].entry.time BY <3>1, <2>1, <1>2, <1>4 DEF Sorted
    <3> QED BY <3>2, <2>1
  <2>2. CASE j = p + 1 /\ other[j] = text[1] BY <2>2 DEF TimeOf
  <2>3. ASSUME NEW k \in Begins(file), k > p, j = k + w, other[j] = file[k]
        PROVE  other[j].entry.time <= time
    <3>1. k \in Nat BY <1>3, BeginTimes
    <3>2. ~(k > s) BY <3>1, <2>3, <1>5, <1>6
    <3>3. k <= p + 1 BY <3>2, <1>1
    <3>4. k = p + 1 BY <3>1, <3>3, <2>3, <1>3
    <3>5. time \in Nat BY <1>3, <1>4, BeginTimes
    <3> QED BY <3>4, <3>5, <2>3
  <2> QED BY <1>1, <2>1, <2>2, <2>3
<1> QED BY <1>6 DEF PassedNotLater

LEMMA OrderInit ==
    ASSUME ImportInit
    PROVE  Order
BY DEF ImportInit, Init, Order, Reached, Placed, Remembered

LEMMA OrderStart ==
    ASSUME Control,
           \/ \E options \in Options, from \in Sources : StartImport(options, from)
           \/ \E options \in Options : StartSort(options)
    PROVE  Order'
<1>1. phase = "off" /\ pc' = pc /\ static_position' = -1
  BY DEF StartImport, StartSort, Unset, NoCall
<1>2. pc = "idle" BY <1>1 DEF Control, ProcessTypes
<1> QED BY <1>1, <1>2 DEF Order, Reached, Placed, Remembered

LEMMA OrderBetween ==
    ASSUME Control, Order, Between
    PROVE  Order'
<1>1. /\ UNCHANGED vars /\ pc = "idle" /\ phase # "off" BY BetweenIs
<1>2. /\ files' = files /\ pc' = "idle" /\ static_filename' = static_filename
      /\ static_position' = static_position /\ static_datetime' = static_datetime
  BY <1>1 DEF vars, cacheVars
<1>3. Remembered BY DEF Order
<1>4. Remembered' BY <1>1, <1>2, <1>3 DEF Remembered
<1> QED BY <1>2, <1>4 DEF Order, Reached, Placed

LEMMA OrderRename ==
    ASSUME Control, Rename
    PROVE  Order'
<1>1. files' = NoBackup /\ phase = "rename" /\ pc' = pc BY DEF Rename, NoCall
<1>2. pc = "idle" BY <1>1 DEF Control, ProcessTypes
<1>3. \A name \in Files : Begins(files'[name]) = {} BY <1>1, NoLines DEF NoBackup
<1>4. Remembered' BY <1>3 DEF Remembered, PassedNotLater
<1> QED BY <1>1, <1>2, <1>4 DEF Order, Reached, Placed

LEMMA OrderAddLine ==
    ASSUME Control, Order, AddLine
    PROVE  Order'
<1> DEFINE message == Head(in_file)
<1>1. /\ message \in Messages /\ phase \in {"import", "sort"} /\ phase' = phase /\ pc = "idle"
      /\ Create(message) \/ Open(message, IgnoresDuplicates)
  BY NextLine
<1> HIDE DEF message
<1>2. /\ message.file \in Files /\ message.time \in Nat /\ message.text \in Seq(Units)
      /\ IsText(message.text) /\ HasNo(CR, message.text)
  BY <1>1, MessagesAre
<1>3. Remembered BY DEF Order
<1>4. StoreTypes /\ StaticTypes BY DEF Control
<1>5. CASE Create(message)
  <2>1. /\ files'[message.file] = <<BOM>> \o Line(message)
        /\ \A name \in Files : name # message.file => files'[name] = files[name]
    BY <1>1, <1>5, CreateIs
  <2>2. /\ pc' = "idle" /\ static_filename' = static_filename
        /\ static_position' = static_position /\ static_datetime' = static_datetime
    BY <1>1, <1>5 DEF Create, cacheVars
  <2>3. CASE static_filename # message.file
    <3>1. static_filename \in Files => files'[static_filename] = files[static_filename]
      BY <2>1, <2>3
    <3>2. Remembered' BY <3>1, <1>1, <1>3, <2>2 DEF Remembered
    <3> QED BY <3>2, <2>2 DEF Order, Reached, Placed
  <2>4. CASE static_filename = message.file
    <3> DEFINE other == <<BOM>> \o Line(message)
    <3>1. Unmixed(other) => Begins(other) \subseteq {2} BY <1>2, OneLine
    <3> HIDE DEF other
    <3>2. static_position # -1 => static_position >= 2 BY <1>4 DEF StaticTypes
    <3>3. files'[static_filename] = other BY <2>1, <2>4 DEF other
    <3>4. Remembered' BY <3>1, <3>2, <3>3, <2>2 DEF Remembered, PassedNotLater, Ordered
    <3> QED BY <3>4, <2>2 DEF Order, Reached, Placed
  <2> QED BY <2>3, <2>4
<1>6. CASE Open(message, IgnoresDuplicates)
  <2>1. /\ files' = files /\ added' = message /\ pc' = "scan"
        /\ in_pos' = IF CacheHit(message) THEN static_position ELSE 1
        /\ current_datetime' = IF CacheHit(message) THEN static_datetime ELSE 0
        /\ static_position' = static_position /\ static_datetime' = static_datetime
        /\ static_filename' = static_filename
    BY <1>6 DEF Open, cacheVars
  <2>2. Remembered' BY <1>1, <1>3, <2>1 DEF Remembered
  <2>3. current_datetime' \in Nat /\ current_datetime' <= message.time
    BY <1>2, <1>4, <2>1 DEF StaticTypes, CacheHit
  <2>4. ~(current_datetime' > message.time) BY <1>2, <2>3
  <2> DEFINE file == files[message.file]
  <2>5. file \in Seq(Units) BY <1>2, <1>4 DEF StoreTypes
  <2>6. ASSUME Ordered(file) PROVE PassedNotLater(file, in_pos', message.time)
    <3>1. CASE CacheHit(message)
      <4>1. /\ static_filename = message.file /\ static_datetime <= message.time
            /\ static_position # -1
        BY <3>1 DEF CacheHit
      <4>2. PassedNotLater(file, static_position, static_datetime)
        BY <4>1, <1>1, <1>2, <1>3, <2>6 DEF Remembered
      <4>3. static_datetime \in Nat BY <1>4 DEF StaticTypes
      <4> HIDE DEF file
      <4>4. PassedNotLater(file, static_position, message.time)
        BY <4>1, <4>2, <4>3, <1>2, <2>5, PassedLater
      <4> QED BY <4>4, <3>1, <2>1
    <3>2. CASE ~CacheHit(message)
      <4>1. Unmixed(file) BY <2>6 DEF Ordered
      <4> HIDE DEF file
      <4>2. PassedNotLater(file, 1, message.time) BY <4>1, <2>5, PassedFromStart
      <4> QED BY <4>2, <3>2, <2>1
    <3> QED BY <3>1, <3>2
  <2>7. Reached' BY <2>1, <2>4, <2>6 DEF Reached, File
  <2>8. Placed' BY <2>1 DEF Placed
  <2> QED BY <2>2, <2>7, <2>8 DEF Order
<1> QED BY <1>1, <1>5, <1>6

LEMMA OrderRead ==
    ASSUME Control, Order, HistoryAdd, ReadLogLine \/ ReadOther \/ ReadEnd \/ ReadTornLine
    PROVE  Order'
<1>0. /\ StoreTypes /\ StaticTypes /\ ProcessTypes /\ Scanned /\ Reached /\ Remembered
  BY DEF Control, Order
<1>1. /\ pc = "scan" /\ current_datetime <= added.time /\ ~eofbit
      /\ files' = files /\ added' = added /\ pc' \in {"scan", "idle"} /\ phase' = phase
  BY DEF HistoryAdd, processVars, ReadLogLine, ReadOther, ReadEnd, ReadTornLine,
         Scanning, callVars
<1>2. /\ added \in Messages /\ added.file \in Files /\ added.time \in Nat
      /\ in_pos \in Nat /\ in_pos >= 1 /\ current_datetime \in Nat /\ ~failbit
  BY <1>0, <1>1, MessagesAre DEF ProcessTypes, Scanned
<1>3. File \in Seq(Units) /\ File' = File /\ Len(File) \in Nat /\ File = files[added.file]
  BY <1>0, <1>1, <1>2, UnitsOf DEF StoreTypes, File
<1>4. Ordered(File) => PassedNotLater(File, in_pos, added.time) BY <1>0, <1>1, <1>2 DEF Reached
<1>5. Placed' BY <1>1 DEF Placed
<1>6. CASE ReadLogLine
  <2> DEFINE r == FirstReturn   q == in_pos   s == AfterLine   file == File
  <2>1. /\ Returns # {} /\ IsText(LineRead) /\ in_pos' = s
        /\ line_size' = s - q /\ failbit' = failbit
        /\ current_datetime' = TimeOf(LineRead) /\ static_datetime' = TimeOf(LineRead)
        /\ static_position' = s /\ static_filename' = added.file
    BY <1>6 DEF ReadLogLine
  <2>2. /\ r \in q + 1 .. Len(file) /\ file[r] = CR /\ \A i \in q + 1 .. r - 1 : file[i] # CR
        /\ s = IF r < Len(file) THEN r + 1 ELSE r
        /\ s \in Nat /\ s <= Len(file)
    BY <1>2, <1>3, <2>1, LineReadIs
  <2>3. /\ q + 1 < r /\ q + 1 \in 1 .. Len(file) /\ StartOfText(file[q + 1])
        /\ TimeOf(LineRead) = file[q + 1].entry.time /\ TimeOf(LineRead) \in Nat
    BY <1>2, <1>3, <2>1, LogLineIs
  <2>4. file \in Seq(Units) /\ q \in Nat /\ q >= 1 BY <1>2, <1>3
  <2> HIDE DEF r, q, s, file
  <2>5. Unmixed(file) => \A j \in Begins(file) : j <= q + 1 \/ j > s
    BY ONLY <2>2, <2>3, <2>4, PassedLine
  <2>6. Ordered(file) => PassedNotLater(file, s, file[q + 1].entry.time)
    BY ONLY <2>2, <2>3, <2>4, PassedLine DEF Ordered
  <2>7. Remembered'
    <3>1. files'[static_filename'] = file BY <1>1, <1>3, <2>1 DEF file
    <3> QED BY <3>1, <2>1, <2>3, <2>6 DEF Remembered
  <2>8. ASSUME ~(current_datetime' <= added.time)
        PROVE  InPlace(in_pos - line_size)'
    <3>1. static_datetime' > added.time BY <2>8, <2>1, <2>3, <1>2
    <3>2. s >= q + 1 BY <2>2, <2>3, <2>4
    <3>3. Ordered(file) => \A j \in Begins(file) : j <= q => file[j].entry.time <= added.time
      <4>1. SUFFICES ASSUME Ordered(file), NEW j \in Begins(file), j <= q
                     PROVE  file[j].entry.time <= added.time
        OBVIOUS
      <4>2. PassedNotLater(file, q, added.time) BY <1>4, <4>1 DEF file, q
      <4>3. ~(q >= 2 /\ \A i \in Begins(file) : i = 2)
        <5>1. q + 1 \in 2 .. Len(file) BY <2>3, <2>4
        <5>2. q + 1 \in Begins(file) BY <5>1, <2>3, <2>4, BeginsAre
        <5> QED BY <5>2, <2>4
      <4> QED BY <4>1, <4>2, <4>3 DEF PassedNotLater
    <3>4. File' = file /\ added' = added BY <1>1, <1>3 DEF file
    <3>5. in_pos' - line_size' = q BY <2>1, <2>2, <2>4
    <3>6. File'[q + 1].entry.time = static_datetime' BY <3>4, <2>1, <2>3
    <3>7. /\ Unmixed(File') => \A j \in Begins(File') : j <= q + 1 \/ j > static_position'
          /\ Ordered(File') => \A j \in Begins(File') : j <= q => File'[j].entry.time <= added.time
      BY <3>3, <3>4, <2>1, <2>5
    <3> QED BY ONLY <3>1, <3>2, <3>4, <3>5, <3>6, <3>7, <2>1, <2>2 DEF InPlace
  <2>9. Reached'
    <3>1. ASSUME current_datetime' <= added.time, Ordered(file)
          PROVE  PassedNotLater(file, in_pos', added.time)
      <4>1. PassedNotLater(file, s, file[q + 1].entry.time) BY <2>6, <3>1
      <4>2. file[q + 1].entry.time \in Nat /\ file[q + 1].entry.time <= added.time
        BY <2>1, <2>3, <3>1
      <4> QED BY <4>1, <4>2, <2>1, <2>4, <1>2, PassedLater
    <3>2. File' = file /\ added' = added BY <1>1, <1>3 DEF file
    <3>3. current_datetime' > added.time => ~(current_datetime' <= added.time)
      BY <2>1, <2>3, <1>2
    <3> QED BY <3>1, <3>2, <3>3, <2>8 DEF Reached
  <2> QED BY <2>7, <2>9, <1>5 DEF Order
<1>7. CASE ReadOther
  <2> DEFINE r == FirstReturn   q == in_pos   s == AfterLine   file == File
  <2>1. /\ Returns # {} /\ ~IsText(LineRead) /\ in_pos' = s
        /\ current_datetime' = current_datetime /\ static_datetime' = static_datetime
        /\ static_position' = static_position /\ static_filename' = static_filename
    BY <1>7 DEF ReadOther, cacheVars
  <2>2. /\ r \in q + 1 .. Len(file) /\ file[r] = CR /\ \A i \in q + 1 .. r - 1 : file[i] # CR
        /\ s = IF r < Len(file) THEN r + 1 ELSE r
        /\ LineRead \in Seq(Units) /\ Len(LineRead) = r - 1 - q
        /\ \A i \in 1 .. r - 1 - q : LineRead[i] = file[q + i]
    BY <1>2, <1>3, <2>1, LineReadIs
  <2>3. file \in Seq(Units) /\ q \in Nat /\ q >= 1 BY <1>2, <1>3
  <2>4. ~StartOfText(file[q + 1])
    <3>1. CASE r = q + 1 BY <3>1, <2>2, UnitFacts
    <3>2. CASE r # q + 1
      <4>1. 1 \in 1 .. r - 1 - q /\ Len(LineRead) >= 1 BY <3>2, <2>2, <2>3
      <4>2. LineRead[1] = file[q + 1] /\ LineRead # <<>> BY <4>1, <2>2
      <4> QED BY <4>2, <2>1 DEF IsText, StartOfText
    <3> QED BY <3>1, <3>2
  <2> HIDE DEF r, q, s, file
  <2>5. Ordered(file) => PassedNotLater(file, s, added.time)
    <3>1. SUFFICES ASSUME Ordered(file) PROVE PassedNotLater(file, s, added.time) OBVIOUS
    <3>2. Unmixed(file) /\ PassedNotLater(file, q, added.time)
      BY <1>4, <3>1 DEF Ordered, file, q
    <3> QED BY ONLY <3>2, <2>2, <2>3, <2>4, PassedOther
  <2>6. ~(current_datetime' > added.time) BY <2>1, <1>1, <1>2
  <2>7. File' = file /\ added' = added BY <1>1, <1>3 DEF file
  <2>8. Reached' BY <2>1, <2>5, <2>6, <2>7 DEF Reached
  <2>9. Remembered' BY <2>1, <1>0, <1>1 DEF Remembered
  <2> QED BY <2>8, <2>9, <1>5 DEF Order
<1>8. CASE ReadEnd \/ ReadTornLine
  <2>1. eofbit' /\ failbit' BY <1>8 DEF ReadEnd, ReadTornLine
  <2>2. Reached' BY <2>1 DEF Reached
  <2>3. Remembered'
    <3>1. CASE ReadEnd
      <4>1. /\ static_filename' = static_filename /\ static_position' = static_position
            /\ static_datetime' = static_datetime
        BY <3>1 DEF ReadEnd, cacheVars
      <4> QED BY <4>1, <1>0, <1>1 DEF Remembered
    <3>2. CASE ReadTornLine BY <3>2 DEF ReadTornLine, Remembered
    <3> QED BY <1>8, <3>1, <3>2
  <2> QED BY <2>2, <2>3, <1>5 DEF Order
<1> QED BY <1>6, <1>7, <1>8

LEMMA OrderLocate ==
    ASSUME Control, Order, HistoryAdd, Locate
    PROVE  Order'
<1>0. Scanned /\ Reached /\ Remembered /\ ProcessTypes BY DEF Control, Order
<1>1. /\ pc = "scan" /\ ~Scanning /\ pc' = "write" /\ file_pos' = Place
      /\ files' = files /\ added' = added /\ phase' = phase
      /\ static_filename' = static_filename
      /\ static_position' = static_position /\ static_datetime' = static_datetime
  BY DEF HistoryAdd, processVars, Locate, callVars, cacheVars
<1>2. Remembered' BY <1>0, <1>1 DEF Remembered
<1>3. Reached' BY <1>1 DEF Reached
<1>4. Place # -1 => AtEnd(Place) \/ InPlace(Place)
  <2>1. SUFFICES ASSUME ~failbit PROVE AtEnd(Place) \/ InPlace(Place) BY DEF Place
  <2>2. CASE eofbit BY <2>1, <2>2, <1>0, <1>1 DEF Scanned, Place
  <2>3. CASE ~eofbit
    <3>1. current_datetime \in Nat /\ added.time \in Nat
      BY <1>0, <1>1, MessagesAre DEF Scanned, ProcessTypes
    <3>2. current_datetime > added.time BY <1>1, <2>3, <3>1 DEF Scanning
    <3> QED BY <2>1, <2>3, <3>2, <1>0, <1>1 DEF Reached, Place
  <2> QED BY <2>2, <2>3
<1>5. Placed'
  <2>1. File' = File BY <1>1 DEF File
  <2>2. SUFFICES ASSUME file_pos' # -1 PROVE AtEnd(file_pos)' \/ InPlace(file_pos)' BY DEF Placed
  <2>3. AtEnd(Place) \/ InPlace(Place) BY <1>1, <1>4, <2>2
  <2>4. AtEnd(Place) => AtEnd(file_pos)' BY <1>1, <2>1 DEF AtEnd
  <2>5. InPlace(Place) => InPlace(file_pos)' BY <1>1, <2>1 DEF InPlace
  <2> QED BY <2>3, <2>4, <2>5
<1> QED BY <1>2, <1>3, <1>5 DEF Order

LEMMA OrderWrite ==
    ASSUME Control, Order, HistoryAdd, Write
    PROVE  Order'
<1>0. Placed /\ Remembered /\ StoreTypes /\ StaticTypes /\ ProcessTypes BY DEF Control, Order
<1>1. /\ pc = "write" /\ pc' = "idle" /\ phase' = phase
      /\ static_filename' = static_filename
      /\ static_position' = static_position /\ static_datetime' = static_datetime
  BY DEF HistoryAdd, processVars, Write, cacheVars
<1>2. Reached' /\ Placed' BY <1>1 DEF Reached, Placed
<1>3. CASE file_pos = -1
  <2>1. files' = files BY <1>3 DEF Write
  <2>2. Remembered' BY <2>1, <1>0, <1>1 DEF Remembered
  <2> QED BY <2>2, <1>2 DEF Order
<1>4. CASE file_pos # -1
  <2> DEFINE file == File   other == files'[added.file]   p == file_pos   text == added.text
  <2>1. /\ added \in Messages /\ PutIn(file, other, p, text)
        /\ \A name \in Files : name # added.file => files'[name] = files[name]
        /\ AtText(p) \/ AtEnd(p)
    BY <1>4, WriteIs
  <2>2. IsText(text) /\ HasNo(CR, text) /\ added.time = TimeOf(text) BY <2>1, MessagesAre
  <2>3. CASE static_filename # added.file
    <3>1. static_filename \in Files => files'[static_filename] = files[static_filename]
      BY <2>1, <2>3
    <3>2. Remembered' BY <3>1, <1>0, <1>1 DEF Remembered
    <3> QED BY <3>2, <1>2 DEF Order
  <2>4. CASE static_filename = added.file
    <3>1. CASE AtEnd(p)
      <4>1. p = Len(file) /\ file[p] = CR BY <3>1 DEF AtEnd
      <4> HIDE DEF file, p, text, other
      <4>2. ~Unmixed(other) BY ONLY <4>1, <2>1, <2>2, MixedBehind
      <4>3. files'[static_filename'] = other BY <1>1, <2>4 DEF other
      <4>4. Remembered' BY <4>2, <4>3 DEF Remembered, Ordered
      <4> QED BY <4>4, <1>2 DEF Order
    <3>2. CASE ~AtEnd(p)
      <4>1. p < Len(file) /\ StartOfText(file[p + 1]) BY <2>1, <3>2 DEF AtText
      <4>2. InPlace(p) BY <1>0, <1>1, <1>4, <3>2 DEF Placed
      <4>3. /\ static_datetime > added.time /\ file[p + 1].entry.time = static_datetime
            /\ static_position \in Nat /\ static_position >= p + 1
            /\ Unmixed(file) => \A j \in Begins(file) : j <= p + 1 \/ j > static_position
        BY <4>2 DEF InPlace
      <4>4. TimeOf(text) <= file[p + 1].entry.time
        <5>1. added.time \in Nat BY <2>1, MessagesAre
        <5> QED BY <5>1, <2>2, <4>3, <1>0 DEF StaticTypes
      <4>5. files'[static_filename'] = other BY <1>1, <2>4
      <4> HIDE DEF file, p, text, other
      <4>6. Ordered(other) => PassedNotLater(other, static_position, file[p + 1].entry.time)
        BY ONLY <2>1, <2>2, <4>1, <4>3, <4>4, PassedPutIn
      <4>7. Remembered' BY <4>3, <4>5, <4>6, <1>1 DEF Remembered
      <4> QED BY <4>7, <1>2 DEF Order
    <3> QED BY <3>1, <3>2
  <2> QED BY <2>3, <2>4
<1> QED BY <1>3, <1>4

\* The places of calls, and what the static variables say of them, are in order in
\* every state.
LEMMA OrderStep ==
    ASSUME Control, Order, [ImportNext]_allVars
    PROVE  Order'
<1>1. CASE \/ \E options \in Options, from \in Sources : StartImport(options, from)
           \/ \E options \in Options : StartSort(options)
  BY <1>1, OrderStart
<1>2. CASE Between BY <1>2, OrderBetween
<1>3. CASE AddLine BY <1>3, OrderAddLine
<1>4. CASE HistoryAdd BY <1>4, OrderRead, OrderLocate, OrderWrite DEF HistoryAdd, CallStep
<1>5. CASE Rename BY <1>5, OrderRename
<1>6. CASE Kill \/ KillWriting \/ KillCreating
  <2>1. phase' = "off" /\ pc' = "idle" BY <1>6 DEF Kill, KillWriting, KillCreating, Killed
  <2> QED BY <2>1 DEF Order, Reached, Placed, Remembered
<1>7. CASE UNCHANGED allVars
  <2>1. Order' <=> Order
    BY <1>7 DEF allVars, vars, processVars, cacheVars, streamVars, callVars,
       Order, Reached, Placed, Remembered, InPlace, File, AtEnd
  <2> QED BY <2>1
<1> QED BY <1>1, <1>2, <1>3, <1>4, <1>5, <1>6, <1>7 DEF ImportNext, ProcessStep, Between

LEMMA OrderAlways == ImportSpec => [](Control /\ Order)
<1>1. ImportInit => Order BY OrderInit
<1>2. Control /\ Order /\ [ImportNext]_allVars => Order' BY OrderStep
<1> QED BY <1>1, <1>2, ControlAlways, PTL DEF ImportSpec
-----------------------------------------------------------------------------
\* The logs, and the line being put, that the state of the process stands for.
Putting == IF pc = "idle" THEN {} ELSE {[day |-> added.file, line |-> added.text]}

\* A step that changes one file changes the log of one day.
LEMMA OnlyOneLog ==
    ASSUME NEW day \in Files, \A name \in Files : name # day => files'[name] = files[name]
    PROVE  DayLog!OnlyLogOf(day)
BY DEF DayLog!OnlyLogOf

LEMMA InOrderSame == \A lines : DayLog!InOrder(lines) <=> InOrder(lines)
BY DEF DayLog!InOrder, InOrder

\* Nothing but the line being put changes, or nothing at all.
LEMMA LogsStay ==
    ASSUME files' = files, backup' = backup, has_backup' = has_backup, kills' = kills,
           Putting' = Putting
    PROVE  UNCHANGED <<[name \in Files |-> LinesOf(files[name])],
                       [name \in Files |-> LinesOf(backup[name])], has_backup,
                       {name \in Files : ~Unmixed(files[name])},
                       IF pc = "idle" THEN {} ELSE {[day |-> added.file, line |-> added.text]},
                       kills>>
BY DEF Putting

LEMMA DayLogInit ==
    ASSUME ImportInit
    PROVE  DayLog!Init
<1>1. backup = NoBackup /\ has_backup = FALSE /\ pc = "idle" /\ kills = 0 BY DEF ImportInit, Init
<1>2. [name \in Files |-> LinesOf(backup[name])] = [day \in Files |-> <<>>]
  BY <1>1, NoLines DEF NoBackup
<1> QED BY <1>1, <1>2 DEF DayLog!Init, DayLog!Empty, DayLog!None

LEMMA DayLogAddLine ==
    ASSUME Control, AddLine
    PROVE  DayLog!PutFirst \/ DayLog!BeginPut
<1> DEFINE message == Head(in_file)
<1>1. /\ message \in Messages /\ pc = "idle"
      /\ backup' = backup /\ has_backup' = has_backup /\ kills' = kills
      /\ Create(message) \/ Open(message, IgnoresDuplicates)
  BY NextLine
<1> HIDE DEF message
<1>2. /\ message.file \in Files /\ message.text \in Seq(Units)
      /\ IsText(message.text) /\ HasNo(CR, message.text)
  BY <1>1, MessagesAre
<1>3. CASE Create(message)
  <2> DEFINE day == message.file
  <2>1. /\ files[day] = <<>> /\ files'[day] = <<BOM>> \o Line(message)
        /\ \A name \in Files : name # day => files'[name] = files[name]
    BY <1>1, <1>3, CreateIs
  <2>2. pc' = "idle" BY <1>1, <1>3 DEF Create
  <2>3. LinesOf(files[day]) = <<>> BY <2>1, NoLines
  <2>4. Len(LinesOf(files'[day])) = 1
    <3>1. Len(LinesOf(<<BOM>> \o Line(message))) = 1 BY <1>2, OneLine
    <3> QED BY <2>1, <3>1
  <2>5. DayLog!OnlyLogOf(day) BY <2>1, <1>2, OnlyOneLog
  <2> HIDE DEF day
  <2>6. day \in Files BY <1>2 DEF day
  <2>7. /\ [name \in Files |-> LinesOf(files[name])][day] = <<>>
        /\ Len([name \in Files |-> LinesOf(files'[name])][day]) = 1
    BY <2>3, <2>4, <2>6
  <2>8. DayLog!PutFirst
    BY <2>2, <2>5, <2>6, <2>7, <1>1 DEF DayLog!PutFirst, DayLog!None
  <2> QED BY <2>8
<1>4. CASE Open(message, IgnoresDuplicates)
  <2>1. files' = files /\ pc' = "scan" /\ added' = message BY <1>4 DEF Open
  <2>2. Putting' = {[day |-> message.file, line |-> message.text]} BY <2>1 DEF Putting
  <2>3. \E put \in Putting' : put.day \in Files /\ Putting' = {put} BY <2>2, <1>2
  <2>4. DayLog!BeginPut
    BY <2>1, <2>3, <1>1 DEF DayLog!BeginPut, DayLog!None, Putting
  <2> QED BY <2>4
<1> QED BY <1>1, <1>3, <1>4

LEMMA DayLogLeaveOut ==
    ASSUME Control, pc # "idle", pc' = "idle", backup' = backup, has_backup' = has_backup,
           kills' = kills,
           \A name \in Files : name # added.file => files'[name] = files[name],
           LinesOf(files'[added.file]) = LinesOf(files[added.file])
    PROVE  DayLog!LeaveOut
<1>1. added.file \in Files BY MessagesAre DEF Control, ProcessTypes
<1>2. DayLog!OnlyLogOf(added.file) BY <1>1, OnlyOneLog
<1> DEFINE put == [day |-> added.file, line |-> added.text]
<1>3. Putting = {put} /\ Putting' = {} /\ put.day = added.file BY DEF Putting
<1>4. [name \in Files |-> LinesOf(files'[name])][added.file]
        = [name \in Files |-> LinesOf(files[name])][added.file]
  BY <1>1
<1> HIDE DEF put
<1>5. \E it \in Putting : /\ DayLog!OnlyLogOf(it.day)
                          /\ [name \in Files |-> LinesOf(files'[name])][it.day]
                               = [name \in Files |-> LinesOf(files[name])][it.day]
  BY <1>2, <1>3, <1>4
<1> QED BY <1>3, <1>5 DEF DayLog!LeaveOut, DayLog!None, Putting

\* A line is put in order among lines that are in order.
LEMMA WriteInOrder ==
    ASSUME Control, Order, Write, file_pos # -1, file_pos < Len(File), Ordered(File)
    PROVE  InOrder(LinesOf(files'[added.file]))
<1> DEFINE text == added.text   file == File   other == files'[added.file]   p == file_pos
<1>0. pc = "write" BY DEF Write
<1>1. /\ added \in Messages /\ PutIn(file, other, p, text) /\ (AtText(p) \/ AtEnd(p)) BY WriteIs
<1>2. /\ IsText(text) /\ HasNo(CR, text) /\ added.time = TimeOf(text) /\ added.time \in Nat
  BY <1>1, MessagesAre
<1>3. file \in Seq(Units) /\ p \in Nat /\ p >= 1 /\ Len(file) \in Nat
  <2>1. file \in Seq(Units) /\ p \in 1 .. Len(file) BY <1>1 DEF PutIn
  <2> QED BY <2>1, UnitsOf
<1>4. ~AtEnd(p) BY <1>3 DEF AtEnd
<1>5. p < Len(file) /\ StartOfText(file[p + 1]) BY <1>1, <1>4 DEF AtText
<1>6. /\ static_datetime > TimeOf(text) /\ file[p + 1].entry.time = static_datetime
      /\ \A j \in Begins(file) : j <= p => file[j].entry.time <= TimeOf(text)
  <2>1. InPlace(p) BY <1>0, <1>4 DEF Order, Placed
  <2> QED BY <2>1, <1>2 DEF InPlace
<1>7. Unmixed(file) /\ Sorted(file) BY DEF Ordered
<1> HIDE DEF text, file, other, p
<1>8. p + 1 \in Begins(file)
  <2>1. p + 1 \in 2 .. Len(file) BY <1>3, <1>5
  <2> QED BY <2>1, <1>3, <1>5, BeginsAre
<1>9. ASSUME NEW k \in Begins(file), k > p PROVE TimeOf(text) <= file[k].entry.time
  <2>1. /\ k \in Nat /\ file[k].entry.time \in Nat /\ file[p + 1].entry.time \in Nat
    BY <1>3, <1>8, BeginTimes
  <2>2. k = p + 1 \/ p + 1 < k BY <2>1, <1>3, <1>9
  <2>3. file[p + 1].entry.time <= file[k].entry.time
    <3>1. CASE k = p + 1 BY <2>1, <3>1
    <3>2. CASE p + 1 < k BY <1>7, <1>8, <1>9, <3>2 DEF Sorted
    <3> QED BY <2>2, <3>1, <3>2
  <2> QED BY <2>1, <2>3, <1>2, <1>6
<1>10. InOrder(LinesOf(other)) BY ONLY <1>1, <1>2, <1>5, <1>6, <1>7, <1>9, LinesPutIn
<1> QED BY <1>10 DEF other

LEMMA DayLogWrite ==
    ASSUME Control, Order, HistoryAdd, Write
    PROVE  DayLog!Put \/ DayLog!LeaveOut
<1>0. /\ backup' = backup /\ has_backup' = has_backup /\ kills' = kills
      /\ pc = "write" /\ pc' = "idle"
  BY DEF HistoryAdd, storeVars, Write
<1>1. added \in Messages /\ added.file \in Files BY <1>0, MessagesAre DEF Control, ProcessTypes
<1>2. CASE file_pos = -1
  <2>1. files' = files BY <1>2 DEF Write
  <2> QED BY <2>1, <1>0, DayLogLeaveOut
<1>3. CASE file_pos # -1
  <2> DEFINE day == added.file   text == added.text   file == files[day]   other == files'[day]
             p == file_pos   put == [day |-> day, line |-> text]
  <2>1. /\ PutIn(file, other, p, text)
        /\ \A name \in Files : name # day => files'[name] = files[name]
        /\ \/ p < Len(file) /\ StartOfText(file[p + 1])
           \/ p = Len(file) /\ p >= 2 /\ file[p] = CR
    BY <1>3, WriteIs DEF File, AtText, AtEnd
  <2>2. /\ IsText(text) /\ HasNo(CR, text) /\ added.time = TimeOf(text) /\ added.time \in Nat
    BY <1>1, MessagesAre
  <2>3. DayLog!OnlyLogOf(day) BY <2>1, <1>1, OnlyOneLog
  <2>4. Putting = {put} /\ Putting' = {} /\ put.day = day /\ put.line = text BY <1>0 DEF Putting
  <2>5. CASE ~Unmixed(file)
    <3>1. day \in {name \in Files : ~Unmixed(files[name])} BY <2>5, <1>1
    <3> HIDE DEF day, text, put
    <3>2. DayLog!Put
      BY <2>3, <2>4, <3>1, <1>0 DEF DayLog!Put, DayLog!None, Putting
    <3> QED BY <3>2
  <2>6. CASE Unmixed(file) /\ p < Len(file) /\ StartOfText(file[p + 1])
    <3>1. \E m : Among(LinesOf(file), LinesOf(other), m, text)
      <4> HIDE DEF file, other, p, text
      <4> QED BY ONLY <2>1, <2>2, <2>6, LinesPutIn
    <3>2. InOrder(LinesOf(file)) => InOrder(LinesOf(other))
      <4>1. file \in Seq(Units) BY <2>1 DEF PutIn
      <4>2. p < Len(File) /\ Unmixed(File) BY <2>6 DEF File
      <4>3. Sorted(File) => InOrder(LinesOf(files'[added.file]))
        BY <4>2, <1>3, WriteInOrder DEF Ordered
      <4>4. InOrder(LinesOf(file)) => Sorted(File) BY <4>1, <2>6, InOrderIs DEF File
      <4> QED BY <4>3, <4>4
    <3>3. \E k \in DOMAIN LinesOf(other) :
             /\ LinesOf(other)[k] = text
             /\ DayLog!Without(LinesOf(file), LinesOf(other), k)
      <4> HIDE DEF file, other, text
      <4>1. PICK m : Among(LinesOf(file), LinesOf(other), m, text) BY <3>1
      <4>2. /\ m + 1 \in DOMAIN LinesOf(other)
            /\ DayLog!Without(LinesOf(file), LinesOf(other), m + 1)
        BY <4>1, AmongWithout
      <4>3. LinesOf(other)[m + 1] = text BY <4>1 DEF Among
      <4> QED BY <4>2, <4>3
    <3>4. /\ [name \in Files |-> LinesOf(files[name])][day] = LinesOf(file)
          /\ [name \in Files |-> LinesOf(files'[name])][day] = LinesOf(other)
      BY <1>1
    <3> HIDE DEF day, text, put, file, other
    <3>5. DayLog!InOrder(LinesOf(file)) => DayLog!InOrder(LinesOf(other))
      BY <3>2, InOrderSame
    <3> DEFINE before == [name \in Files |-> LinesOf(files[name])]
               after == [name \in Files |-> LinesOf(files'[name])]
    <3>6. /\ \E k \in DOMAIN after[day] :
                /\ after[day][k] = text /\ DayLog!Without(before[day], after[day], k)
          /\ DayLog!InOrder(before[day]) => DayLog!InOrder(after[day])
      BY ONLY <3>3, <3>4, <3>5
    <3>7. DayLog!Put
      BY ONLY <2>3, <2>4, <3>6, <1>0 DEF DayLog!Put, DayLog!None, Putting
    <3> QED BY <3>7
  <2>7. CASE Unmixed(file) /\ p = Len(file) /\ p >= 2 /\ file[p] = CR
    <3>1. phase = "import"
      <4>1. phase \in {"import", "sort"} BY <1>0 DEF Control, ProcessTypes
      <4>2. ASSUME phase = "sort" PROVE FALSE
        <5>1. file # <<>> => file[Len(file)] = LF BY <4>2, <1>1 DEF Control, Endings
        <5>2. file # <<>>
          <6>1. file \in Seq(Units) BY <2>1 DEF PutIn
          <6> QED BY <6>1, <2>7
        <5> QED BY <5>1, <5>2, <2>7, UnitFacts
      <4> QED BY <4>1, <4>2
    <3>2. Whole(text) BY <3>1, <1>0 DEF Control, ImportsWhole
    <3>3. LinesOf(other) = LinesOf(file)
      <4> HIDE DEF file, other, p, text
      <4> QED BY ONLY <2>1, <2>2, <2>7, <3>2, LinesBehind
    <3> QED BY <3>3, <2>1, <1>0, DayLogLeaveOut
  <2> QED BY <2>1, <2>5, <2>6, <2>7
<1> QED BY <1>2, <1>3

\* A call that ends without writing changes no log.
LEMMA DayLogRead ==
    ASSUME Control, HistoryAdd, ReadLogLine \/ ReadOther \/ ReadEnd \/ ReadTornLine \/ Locate
    PROVE  \/ DayLog!LeaveOut
           \/ files' = files /\ backup' = backup /\ has_backup' = has_backup /\ kills' = kills
              /\ Putting' = Putting
<1>1. /\ backup' = backup /\ has_backup' = has_backup /\ kills' = kills
      /\ files' = files /\ added' = added /\ pc # "idle"
  BY DEF HistoryAdd, storeVars, ReadLogLine, ReadOther, ReadEnd, ReadTornLine, Locate,
         Scanning, callVars
<1>2. CASE pc' = "idle" BY <1>1, <1>2, DayLogLeaveOut
<1>3. CASE pc' # "idle"
  <2>1. Putting' = Putting BY <1>1, <1>3 DEF Putting
  <2> QED BY <2>1, <1>1
<1> QED BY <1>2, <1>3

LEMMA DayLogRename ==
    ASSUME Control, Rename
    PROVE  DayLog!PutAside
<1>1. /\ files' = NoBackup /\ backup' = files /\ phase = "rename" /\ pc' = pc /\ added' = added
      /\ ~has_backup /\ has_backup' = TRUE /\ kills' = kills
  BY DEF Rename, NoCall, callVars
<1>2. pc = "idle" BY <1>1 DEF Control, ProcessTypes
<1>3. [name \in Files |-> LinesOf(files'[name])] = [day \in Files |-> <<>>]
  BY <1>1, NoLines DEF NoBackup
<1>4. [name \in Files |-> LinesOf(backup'[name])] = [name \in Files |-> LinesOf(files[name])]
  BY <1>1
<1> QED BY <1>1, <1>2, <1>3, <1>4 DEF DayLog!PutAside, DayLog!None, DayLog!Empty

\* A write that is cut off leaves the lines that are not later than the one it puts.
LEMMA DayLogKilled ==
    ASSUME Control, Order, Kill \/ KillWriting \/ KillCreating
    PROVE  DayLog!CutOff
<1>1. /\ pc' = "idle" /\ kills' = kills + 1 /\ backup' = backup /\ has_backup' = has_backup
  BY DEF Kill, KillWriting, KillCreating, Killed
<1>2. Putting' = {} BY <1>1 DEF Putting
<1>3. CASE Kill
  <2>1. files' = files BY <1>3 DEF Kill
  <2> QED BY <2>1, <1>1, <1>2 DEF DayLog!CutOff, DayLog!None, Putting
<1>4. CASE KillWriting
  <2> DEFINE day == added.file   text == added.text   file == files[day]   other == files'[day]
             p == file_pos   put == [day |-> day, line |-> text]
             before == [name \in Files |-> LinesOf(files[name])]
             after == [name \in Files |-> LinesOf(files'[name])]
             mixed == {name \in Files : ~Unmixed(files[name])}
  <2>1. /\ added \in Messages /\ file \in Seq(Units) /\ files' \in [Files -> Seq(Units)]
        /\ Alike(file, other, p)
        /\ \A name \in Files : name # day => files'[name] = files[name]
        /\ \/ p < Len(file) /\ StartOfText(file[p + 1])
           \/ p = Len(file) /\ file[p] = CR
    BY <1>4, CutIs DEF File, AtText, AtEnd
  <2>2. day \in Files /\ added.time = TimeOf(text) /\ added.time \in Nat BY <2>1, MessagesAre
  <2>3. DayLog!OnlyLogOf(day) BY <2>1, <2>2, OnlyOneLog
  <2>4. pc = "write" /\ file_pos # -1 BY <1>4 DEF KillWriting
  <2>5. Putting = {put} /\ put.day = day /\ put.line = text BY <2>4 DEF Putting
  <2>6. other \in Seq(Units) BY <2>1, <2>2
  <2>7. before[day] = LinesOf(file) /\ after[day] = LinesOf(other) BY <2>2
  <2>8. ASSUME day \notin mixed, InOrder(LinesOf(file)),
               NEW k \in DOMAIN LinesOf(file), TimeOf(LinesOf(file)[k]) <= TimeOf(text)
        PROVE  k \in DOMAIN LinesOf(other) /\ LinesOf(other)[k] = LinesOf(file)[k]
    <3> DEFINE j == NthOf(Begins(file), k)
    <3>1. Unmixed(file) BY <2>8, <2>2
    <3>p. p \in Nat /\ p >= 1 /\ p <= Len(file) /\ Len(file) \in Nat
      <4>1. p \in 1 .. Len(file) BY <2>1 DEF Alike
      <4> QED BY <4>1, <2>1, UnitsOf
    <3>2. Sorted(file)
      <4> HIDE DEF file
      <4> QED BY <2>1, <2>8, <3>1, InOrderIs
    <3>3. /\ p < Len(file) =>
                /\ \A i \in Begins(file) : i <= p => file[i].entry.time <= TimeOf(text)
                /\ file[p + 1].entry.time > TimeOf(text)
      <4>1. SUFFICES ASSUME p < Len(file)
                     PROVE  /\ \A i \in Begins(file) : i <= p => file[i].entry.time <= TimeOf(text)
                            /\ file[p + 1].entry.time > TimeOf(text)
        OBVIOUS
      <4>2. ~AtEnd(p)
        <5>1. p < Len(File) BY <4>1 DEF File
        <5>2. Len(File) \in Nat BY <3>p DEF File
        <5> QED BY <5>1, <5>2, <3>p DEF AtEnd
      <4>3. InPlace(p) BY <4>2, <2>4 DEF Order, Placed
      <4> QED BY <4>3, <3>1, <3>2, <2>2 DEF InPlace, Ordered, File
    <3> HIDE DEF file, other, p, text, day
    <3>4. /\ k \in 1 .. Cardinality(LineStarts(file)) /\ LineStarts(file) = Begins(file)
          /\ j \in Begins(file) /\ LinesOf(file)[k] = LineFrom(file, j)
      BY <2>1, <3>1, LinesAre, UnmixedStarts
    <3>5. TimeOf(LinesOf(file)[k]) = file[j].entry.time /\ file[j].entry.time \in Nat
      BY <2>1, <3>4, LineIs
    <3>6. j \in Nat /\ j <= Len(file) BY <2>1, <3>4, BeginTimes
    <3>7. j <= p
      <4>1. CASE p = Len(file) BY <4>1, <3>6
      <4>2. CASE p < Len(file)
        <5>1. SUFFICES ASSUME j > p PROVE FALSE BY <3>6, <3>p
        <5>2. p + 1 \in Begins(file)
          <6>1. p + 1 \in 2 .. Len(file) BY <4>2, <3>p
          <6>2. StartOfText(file[p + 1]) BY <4>2, <2>1, <3>p
          <6> QED BY <6>1, <6>2, <2>1, BeginsAre
        <5>3. file[p + 1].entry.time \in Nat BY <2>1, <5>2, BeginTimes
        <5>4. j = p + 1 \/ p + 1 < j BY <5>1, <3>6, <3>p
        <5>5. file[p + 1].entry.time <= file[j].entry.time
          BY <5>2, <5>3, <5>4, <3>2, <3>4 DEF Sorted
        <5> QED BY <5>3, <5>5, <4>2, <3>3, <3>5, <2>2, <2>8
      <4> QED BY <4>1, <4>2, <3>p
    <3> HIDE DEF j
    <3> QED BY <2>1, <2>6, <3>1, <3>7, KeptLines DEF j
  <2>9. day \notin mixed /\ DayLog!InOrder(before[day]) =>
           \A k \in DOMAIN before[day] :
              TimeOf(before[day][k]) <= TimeOf(text) =>
                 k \in DOMAIN after[day] /\ after[day][k] = before[day][k]
    BY <2>7, <2>8, InOrderSame
  <2> HIDE DEF day, text, put, mixed, before, after
  <2>10. \E it \in Putting :
            /\ it.day \notin mixed /\ DayLog!InOrder(before[it.day]) =>
                  \A k \in DOMAIN before[it.day] :
                     TimeOf(before[it.day][k]) <= TimeOf(it.line) =>
                        k \in DOMAIN after[it.day] /\ after[it.day][k] = before[it.day][k]
            /\ DayLog!OnlyLogOf(it.day)
    BY <2>3, <2>5, <2>9
  <2>11. DayLog!CutOff
    BY <2>10, <1>1, <1>2 DEF DayLog!CutOff, DayLog!None, Putting, mixed, before, after
  <2> QED BY <2>11
<1>5. CASE KillCreating
  <2>1. PICK day \in Files :
           files[day] = <<>> /\ \A name \in Files : name # day => files'[name] = files[name]
    BY <1>5, CutCreateIs
  <2>2. DayLog!OnlyLogOf(day) BY <2>1, OnlyOneLog
  <2>3. [name \in Files |-> LinesOf(files[name])][day] = <<>> BY <2>1, NoLines
  <2>4. Putting = {} BY <1>5 DEF KillCreating, Putting
  <2> QED BY <2>2, <2>3, <2>4, <1>1, <1>2 DEF DayLog!CutOff, DayLog!None, Putting
<1> QED BY <1>3, <1>4, <1>5

\* Every step of the program is one of the day logs, or changes nothing of them.
LEMMA DayLogStep ==
    ASSUME Control, Order, [ImportNext]_allVars
    PROVE  \/ DayLog!Next
           \/ files' = files /\ backup' = backup /\ has_backup' = has_backup /\ kills' = kills
              /\ Putting' = Putting
<1>1. CASE \/ \E options \in Options, from \in Sources : StartImport(options, from)
           \/ \E options \in Options : StartSort(options)
  <2>1. /\ files' = files /\ backup' = backup /\ has_backup' = has_backup /\ kills' = kills
        /\ pc' = pc /\ added' = added
    BY <1>1 DEF StartImport, StartSort, storeVars, NoCall, callVars
  <2> QED BY <2>1 DEF Putting
<1>2. CASE Between
  <2>1. /\ files' = files /\ backup' = backup /\ has_backup' = has_backup /\ kills' = kills
        /\ pc' = pc /\ added' = added
    BY <1>2, BetweenIs DEF vars, callVars
  <2> QED BY <2>1 DEF Putting
<1>3. CASE AddLine BY <1>3, DayLogAddLine DEF DayLog!Next
<1>4. CASE HistoryAdd
  BY <1>4, DayLogRead, DayLogWrite DEF HistoryAdd, CallStep, DayLog!Next
<1>5. CASE Rename BY <1>5, DayLogRename DEF DayLog!Next
<1>6. CASE Kill \/ KillWriting \/ KillCreating BY <1>6, DayLogKilled DEF DayLog!Next
<1>7. CASE UNCHANGED allVars
  <2>1. /\ files' = files /\ backup' = backup /\ has_backup' = has_backup /\ kills' = kills
        /\ pc' = pc /\ added' = added
    BY <1>7 DEF allVars, vars, storeVars, callVars
  <2> QED BY <2>1 DEF Putting
<1> QED BY <1>1, <1>2, <1>3, <1>4, <1>5, <1>6, <1>7 DEF ImportNext, ProcessStep, Between

\* The program implements DayLogs, the log of a day being the lines a sort finds in
\* its file: through all the byte positions, those that are cached between two calls
\* too, what a call of history_add does is to put one line among the lines that are
\* there, at its place if they are in order, or to leave it out; a sort puts the
\* logs aside once; and a write that is cut off loses no line that is not later than
\* the one that was being put.
THEOREM ProgramImplementsDayLogs == ImportSpec => ImplementsDayLogs
<1>1. ImportInit => DayLog!Init BY DayLogInit
<1>2. Control /\ Order /\ [ImportNext]_allVars
        => [DayLog!Next]_<<[name \in Files |-> LinesOf(files[name])],
                           [name \in Files |-> LinesOf(backup[name])], has_backup,
                           {name \in Files : ~Unmixed(files[name])},
                           IF pc = "idle" THEN {} ELSE {[day |-> added.file, line |-> added.text]},
                           kills>>
  <2>1. SUFFICES ASSUME Control, Order, [ImportNext]_allVars, ~DayLog!Next
                 PROVE  UNCHANGED <<[name \in Files |-> LinesOf(files[name])],
                                    [name \in Files |-> LinesOf(backup[name])], has_backup,
                                    {name \in Files : ~Unmixed(files[name])},
                                    IF pc = "idle" THEN {}
                                    ELSE {[day |-> added.file, line |-> added.text]},
                                    kills>>
    OBVIOUS
  <2>2. files' = files /\ backup' = backup /\ has_backup' = has_backup /\ kills' = kills
        /\ Putting' = Putting
    BY <2>1, DayLogStep
  <2> QED BY <2>2, LogsStay
<1> QED BY <1>1, <1>2, OrderAlways, PTL DEF ImportSpec, ImplementsDayLogs, DayLog!Spec
-----------------------------------------------------------------------------
\* How often a line of a day is among messages, and is the one of the running call.
Listed(name, x, list) == Cardinality({k \in DOMAIN list : list[k].file = name /\ list[k].text = x})
Running(name, x) == IF pc # "idle" /\ added.file = name /\ added.text = x THEN 1 ELSE 0

\* The sort has yet to add them.
Waiting(name, x) == Listed(name, x, in_file) + Running(name, x)

\* The file of a day is in order, and has none of the lines of the backup more often
\* than that, those that are yet to be added included, all of them whole.
SortedSoFar(name) ==
    /\ Ordered(files[name])
    /\ \A k \in DOMAIN in_file : in_file[k].file = name => Whole(in_file[k].text)
    /\ pc # "idle" /\ added.file = name => Whole(added.text)
    /\ \A x : Times(x, LinesOf(files[name])) + Waiting(name, x) <= Times(x, LinesOf(backup[name]))

\* A day whose backup is not read yet has no file, and nothing is added to it.
NotYetSorted ==
    phase = "sort" =>
        \A name \in itr : /\ files[name] = <<>>
                          /\ \A k \in DOMAIN in_file : in_file[k].file # name
                          /\ pc # "idle" => added.file # name

SortControl ==
    /\ NotYetSorted
    /\ phase \in {"sort", "sorted"} =>
          \A name \in Files : Unmixed(backup[name]) => SortedSoFar(name)

\* There are finitely many.
LEMMA ListedIs ==
    ASSUME NEW list \in Seq(Messages), NEW name, NEW x
    PROVE  /\ Listed(name, x, list) \in Nat
           /\ (\A k \in DOMAIN list : list[k].file # name) => Listed(name, x, list) = 0
<1> DEFINE A == {k \in DOMAIN list : list[k].file = name /\ list[k].text = x}
<1>1. DOMAIN list = 1 .. Len(list) /\ Len(list) \in Nat OBVIOUS
<1>2. A \subseteq 1 .. Len(list) BY <1>1
<1>3. IsFiniteSet(1 .. Len(list)) BY <1>1, FS_Interval
<1>4. IsFiniteSet(A) BY <1>2, <1>3, FS_Subset
<1>5. Cardinality(A) \in Nat BY <1>4, FS_CardinalityType
<1>6. ASSUME \A k \in DOMAIN list : list[k].file # name PROVE Cardinality(A) = 0
  <2>1. A = {} BY <1>6
  <2> QED BY <2>1, FS_EmptySet
<1> QED BY <1>5, <1>6 DEF Listed

LEMMA RunningIs == \A name, x : Running(name, x) \in {0, 1}
BY DEF Running

LEMMA TimesAre ==
    ASSUME NEW lines \in Seq(Seq(Units)), NEW x
    PROVE  Times(x, lines) \in Nat
<1> DEFINE A == {k \in DOMAIN lines : lines[k] = x}
<1>1. DOMAIN lines = 1 .. Len(lines) /\ Len(lines) \in Nat OBVIOUS
<1>2. A \subseteq 1 .. Len(lines) BY <1>1
<1>3. IsFiniteSet(1 .. Len(lines)) BY <1>1, FS_Interval
<1>4. IsFiniteSet(A) BY <1>2, <1>3, FS_Subset
<1>5. Cardinality(A) \in Nat BY <1>4, FS_CardinalityType
<1> QED BY <1>5 DEF Times

\* When the first message is taken, it is the only one that is gone.
LEMMA ListedTail ==
    ASSUME NEW list \in Seq(Messages), NEW rest \in Seq(Messages), NEW name, NEW x,
           Len(list) \in Nat, Len(list) >= 1, DOMAIN list = 1 .. Len(list),
           DOMAIN rest = 1 .. Len(list) - 1,
           \A k \in 1 .. Len(list) - 1 : rest[k] = list[k + 1]
    PROVE  Listed(name, x, list)
             = Listed(name, x, rest)
                 + (IF list[1].file = name /\ list[1].text = x THEN 1 ELSE 0)
<1> DEFINE n == Len(list)
           A == {k \in DOMAIN list : list[k].file = name /\ list[k].text = x}
           B == {k \in DOMAIN rest : rest[k].file = name /\ rest[k].text = x}
           moved == {j + 1 : j \in B}
           first == list[1].file = name /\ list[1].text = x
<1>1. B \subseteq 1 .. n - 1 BY DEF B
<1>2. IsFiniteSet(B) /\ B \subseteq Nat
  <2>1. n - 1 \in Int /\ 1 \in Int OBVIOUS
  <2>2. IsFiniteSet(1 .. n - 1) BY <2>1, FS_Interval
  <2>3. \A k \in 1 .. n - 1 : k \in Nat OBVIOUS
  <2> HIDE DEF B
  <2> QED BY <2>2, <2>3, <1>1, FS_Subset
<1>3. IsFiniteSet(moved) /\ Cardinality(moved) = Cardinality(B) /\ Cardinality(B) \in Nat
  <2>1. 1 \in Nat OBVIOUS
  <2> HIDE DEF B
  <2> QED BY <2>1, <1>2, MovedCount, FS_CardinalityType
<1>a. \A k : k \in A <=> k \in 1 .. n /\ list[k].file = name /\ list[k].text = x OBVIOUS
<1>b. \A k : k \in B <=> k \in 1 .. n - 1 /\ list[k + 1].file = name /\ list[k + 1].text = x OBVIOUS
<1>m. \A k : k \in moved <=> \E j \in B : k = j + 1 OBVIOUS
<1>n. n \in Nat /\ n >= 1 OBVIOUS
<1>f. first <=> 1 \in A BY <1>a, <1>n
<1> HIDE DEF A, B, moved, n, first
<1>4. ASSUME NEW k, k # 1 PROVE k \in A <=> k \in moved
  <2>1. ASSUME k \in A PROVE k \in moved
    <3>1. k - 1 \in 1 .. n - 1 /\ (k - 1) + 1 = k BY <1>4, <1>a, <1>n, <2>1
    <3>2. k - 1 \in B BY <3>1, <1>a, <1>b, <2>1
    <3> QED BY <3>1, <3>2, <1>m
  <2>2. ASSUME k \in moved PROVE k \in A
    <3>1. PICK j \in B : k = j + 1 BY <1>m, <2>2
    <3>2. j \in 1 .. n - 1 /\ list[j + 1].file = name /\ list[j + 1].text = x BY <1>b
    <3>3. j + 1 \in 1 .. n BY <3>2, <1>n
    <3> QED BY <3>1, <3>2, <3>3, <1>a
  <2> QED BY <2>1, <2>2
<1>5. 1 \notin moved
  <2>1. \A j \in B : 1 # j + 1 BY <1>b, <1>n
  <2> QED BY <2>1, <1>m
<1>6. CASE first
  <2>1. A = moved \cup {1} BY <1>4, <1>5, <1>6, <1>f
  <2>2. Cardinality(A) = Cardinality(B) + 1 BY <2>1, <1>3, <1>5, FS_AddElement
  <2> QED BY <2>2, <1>6 DEF Listed, A, B, first
<1>7. CASE ~first
  <2>0. ASSUME NEW k PROVE k \in A <=> k \in moved BY <1>4, <1>5, <1>7, <1>f
  <2>1. A = moved BY ONLY <2>0 DEF A, moved
  <2>2. Cardinality(A) = Cardinality(B) + 0 BY <2>1, <1>3
  <2> QED BY <2>2, <1>7 DEF Listed, A, B, first
<1> QED BY <1>6, <1>7

\* The lines of a file are listed as often as they are in it.
LEMMA ListedLines ==
    ASSUME NEW list \in Seq(Messages), NEW lines, DOMAIN list = DOMAIN lines, NEW name,
           \A k \in DOMAIN list : list[k].file = name /\ list[k].text = lines[k], NEW x
    PROVE  Listed(name, x, list) = Times(x, lines)
<1>1. {k \in DOMAIN list : list[k].file = name /\ list[k].text = x}
        = {k \in DOMAIN lines : lines[k] = x}
  OBVIOUS
<1> QED BY <1>1 DEF Listed, Times

LEMMA TimesOne ==
    ASSUME NEW lines \in Seq(Seq(Units)), Len(lines) = 1, NEW x
    PROVE  Times(x, lines) = IF lines[1] = x THEN 1 ELSE 0
<1>1. DOMAIN lines = {1} OBVIOUS
<1>2. CASE lines[1] = x
  <2>1. {k \in DOMAIN lines : lines[k] = x} = {1} BY <1>1, <1>2
  <2> QED BY <2>1, <1>2, FS_Singleton DEF Times
<1>3. CASE lines[1] # x
  <2>1. {k \in DOMAIN lines : lines[k] = x} = {} BY <1>1, <1>3
  <2> QED BY <2>1, <1>3, FS_EmptySet DEF Times
<1> QED BY <1>2, <1>3

\* Where the file does not change, it is enough that no more is waiting.
LEMMA SortedStays ==
    ASSUME Control, Control', NEW name \in Files, SortedSoFar(name),
           files'[name] = files[name], backup'[name] = backup[name],
           \A k \in DOMAIN in_file' : in_file'[k].file = name => Whole(in_file'[k].text),
           pc' # "idle" /\ added'.file = name => Whole(added'.text),
           \A x : Listed(name, x, in_file') + Running(name, x)' <= Listed(name, x, in_file) + Running(name, x)
    PROVE  SortedSoFar(name)'
<1>1. ASSUME NEW x
      PROVE  Times(x, LinesOf(files'[name])) + Waiting(name, x)' <= Times(x, LinesOf(backup'[name]))
  <2> DEFINE a == Times(x, LinesOf(files[name]))   b == Times(x, LinesOf(backup[name]))
             u == Listed(name, x, in_file) + Running(name, x)
             v == Listed(name, x, in_file') + Running(name, x)'
  <2>1. a \in Nat /\ b \in Nat
    <3>1. files[name] \in Seq(Units) /\ backup[name] \in Seq(Units) BY DEF Control, StoreTypes
    <3>2. LinesOf(files[name]) \in Seq(Seq(Units)) /\ LinesOf(backup[name]) \in Seq(Seq(Units))
      BY <3>1, LinesAre
    <3> QED BY <3>2, TimesAre
  <2>2. u \in Nat /\ v \in Nat
    <3>1. in_file \in Seq(Messages) /\ in_file' \in Seq(Messages) BY DEF Control, ProcessTypes
    <3>2. Listed(name, x, in_file) \in Nat /\ Listed(name, x, in_file') \in Nat BY <3>1, ListedIs
    <3>3. Running(name, x) \in {0, 1} /\ Running(name, x)' \in {0, 1} BY DEF Running
    <3> QED BY <3>2, <3>3
  <2>3. v <= u OBVIOUS
  <2>4. a + u <= b BY DEF SortedSoFar, Waiting
  <2> HIDE DEF a, b, u, v
  <2>5. a + v <= b BY <2>1, <2>2, <2>3, <2>4
  <2> QED BY <2>5 DEF a, b, v, Waiting
<1>2. Ordered(files'[name]) BY DEF SortedSoFar
<1> QED BY <1>1, <1>2 DEF SortedSoFar

LEMMA SortBetween ==
    ASSUME Control, Control', SortControl, Between
    PROVE  SortControl'
<1>1. /\ UNCHANGED vars /\ pc = "idle" /\ UNCHANGED <<backup, has_backup>> BY BetweenIs
<1>2. files' = files /\ pc' = "idle" /\ backup' = backup BY <1>1 DEF vars
<1>3. CASE ImportFile BY <1>3 DEF ImportFile, SortControl, NotYetSorted
<1>4. CASE EndImport \/ Refuse \/ Exit
  BY <1>4 DEF EndImport, Refuse, Exit, AfterImport, SortControl, NotYetSorted
<1>5. CASE EndSort
  <2>1. phase = "sort" /\ phase' = "sorted" /\ in_file' = in_file /\ added' = added
    BY <1>5, <1>1 DEF EndSort, vars, callVars
  <2>2. ASSUME NEW name \in Files, Unmixed(backup'[name]) PROVE SortedSoFar(name)'
    <3>1. SortedSoFar(name) BY <2>1, <2>2, <1>2 DEF SortControl
    <3>2. \A x : Running(name, x)' = Running(name, x) BY <1>1, <1>2 DEF Running
    <3>3. in_file \in Seq(Messages) BY DEF Control, ProcessTypes
    <3>4. \A x : Listed(name, x, in_file) \in Nat /\ Running(name, x) \in {0, 1}
      BY <3>3, ListedIs DEF Running
    <3>5. \A x : Listed(name, x, in_file') + Running(name, x)'
                   <= Listed(name, x, in_file) + Running(name, x)
      BY <3>2, <3>4, <2>1
    <3> QED BY <3>1, <3>5, <2>1, <1>2, SortedStays DEF SortedSoFar
  <2> QED BY <2>1, <2>2 DEF SortControl, NotYetSorted
<1>6. CASE SortFile
  <2>1. phase = "sort" /\ phase' = "sort" /\ in_file = <<>> BY <1>6, SortFileIs
  <2>2. PICK day \in itr :
           /\ day \in Files /\ itr' = itr \ {day} /\ backup[day] \in Seq(Units)
           /\ in_file' \in Seq(Messages)
           /\ DOMAIN in_file' = DOMAIN LinesOf(backup[day])
           /\ \A k \in DOMAIN in_file' : /\ in_file'[k].file = day
                                         /\ in_file'[k].text = LinesOf(backup[day])[k]
    BY <1>6, SortFileIs
  <2>3. NotYetSorted'
    <3>1. \A name \in itr' : files'[name] = <<>> /\ name # day
      BY <2>1, <2>2, <1>2 DEF SortControl, NotYetSorted
    <3> QED BY <3>1, <2>2, <1>2 DEF NotYetSorted
  <2>4. ASSUME NEW name \in Files, Unmixed(backup'[name]) PROVE SortedSoFar(name)'
    <3>1. SortedSoFar(name) BY <2>1, <2>4, <1>2 DEF SortControl
    <3>2. CASE name # day
      <4>1. \A k \in DOMAIN in_file' : in_file'[k].file # name BY <2>2, <3>2
      <4>2. \A x : Listed(name, x, in_file') = 0 BY <4>1, <2>2, ListedIs
      <4>3. \A x : Listed(name, x, in_file) \in Nat
        <5>1. in_file \in Seq(Messages) BY DEF Control, ProcessTypes
        <5> QED BY <5>1, ListedIs
      <4>4. \A x : Running(name, x)' = 0 /\ Running(name, x) = 0 BY <1>1, <1>2 DEF Running
      <4>5. \A x : Listed(name, x, in_file') + Running(name, x)'
                     <= Listed(name, x, in_file) + Running(name, x)
        BY <4>2, <4>3, <4>4
      <4> QED BY <3>1, <4>1, <4>5, <1>2, SortedStays
    <3>3. CASE name = day
      <4>1. files'[name] = <<>> /\ backup'[name] = backup[name]
        BY <2>1, <2>2, <3>3, <1>2 DEF SortControl, NotYetSorted
      <4>2. Ordered(files'[name]) BY <4>1, NoLines DEF Ordered
      <4>3. \A k \in DOMAIN in_file' : Whole(in_file'[k].text)
        <5>1. TAKE k \in DOMAIN in_file'
        <5>2. k \in DOMAIN LinesOf(backup[day]) BY <2>2
        <5>3. Unmixed(backup[day]) BY <2>4, <3>3, <1>2
        <5>4. Whole(LinesOf(backup[day])[k]) BY <5>2, <5>3, <2>2, LineWhole
        <5> QED BY <5>4, <2>2
      <4>4. ASSUME NEW x
            PROVE  Times(x, LinesOf(files'[name])) + Waiting(name, x)'
                     <= Times(x, LinesOf(backup'[name]))
        <5> DEFINE b == Times(x, LinesOf(backup[day]))
        <5>1. Times(x, LinesOf(files'[name])) = 0 BY <4>1, NoLines
        <5>2. Listed(name, x, in_file') = b BY <2>2, <3>3, ListedLines
        <5>3. Running(name, x)' = 0 BY <1>2 DEF Running
        <5>4. b \in Nat
          <6>1. LinesOf(backup[day]) \in Seq(Seq(Units)) BY <2>2, LinesAre
          <6> QED BY <6>1, TimesAre
        <5>5. Times(x, LinesOf(backup'[name])) = b BY <4>1, <3>3
        <5> HIDE DEF b
        <5> QED BY <5>1, <5>2, <5>3, <5>4, <5>5 DEF Waiting
      <4> QED BY <4>2, <4>3, <4>4, <1>2 DEF SortedSoFar
    <3> QED BY <3>2, <3>3
  <2> QED BY <2>3, <2>4 DEF SortControl
<1> QED BY <1>3, <1>4, <1>5, <1>6 DEF Between

LEMMA SortRename ==
    ASSUME Control, Control', Rename
    PROVE  SortControl'
<1>1. /\ phase = "rename" /\ files' = NoBackup /\ pc' = pc /\ in_file' = in_file
      /\ itr' = {name \in Files : files[name] # <<>>} /\ added' = added
  BY DEF Rename, NoCall, callVars
<1>2. pc = "idle" /\ in_file = <<>> BY <1>1 DEF Control, ProcessTypes
<1>3. \A k \in DOMAIN in_file' : FALSE BY <1>1, <1>2
<1>4. \A name \in Files : files'[name] = <<>> BY <1>1 DEF NoBackup
<1>5. NotYetSorted' BY <1>1, <1>2, <1>3, <1>4 DEF NotYetSorted
<1>6. ASSUME NEW name \in Files PROVE SortedSoFar(name)'
  <2>1. Ordered(files'[name]) BY <1>4, NoLines DEF Ordered
  <2>2. ASSUME NEW x
        PROVE  Times(x, LinesOf(files'[name])) + Waiting(name, x)' <= Times(x, LinesOf(backup'[name]))
    <3>1. Times(x, LinesOf(files'[name])) = 0 BY <1>4, NoLines
    <3>2. Listed(name, x, in_file') = 0
      <4>1. in_file' \in Seq(Messages) BY DEF Control, ProcessTypes
      <4> QED BY <4>1, <1>3, ListedIs
    <3>3. Running(name, x)' = 0 BY <1>1, <1>2 DEF Running
    <3>4. Times(x, LinesOf(backup'[name])) \in Nat
      <4>1. backup'[name] \in Seq(Units) BY DEF Control, StoreTypes
      <4>2. LinesOf(backup'[name]) \in Seq(Seq(Units)) BY <4>1, LinesAre
      <4> QED BY <4>2, TimesAre
    <3> QED BY <3>1, <3>2, <3>3, <3>4 DEF Waiting
  <2> QED BY <2>1, <2>2, <1>1, <1>2, <1>3 DEF SortedSoFar
<1> QED BY <1>5, <1>6 DEF SortControl

LEMMA SortAddLine ==
    ASSUME Control, Control', SortControl, AddLine
    PROVE  SortControl'
<1> DEFINE message == Head(in_file)
<1>1. /\ message \in Messages /\ in_file' = Tail(in_file) /\ in_file' \in Seq(Messages)
      /\ in_file \in Seq(Messages) /\ DOMAIN in_file = 1 .. Len(in_file)
      /\ Len(in_file) \in Nat /\ Len(in_file) >= 1 /\ message = in_file[1]
      /\ DOMAIN in_file' = 1 .. Len(in_file) - 1
      /\ \A k \in 1 .. Len(in_file) - 1 : in_file'[k] = in_file[k + 1]
      /\ phase \in {"import", "sort"} /\ phase' = phase /\ itr' = itr
      /\ backup' = backup /\ pc = "idle"
      /\ Create(message) \/ Open(message, IgnoresDuplicates)
  BY NextLine
<1> HIDE DEF message
<1>2. CASE phase = "import" BY <1>1, <1>2 DEF SortControl, NotYetSorted
<1>3. CASE phase = "sort"
  <2>1. /\ message.file \in Files /\ message.text \in Seq(Units)
        /\ IsText(message.text) /\ HasNo(CR, message.text)
    BY <1>1, MessagesAre
  <2>2. \A k \in DOMAIN in_file' : \E j \in DOMAIN in_file : in_file'[k] = in_file[j]
    <3>1. TAKE k \in DOMAIN in_file'
    <3>2. k + 1 \in DOMAIN in_file /\ in_file'[k] = in_file[k + 1] BY <1>1
    <3> QED BY <3>2
  <2>3. 1 \in DOMAIN in_file BY <1>1
  <2>4. \A name \in itr : files[name] = <<>> /\ message.file # name
                          /\ \A k \in DOMAIN in_file' : in_file'[k].file # name
    BY <1>1, <1>3, <2>2, <2>3 DEF SortControl, NotYetSorted
  <2>5. ASSUME NEW name \in Files, NEW x
        PROVE  /\ Listed(name, x, in_file') \in Nat
               /\ Listed(name, x, in_file)
                    = Listed(name, x, in_file')
                        + (IF message.file = name /\ message.text = x THEN 1 ELSE 0)
               /\ Running(name, x) = 0
    <3>1. Listed(name, x, in_file') \in Nat BY <1>1, ListedIs
    <3>2. Listed(name, x, in_file)
             = Listed(name, x, in_file')
                 + (IF in_file[1].file = name /\ in_file[1].text = x THEN 1 ELSE 0)
      <4> DEFINE list == in_file   rest == in_file'
      <4>1. list \in Seq(Messages) /\ rest \in Seq(Messages) /\ Len(list) \in Nat /\ Len(list) >= 1
        BY <1>1
      <4>2. DOMAIN list = 1 .. Len(list) /\ DOMAIN rest = 1 .. Len(list) - 1 BY <1>1
      <4>3. \A k \in 1 .. Len(list) - 1 : rest[k] = list[k + 1] BY <1>1
      <4> HIDE DEF list, rest
      <4>4. Listed(name, x, list)
               = Listed(name, x, rest) + (IF list[1].file = name /\ list[1].text = x THEN 1 ELSE 0)
        BY ONLY <4>1, <4>2, <4>3, ListedTail
      <4> QED BY <4>4 DEF list, rest
    <3>3. Running(name, x) = 0 BY <1>1 DEF Running
    <3> QED BY <3>1, <3>2, <3>3, <1>1
  <2>6. ASSUME NEW name \in Files, SortedSoFar(name)
        PROVE  /\ \A k \in DOMAIN in_file' : in_file'[k].file = name => Whole(in_file'[k].text)
               /\ message.file = name => Whole(message.text)
    BY <2>2, <2>3, <2>6, <1>1 DEF SortedSoFar
  <2>7. CASE Open(message, IgnoresDuplicates)
    <3>1. files' = files /\ pc' = "scan" /\ added' = message BY <2>7 DEF Open
    <3>2. NotYetSorted' BY <2>4, <3>1, <1>1 DEF NotYetSorted
    <3>3. ASSUME NEW name \in Files, Unmixed(backup'[name]) PROVE SortedSoFar(name)'
      <4>1. SortedSoFar(name) BY <3>3, <1>1, <1>3 DEF SortControl
      <4>2. \A x : Running(name, x)' = IF message.file = name /\ message.text = x THEN 1 ELSE 0
        BY <3>1 DEF Running
      <4>3. ASSUME NEW x
            PROVE  Listed(name, x, in_file') + Running(name, x)'
                     <= Listed(name, x, in_file) + Running(name, x)
        BY <2>5, <4>2
      <4> QED BY <4>1, <4>3, <2>6, <3>1, <1>1, SortedStays
    <3> QED BY <3>2, <3>3, <1>1 DEF SortControl
  <2>8. CASE Create(message)
    <3> DEFINE other == <<BOM>> \o Line(message)   day == message.file
    <3>1. /\ files[day] = <<>> /\ files'[day] = other
          /\ \A name \in Files : name # day => files'[name] = files[name]
      BY <1>1, <2>8, CreateIs
    <3>2. pc' = "idle" BY <1>1, <2>8 DEF Create
    <3>3. NotYetSorted'
      <4>1. itr \subseteq Files BY <1>3 DEF Control, ProcessTypes
      <4> HIDE DEF day, other
      <4>2. \A name \in itr : files'[name] = <<>> BY <2>4, <3>1, <4>1 DEF day
      <4> QED BY <2>4, <3>2, <4>2, <1>1 DEF NotYetSorted
    <3>4. ASSUME NEW name \in Files, Unmixed(backup'[name]) PROVE SortedSoFar(name)'
      <4>1. SortedSoFar(name) BY <3>4, <1>1, <1>3 DEF SortControl
      <4>2. \A x : Running(name, x)' = 0 BY <3>2 DEF Running
      <4>3. CASE name # day
        <5>1. files'[name] = files[name] BY <3>1, <4>3
        <5>2. ASSUME NEW x
              PROVE  Listed(name, x, in_file') + Running(name, x)'
                       <= Listed(name, x, in_file) + Running(name, x)
          BY <2>5, <4>2, <4>3
        <5> QED BY <4>1, <5>1, <5>2, <2>6, <3>2, <1>1, SortedStays
      <4>4. CASE name = day
        <5>1. Whole(message.text) BY <2>6, <4>1, <4>4
        <5>2. /\ other \in Seq(Units) /\ Len(LinesOf(other)) = 1
              /\ LinesOf(other)[1] = message.text /\ Unmixed(other) /\ Sorted(other)
          BY <2>1, <5>1, OneLine
        <5> HIDE DEF other
        <5>3. Ordered(files'[name]) BY <5>2, <3>1, <4>4 DEF Ordered
        <5>4. ASSUME NEW x
              PROVE  Times(x, LinesOf(files'[name])) + Waiting(name, x)'
                       <= Times(x, LinesOf(backup'[name]))
          <6> DEFINE b == Times(x, LinesOf(backup[name]))
                     it == IF message.text = x THEN 1 ELSE 0
          <6>1. Times(x, LinesOf(files'[name])) = it
            <7>1. LinesOf(other) \in Seq(Seq(Units)) BY <5>2, LinesAre
            <7>2. Times(x, LinesOf(other)) = it BY <7>1, <5>2, TimesOne
            <7> QED BY <7>2, <3>1, <4>4
          <6>2. Times(x, LinesOf(files[name])) = 0 BY <3>1, <4>4, NoLines
          <6>3. Listed(name, x, in_file) = Listed(name, x, in_file') + it BY <2>5, <4>4
          <6>4. 0 + (Listed(name, x, in_file) + Running(name, x)) <= b
            BY <4>1, <6>2 DEF SortedSoFar, Waiting
          <6>5. it \in Nat /\ b \in Nat
            <7>1. backup[name] \in Seq(Units) BY DEF Control, StoreTypes
            <7>2. LinesOf(backup[name]) \in Seq(Seq(Units)) BY <7>1, LinesAre
            <7> QED BY <7>2, TimesAre
          <6>6. Listed(name, x, in_file') \in Nat /\ Running(name, x) = 0 /\ Running(name, x)' = 0
            BY <2>5, <4>2
          <6>7. Times(x, LinesOf(backup'[name])) = b BY <1>1
          <6> HIDE DEF it, b
          <6> QED BY <6>1, <6>3, <6>4, <6>5, <6>6, <6>7 DEF Waiting
        <5> QED BY <5>3, <5>4, <4>1, <2>6, <3>2 DEF SortedSoFar
      <4> QED BY <4>3, <4>4
    <3> QED BY <3>3, <3>4, <1>1 DEF SortControl
  <2> QED BY <2>7, <2>8, <1>1
<1> QED BY <1>1, <1>2, <1>3

\* A step that reads leaves the files, and a call that ends with it is waiting no more.
LEMMA SortRead ==
    ASSUME Control, Control', SortControl, HistoryAdd,
           ReadLogLine \/ ReadOther \/ ReadEnd \/ ReadTornLine \/ Locate
    PROVE  SortControl'
<1>1. /\ files' = files /\ added' = added /\ pc # "idle"
      /\ backup' = backup /\ phase' = phase /\ itr' = itr /\ in_file' = in_file
  BY DEF HistoryAdd, storeVars, processVars, ReadLogLine, ReadOther, ReadEnd, ReadTornLine, Locate,
         Scanning, callVars
<1>2. NotYetSorted' BY <1>1 DEF SortControl, NotYetSorted
<1>3. ASSUME phase' \in {"sort", "sorted"}, NEW name \in Files, Unmixed(backup'[name])
      PROVE  SortedSoFar(name)'
  <2>1. SortedSoFar(name) BY <1>1, <1>3 DEF SortControl
  <2>2. ASSUME NEW x
        PROVE  Listed(name, x, in_file') + Running(name, x)'
                 <= Listed(name, x, in_file) + Running(name, x)
    <3>1. Listed(name, x, in_file) \in Nat
      <4>1. in_file \in Seq(Messages) BY DEF Control, ProcessTypes
      <4> QED BY <4>1, ListedIs
    <3>2. Running(name, x) = IF added.file = name /\ added.text = x THEN 1 ELSE 0
      BY <1>1 DEF Running
    <3>3. Running(name, x)' \in {0, Running(name, x)} BY <3>2, <1>1 DEF Running
    <3>4. Running(name, x) \in {0, 1} BY <3>2
    <3>5. Listed(name, x, in_file') = Listed(name, x, in_file) BY <1>1
    <3> QED BY <3>1, <3>3, <3>4, <3>5
  <2> QED BY <2>1, <2>2, <1>1, SortedStays DEF SortedSoFar
<1> QED BY <1>2, <1>3 DEF SortControl

\* The line of a call is waiting until it is written, and no longer.
LEMMA WriteSorts ==
    ASSUME Control, Order, Write, file_pos # -1, phase = "sort", Control',
           in_file' = in_file, backup' = backup, SortedSoFar(added.file)
    PROVE  SortedSoFar(added.file)'
<1> DEFINE day == added.file   text == added.text   file == files[day]   other == files'[day]
           p == file_pos
<1>1. /\ added \in Messages /\ PutIn(file, other, p, text)
      /\ \/ p < Len(file) /\ StartOfText(file[p + 1])
         \/ p = Len(file) /\ p >= 2 /\ file[p] = CR
  BY WriteIs DEF File, AtText, AtEnd
<1>2. day \in Files /\ IsText(text) /\ HasNo(CR, text) BY <1>1, MessagesAre
<1>3. /\ Ordered(file) /\ Whole(text)
      /\ \A k \in DOMAIN in_file : in_file[k].file = day => Whole(in_file[k].text)
      /\ \A x : Times(x, LinesOf(file)) + Waiting(day, x) <= Times(x, LinesOf(backup[day]))
  BY DEF SortedSoFar, Write
<1>4. pc = "write" /\ pc' = "idle" /\ added' = added BY DEF Write, callVars
<1>5. p < Len(file) /\ StartOfText(file[p + 1])
  <2>1. file # <<>> => file[Len(file)] = LF BY <1>2 DEF Control, Endings
  <2>2. file \in Seq(Units) BY <1>1 DEF PutIn
  <2>3. file # <<>>
    <3>1. p \in 1 .. Len(file) BY <1>1 DEF PutIn
    <3> HIDE DEF file, p
    <3>2. p \in Nat /\ p >= 1 /\ Len(file) >= p BY <3>1, <2>2, UnitsOf
    <3>3. SUFFICES ASSUME file = <<>> PROVE FALSE OBVIOUS
    <3>4. Len(file) = 0 BY ONLY <3>3
    <3> QED BY ONLY <3>2, <3>4
  <2> QED BY <1>1, <2>1, <2>3, UnitFacts
<1>6. InOrder(LinesOf(other))
  <2>1. p < Len(File) /\ Ordered(File) BY <1>3, <1>5 DEF File
  <2> QED BY <2>1, WriteInOrder
<1>7. other \in Seq(Units) /\ file \in Seq(Units) BY <1>1 DEF PutIn
<1>8. Unmixed(file) BY <1>3 DEF Ordered
<1>9. Unmixed(other)
  <2> HIDE DEF day, text, file, other, p
  <2> QED BY ONLY <1>1, <1>2, <1>3, <1>5, <1>8, StaysUnmixed
<1>10. Ordered(other)
  <2> HIDE DEF day, text, file, other, p
  <2> QED BY <1>6, <1>7, <1>9, InOrderIs DEF Ordered
<1>11. \E m : Among(LinesOf(file), LinesOf(other), m, text)
  <2> HIDE DEF day, text, file, other, p
  <2> QED BY ONLY <1>1, <1>2, <1>5, <1>8, LinesPutIn
<1>12. ASSUME NEW x
       PROVE  Times(x, LinesOf(other)) + Waiting(day, x)' <= Times(x, LinesOf(backup'[day]))
  <2> DEFINE it == IF x = text THEN 1 ELSE 0
             a == Times(x, LinesOf(file))   c == Times(x, LinesOf(other))
             b == Times(x, LinesOf(backup[day]))   w == Listed(day, x, in_file)
  <2>1. a \in Nat /\ c = a + it
    <3> HIDE DEF day, text, file, other
    <3>1. PICK m : Among(LinesOf(file), LinesOf(other), m, text) BY <1>11
    <3>2. /\ Times(x, LinesOf(file)) \in Nat
          /\ Times(x, LinesOf(other))
               = IF x = text THEN Times(x, LinesOf(file)) + 1 ELSE Times(x, LinesOf(file))
      BY <3>1, AmongTimes
    <3> QED BY <3>2
  <2>2. b \in Nat
    <3>1. backup[day] \in Seq(Units) BY <1>2 DEF Control, StoreTypes
    <3>2. LinesOf(backup[day]) \in Seq(Seq(Units)) BY <3>1, LinesAre
    <3> QED BY <3>2, TimesAre
  <2>3. w \in Nat
    <3>1. in_file \in Seq(Messages) BY DEF Control, ProcessTypes
    <3> QED BY <3>1, ListedIs
  <2>4. Running(day, x) = it BY <1>4 DEF Running
  <2>5. Waiting(day, x) = w + it BY <2>4 DEF Waiting
  <2>6. Running(day, x)' = 0 BY <1>4 DEF Running
  <2>7. Waiting(day, x)' = w
    <3>1. Waiting(day, x)' = Listed(day, x, in_file') + 0 BY <2>6, <1>4 DEF Waiting
    <3>2. Listed(day, x, in_file') = w OBVIOUS
    <3> HIDE DEF w
    <3> QED BY <3>1, <3>2, <2>3
  <2>8. a + Waiting(day, x) <= b BY <1>3
  <2>9. it \in Nat OBVIOUS
  <2>10. Times(x, LinesOf(backup'[day])) = b OBVIOUS
  <2> HIDE DEF it, a, b, c, w
  <2>11. c + Waiting(day, x)' <= b BY <2>1, <2>2, <2>3, <2>5, <2>7, <2>8, <2>9
  <2> QED BY <2>10, <2>11 DEF c
<1> QED BY <1>3, <1>4, <1>10, <1>12 DEF SortedSoFar

LEMMA SortWrite ==
    ASSUME Control, Order, Control', SortControl, HistoryAdd, Write
    PROVE  SortControl'
<1>1. /\ added' = added /\ pc = "write" /\ pc' = "idle"
      /\ backup' = backup /\ phase' = phase /\ itr' = itr /\ in_file' = in_file
  BY DEF HistoryAdd, storeVars, processVars, Write, callVars
<1>2. phase \in {"import", "sort"} BY <1>1 DEF Control, ProcessTypes
<1>3. CASE phase = "import" BY <1>1, <1>3 DEF SortControl, NotYetSorted
<1>4. CASE phase = "sort"
  <2>1. \A name \in Files : name # added.file => files'[name] = files[name]
    <3>1. CASE file_pos = -1
      <4>1. files' = files BY <3>1 DEF Write
      <4> QED BY <4>1
    <3>2. CASE file_pos # -1 BY <3>2, WriteIs
    <3> QED BY <3>1, <3>2
  <2>2. NotYetSorted'
    <3>1. itr \subseteq Files BY <1>4 DEF Control, ProcessTypes
    <3>2. \A name \in itr : /\ files[name] = <<>> /\ added.file # name
                            /\ \A k \in DOMAIN in_file : in_file[k].file # name
      BY <1>1, <1>4 DEF SortControl, NotYetSorted
    <3>3. \A name \in itr : files'[name] = <<>> BY <2>1, <3>1, <3>2
    <3> QED BY <3>2, <3>3, <1>1 DEF NotYetSorted
  <2>3. ASSUME NEW name \in Files, Unmixed(backup'[name]) PROVE SortedSoFar(name)'
    <3>1. SortedSoFar(name) BY <2>3, <1>1, <1>4 DEF SortControl
    <3>2. CASE name = added.file /\ file_pos # -1
      <4>1. SortedSoFar(added.file)' BY <3>1, <3>2, <1>1, <1>4, WriteSorts
      <4>2. SortedSoFar(added.file)' <=> SortedSoFar(name)' BY <3>2, <1>1 DEF SortedSoFar, Waiting, Listed, Running
      <4> QED BY <4>1, <4>2
    <3>3. CASE name # added.file \/ file_pos = -1
      <4>1. files'[name] = files[name]
        <5>1. CASE file_pos = -1 BY <5>1 DEF Write
        <5> QED BY <5>1, <3>3, <2>1
      <4>2. ASSUME NEW x
            PROVE  Listed(name, x, in_file') + Running(name, x)'
                     <= Listed(name, x, in_file) + Running(name, x)
        <5>1. Listed(name, x, in_file) \in Nat
          <6>1. in_file \in Seq(Messages) BY DEF Control, ProcessTypes
          <6> QED BY <6>1, ListedIs
        <5>2. Running(name, x)' = 0 /\ Running(name, x) \in {0, 1} BY <1>1 DEF Running
        <5>3. Listed(name, x, in_file') = Listed(name, x, in_file) BY <1>1
        <5> QED BY <5>1, <5>2, <5>3
      <4> QED BY <3>1, <4>1, <4>2, <1>1, SortedStays DEF SortedSoFar
    <3> QED BY <3>2, <3>3
  <2> QED BY <2>2, <2>3 DEF SortControl
<1> QED BY <1>2, <1>3, <1>4

\* What a sort has put into the files so far is as it should be in every state.
LEMMA SortStep ==
    ASSUME Control, Order, Control', SortControl, [ImportNext]_allVars
    PROVE  SortControl'
<1>1. CASE \/ \E options \in Options, from \in Sources : StartImport(options, from)
           \/ \E options \in Options : StartSort(options)
  <2>1. phase' \in {"off", "import", "rename"} BY <1>1 DEF StartImport, StartSort, AfterImport
  <2> QED BY <2>1 DEF SortControl, NotYetSorted
<1>2. CASE Between BY <1>2, SortBetween
<1>3. CASE AddLine BY <1>3, SortAddLine
<1>4. CASE HistoryAdd
  BY <1>4, SortRead, SortWrite DEF HistoryAdd, CallStep
<1>5. CASE Rename BY <1>5, SortRename
<1>6. CASE Kill \/ KillWriting \/ KillCreating
  <2>1. phase' = "off" BY <1>6 DEF Kill, KillWriting, KillCreating, Killed
  <2> QED BY <2>1 DEF SortControl, NotYetSorted
<1>7. CASE UNCHANGED allVars
  <2>1. SortControl' <=> SortControl
    BY <1>7 DEF allVars, vars, storeVars, processVars, callVars,
       SortControl, NotYetSorted, SortedSoFar, Waiting, Listed, Running
  <2> QED BY <2>1
<1> QED BY <1>1, <1>2, <1>3, <1>4, <1>5, <1>6, <1>7 DEF ImportNext, ProcessStep, Between

LEMMA SortAlways == ImportSpec => [](Control /\ SortControl)
<1>1. ImportInit => SortControl BY DEF ImportInit, SortControl, NotYetSorted
<1>2. Control /\ Order /\ Control' /\ SortControl /\ [ImportNext]_allVars => SortControl'
  BY SortStep
<1> QED BY <1>1, <1>2, OrderAlways, PTL DEF ImportSpec

\* A sort sorts: whatever order the lines of the files had, whatever the static
\* variables of history_add hold from the import before it, the files it fills are
\* in order at every step, and none of a day's lines is in its file more often than
\* in its backup, unless a write was cut off in what is sorted.
THEOREM SortsAreSorted == ImportSpec => []SortSorts
<1>1. ASSUME Control, SortControl PROVE SortSorts
  <2>1. SUFFICES ASSUME phase \in {"sort", "sorted"}, NEW name \in Files, Unmixed(backup[name])
                 PROVE  /\ InOrder(LinesOf(files[name]))
                        /\ \A k \in DOMAIN LinesOf(files[name]) :
                              Times(LinesOf(files[name])[k], LinesOf(files[name]))
                                <= Times(LinesOf(files[name])[k], LinesOf(backup[name]))
    BY DEF SortSorts
  <2>2. SortedSoFar(name) BY <1>1, <2>1 DEF SortControl
  <2>3. files[name] \in Seq(Units) /\ backup[name] \in Seq(Units) BY <1>1 DEF Control, StoreTypes
  <2>4. InOrder(LinesOf(files[name])) BY <2>2, <2>3, InOrderIs DEF SortedSoFar, Ordered
  <2>5. ASSUME NEW x PROVE Times(x, LinesOf(files[name])) <= Times(x, LinesOf(backup[name]))
    <3> DEFINE a == Times(x, LinesOf(files[name]))   b == Times(x, LinesOf(backup[name]))
               w == Waiting(name, x)
    <3>1. a \in Nat /\ b \in Nat
      <4>1. LinesOf(files[name]) \in Seq(Seq(Units)) /\ LinesOf(backup[name]) \in Seq(Seq(Units))
        BY <2>3, LinesAre
      <4> QED BY <4>1, TimesAre
    <3>2. w \in Nat
      <4>1. in_file \in Seq(Messages) BY <1>1 DEF Control, ProcessTypes
      <4>2. Listed(name, x, in_file) \in Nat /\ Running(name, x) \in {0, 1}
        BY <4>1, ListedIs DEF Running
      <4> QED BY <4>2 DEF Waiting
    <3>3. a + w <= b BY <2>2 DEF SortedSoFar
    <3> HIDE DEF a, b, w
    <3>4. a <= b BY <3>1, <3>2, <3>3
    <3> QED BY <3>4 DEF a, b
  <2> QED BY <2>4, <2>5
<1>2. Control /\ SortControl => SortSorts BY <1>1
<1> QED BY <1>2, SortAlways, PTL
-----------------------------------------------------------------------------
\* Where getline stops that begins at a line: at the next carriage return, and the
\* next line begins behind that and the character passed over.
LEMMA LineStops ==
    ASSUME NEW file \in Seq(Units), NEW q, AtLine(file, q),
           NEW r \in q + 1 .. Len(file), file[r] = CR, \A i \in q + 1 .. r - 1 : file[i] # CR,
           NEW s, s = IF r < Len(file) THEN r + 1 ELSE r
    PROVE  /\ StopsAt(file, r)
           /\ \A k \in LineStarts(file) : k <= q + 1 \/ k > s
           /\ r < Len(file) => AtLine(file, s)
<1>1. Len(file) \in Nat /\ q \in Nat /\ q >= 1 /\ ~StopsAt(file, q) BY UnitsOf, AtLineIs
<1>2. r \in 2 .. Len(file) /\ r \in Nat /\ r >= q + 1 BY <1>1
<1>3. \A i \in q .. r - 1 : ~StopsAt(file, i)
  <2>1. TAKE i \in q .. r - 1
  <2>2. CASE i = q BY <2>2, <1>1
  <2>3. CASE i # q
    <3>1. i \in q + 1 .. r - 1 /\ i \in Nat BY <2>3, <1>1
    <3> QED BY <3>1, StopsBehind
  <2> QED BY <2>2, <2>3
<1>4. r - 1 \in q .. r - 1 BY <1>1, <1>2
<1>5. StopsAt(file, r) BY <1>2, <1>3, <1>4, StopsNext
<1>6. ASSUME NEW k \in LineStarts(file), ~(k <= q + 1), ~(k > s) PROVE FALSE
  <2>1. k \in 2 .. Len(file) /\ (k = 2 \/ StopsAt(file, k - 2)) BY StartsAre
  <2>2. k # 2 /\ k - 2 \in q .. r - 1 BY <2>1, <1>1, <1>2, <1>6
  <2> QED BY <2>1, <2>2, <1>3
<1>7. ASSUME NEW k \in LineStarts(file) PROVE k <= q + 1 \/ k > s BY <1>6
<1>8. ASSUME r < Len(file) PROVE AtLine(file, s)
  <2>1. s \in 3 .. Len(file) /\ s - 1 = r BY <1>1, <1>2, <1>8
  <2> QED BY <2>1, <1>5 DEF AtLine
<1> QED BY <1>5, <1>7, <1>8

\* If there is none, no line begins behind that one, and getline has not stopped at
\* the end of the file.
LEMMA NoStop ==
    ASSUME NEW file \in Seq(Units), file # <<>>, NEW q, AtLine(file, q),
           \A i \in q + 1 .. Len(file) : file[i] # CR
    PROVE  /\ \A k \in LineStarts(file) : k <= q + 1
           /\ ~StopsAt(file, Len(file))
<1>1. Len(file) \in Nat /\ Len(file) >= 1 BY UnitsOf, EmptySeq
<1>2. q \in Nat /\ q >= 1 /\ ~StopsAt(file, q) BY AtLineIs
<1>3. q <= Len(file) BY <1>1 DEF AtLine
<1>4. \A i \in q .. Len(file) : ~StopsAt(file, i)
  <2>1. TAKE i \in q .. Len(file)
  <2>2. CASE i = q BY <2>2, <1>2
  <2>3. CASE i # q
    <3>1. i \in q + 1 .. Len(file) /\ i \in Nat BY <2>3, <1>1, <1>2
    <3> QED BY <3>1, StopsBehind
  <2> QED BY <2>2, <2>3
<1>5. ASSUME NEW k \in LineStarts(file), ~(k <= q + 1) PROVE FALSE
  <2>1. k \in 2 .. Len(file) /\ (k = 2 \/ StopsAt(file, k - 2)) BY StartsAre
  <2>2. k # 2 /\ k - 2 \in q .. Len(file) BY <2>1, <1>1, <1>2, <1>5
  <2> QED BY <2>1, <2>2, <1>4
<1>6. Len(file) \in q .. Len(file) BY <1>1, <1>2, <1>3
<1> QED BY <1>4, <1>5, <1>6

\* What getline reads there is the line.
LEMMA ReadIsLine ==
    ASSUME File \in Seq(Units), in_pos \in Nat, Returns # {}, IsText(LineRead)
    PROVE  LineRead = LineFrom(File, in_pos + 1)
<1> DEFINE k == in_pos + 1   j == FirstReturn - 1
<1>1. /\ FirstReturn \in in_pos + 1 .. Len(File) /\ File[FirstReturn] = CR /\ Len(File) \in Nat
      /\ \A i \in in_pos + 1 .. FirstReturn - 1 : File[i] # CR
  BY LineReadIs
<1>2. in_pos + 1 < FirstReturn BY LogLineIs
<1>3. /\ k \in Nat /\ j \in k .. Len(File) /\ j + 1 = FirstReturn
      /\ \A i \in k .. j : File[i] # CR
  BY <1>1, <1>2
<1>4. j < Len(File) => File[j + 1] = CR BY <1>1, <1>3
<1>5. LineRead = SubSeq(File, k, j) BY DEF LineRead
<1> HIDE DEF k, j
<1>6. LineEnd(File, k) = j BY <1>3, <1>4, LineEndIs
<1> QED BY <1>5, <1>6 DEF LineFrom, k
-----------------------------------------------------------------------------
\* The line that begins at k is the only one of its second.
AloneAt(file, k) ==
    \A j \in LineStarts(file) : file[j].entry.time = file[k].entry.time => j = k

\* A line that is alone is read before position q.
PassedAlone(file, q, text) ==
    \E k \in LineStarts(file) : k <= q /\ AloneAt(file, k) /\ LineFrom(file, k) = text

\* From q on no line is left, and the scan comes to the end with a stream that fails.
DeadEnd(file, q) ==
    /\ \A k \in LineStarts(file) : k <= q
    /\ q = Len(file) \/ (AtLine(file, q) /\ ~StopsAt(file, Len(file)))

\* The import will not give a text any more.
Unseen(text) ==
    /\ \A s \in itr : \A j \in DOMAIN s : Text(s[j]) # text
    /\ \A j \in DOMAIN in_file : in_file[j].text # text

OneDirectory == \E from \in Sources \ {NotADirectory} : itr \subseteq from

\* What the directory has once is given once.
GivesOnce ==
    \A text : GivenOnce(text) =>
        /\ pc # "idle" /\ added.text = text => Unseen(text)
        /\ \A j, k \in DOMAIN in_file :
              in_file[j].text = text /\ in_file[k].text = text => j = k
        /\ \A s \in itr : \A j \in DOMAIN s, k \in DOMAIN in_file :
              in_file[k].text = text => Text(s[j]) # text

\* The line behind which the scan of an earlier call has ended was given.
Kept(file) ==
    /\ AtLine(file, static_position)
    /\ \A k \in LineStarts(file) :
          k <= static_position => file[k].entry.time <= static_datetime
    /\ \A k \in LineStarts(file) :
          /\ k <= static_position /\ file[k].entry.time = static_datetime
          /\ AloneAt(file, k) /\ GivenOnce(LineFrom(file, k))
          => Unseen(LineFrom(file, k))

\* The position is that behind the last line the running call has read.
Reading(file) ==
    /\ static_filename = added.file /\ AtLine(file, static_position)
    /\ \/ /\ pc = "scan" /\ ~failbit
          /\ \A k \in LineStarts(file) : k <= static_position \/ k > in_pos
          /\ ~eofbit => AtLine(file, in_pos)
       \/ pc = "write" /\ file_pos # -1

Cached ==
    static_filename \in Files /\ static_position # -1 =>
        LET file == files[static_filename]
        IN  InTime(file) => DeadEnd(file, static_position) \/ Kept(file) \/ Reading(file)

\* The call has read a line that is later than its message.
LaterLine(p) ==
    /\ AtLine(File, p) /\ p + 1 \in LineStarts(File) /\ p <= in_pos
    /\ File[p + 1].entry.time > added.time
    /\ \A k \in LineStarts(File) : k <= p + 1 \/ k > in_pos

\* A call has not passed over its message, unless nothing will be written.
Looking ==
    pc = "scan" /\ InTime(File) =>
        \/ failbit
        \/ ~eofbit /\ current_datetime <= added.time /\ DeadEnd(File, in_pos)
        \/ /\ GivenOnce(added.text) => ~PassedAlone(File, in_pos, added.text)
           /\ eofbit => in_pos = Len(File) /\ StopsAt(File, in_pos)
           /\ ~eofbit => AtLine(File, in_pos)
           /\ ~eofbit /\ current_datetime > added.time => LaterLine(in_pos - line_size)

\* What is written is no line that is alone, and is written between lines.
Missing ==
    pc = "write" /\ file_pos # -1 /\ InTime(File) =>
        /\ GivenOnce(added.text) => ~PassedAlone(File, Len(File), added.text)
        /\ \/ AtLine(File, file_pos) /\ file_pos + 1 \in LineStarts(File)
           \/ file_pos = Len(File) /\ StopsAt(File, file_pos)

Hunt ==
    phase = "import" /\ ~grown =>
        /\ pc # "idle" => ignore_dups
        /\ OneDirectory /\ GivesOnce /\ Cached /\ Looking /\ Missing

LEMMA HuntInit ==
    ASSUME ImportInit
    PROVE  Hunt
BY DEF ImportInit, Hunt

\* An import starts with its static variables unset, and with a directory.
LEMMA HuntStart ==
    ASSUME Control,
           \/ \E options \in Options, from \in Sources : StartImport(options, from)
           \/ \E options \in Options : StartSort(options)
    PROVE  Hunt'
<1>1. phase = "off" /\ pc' = pc /\ static_position' = -1 /\ in_file' = <<>>
  BY DEF StartImport, StartSort, Unset, NoCall
<1>2. pc' = "idle" BY <1>1 DEF Control, ProcessTypes
<1>3. SUFFICES ASSUME phase' = "import" PROVE Hunt' BY DEF Hunt
<1>4. OneDirectory'
  <2>1. PICK options \in Options :
           StartSort(options) \/ \E from \in Sources : StartImport(options, from)
    OBVIOUS
  <2>2. ~StartSort(options) BY <1>3 DEF StartSort, AfterImport
  <2>3. PICK from \in Sources : StartImport(options, from) BY <2>1, <2>2
  <2>4. from # NotADirectory /\ itr' = from BY <2>3, <1>3 DEF StartImport
  <2> QED BY <2>4 DEF OneDirectory
<1>5. GivesOnce' BY <1>1, <1>2 DEF GivesOnce
<1>6. Cached' /\ Looking' /\ Missing' BY <1>1, <1>2 DEF Cached, Looking, Missing
<1> QED BY <1>2, <1>4, <1>5, <1>6 DEF Hunt

\* The next file of the directory holds none of its messages that others hold.
LEMMA HuntImportFile ==
    ASSUME Control, Hunt, ImportFile
    PROVE  Hunt'
<1>1. /\ phase = "import" /\ phase' = phase /\ UNCHANGED vars /\ grown' = grown
      /\ pc = "idle" /\ in_file = <<>>
  BY DEF ImportFile, Idle
<1>2. /\ files' = files /\ pc' = "idle" /\ static_filename' = static_filename
      /\ static_position' = static_position /\ static_datetime' = static_datetime
  BY <1>1 DEF vars, cacheVars
<1>3. SUFFICES ASSUME ~grown PROVE Hunt' BY <1>1 DEF Hunt
<1>4. OneDirectory /\ GivesOnce /\ Cached BY <1>1, <1>3 DEF Hunt
<1>5. PICK source \in itr :
         /\ itr' = itr \ {source}
         /\ in_file' = [k \in DOMAIN source |-> Message(source[k])]
  BY DEF ImportFile
<1>6. DOMAIN in_file' = DOMAIN source
      /\ \A k \in DOMAIN source : in_file'[k].text = Text(source[k])
  BY <1>5 DEF Message
<1>7. PICK from \in Sources \ {NotADirectory} : itr \subseteq from BY <1>4 DEF OneDirectory
<1>8. OneDirectory' BY <1>5, <1>7 DEF OneDirectory
<1>9. GivesOnce'
  <2>1. SUFFICES ASSUME NEW text, GivenOnce(text)
                 PROVE  /\ \A j, k \in DOMAIN in_file' :
                              in_file'[j].text = text /\ in_file'[k].text = text => j = k
                        /\ \A s \in itr' : \A j \in DOMAIN s, k \in DOMAIN in_file' :
                              in_file'[k].text = text => Text(s[j]) # text
    BY <1>2 DEF GivesOnce
  <2>2. \A s, t \in from : \A j \in DOMAIN s, k \in DOMAIN t :
           Text(s[j]) = text /\ Text(t[k]) = text => s = t /\ j = k
    BY <2>1 DEF GivenOnce
  <2>3. source \in from /\ \A s \in itr' : s \in from /\ s # source BY <1>5, <1>7
  <2> QED BY <2>2, <2>3, <1>6
<1>10. ASSUME NEW text, Unseen(text) PROVE Unseen(text)'
  <2>1. \A k \in DOMAIN source : Text(source[k]) # text BY <1>10 DEF Unseen
  <2> QED BY <2>1, <1>5, <1>6, <1>10 DEF Unseen
<1>11. Cached'
  <2>1. SUFFICES ASSUME static_filename \in Files, static_position # -1,
                        InTime(files[static_filename])
                 PROVE  \/ DeadEnd(files[static_filename], static_position)
                        \/ Kept(files[static_filename])'
    BY <1>2 DEF Cached
  <2>2. DeadEnd(files[static_filename], static_position) \/ Kept(files[static_filename])
    BY <1>1, <1>4, <2>1 DEF Cached, Reading
  <2>3. Kept(files[static_filename]) => Kept(files[static_filename])'
    BY <1>2, <1>10 DEF Kept
  <2> QED BY <2>2, <2>3
<1>12. Looking' /\ Missing' BY <1>2 DEF Looking, Missing
<1> QED BY <1>2, <1>8, <1>9, <1>11, <1>12 DEF Hunt

\* A call starts behind a line that is not its message, if that is given once.
LEMMA HuntAddLine ==
    ASSUME Control, Hunt, AddLine
    PROVE  Hunt'
<1>1. SUFFICES ASSUME phase' = "import", ~grown' PROVE Hunt' BY DEF Hunt
<1> DEFINE message == Head(in_file)
<1>2. /\ message \in Messages /\ phase' = phase /\ itr' = itr /\ pc = "idle"
      /\ DOMAIN in_file = 1 .. Len(in_file) /\ Len(in_file) \in Nat /\ Len(in_file) >= 1
      /\ message = in_file[1] /\ DOMAIN in_file' = 1 .. Len(in_file) - 1
      /\ \A k \in 1 .. Len(in_file) - 1 : in_file'[k] = in_file[k + 1]
      /\ Create(message) \/ Open(message, IgnoresDuplicates)
  BY NextLine
<1>3. \A k \in DOMAIN in_file' : k \in Nat /\ k + 1 \in DOMAIN in_file /\ in_file'[k] = in_file[k + 1]
  BY <1>2
<1>4. 1 \in DOMAIN in_file BY <1>2
<1>5. ~grown /\ files' = files BY <1>1 DEF AddLine, Grows
<1> HIDE DEF message
<1>6. /\ message.file \in Files /\ message.time \in Nat /\ message.text \in Seq(Units)
      /\ IsText(message.text) /\ message.time = TimeOf(message.text)
  BY <1>2, MessagesAre
<1>7. StoreTypes /\ StaticTypes BY DEF Control
<1>8. OneDirectory /\ GivesOnce /\ Cached BY <1>1, <1>2, <1>5 DEF Hunt
<1>9. ~Create(message)
  <2>1. SUFFICES ASSUME Create(message) PROVE FALSE OBVIOUS
  <2> DEFINE other == <<BOM>> \o Line(message)
  <2>2. files[message.file] = <<>> /\ files'[message.file] = other BY <2>1, <1>2, CreateIs
  <2>3. other # <<>> BY <1>2, MessagesAre, OneLine
  <2> HIDE DEF other
  <2> QED BY <2>2, <2>3, <1>5
<1>10. /\ added' = message /\ pc' = "scan" /\ ignore_dups' = TRUE
       /\ in_pos' = IF CacheHit(message) THEN static_position ELSE 1
       /\ current_datetime' = IF CacheHit(message) THEN static_datetime ELSE 0
       /\ eofbit' = FALSE /\ failbit' = FALSE /\ static_filename' = static_filename
       /\ static_position' = static_position /\ static_datetime' = static_datetime
       /\ files[message.file] # <<>>
  <2>1. Open(message, IgnoresDuplicates) BY <1>2, <1>9
  <2>2. IgnoresDuplicates BY <1>1, <1>2 DEF IgnoresDuplicates
  <2> QED BY <2>1, <2>2 DEF Open, cacheVars, IgnoresDuplicates
<1>11. OneDirectory' BY <1>2, <1>8 DEF OneDirectory
<1>12. ASSUME NEW text, Unseen(text) PROVE Unseen(text)' /\ text # message.text
  <2>1. /\ \A s \in itr : \A j \in DOMAIN s : Text(s[j]) # text
        /\ \A j \in DOMAIN in_file : in_file[j].text # text
    BY <1>12 DEF Unseen
  <2>2. text # message.text BY <2>1, <1>2, <1>4
  <2>3. \A j \in DOMAIN in_file' : in_file'[j].text # text BY <2>1, <1>3
  <2> QED BY <2>1, <2>2, <2>3, <1>2 DEF Unseen
<1>13. GivesOnce'
  <2>1. SUFFICES ASSUME NEW text, GivenOnce(text)
                 PROVE  /\ message.text = text => Unseen(text)'
                        /\ \A j, k \in DOMAIN in_file' :
                              in_file'[j].text = text /\ in_file'[k].text = text => j = k
                        /\ \A s \in itr : \A j \in DOMAIN s, k \in DOMAIN in_file' :
                              in_file'[k].text = text => Text(s[j]) # text
    BY <1>2, <1>10 DEF GivesOnce
  <2>2. /\ \A j, k \in DOMAIN in_file :
              in_file[j].text = text /\ in_file[k].text = text => j = k
        /\ \A s \in itr : \A j \in DOMAIN s, k \in DOMAIN in_file :
              in_file[k].text = text => Text(s[j]) # text
    BY <2>1, <1>8 DEF GivesOnce
  <2>3. message.text = text => Unseen(text)'
    <3>1. SUFFICES ASSUME message.text = text PROVE Unseen(text)' OBVIOUS
    <3>2. \A s \in itr : \A j \in DOMAIN s : Text(s[j]) # text BY <3>1, <2>2, <1>2, <1>4
    <3>3. \A j \in DOMAIN in_file' : in_file'[j].text # text
      <4>1. ASSUME NEW j \in DOMAIN in_file', in_file'[j].text = text PROVE FALSE
        <5>1. j \in Nat /\ j + 1 \in DOMAIN in_file /\ in_file[j + 1].text = text BY <4>1, <1>3
        <5>2. j + 1 = 1 BY <5>1, <3>1, <2>2, <1>2, <1>4
        <5>3. j >= 1 BY <4>1, <1>2
        <5> QED BY <5>1, <5>2, <5>3
      <4> QED BY <4>1
    <3> QED BY <3>2, <3>3, <1>2 DEF Unseen
  <2>4. ASSUME NEW j \in DOMAIN in_file', NEW k \in DOMAIN in_file',
               in_file'[j].text = text, in_file'[k].text = text
        PROVE  j = k
    <3>1. j + 1 = k + 1 BY <2>2, <2>4, <1>3
    <3> QED BY <3>1, <1>3
  <2>5. \A s \in itr : \A j \in DOMAIN s, k \in DOMAIN in_file' :
           in_file'[k].text = text => Text(s[j]) # text
    BY <2>2, <1>3
  <2> QED BY <2>3, <2>4, <2>5
<1>14. static_filename \in Files /\ static_position # -1 /\ InTime(files[static_filename])
         => DeadEnd(files[static_filename], static_position) \/ Kept(files[static_filename])
  BY <1>2, <1>8 DEF Cached, Reading
<1>15. Cached'
  <2>1. ASSUME Kept(files[static_filename]) PROVE Kept(files[static_filename])'
    BY <2>1, <1>5, <1>10, <1>12 DEF Kept
  <2> QED BY <2>1, <1>5, <1>10, <1>14 DEF Cached
<1>16. Looking'
  <2> DEFINE file == files[message.file]
  <2>1. SUFFICES ASSUME InTime(file)
                 PROVE  \/ current_datetime' <= message.time /\ DeadEnd(file, in_pos')
                        \/ /\ GivenOnce(message.text) => ~PassedAlone(file, in_pos', message.text)
                           /\ AtLine(file, in_pos')
                           /\ ~(current_datetime' > message.time)
    BY <1>5, <1>10 DEF Looking, File
  <2>2. file \in Seq(Units) BY <1>6, <1>7 DEF StoreTypes
  <2>3. CASE CacheHit(message)
    <3>1. /\ static_filename = message.file /\ static_datetime <= message.time
          /\ static_position # -1 /\ in_pos' = static_position
          /\ current_datetime' = static_datetime /\ static_datetime \in Nat
      BY <2>3, <1>7, <1>10 DEF CacheHit, StaticTypes
    <3>2. DeadEnd(file, static_position) \/ Kept(file) BY <3>1, <2>1, <1>6, <1>14
    <3>3. CASE DeadEnd(file, static_position) BY <3>1, <3>3
    <3>4. CASE Kept(file)
      <4> HIDE DEF file
      <4>1. /\ AtLine(file, static_position)
            /\ \A k \in LineStarts(file) :
                  k <= static_position => file[k].entry.time <= static_datetime
            /\ \A k \in LineStarts(file) :
                  /\ k <= static_position /\ file[k].entry.time = static_datetime
                  /\ AloneAt(file, k) /\ GivenOnce(LineFrom(file, k))
                  => Unseen(LineFrom(file, k))
        BY <3>4 DEF Kept
      <4>2. ASSUME GivenOnce(message.text), NEW k \in LineStarts(file), k <= static_position,
                   AloneAt(file, k), LineFrom(file, k) = message.text
            PROVE  FALSE
        <5>1. file[k].entry.time = message.time /\ file[k].entry.time \in Nat
          BY <4>2, <2>2, <1>6, LineIs
        <5>2. file[k].entry.time <= static_datetime BY <4>1, <4>2
        <5>3. file[k].entry.time = static_datetime BY <5>1, <5>2, <3>1
        <5>4. Unseen(message.text) BY <5>3, <4>1, <4>2
        <5> QED BY <5>4, <1>12
      <4>3. GivenOnce(message.text) => ~PassedAlone(file, in_pos', message.text)
        BY <4>2, <3>1 DEF PassedAlone
      <4> QED BY <4>1, <4>3, <3>1, <1>6
    <3> QED BY <3>2, <3>3, <3>4
  <2>4. CASE ~CacheHit(message)
    <3>1. in_pos' = 1 /\ current_datetime' = 0 BY <2>4, <1>10
    <3> HIDE DEF file
    <3>2. \A k \in LineStarts(file) : ~(k <= 1) BY <2>2, StartsAre
    <3> QED BY <3>1, <3>2, <1>6 DEF PassedAlone, AtLine
  <2> QED BY <2>3, <2>4
<1>17. Missing' BY <1>10 DEF Missing
<1> QED BY <1>10, <1>11, <1>13, <1>15, <1>16, <1>17 DEF Hunt

\* Reading a line of the log that is the message ends the call; another one is passed
\* over, and is not the message.
LEMMA HuntReadLogLine ==
    ASSUME Control, Hunt, HistoryAdd, ReadLogLine
    PROVE  Hunt'
<1>0. StoreTypes /\ StaticTypes /\ ProcessTypes /\ Scanned BY DEF Control
<1>1. /\ pc = "scan" /\ current_datetime <= added.time /\ ~eofbit
      /\ files' = files /\ added' = added /\ ignore_dups' = ignore_dups
      /\ phase' = phase /\ itr' = itr /\ in_file' = in_file
      /\ grown' = (grown \/ files' # files)
      /\ pc' = IF ignore_dups /\ LineRead = added.text THEN "idle" ELSE pc
  BY DEF HistoryAdd, processVars, ReadLogLine, Scanning, callVars, Grows
<1>2. SUFFICES ASSUME phase = "import", ~grown PROVE Hunt' BY <1>1 DEF Hunt
<1>3. /\ added \in Messages /\ added.file \in Files /\ added.time \in Nat
      /\ in_pos \in Nat /\ in_pos >= 1 /\ current_datetime \in Nat /\ ~failbit
  BY <1>0, <1>1, MessagesAre DEF ProcessTypes, Scanned
<1>4. ignore_dups /\ OneDirectory /\ GivesOnce /\ Looking BY <1>1, <1>2 DEF Hunt
<1>p. PICK q, r, s, file, text :
         q = in_pos /\ r = FirstReturn /\ s = AfterLine /\ file = File /\ text = added.text
  OBVIOUS
<1>5. file \in Seq(Units) /\ File' = File /\ Len(file) \in Nat /\ File = files[added.file]
      /\ q \in Nat /\ q >= 1
  BY <1>0, <1>1, <1>3, <1>p, UnitsOf DEF StoreTypes, File
<1>6. /\ Returns # {} /\ IsText(LineRead) /\ in_pos' = s /\ line_size' = s - q
      /\ failbit' = failbit /\ eofbit' = ~HasNewline
      /\ current_datetime' = TimeOf(LineRead) /\ static_datetime' = TimeOf(LineRead)
      /\ static_position' = s /\ static_filename' = added.file
  BY <1>p DEF ReadLogLine
<1>7. /\ r \in q + 1 .. Len(file) /\ file[r] = CR /\ \A i \in q + 1 .. r - 1 : file[i] # CR
      /\ s = IF r < Len(file) THEN r + 1 ELSE r
      /\ s \in Nat /\ s <= Len(file)
  BY <1>3, <1>5, <1>6, <1>p, LineReadIs
<1>8. /\ q + 1 < r /\ q + 1 \in 1 .. Len(file) /\ StartOfText(file[q + 1])
      /\ TimeOf(LineRead) = file[q + 1].entry.time /\ TimeOf(LineRead) \in Nat
      /\ LineRead = LineFrom(file, q + 1)
  BY <1>3, <1>5, <1>6, <1>p, LogLineIs, ReadIsLine
<1>9. eofbit' <=> ~(r < Len(file)) BY <1>6, <1>p DEF HasNewline
<1>10. InTime(file) =>
         \/ DeadEnd(file, q)
         \/ (GivenOnce(text) => ~PassedAlone(file, q, text)) /\ AtLine(file, q)
  BY <1>1, <1>3, <1>4, <1>p DEF Looking
<1>11. pc' = IF LineRead = text THEN "idle" ELSE "scan" BY <1>1, <1>4, <1>p
<1>u. \A x : Unseen(x) => Unseen(x)' BY <1>1 DEF Unseen
<1>12. OneDirectory' BY <1>1, <1>4 DEF OneDirectory
<1>13. GivesOnce'
  <2>1. pc # "idle" BY <1>1
  <2> QED BY <2>1, <1>1, <1>4, <1>u DEF GivesOnce
<1>14. Missing' BY <1>11 DEF Missing
<1>15. ASSUME InTime(file)
       PROVE  /\ AtLine(file, q) /\ (GivenOnce(text) => ~PassedAlone(file, q, text))
              /\ q + 1 \in LineStarts(file) /\ StopsAt(file, r)
              /\ \A k \in LineStarts(file) : k <= q + 1 \/ k > s
              /\ r < Len(file) => AtLine(file, s)
  <2>1. q < Len(file) BY <1>5, <1>7
  <2>2. ~DeadEnd(file, q)
    <3>1. SUFFICES ASSUME DeadEnd(file, q) PROVE FALSE OBVIOUS
    <3>2. AtLine(file, q) /\ \A k \in LineStarts(file) : k <= q BY <3>1, <2>1, <1>5 DEF DeadEnd
    <3>3. q + 1 \in LineStarts(file) BY <3>2, <2>1, <1>5, <1>8, AtLineStarts
    <3> QED BY <3>2, <3>3, <1>5
  <2>3. AtLine(file, q) /\ (GivenOnce(text) => ~PassedAlone(file, q, text)) BY <2>2, <1>10, <1>15
  <2>4. q + 1 \in LineStarts(file) BY <2>1, <2>3, <1>5, <1>8, AtLineStarts
  <2>5. /\ StopsAt(file, r)
        /\ \A k \in LineStarts(file) : k <= q + 1 \/ k > s
        /\ r < Len(file) => AtLine(file, s)
    BY ONLY <2>3, <1>5, <1>7, LineStops
  <2> QED BY <2>3, <2>4, <2>5
<1>16. \A k \in LineStarts(file) : k \in Nat /\ k <= Len(file) BY <1>5, StartsAre
<1>17. s >= q + 1 /\ (~(r < Len(file)) => s = Len(file) /\ r = Len(file)) BY <1>5, <1>7, <1>8
<1>18. Cached'
  <2>1. SUFFICES ASSUME InTime(file)
                 PROVE  DeadEnd(file, s) \/ Kept(file)' \/ Reading(file)'
    <3>1. files'[static_filename'] = file BY <1>1, <1>5, <1>6, <1>p
    <3> QED BY <3>1, <1>6 DEF Cached
  <2>2. CASE ~(r < Len(file)) BY <2>2, <1>16, <1>17 DEF DeadEnd
  <2>3. CASE r < Len(file) /\ LineRead = text
    <3>1. AtLine(file, s) BY <2>1, <2>3, <1>15
    <3>2. \A k \in LineStarts(file) : k <= s => file[k].entry.time <= file[q + 1].entry.time
      <4>1. TAKE k \in LineStarts(file)
      <4>2. SUFFICES ASSUME k <= s PROVE file[k].entry.time <= file[q + 1].entry.time OBVIOUS
      <4>3. k <= q + 1 BY <4>2, <2>1, <1>5, <1>7, <1>15, <1>16
      <4>4. CASE k = q + 1 BY <4>4, <1>8
      <4>5. CASE k # q + 1
        <5>1. k < q + 1 BY <4>3, <4>5, <1>5, <1>16
        <5> QED BY <5>1, <2>1, <1>15 DEF InTime
      <4> QED BY <4>4, <4>5
    <3>3. ASSUME NEW k \in LineStarts(file), file[k].entry.time = file[q + 1].entry.time,
                 AloneAt(file, k), GivenOnce(LineFrom(file, k))
          PROVE  Unseen(LineFrom(file, k))'
      <4>1. k = q + 1 BY <3>3, <2>1, <1>15 DEF AloneAt
      <4>2. LineFrom(file, k) = text BY <4>1, <2>3, <1>8
      <4>3. Unseen(text) BY <4>2, <3>3, <1>1, <1>4, <1>p DEF GivesOnce
      <4> QED BY <4>2, <4>3, <1>u
    <3> QED BY <3>1, <3>2, <3>3, <1>6, <1>8 DEF Kept
  <2>4. CASE r < Len(file) /\ LineRead # text
    <3>1. AtLine(file, s) BY <2>1, <2>4, <1>15
    <3>2. pc' = "scan" /\ ~failbit' BY <2>4, <1>3, <1>6, <1>11
    <3>3. \A k \in LineStarts(file) : k <= s \/ k > s BY <1>7, <1>16
    <3> QED BY <3>1, <3>2, <3>3, <1>1, <1>6 DEF Reading
  <2> QED BY <2>2, <2>3, <2>4
<1>19. Looking'
  <2>1. SUFFICES ASSUME pc' = "scan", InTime(file)
                 PROVE  /\ GivenOnce(text) => ~PassedAlone(file, s, text)
                        /\ eofbit' => s = Len(file) /\ StopsAt(file, s)
                        /\ ~eofbit' => AtLine(file, s)
                        /\ ~eofbit' /\ current_datetime' > added.time => LaterLine(q)'
    <3>1. File' = file /\ added'.text = text /\ added' = added /\ in_pos' = s
      BY <1>1, <1>5, <1>6, <1>p
    <3>2. in_pos' - line_size' = q BY <1>5, <1>6, <1>7
    <3> QED BY <3>1, <3>2 DEF Looking
  <2>2. LineFrom(file, q + 1) # text BY <2>1, <1>8, <1>11
  <2>3. ASSUME GivenOnce(text), NEW k \in LineStarts(file), k <= s, AloneAt(file, k),
               LineFrom(file, k) = text
        PROVE  FALSE
    <3>1. k <= q + 1 BY <2>1, <2>3, <1>7, <1>15, <1>16
    <3>2. k <= q BY <3>1, <2>2, <2>3, <1>5, <1>16
    <3> QED BY <3>2, <2>1, <2>3, <1>15 DEF PassedAlone
  <2>4. GivenOnce(text) => ~PassedAlone(file, s, text) BY <2>3 DEF PassedAlone
  <2>5. eofbit' => s = Len(file) /\ StopsAt(file, s) BY <2>1, <1>9, <1>15, <1>17
  <2>6. ~eofbit' => AtLine(file, s) BY <2>1, <1>9, <1>15
  <2>7. ASSUME current_datetime' > added.time PROVE LaterLine(q)'
    <3>1. file[q + 1].entry.time > added.time BY <2>7, <1>6, <1>8
    <3>2. q <= s BY <1>17, <1>5, <1>7
    <3>3. File' = file /\ added' = added /\ in_pos' = s BY <1>1, <1>5, <1>6, <1>p
    <3> QED BY <2>1, <3>1, <3>2, <3>3, <1>15 DEF LaterLine
  <2> QED BY <2>4, <2>5, <2>6, <2>7
<1> QED BY <1>1, <1>4, <1>12, <1>13, <1>14, <1>18, <1>19 DEF Hunt

\* What is read that is no line of the log is passed over.
LEMMA HuntReadOther ==
    ASSUME Control, Hunt, HistoryAdd, ReadOther
    PROVE  Hunt'
<1>0. StoreTypes /\ StaticTypes /\ ProcessTypes /\ Scanned BY DEF Control
<1>1. /\ pc = "scan" /\ pc' = pc /\ current_datetime <= added.time /\ ~eofbit
      /\ files' = files /\ added' = added /\ ignore_dups' = ignore_dups
      /\ phase' = phase /\ itr' = itr /\ in_file' = in_file /\ grown' = (grown \/ files' # files)
      /\ static_filename' = static_filename
      /\ static_position' = static_position /\ static_datetime' = static_datetime
  BY DEF HistoryAdd, processVars, ReadOther, Scanning, callVars, cacheVars, Grows
<1>2. SUFFICES ASSUME phase = "import", ~grown PROVE Hunt' BY <1>1 DEF Hunt
<1>3. /\ added \in Messages /\ added.file \in Files /\ added.time \in Nat
      /\ in_pos \in Nat /\ in_pos >= 1 /\ current_datetime \in Nat /\ ~failbit
  BY <1>0, <1>1, MessagesAre DEF ProcessTypes, Scanned
<1>4. ignore_dups /\ OneDirectory /\ GivesOnce /\ Looking /\ Cached BY <1>1, <1>2 DEF Hunt
<1>p. PICK q, r, s, file, text :
         q = in_pos /\ r = FirstReturn /\ s = AfterLine /\ file = File /\ text = added.text
  OBVIOUS
<1>5. file \in Seq(Units) /\ File' = File /\ Len(file) \in Nat /\ File = files[added.file]
      /\ q \in Nat /\ q >= 1
  BY <1>0, <1>1, <1>3, <1>p, UnitsOf DEF StoreTypes, File
<1>6. /\ Returns # {} /\ ~IsText(LineRead) /\ in_pos' = s
      /\ failbit' = failbit /\ eofbit' = ~HasNewline /\ current_datetime' = current_datetime
  BY <1>p DEF ReadOther
<1>7. /\ r \in q + 1 .. Len(file) /\ file[r] = CR /\ \A i \in q + 1 .. r - 1 : file[i] # CR
      /\ s = IF r < Len(file) THEN r + 1 ELSE r
      /\ s \in Nat /\ s <= Len(file)
      /\ LineRead \in Seq(Units) /\ Len(LineRead) = r - 1 - q
      /\ \A i \in 1 .. r - 1 - q : LineRead[i] = file[q + i]
  BY <1>3, <1>5, <1>6, <1>p, LineReadIs
<1>8. ~StartOfText(file[q + 1])
  <2>1. CASE r = q + 1 BY <2>1, <1>7, UnitFacts
  <2>2. CASE r # q + 1
    <3>1. 1 \in 1 .. r - 1 - q /\ Len(LineRead) >= 1 BY <2>2, <1>5, <1>7
    <3>2. LineRead[1] = file[q + 1] /\ LineRead # <<>> BY <3>1, <1>7
    <3> QED BY <3>2, <1>6 DEF IsText, StartOfText
  <2> QED BY <2>1, <2>2
<1>9. eofbit' <=> ~(r < Len(file)) BY <1>6, <1>p DEF HasNewline
<1>10. InTime(file) =>
         \/ DeadEnd(file, q)
         \/ (GivenOnce(text) => ~PassedAlone(file, q, text)) /\ AtLine(file, q)
  BY <1>1, <1>3, <1>4, <1>p DEF Looking
<1>u. \A x : Unseen(x) => Unseen(x)' BY <1>1 DEF Unseen
<1>11. OneDirectory' BY <1>1, <1>4 DEF OneDirectory
<1>12. GivesOnce'
  <2>1. pc # "idle" BY <1>1
  <2> QED BY <2>1, <1>1, <1>4, <1>u DEF GivesOnce
<1>13. Missing' BY <1>1 DEF Missing
<1>14. \A k \in LineStarts(file) : k \in Nat /\ k <= Len(file) /\ k # q + 1
  BY <1>5, <1>8, StartsAre
<1>15. ASSUME AtLine(file, q)
       PROVE  /\ StopsAt(file, r) /\ (r < Len(file) => AtLine(file, s))
              /\ \A k \in LineStarts(file) : k <= q \/ k > s
  <2>1. /\ StopsAt(file, r) /\ (r < Len(file) => AtLine(file, s))
        /\ \A k \in LineStarts(file) : k <= q + 1 \/ k > s
    BY ONLY <1>5, <1>7, <1>15, LineStops
  <2>2. \A k \in LineStarts(file) : k <= q + 1 => k <= q BY <1>5, <1>14
  <2> QED BY <2>1, <2>2
<1>16. s >= q + 1 /\ (~(r < Len(file)) => s = Len(file) /\ r = Len(file)) BY <1>5, <1>7
<1>17. DeadEnd(file, q) => r < Len(file) /\ AtLine(file, q) /\ DeadEnd(file, s)
  <2>1. SUFFICES ASSUME DeadEnd(file, q)
                 PROVE  r < Len(file) /\ AtLine(file, q) /\ DeadEnd(file, s)
    OBVIOUS
  <2>2. AtLine(file, q) /\ ~StopsAt(file, Len(file)) /\ \A k \in LineStarts(file) : k <= q
    BY <2>1, <1>5, <1>7 DEF DeadEnd
  <2>3. r < Len(file) /\ AtLine(file, s) BY <2>2, <1>15, <1>16
  <2>4. \A k \in LineStarts(file) : k <= s BY <2>2, <1>5, <1>7, <1>14, <1>16
  <2> QED BY <2>2, <2>3, <2>4 DEF DeadEnd
<1>18. Cached'
  <2>1. SUFFICES ASSUME static_filename \in Files, static_position # -1,
                        InTime(files[static_filename])
                 PROVE  \/ DeadEnd(files[static_filename], static_position)
                        \/ Kept(files[static_filename])' \/ Reading(files[static_filename])'
    BY <1>1 DEF Cached
  <2>2. \/ DeadEnd(files[static_filename], static_position)
        \/ Kept(files[static_filename]) \/ Reading(files[static_filename])
    BY <2>1, <1>4 DEF Cached
  <2>3. Kept(files[static_filename]) => Kept(files[static_filename])' BY <1>1, <1>u DEF Kept
  <2>4. ASSUME Reading(files[static_filename]) PROVE Reading(files[static_filename])'
    <3>1. /\ static_filename = added.file /\ AtLine(file, static_position)
          /\ \A k \in LineStarts(file) : k <= static_position \/ k > q
          /\ AtLine(file, q)
      BY <2>4, <1>1, <1>5, <1>p DEF Reading
    <3>2. \A k \in LineStarts(file) : k <= static_position \/ k > s
      <4>1. \A k \in LineStarts(file) : ~(k <= q /\ k > q) BY <1>5, <1>14
      <4> QED BY <3>1, <4>1, <1>15
    <3>3. ~eofbit' => AtLine(file, s) BY <3>1, <1>9, <1>15
    <3>4. files[static_filename] = file /\ (files[static_filename])' = file
      BY <3>1, <1>1, <1>5, <1>p
    <3> QED BY <3>1, <3>2, <3>3, <3>4, <1>1, <1>3, <1>6 DEF Reading
  <2> QED BY <2>2, <2>3, <2>4
<1>19. Looking'
  <2>1. SUFFICES ASSUME InTime(file)
                 PROVE  \/ ~eofbit' /\ DeadEnd(file, s)
                        \/ /\ GivenOnce(text) => ~PassedAlone(file, s, text)
                           /\ eofbit' => s = Len(file) /\ StopsAt(file, s)
                           /\ ~eofbit' => AtLine(file, s)
    <3>1. File' = file /\ added'.text = text /\ added' = added /\ in_pos' = s
      BY <1>1, <1>5, <1>6, <1>p
    <3>2. current_datetime' <= added'.time /\ ~(current_datetime' > added'.time)
      BY <1>1, <1>3, <1>6
    <3> QED BY <3>1, <3>2 DEF Looking
  <2>2. CASE DeadEnd(file, q) BY <2>2, <1>9, <1>17
  <2>3. CASE (GivenOnce(text) => ~PassedAlone(file, q, text)) /\ AtLine(file, q)
    <3>1. \A k \in LineStarts(file) : k <= s => k <= q
      <4>1. \A k \in LineStarts(file) : ~(k <= s /\ k > s) BY <1>7, <1>14
      <4> QED BY <4>1, <2>3, <1>15
    <3>2. GivenOnce(text) => ~PassedAlone(file, s, text) BY <3>1, <2>3 DEF PassedAlone
    <3>3. eofbit' => s = Len(file) /\ StopsAt(file, s) BY <2>3, <1>9, <1>15, <1>16
    <3>4. ~eofbit' => AtLine(file, s) BY <2>3, <1>9, <1>15
    <3> QED BY <3>2, <3>3, <3>4
  <2> QED BY <2>1, <2>2, <2>3, <1>10
<1> QED BY <1>1, <1>4, <1>11, <1>12, <1>13, <1>18, <1>19 DEF Hunt

\* At the end of the file the stream fails, and nothing will be written.
LEMMA HuntReadEnd ==
    ASSUME Control, Hunt, HistoryAdd, ReadEnd \/ ReadTornLine
    PROVE  Hunt'
<1>0. StoreTypes /\ StaticTypes /\ ProcessTypes /\ Scanned BY DEF Control
<1>1. /\ pc = "scan" /\ pc' \in {"scan", "idle"} /\ ~eofbit /\ failbit'
      /\ files' = files /\ added' = added /\ ignore_dups' = ignore_dups
      /\ phase' = phase /\ itr' = itr /\ in_file' = in_file /\ grown' = (grown \/ files' # files)
  BY DEF HistoryAdd, processVars, ReadEnd, ReadTornLine, Scanning, callVars, Grows
<1>2. SUFFICES ASSUME phase = "import", ~grown PROVE Hunt' BY <1>1 DEF Hunt
<1>3. ignore_dups /\ OneDirectory /\ GivesOnce /\ Cached BY <1>1, <1>2 DEF Hunt
<1>u. \A x : Unseen(x) => Unseen(x)' BY <1>1 DEF Unseen
<1>4. OneDirectory' BY <1>1, <1>3 DEF OneDirectory
<1>5. GivesOnce'
  <2>1. pc # "idle" BY <1>1
  <2> QED BY <2>1, <1>1, <1>3, <1>u DEF GivesOnce
<1>6. Missing' /\ Looking' BY <1>1 DEF Missing, Looking
<1>7. Cached'
  <2>1. CASE ReadTornLine BY <2>1 DEF ReadTornLine, Cached
  <2>2. CASE ReadEnd
    <3>1. /\ static_filename' = static_filename /\ Returns = {} /\ ~IsText(LastLine)
          /\ static_position' = static_position /\ static_datetime' = static_datetime
      BY <2>2 DEF ReadEnd, cacheVars
    <3>2. SUFFICES ASSUME static_filename \in Files, static_position # -1,
                          InTime(files[static_filename])
                   PROVE  \/ DeadEnd(files[static_filename], static_position)
                          \/ Kept(files[static_filename])'
      BY <3>1, <1>1 DEF Cached
    <3>3. \/ DeadEnd(files[static_filename], static_position)
          \/ Kept(files[static_filename]) \/ Reading(files[static_filename])
      BY <3>2, <1>3 DEF Cached
    <3>4. Kept(files[static_filename]) => Kept(files[static_filename])'
      BY <3>1, <1>1, <1>u DEF Kept
    <3>5. ASSUME Reading(files[static_filename])
          PROVE  DeadEnd(files[static_filename], static_position)
      <4>p. PICK q, file : q = in_pos /\ file = File OBVIOUS
      <4>1. /\ files[static_filename] = file /\ AtLine(file, static_position)
            /\ \A k \in LineStarts(file) : k <= static_position \/ k > q
            /\ AtLine(file, q)
        BY <3>5, <4>p, <1>1 DEF Reading, File
      <4>2. file \in Seq(Units) /\ file # <<>> /\ q \in Nat /\ q >= 1
        BY <3>2, <4>1, <4>p, <1>0, <1>1 DEF StoreTypes, Scanned
      <4>3. \A i \in q + 1 .. Len(file) : file[i] # CR BY <3>1, <4>p DEF Returns
      <4>4. (\A k \in LineStarts(file) : k <= q + 1) /\ ~StopsAt(file, Len(file))
        BY <4>1, <4>2, <4>3, NoStop
      <4>5. \A k \in LineStarts(file) : k # q + 1
        <5>1. SUFFICES ASSUME q + 1 \in LineStarts(file) PROVE FALSE OBVIOUS
        <5>2. q + 1 \in 2 .. Len(file) /\ StartOfText(file[q + 1]) /\ Len(file) \in Nat
          BY <5>1, <4>2, StartsAre, UnitsOf
        <5>3. /\ LastLine \in Seq(Units) /\ Len(LastLine) = Len(file) - (q + 1) + 1
              /\ \A i \in 1 .. Len(file) - (q + 1) + 1 : LastLine[i] = file[q + 1 + i - 1]
          <6>1. q + 1 \in 1 .. Len(file) + 1 /\ Len(file) \in (q + 1) - 1 .. Len(file)
            BY <5>2, <4>2
          <6> QED BY <6>1, <4>2, <4>p, PartOf DEF LastLine
        <5>4. 1 \in 1 .. Len(file) - (q + 1) + 1 /\ q + 1 + 1 - 1 = q + 1 BY <5>2, <4>2
        <5>5. LastLine[1] = file[q + 1] /\ Len(LastLine) >= 1 BY <5>3, <5>4
        <5>6. LastLine # <<>> BY <5>5
        <5> QED BY <5>2, <5>5, <5>6, <3>1 DEF IsText, StartOfText
      <4>6. \A k \in LineStarts(file) : k <= static_position
        <5>1. \A k \in LineStarts(file) : k \in Nat BY <4>2, StartsAre
        <5>2. \A k \in LineStarts(file) : ~(k > q) BY <5>1, <4>2, <4>4, <4>5
        <5> QED BY <5>2, <4>1
      <4> QED BY <4>1, <4>4, <4>6 DEF DeadEnd
    <3> QED BY <3>3, <3>4, <3>5
  <2> QED BY <2>1, <2>2
<1> QED BY <1>1, <1>3, <1>4, <1>5, <1>6, <1>7 DEF Hunt

\* What is written goes before the later line that ended the scan, or to the end.
LEMMA HuntLocate ==
    ASSUME Control, Hunt, HistoryAdd, Locate
    PROVE  Hunt'
<1>0. StoreTypes /\ ProcessTypes /\ Scanned BY DEF Control
<1>1. /\ pc = "scan" /\ ~Scanning /\ pc' = "write" /\ file_pos' = Place
      /\ files' = files /\ added' = added /\ ignore_dups' = ignore_dups
      /\ phase' = phase /\ itr' = itr /\ in_file' = in_file /\ grown' = (grown \/ files' # files)
      /\ static_filename' = static_filename
      /\ static_position' = static_position /\ static_datetime' = static_datetime
  BY DEF HistoryAdd, processVars, Locate, callVars, cacheVars, Grows
<1>2. SUFFICES ASSUME phase = "import", ~grown PROVE Hunt' BY <1>1 DEF Hunt
<1>3. /\ added \in Messages /\ added.file \in Files /\ added.time \in Nat
      /\ IsText(added.text) /\ added.time = TimeOf(added.text)
      /\ in_pos \in Nat /\ in_pos >= 1 /\ current_datetime \in Nat
  BY <1>0, <1>1, MessagesAre DEF ProcessTypes, Scanned
<1>4. ignore_dups /\ OneDirectory /\ GivesOnce /\ Looking /\ Cached BY <1>1, <1>2 DEF Hunt
<1>p. PICK q, p, file, text : q = in_pos /\ p = Place /\ file = File /\ text = added.text
  OBVIOUS
<1>5. file \in Seq(Units) /\ File' = File /\ Len(file) \in Nat
  BY <1>0, <1>1, <1>3, <1>p, UnitsOf DEF StoreTypes, File
<1>u. \A x : Unseen(x) => Unseen(x)' BY <1>1 DEF Unseen
<1>6. OneDirectory' BY <1>1, <1>4 DEF OneDirectory
<1>7. GivesOnce'
  <2>1. pc # "idle" BY <1>1
  <2> QED BY <2>1, <1>1, <1>4, <1>u DEF GivesOnce
<1>8. Looking' BY <1>1 DEF Looking
<1>9. failbit => Place = -1 BY DEF Place
<1>10. ~failbit => Place # -1
  <2>1. SUFFICES ASSUME ~failbit PROVE Place # -1 OBVIOUS
  <2>2. CASE eofbit BY <2>1, <2>2, <1>5, <1>p DEF Place
  <2>3. CASE ~eofbit
    <3>1. current_datetime > added.time BY <1>1, <1>3, <2>3 DEF Scanning
    <3>2. AtText(in_pos - line_size) BY <3>1, <2>3, <1>0, <1>1 DEF Scanned
    <3> QED BY <3>2, <2>1, <2>3, <1>5, <1>p DEF Place, AtText
  <2> QED BY <2>2, <2>3
<1>11. Cached'
  <2>1. SUFFICES ASSUME static_filename \in Files, static_position # -1,
                        InTime(files[static_filename])
                 PROVE  \/ DeadEnd(files[static_filename], static_position)
                        \/ Kept(files[static_filename])' \/ Reading(files[static_filename])'
    BY <1>1 DEF Cached
  <2>2. \/ DeadEnd(files[static_filename], static_position)
        \/ Kept(files[static_filename]) \/ Reading(files[static_filename])
    BY <2>1, <1>4 DEF Cached
  <2>3. Kept(files[static_filename]) => Kept(files[static_filename])' BY <1>1, <1>u DEF Kept
  <2>4. ASSUME Reading(files[static_filename]) PROVE Reading(files[static_filename])'
    <3>1. /\ static_filename = added.file /\ AtLine(files[static_filename], static_position)
          /\ ~failbit
      BY <2>4, <1>1 DEF Reading
    <3> QED BY <3>1, <1>1, <1>10 DEF Reading
  <2> QED BY <2>2, <2>3, <2>4
<1>12. Missing'
  <2>1. SUFFICES ASSUME p # -1, InTime(file)
                 PROVE  /\ GivenOnce(text) => ~PassedAlone(file, Len(file), text)
                        /\ \/ AtLine(file, p) /\ p + 1 \in LineStarts(file)
                           \/ p = Len(file) /\ StopsAt(file, p)
    <3>1. File' = file /\ added'.text = text /\ file_pos' = p BY <1>1, <1>5, <1>p
    <3> QED BY <3>1 DEF Missing
  <2>2. ~failbit BY <2>1, <1>9, <1>p
  <2>3. \A k \in LineStarts(file) : k \in Nat /\ k <= Len(file) BY <1>5, StartsAre
  <2>4. CASE eofbit
    <3>1. /\ GivenOnce(text) => ~PassedAlone(file, q, text)
          /\ q = Len(file) /\ StopsAt(file, q)
      BY <2>1, <2>2, <2>4, <1>1, <1>4, <1>p DEF Looking
    <3>2. p = Len(file) BY <2>2, <2>4, <1>p DEF Place
    <3> QED BY <3>1, <3>2
  <2>5. CASE ~eofbit
    <3>1. current_datetime > added.time /\ ~(current_datetime <= added.time)
      BY <1>1, <1>3, <2>5 DEF Scanning
    <3>2. p = in_pos - line_size BY <2>2, <2>5, <1>p DEF Place
    <3>3. (GivenOnce(text) => ~PassedAlone(file, q, text)) /\ LaterLine(in_pos - line_size)
      BY <2>1, <2>2, <2>5, <3>1, <1>1, <1>4, <1>p DEF Looking
    <3>4. /\ AtLine(file, p) /\ p + 1 \in LineStarts(file) /\ p <= q
          /\ file[p + 1].entry.time > added.time
          /\ \A k \in LineStarts(file) : k <= p + 1 \/ k > q
      BY <3>2, <3>3, <1>p DEF LaterLine
    <3>5. p \in Nat BY <3>4, <1>5, AtLineIs
    <3>6. ASSUME NEW k \in LineStarts(file), ~(k <= q), LineFrom(file, k) = text PROVE FALSE
      <4>1. file[k].entry.time = added.time BY <3>6, <1>3, <1>5, <1>p, LineIs
      <4>2. file[p + 1].entry.time <= file[k].entry.time
        <5>1. CASE k = p + 1
          <6>1. file[k].entry.time \in Nat BY <1>5, LineIs
          <6> QED BY <5>1, <6>1
        <5>2. CASE k # p + 1
          <6>1. p + 1 < k BY <5>2, <3>4, <3>5, <3>6, <2>3, <1>3, <1>p
          <6> QED BY <6>1, <3>4, <2>1 DEF InTime
        <5> QED BY <5>1, <5>2
      <4>3. file[p + 1].entry.time \in Nat BY <3>4, <1>5, LineIs
      <4> QED BY <4>1, <4>2, <4>3, <3>4, <1>3
    <3>7. GivenOnce(text) => ~PassedAlone(file, Len(file), text)
      BY <3>3, <3>6 DEF PassedAlone
    <3> QED BY <3>4, <3>7
  <2> QED BY <2>4, <2>5
<1> QED BY <1>1, <1>4, <1>6, <1>7, <1>8, <1>11, <1>12 DEF Hunt

\* Something is written, and that is the end of it, or nothing is.
LEMMA HuntWrite ==
    ASSUME Control, Hunt, HistoryAdd, Write
    PROVE  Hunt'
<1>1. /\ pc = "write" /\ pc' = "idle" /\ phase' = phase /\ itr' = itr /\ in_file' = in_file
      /\ grown' = (grown \/ files' # files) /\ static_filename' = static_filename
      /\ static_position' = static_position /\ static_datetime' = static_datetime
  BY DEF HistoryAdd, processVars, Write, cacheVars, Grows
<1>2. SUFFICES ASSUME phase = "import", ~grown, files' = files PROVE Hunt' BY <1>1 DEF Hunt
<1>3. OneDirectory /\ GivesOnce /\ Cached BY <1>2 DEF Hunt
<1>4. file_pos = -1
  <2>1. SUFFICES ASSUME file_pos # -1 PROVE FALSE OBVIOUS
  <2>2. PutIn(File, files'[added.file], file_pos, added.text) /\ added \in Messages
    BY <2>1, WriteIs
  <2>3. Len(File) = Len(File) + Len(added.text) + 2 BY <2>2, <1>2 DEF PutIn, File
  <2>4. Len(File) \in Nat /\ Len(added.text) \in Nat BY <2>2, UnitsOf DEF PutIn
  <2> QED BY <2>3, <2>4
<1>u. \A x : Unseen(x) => Unseen(x)' BY <1>1 DEF Unseen
<1>5. OneDirectory' BY <1>1, <1>3 DEF OneDirectory
<1>6. GivesOnce' BY <1>1, <1>3 DEF GivesOnce
<1>7. Cached'
  <2>1. SUFFICES ASSUME static_filename \in Files, static_position # -1,
                        InTime(files[static_filename])
                 PROVE  \/ DeadEnd(files[static_filename], static_position)
                        \/ Kept(files[static_filename])'
    BY <1>1, <1>2 DEF Cached
  <2>2. DeadEnd(files[static_filename], static_position) \/ Kept(files[static_filename])
    BY <2>1, <1>1, <1>3, <1>4 DEF Cached, Reading
  <2>3. Kept(files[static_filename]) => Kept(files[static_filename])' BY <1>1, <1>2, <1>u DEF Kept
  <2> QED BY <2>2, <2>3
<1>8. Looking' /\ Missing' BY <1>1 DEF Looking, Missing
<1> QED BY <1>1, <1>5, <1>6, <1>7, <1>8 DEF Hunt

LEMMA HuntStep ==
    ASSUME Control, Hunt, [ImportNext]_allVars
    PROVE  Hunt'
<1>1. CASE \/ \E options \in Options, from \in Sources : StartImport(options, from)
           \/ \E options \in Options : StartSort(options)
  BY <1>1, HuntStart
<1>2. CASE ImportFile BY <1>2, HuntImportFile
<1>3. CASE AddLine BY <1>3, HuntAddLine
<1>4. CASE HistoryAdd
  BY <1>4, HuntReadLogLine, HuntReadOther, HuntReadEnd, HuntLocate, HuntWrite
     DEF HistoryAdd, CallStep
<1>5. CASE Rename BY <1>5 DEF Rename, Hunt
<1>6. CASE EndImport \/ Refuse \/ SortFile \/ EndSort \/ Exit
  BY <1>6 DEF EndImport, AfterImport, Refuse, SortFile, EndSort, Exit, Hunt
<1>7. CASE Kill \/ KillWriting \/ KillCreating
  BY <1>7 DEF Kill, KillWriting, KillCreating, Killed, Hunt
<1>8. CASE UNCHANGED allVars
  <2>1. Hunt' <=> Hunt
    BY <1>8 DEF allVars, vars, processVars, cacheVars, streamVars, callVars,
       Hunt, OneDirectory, GivesOnce, Unseen, Cached, Kept, Reading, Looking, LaterLine,
       Missing, File
  <2> QED BY <2>1
<1> QED BY <1>1, <1>2, <1>3, <1>4, <1>5, <1>6, <1>7, <1>8 DEF ImportNext, ProcessStep

LEMMA HuntAlways == ImportSpec => [](Control /\ Hunt)
<1>1. ImportInit => Hunt BY HuntInit
<1>2. Control /\ Hunt /\ [ImportNext]_allVars => Hunt' BY HuntStep
<1> QED BY <1>1, <1>2, ControlAlways, PTL DEF ImportSpec
-----------------------------------------------------------------------------
\* A line of a file that is the only one of its second is there once, and is alone
\* where it begins.
LEMMA AloneIsOnce ==
    ASSUME NEW file \in Seq(Units), NEW k \in DOMAIN LinesOf(file),
           \A j \in DOMAIN LinesOf(file) :
              TimeOf(LinesOf(file)[j]) = TimeOf(LinesOf(file)[k]) => j = k
    PROVE  /\ Times(LinesOf(file)[k], LinesOf(file)) = 1
           /\ PassedAlone(file, Len(file), LinesOf(file)[k])
<1> DEFINE S == LineStarts(file)   c == Cardinality(S)   L == LinesOf(file)   a == NthOf(S, k)
<1>1. /\ DOMAIN L = 1 .. c
      /\ \A n \in 1 .. c : NthOf(S, n) \in S /\ L[n] = LineFrom(file, NthOf(S, n))
  BY LinesAre
<1>2. Places(S, Len(file)) BY StartsAre
<1>3. \A j \in S : TimeOf(LineFrom(file, j)) = file[j].entry.time BY LineIs
<1>4. a \in S /\ L[k] = LineFrom(file, a) BY <1>1
<1>5. \A j \in DOMAIN L : L[j] = L[k] => j = k OBVIOUS
<1>6. {j \in DOMAIN L : L[j] = L[k]} = {k} BY <1>5
<1>7. Times(L[k], L) = 1 BY <1>6, FS_Singleton DEF Times
<1>8. ASSUME NEW j \in S, file[j].entry.time = file[a].entry.time PROVE j = a
  <2> HIDE DEF S, L
  <2>1. PICK n \in 1 .. c : NthOf(S, n) = j BY <1>2, <1>8, NthOnly
  <2>2. TimeOf(L[n]) = TimeOf(L[k]) BY <2>1, <1>1, <1>3, <1>4, <1>8
  <2>3. n = k BY <2>1, <2>2, <1>1 DEF L
  <2> QED BY <2>1, <2>3
<1>9. AloneAt(file, a) BY <1>8 DEF AloneAt
<1>10. a <= Len(file) BY <1>4, <1>2 DEF Places
<1> QED BY <1>4, <1>7, <1>9, <1>10 DEF PassedAlone

\* An import that is repeated, after it was killed too, doubles no message that it is
\* given once and whose line is the only one of its second in a file in order, until
\* the first write of the process: history_add comes from every position it starts at
\* to that line, in files that are as earlier writes have left them, split or torn
\* lines included, and leaves the line as it is.
THEOREM AloneStaysAlone == ImportSpec => AloneIsNotDoubled
<1> DEFINE Done == phase = "import" /\ ~grown /\ ~KillWriting =>
               \A name \in Files :
                  LET before == LinesOf(files[name])
                      after == LinesOf(files'[name])
                  IN  InOrder(before) =>
                        \A k \in DOMAIN before :
                            /\ \A j \in DOMAIN before :
                                  TimeOf(before[j]) = TimeOf(before[k]) => j = k
                            /\ GivenOnce(before[k])
                            => Times(before[k], after) <= 1
<1>1. ASSUME Control, Hunt, [ImportNext]_allVars PROVE [Done]_files
  <2>1. SUFFICES ASSUME phase = "import", ~grown, ~KillWriting, NEW name \in Files,
                        files'[name] # files[name], InOrder(LinesOf(files[name])),
                        NEW k \in DOMAIN LinesOf(files[name]),
                        \A j \in DOMAIN LinesOf(files[name]) :
                           TimeOf(LinesOf(files[name])[j]) = TimeOf(LinesOf(files[name])[k]) => j = k,
                        GivenOnce(LinesOf(files[name])[k])
                 PROVE  Times(LinesOf(files[name])[k], LinesOf(files'[name])) <= 1
    <3>1. files \in [Files -> Seq(Units)] BY <1>1 DEF Control, StoreTypes
    <3>2. ASSUME NEW name \in Files, files'[name] = files[name],
                 NEW k \in DOMAIN LinesOf(files[name]),
                 \A j \in DOMAIN LinesOf(files[name]) :
                    TimeOf(LinesOf(files[name])[j]) = TimeOf(LinesOf(files[name])[k]) => j = k
          PROVE  Times(LinesOf(files[name])[k], LinesOf(files'[name])) <= 1
      <4>1. files[name] \in Seq(Units) BY <3>1
      <4>2. Times(LinesOf(files[name])[k], LinesOf(files[name])) = 1 BY <3>2, <4>1, AloneIsOnce
      <4> QED BY <4>2, <3>2
    <3> QED BY <3>2
  <2> DEFINE file == files[name]   other == files'[name]   L == LinesOf(file)   M == LinesOf(other)
  <2>2. file \in Seq(Units) BY <1>1 DEF Control, StoreTypes
  <2>3. Times(L[k], L) = 1 /\ PassedAlone(file, Len(file), L[k]) BY <2>1, <2>2, AloneIsOnce
  <2>4. file # <<>> BY <2>1, NoLines
  <2>5. HistoryAdd /\ Write /\ file_pos # -1 /\ name = added.file
    <3>1. ~ImportFile /\ ~EndImport /\ ~Refuse /\ ~Rename /\ ~SortFile /\ ~EndSort /\ ~Exit /\ ~Kill
      BY <2>1 DEF ImportFile, EndImport, Refuse, Rename, SortFile, EndSort, Exit, Kill, vars
    <3>2. /\ \A options \in Options, from \in Sources : ~StartImport(options, from)
          /\ \A options \in Options : ~StartSort(options)
      BY <2>1 DEF StartImport, StartSort
    <3>3. ~UNCHANGED allVars BY <2>1 DEF allVars, vars
    <3>4. ~KillCreating
      <4>1. KillCreating => file = <<>> BY <1>1, <2>1, CutCreateIs
      <4> QED BY <4>1, <2>4
    <3>5. ~AddLine
      <4>1. SUFFICES ASSUME AddLine PROVE FALSE OBVIOUS
      <4>2. Head(in_file) \in Messages
            /\ (Create(Head(in_file)) \/ Open(Head(in_file), IgnoresDuplicates))
        BY <4>1, <1>1, NextLine
      <4>3. Create(Head(in_file)) BY <4>2, <2>1 DEF Open
      <4>4. file = <<>>
        <5> DEFINE message == Head(in_file)
        <5>1. message \in Messages /\ Create(message) BY <4>2, <4>3
        <5> HIDE DEF message
        <5> QED BY <5>1, <1>1, <2>1, CreateIs
      <4> QED BY <4>4, <2>4
    <3>6. HistoryAdd
      BY <1>1, <2>1, <3>1, <3>2, <3>3, <3>4, <3>5 DEF ImportNext, ProcessStep
    <3>7. Write
      BY <3>6, <2>1 DEF HistoryAdd, CallStep, ReadLogLine, ReadOther, ReadEnd, ReadTornLine, Locate
    <3>8. file_pos # -1 BY <3>7, <2>1 DEF Write
    <3> QED BY <3>6, <3>7, <3>8, <1>1, <2>1, WriteIs
  <2> DEFINE p == file_pos   text == added.text
  <2>6. /\ added \in Messages /\ PutIn(file, other, p, text) /\ File = file
        /\ IsText(text) /\ HasNo(CR, text) /\ Whole(text) /\ pc = "write"
    <3>1. PutIn(file, other, p, text) /\ added \in Messages /\ pc = "write" /\ File = file
      BY <2>5, <1>1, WriteIs DEF File, Write
    <3>2. Whole(text) BY <3>1, <1>1, <2>1 DEF Control, ImportsWhole
    <3> QED BY <3>1, <3>2, MessagesAre
  <2>7. InTime(file) BY <2>1, <2>2, InOrderTimes
  <2>8. /\ GivenOnce(text) => ~PassedAlone(file, Len(file), text)
        /\ \/ AtLine(file, p) /\ p + 1 \in LineStarts(file)
           \/ p = Len(file) /\ StopsAt(file, p)
    BY <1>1, <2>1, <2>5, <2>6, <2>7 DEF Hunt, Missing
  <2>9. L[k] # text BY <2>1, <2>3, <2>8
  <2> HIDE DEF file, other, p, text
  <2>10. CASE AtLine(file, p) /\ p + 1 \in LineStarts(file)
    <3>1. \E m : Among(L, M, m, text) BY <2>6, <2>10, AmongPut
    <3> HIDE DEF L, M
    <3>2. Times(L[k], M) = Times(L[k], L) BY <3>1, <2>9, AmongTimes
    <3> QED BY <3>2, <2>3 DEF L, M, file, other
  <2>11. CASE p = Len(file) /\ StopsAt(file, p)
    <3>1. M = L BY ONLY <2>6, <2>11, LinesBehindStop
    <3> HIDE DEF L, M
    <3> QED BY <3>1, <2>3 DEF L, M, file, other
  <2> QED BY <2>8, <2>10, <2>11
<1>2. Control /\ Hunt /\ [ImportNext]_allVars => [Done]_files BY <1>1
<1> QED BY <1>2, HuntAlways, PTL DEF ImportSpec, AloneIsNotDoubled
=============================================================================
