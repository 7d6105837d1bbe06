---------------------------- MODULE ServerPages ----------------------------
(***************************************************************************)
(* Proof that a page of a table holds the rows it should (PageIsRight, for *)
(* tables/data).  The SELECT of a request is the one that asks for what it *)
(* asks for (SuitInv) and its result is what the database has for it       *)
(* (ResultInv).  The rest is about values: the terms of its WHERE, added   *)
(* and multiplied in three values, keep the rows that a run of conditions  *)
(* between two ORs holds of (ClauseKeeps); its ORDER BY ranks two rows as  *)
(* the type of their sort column does (SortRankIs), so that the rows that  *)
(* are kept stand in the list where their ranks put them (OrderedIs); and  *)
(* LIMIT and OFFSET cut the page out of that list (PageShows).             *)
(*                                                                         *)
(* And that the columns of a page, or of a join, tell of the keys they are *)
(* in (KeysAreTold), where the role is told of them (KeysInSight).  What   *)
(* the statements on keys find is what the catalogue has (KeysRight); the  *)
(* results of an undisturbed request are of its database (KeysInv); and a  *)
(* SELECT exists only once its tables are described and the plan of its    *)
(* join stands, which neither goes back on (PlanInv).                      *)
(***************************************************************************)
EXTENDS ServerVerdicts, SequenceTheorems

(* Places in a strict order R of a finite set.                             *)
Under(S, R, x) == {y \in S : <<y, x>> \in R}
Strict(S, R) ==
    /\ \A x \in S : <<x, x>> \notin R
    /\ \A x, y, z \in S : <<x, y>> \in R /\ <<y, z>> \in R => <<x, z>> \in R
    /\ \A x, y \in S : x # y => <<x, y>> \in R \/ <<y, x>> \in R

LEMMA PlacesUnder ==
    ASSUME NEW S, IsFiniteSet(S), NEW R, Strict(S, R)
    PROVE  /\ Cardinality(S) \in Nat
           /\ \A x \in S : /\ IsFiniteSet(Under(S, R, x)) /\ Cardinality(Under(S, R, x)) \in Nat
                           /\ Cardinality(Under(S, R, x)) < Cardinality(S)
           /\ \A x, y \in S : <<x, y>> \in R =>
                Cardinality(Under(S, R, x)) < Cardinality(Under(S, R, y))
           /\ \A i \in 1..Cardinality(S) : \E x \in S : Cardinality(Under(S, R, x)) = i - 1
<1> DEFINE n == Cardinality(S)
<1>1. n \in Nat
  BY FS_CardinalityType
<1>2. ASSUME NEW x \in S
      PROVE  /\ IsFiniteSet(Under(S, R, x)) /\ Cardinality(Under(S, R, x)) \in Nat
             /\ Cardinality(Under(S, R, x)) < n
  <2>1. Under(S, R, x) \in SUBSET S /\ x \notin Under(S, R, x)
    BY DEF Under, Strict
  <2>2. /\ IsFiniteSet(Under(S, R, x)) /\ Cardinality(Under(S, R, x)) <= n
        /\ Cardinality(Under(S, R, x)) # n
    BY <2>1, FS_Subset
  <2> QED BY <1>1, <2>2, FS_CardinalityType
<1>3. ASSUME NEW x \in S, NEW y \in S, <<x, y>> \in R
      PROVE  Cardinality(Under(S, R, x)) < Cardinality(Under(S, R, y))
  <2>1. Under(S, R, x) \in SUBSET Under(S, R, y) /\ x \in Under(S, R, y) /\ x \notin Under(S, R, x)
    BY <1>3 DEF Under, Strict
  <2>2. /\ Cardinality(Under(S, R, x)) <= Cardinality(Under(S, R, y))
        /\ Cardinality(Under(S, R, x)) # Cardinality(Under(S, R, y))
    BY <1>2, <2>1, FS_Subset
  <2> QED BY <1>2, <2>2
<1> DEFINE c == [x \in S |-> Cardinality(Under(S, R, x)) + 1]
<1>4. c \in [S -> 1..n]
  BY <1>1, <1>2
<1>5. \A x, y \in S : c[x] = c[y] => x = y
  <2> SUFFICES ASSUME NEW x \in S, NEW y \in S, c[x] = c[y] PROVE x = y
    OBVIOUS
  <2>1. Cardinality(Under(S, R, x)) = Cardinality(Under(S, R, y))
    BY <1>2
  <2>2. <<x, y>> \notin R /\ <<y, x>> \notin R
    BY <1>2, <1>3, <2>1
  <2> QED BY <2>2 DEF Strict
<1> HIDE DEF c
<1>6. c \in Injection(S, 1..n)
  BY <1>4, <1>5 DEF Injection, IsInjective
<1>7. IsFiniteSet(1..n) /\ Cardinality(1..n) = n
  BY <1>1, FS_Interval
<1>8. c \in Surjection(S, 1..n)
  BY <1>6, <1>7, FS_Injection
<1>9. ASSUME NEW i \in 1..n PROVE \E x \in S : Cardinality(Under(S, R, x)) = i - 1
  <2>1. PICK x \in S : c[x] = i
    BY <1>4, <1>8 DEF Surjection
  <2>2. Cardinality(Under(S, R, x)) + 1 = i
    BY <2>1 DEF c
  <2> QED BY <1>2, <2>2
<1> QED BY <1>1, <1>2, <1>3, <1>9

Fewer(S, r, x) == {y \in S : r[y] < r[x]}
Further(S, r, x) == {y \in S : r[x] < r[y]}

(* A sequence by places has each element once; and where R goes by a rank, *)
(* few rank below an element that is early, and few above a late one.      *)
LEMMA PlacesList ==
    ASSUME NEW S, IsFiniteSet(S), NEW R, Strict(S, R),
           NEW L, DOMAIN L = 1..Cardinality(S),
           \A i \in DOMAIN L : L[i] \in S /\ Cardinality(Under(S, R, L[i])) = i - 1,
           NEW r \in [S -> Int], \A x, y \in S : <<x, y>> \in R => r[x] <= r[y]
    PROVE  /\ \A x \in S : \E i \in DOMAIN L : L[i] = x
           /\ \A i, j \in DOMAIN L : L[i] = L[j] => i = j
           /\ \A i \in DOMAIN L :
                /\ Cardinality(Fewer(S, r, L[i])) \in 0..(i - 1)
                /\ Cardinality(Further(S, r, L[i])) \in 0..(Cardinality(S) - i)
<1> DEFINE n == Cardinality(S)
<1>0. /\ n \in Nat
      /\ \A x \in S : /\ IsFiniteSet(Under(S, R, x)) /\ Cardinality(Under(S, R, x)) \in Nat
                      /\ Cardinality(Under(S, R, x)) < n
      /\ \A x, y \in S : <<x, y>> \in R =>
            Cardinality(Under(S, R, x)) < Cardinality(Under(S, R, y))
  BY PlacesUnder
<1>1. ASSUME NEW x \in S PROVE \E i \in DOMAIN L : L[i] = x
  <2>1. PICK k \in 1..n : k - 1 = Cardinality(Under(S, R, x))
    <3>1. Cardinality(Under(S, R, x)) + 1 \in 1..n
      BY <1>0
    <3>2. (Cardinality(Under(S, R, x)) + 1) - 1 = Cardinality(Under(S, R, x))
      BY <1>0
    <3> QED BY <3>1, <3>2
  <2>2. L[k] \in S /\ Cardinality(Under(S, R, L[k])) = Cardinality(Under(S, R, x))
    BY <2>1
  <2>3. <<L[k], x>> \notin R /\ <<x, L[k]>> \notin R
    BY <1>0, <2>2
  <2> QED BY <2>2, <2>3 DEF Strict
<1>2. ASSUME NEW i \in DOMAIN L, NEW j \in DOMAIN L, L[i] = L[j] PROVE i = j
  <2>1. i - 1 = j - 1
    BY <1>2
  <2> QED BY <1>0, <2>1
<1>3. ASSUME NEW i \in DOMAIN L
      PROVE  /\ Cardinality(Fewer(S, r, L[i])) \in 0..(i - 1)
             /\ Cardinality(Further(S, r, L[i])) \in 0..(n - i)
  <2> DEFINE under == Under(S, R, L[i])
             below == {x \in S : r[x] < r[L[i]]}
             above == {x \in S : r[L[i]] < r[x]}
  <2>1. i \in 1..n /\ L[i] \in S /\ Cardinality(under) = i - 1 /\ IsFiniteSet(under)
    BY <1>0
  <2>2. below \subseteq under
    <3> SUFFICES ASSUME NEW x \in S, r[x] < r[L[i]] PROVE <<x, L[i]>> \in R
      BY DEF Under
    <3>1. <<L[i], x>> \notin R /\ x # L[i]
      BY <2>1
    <3> QED BY <2>1, <3>1 DEF Strict
  <2>3. above \cap under = {} /\ L[i] \notin above \cup under
    <3>1. \A x \in under : r[x] <= r[L[i]]
      BY <2>1 DEF Under
    <3>2. L[i] \notin under
      BY <2>1 DEF Under, Strict
    <3> QED BY <2>1, <3>1, <3>2 DEF Under
  <2>4. above \subseteq (S \ under) \ {L[i]} /\ under \subseteq S /\ L[i] \in S \ under
    BY <2>1, <2>3 DEF Under
  <2> HIDE DEF below, above, under
  <2>5. IsFiniteSet(below) /\ Cardinality(below) \in Nat /\ Cardinality(below) <= i - 1
    BY <2>1, <2>2, FS_Subset, FS_CardinalityType
  <2>6. IsFiniteSet(S \ under) /\ Cardinality(S \ under) = n - (i - 1)
    <3>1. S \cap under = under
      BY <2>4
    <3>2. IsFiniteSet(S \ under) /\ Cardinality(S \ under) = n - Cardinality(S \cap under)
      BY <2>1, FS_Difference
    <3> QED BY <2>1, <3>1, <3>2
  <2>7. /\ IsFiniteSet((S \ under) \ {L[i]})
        /\ Cardinality((S \ under) \ {L[i]}) = (n - (i - 1)) - 1
    BY <2>4, <2>6, FS_RemoveElement
  <2>8. IsFiniteSet(above) /\ Cardinality(above) \in Nat /\ Cardinality(above) <= n - i
    <3>1. /\ IsFiniteSet(above) /\ Cardinality(above) \in Nat
          /\ Cardinality(above) <= Cardinality((S \ under) \ {L[i]})
      BY <2>4, <2>7, FS_Subset, FS_CardinalityType
    <3>2. (n - (i - 1)) - 1 = n - i
      BY <1>0, <2>1
    <3> QED BY <2>7, <3>1, <3>2
  <2>9. Cardinality(below) \in 0..(i - 1) /\ Cardinality(above) \in 0..(n - i)
    BY <1>0, <2>1, <2>5, <2>8
  <2> QED BY <2>9 DEF below, above, Fewer, Further
<1> QED BY <1>1, <1>2, <1>3

-----------------------------------------------------------------------------
(* Three values: a sum of products, as where_clause strings its terms.     *)
LEMMA MaxOfTwo ==
    ASSUME NEW a \in Int, NEW b \in Int
    PROVE  /\ Max({a, b}) = IF a <= b THEN b ELSE a
           /\ Min({a, b}) = IF a <= b THEN a ELSE b
<1>1. \E x \in {a, b} : \A y \in {a, b} : x >= y
  BY a <= b \/ b <= a
<1>2. Max({a, b}) \in {a, b} /\ \A y \in {a, b} : Max({a, b}) >= y
  BY <1>1 DEF Max
<1>3. \E x \in {a, b} : \A y \in {a, b} : x <= y
  BY a <= b \/ b <= a
<1>4. Min({a, b}) \in {a, b} /\ \A y \in {a, b} : Min({a, b}) <= y
  BY <1>3 DEF Min
<1> HIDE DEF Max, Min
<1> QED BY <1>2, <1>4

(* The terms from the last OR up to e, and whether all of them are true.   *)
RunTo(ors, e) == {j \in 1..e : \A l \in (j + 1)..e : l \notin ors}
AllTo(t, ors, e) == \A j \in RunTo(ors, e) : t[j] = Yes

(* The run up to the next term: that term alone after an OR.               *)
LEMMA RunNext ==
    ASSUME NEW n \in Nat, NEW t, NEW ors, NEW k \in 1..n
    PROVE  AllTo(t, ors, k) <=> t[k] = Yes /\ (k \notin ors => AllTo(t, ors, k - 1))
<1>1. k \in RunTo(ors, k)
  BY DEF RunTo
<1>2. CASE k \in ors
  <2>1. RunTo(ors, k) = {k}
    <3> SUFFICES ASSUME NEW j \in RunTo(ors, k) PROVE j = k
      BY <1>1
    <3>1. j \in 1..k /\ (j < k => k \in (j + 1)..k)
      BY DEF RunTo
    <3> QED BY <1>2, <3>1 DEF RunTo
  <2> QED BY <1>2, <2>1 DEF AllTo
<1>3. CASE k \notin ors
  <2>1. ASSUME NEW j \in RunTo(ors, k), j # k PROVE j \in RunTo(ors, k - 1)
    <3>1. j \in 1..(k - 1) /\ \A l \in (j + 1)..(k - 1) : l \in (j + 1)..k
      BY <2>1 DEF RunTo
    <3> QED BY <3>1 DEF RunTo
  <2>2. ASSUME NEW j \in RunTo(ors, k - 1) PROVE j \in RunTo(ors, k)
    <3>1. j \in 1..k /\ \A l \in (j + 1)..k : l = k \/ l \in (j + 1)..(k - 1)
      BY DEF RunTo
    <3> QED BY <1>3, <3>1 DEF RunTo
  <2> QED BY <1>1, <1>3, <2>1, <2>2 DEF AllTo
<1> QED BY <1>2, <1>3

(* The sum and the product so far.                                         *)
Sums(n, t, ors, sum, product) ==
    /\ sum[0] = No /\ product[0] = Yes
    /\ \A k \in 1..n :
        /\ sum[k] = IF k \in ors THEN Max({sum[k - 1], product[k - 1]}) ELSE sum[k - 1]
        /\ product[k] = IF k \in ors THEN t[k] ELSE Min({product[k - 1], t[k]})
(* What they are: a run is true, and the run that is under way.            *)
LEMMA SumsSoFar ==
    ASSUME NEW n \in Nat, NEW t \in [1..n -> {No, Unknown, Yes}], NEW ors, 1 \notin ors,
           NEW sum, NEW product, Sums(n, t, ors, sum, product)
    PROVE  \A k \in 0..n :
            /\ sum[k] \in {No, Unknown, Yes} /\ product[k] \in {No, Unknown, Yes}
            /\ product[k] = Yes <=> AllTo(t, ors, k)
            /\ sum[k] = Yes <=> \E e \in 1..(k - 1) : e + 1 \in ors /\ AllTo(t, ors, e)
<1>0. /\ sum[0] = No /\ product[0] = Yes
      /\ \A k \in 1..n :
            /\ sum[k] = IF k \in ors THEN Max({sum[k - 1], product[k - 1]}) ELSE sum[k - 1]
            /\ product[k] = IF k \in ors THEN t[k] ELSE Min({product[k - 1], t[k]})
  BY DEF Sums
<1> DEFINE Right(k) ==
            /\ sum[k] \in {No, Unknown, Yes} /\ product[k] \in {No, Unknown, Yes}
            /\ product[k] = Yes <=> AllTo(t, ors, k)
            /\ sum[k] = Yes <=> \E e \in 1..(k - 1) : e + 1 \in ors /\ AllTo(t, ors, e)
           T == {k \in 0..n : ~Right(k)}
<1> SUFFICES ASSUME T # {} PROVE FALSE
  OBVIOUS
<1>1. PICK k \in T : \A j \in T : k <= j
  <2>1. T \subseteq Nat
    OBVIOUS
  <2> HIDE DEF T
  <2> QED BY <2>1, LeastOf
<1>2. k \in 0..n /\ ~Right(k)
  BY <1>1
<1>3. CASE k = 0
  <2>1. RunTo(ors, 0) = {} /\ 1..(0 - 1) = {}
    BY DEF RunTo
  <2>2. Right(0)
    BY <1>0, <2>1 DEF AllTo, No, Unknown, Yes
  <2> HIDE DEF Right
  <2> QED BY <1>2, <1>3, <2>2
<1>4. CASE k # 0
  <2>1. k - 1 \in 0..n /\ k - 1 \notin T /\ k \in 1..n
    BY <1>1, <1>4
  <2>2. Right(k - 1)
    BY <2>1
  <2> HIDE DEF T
  <2>3. sum[k - 1] \in Int /\ product[k - 1] \in Int /\ t[k] \in Int /\ t[k] \in {No, Unknown, Yes}
    BY <2>1, <2>2 DEF No, Unknown, Yes
  <2>4. AllTo(t, ors, k) <=> t[k] = Yes /\ (k \notin ors => AllTo(t, ors, k - 1))
    BY <2>1, RunNext
  <2>5. CASE k \in ors
    <3>1. k - 1 \in 1..(k - 1) /\ (k - 1) + 1 = k
      BY <2>1, <2>5
    <3>2. sum[k] = (IF sum[k - 1] <= product[k - 1] THEN product[k - 1] ELSE sum[k - 1])
          /\ product[k] = t[k]
      BY <1>0, <2>1, <2>3, <2>5, MaxOfTwo
    <3>3. sum[k] = Yes <=> sum[k - 1] = Yes \/ product[k - 1] = Yes
      BY <2>2, <3>2 DEF No, Unknown, Yes
    <3>4. (\E e \in 1..(k - 1) : e + 1 \in ors /\ AllTo(t, ors, e))
            <=> (\E e \in 1..((k - 1) - 1) : e + 1 \in ors /\ AllTo(t, ors, e)) \/ AllTo(t, ors, k - 1)
      <4>1. \A e : e \in 1..(k - 1) <=> e \in 1..((k - 1) - 1) \/ e = k - 1
        BY <2>1, <3>1
      <4> QED BY <2>5, <3>1, <4>1
    <3>5. Right(k)
      BY <2>2, <2>3, <2>4, <2>5, <3>2, <3>3, <3>4
    <3> HIDE DEF Right
    <3> QED BY <1>2, <3>5
  <2>6. CASE k \notin ors
    <3>2. sum[k] = sum[k - 1]
          /\ product[k] = IF product[k - 1] <= t[k] THEN product[k - 1] ELSE t[k]
      BY <1>0, <2>1, <2>3, <2>6, MaxOfTwo
    <3>3. product[k] = Yes <=> t[k] = Yes /\ product[k - 1] = Yes
      BY <2>2, <2>3, <3>2 DEF No, Unknown, Yes
    <3>4. (\E e \in 1..(k - 1) : e + 1 \in ors /\ AllTo(t, ors, e))
            <=> (\E e \in 1..((k - 1) - 1) : e + 1 \in ors /\ AllTo(t, ors, e))
      <4>1. \A e : e \in 1..(k - 1) => e \in 1..((k - 1) - 1) \/ e + 1 = k
        BY <2>1
      <4>2. \A e : e \in 1..((k - 1) - 1) => e \in 1..(k - 1)
        BY <2>1
      <4> QED BY <2>6, <4>1, <4>2
    <3>5. product[k] \in {No, Unknown, Yes}
      BY <2>2, <2>3, <3>2
    <3>6. Right(k)
      BY <2>2, <2>4, <2>6, <3>2, <3>3, <3>4, <3>5
    <3> HIDE DEF Right
    <3> QED BY <1>2, <3>6
  <2> QED BY <2>5, <2>6
<1> QED BY <1>3, <1>4

(* A run that begins with an OR, or first, is one that ends before an OR,  *)
(* or last.                                                                *)
RunFrom(ors, n, i) == {j \in i..n : \A k \in (i + 1)..j : k \notin ors}
LEMMA RunsMeet ==
    ASSUME NEW n \in Nat \ {0}, NEW ors, 1 \notin ors, NEW t
    PROVE  (\E i \in 1..n : (i = 1 \/ i \in ors) /\ \A j \in RunFrom(ors, n, i) : t[j] = Yes)
            <=> AllTo(t, ors, n) \/ \E e \in 1..(n - 1) : e + 1 \in ors /\ AllTo(t, ors, e)
<1>1. ASSUME NEW i \in 1..n, i = 1 \/ i \in ors, \A j \in RunFrom(ors, n, i) : t[j] = Yes
      PROVE  AllTo(t, ors, n) \/ \E e \in 1..(n - 1) : e + 1 \in ors /\ AllTo(t, ors, e)
  <2>1. ASSUME NEW e \in i..n, \A k \in (i + 1)..e : k \notin ors
        PROVE  AllTo(t, ors, e)
    <3> SUFFICES ASSUME NEW j \in RunTo(ors, e) PROVE t[j] = Yes
      BY DEF AllTo
    <3>1. j \in 1..e /\ \A l \in (j + 1)..e : l \notin ors
      BY DEF RunTo
    <3>2. j >= i
      <4> SUFFICES ASSUME j < i PROVE FALSE
        BY <3>1
      <4>1. i \in (j + 1)..e /\ i # 1
        BY <2>1, <3>1
      <4> QED BY <1>1, <3>1, <4>1
    <3>3. j \in i..n /\ \A k \in (i + 1)..j : k \in (i + 1)..e
      BY <3>1, <3>2
    <3>4. j \in RunFrom(ors, n, i)
      BY <2>1, <3>3 DEF RunFrom
    <3> QED BY <1>1, <3>4
  <2> DEFINE later == {k \in (i + 1)..n : k \in ors}
  <2>2. CASE later = {}
    <3>1. AllTo(t, ors, n)
      BY <2>1, <2>2
    <3> QED BY <3>1
  <2>3. CASE later # {}
    <3>0. later \subseteq Nat
      OBVIOUS
    <3> HIDE DEF later
    <3>1. PICK m \in later : \A k \in later : m <= k
      BY <2>3, <3>0, LeastOf
    <3>2. m \in (i + 1)..n /\ m \in ors
      BY DEF later
    <3>3. m - 1 \in i..n /\ m - 1 \in 1..(n - 1) /\ (m - 1) + 1 = m
      BY <3>2
    <3>4. \A k \in (i + 1)..(m - 1) : k \notin ors
      <4> SUFFICES ASSUME NEW k \in (i + 1)..(m - 1), k \in ors PROVE FALSE
        OBVIOUS
      <4>1. k \in later /\ k < m
        BY <3>2 DEF later
      <4> QED BY <3>1, <3>2, <4>1
    <3>5. AllTo(t, ors, m - 1)
      BY <2>1, <3>3, <3>4
    <3> QED BY <3>2, <3>3, <3>5
  <2> QED BY <2>2, <2>3
<1>2. ASSUME NEW e \in 1..n, e = n \/ e + 1 \in ors, AllTo(t, ors, e)
      PROVE  \E i \in 1..n : (i = 1 \/ i \in ors) /\ \A j \in RunFrom(ors, n, i) : t[j] = Yes
  <2> DEFINE sooner == {i \in 1..e : i = 1 \/ i \in ors}
  <2>1. PICK i \in sooner : \A k \in sooner : k <= i
    <3>1. 1 \in sooner /\ sooner \subseteq 1..e /\ sooner # {} /\ e \in Nat
      OBVIOUS
    <3> HIDE DEF sooner
    <3>2. Max(sooner) \in sooner /\ \A k \in sooner : k <= Max(sooner)
      BY <3>1, LastOf
    <3> QED BY <3>2
  <2>2. i \in 1..e /\ (i = 1 \/ i \in ors)
    OBVIOUS
  <2>3. ASSUME NEW j \in RunFrom(ors, n, i) PROVE t[j] = Yes
    <3>1. j \in i..n /\ \A k \in (i + 1)..j : k \notin ors
      BY DEF RunFrom
    <3>2. j \in 1..e
      <4> SUFFICES ASSUME j > e PROVE FALSE
        BY <2>2, <3>1
      <4>1. e # n /\ e + 1 \in (i + 1)..j
        BY <2>2, <3>1
      <4> QED BY <1>2, <3>1, <4>1
    <3>3. \A l \in (j + 1)..e : l \notin ors
      <4> SUFFICES ASSUME NEW l \in (j + 1)..e, l \in ors PROVE FALSE
        OBVIOUS
      <4>1. l \in sooner /\ l > i
        BY <2>2, <3>1
      <4> QED BY <2>1, <2>2, <4>1
    <3>4. j \in RunTo(ors, e)
      BY <3>2, <3>3 DEF RunTo
    <3> QED BY <1>2, <3>4 DEF AllTo
  <2> HIDE DEF sooner
  <2> QED BY <2>2, <2>3
<1>3. n \in 1..n /\ \A e \in 1..(n - 1) : e \in 1..n
  OBVIOUS
<1> QED BY <1>1, <1>2, <1>3

-----------------------------------------------------------------------------
(* The fold of ClauseTruth, as its library definition unfolds.             *)
TruthAt(d, where, env, i) ==
    LET v == TermTruth(d, Shown(env, where[i].column), where[i])
    IN IF where[i].not THEN 2 - v ELSE v
AddTerm(d, where, env, acc, i) ==
    IF where[i].logic = "OR"
    THEN [sum |-> Max({acc.sum, acc.product}), product |-> TruthAt(d, where, env, i)]
    ELSE [acc EXCEPT !.product = Min({@, TruthAt(d, where, env, i)})]
Nothing == [sum |-> No, product |-> Yes]
Places(where) == [i \in DOMAIN where |-> i]
Adds(d, where, env, f) ==
    f = [s \in SUBSET DOMAIN Places(where) |->
            IF s = {} THEN Nothing
            ELSE AddTerm(d, where, env, f[s \ {Max(s)}], Places(where)[Max(s)])]

LEMMA ClauseFolds ==
    ASSUME NEW d, NEW where, NEW env
    PROVE  LET f == CHOOSE f : Adds(d, where, env, f)
               end == f[DOMAIN Places(where)]
           IN ClauseTruth(d, where, env) = IF where = <<>> THEN Yes ELSE Max({end.sum, end.product})
BY DEF ClauseTruth, FoldLeft, MapThenFoldSet, Adds, AddTerm, TruthAt, Places, Nothing
AddsTo(d, where, env, m, f) ==
    f = [s \in SUBSET (1..m) |->
            IF s = {} THEN Nothing ELSE AddTerm(d, where, env, f[s \ {Max(s)}], Max(s))]
(* There is one such function, and so it is the one that is chosen.        *)
LEMMA AddsExists ==
    ASSUME NEW d, NEW where, NEW env, NEW n \in Nat
    PROVE  \E f : AddsTo(d, where, env, n, f)
<1> DEFINE T == {m \in 0..n : ~ \E f : AddsTo(d, where, env, m, f)}
<1> SUFFICES ASSUME T # {} PROVE FALSE
  OBVIOUS
<1>1. PICK m \in T : \A k \in T : m <= k
  <2>1. T \subseteq Nat
    OBVIOUS
  <2> HIDE DEF T
  <2> QED BY <2>1, LeastOf
<1>2. ~ \E f : AddsTo(d, where, env, m, f)
  BY <1>1
<1>3. CASE m = 0
  <2>1. SUBSET (1..0) = {{}}
    OBVIOUS
  <2>2. AddsTo(d, where, env, 0, [s \in SUBSET (1..0) |-> Nothing])
    BY <2>1 DEF AddsTo
  <2> QED BY <1>2, <1>3, <2>2
<1>4. CASE m # 0
  <2>1. m - 1 \in 0..n /\ m - 1 \notin T /\ m \in Nat
    BY <1>1, <1>4
  <2>2. PICK g : AddsTo(d, where, env, m - 1, g)
    BY <2>1
  <2> HIDE DEF T
  <2> DEFINE f == [s \in SUBSET (1..m) |->
                    IF m \in s THEN AddTerm(d, where, env, g[s \ {m}], m) ELSE g[s]]
  <2>3. \A s \in SUBSET (1..(m - 1)) :
            g[s] = IF s = {} THEN Nothing ELSE AddTerm(d, where, env, g[s \ {Max(s)}], Max(s))
    BY <2>2 DEF AddsTo
  <2>4. ASSUME NEW s \in SUBSET (1..m)
        PROVE  f[s] = IF s = {} THEN Nothing ELSE AddTerm(d, where, env, f[s \ {Max(s)}], Max(s))
    <3>1. CASE m \in s
      <4>1. m = Max(s)
        <5>1. \A i \in s : i <= m
          BY <2>1
        <5> QED BY <2>1, <3>1, <5>1, LastOf
      <4>2. s \ {m} \in SUBSET (1..m) /\ m \notin s \ {m}
        OBVIOUS
      <4>3. f[s \ {m}] = g[s \ {m}]
        BY <4>2
      <4> QED BY <3>1, <4>1, <4>3
    <3>2. CASE m \notin s
      <4>1. s \in SUBSET (1..(m - 1))
        BY <2>1, <3>2
      <4>2. f[s] = g[s]
        BY <3>2
      <4>3. CASE s = {}
        BY <2>3, <4>1, <4>2, <4>3
      <4>4. CASE s # {}
        <5>1. s \ {Max(s)} \in SUBSET (1..m) /\ m \notin s \ {Max(s)}
          BY <3>2
        <5>2. f[s \ {Max(s)}] = g[s \ {Max(s)}]
          BY <5>1
        <5> QED BY <2>3, <4>1, <4>2, <4>4, <5>2
      <4> QED BY <4>3, <4>4
    <3> QED BY <3>1, <3>2
  <2>5. f = [s \in SUBSET (1..m) |-> f[s]]
    OBVIOUS
  <2> HIDE DEF f
  <2>6. AddsTo(d, where, env, m, f)
    BY <2>4, <2>5 DEF AddsTo
  <2> QED BY <1>2, <2>6
<1> QED BY <1>3, <1>4

LEMMA FoldAdds ==
    ASSUME NEW d, NEW where, NEW env, NEW n \in Nat, DOMAIN where = 1..n
    PROVE  AddsTo(d, where, env, n, CHOOSE f : Adds(d, where, env, f))
<1>1. DOMAIN Places(where) = 1..n /\ \A i \in 1..n : Places(where)[i] = i
  BY DEF Places
<1>2. \A s \in SUBSET (1..n) : s # {} => Max(s) \in 1..n
  BY LastOf
<1>3. PICK f : AddsTo(d, where, env, n, f)
  BY AddsExists
<1>4. \A s \in SUBSET DOMAIN Places(where) :
        f[s] = IF s = {} THEN Nothing
               ELSE AddTerm(d, where, env, f[s \ {Max(s)}], Places(where)[Max(s)])
  BY <1>1, <1>2, <1>3 DEF AddsTo
<1>5. f = [s \in SUBSET DOMAIN Places(where) |-> f[s]]
  BY <1>1, <1>3 DEF AddsTo
<1>6. Adds(d, where, env, f)
  BY <1>4, <1>5 DEF Adds
<1>7. PICK g : g = CHOOSE h : Adds(d, where, env, h)
  OBVIOUS
<1>8. Adds(d, where, env, g)
  BY <1>6, <1>7
<1>9. \A s \in SUBSET (1..n) :
        g[s] = IF s = {} THEN Nothing ELSE AddTerm(d, where, env, g[s \ {Max(s)}], Max(s))
  <2>1. \A s \in SUBSET (1..n) :
            g[s] = IF s = {} THEN Nothing
                   ELSE AddTerm(d, where, env, g[s \ {Max(s)}], Places(where)[Max(s)])
    BY <1>1, <1>8 DEF Adds
  <2> QED BY <1>1, <1>2, <2>1
<1>10. g = [s \in SUBSET (1..n) |-> g[s]]
  BY <1>1, <1>8 DEF Adds
<1>11. AddsTo(d, where, env, n, g)
  BY <1>9, <1>10 DEF AddsTo
<1> QED BY <1>7, <1>11

(* A clause is true when a run of its terms between two ORs is.            *)
Ors(where) == {k \in DOMAIN where : where[k].logic = "OR"}
LEMMA ClauseIs ==
    ASSUME NEW d, NEW where, NEW env, NEW n \in Nat \ {0}, where # <<>>, DOMAIN where = 1..n,
           1 \notin Ors(where),
           \A i \in 1..n : TruthAt(d, where, env, i) \in {No, Unknown, Yes}
    PROVE  ClauseTruth(d, where, env) = Yes
            <=> \E i \in 1..n : /\ i = 1 \/ i \in Ors(where)
                                /\ \A j \in RunFrom(Ors(where), n, i) : TruthAt(d, where, env, j) = Yes
<1> DEFINE ors == Ors(where)
           t == [i \in 1..n |-> TruthAt(d, where, env, i)]
           f == CHOOSE f : Adds(d, where, env, f)
           sum == [k \in 0..n |-> f[1..k].sum]
           product == [k \in 0..n |-> f[1..k].product]
<1>1. AddsTo(d, where, env, n, f)
  BY FoldAdds
<1>2. DOMAIN Places(where) = 1..n /\ \A i \in 1..n : Places(where)[i] = i
  BY DEF Places
<1>3. ClauseTruth(d, where, env) = Max({f[1..n].sum, f[1..n].product})
  BY <1>2, ClauseFolds
<1> HIDE DEF f
<1>4. f[1..0] = Nothing
  <2>1. 1..0 = {} /\ {} \in SUBSET (1..n)
    OBVIOUS
  <2> QED BY <1>1, <2>1 DEF AddsTo
<1>5. ASSUME NEW k \in 1..n
      PROVE  f[1..k] = AddTerm(d, where, env, f[1..(k - 1)], k)
  <2>1. 1..k \in SUBSET (1..n) /\ 1..k # {} /\ (1..k) \ {k} = 1..(k - 1)
    OBVIOUS
  <2>2. Max(1..k) = k
    <3>1. k \in 1..k /\ \A i \in 1..k : i <= k
      OBVIOUS
    <3> QED BY <2>1, <3>1, LastOf
  <2> QED BY <1>1, <2>1, <2>2 DEF AddsTo
<1>6. sum[0] = No /\ product[0] = Yes
  BY <1>4 DEF Nothing
<1>7. \A k \in 1..n : t[k] = TruthAt(d, where, env, k)
  OBVIOUS
<1>8. t \in [1..n -> {No, Unknown, Yes}]
  OBVIOUS
<1>9. ASSUME NEW k \in 0..n PROVE \E a, b : f[1..k] = [sum |-> a, product |-> b]
  <2> DEFINE T == {m \in 0..n : ~\E a, b : f[1..m] = [sum |-> a, product |-> b]}
  <2> SUFFICES ASSUME T # {} PROVE FALSE
    OBVIOUS
  <2>1. PICK m \in T : \A j \in T : m <= j
    <3>1. T \subseteq Nat
      OBVIOUS
    <3> HIDE DEF T
    <3> QED BY <3>1, LeastOf
  <2>2. m # 0
    BY <1>4, <2>1 DEF Nothing
  <2>3. m - 1 \in 0..n /\ m - 1 \notin T /\ m \in 1..n
    <3>1. m \in 0..n /\ \A j \in T : m <= j
      BY <2>1
    <3> HIDE DEF T
    <3> QED BY <2>2, <3>1
  <2>4. PICK a, b : f[1..(m - 1)] = [sum |-> a, product |-> b]
    BY <2>3
  <2>5. \E x, y : f[1..m] = [sum |-> x, product |-> y]
    BY <1>5, <2>3, <2>4, ZenonT(40) DEF AddTerm
  <2> QED BY <2>1, <2>5
<1>10. ASSUME NEW k \in 1..n
       PROVE  /\ sum[k] = IF k \in ors THEN Max({sum[k - 1], product[k - 1]}) ELSE sum[k - 1]
              /\ product[k] = IF k \in ors THEN t[k] ELSE Min({product[k - 1], t[k]})
  <2>1. k - 1 \in 0..n /\ k \in 0..n /\ (k \in ors <=> where[k].logic = "OR")
    BY DEF Ors
  <2>2. PICK a, b : f[1..(k - 1)] = [sum |-> a, product |-> b]
    BY <1>9, <2>1
  <2>3. sum[k - 1] = a /\ product[k - 1] = b
    BY <2>1, <2>2
  <2>4. sum[k] = f[1..k].sum /\ product[k] = f[1..k].product
    BY <2>1
  <2> HIDE DEF sum, product, t, ors
  <2>5. f[1..k] = IF k \in ors THEN [sum |-> Max({a, b}), product |-> t[k]]
                  ELSE [sum |-> a, product |-> Min({b, t[k]})]
    BY <1>5, <1>7, <2>1, <2>2 DEF AddTerm
  <2> QED BY <2>3, <2>4, <2>5
<1>11. f[1..n].sum = sum[n] /\ f[1..n].product = product[n] /\ n \in 0..n
  OBVIOUS
<1> HIDE DEF sum, product, t, ors
<1>12. /\ sum[n] \in {No, Unknown, Yes} /\ product[n] \in {No, Unknown, Yes}
       /\ product[n] = Yes <=> AllTo(t, ors, n)
       /\ sum[n] = Yes <=> \E e \in 1..(n - 1) : e + 1 \in ors /\ AllTo(t, ors, e)
  <2>1. 1 \notin ors /\ n \in Nat
    BY DEF ors
  <2>2. \A k \in 0..n :
            /\ sum[k] \in {No, Unknown, Yes} /\ product[k] \in {No, Unknown, Yes}
            /\ product[k] = Yes <=> AllTo(t, ors, k)
            /\ sum[k] = Yes <=> \E e \in 1..(k - 1) : e + 1 \in ors /\ AllTo(t, ors, e)
    <3>1. Sums(n, t, ors, sum, product)
      BY <1>6, <1>10 DEF Sums
    <3> QED BY <1>8, <2>1, <3>1, SumsSoFar
  <2> QED BY <1>11, <2>2
<1>13. Max({sum[n], product[n]}) = Yes <=> sum[n] = Yes \/ product[n] = Yes
  <2>1. sum[n] \in Int /\ product[n] \in Int
    BY <1>12 DEF No, Unknown, Yes
  <2> QED BY <1>12, <2>1, MaxOfTwo DEF No, Unknown, Yes
<1>14. (\E i \in 1..n : (i = 1 \/ i \in ors) /\ \A j \in RunFrom(ors, n, i) : t[j] = Yes)
            <=> AllTo(t, ors, n) \/ \E e \in 1..(n - 1) : e + 1 \in ors /\ AllTo(t, ors, e)
  BY RunsMeet DEF ors
<1>15. \A i \in 1..n : \A j \in RunFrom(ors, n, i) : t[j] = TruthAt(d, where, env, j)
  BY <1>7 DEF RunFrom
<1> QED BY <1>3, <1>11, <1>12, <1>13, <1>14, <1>15 DEF ors

-----------------------------------------------------------------------------
(* A term of the statement is true where the condition it spells holds.    *)
Texts == ToSet(NameOrder)
WellPosed(c) ==
    /\ c.op \in Operators /\ c.not \in BOOLEAN
    /\ c.value \in Texts \cup {None} /\ (TakesValue(c.op) <=> c.value # None)

(* Comparisons are of ranks, of the folded text where the engine folds it. *)
LEMMA FoldedIs ==
    ASSUME NEW d, NEW v \in Texts
    PROVE  Key(d, v) \in Texts /\ Rank(Key(d, v)) \in Nat
                /\ (d.engine = "mysql" => Key(d, v) = Fold[v]) /\ (d.engine # "mysql" => Key(d, v) = v)
<1>1. Fold[v] \in Texts
  BY NamesAssumption DEF Texts
<1>2. Key(d, v) \in Texts
  BY <1>1 DEF Key
<1> QED BY <1>2, RankIs DEF Key, Texts

LEMMA BelowIs ==
    ASSUME NEW d, NEW v \in Texts, NEW w \in Texts
    PROVE  /\ Below(d, v, w) <=> Rank(Key(d, v)) < Rank(Key(d, w))
           /\ Equal(d, v, w) <=> Key(d, v) = Key(d, w)
BY DEF Below, Equal, Key, FoldedRank

LEMMA TermIs ==
    ASSUME HasEngine(db), NEW v \in Texts \cup {Null}, NEW c, WellPosed(c), NEW term,
           term.keyword = Keyword(c.op), term.value = c.value
    PROVE  /\ TermTruth(db, v, term) \in {No, Unknown, Yes}
           /\ TermTruth(db, v, term) = Unknown <=> v = Null /\ TakesValue(c.op)
           /\ TermTruth(db, v, term) # Unknown => (TermTruth(db, v, term) = Yes <=> Meets(db, v, c))
<1>1. \A b \in BOOLEAN : Truth(b) \in {No, Yes} /\ (Truth(b) = Yes <=> b) /\ Truth(b) # Unknown
  BY DEF Truth, No, Yes, Unknown
<1>2. Null \notin Texts
  BY RowsAssumption DEF Texts
<1>3. db.engine \in {"postgres", "mysql", "sqlite"}
  BY DEF HasEngine
<1>4. Keyword(c.op) = IF c.op = "ILIKE" /\ Engine = "mysql" THEN "LOWER LIKE"
                      ELSE IF c.op = "ILIKE" /\ Engine = "sqlite" THEN "LIKE" ELSE c.op
  BY <1>3 DEF Keyword, By, Engine, Pg!Keyword, My!Keyword, Sq!Keyword
<1>5. CASE c.op = "IS NULL"
  <2>1. term.keyword = "IS NULL"
    BY <1>4, <1>5
  <2>2. TermTruth(db, v, term) = Truth(v = Null)
    BY <2>1 DEF TermTruth
  <2>3. TermTruth(db, v, term) = IF v = Null THEN Yes ELSE No
    BY <2>2 DEF Truth
  <2>4. IF v = Null THEN Meets(db, v, c) ELSE ~Meets(db, v, c)
    BY <1>5 DEF Meets
  <2>5. ~TakesValue(c.op)
    BY <1>5 DEF TakesValue
  <2> QED BY <2>3, <2>4, <2>5 DEF No, Yes, Unknown
<1>6. CASE c.op = "IS NOT NULL"
  <2>1. term.keyword = "IS NOT NULL"
    BY <1>4, <1>6
  <2>2. TermTruth(db, v, term) = Truth(v # Null)
    BY <2>1 DEF TermTruth
  <2>3. TermTruth(db, v, term) = IF v # Null THEN Yes ELSE No
    BY <2>2 DEF Truth
  <2>4. IF v # Null THEN Meets(db, v, c) ELSE ~Meets(db, v, c)
    BY <1>6 DEF Meets
  <2>5. ~TakesValue(c.op)
    BY <1>6 DEF TakesValue
  <2> QED BY <2>3, <2>4, <2>5 DEF No, Yes, Unknown
<1>7. CASE c.op \notin {"IS NULL", "IS NOT NULL"}
  <2> DEFINE p == c.value
             k == term.keyword
  <2>1. k # "IS NULL" /\ k # "IS NOT NULL" /\ TakesValue(c.op)
    BY <1>4, <1>7 DEF TakesValue
  <2>2. TermTruth(db, v, term) = IF v = Null THEN Unknown ELSE Truth(Compares(db, v, k, p))
    BY <2>1 DEF TermTruth
  <2>3. ASSUME v # Null PROVE Compares(db, v, k, p) <=> Meets(db, v, c)
    <3>1. v \in Texts /\ p \in Texts
      BY <2>1, <2>3 DEF WellPosed
    <3>2. /\ Rank(Key(db, v)) \in Nat /\ Rank(Key(db, p)) \in Nat
          /\ Below(db, v, p) <=> Rank(Key(db, v)) < Rank(Key(db, p))
          /\ Below(db, p, v) <=> Rank(Key(db, p)) < Rank(Key(db, v))
          /\ Equal(db, v, p) <=> Key(db, v) = Key(db, p)
      BY <3>1, FoldedIs, BelowIs
    <3>4. CASE c.op = "="
      <4>1. k = "="
        BY <1>4, <3>4
      <4>2. Compares(db, v, k, p) <=> Key(db, v) = Key(db, p)
        BY <4>1 DEF Compares
      <4>3. Meets(db, v, c) <=> Equal(db, v, p)
        BY <3>4 DEF Meets
      <4> QED BY <3>2, <4>2, <4>3
    <3>5. CASE c.op = "!="
      <4>1. k = "!="
        BY <1>4, <3>5
      <4>2. Compares(db, v, k, p) <=> Key(db, v) # Key(db, p)
        BY <4>1 DEF Compares
      <4>3. Meets(db, v, c) <=> ~Equal(db, v, p)
        BY <3>5 DEF Meets
      <4> QED BY <3>2, <4>2, <4>3
    <3>6. CASE c.op = "<"
      <4>1. k = "<"
        BY <1>4, <3>6
      <4>2. Compares(db, v, k, p) <=> Rank(Key(db, v)) < Rank(Key(db, p))
        BY <4>1 DEF Compares
      <4>3. Meets(db, v, c) <=> Below(db, v, p)
        BY <3>6 DEF Meets
      <4> QED BY <3>2, <4>2, <4>3
    <3>7. CASE c.op = ">"
      <4>1. k = ">"
        BY <1>4, <3>7
      <4>2. Compares(db, v, k, p) <=> Rank(Key(db, v)) > Rank(Key(db, p))
        BY <4>1 DEF Compares
      <4>3. Meets(db, v, c) <=> Below(db, p, v)
        BY <3>7 DEF Meets
      <4> QED BY <3>2, <4>2, <4>3
    <3>8. CASE c.op = "<="
      <4>1. k = "<="
        BY <1>4, <3>8
      <4>2. Compares(db, v, k, p) <=> Rank(Key(db, v)) <= Rank(Key(db, p))
        BY <4>1 DEF Compares
      <4>3. Meets(db, v, c) <=> ~Below(db, p, v)
        BY <3>8 DEF Meets
      <4> QED BY <3>2, <4>2, <4>3
    <3>9. CASE c.op = ">="
      <4>1. k = ">="
        BY <1>4, <3>9
      <4>2. Compares(db, v, k, p) <=> Rank(Key(db, v)) >= Rank(Key(db, p))
        BY <4>1 DEF Compares
      <4>3. Meets(db, v, c) <=> ~Below(db, v, p)
        BY <3>9 DEF Meets
      <4> QED BY <3>2, <4>2, <4>3
    <3>10. CASE c.op = "LIKE"
      <4>1. k = "LIKE"
        BY <1>4, <3>10
      <4>2. Compares(db, v, k, p) <=> Like(db.engine # "postgres", v, p)
        BY <4>1 DEF Compares
      <4>3. Meets(db, v, c) <=> Like(db.engine # "postgres", v, p)
        BY <3>10 DEF Meets
      <4> QED BY <3>2, <4>2, <4>3
    <3>11. CASE c.op = "ILIKE"
      <4>1. Compares(db, v, k, p) <=> Like(TRUE, v, p)
        <5>1. CASE Engine = "postgres"
          <6>1. k = "ILIKE"
            BY <1>4, <3>11, <5>1
          <6> QED BY <6>1 DEF Compares
        <5>2. CASE Engine = "mysql"
          <6>1. k = "LOWER LIKE"
            BY <1>4, <3>11, <5>2
          <6> QED BY <6>1 DEF Compares
        <5>3. CASE Engine = "sqlite"
          <6>1. k = "LIKE" /\ db.engine # "postgres"
            BY <1>4, <3>11, <5>3 DEF Engine
          <6>2. Compares(db, v, k, p) <=> Like(db.engine # "postgres", v, p)
            BY <6>1 DEF Compares
          <6> QED BY <6>1, <6>2 DEF Like
        <5> QED BY <1>3, <5>1, <5>2, <5>3 DEF Engine
      <4>2. Meets(db, v, c) <=> Like(TRUE, v, p)
        BY <3>11 DEF Meets
      <4> QED BY <4>1, <4>2
    <3> QED BY <1>7, <3>4, <3>5, <3>6, <3>7, <3>8, <3>9, <3>10, <3>11 DEF WellPosed, Operators
  <2>4. CASE v = Null
    BY <2>1, <2>2, <2>4 DEF No, Yes, Unknown
  <2>5. CASE v # Null
    <3>1. TermTruth(db, v, term) = IF Meets(db, v, c) THEN Yes ELSE No
      BY <2>2, <2>3, <2>5 DEF Truth
    <3> QED BY <2>5, <3>1 DEF No, Yes, Unknown
  <2> QED BY <2>4, <2>5
<1> QED BY <1>5, <1>6, <1>7

LEMMA MeetsIs == ASSUME NEW d, NEW v, NEW c, c.op \in Operators PROVE Meets(d, v, c) \in BOOLEAN
<1>1. ASSUME NEW w, NEW p PROVE Equal(d, w, p) \in BOOLEAN /\ Below(d, w, p) \in BOOLEAN
  <2>1. CASE d.engine = "mysql"
    <3>1. Equal(d, w, p) = (Fold[w] = Fold[p]) /\ Below(d, w, p) = (FoldedRank(w) < FoldedRank(p))
      BY <2>1 DEF Equal, Below
    <3> QED BY <3>1
  <2>2. CASE d.engine # "mysql"
    <3>1. Equal(d, w, p) = (w = p) /\ Below(d, w, p) = (Rank(w) < Rank(p))
      BY <2>2 DEF Equal, Below
    <3> QED BY <3>1
  <2> QED BY <2>1, <2>2
<1>2. \A fold, w, p : Like(fold, w, p) \in BOOLEAN
  BY DEF Like
<1>3. CASE c.op = "IS NULL"
  <2>1. Meets(d, v, c) = (v = Null)
    BY <1>3 DEF Meets
  <2> QED BY <2>1
<1>4. CASE c.op = "IS NOT NULL"
  <2>1. Meets(d, v, c) = (v # Null)
    BY <1>4 DEF Meets
  <2> QED BY <2>1
<1>5. CASE c.op = "="
  <2>1. Meets(d, v, c) = Equal(d, v, c.value)
    BY <1>5 DEF Meets
  <2> QED BY <1>1, <2>1
<1>6. CASE c.op = "!="
  <2>1. Meets(d, v, c) = ~Equal(d, v, c.value)
    BY <1>6 DEF Meets
  <2> QED BY <2>1
<1>7. CASE c.op = "<"
  <2>1. Meets(d, v, c) = Below(d, v, c.value)
    BY <1>7 DEF Meets
  <2> QED BY <1>1, <2>1
<1>8. CASE c.op = ">"
  <2>1. Meets(d, v, c) = Below(d, c.value, v)
    BY <1>8 DEF Meets
  <2> QED BY <1>1, <2>1
<1>9. CASE c.op = "<="
  <2>1. Meets(d, v, c) = ~Below(d, c.value, v)
    BY <1>9 DEF Meets
  <2> QED BY <2>1
<1>10. CASE c.op = ">="
  <2>1. Meets(d, v, c) = ~Below(d, v, c.value)
    BY <1>10 DEF Meets
  <2> QED BY <2>1
<1>11. CASE c.op = "LIKE"
  <2>1. Meets(d, v, c) = Like(d.engine # "postgres", v, c.value)
    BY <1>11 DEF Meets
  <2> QED BY <1>2, <2>1
<1>12. CASE c.op = "ILIKE"
  <2>1. Meets(d, v, c) = Like(TRUE, v, c.value)
    BY <1>12 DEF Meets
  <2> QED BY <1>2, <2>1
<1> QED BY <1>3, <1>4, <1>5, <1>6, <1>7, <1>8, <1>9, <1>10, <1>11, <1>12 DEF Operators

(* ... turned round, where it is negated.                                  *)
LEMMA TurnedIs ==
    ASSUME HasEngine(db), NEW v \in Texts \cup {Null}, NEW c, WellPosed(c), NEW term,
           term.keyword = Keyword(c.op), term.value = c.value, term.not = c.not
    PROVE  LET truth == IF term.not THEN 2 - TermTruth(db, v, term) ELSE TermTruth(db, v, term)
           IN truth \in {No, Unknown, Yes} /\ (truth = Yes <=> Holds(db, v, c))
<1> DEFINE t == TermTruth(db, v, term)
<1>1. /\ t \in {No, Unknown, Yes} /\ (t = Unknown <=> v = Null /\ TakesValue(c.op))
      /\ t # Unknown => (t = Yes <=> Meets(db, v, c))
  BY TermIs
<1>2. c.not \in BOOLEAN /\ term.not = c.not
  BY DEF WellPosed
<1>3. Holds(db, v, c) <=> t # Unknown /\ (Meets(db, v, c) # c.not)
  BY <1>1 DEF Holds, TakesValue
<1>4. Meets(db, v, c) \in BOOLEAN
  BY MeetsIs DEF WellPosed
<1> HIDE DEF t
<1>5. /\ (IF term.not THEN 2 - t ELSE t) \in {No, Unknown, Yes}
      /\ (IF term.not THEN 2 - t ELSE t) = Yes <=> Holds(db, v, c)
  <2>1. CASE term.not
    <3>1. Meets(db, v, c) # c.not <=> ~Meets(db, v, c)
      BY <1>2, <1>4, <2>1
    <3>2. Holds(db, v, c) <=> t # Unknown /\ t # Yes
      BY <1>1, <1>3, <3>1
    <3> QED BY <1>1, <2>1, <3>2 DEF No, Unknown, Yes
  <2>2. CASE ~term.not
    BY <1>1, <1>2, <1>3, <1>4, <2>2 DEF No, Unknown, Yes
  <2> QED BY <2>1, <2>2
<1> QED BY <1>5 DEF t

-----------------------------------------------------------------------------
(* The SELECT that a request for a table's rows asks for, of some columns. *)
AskedFor(q, names) ==
    /\ q.tables = <<req.table>> /\ q.kinds = <<>> /\ q.ons = <<>>
    /\ q.list = [i \in DOMAIN names |-> <<0, names[i]>>]
    /\ q.where = Terms(Filters(req))
    /\ q.sort = IF req.sort = None THEN None ELSE NativeOrder(<<0, req.sort>>, req.order = "desc")
    /\ q.limit = Paging(req).limit /\ q.offset = Paging(req).offset

(* The rows of its table, and a row as a choice of the property's.         *)
Rows == RowsAt(req, db, 0)
Choice(k) == [p \in 0..0 |-> k]
FiltersRead ==
    /\ Filters(req) \in Seq(ToSet(Filters(req)))
    /\ \A i \in DOMAIN Filters(req) :
        /\ WellPosed(Filters(req)[i]) /\ Filters(req)[i].join = None
        /\ i = 1 <=> Filters(req)[i].logic = None
RowsHold(columns) ==
    /\ Rows \in Seq([columns -> Texts \cup {Null}])
    /\ \A i \in DOMAIN Filters(req) : Filters(req)[i].column \in columns
    /\ req.sort # None => req.sort \in columns

(* What the extractors let through is well posed.                          *)
LEMMA FiltersReadIs ==
    ASSUME req \in Requests, Asks({"data"}), QueryOpts(req).ok PROVE FiltersRead
<1> DEFINE raw == req.filter
           filters == Filters(req)
<1>1. WellRead(filters, FALSE) /\ Plain(req) /\ ~IsJoin(req)
  BY QueryReads
<1>2. raw \in {None, Blank} \/ ParseFilter(raw, FALSE).ok
  <2>1. FilterParses(req)
    BY <1>1 DEF Plain
  <2>2. IsJoin(req) = FALSE
    BY <1>1 DEF IsJoin
  <2> QED BY <2>1, <2>2 DEF FilterParses
<1>3. CASE raw \in {None, Blank}
  BY <1>3 DEF Filters, FiltersRead
<1>4. CASE raw \notin {None, Blank}
  <2>1. /\ raw \notin {Oversize, Malformed}
        /\ \A i \in DOMAIN raw : ~((i = 1) # (raw[i].logic = None))
    BY <1>2, <1>4 DEF ParseFilter, Err
  <2>2. filters = raw /\ raw \in Seq(ToSet(raw))
    BY <1>4, <2>1, RequestsAssumption DEF Filters
  <2>3. \A i \in DOMAIN raw :
            /\ raw[i].op \in Operators /\ raw[i].not \in BOOLEAN
            /\ raw[i].value \in ToSet(NameOrder) \cup {None}
    BY <1>4, <2>1, ParametersAssumption
  <2>4. \A i \in DOMAIN raw : (i = 1) <=> raw[i].logic = None
    <3> SUFFICES ASSUME NEW i \in DOMAIN raw PROVE (i = 1) <=> raw[i].logic = None
      OBVIOUS
    <3>1. ~((i = 1) # (raw[i].logic = None))
      BY <2>1
    <3> QED BY <3>1
  <2>5. \A i \in DOMAIN raw : raw[i].join = None /\ (TakesValue(raw[i].op) <=> raw[i].value # None)
    BY <1>1, <2>2 DEF WellRead
  <2> QED BY <2>2, <2>3, <2>4, <2>5 DEF FiltersRead, WellPosed, Texts
<1> QED BY <1>3, <1>4

(* A row is in the result where the property has it kept.                  *)
LEMMA ClauseKeeps ==
    ASSUME HasEngine(db), FiltersRead, NEW columns, RowsHold(columns), NEW k \in DOMAIN Rows
    PROVE  ClauseTruth(db, Terms(Filters(req)), <<Rows[k]>>) = Yes <=> Kept(req, db, Choice(k))
<1> DEFINE filters == Filters(req)
           n == Len(filters)
           where == Terms(filters)
           env == <<Rows[k]>>
           truth(i) == TruthAt(db, where, env, i)
           holds(j) == Holds(db, Cell(req, db, Choice(k), Position(filters[j].join), filters[j].column),
                             filters[j])
           starts == {i \in 1..n : i = 1 \/ filters[i].logic = "OR"}
           run(i) == {j \in i..n : \A l \in (i + 1)..j : l \notin starts}
<1>1. n \in Nat /\ DOMAIN filters = 1..n /\ DOMAIN where = 1..n
  BY DEF FiltersRead, Terms
<1>2. Kept(req, db, Choice(k)) <=> (n = 0 \/ \E i \in starts : \A j \in run(i) : holds(j))
  BY DEF Kept
<1>3. Rows[k] \in [columns -> Texts \cup {Null}] /\ k # 0 /\ k \in Nat
  BY DEF RowsHold
<1>4. CASE n = 0
  <2>1. where = <<>>
    BY <1>1, <1>4 DEF Terms
  <2>2. ClauseTruth(db, where, env) = Yes
    <3> HIDE DEF where, env
    <3> QED BY <2>1 DEF ClauseTruth
  <2> QED BY <1>2, <1>4, <2>2
<1>5. CASE n # 0
  <2>1. ASSUME NEW i \in 1..n
        PROVE  truth(i) \in {No, Unknown, Yes} /\ (truth(i) = Yes <=> holds(i))
    <3> DEFINE c == filters[i]
               v == Rows[k][c.column]
               term == where[i]
    <3>1. WellPosed(c) /\ c.join = None /\ c.column \in columns /\ v \in Texts \cup {Null}
      BY <1>1, <1>3, <2>1 DEF FiltersRead, RowsHold
    <3>2. /\ term.keyword = Keyword(c.op) /\ term.value = c.value /\ term.not = c.not
          /\ term.column = <<0, c.column>>
      BY <1>1, <2>1 DEF Terms
    <3>3. Shown(env, term.column) = v
      <4>1. env[0 + 1] = Rows[k] /\ c.column \in DOMAIN Rows[k]
        BY <1>3, <3>1
      <4> HIDE DEF env, where
      <4> QED BY <3>2, <4>1 DEF Shown
    <3>4. Cell(req, db, Choice(k), Position(c.join), c.column) = v
      <4>1. Position(c.join) = 0 /\ Choice(k)[0] = k
        BY <3>1 DEF Position, Choice
      <4> QED BY <1>3, <4>1 DEF Cell, Rows
    <3>5. LET truth2 == IF term.not THEN 2 - TermTruth(db, v, term) ELSE TermTruth(db, v, term)
          IN truth2 \in {No, Unknown, Yes} /\ (truth2 = Yes <=> Holds(db, v, c))
      BY <3>1, <3>2, TurnedIs
    <3>6. truth(i) = IF term.not THEN 2 - TermTruth(db, v, term) ELSE TermTruth(db, v, term)
      BY <3>3 DEF TruthAt
    <3> HIDE DEF where, filters, env, v
    <3> QED BY <3>4, <3>5, <3>6
  <2>2. \A i \in 1..n : i \in Ors(where) <=> filters[i].logic = "OR"
    BY <1>1 DEF Ors, Terms
  <2>3. 1 \notin Ors(where)
    <3>1. filters[1].logic = None
      BY <1>1, <1>5 DEF FiltersRead
    <3>2. None # "OR"
      BY ParametersAssumption
    <3> QED BY <1>1, <1>5, <2>2, <3>1, <3>2
  <2>4. where # <<>> /\ n \in Nat \ {0}
    BY <1>1, <1>5
  <2> HIDE DEF where, env, filters, n
  <2>5. ClauseTruth(db, where, env) = Yes
            <=> \E i \in 1..n : /\ i = 1 \/ i \in Ors(where)
                                /\ \A j \in RunFrom(Ors(where), n, i) : truth(j) = Yes
    BY <1>1, <2>1, <2>3, <2>4, ClauseIs
  <2>6. \A i \in 1..n : i \in starts <=> (i = 1 \/ i \in Ors(where))
    BY <2>2
  <2>7. \A i \in 1..n : run(i) = RunFrom(Ors(where), n, i)
    <3> SUFFICES ASSUME NEW i \in 1..n, NEW j \in i..n
                 PROVE  (\A l \in (i + 1)..j : l \notin starts) <=> \A l \in (i + 1)..j : l \notin Ors(where)
      BY DEF RunFrom
    <3>1. \A l \in (i + 1)..j : l \in 1..n /\ l # 1
      BY <2>4
    <3> QED BY <2>6, <3>1
  <2>8. \A i \in 1..n : \A j \in run(i) : j \in 1..n
    BY <2>4
  <2> HIDE DEF truth, holds
  <2>9. (\E i \in starts : \A j \in run(i) : holds(j))
            <=> \E i \in 1..n : /\ i = 1 \/ i \in Ors(where)
                                /\ \A j \in RunFrom(Ors(where), n, i) : truth(j) = Yes
    <3>1. starts \subseteq 1..n
      OBVIOUS
    <3> HIDE DEF starts, run
    <3> QED BY <2>1, <2>6, <2>7, <2>8, <3>1
  <2> HIDE DEF starts, run
  <2> QED BY <1>2, <1>5, <2>5, <2>9 DEF where, env, filters
<1> QED BY <1>4, <1>5

-----------------------------------------------------------------------------
(* A statement on one table combines nothing: its rows, one by one.        *)
Steps(q) == [i \in DOMAIN q.kinds |-> i]
Alone(rows) == [i \in DOMAIN rows |-> <<rows[i]>>]
Joining(d, q, f) ==
    f = [s \in SUBSET DOMAIN Steps(q) |->
            IF s = {} THEN Alone(TableOf(d, q, 0).rows)
            ELSE Extended(d, q, f[s \ {Max(s)}], Steps(q)[Max(s)])]
LEMMA CombinationsFold ==
    ASSUME NEW d, NEW q
    PROVE  Combinations(d, q) = (CHOOSE f : Joining(d, q, f))[DOMAIN Steps(q)]
BY DEF Combinations, FoldLeft, MapThenFoldSet, Joining, Steps, Alone

LEMMA CombinationsAlone ==
    ASSUME NEW d, NEW q, q.kinds = <<>>
    PROVE  Combinations(d, q) = Alone(TableOf(d, q, 0).rows)
<1> DEFINE base == Alone(TableOf(d, q, 0).rows)
           g == CHOOSE f : Joining(d, q, f)
<1>1. DOMAIN Steps(q) = {}
  BY DEF Steps
<1>2. SUBSET DOMAIN Steps(q) = {{}}
  BY <1>1
<1> HIDE DEF base
<1>3. Joining(d, q, [s \in {{}} |-> base])
  BY <1>2 DEF Joining, base
<1>4. Joining(d, q, g)
  BY <1>3
<1> HIDE DEF g
<1>5. g[{}] = base
  BY <1>2, <1>4 DEF Joining, base
<1> QED BY <1>1, <1>5, CombinationsFold DEF g, base

-----------------------------------------------------------------------------
(* A request for the rows of a table, the table, and the statement on it.  *)
AsksRows == req \in Requests /\ Asks({"data"}) /\ QueryOpts(req).ok
Home(x) ==
    /\ TablesAt(db, SchemaAsked(req, db), req.table) = {x}
    /\ \A i, j \in DOMAIN x.columns : x.columns[i].name = x.columns[j].name => i = j
    /\ x.rows \in Seq([ColumnNames(x) -> Texts \cup {Null}])
    /\ \A k \in ToSet(x.columns) : \A i \in DOMAIN x.rows :
        (k.native = "number" /\ x.rows[i][k.name] # Null) =>
            NumberOf[x.rows[i][k.name]] \in 1..Len(NameOrder)
Placed(q, names) == q.schema = SchemaAsked(req, db) /\ AskedFor(q, names)

(* The table of that name in a database nobody touched.                    *)
LEMMA HomeIs ==
    ASSUME NEW s \in ToSet(Sources), db = Databases[s],
           NEW x \in TablesAt(db, SchemaAsked(req, db), req.table)
    PROVE  Home(x)
<1>1. x \in db.tables /\ x \in Databases[s].tables
  BY DEF TablesAt
<1>2. TablesAt(db, SchemaAsked(req, db), req.table) = {x}
  <2>1. \A y, z \in db.tables : y.schema = z.schema /\ y.name = z.name => y = z
    BY CatalogueAssumption
  <2> QED BY <2>1 DEF TablesAt
<1>3. \A i, j \in DOMAIN x.columns : x.columns[i].name = x.columns[j].name => i = j
  BY <1>1, RelationsAssumption
<1>4. /\ x.rows \in Seq([ColumnNames(x) -> ToSet(NameOrder) \cup {Null}])
      /\ \A k \in ToSet(x.columns) : \A i \in DOMAIN x.rows :
            (k.native = "number" /\ x.rows[i][k.name] # Null) =>
                NumberOf[x.rows[i][k.name]] \in 1..Len(NameOrder)
  BY <1>1, RowsAssumption
<1> QED BY <1>2, <1>3, <1>4 DEF Home, Texts

LEMMA RowsHome ==
    ASSUME AsksRows, NEW x, Home(x)
    PROVE  /\ ~IsJoin(req) /\ TablesOf(req) = <<req.table>> /\ Rows = x.rows
           /\ \A q, names : Placed(q, names) => TableOf(db, q, 0) = x
<1>1. ~IsJoin(req) /\ TablesOf(req) = <<req.table>>
  BY QueryReads DEF AsksRows, TablesOf
<1>2. <<req.table>>[0 + 1] = req.table
  OBVIOUS
<1>3. Rows = x.rows
  <2>1. TablesOf(req)[0 + 1] = req.table
    BY <1>1, <1>2
  <2>2. (CHOOSE y \in TablesAt(db, SchemaAsked(req, db), TablesOf(req)[0 + 1]) : TRUE) = x
    BY <2>1 DEF Home
  <2> QED BY <2>2 DEF Rows, RowsAt
<1>4. ASSUME NEW q, NEW names, Placed(q, names) PROVE TableOf(db, q, 0) = x
  <2>1. q.schema = SchemaAsked(req, db) /\ q.tables[0 + 1] = req.table
    BY <1>2, <1>4 DEF Placed, AskedFor
  <2> QED BY <2>1 DEF TableOf, Pick, Home
<1> QED BY <1>1, <1>3, <1>4

(* A column of the statement is that of the request.                       *)
LEMMA ColumnHome ==
    ASSUME AsksRows, NEW x, Home(x), NEW c \in ColumnNames(x), NEW q, NEW names, Placed(q, names)
    PROVE  /\ ColumnOf(db, q, <<0, c>>) = Column(db, SchemaAsked(req, db), req.table, c)
           /\ ColumnOf(db, q, <<0, c>>) \in ToSet(x.columns) /\ ColumnOf(db, q, <<0, c>>).name = c
<1> DEFINE i == CHOOSE j \in DOMAIN x.columns : x.columns[j].name = c
           all == UNION {ToSet(z.columns) : z \in TablesAt(db, SchemaAsked(req, db), req.table)}
           k == CHOOSE l \in all : l.name = c
<1>1. i \in DOMAIN x.columns /\ x.columns[i].name = c
  BY DEF ColumnNames
<1>2. x.columns[i] \in ToSet(x.columns)
  BY <1>1 DEF ToSet
<1>3. all = ToSet(x.columns)
  BY DEF Home
<1>4. ColumnOf(db, q, <<0, c>>) = x.columns[i]
  <2>1. <<0, c>>[1] = 0 /\ <<0, c>>[2] = c /\ TableOf(db, q, 0) = x
    BY RowsHome
  <2> QED BY <2>1 DEF ColumnOf
<1> HIDE DEF i, all
<1>5. k \in ToSet(x.columns) /\ k.name = c
  BY <1>1, <1>2, <1>3
<1> HIDE DEF k
<1>6. k = x.columns[i]
  <2>1. PICK j \in DOMAIN x.columns : x.columns[j] = k
    BY <1>5 DEF ToSet
  <2> QED BY <1>1, <1>5, <2>1 DEF Home
<1> QED BY <1>1, <1>2, <1>4, <1>6 DEF Column, k, all

-----------------------------------------------------------------------------
(* The rank of a row in the statement is its rank in the order asked for.  *)
LEMMA RankIn ==
    ASSUME NEW v \in Texts
    PROVE  Len(NameOrder) \in Nat /\ Rank(v) \in 1..Len(NameOrder)
<1>1. DOMAIN NameOrder = 1..Len(NameOrder) /\ Len(NameOrder) \in Nat
  BY NamesAssumption
<1>2. \E i \in DOMAIN NameOrder : NameOrder[i] = v
  BY DEF Texts, ToSet
<1>3. Rank(v) \in DOMAIN NameOrder
  BY <1>2 DEF Rank
<1> QED BY <1>1, <1>3

Measure(kind, v) ==
    IF kind = "number" THEN NumberOf[v] ELSE IF kind = "folded" THEN FoldedRank(v) ELSE Rank(v)
Precedes(kind, x, y) ==
    CASE x = Null -> y # Null /\ db.engine # "postgres"
      [] x # Null /\ y = Null -> db.engine = "postgres"
      [] OTHER -> Less(kind, x, y)

LEMMA SortRankIs ==
    ASSUME HasEngine(db), AsksRows, NEW x, Home(x), NEW q, NEW names, Placed(q, names),
           req.sort # None => req.sort \in ColumnNames(x), NEW a \in DOMAIN Rows, NEW b \in DOMAIN Rows
    PROVE  /\ SortRank(db, q, <<Rows[a]>>) \in Int
           /\ Before(req, db, Choice(a), Choice(b)) <=>
                SortRank(db, q, <<Rows[a]>>) < SortRank(db, q, <<Rows[b]>>)
<1> DEFINE c == req.sort
           n == Len(NameOrder)
           rank(k) == SortRank(db, q, <<Rows[k]>>)
<1>1. req.sortJoin = None /\ Rows = x.rows /\ ~IsJoin(req) /\ TablesOf(req) = <<req.table>>
  BY QueryReads, RowsHome DEF AsksRows
<1>2. q.sort = IF c = None THEN None ELSE NativeOrder(<<0, c>>, req.order = "desc")
  BY DEF Placed, AskedFor
<1>3. CASE c = None
  <2>1. q.sort = None
    BY <1>2, <1>3
  <2>2. rank(a) = 0 /\ rank(b) = 0
    BY <2>1 DEF SortRank
  <2>3. ~Before(req, db, Choice(a), Choice(b))
    BY <1>3 DEF Before
  <2> QED BY <2>2, <2>3
<1>4. CASE c # None
  <2> DEFINE desc == req.order = "desc"
             kind == ColumnOf(db, q, <<0, c>>).native
             key(v) == SortKey(db, q, v)
             u == Rows[a][c]
             v == Rows[b][c]
  <2>1. /\ q.sort.by = <<0, c>> /\ q.sort.qualified = TRUE /\ q.sort.desc = desc /\ q.sort # None
    <3>1. q.sort = NativeOrder(<<0, c>>, desc) /\ desc \in BOOLEAN
      BY <1>2, <1>4
    <3>2. Position(req.sortJoin) = 0
      BY <1>1 DEF Position
    <3>3. NativeOrder(<<0, c>>, desc) # None
      BY <3>1, <3>2, PositionsAssumption DEF AsksRows
    <3> HIDE DEF desc
    <3> QED BY <3>1, <3>3 DEF NativeOrder
  <2>2. /\ u \in Texts \cup {Null} /\ v \in Texts \cup {Null} /\ c \in ColumnNames(x)
        /\ kind = "number" /\ u # Null => NumberOf[u] \in 1..n
        /\ kind = "number" /\ v # Null => NumberOf[v] \in 1..n
    <3>1. c \in ColumnNames(x) /\ x.rows \in Seq([ColumnNames(x) -> Texts \cup {Null}])
      BY <1>4 DEF Home
    <3>2. u \in Texts \cup {Null} /\ v \in Texts \cup {Null}
      BY <1>1, <3>1
    <3>3. ColumnOf(db, q, <<0, c>>) \in ToSet(x.columns) /\ ColumnOf(db, q, <<0, c>>).name = c
      BY <3>1, ColumnHome
    <3> QED BY <1>1, <3>1, <3>2, <3>3 DEF Home
  <2>3. n \in Nat /\ Null \notin Texts
    BY NamesAssumption, RowsAssumption DEF Texts
  <2>4. ASSUME NEW w
        PROVE  /\ w # Null => key(w) = Measure(kind, w)
               /\ w = Null => key(w) = IF db.engine = "postgres" THEN n + 1 ELSE 0
    BY <2>1 DEF SortKey, Measure
  <2>5. ASSUME NEW w \in Texts PROVE Rank(w) \in 1..n /\ FoldedRank(w) \in 1..n
    <3>1. Fold[w] \in Texts
      BY NamesAssumption DEF Texts
    <3> QED BY <3>1, RankIn DEF FoldedRank
  <2>6. ASSUME NEW w \in {u, v}
        PROVE  key(w) \in 0..(n + 1) /\ (w # Null => key(w) \in 1..n)
    <3>1. CASE w = Null
      BY <2>3, <2>4, <3>1
    <3>2. CASE w # Null
      <4>1. key(w) = Measure(kind, w)
        BY <2>4, <3>2
      <4>2. key(w) \in 1..n
        <5> HIDE DEF u, v, kind, n, key
        <5> QED BY <2>2, <2>5, <3>2, <4>1 DEF Measure
      <4> QED BY <2>3, <3>2, <4>2
    <3> QED BY <3>1, <3>2
  <2>7. ASSUME NEW y \in {u, v}, NEW z \in {u, v} PROVE Precedes(kind, y, z) <=> key(y) < key(z)
    <3> HIDE DEF u, v, kind, n, key
    <3>1. CASE y = Null
      <4>1. Precedes(kind, y, z) <=> z # Null /\ db.engine # "postgres"
        BY <3>1 DEF Precedes
      <4> QED BY <2>3, <2>4, <2>6, <3>1, <4>1
    <3>2. CASE y # Null /\ z = Null
      <4>1. Precedes(kind, y, z) <=> db.engine = "postgres"
        BY <3>2 DEF Precedes
      <4> QED BY <2>3, <2>4, <2>6, <3>2, <4>1
    <3>3. CASE y # Null /\ z # Null
      <4>1. Precedes(kind, y, z) <=> Less(kind, y, z)
        BY <3>3 DEF Precedes
      <4>2. Less(kind, y, z) <=> Measure(kind, y) < Measure(kind, z)
        BY DEF Less, Measure
      <4> QED BY <2>4, <3>3, <4>1, <4>2
    <3> QED BY <3>1, <3>2, <3>3
  <2>8. \A k \in {a, b} : rank(k) = IF desc THEN n + 1 - key(Rows[k][c]) ELSE key(Rows[k][c])
    <3> SUFFICES ASSUME NEW k \in {a, b}
                 PROVE  rank(k) = IF desc THEN n + 1 - key(Rows[k][c]) ELSE key(Rows[k][c])
      OBVIOUS
    <3>1. <<Rows[k]>>[<<0, c>>[1] + 1][<<0, c>>[2]] = Rows[k][c]
      OBVIOUS
    <3> HIDE DEF desc, c, key
    <3> QED BY <2>1, <3>1 DEF SortRank, key
  <2>9. Before(req, db, Choice(a), Choice(b)) <=>
            IF desc THEN Precedes(kind, v, u) ELSE Precedes(kind, u, v)
    <3>1. Position(req.sortJoin) = 0 /\ TableAt(req, 0) = req.table
      <4>1. Position(req.sortJoin) = 0
        BY <1>1 DEF Position
      <4>2. 0 # None
        BY PositionsAssumption
      <4>3. Position(0) = 0
        BY <4>2 DEF Position
      <4> QED BY <1>1, <4>1, <4>3 DEF TableAt
    <3>2. Choice(a)[0] = a /\ Choice(b)[0] = b /\ a # 0 /\ b # 0
      BY <1>1 DEF Choice, Home
    <3>3. Cell(req, db, Choice(a), 0, c) = u /\ Cell(req, db, Choice(b), 0, c) = v
      BY <3>2 DEF Cell, Rows
    <3>4. kind = Native(req, db, <<0, c>>)
      <4>1. <<0, c>>[1] = 0 /\ <<0, c>>[2] = c
        OBVIOUS
      <4> QED BY <2>2, <3>1, <4>1, ColumnHome DEF Native
    <3> HIDE DEF u, v, kind
    <3> QED BY <1>4, <3>1, <3>3, <3>4 DEF Before, Precedes
  <2>10. rank(a) \in Int /\ (rank(a) < rank(b) <=> IF desc THEN key(v) < key(u) ELSE key(u) < key(v))
    <3> HIDE DEF rank, key, desc
    <3>1. /\ rank(a) = IF desc THEN n + 1 - key(u) ELSE key(u)
          /\ rank(b) = IF desc THEN n + 1 - key(v) ELSE key(v)
      BY <2>8
    <3>2. key(u) \in Int /\ key(v) \in Int /\ n \in Int
      BY <2>3, <2>6
    <3> HIDE DEF u, v, n
    <3> QED BY <3>1, <3>2
  <2> HIDE DEF rank, key, desc, u, v, kind
  <2> QED BY <2>7, <2>9, <2>10 DEF rank
<1> QED BY <1>3, <1>4

-----------------------------------------------------------------------------
(* The list: by rank, and then by the place of the row.                    *)
LEMMA LexPair ==
    ASSUME NEW x \in Int, NEW y \in Int, NEW a \in Int, NEW b \in Int
    PROVE  Lex(<<x, a>>, <<y, b>>) <=> x < y \/ (x = y /\ a < b)
<1> DEFINE s == <<x, a>>
           t == <<y, b>>
<1>1. /\ DOMAIN s = {1, 2} /\ s[1] = x /\ s[2] = a /\ t[1] = y /\ t[2] = b
      /\ 1..(1 - 1) = {} /\ 1..(2 - 1) = {1}
  OBVIOUS
<1> HIDE DEF s, t
<1>2. Lex(s, t) <=> \E i \in {1, 2} : s[i] < t[i] /\ \A j \in 1..(i - 1) : s[j] = t[j]
  BY <1>1 DEF Lex
<1>3. (\E i \in {1, 2} : s[i] < t[i] /\ \A j \in 1..(i - 1) : s[j] = t[j])
        <=> s[1] < t[1] \/ (s[2] < t[2] /\ s[1] = t[1])
  BY <1>1
<1> QED BY <1>1, <1>2, <1>3 DEF s, t

(* The rows that the filter keeps, and a list of them as they are ordered. *)
KeptRows == {k \in DOMAIN Rows : Kept(req, db, Choice(k))}
Lining(L, n) ==
    /\ n \in Nat /\ DOMAIN L = 1..n
    /\ \A i \in 1..n : L[i] \in KeptRows
    /\ \A k \in KeptRows : \E i \in 1..n : L[i] = k
    /\ \A i, j \in 1..n : L[i] = L[j] => i = j
    /\ \A i \in 1..n :
        /\ Cardinality({k \in KeptRows : Before(req, db, Choice(k), Choice(L[i]))}) \in 0..(i - 1)
        /\ Cardinality({k \in KeptRows : Before(req, db, Choice(L[i]), Choice(k))}) \in 0..(n - i)

Keeps(d, q, envs) == {i \in DOMAIN envs : ClauseTruth(d, q.where, envs[i]) = Yes}
Lined(d, q, envs, kept) == OrderBy(kept, LAMBDA i : <<SortRank(d, q, envs[i]), i>>)
(* What ORDER BY does to the rows that WHERE keeps.                        *)
LEMMA OrderedLines ==
    ASSUME NEW d, NEW q
    PROVE  LET envs == Combinations(d, q)
               order == Lined(d, q, envs, Keeps(d, q, envs))
           IN Ordered(d, q) = [i \in DOMAIN order |-> envs[order[i]]]
BY DEF Ordered, Lined, Keeps

LEMMA KeptIs ==
    ASSUME HasEngine(db), AsksRows, NEW x, Home(x), NEW q, NEW names, Placed(q, names),
           \A i \in DOMAIN Filters(req) : Filters(req)[i].column \in ColumnNames(x),
           req.sort # None => req.sort \in ColumnNames(x)
    PROVE  Combinations(db, q) = Alone(Rows) /\ Keeps(db, q, Alone(Rows)) = KeptRows
<1>1. Combinations(db, q) = Alone(Rows)
  <2>1. q.kinds = <<>> /\ TableOf(db, q, 0).rows = Rows
    BY RowsHome DEF Placed, AskedFor
  <2> QED BY <2>1, CombinationsAlone
<1>2. RowsHold(ColumnNames(x)) /\ FiltersRead
  BY RowsHome, FiltersReadIs DEF RowsHold, Home, AsksRows
<1>3. q.where = Terms(Filters(req))
  BY DEF Placed, AskedFor
<1>4. \A k \in DOMAIN Rows :
        ClauseTruth(db, Terms(Filters(req)), <<Rows[k]>>) = Yes <=> Kept(req, db, Choice(k))
  BY <1>2, ClauseKeeps
<1>5. DOMAIN Alone(Rows) = DOMAIN Rows /\ \A k \in DOMAIN Rows : Alone(Rows)[k] = <<Rows[k]>>
  BY DEF Alone
<1> QED BY <1>1, <1>3, <1>4, <1>5 DEF Keeps, KeptRows

LEMMA OrderedIs ==
    ASSUME HasEngine(db), AsksRows, NEW x, Home(x), NEW q, NEW names, Placed(q, names),
           \A i \in DOMAIN Filters(req) : Filters(req)[i].column \in ColumnNames(x),
           req.sort # None => req.sort \in ColumnNames(x)
    PROVE  /\ IsFiniteSet(KeptRows)
           /\ \E L : /\ Lining(L, Cardinality(KeptRows))
                     /\ Ordered(db, q) = [i \in 1..Cardinality(KeptRows) |-> <<Rows[L[i]]>>]
<1> DEFINE envs == Alone(Rows)
           n == Cardinality(KeptRows)
           L == Lined(db, q, envs, KeptRows)
           r == [k \in KeptRows |-> SortRank(db, q, <<Rows[k]>>)]
           R == {p \in KeptRows \X KeptRows : r[p[1]] < r[p[2]] \/ (r[p[1]] = r[p[2]] /\ p[1] < p[2])}
<1>1. Combinations(db, q) = envs /\ Keeps(db, q, envs) = KeptRows
  BY KeptIs
<1>2. Rows \in Seq([ColumnNames(x) -> Texts \cup {Null}])
  BY RowsHome DEF Home
<1>3. IsFiniteSet(KeptRows) /\ KeptRows \subseteq Nat /\ n \in Nat
  <2>1. DOMAIN Rows = 1..Len(Rows) /\ Len(Rows) \in Nat
    BY <1>2
  <2>2. IsFiniteSet(1..Len(Rows))
    BY <2>1, FS_Interval
  <2>3. KeptRows \subseteq 1..Len(Rows)
    BY <2>1 DEF KeptRows
  <2>4. IsFiniteSet(KeptRows)
    BY <2>2, <2>3, FS_Subset
  <2>5. n \in Nat
    BY <2>4, FS_CardinalityType
  <2> QED BY <2>1, <2>3, <2>4, <2>5
<1>4. /\ r \in [KeptRows -> Int]
      /\ \A a, b \in KeptRows : Before(req, db, Choice(a), Choice(b)) <=> r[a] < r[b]
  <2>1. \A a \in KeptRows : a \in DOMAIN Rows
    BY DEF KeptRows
  <2>2. \A a, b \in KeptRows :
            /\ SortRank(db, q, <<Rows[a]>>) \in Int
            /\ Before(req, db, Choice(a), Choice(b)) <=>
                    SortRank(db, q, <<Rows[a]>>) < SortRank(db, q, <<Rows[b]>>)
    BY <2>1, SortRankIs
  <2> QED BY <2>2
<1>5. \A k \in KeptRows : envs[k] = <<Rows[k]>>
  BY DEF Alone, KeptRows
<1> HIDE DEF envs
<1>6. \A a, b \in KeptRows : Lex(<<SortRank(db, q, envs[a]), a>>, <<SortRank(db, q, envs[b]), b>>)
                                <=> <<a, b>> \in R
  <2> SUFFICES ASSUME NEW a \in KeptRows, NEW b \in KeptRows
               PROVE  Lex(<<SortRank(db, q, envs[a]), a>>, <<SortRank(db, q, envs[b]), b>>)
                        <=> <<a, b>> \in R
    OBVIOUS
  <2>1. SortRank(db, q, envs[a]) = r[a] /\ SortRank(db, q, envs[b]) = r[b]
    BY <1>5
  <2>2. a \in Int /\ b \in Int /\ r[a] \in Int /\ r[b] \in Int
    BY <1>3, <1>4
  <2> HIDE DEF r
  <2>3. Lex(<<r[a], a>>, <<r[b], b>>) <=> r[a] < r[b] \/ (r[a] = r[b] /\ a < b)
    BY <2>2, LexPair
  <2>4. <<a, b>> \in R <=> r[a] < r[b] \/ (r[a] = r[b] /\ a < b)
    OBVIOUS
  <2> QED BY <2>1, <2>3, <2>4
<1>7. Strict(KeptRows, R) /\ \A a, b \in KeptRows : <<a, b>> \in R => r[a] <= r[b]
  <2> HIDE DEF r
  <2>1. \A a, b \in KeptRows : <<a, b>> \in R <=> r[a] < r[b] \/ (r[a] = r[b] /\ a < b)
    OBVIOUS
  <2>2. \A a \in KeptRows : r[a] \in Int /\ a \in Int
    BY <1>3, <1>4
  <2> HIDE DEF R
  <2>3. \A a \in KeptRows : <<a, a>> \notin R
    BY <2>1, <2>2
  <2>4. \A a, b, c \in KeptRows : <<a, b>> \in R /\ <<b, c>> \in R => <<a, c>> \in R
    BY <2>1, <2>2
  <2>5. \A a, b \in KeptRows : a # b => <<a, b>> \in R \/ <<b, a>> \in R
    BY <2>1, <2>2
  <2>6. \A a, b \in KeptRows : <<a, b>> \in R => r[a] <= r[b]
    BY <2>1, <2>2
  <2> QED BY <2>3, <2>4, <2>5, <2>6 DEF Strict
<1> HIDE DEF R, r
<1>8. DOMAIN L = 1..n /\ \A i \in 1..n : L[i] \in KeptRows /\ Cardinality(Under(KeptRows, R, L[i])) = i - 1
  <2>1. L = [i \in 1..n |-> CHOOSE k \in KeptRows :
                Cardinality({y \in KeptRows : Lex(<<SortRank(db, q, envs[y]), y>>,
                                                  <<SortRank(db, q, envs[k]), k>>)}) = i - 1]
    BY DEF Lined, OrderBy
  <2>2. \A k \in KeptRows :
            {y \in KeptRows : Lex(<<SortRank(db, q, envs[y]), y>>, <<SortRank(db, q, envs[k]), k>>)}
                = Under(KeptRows, R, k)
    BY <1>6 DEF Under
  <2>3. \A i \in 1..n : \E k \in KeptRows : Cardinality(Under(KeptRows, R, k)) = i - 1
    BY <1>3, <1>7, PlacesUnder
  <2> HIDE DEF L
  <2> SUFFICES ASSUME NEW i \in 1..n
               PROVE  L[i] \in KeptRows /\ Cardinality(Under(KeptRows, R, L[i])) = i - 1
    BY <2>1
  <2>4. \E k \in KeptRows :
            Cardinality({y \in KeptRows : Lex(<<SortRank(db, q, envs[y]), y>>,
                                              <<SortRank(db, q, envs[k]), k>>)}) = i - 1
    BY <2>2, <2>3
  <2>5. /\ L[i] \in KeptRows
        /\ Cardinality({y \in KeptRows : Lex(<<SortRank(db, q, envs[y]), y>>,
                                             <<SortRank(db, q, envs[L[i]]), L[i]>>)}) = i - 1
    BY <2>1, <2>4
  <2> QED BY <2>2, <2>5
<1>9. Ordered(db, q) = [i \in 1..n |-> <<Rows[L[i]]>>]
  <2>1. Ordered(db, q) = [i \in DOMAIN L |-> envs[L[i]]]
    BY <1>1, OrderedLines
  <2> HIDE DEF L
  <2>2. \A i \in 1..n : envs[L[i]] = <<Rows[L[i]]>>
    BY <1>5, <1>8
  <2> QED BY <1>8, <2>1, <2>2
<1> HIDE DEF L
<1>10. /\ \A k \in KeptRows : \E i \in DOMAIN L : L[i] = k
       /\ \A i, j \in DOMAIN L : L[i] = L[j] => i = j
       /\ \A i \in DOMAIN L :
            /\ Cardinality(Fewer(KeptRows, r, L[i])) \in 0..(i - 1)
            /\ Cardinality(Further(KeptRows, r, L[i])) \in 0..(n - i)
  <2> HIDE DEF KeptRows
  <2>1. DOMAIN L = 1..Cardinality(KeptRows) /\ IsFiniteSet(KeptRows) /\ Strict(KeptRows, R)
    BY <1>3, <1>7, <1>8
  <2>2. \A i \in DOMAIN L : L[i] \in KeptRows /\ Cardinality(Under(KeptRows, R, L[i])) = i - 1
    BY <1>8
  <2>3. r \in [KeptRows -> Int] /\ \A a, b \in KeptRows : <<a, b>> \in R => r[a] <= r[b]
    BY <1>4, <1>7
  <2> QED BY <2>1, <2>2, <2>3, PlacesList
<1>11. \A i \in 1..n :
        /\ {k \in KeptRows : Before(req, db, Choice(k), Choice(L[i]))} = Fewer(KeptRows, r, L[i])
        /\ {k \in KeptRows : Before(req, db, Choice(L[i]), Choice(k))} = Further(KeptRows, r, L[i])
  BY <1>4, <1>8 DEF Fewer, Further
<1>12. Lining(L, n)
  BY <1>3, <1>8, <1>10, <1>11 DEF Lining
<1> QED BY <1>3, <1>9, <1>12

-----------------------------------------------------------------------------
(* A page of a sequence.                                                   *)
Left(n, offset) == IF n > offset THEN n - offset ELSE 0
PageSize(n, limit, offset) == Min({Left(n, offset), limit})
(* LIMIT and OFFSET show as many as are left, from the offset on.          *)
LEMMA PageShows ==
    ASSUME NEW S, NEW s \in Seq(S), NEW limit \in Nat, NEW offset \in Nat
    PROVE  /\ PageSize(Len(s), limit, offset) \in Nat
           /\ DOMAIN Page(s, limit, offset) = 1..PageSize(Len(s), limit, offset)
           /\ \A i \in 1..PageSize(Len(s), limit, offset) :
                offset + i \in 1..Len(s) /\ Page(s, limit, offset)[i] = s[offset + i]
<1> DEFINE n == Len(s)
           last == Min({n, offset + limit})
           size == Min({Left(n, offset), limit})
           page == Page(s, limit, offset)
<1>1. n \in Nat /\ Left(n, offset) \in Nat
  BY DEF Left
<1>2. /\ last = IF n <= offset + limit THEN n ELSE offset + limit
      /\ size = IF Left(n, offset) <= limit THEN Left(n, offset) ELSE limit
  <2> DEFINE end == offset + limit
             left == Left(n, offset)
  <2>1. n \in Int /\ end \in Int /\ left \in Int /\ limit \in Int
    BY <1>1
  <2> HIDE DEF n, end, left
  <2>2. Min({n, end}) = (IF n <= end THEN n ELSE end)
    BY <2>1, MaxOfTwo
  <2>3. Min({left, limit}) = (IF left <= limit THEN left ELSE limit)
    BY <2>1, MaxOfTwo
  <2> QED BY <2>2, <2>3 DEF end, left
<1> HIDE DEF last, size, n
<1>3. /\ size \in Nat /\ last \in Int /\ offset + 1 \in Int
      /\ size = IF offset + 1 <= last THEN last - (offset + 1) + 1 ELSE 0
      /\ \A i \in (offset + 1)..last : i \in 1..n
      /\ \A i \in 1..size : offset + i \in 1..n /\ i \in 1..(last - (offset + 1) + 1)
  BY <1>1, <1>2 DEF Left
<1>4. page = SubSeq(s, offset + 1, last)
  BY DEF Page, last, n
<1>5. \A i \in (offset + 1)..last : s[i] \in S
  BY <1>3 DEF n
<1> HIDE DEF page
<1>6. page \in Seq(S) /\ Len(page) = size /\ \A i \in 1..size : page[i] = s[(offset + 1) + i - 1]
  BY <1>3, <1>4, <1>5, SubSeqProperties
<1>7. \A i \in 1..size : (offset + 1) + i - 1 = offset + i
  BY <1>3
<1>8. DOMAIN page = 1..size
  BY <1>6
<1>9. /\ size \in Nat /\ DOMAIN page = 1..size
      /\ \A i \in 1..size : offset + i \in 1..n /\ page[i] = s[offset + i]
  BY <1>3, <1>6, <1>7, <1>8
<1> QED BY <1>9 DEF n, size, page, PageSize

(* The choices of the property are the rows that the filter keeps.         *)
LEMMA ChoicesAre ==
    ASSUME AsksRows, NEW x, Home(x)
    PROVE  Selected(req, db) = {Choice(k) : k \in KeptRows}
<1> DEFINE n == Len(Rows)
<1>1. n \in Nat /\ DOMAIN Rows = 1..n /\ TablesOf(req) = <<req.table>>
  BY RowsHome DEF Home
<1>2. 0..(Len(TablesOf(req)) - 1) = {0} /\ {0} \ {0} = {}
  BY <1>1
<1>3. {Len(RowsAt(req, db, p)) : p \in {0}} = {n}
  BY DEF Rows
<1>4. Max({n}) = n
  <2>1. \E z \in {n} : \A y \in {n} : z >= y
    BY <1>1
  <2>2. Max({n}) \in {n}
    BY <2>1 DEF Max
  <2> QED BY <2>2
<1> HIDE DEF n
<1>5. Selected(req, db) = {choice \in [{0} -> 0..n] : choice[0] \in DOMAIN Rows /\ Kept(req, db, choice)}
  BY <1>2, <1>3, <1>4 DEF Selected, Rows
<1>6. ASSUME NEW k \in KeptRows PROVE Choice(k) \in Selected(req, db)
  <2>1. k \in DOMAIN Rows /\ k \in 0..n /\ Kept(req, db, Choice(k))
    BY <1>1 DEF KeptRows
  <2>2. Choice(k) \in [{0} -> 0..n] /\ Choice(k)[0] = k
    BY <2>1 DEF Choice
  <2> QED BY <1>5, <2>1, <2>2
<1>7. ASSUME NEW choice \in Selected(req, db) PROVE \E k \in KeptRows : choice = Choice(k)
  <2>1. choice \in [{0} -> 0..n] /\ choice[0] \in DOMAIN Rows /\ Kept(req, db, choice)
    BY <1>5
  <2>2. choice = Choice(choice[0])
    BY <2>1 DEF Choice
  <2>3. choice[0] \in KeptRows
    BY <2>1, <2>2 DEF KeptRows
  <2> QED BY <2>2, <2>3
<1> QED BY <1>6, <1>7

LEMMA ChoicesCount ==
    ASSUME NEW S, IsFiniteSet(S), NEW T, T = {Choice(k) : k \in S}
    PROVE  Cardinality(T) = Cardinality(S)
<1> DEFINE f == [k \in S |-> Choice(k)]
<1>1. \A k : Choice(k)[0] = k
  BY DEF Choice
<1>2. f \in Bijection(S, T)
  <2>1. f \in [S -> T] /\ \A t \in T : \E k \in S : f[k] = t
    OBVIOUS
  <2>2. \A a, b \in S : f[a] = f[b] => a = b
    BY <1>1
  <2> HIDE DEF f
  <2> QED BY <2>1, <2>2 DEF Bijection, Injection, Surjection, IsInjective
<1>3. ExistsBijection(S, T)
  BY <1>2 DEF ExistsBijection
<1> QED BY <1>3, FS_Bijection

(* A row is told under the names of its columns.                           *)
LEMMA JsonIs ==
    ASSUME NEW names, names \in Seq(ToSet(names)), NEW row, NEW value,
           \A j \in DOMAIN names : row[j] = value[names[j]]
    PROVE  \A j \in DOMAIN names : RowToJson(names, row)[names[j]] = value[names[j]]
<1> SUFFICES ASSUME NEW j \in DOMAIN names
             PROVE  RowToJson(names, row)[names[j]] = value[names[j]]
  OBVIOUS
<1> DEFINE n == names[j]
           places == {i \in DOMAIN names : names[i] = n}
           last(i) == names[i] = n /\ \A k \in DOMAIN names : names[k] = n => k <= i
           m == CHOOSE i \in DOMAIN names : last(i)
<1>1. DOMAIN names = 1..Len(names) /\ Len(names) \in Nat
  OBVIOUS
<1>2. \E i \in DOMAIN names : last(i)
  <2>1. places \subseteq 1..Len(names) /\ places # {}
    BY <1>1
  <2>2. \A i : i \in places <=> i \in DOMAIN names /\ names[i] = n
    OBVIOUS
  <2> HIDE DEF places
  <2>3. Max(places) \in places /\ \A i \in places : i <= Max(places)
    BY <1>1, <2>1, LastOf
  <2> QED BY <2>2, <2>3
<1>3. m \in DOMAIN names /\ names[m] = n
  BY <1>2
<1>4. n \in ToSet(names)
  BY DEF ToSet
<1>5. RowToJson(names, row)[n] = row[m]
  BY <1>4 DEF RowToJson
<1> HIDE DEF m
<1> QED BY <1>3, <1>5

-----------------------------------------------------------------------------
(* Limit and offset are numbers once the extractor is passed.              *)
LEMMA PagingIs ==
    ASSUME req \in Requests, {req.limit, req.offset} \cap {Malformed, Huge} = {}
    PROVE  Paging(req).limit \in Nat /\ Paging(req).offset \in Nat
<1>1. \A raw \in {req.limit, req.offset} : raw \in Int \cup {None}
  BY ParametersAssumption
<1>2. None \notin Int /\ MaxU32 \in Nat /\ DefaultPageSize \in Nat /\ MaxPageSize \in Nat
  BY ParametersAssumption, LimitsAssumption
<1>3. ASSUME NEW raw \in Int \cup {None}, raw \notin {Malformed, Huge}
      PROVE  Saturating(raw).val \in Nat \cup {None}
  <2>1. CASE raw = None
    BY <1>3, <2>1 DEF Saturating, Ok
  <2>2. CASE raw # None
    <3>1. Saturating(raw) = Ok(IF raw < 0 THEN 0 ELSE IF raw > MaxU32 THEN MaxU32 ELSE raw)
      BY <1>3, <2>2 DEF Saturating
    <3> QED BY <1>2, <1>3, <2>2, <3>1 DEF Ok
  <2> QED BY <2>1, <2>2
<1>4. ASSUME NEW limit \in Nat \cup {None} PROVE ClampLimit(limit) \in Nat
  BY <1>2, <1>4 DEF ClampLimit
<1>5. Saturating(req.limit).val \in Nat \cup {None} /\ Saturating(req.offset).val \in Nat \cup {None}
  BY <1>1, <1>3
<1> QED BY <1>4, <1>5 DEF Paging

(* The rows of the statement and those of the answer.                      *)
TellsRows(q, names, rows) ==
    LET value == Evaluate(db, q).val
    IN rows = [i \in DOMAIN value |-> RowToJson(names, value[i])]

RowsLined(rows, names, n, offset, limit) ==
    LET size == PageSize(n, limit, offset)
    IN /\ size \in Nat /\ DOMAIN rows = 1..size /\ Len(rows) = size
       /\ \E L : /\ Lining(L, n)
                 /\ \A i \in 1..size :
                    /\ offset + i \in 1..n
                    /\ \A j \in DOMAIN names : rows[i][names[j]] = Rows[L[offset + i]][names[j]]

LEMMA RowsTold ==
    ASSUME HasEngine(db), AsksRows, NEW x, Home(x), NEW q, NEW names, Placed(q, names),
           \A i \in DOMAIN Filters(req) : Filters(req)[i].column \in ColumnNames(x),
           req.sort # None => req.sort \in ColumnNames(x),
           names \in Seq(ToSet(names)), ToSet(names) \subseteq ColumnNames(x),
           Evaluate(db, q).ok, NEW rows, TellsRows(q, names, rows),
           Paging(req).limit \in Nat, Paging(req).offset \in Nat
    PROVE  /\ IsFiniteSet(KeptRows)
           /\ RowsLined(rows, names, Cardinality(KeptRows), Paging(req).offset, Paging(req).limit)
<1> DEFINE n == Cardinality(KeptRows)
           offset == Paging(req).offset
           limit == Paging(req).limit
           size == PageSize(n, limit, offset)
           page == Page(Ordered(db, q), limit, offset)
           value == Evaluate(db, q).val
<1>1. IsFiniteSet(KeptRows)
  BY OrderedIs
<1>2. PICK L : Lining(L, n) /\ Ordered(db, q) = [i \in 1..n |-> <<Rows[L[i]]>>]
  BY OrderedIs
<1>3. /\ q.limit = limit /\ q.offset = offset
      /\ DOMAIN q.list = DOMAIN names /\ \A j \in DOMAIN names : q.list[j] = <<0, names[j]>>
  BY DEF Placed, AskedFor
<1>4. value = [i \in DOMAIN page |-> [j \in DOMAIN q.list |-> Shown(page[i], q.list[j])]]
  <2> HIDE DEF limit, offset
  <2>1. Evaluate(db, q) = Ok([i \in DOMAIN page |-> [j \in DOMAIN q.list |-> Shown(page[i], q.list[j])]])
    <3> HIDE DEF page
    <3>1. page = Page(Ordered(db, q), q.limit, q.offset)
      BY <1>3 DEF page, limit, offset
    <3> QED BY <3>1 DEF Evaluate, Err
  <2> QED BY <2>1 DEF Ok
<1>5. /\ size \in Nat /\ DOMAIN page = 1..size
      /\ \A i \in 1..size : offset + i \in 1..n /\ page[i] = <<Rows[L[offset + i]]>>
  <2> DEFINE s == [i \in 1..n |-> <<Rows[L[i]]>>]
             S == {<<Rows[k]>> : k \in KeptRows}
  <2>1. n \in Nat /\ \A i \in 1..n : L[i] \in KeptRows
    BY <1>2 DEF Lining
  <2>2. s \in Seq(S) /\ Len(s) = n /\ \A i \in 1..n : s[i] = <<Rows[L[i]]>>
    <3>1. \A i \in 1..n : <<Rows[L[i]]>> \in S
      BY <2>1
    <3> HIDE DEF n, S
    <3> QED BY <2>1, <3>1
  <2> HIDE DEF s, S, n, page, limit, offset, size
  <2>3. limit \in Nat /\ offset \in Nat /\ s \in Seq(S)
    BY <2>2 DEF limit, offset
  <2>5. /\ PageSize(Len(s), limit, offset) \in Nat
        /\ DOMAIN Page(s, limit, offset) = 1..PageSize(Len(s), limit, offset)
        /\ \A i \in 1..PageSize(Len(s), limit, offset) :
                offset + i \in 1..Len(s) /\ Page(s, limit, offset)[i] = s[offset + i]
    BY <2>3, PageShows
  <2>4. Ordered(db, q) = s
    BY <1>2 DEF s, n
  <2> QED BY <2>2, <2>5, <2>4 DEF page, size
<1> HIDE DEF page, size, n, limit, offset, value
<1>6. DOMAIN value = 1..size /\ \A i \in 1..size : \A j \in DOMAIN names :
            value[i][j] = Rows[L[offset + i]][names[j]]
  <2> SUFFICES ASSUME NEW i \in 1..size, NEW j \in DOMAIN names
               PROVE  value[i][j] = Rows[L[offset + i]][names[j]]
    BY <1>4, <1>5
  <2>1. value[i][j] = Shown(page[i], <<0, names[j]>>)
    BY <1>3, <1>4, <1>5
  <2>2. page[i][<<0, names[j]>>[1] + 1] = Rows[L[offset + i]]
    BY <1>5
  <2>3. L[offset + i] \in DOMAIN Rows
    BY <1>2, <1>5 DEF Lining, KeptRows
  <2>4. names[j] \in DOMAIN Rows[L[offset + i]]
    <3>1. names[j] \in ColumnNames(x)
      BY DEF ToSet
    <3>2. Rows \in Seq([ColumnNames(x) -> Texts \cup {Null}])
      BY RowsHome DEF Home
    <3> QED BY <2>3, <3>1, <3>2
  <2> QED BY <2>1, <2>2, <2>4 DEF Shown
<1>7. /\ DOMAIN rows = 1..size
      /\ \A i \in 1..size : rows[i] = RowToJson(names, value[i])
  BY <1>6 DEF TellsRows, value
<1>8. Len(rows) = size
  BY <1>5, <1>6 DEF TellsRows, value
<1>9. \A i \in 1..size : \A j \in DOMAIN names : rows[i][names[j]] = Rows[L[offset + i]][names[j]]
  BY <1>6, <1>7, JsonIs
<1>10. \A i \in 1..size :
            /\ offset + i \in 1..n
            /\ \A j \in DOMAIN names : rows[i][names[j]] = Rows[L[offset + i]][names[j]]
  BY <1>5, <1>9
<1>11. \E K : /\ Lining(K, n)
              /\ \A i \in 1..size :
                    /\ offset + i \in 1..n
                    /\ \A j \in DOMAIN names : rows[i][names[j]] = Rows[K[offset + i]][names[j]]
  BY <1>2, <1>10, ZenonT(60)
<1>12. RowsLined(rows, names, n, offset, limit)
  BY <1>5, <1>7, <1>8, <1>11 DEF RowsLined, size
<1> QED BY <1>1, <1>12 DEF n, offset, limit

-----------------------------------------------------------------------------
(* The page of PageIsRight, whatever the body of the answer.               *)
PageOf(r, d, body) ==
    LET all == Selected(r, d)
        n == Cardinality(all)
        rows == body.rows
        page == Paging(r)
        left == IF n > page.offset THEN n - page.offset ELSE 0
        columns == body.columns
        shows(choice, row) ==
            \A i \in DOMAIN columns :
                row[columns[i].name] =
                    IF IsJoin(r)
                    THEN Cell(r, d, choice, columns[i].join, columns[i].column.name)
                    ELSE Cell(r, d, choice, 0, columns[i].name)
    IN /\ Len(rows) = Min({left, page.limit})
       /\ \E choice \in [DOMAIN rows -> all] :
            /\ IsInjective(choice)
            /\ \A i \in DOMAIN rows :
                LET before == {c \in all : Before(r, d, c, choice[i])}
                    after == {c \in all : Before(r, d, choice[i], c)}
                IN /\ shows(choice[i], rows[i])
                   /\ Cardinality(before) < page.offset + i
                   /\ Cardinality(after) <= n - (page.offset + i)
       /\ IsJoin(r) => body.hasMore = (left > page.limit)
PageRight(body) == PageOf(req, db, body)

(* A result that tells the rows of the SELECT asked for is the page.       *)
LEMMA PageHolds ==
    ASSUME HasEngine(db), AsksRows, NEW x, Home(x), NEW q, NEW names, Placed(q, names),
           \A i \in DOMAIN Filters(req) : Filters(req)[i].column \in ColumnNames(x),
           req.sort # None => req.sort \in ColumnNames(x),
           names \in Seq(ToSet(names)), ToSet(names) \subseteq ColumnNames(x),
           Evaluate(db, q).ok, NEW body, TellsRows(q, names, body.rows),
           names = Names(body.columns),
           Paging(req).limit \in Nat, Paging(req).offset \in Nat
    PROVE  PageRight(body)
<1> DEFINE all == Selected(req, db)
           n == Cardinality(all)
           rows == body.rows
           page == Paging(req)
           offset == page.offset
           left == IF n > offset THEN n - offset ELSE 0
           columns == body.columns
           shows(choice, row) ==
                \A i \in DOMAIN columns :
                    row[columns[i].name] =
                        IF IsJoin(req)
                        THEN Cell(req, db, choice, columns[i].join, columns[i].column.name)
                        ELSE Cell(req, db, choice, 0, columns[i].name)
           before(c) == {b \in all : Before(req, db, b, c)}
           after(c) == {b \in all : Before(req, db, c, b)}
           size == PageSize(n, page.limit, offset)
<1>1. ~IsJoin(req) /\ all = {Choice(k) : k \in KeptRows}
  BY RowsHome, ChoicesAre
<1> SUFFICES /\ Len(rows) = Min({left, page.limit})
             /\ \E choice \in [DOMAIN rows -> all] :
                    /\ IsInjective(choice)
                    /\ \A i \in DOMAIN rows :
                        /\ shows(choice[i], rows[i])
                        /\ Cardinality(before(choice[i])) < offset + i
                        /\ Cardinality(after(choice[i])) <= n - (offset + i)
  BY <1>1, Zenon DEF PageRight, PageOf
<1> HIDE DEF before, after, shows, all
<1>2. IsFiniteSet(KeptRows)
  BY RowsTold
<1>3. n = Cardinality(KeptRows)
  BY <1>1, <1>2, ChoicesCount
<1>4. PICK L : /\ Lining(L, n) /\ size \in Nat /\ DOMAIN rows = 1..size /\ Len(rows) = size
               /\ \A i \in 1..size :
                    /\ offset + i \in 1..n
                    /\ \A j \in DOMAIN names : rows[i][names[j]] = Rows[L[offset + i]][names[j]]
  <2> DEFINE m == Cardinality(KeptRows)
             of == Paging(req).offset
             most == PageSize(m, Paging(req).limit, of)
  <2>1. RowsLined(rows, names, m, of, Paging(req).limit)
    BY RowsTold
  <2>2. m = n /\ of = offset /\ most = size
    BY <1>3
  <2> HIDE DEF m, of, n, offset, rows, size
  <2> QED BY <2>1, <2>2 DEF RowsLined
<1>5. ASSUME NEW i \in 1..n
      PROVE  /\ L[i] \in KeptRows /\ Choice(L[i]) \in all
             /\ Cardinality(before(Choice(L[i]))) < i /\ Cardinality(after(Choice(L[i]))) <= n - i
  <2> DEFINE sooner == {k \in KeptRows : Before(req, db, Choice(k), Choice(L[i]))}
             later == {k \in KeptRows : Before(req, db, Choice(L[i]), Choice(k))}
  <2>1. /\ L[i] \in KeptRows /\ n \in Nat
        /\ Cardinality(sooner) \in 0..(i - 1) /\ Cardinality(later) \in 0..(n - i)
    BY <1>4 DEF Lining
  <2>2. /\ before(Choice(L[i])) = {Choice(k) : k \in sooner}
        /\ after(Choice(L[i])) = {Choice(k) : k \in later}
    BY <1>1 DEF before, after
  <2>3. IsFiniteSet(sooner) /\ IsFiniteSet(later)
    <3>1. sooner \subseteq KeptRows /\ later \subseteq KeptRows
      OBVIOUS
    <3> HIDE DEF sooner, later
    <3> QED BY <1>2, <3>1, FS_Subset
  <2> HIDE DEF sooner, later, n
  <2>4. /\ Cardinality(before(Choice(L[i]))) = Cardinality(sooner)
        /\ Cardinality(after(Choice(L[i]))) = Cardinality(later)
    BY <2>2, <2>3, ChoicesCount
  <2>5. Choice(L[i]) \in all
    BY <1>1, <2>1
  <2> QED BY <2>1, <2>4, <2>5
<1> DEFINE choice == [i \in 1..size |-> Choice(L[offset + i])]
<1>6. choice \in [DOMAIN rows -> all]
  BY <1>4, <1>5
<1>7. IsInjective(choice)
  <2> SUFFICES ASSUME NEW i \in 1..size, NEW j \in 1..size, choice[i] = choice[j] PROVE i = j
    BY DEF IsInjective
  <2>1. Choice(L[offset + i])[0] = Choice(L[offset + j])[0]
    OBVIOUS
  <2>2. L[offset + i] = L[offset + j]
    BY <2>1 DEF Choice
  <2>3. offset + i \in 1..n /\ offset + j \in 1..n
    BY <1>4
  <2> HIDE DEF n, choice, offset
  <2>4. offset + i = offset + j
    BY <1>4, <2>2, <2>3 DEF Lining
  <2> QED BY <1>4, <2>4 DEF offset
<1>8. ASSUME NEW i \in 1..size
      PROVE  /\ shows(choice[i], rows[i])
             /\ Cardinality(before(choice[i])) < offset + i
             /\ Cardinality(after(choice[i])) <= n - (offset + i)
  <2> DEFINE k == L[offset + i]
  <2>1. choice[i] = Choice(k) /\ offset + i \in 1..n /\ k \in KeptRows
    BY <1>4, <1>5
  <2>2. k # 0 /\ Choice(k)[0] = k
    <3>1. k \in DOMAIN Rows /\ Rows \in Seq([ColumnNames(x) -> Texts \cup {Null}])
      BY <2>1, RowsHome DEF KeptRows, Home
    <3>2. k # 0
      BY <3>1
    <3> QED BY <3>2 DEF Choice
  <2>3. \A c : Cell(req, db, Choice(k), 0, c) = Rows[k][c]
    BY <2>2 DEF Cell, Rows
  <2>4. \A j \in DOMAIN columns : rows[i][columns[j].name] = Rows[k][columns[j].name]
    BY <1>4 DEF Names
  <2> HIDE DEF k, choice, n, offset, size
  <2>5. shows(choice[i], rows[i])
    BY <1>1, <2>1, <2>3, <2>4 DEF shows
  <2>6. /\ Cardinality(before(Choice(k))) < offset + i
        /\ Cardinality(after(Choice(k))) <= n - (offset + i)
    BY <1>5, <2>1 DEF k
  <2> QED BY <2>1, <2>5, <2>6
<1> HIDE DEF choice
<1>9. size = Min({left, page.limit})
  BY DEF PageSize, Left
<1> HIDE DEF n, size, left, offset
<1> QED BY <1>4, <1>6, <1>7, <1>8, <1>9

-----------------------------------------------------------------------------
(* The SELECT of a table asks for the columns that were read of it.        *)
Spelled(known) == Names(known[<<"columns", req.table>>])
Suited(q, known) ==
    /\ Has(known, "columns", req.table) /\ Resolved(known)
    /\ q.schema = SchemaOf(known) /\ AskedFor(q, Spelled(known))
SuitInv == sql # None /\ Asks({"data"}) => Suited(sql, read)

(* What it returned is what the database has for it.                       *)
ResultInv ==
    ~disturbed /\ req # None /\ Asks({"data"}) /\ Has(read, "select", None) =>
        read[<<"select", None>>] = Evaluate(db, sql).val

TablePagesRight == req # None /\ Asks({"data"}) => PageIsRight
PInv == SuitInv /\ ResultInv /\ TablePagesRight

LEMMA SpelledIs ==
    ASSUME NEW known
    PROVE  Names(TableMeta(known, req.table).columns) = Spelled(known)
<1> DEFINE columns == known[<<"columns", req.table>>]
           meta == TableMeta(known, req.table).columns
<1>1. DOMAIN meta = DOMAIN columns /\ \A i \in DOMAIN columns : meta[i].name = columns[i].name
  BY DEF TableMeta, ColMeta
<1> HIDE DEF meta, columns
<1>2. Names(meta) = Names(columns)
  BY <1>1 DEF Names
<1> QED BY <1>2 DEF meta, columns, Spelled

(* The SELECT that query_table builds is the one asked for.                *)
LEMMA SelectSuits ==
    ASSUME NEW known, Ready(known), Selects(known), Asks({"data"}), TableSelect(known).ok
    PROVE  Suited(TableSelect(known).val, known)
<1> DEFINE opts == QueryOpts(req).val
           t == req.table
           names == Names(TableMeta(known, t).columns)
           filter == ReadFilter(opts)
           where == Where(filter, ToSet(names))
           select == TableSelect(known)
           order == IF opts.sort = None THEN None
                    ELSE NativeOrder(<<0, opts.sort>>, opts.descending)
           checks == CheckAll(filter, ToSet(names))
<1>1. Tables = <<t>> /\ req \in Requests /\ HasEngine(db) /\ QueryOpts(req).ok
  BY ReadyIs DEF Tables, Asks
<1>2. /\ filter = Filters(req) /\ opts.sort = req.sort
      /\ opts.descending = (req.order = "desc") /\ opts.page = Paging(req)
  <2>1. filter = Filters(req) /\ opts.sort = req.sort
    BY <1>1, QueryReads
  <2>2. /\ opts.descending = IsDescending(req.order).val /\ opts.page = Paging(req)
        /\ IsDescending(req.order).ok
    <3> DEFINE f == FilterOf(req.filter, FALSE)
               descending == IsDescending(req.order)
               all == [page |-> Paging(req), sort |-> req.sort, descending |-> descending.val,
                       timeout |-> QueryTimeoutSecs, filter |-> f.val]
               rest == AndThen(descending, Ok(all))
    <3>1. QueryOpts(req) = AndThen(f, rest)
      BY DEF QueryOpts
    <3> HIDE DEF f, descending, all, rest
    <3>2. QueryOpts(req) = rest
      BY <1>1, <3>1, AndThenOk
    <3>3. descending.ok /\ rest = Ok(all)
      BY <1>1, <3>2, AndThenOk DEF rest
    <3>4. opts = all
      BY <3>2, <3>3 DEF Ok
    <3> QED BY <3>3, <3>4 DEF all, descending
  <2>3. IsDescending(req.order).val = (req.order = "desc")
    <3>1. CASE req.order \in {None, "asc"}
      <4>1. req.order # "desc"
        BY <3>1, ParametersAssumption
      <4> QED BY <3>1, <4>1 DEF IsDescending, Ok
    <3>2. CASE req.order \notin {None, "asc"}
      BY <2>2, <3>2 DEF IsDescending, Ok, Err
    <3> QED BY <3>1, <3>2
  <2> QED BY <2>1, <2>2, <2>3
<1>3. Has(known, "columns", t)
  <2>1. 1 \in DOMAIN Tables /\ Tables[1] = t
    BY <1>1
  <2> QED BY <2>1, SelectsDescribed DEF Ready
<1>4. where = AndThen(FirstError(checks), Ok(Terms(filter)))
  BY <1>1, WhereIs
<1>5. select = QueryTable(SchemaOf(known), names, opts, where)
  BY DEF TableSelect, ReadFilter
<1> HIDE DEF where, names, filter, checks, opts, select
<1>6. where.ok
  BY <1>5, QueryTableIs, ZenonT(40) DEF select
<1>7. where.val = Terms(Filters(req))
  BY <1>2, <1>4, <1>6, AndThenOk DEF Ok
<1>8. select.val = [schema |-> SchemaOf(known), bare |-> TRUE, tables |-> <<t>>,
                    kinds |-> <<>>, ons |-> <<>>, onText |-> FALSE,
                    list |-> [i \in DOMAIN names |-> <<0, names[i]>>],
                    where |-> where.val, sort |-> order,
                    limit |-> opts.page.limit, offset |-> opts.page.offset]
  BY <1>5, QueryTableIs DEF select
<1>9. order = IF req.sort = None THEN None ELSE NativeOrder(<<0, req.sort>>, req.order = "desc")
  BY <1>2
<1> HIDE DEF order
<1>10. AskedFor(select.val, names) /\ select.val.schema = SchemaOf(known)
  BY <1>2, <1>7, <1>8, <1>9 DEF AskedFor
<1>11. names = Spelled(known)
  BY SpelledIs DEF names
<1> QED BY <1>3, <1>10, <1>11 DEF Suited, select, Selects

-----------------------------------------------------------------------------
(* The table of a request that nothing met, and its columns.               *)
LEMMA TableAtHome ==
    ASSUME NEW known, Ready(known), ~disturbed, Asks({"data"}), BuiltRight(req, db),
           Resolved(known), Has(known, "columns", req.table)
    PROVE  \E x : /\ Home(x)
                  /\ \A c : HasColumn(db, SchemaAsked(req, db), req.table, c) <=> c \in ColumnNames(x)
                  /\ ToSet(Spelled(known)) \subseteq ColumnNames(x)
                  /\ SchemaOf(known) = SchemaAsked(req, db)
<1> DEFINE s == SchemaAsked(req, db)
           t == req.table
<1>1. /\ seen = {db} /\ OriginOf(db, seen) /\ \E n \in ToSet(Sources) : db = Databases[n]
  <2>1. seen # {}
    BY ReadyIs
  <2>2. seen = {db} /\ \E n \in ToSet(Sources) : db = Databases[n]
    BY <2>1 DEF Ready, AInv, CalmInv
  <2>3. \E o \in seen : OriginOf(o, seen)
    BY <2>1 DEF Ready, OriginInv
  <2> QED BY <2>2, <2>3
<1>2. SchemaOf(known) = s
  BY <1>1, SchemaIs
<1>3. Served(db, s, t)
  <2>1. TablesOf(req) = <<t>>
    BY DEF TablesOf, IsJoin, Asks
  <2>2. 1 \in DOMAIN TablesOf(req) /\ TablesOf(req)[1] = t
    BY <2>1
  <2> QED BY <2>2 DEF BuiltRight
<1>4. TableSeen(s, t)
  BY <1>1, <1>3 DEF TableSeen
<1>5. PICK x \in TablesAt(db, s, t) : Relations(db, s, t) = {x}
  BY <1>1, <1>2, <1>4, OneAtStart
<1>6. Home(x)
  BY <1>1, <1>5, HomeIs
<1>7. \A c : HasColumn(db, s, t, c) <=> c \in ColumnNames(x)
  BY <1>5 DEF HasColumn
<1>8. ToSet(Spelled(known)) \subseteq ColumnNames(x)
  <2>1. Finds(known, db, "columns", t, known[<<"columns", t>>])
    BY <1>1 DEF Ready, Founded, Sound, Has
  <2>2. \A c : HasColumn(db, s, t, c) <=>
                \E i \in DOMAIN known[<<"columns", t>>] : known[<<"columns", t>>][i].name = c
    BY <1>2, <2>1 DEF Finds
  <2> QED BY <1>7, <2>2 DEF Spelled, Names, ToSet
<1> QED BY <1>2, <1>6, <1>7, <1>8

LEMMA SpelledInOrder ==
    ASSUME NEW known, ColumnsInOrder(known), Has(known, "columns", req.table)
    PROVE  Spelled(known) \in Seq(ToSet(Spelled(known)))
<1> DEFINE columns == known[<<"columns", req.table>>]
           names == Names(columns)
<1>1. columns \in Seq(ToSet(columns))
  BY DEF ColumnsInOrder, InOrder, Has
<1>2. names = [i \in DOMAIN columns |-> columns[i].name]
  BY DEF Names
<1> HIDE DEF columns, names
<1>3. DOMAIN columns = 1..Len(columns) /\ Len(columns) \in Nat
  BY <1>1
<1>4. \A i \in DOMAIN columns : names[i] \in ToSet(names)
  BY <1>2 DEF ToSet
<1>5. names \in Seq(ToSet(names))
  BY <1>2, <1>3, <1>4
<1> QED BY <1>5 DEF Spelled, names, columns

(* The answer to a request for a table's rows that nothing met.            *)
LEMMA BodyShows ==
    ASSUME NEW known, Ready(known), ~disturbed, Asks({"data"}), PassedInv, BuiltRight(req, db),
           NEW q, Suited(q, known), Evaluate(db, q).ok,
           known[<<"select", None>>] = Evaluate(db, q).val
    PROVE  PageRight(Body(known))
<1> DEFINE names == Spelled(known)
           body == Body(known)
           value == Evaluate(db, q).val
<1>1. /\ HasEngine(db) /\ AsksRows /\ Runs
  BY ReadyIs DEF AsksRows, Ready
<1>2. PICK x : /\ Home(x)
               /\ \A c : HasColumn(db, SchemaAsked(req, db), req.table, c) <=> c \in ColumnNames(x)
               /\ ToSet(names) \subseteq ColumnNames(x)
               /\ SchemaOf(known) = SchemaAsked(req, db)
  BY TableAtHome DEF Suited
<1>3. Placed(q, names)
  BY <1>2 DEF Placed, Suited
<1>4. /\ \A i \in DOMAIN Filters(req) : Filters(req)[i].column \in ColumnNames(x)
      /\ req.sort # None => req.sort \in ColumnNames(x)
  <2>1. /\ ~IsJoin(req) /\ req.sortJoin = None /\ TablesOf(req) = <<req.table>>
        /\ \A i \in DOMAIN Filters(req) : Filters(req)[i].join = None
    BY <1>1, QueryReads, FiltersReadIs DEF AsksRows, TablesOf, FiltersRead
  <2>2. \A p : Position(p) = 0 => TablePosition(req, p) /\ TableAt(req, p) = req.table
    BY <2>1 DEF TablePosition, TableAt
  <2>3. Position(None) = 0
    BY DEF Position
  <2>4. req.sort # None => <<req.table, req.sort>> \in SortsBy(req)
    BY <2>1, <2>2, <2>3 DEF SortsBy
  <2>5. \A i \in DOMAIN Filters(req) : <<req.table, Filters(req)[i].column>> \in FiltersBy(req)
    BY <2>1, <2>2, <2>3 DEF FiltersBy
  <2>6. \A c : <<req.table, c>> \in SortsBy(req) \cup FiltersBy(req) => c \in ColumnNames(x)
    BY <1>2 DEF BuiltRight
  <2> QED BY <2>4, <2>5, <2>6
<1>5. names \in Seq(ToSet(names))
  BY SpelledInOrder DEF Ready, Suited
<1>6. Paging(req).limit \in Nat /\ Paging(req).offset \in Nat
  <2>1. Extract(req).ok /\ req.route = "data" /\ req \in Requests
    BY <1>1, EarlyPasses DEF PassedInv, Runs, Asks, AsksRows
  <2>2. {req.limit, req.offset} \cap {Malformed, Huge} = {}
    BY <2>1, ExtractIs
  <2> QED BY <2>1, <2>2, PagingIs
<1>7. /\ body.columns = TableMeta(known, req.table).columns
      /\ body.rows = [i \in DOMAIN value |-> RowToJson(Names(body.columns), value[i])]
  BY DEF Body, TableData, Asks
<1>8. names = Names(body.columns)
  BY <1>7, SpelledIs
<1>9. TellsRows(q, names, body.rows)
  BY <1>7, <1>8 DEF TellsRows
<1> HIDE DEF names, body, value
<1>10. PageRight(body)
  BY <1>1, <1>2, <1>3, <1>4, <1>5, <1>6, <1>8, <1>9, PageHolds
<1> QED BY <1>10 DEF body

-----------------------------------------------------------------------------
(* The invariant.                                                          *)
LEMMA PageStands ==
    ASSUME UNCHANGED <<req, db>>, NEW body, answer'.body = body, PageRight(body)
    PROVE  PageIsRight'
<1>1. PageOf(req', db', answer'.body)
  BY DEF PageRight
<1>2. PageOf(req, db, answer.body)'
  BY <1>1
<1> QED BY <1>2, Zenon DEF PageIsRight, PageOf

LEMMA SuitStands ==
    ASSUME UNCHANGED <<req, Engine>>, NEW q, NEW known, Suited(q, known), sql' = q, read' = known
    PROVE  SuitInv'
<1>1. Has(known, "columns", req.table)' /\ Resolved(known)'
  BY DEF Suited, Has, Resolved
<1>2. SchemaOf(known)' = SchemaOf(known) /\ Spelled(known)' = Spelled(known)
  BY DEF SchemaOf, Spelled
<1>3. \A names : AskedFor(q, names) => AskedFor(q, names)'
  <2> SUFFICES ASSUME NEW names, AskedFor(q, names) PROVE AskedFor(q, names)'
    OBVIOUS
  <2>1. req' = req
    OBVIOUS
  <2>2. \A filter : Terms(filter)' = Terms(filter)
    BY DEF Terms, Keyword, By
  <2>3. Filters(req)' = Filters(req) /\ Paging(req)' = Paging(req)
    BY <2>1
  <2> QED BY <2>1, <2>2, <2>3 DEF AskedFor
<1>4. Suited(q, known)'
  BY <1>1, <1>2, <1>3 DEF Suited
<1> QED BY <1>4 DEF SuitInv

(* A statement's result.                                                   *)
LEMMA FindingPages ==
    ASSUME IInv, AInv, IInv', AInv', WInv, WInv', PInv,
           NEW kind, NEW t, NEW value, Finding(kind, t, value)
    PROVE  PInv'
<1>1. PICK known : /\ Extends(known, kind, t, value) /\ Proceed(known, Verdict(known))
                   /\ Runs /\ Knows /\ ~Has(read, kind, t) /\ Ready(known)
  BY FindingReady DEF WInv
<1> DEFINE verdict == Verdict(known)
<1>2. /\ read' = known /\ UNCHANGED <<db, variant, req, seen, disturbed>> /\ Engine' = Engine
      /\ sql' = IF verdict.ok /\ Selects(known) THEN verdict.val ELSE sql
      /\ answer' = CASE ~verdict.ok -> Problem(verdict.code)
                     [] verdict.ok /\ Complete(known) -> Success(Body(known))
                     [] OTHER -> Pending
  BY <1>1 DEF Proceed, Engine
<1>3. Asks({"data"}) /\ sql' # None => Suited(sql', known)
  <2> SUFFICES ASSUME Asks({"data"}), sql' # None PROVE Suited(sql', known)
    OBVIOUS
  <2>1. CASE verdict.ok /\ Selects(known)
    <3> DEFINE rest == AndThen(TableFault(known), AndThen(NamesFault(known), TableSelect(known)))
    <3>1. verdict = AndThen(SchemaFault(known), rest)
      BY <2>1 DEF Verdict, SelectOf, Asks
    <3>2. rest.ok /\ verdict = rest
      <4> HIDE DEF rest, verdict
      <4> QED BY <2>1, <3>1, AndThenOk
    <3>3. /\ AndThen(NamesFault(known), TableSelect(known)).ok
          /\ rest = AndThen(NamesFault(known), TableSelect(known))
      BY <3>2, AndThenOk
    <3>4. TableSelect(known).ok /\ rest = TableSelect(known)
      BY <3>3, AndThenOk
    <3> HIDE DEF rest, verdict
    <3>5. sql' = TableSelect(known).val
      BY <1>2, <2>1, <3>2, <3>4
    <3> QED BY <1>1, <2>1, <3>4, <3>5, SelectSuits
  <2>2. CASE ~(verdict.ok /\ Selects(known))
    <3>1. sql' = sql /\ Suited(sql, read)
      BY <1>2, <2>2 DEF PInv, SuitInv
    <3>2. \A k \in DOMAIN read : k \in DOMAIN known /\ known[k] = read[k]
      BY <1>1 DEF Extends, Has
    <3>3. Has(known, "columns", req.table) /\ Spelled(known) = Spelled(read)
      BY <3>1, <3>2 DEF Suited, Has, Spelled
    <3>4. Resolved(known) /\ SchemaOf(known) = SchemaOf(read)
      BY <3>1, <3>2 DEF Suited, Resolved, SchemaOf, Has
    <3>5. Suited(sql, known)
      BY <3>1, <3>3, <3>4 DEF Suited
    <3> QED BY <3>1, <3>5
  <2> QED BY <2>1, <2>2
<1>4. SuitInv'
  <2>1. CASE Asks({"data"}) /\ sql' # None
    BY <1>2, <1>3, <2>1, SuitStands
  <2>2. CASE ~(Asks({"data"}) /\ sql' # None)
    BY <1>2, <2>2 DEF SuitInv, Asks
  <2> QED BY <2>1, <2>2
<1>5. ~disturbed /\ Asks({"data"}) /\ Has(known, "select", None) =>
            known[<<"select", None>>] = Evaluate(db, sql').val
  <2> SUFFICES ASSUME ~disturbed, Asks({"data"}), Has(known, "select", None)
               PROVE  known[<<"select", None>>] = Evaluate(db, sql').val
    OBVIOUS
  <2>1. sql' = sql
    BY <1>2 DEF Selects
  <2>2. CASE <<"select", None>> = <<kind, t>>
    <3>1. kind = "select" /\ known[<<"select", None>>] = value
      BY <1>1, <2>2 DEF Extends
    <3> QED BY <2>1, <3>1 DEF Finding
  <2>3. CASE <<"select", None>> # <<kind, t>>
    <3>1. Has(read, "select", None) /\ known[<<"select", None>>] = read[<<"select", None>>]
      BY <1>1, <2>3 DEF Extends, Has
    <3> QED BY <1>1, <2>1, <3>1 DEF PInv, ResultInv, Runs
  <2> QED BY <2>2, <2>3
<1>6. ResultInv'
  <2>1. PICK q : q = sql'
    OBVIOUS
  <2> QED BY <1>2, <1>5 DEF ResultInv, Asks, Has
<1>7. TablePagesRight'
  <2> SUFFICES ASSUME Asks({"data"}), Answered({"data", "join"})' PROVE PageIsRight'
    <3>1. Asks({"data"})' => Asks({"data"})
      BY <1>2 DEF Asks
    <3>2. ~Answered({"data", "join"})' => PageIsRight'
      BY DEF PageIsRight
    <3> QED BY <3>1, <3>2 DEF TablePagesRight
  <2>1. answer'.status = 200 /\ answer' # Pending /\ ~disturbed
    BY <1>2 DEF Answered
  <2>2. verdict.ok /\ Complete(known) /\ answer' = Success(Body(known))
    <3>1. CASE ~verdict.ok
      <4>1. answer' = Problem(verdict.code)
        BY <1>2, <3>1
      <4>2. answer'.status # 200
        BY <4>1 DEF Problem
      <4> QED BY <2>1, <4>2
    <3>2. CASE verdict.ok
      BY <1>2, <2>1, <3>2
    <3> QED BY <3>1, <3>2
  <2>3. Has(known, "select", None)
    BY <1>1, <2>2, CompleteIs DEF Asks, AnsweredRoutes
  <2>4. sql' # None /\ Evaluate(db, sql').ok /\ BuiltRight(req, db)
    <3>1. Has(read, "select", None)'
      BY <1>2, <2>3 DEF Has
    <3>2. sql' # None /\ Evaluate(db, sql').ok
      BY <1>2, <2>1, <3>1 DEF WInv, SelectedInv
    <3> QED BY <1>2, <2>1, <3>2 DEF WInv, BuiltInv
  <2>5. PageRight(Body(known))
    BY <1>1, <1>3, <1>5, <2>1, <2>3, <2>4, BodyShows DEF WInv
  <2>6. answer'.body = Body(known)
    BY <2>2 DEF Success
  <2> QED BY <1>2, <2>5, <2>6, PageStands
<1> QED BY <1>4, <1>6, <1>7 DEF PInv

(* What leaves the request, its database and its results as they are, and  *)
(* answers no page.                                                        *)
LEMMA KeepsPages ==
    ASSUME PInv, UNCHANGED <<db, req, read, sql>>, disturbed' \/ UNCHANGED disturbed,
           TablePagesRight'
    PROVE  PInv'
<1>1. Engine' = Engine
  BY DEF Engine
<1>2. SuitInv'
  <2>1. CASE sql # None /\ Asks({"data"})
    BY <1>1, <2>1, SuitStands DEF PInv, SuitInv
  <2>2. CASE ~(sql # None /\ Asks({"data"}))
    BY <2>2 DEF SuitInv, Asks
  <2> QED BY <2>1, <2>2
<1>3. ResultInv'
  BY DEF PInv, ResultInv, Asks, Has
<1> QED BY <1>2, <1>3 DEF PInv

LEMMA UnansweredPages ==
    ASSUME \/ answer' = Pending \/ \E code : answer' = Problem(code)
           \/ req' = None \/ ~Asks({"data"})'
    PROVE  TablePagesRight'
<1>1. CASE answer' = Pending \/ \E code : answer' = Problem(code)
  <2>1. ~Answered({"data", "join"})'
    BY <1>1 DEF Answered, Problem
  <2> QED BY <2>1 DEF TablePagesRight, PageIsRight
<1>2. CASE req' = None \/ ~Asks({"data"})'
  BY <1>2 DEF TablePagesRight
<1> QED BY <1>1, <1>2

LEMMA QuietPages ==
    ASSUME PInv, Denies \/ GivesUp \/ Pauses \/ \E i \in Checked : HealthCheck(i)
    PROVE  PInv'
<1>1. CASE Denies \/ GivesUp
  <2>1. \E code : answer' = Problem(code)
    BY <1>1 DEF Denies, GivesUp
  <2> QED BY <1>1, <2>1, UnansweredPages, KeepsPages DEF Denies, GivesUp
<1>2. CASE Pauses
  <2>1. TablePagesRight'
    <3> SUFFICES ASSUME Asks({"data"}), req # None, Answered({"data", "join"}) PROVE PageIsRight'
      BY <1>2 DEF Pauses, TablePagesRight, PageIsRight, Answered, Asks
    <3>1. PageIsRight
      BY DEF PInv, TablePagesRight
    <3>2. PageRight(answer.body)
      BY <3>1, Zenon DEF PageIsRight, PageRight, PageOf
    <3> QED BY <1>2, <3>2, PageStands DEF Pauses
  <2> QED BY <1>2, <2>1, KeepsPages DEF Pauses
<1>3. CASE \E i \in Checked : HealthCheck(i)
  <2>1. UNCHANGED <<db, req, read, sql, disturbed>> /\ ~Asks({"data"})'
    BY <1>3 DEF HealthCheck, Asks
  <2> QED BY <2>1, UnansweredPages, KeepsPages
<1> QED BY <1>1, <1>2, <1>3

(* Another session edits a table.                                          *)
LEMMA AlterPages ==
    ASSUME IInv, AInv, PInv, NEW edit \in Edits, Alter(edit)
    PROVE  PInv'
<1>1. /\ UNCHANGED <<req, read, sql, answer>> /\ disturbed' = TRUE /\ Runs
      /\ db' = Apply(db, edit) /\ Applies(db, edit) /\ edit.kind \in Edited /\ Catalogued(db)
  BY EditsAssumption DEF Alter, Meddles, Runs, IInv, SeenInv, AInv, CatalogueInv
<1>2. Engine' = Engine
  BY <1>1, ApplyCatalogued DEF Engine
<1>3. SuitInv'
  <2>1. CASE sql # None /\ Asks({"data"})
    BY <1>1, <1>2, <2>1, SuitStands DEF PInv, SuitInv
  <2>2. CASE ~(sql # None /\ Asks({"data"}))
    BY <1>1, <2>2 DEF SuitInv, Asks
  <2> QED BY <2>1, <2>2
<1>4. ResultInv'
  BY <1>1 DEF ResultInv
<1>5. TablePagesRight'
  <2>1. answer' = Pending
    BY <1>1 DEF Runs
  <2> QED BY <2>1, UnansweredPages
<1> QED BY <1>3, <1>4, <1>5 DEF PInv

LEMMA StartPages ==
    ASSUME read' = <<>>, sql' = None, TablePagesRight'
    PROVE  PInv'
BY DEF PInv, SuitInv, ResultInv, Has

LEMMA AskPages ==
    ASSUME IInv, AInv, NEW r \in Requests, Ask(r)
    PROVE  PInv'
<1>1. /\ req' = r /\ read' = <<>> /\ sql' = None
      /\ answer' = IF EarlyFault(r).ok THEN EarlyAnswer(r) ELSE Problem(EarlyFault(r).code)
  BY DEF Ask, IInv, IdleInv
<1>2. r.route = "data" => EarlyAnswer(r) = Pending
  BY DEF EarlyAnswer
<1>3. TablePagesRight'
  <2>1. CASE r.route = "data"
    <3>1. answer' = Pending \/ \E code : answer' = Problem(code)
      BY <1>1, <1>2, <2>1
    <3> QED BY <3>1, UnansweredPages
  <2>2. CASE r.route # "data"
    <3>1. ~Asks({"data"})'
      BY <1>1, <2>2 DEF Asks
    <3> QED BY <3>1, UnansweredPages
  <2> QED BY <2>1, <2>2
<1> QED BY <1>1, <1>3, StartPages

LEMMA InitPages == Init => PInv
BY DEF Init, PInv, SuitInv, ResultInv, TablePagesRight

LEMMA NextPages ==
    IInv /\ AInv /\ IInv' /\ AInv' /\ WInv /\ WInv' /\ PInv /\ [Next]_vars => PInv'
<1> SUFFICES ASSUME IInv, AInv, IInv', AInv', WInv, WInv', PInv, [Next]_vars PROVE PInv'
  OBVIOUS
<1>1. CASE \E kind, t, value : Finding(kind, t, value)
  BY <1>1, FindingPages
<1>2. CASE Denies \/ GivesUp \/ Pauses \/ \E i \in Checked : HealthCheck(i)
  BY <1>2, QuietPages
<1>3. CASE Receive
  <2>1. read' = <<>> /\ sql' = None /\ answer' = Pending
    BY <1>3 DEF Receive
  <2> QED BY <2>1, StartPages, UnansweredPages
<1>4. CASE \E edit \in Edits : Alter(edit)
  BY <1>4, AlterPages
<1>5. CASE \E r \in Requests : Ask(r)
  BY <1>5, AskPages
<1> QED BY <1>1, <1>2, <1>3, <1>4, <1>5, MoveIs DEF WInv

(* Whatever is asked of whatever table, and whatever others do meanwhile:  *)
(* a page of a table that nothing met holds as many rows as are left from  *)
(* its offset up to its limit, each one the filter keeps and none twice,   *)
(* in the order of the sort column's type and in its place, and each value *)
(* under the name of its column (query_table, where_clause, native_order   *)
(* and row_to_json of the three backends).                                 *)
THEOREM TablePagesAreRight == Spec => [](req # None /\ Asks({"data"}) => PageIsRight)
<1>1. Init => IInv /\ AInv /\ WInv /\ PInv
  BY InitInv, InitAnswers, InitVerdicts, InitPages
<1>2. (IInv /\ AInv /\ WInv /\ PInv) /\ [Next]_vars => (IInv /\ AInv /\ WInv /\ PInv)'
  BY NextInv, NextAnswers, NextVerdicts, NextPages
<1>3. (IInv /\ AInv /\ WInv /\ PInv) => (req # None /\ Asks({"data"}) => PageIsRight)
  BY DEF PInv, TablePagesRight
<1> QED BY <1>1, <1>2, <1>3, PTL DEF Spec

-----------------------------------------------------------------------------

(* The keys of one column of a table, and the column each points at.       *)
Singles(x, s) ==
    {k \in db.keys : SameTable(db, s, x.name, k.schema, k.table) /\ Len(k.pairs) = 1}
Pointed(k, s) ==
    [schema |-> Short(k.toSchema, s), table |-> k.toTable, column |-> Pairing(db, k)[1].to]
Pointers(x, s) == {<<k.pairs[1].from, Pointed(k, s)>> : k \in Singles(x, s)}

(* A served table of a database nobody touched.                            *)
Standing(x, s, t) ==
    /\ \E n \in ToSet(Sources) : db = Databases[n]
    /\ x \in db.tables /\ x.schema = s /\ x.name = t /\ Serves(db, x)
    /\ Engine = "sqlite" => s = Sq!OnlySchema
    /\ TablesAt(db, s, t) = {x} /\ Relations(db, s, t) = {x}

(* What there is to know of the keys of a table.                           *)
RightKeys(v, x, s) == v.pk = ToSet(x.pk) /\ v.references \in References(Pointers(x, s))

LEMMA OneColumn ==
    ASSUME NEW pairs, pairs \in Seq(ToSet(pairs)), pairs # <<>>,
           \A i, j \in DOMAIN pairs : pairs[i].from = pairs[j].from => i = j
    PROVE  Cardinality({pairs[i].from : i \in DOMAIN pairs}) = 1 <=> Len(pairs) = 1
<1> DEFINE n == Len(pairs)
           f == [i \in 1..n |-> pairs[i].from]
           S == {pairs[i].from : i \in DOMAIN pairs}
<1>1. n \in Nat \ {0} /\ DOMAIN pairs = 1..n
  OBVIOUS
<1> HIDE DEF n
<1>2. f \in Surjection(1..n, S) /\ f \in Injection(1..n, S)
  BY <1>1 DEF Surjection, Injection, IsInjective
<1>3. IsFiniteSet(1..n) /\ Cardinality(1..n) = n
  BY <1>1, FS_Interval
<1> HIDE DEF f, S
<1>4. Cardinality(S) = n
  BY <1>2, <1>3, FS_Surjection
<1> QED BY <1>4 DEF S, n

(* Postgres tells them by the names of their constraints.                  *)
PgNamed(s, t, kind) ==
    {c.name : c \in {k \in Pg!TableConstraints(db, s, t) : k.kind = kind}}
PgColumns(s, name) == {u[2] : u \in {v \in Pg!KeyColumnUsage(db, s) : v[1] = name}}
PgTargets(s, name) == {u[2] : u \in {v \in Pg!ConstraintColumnUsage(db, s) : v[1] = name}}
PgShort(s, ref) == IF ref.schema = s THEN [ref EXCEPT !.schema = None] ELSE ref
PgSingle(s, t) == {name \in PgNamed(s, t, "f") : Cardinality(PgColumns(s, name)) = 1}
PgPointers(s, t) ==
    UNION {PgColumns(s, name) \X {PgShort(s, r) : r \in PgTargets(s, name)} : name \in PgSingle(s, t)}

LEMMA PgMetadataIs ==
    ASSUME NEW s, NEW t
    PROVE  Pg!KeyMetadata(db, s, t) =
                [pk |-> UNION {PgColumns(s, name) : name \in PgNamed(s, t, "p")},
                 references |-> References(PgPointers(s, t))]
<1>1. \A S : Pg!References(S) = References(S)
  BY DEF Pg!References, References
<1> DEFINE columns(name) == {u[2] : u \in {v \in Pg!KeyColumnUsage(db, s) : v[1] = name}}
           targets(name) == {u[2] : u \in {v \in Pg!ConstraintColumnUsage(db, s) : v[1] = name}}
           short(ref) == IF ref.schema = s THEN [ref EXCEPT !.schema = None] ELSE ref
           named(kind) == {c.name : c \in {k \in Pg!TableConstraints(db, s, t) : k.kind = kind}}
           single == {name \in named("f") : Cardinality(columns(name)) = 1}
           pk == UNION {columns(name) : name \in named("p")}
           references == UNION {columns(name) \X {short(r) : r \in targets(name)} : name \in single}
<1>2. Pg!KeyMetadata(db, s, t) = [pk |-> pk, references |-> Pg!References(references)]
  BY DEF Pg!KeyMetadata, Pg!Cardinality, Cardinality
<1>3. /\ \A name : columns(name) = PgColumns(s, name) /\ targets(name) = PgTargets(s, name)
      /\ \A kind : named(kind) = PgNamed(s, t, kind)
      /\ \A r : short(r) = PgShort(s, r)
  BY DEF PgColumns, PgTargets, PgNamed, PgShort
<1> HIDE DEF columns, targets, named, short
<1>4. single = PgSingle(s, t)
  BY <1>3 DEF PgSingle
<1> HIDE DEF single
<1>5. pk = UNION {PgColumns(s, name) : name \in PgNamed(s, t, "p")}
  BY <1>3
<1>6. \A name : {short(r) : r \in targets(name)} = {PgShort(s, r) : r \in PgTargets(s, name)}
  BY <1>3
<1>7. references = PgPointers(s, t)
  BY <1>3, <1>4, <1>6 DEF PgPointers
<1> HIDE DEF pk, references
<1> QED BY <1>1, <1>2, <1>5, <1>7

LEMMA PgNamedIs ==
    ASSUME NEW x, NEW s, NEW t, TablesAt(db, s, t) = {x}, x.owned
    PROVE  /\ PgNamed(s, t, "p") = IF x.pk # <<>> THEN {x.pkName} ELSE {}
           /\ PgNamed(s, t, "f") = {k.name : k \in KeysOf(db, s, t)}
<1>1. /\ Pg!TablesAt(db, s, t) = {x} /\ Pg!KeysOf(db, s, t) = KeysOf(db, s, t)
  BY DEF Pg!TablesAt, TablesAt, Pg!KeysOf, KeysOf
<1> DEFINE P == {y \in {x} : y.owned /\ y.pk # <<>>}
           F == {y \in KeysOf(db, s, t) : \E z \in {x} : z.owned}
<1>2. Pg!TableConstraints(db, s, t) =
        {[name |-> y.pkName, kind |-> "p"] : y \in P} \cup {[name |-> k.name, kind |-> "f"] : k \in F}
  BY <1>1 DEF Pg!TableConstraints
<1>3. F = KeysOf(db, s, t) /\ P = IF x.pk # <<>> THEN {x} ELSE {}
  OBVIOUS
<1> HIDE DEF P, F
<1>4. ASSUME NEW kind \in {"p", "f"}, NEW n
      PROVE  n \in PgNamed(s, t, kind) <=>
                \/ kind = "p" /\ \E y \in P : n = y.pkName
                \/ kind = "f" /\ \E k \in F : n = k.name
  <2>1. ASSUME n \in PgNamed(s, t, kind)
        PROVE  \/ kind = "p" /\ \E y \in P : n = y.pkName
               \/ kind = "f" /\ \E k \in F : n = k.name
    <3>1. PICK c \in Pg!TableConstraints(db, s, t) : c.kind = kind /\ n = c.name
      BY <2>1 DEF PgNamed
    <3>2. CASE \E y \in P : c = [name |-> y.pkName, kind |-> "p"]
      BY <3>1, <3>2
    <3>3. CASE \E k \in F : c = [name |-> k.name, kind |-> "f"]
      BY <3>1, <3>3
    <3> QED BY <1>2, <3>1, <3>2, <3>3
  <2>2. ASSUME NEW y \in P, kind = "p", n = y.pkName PROVE n \in PgNamed(s, t, kind)
    <3>1. PICK c \in Pg!TableConstraints(db, s, t) : c = [name |-> y.pkName, kind |-> "p"]
      BY <1>2
    <3>2. c.kind = kind /\ n = c.name
      BY <2>2, <3>1
    <3> QED BY <3>1, <3>2 DEF PgNamed
  <2>3. ASSUME NEW k \in F, kind = "f", n = k.name PROVE n \in PgNamed(s, t, kind)
    <3>1. PICK c \in Pg!TableConstraints(db, s, t) : c = [name |-> k.name, kind |-> "f"]
      BY <1>2
    <3>2. c.kind = kind /\ n = c.name
      BY <2>3, <3>1
    <3> QED BY <3>1, <3>2 DEF PgNamed
  <2> QED BY <2>1, <2>2, <2>3
<1>5. PgNamed(s, t, "p") = {y.pkName : y \in P}
  BY <1>4
<1>6. PgNamed(s, t, "f") = {k.name : k \in F}
  BY <1>4
<1> QED BY <1>3, <1>5, <1>6
(* What the catalogue of a standing table assumes.                         *)
LEMMA StandingIs ==
    ASSUME KeysInSight, NEW x, NEW s, NEW t, Standing(x, s, t)
    PROVE  /\ InSight(db) /\ HasEngine(db) /\ Engine = db.engine
           /\ x \in db.tables /\ x.schema = s /\ x.name = t
           /\ TablesAt(db, s, t) = {x} /\ Relations(db, s, t) = {x}
           /\ Engine \in {"postgres", "mysql"} => x.listed
           /\ \A k \in db.keys :
                /\ k.pairs \in Seq(ToSet(k.pairs)) /\ k.pairs # <<>>
                /\ k.schema # None /\ k.toSchema # None
                /\ Engine = "sqlite" => k.schema = "main" /\ k.toSchema = "main"
                /\ Engine # "sqlite" => \A i \in DOMAIN k.pairs : k.pairs[i].to # None
                /\ Engine = "postgres" => \A i, j \in DOMAIN k.pairs :
                                            k.pairs[i].from = k.pairs[j].from => i = j
<1>1. PICK n \in ToSet(Sources) : db = Databases[n]
  BY DEF Standing
<1>2. InSight(db) /\ HasEngine(db) /\ Engine = db.engine
  BY <1>1, DatabasesAssumption DEF KeysInSight, HasEngine, Engine
<1>3. /\ x \in db.tables /\ x.schema = s /\ x.name = t
      /\ TablesAt(db, s, t) = {x} /\ Relations(db, s, t) = {x} /\ Serves(db, x)
  BY DEF Standing
<1>4. Engine \in {"postgres", "mysql"} => x.listed
  BY <1>1, <1>2, <1>3, RelationsAssumption DEF Serves
<1>5. \A k \in db.keys :
        /\ k.pairs \in Seq(ToSet(k.pairs)) /\ k.pairs # <<>>
        /\ k.schema # None /\ k.toSchema # None
        /\ Engine = "sqlite" => k.schema = "main" /\ k.toSchema = "main"
        /\ Engine # "sqlite" => \A i \in DOMAIN k.pairs : k.pairs[i].to # None
        /\ Engine = "postgres" => \A i, j \in DOMAIN k.pairs :
                                    k.pairs[i].from = k.pairs[j].from => i = j
  BY <1>1, <1>2, KeysAssumption
<1> QED BY <1>2, <1>3, <1>4, <1>5

LEMMA PgColumnsAre ==
    ASSUME KeysInSight, NEW x, NEW s, NEW t, Standing(x, s, t), Engine = "postgres"
    PROVE  /\ x.pk # <<>> => PgColumns(s, x.pkName) = ToSet(x.pk)
           /\ \A k \in KeysOf(db, s, t) :
                PgColumns(s, k.name) = {k.pairs[i].from : i \in DOMAIN k.pairs}
<1> DEFINE listed == {y \in db.tables : y.schema = s /\ y.listed}
           keys == {y \in db.keys : y.schema = s /\ \E z \in TablesAt(db, s, y.table) : z.listed}
<1>1. /\ InSight(db) /\ x \in listed /\ x.name = t /\ TablesAt(db, s, t) = {x} /\ x.listed
  BY StandingIs
<1>2. \A u : u \in Pg!PrimaryKeyUsage(db, s) <=>
        \E y \in listed : \E c \in ToSet(y.pk) : u = <<y.pkName, c>>
  <2>1. \A u : u \in Pg!PrimaryKeyUsage(db, s) <=>
            \E y \in db.tables : y.schema = s /\ y.listed /\ \E c \in Pg!ToSet(y.pk) : u = <<y.pkName, c>>
    BY DEF Pg!PrimaryKeyUsage
  <2>2. \A q : Pg!ToSet(q) = ToSet(q)
    BY DEF Pg!ToSet, ToSet
  <2> QED BY <2>1, <2>2
<1>3. \A u : u \in Pg!ForeignKeyUsage(db, s) <=>
        \E k \in keys : \E i \in DOMAIN k.pairs : u = <<k.name, k.pairs[i].from>>
  <2>1. \A u : u \in Pg!ForeignKeyUsage(db, s) <=>
            \E k \in db.keys : /\ k.schema = s /\ \E y \in Pg!TablesAt(db, s, k.table) : y.listed
                              /\ \E i \in DOMAIN k.pairs : u = <<k.name, k.pairs[i].from>>
    BY DEF Pg!ForeignKeyUsage
  <2>2. \A b : Pg!TablesAt(db, s, b) = TablesAt(db, s, b)
    BY DEF Pg!TablesAt, TablesAt
  <2> QED BY <2>1, <2>2
<1> HIDE DEF listed, keys
<1>4. \A name, c : c \in PgColumns(s, name) <=>
        \/ \E y \in listed : name = y.pkName /\ c \in ToSet(y.pk)
        \/ \E k \in keys : name = k.name /\ \E i \in DOMAIN k.pairs : c = k.pairs[i].from
  <2> SUFFICES ASSUME NEW name, NEW c
               PROVE  c \in PgColumns(s, name) <=>
                        \/ \E y \in listed : name = y.pkName /\ c \in ToSet(y.pk)
                        \/ \E k \in keys : name = k.name /\ \E i \in DOMAIN k.pairs : c = k.pairs[i].from
    OBVIOUS
  <2>1. \A u : u \in Pg!KeyColumnUsage(db, s) <=>
            \/ \E y \in listed : \E b \in ToSet(y.pk) : u = <<y.pkName, b>>
            \/ \E k \in keys : \E i \in DOMAIN k.pairs : u = <<k.name, k.pairs[i].from>>
    BY <1>2, <1>3 DEF Pg!KeyColumnUsage
  <2>2. c \in PgColumns(s, name) <=> <<name, c>> \in Pg!KeyColumnUsage(db, s)
    <3>1. \A u \in Pg!KeyColumnUsage(db, s) : u = <<u[1], u[2]>>
      BY <2>1
    <3> QED BY <3>1 DEF PgColumns
  <2>3. <<name, c>> \in Pg!KeyColumnUsage(db, s) <=>
        \/ \E y \in listed : \E b \in ToSet(y.pk) : <<name, c>> = <<y.pkName, b>>
        \/ \E k \in keys : \E i \in DOMAIN k.pairs : <<name, c>> = <<k.name, k.pairs[i].from>>
    BY <2>1
  <2> QED BY <2>2, <2>3
<1> USE DEF listed, keys
<1>5. \A y \in listed : y.pk = <<>> => ToSet(y.pk) = {}
  BY DEF ToSet
<1>6. /\ Engine = db.engine
      /\ \A k, l \in db.keys : k.schema = l.schema /\ k.name = l.name => k = l
      /\ \A y, z \in db.tables :
            y.schema = z.schema /\ y.pkName = z.pkName /\ y.pk # <<>> /\ z.pk # <<>> => y = z
      /\ \A y \in db.tables : \A k \in db.keys :
            y.schema = k.schema /\ y.pk # <<>> => y.pkName # k.name
  BY <1>1 DEF InSight, Engine
<1>7. x.pk # <<>> => \A c : c \in PgColumns(s, x.pkName) <=> c \in ToSet(x.pk)
  BY <1>1, <1>4, <1>5, <1>6
<1>8. ASSUME NEW k \in KeysOf(db, s, t)
      PROVE  \A c : c \in PgColumns(s, k.name) <=> \E i \in DOMAIN k.pairs : c = k.pairs[i].from
  <2>1. k \in keys
    BY <1>1 DEF KeysOf
  <2> QED BY <1>4, <1>5, <1>6, <2>1
<1> QED BY <1>7, <1>8
LEMMA PgTargetsAre ==
    ASSUME KeysInSight, NEW x, NEW s, NEW t, Standing(x, s, t), Engine = "postgres",
           NEW k \in KeysOf(db, s, t)
    PROVE  PgTargets(s, k.name) =
                {[schema |-> k.toSchema, table |-> k.toTable, column |-> k.pairs[i].to] :
                 i \in DOMAIN k.pairs}
<1> DEFINE target(l, i) == [schema |-> l.toSchema, table |-> l.toTable, column |-> l.pairs[i].to]
           owned(l) == \E y \in TablesAt(db, l.toSchema, l.toTable) : y.owned
<1>1. \A u : u \in Pg!ConstraintColumnUsage(db, s) <=>
        \E l \in db.keys : /\ l.schema = s /\ owned(l)
                          /\ \E i \in DOMAIN l.pairs : u = <<l.name, target(l, i)>>
  <2>1. \A u : u \in Pg!ConstraintColumnUsage(db, s) <=>
            \E l \in db.keys :
                /\ l.schema = s /\ \E y \in Pg!TablesAt(db, l.toSchema, l.toTable) : y.owned
                /\ \E i \in DOMAIN l.pairs :
                    u = <<l.name, [schema |-> l.toSchema, table |-> l.toTable, column |-> l.pairs[i].to]>>
    BY DEF Pg!ConstraintColumnUsage
  <2>2. \A a, b : Pg!TablesAt(db, a, b) = TablesAt(db, a, b)
    BY DEF Pg!TablesAt, TablesAt
  <2> QED BY <2>1, <2>2
<1>2. /\ k \in db.keys /\ k.schema = s /\ owned(k)
      /\ \A l \in db.keys : l.schema = s /\ l.name = k.name => l = k
  <2>1. /\ InSight(db) /\ db.engine = "postgres" /\ x \in db.tables /\ x.schema = s /\ x.name = t
        /\ Serves(db, x)
    BY StandingIs DEF Standing
  <2>2. k \in db.keys /\ k.schema = s /\ k \in KeysOf(db, x.schema, x.name)
    BY <2>1 DEF KeysOf
  <2> QED BY <2>1, <2>2 DEF InSight
<1> HIDE DEF target, owned
<1>3. \A r : r \in PgTargets(s, k.name) <=> \E i \in DOMAIN k.pairs : r = target(k, i)
  <2> SUFFICES ASSUME NEW r
               PROVE  r \in PgTargets(s, k.name) <=> \E i \in DOMAIN k.pairs : r = target(k, i)
    OBVIOUS
  <2>1. \A u \in Pg!ConstraintColumnUsage(db, s) : u = <<u[1], u[2]>>
    BY <1>1
  <2>2. r \in PgTargets(s, k.name) <=> <<k.name, r>> \in Pg!ConstraintColumnUsage(db, s)
    BY <2>1 DEF PgTargets
  <2>3. <<k.name, r>> \in Pg!ConstraintColumnUsage(db, s) <=>
        \E l \in db.keys : /\ l.schema = s /\ owned(l)
                          /\ \E i \in DOMAIN l.pairs : <<k.name, r>> = <<l.name, target(l, i)>>
    BY <1>1
  <2> QED BY <1>2, <2>2, <2>3
<1>4. PgTargets(s, k.name) = {target(k, i) : i \in DOMAIN k.pairs}
  BY <1>3
<1> QED BY <1>4 DEF target

(* Of what a role is told, all.                                            *)
LEMMA PgPointersAre ==
    ASSUME KeysInSight, NEW x, NEW s, NEW t, Standing(x, s, t), Engine = "postgres"
    PROVE  /\ UNION {PgColumns(s, name) : name \in PgNamed(s, t, "p")} = ToSet(x.pk)
           /\ PgPointers(s, t) = Pointers(x, s)
<1>1. /\ InSight(db) /\ db.engine = "postgres" /\ x \in db.tables /\ x.schema = s /\ x.name = t
      /\ Serves(db, x) /\ TablesAt(db, s, t) = {x}
  BY StandingIs DEF Standing
<1>2. x.owned
  BY <1>1 DEF InSight
<1>3. /\ PgNamed(s, t, "p") = IF x.pk # <<>> THEN {x.pkName} ELSE {}
      /\ PgNamed(s, t, "f") = {k.name : k \in KeysOf(db, s, t)}
  BY <1>1, <1>2, PgNamedIs
<1>4. UNION {PgColumns(s, name) : name \in PgNamed(s, t, "p")} = ToSet(x.pk)
  <2>1. CASE x.pk # <<>>
    BY <1>3, <2>1, PgColumnsAre
  <2>2. CASE x.pk = <<>>
    BY <1>3, <2>2 DEF ToSet
  <2> QED BY <2>1, <2>2
<1>5. \A k \in KeysOf(db, s, t) :
        /\ k \in db.keys /\ PgColumns(s, k.name) = {k.pairs[i].from : i \in DOMAIN k.pairs}
        /\ PgTargets(s, k.name) =
                {[schema |-> k.toSchema, table |-> k.toTable, column |-> k.pairs[i].to] :
                 i \in DOMAIN k.pairs}
        /\ Cardinality(PgColumns(s, k.name)) = 1 <=> Len(k.pairs) = 1
  <2> SUFFICES ASSUME NEW k \in KeysOf(db, s, t)
               PROVE  /\ k \in db.keys
                      /\ PgColumns(s, k.name) = {k.pairs[i].from : i \in DOMAIN k.pairs}
                      /\ PgTargets(s, k.name) =
                            {[schema |-> k.toSchema, table |-> k.toTable, column |-> k.pairs[i].to] :
                             i \in DOMAIN k.pairs}
                      /\ Cardinality(PgColumns(s, k.name)) = 1 <=> Len(k.pairs) = 1
    OBVIOUS
  <2>1. k \in db.keys
    BY DEF KeysOf
  <2>2. PgColumns(s, k.name) = {k.pairs[i].from : i \in DOMAIN k.pairs}
    BY PgColumnsAre
  <2>3. PgTargets(s, k.name) =
            {[schema |-> k.toSchema, table |-> k.toTable, column |-> k.pairs[i].to] :
             i \in DOMAIN k.pairs}
    BY PgTargetsAre
  <2>4. Cardinality({k.pairs[i].from : i \in DOMAIN k.pairs}) = 1 <=> Len(k.pairs) = 1
    <3>1. /\ k.pairs \in Seq(ToSet(k.pairs)) /\ k.pairs # <<>>
          /\ \A i, j \in DOMAIN k.pairs : k.pairs[i].from = k.pairs[j].from => i = j
      BY <2>1, StandingIs
    <3> QED BY <3>1, OneColumn
  <2> QED BY <2>1, <2>2, <2>3, <2>4
<1>6. PgSingle(s, t) = {k.name : k \in Singles(x, s)}
  <2>1. Singles(x, s) = {k \in KeysOf(db, s, t) : Len(k.pairs) = 1}
    BY <1>1 DEF Singles, SameTable, KeysOf
  <2> QED BY <1>3, <1>5, <2>1 DEF PgSingle
<1>7. ASSUME NEW k \in Singles(x, s)
      PROVE  PgColumns(s, k.name) \X {PgShort(s, r) : r \in PgTargets(s, k.name)} =
                {<<k.pairs[1].from, Pointed(k, s)>>}
  <2>1. k \in KeysOf(db, s, t) /\ Len(k.pairs) = 1 /\ k.pairs \in Seq(ToSet(k.pairs))
    BY <1>1, StandingIs DEF Singles, SameTable, KeysOf
  <2>2. DOMAIN k.pairs = {1}
    BY <2>1
  <2>3. k.pairs[1].to # None
    BY <1>1, <1>5, <2>1, <2>2, StandingIs
  <2>4. Pairing(db, k)[1].to = k.pairs[1].to
    BY <2>2, <2>3 DEF Pairing
  <2> DEFINE r == [schema |-> k.toSchema, table |-> k.toTable, column |-> k.pairs[1].to]
  <2>5. PgColumns(s, k.name) = {k.pairs[1].from} /\ PgTargets(s, k.name) = {r}
    BY <1>5, <2>1, <2>2
  <2>6. PgShort(s, r) = Pointed(k, s)
    BY <2>4 DEF PgShort, Pointed, Short
  <2> QED BY <2>5, <2>6
<1>8. PgPointers(s, t) = Pointers(x, s)
  <2>1. PgPointers(s, t) =
            UNION {PgColumns(s, name) \X {PgShort(s, r) : r \in PgTargets(s, name)} :
                   name \in {k.name : k \in Singles(x, s)}}
    BY <1>6 DEF PgPointers
  <2>2. \A u : u \in PgPointers(s, t) <=>
            \E k \in Singles(x, s) : u \in {<<k.pairs[1].from, Pointed(k, s)>>}
    BY <1>7, <2>1
  <2> QED BY <2>2 DEF Pointers
<1> QED BY <1>4, <1>8
(* The keys that the statements of an engine tell are right.               *)
LEMMA PgKeysRight ==
    ASSUME KeysInSight, NEW x, NEW s, NEW t, Standing(x, s, t), Engine = "postgres",
           NEW v, NEW pks, KeysAmong(t, v, s, pks)
    PROVE  RightKeys(v, x, s)
<1>1. Pg!KeyMetadata(db, s, t) = [pk |-> ToSet(x.pk), references |-> References(Pointers(x, s))]
  BY PgPointersAre, PgMetadataIs
<1>2. \E refs \in Pg!KeyMetadata(db, s, t).references :
        v = [pk |-> Pg!KeyMetadata(db, s, t).pk, references |-> refs]
  BY DEF KeysAmong, By
<1> QED BY <1>1, <1>2 DEF RightKeys

LEMMA MyKeysRight ==
    ASSUME KeysInSight, NEW x, NEW s, NEW t, Standing(x, s, t), Engine = "mysql",
           NEW v, NEW pks, KeysAmong(t, v, s, pks)
    PROVE  RightKeys(v, x, s)
<1>1. /\ db.engine = "mysql" /\ x \in db.tables /\ x.schema = s /\ x.name = t
      /\ TablesAt(db, s, t) = {x} /\ x.listed
  BY StandingIs
<1> DEFINE found == {y \in My!TablesAt(db, s, t) : y.listed}
           single == {k \in My!KeysOf(db, s, t) : found # {} /\ My!IsSingle(k)}
           target(k) == [schema |-> IF k.toSchema = s THEN None ELSE k.toSchema,
                         table |-> k.toTable, column |-> k.pairs[1].to]
           pk == UNION {My!ToSet(y.pk) : y \in found}
           pointers == {<<k.pairs[1].from, target(k)>> : k \in single}
<1>2. My!KeyMetadata(db, s, t) = [pk |-> pk, references |-> My!References(pointers)]
  BY DEF My!KeyMetadata
<1>3. found = {x} /\ \A S : My!References(S) = References(S)
  BY <1>1 DEF My!TablesAt, TablesAt, My!References, References
<1>4. pk = ToSet(x.pk)
  BY <1>3 DEF My!ToSet, ToSet
<1>5. single = Singles(x, s)
  BY <1>1, <1>3 DEF My!KeysOf, My!IsSingle, Singles, SameTable
<1>6. \A k \in Singles(x, s) : target(k) = Pointed(k, s)
  <2> SUFFICES ASSUME NEW k \in Singles(x, s) PROVE target(k) = Pointed(k, s)
    OBVIOUS
  <2>1. k \in db.keys /\ Len(k.pairs) = 1 /\ k.pairs \in Seq(ToSet(k.pairs))
    BY StandingIs DEF Singles
  <2>2. DOMAIN k.pairs = {1}
    BY <2>1
  <2>3. k.pairs[1].to # None
    BY <1>1, <2>1, <2>2, StandingIs
  <2>4. Pairing(db, k)[1].to = k.pairs[1].to
    BY <2>2, <2>3 DEF Pairing
  <2> QED BY <2>4 DEF Pointed, Short
<1> HIDE DEF found, single, target, pk
<1>7. pointers = Pointers(x, s)
  BY <1>5, <1>6 DEF Pointers
<1> HIDE DEF pointers
<1>8. My!KeyMetadata(db, s, t) = [pk |-> ToSet(x.pk), references |-> References(Pointers(x, s))]
  BY <1>2, <1>3, <1>4, <1>7
<1>9. \E refs \in My!KeyMetadata(db, s, t).references :
        v = [pk |-> My!KeyMetadata(db, s, t).pk, references |-> refs]
  BY DEF KeysAmong, By
<1> QED BY <1>8, <1>9 DEF RightKeys

(* SQLite points at the primary key where a key names no column.           *)
LEMMA SqTargetIs ==
    ASSUME KeysInSight, NEW x, NEW s, NEW t, Standing(x, s, t), Engine = "sqlite",
           NEW k \in Singles(x, s)
    PROVE  [schema |-> None, table |-> k.toTable, column |-> Sq!Target(db, k.toTable, k.pairs[1], 1)]
                = Pointed(k, s)
<1>1. /\ k \in db.keys /\ Len(k.pairs) = 1 /\ k.pairs \in Seq(ToSet(k.pairs))
      /\ k.toSchema = "main" /\ db.engine = "sqlite" /\ s = "main" /\ InSight(db)
  BY StandingIs DEF Singles, Standing, Sq!OnlySchema
<1>2. DOMAIN k.pairs = {1}
  BY <1>1
<1>3. Sq!Target(db, k.toTable, k.pairs[1], 1) = Pairing(db, k)[1].to
  <2>1. CASE k.pairs[1].to # None
    <3>1. Sq!Target(db, k.toTable, k.pairs[1], 1) = k.pairs[1].to
      BY <2>1 DEF Sq!Target
    <3>2. Pairing(db, k)[1].to = k.pairs[1].to
      BY <1>2, <2>1 DEF Pairing
    <3> QED BY <3>1, <3>2
  <2>2. CASE k.pairs[1].to = None
    <3>1. PICK y \in Sq!Located(db, k.toTable) : 1 \in DOMAIN y.pk
      BY <1>1, <2>2 DEF InSight
    <3>2. \A y1, y2 \in db.tables : Fold[y1.name] = Fold[y2.name] => y1 = y2
      <4>1. PICK n \in ToSet(Sources) : db = Databases[n]
        BY DEF Standing
      <4> QED BY <1>1, <4>1, CatalogueAssumption
    <3>3. Sq!Located(db, k.toTable) = {y}
      BY <3>1, <3>2 DEF Sq!Located
    <3>4. Pairing(db, k)[1].to = y.pk[1]
      BY <1>1, <1>2, <2>2, <3>3 DEF Pairing, Relations
    <3> DEFINE P == UNION {{z.pk[1]} : z \in {w \in Sq!Located(db, k.toTable) : 1 \in DOMAIN w.pk}}
    <3>5. P = {y.pk[1]}
      BY <3>1, <3>3
    <3>6. Sq!Target(db, k.toTable, k.pairs[1], 1) = CHOOSE c \in P : TRUE
      <4>1. P # {}
        BY <3>5
      <4> QED BY <2>2, <4>1 DEF Sq!Target
    <3> QED BY <3>4, <3>5, <3>6
  <2> QED BY <2>1, <2>2
<1> QED BY <1>1, <1>3 DEF Pointed, Short

LEMMA SqKeysRight ==
    ASSUME KeysInSight, NEW x, NEW s, NEW t, Standing(x, s, t), Engine = "sqlite",
           NEW v, KeysAmong(t, v, s, Sq!PkColumns(db, t))
    PROVE  RightKeys(v, x, s)
<1>1. /\ db.engine = "sqlite" /\ x \in db.tables /\ x.schema = s /\ x.name = t /\ s = "main"
      /\ Sq!Located(db, t) = {x} /\ \A k \in db.keys : k.schema = "main"
  BY StandingIs DEF Standing, Sq!OnlySchema, Relations
<1>2. Sq!PkColumns(db, t) = ToSet(x.pk)
  BY <1>1 DEF Sq!PkColumns, Sq!ToSet, ToSet
<1> DEFINE single == {k \in Sq!ForeignKeyList(db, t) : Sq!IsSingle(k)}
           target(k) == [schema |-> None, table |-> k.toTable,
                         column |-> Sq!Target(db, k.toTable, k.pairs[1], 1)]
           pointers == {<<k.pairs[1].from, target(k)>> : k \in single}
<1>3. Sq!KeyReferences(db, t) = Sq!References(pointers)
  BY DEF Sq!KeyReferences
<1>4. single = Singles(x, s)
  BY <1>1 DEF Sq!ForeignKeyList, Sq!IsSingle, Singles, SameTable
<1>5. \A k \in Singles(x, s) : target(k) = Pointed(k, s)
  BY SqTargetIs
<1> HIDE DEF single, target
<1>6. pointers = Pointers(x, s)
  BY <1>4, <1>5 DEF Pointers
<1> HIDE DEF pointers
<1>7. Sq!KeyReferences(db, t) = References(Pointers(x, s))
  BY <1>3, <1>6 DEF Sq!References, References
<1>8. \E refs \in Sq!KeyReferences(db, t) : v = [pk |-> Sq!PkColumns(db, t), references |-> refs]
  BY DEF KeysAmong, By
<1> QED BY <1>2, <1>7, <1>8 DEF RightKeys

LEMMA KeysRight ==
    ASSUME KeysInSight, NEW x, NEW s, NEW t, Standing(x, s, t),
           NEW v, KeysAmong(t, v, s, Sq!PkColumns(db, t))
    PROVE  RightKeys(v, x, s)
BY PgKeysRight, MyKeysRight, SqKeysRight, StandingIs DEF HasEngine
(* ... is what an answer tells of a column.                                *)
LEMMA RightIsTold ==
    ASSUME NEW x, NEW s, NEW t, Standing(x, s, t), NEW v, RightKeys(v, x, s), NEW c, NEW class
    PROVE  KeyTold(db, s, t, ColMeta(c, class, v.pk, v.references))
<1> DEFINE m == ColMeta(c, class, v.pk, v.references)
           y == CHOOSE z \in TablesAt(db, s, t) : TRUE
           single == {k \in db.keys : /\ SameTable(db, s, y.name, k.schema, k.table)
                                      /\ Len(k.pairs) = 1 /\ k.pairs[1].from = m.name}
           targets == {[schema |-> Short(k.toSchema, s), table |-> k.toTable,
                        column |-> Pairing(db, k)[1].to] : k \in single}
           refs == v.references
           n == c.name
<1>1. y = x
  BY DEF Standing
<1>2. /\ m.name = n /\ v.pk = ToSet(x.pk)
      /\ m.key = CASE n \in v.pk -> "pk" [] n \in DOMAIN refs \ v.pk -> "fk" [] OTHER -> None
      /\ m.references = IF n \in DOMAIN refs THEN refs[n] ELSE None
  BY DEF ColMeta, RightKeys
<1>3. single = {k \in Singles(x, s) : k.pairs[1].from = n}
  BY <1>1, <1>2 DEF Singles
<1>4. targets = {Pointed(k, s) : k \in single}
  BY DEF Pointed
<1> HIDE DEF m, y, single, targets, refs, n
<1>5. /\ DOMAIN refs = {p[1] : p \in Pointers(x, s)}
      /\ \A a \in DOMAIN refs : <<a, refs[a]>> \in Pointers(x, s)
  BY DEF RightKeys, References, refs
<1>6. \A p : p \in Pointers(x, s) <=> \E k \in Singles(x, s) : p = <<k.pairs[1].from, Pointed(k, s)>>
  BY DEF Pointers
<1>7. n \in DOMAIN refs <=> single # {}
  <2>1. n \in DOMAIN refs <=> \E p : p \in Pointers(x, s) /\ n = p[1]
    BY <1>5
  <2>2. \A k : <<k.pairs[1].from, Pointed(k, s)>>[1] = k.pairs[1].from
    OBVIOUS
  <2>3. n \in DOMAIN refs <=> \E k \in Singles(x, s) : n = k.pairs[1].from
    <3>1. ASSUME NEW p, p \in Pointers(x, s), n = p[1]
          PROVE  \E k \in Singles(x, s) : n = k.pairs[1].from
      BY <1>6, <2>2, <3>1
    <3>2. ASSUME NEW k \in Singles(x, s), n = k.pairs[1].from
          PROVE  \E p : p \in Pointers(x, s) /\ n = p[1]
      BY <1>6, <2>2, <3>2
    <3> QED BY <2>1, <3>1, <3>2
  <2> QED BY <1>3, <2>3
<1>8. n \in DOMAIN refs => refs[n] \in targets
  <2> SUFFICES ASSUME n \in DOMAIN refs PROVE refs[n] \in targets
    OBVIOUS
  <2>1. PICK k \in Singles(x, s) : <<n, refs[n]>> = <<k.pairs[1].from, Pointed(k, s)>>
    BY <1>5, <1>6
  <2> QED BY <1>3, <1>4, <2>1
<1>9. "pk" # None /\ "fk" # None
  BY KeysAssumption
<1>10. (m.key = "pk") <=> (n \in ToSet(x.pk))
  BY <1>2, <1>9
<1>11. (m.key = "fk") <=> (single # {} /\ n \notin ToSet(x.pk))
  BY <1>2, <1>7, <1>9
<1>12. IF single = {} THEN m.references = None ELSE m.references \in targets
  BY <1>2, <1>7, <1>8
<1>13. /\ (m.key = "pk") = (m.name \in ToSet(y.pk))
       /\ (m.key = "fk") = (single # {} /\ m.name \notin ToSet(y.pk))
  BY <1>1, <1>2, <1>10, <1>11
<1> QED BY <1>12, <1>13 DEF KeyTold, m, y, single, targets

-----------------------------------------------------------------------------
(* What a handler has read of keys, while nothing met the request.         *)
PointsRight(known, t) ==
    /\ Has(known, "pk", t) => Engine = "sqlite" /\ known[<<"pk", t>>] = Sq!PkColumns(db, t)
    /\ Has(known, "keys", t) =>
        KeysAmong(t, known[<<"keys", t>>], SchemaOf(known), Sq!PkColumns(db, t))
Pointing(known) == \A t : PointsRight(known, t)
KeysInv == ~disturbed => Pointing(read)

LEMMA PointingExtends ==
    ASSUME FoundInv, Pointing(read), NEW kind, NEW t, NEW value, NEW known,
           Extends(known, kind, t, value), Rooted(read, kind, t), Keyed(kind, t, value),
           HasEngine(db)
    PROVE  Pointing(known)
<1> SUFFICES ASSUME NEW u PROVE PointsRight(known, u)
  BY DEF Pointing
<1>1. ASSUME NEW k, Has(known, k, u)
      PROVE  \/ k = kind /\ u = t /\ known[<<k, u>>] = value
             \/ Has(read, k, u) /\ known[<<k, u>>] = read[<<k, u>>]
  <2>1. <<k, u>> \in DOMAIN read \/ <<k, u>> = <<kind, t>>
    BY <1>1 DEF Extends, Has
  <2>2. <<k, u>> = <<kind, t>> => k = kind /\ u = t /\ known[<<k, u>>] = value
    BY DEF Extends
  <2>3. <<k, u>> \in DOMAIN read => Has(read, k, u) /\ known[<<k, u>>] = read[<<k, u>>]
    BY DEF Extends, Has
  <2> QED BY <2>1, <2>2, <2>3
<1>2. Resolved(read) => SchemaOf(known) = SchemaOf(read)
  BY DEF Resolved, SchemaOf, Has, Extends
<1>3. Has(known, "pk", u) => Engine = "sqlite" /\ known[<<"pk", u>>] = Sq!PkColumns(db, u)
  BY <1>1 DEF Pointing, PointsRight, Keyed
<1>4. ASSUME Has(known, "keys", u)
      PROVE  KeysAmong(u, known[<<"keys", u>>], SchemaOf(known), Sq!PkColumns(db, u))
  <2>1. CASE "keys" = kind /\ u = t /\ known[<<"keys", u>>] = value
    <3>1. SchemaOf(known) = SchemaOf(read)
      BY <1>2, <2>1 DEF Rooted
    <3>2. KeysAmong(u, value, SchemaOf(read), read[<<"pk", u>>])
      BY <2>1 DEF Keyed
    <3>3. Engine = "sqlite" => read[<<"pk", u>>] = Sq!PkColumns(db, u)
      BY <2>1 DEF Keyed, Pointing, PointsRight
    <3>4. Engine \in {"postgres", "mysql", "sqlite"}
      BY DEF HasEngine, Engine
    <3>5. KeysAmong(u, value, SchemaOf(read), Sq!PkColumns(db, u))
      <4>1. CASE Engine = "sqlite"
        BY <3>2, <3>3, <4>1
      <4>2. CASE Engine # "sqlite"
        BY <3>2, <3>4, <4>2 DEF KeysAmong, By
      <4> QED BY <4>1, <4>2
    <3> QED BY <2>1, <3>1, <3>5
  <2>2. CASE Has(read, "keys", u) /\ known[<<"keys", u>>] = read[<<"keys", u>>]
    <3>1. SchemaOf(known) = SchemaOf(read)
      BY <1>2, <2>2, HadRoot DEF TableKinds
    <3> QED BY <2>2, <3>1 DEF Pointing, PointsRight
  <2> QED BY <1>1, <1>4, <2>1, <2>2
<1> QED BY <1>3, <1>4 DEF PointsRight

(* Every column of a table that was read tells its keys.                   *)
LEMMA TableTells ==
    ASSUME KeysInSight, NEW known, Ready(known), ~disturbed, Pointing(known),
           NEW t, Has(known, "keys", t)
    PROVE  \A i \in DOMAIN TableMeta(known, t).columns :
                KeyTold(db, SchemaAsked(req, db), t, TableMeta(known, t).columns[i])
<1> DEFINE s == SchemaOf(known)
           v == known[<<"keys", t>>]
<1>1. Resolved(known) /\ TableSeen(s, t)
  BY DEF Ready, Founded, Sound, Has, Rooted, TableKinds
<1>2. seen = {db} /\ \E n \in ToSet(Sources) : db = Databases[n]
  BY ReadyIs DEF Ready, AInv, CalmInv
<1>3. s = SchemaAsked(req, db)
  BY <1>1, <1>2, SchemaIs
<1>4. OriginOf(db, seen)
  BY <1>2 DEF Ready, OriginInv
<1>5. PICK y \in TablesAt(db, s, t) : Relations(db, s, t) = {y} /\ TablesAt(db, s, t) = {y}
  BY <1>1, <1>2, <1>4, OneAtStart
<1>6. Serves(db, y) /\ y \in db.tables /\ y.schema = s /\ y.name = t
  BY <1>1, <1>2, <1>5 DEF TableSeen, Served, TablesAt
<1>7. Engine = "sqlite" => s = Sq!OnlySchema
  BY DEF SchemaOf
<1> HIDE DEF s, v
<1>8. Standing(y, s, t)
  BY <1>2, <1>5, <1>6, <1>7 DEF Standing
<1>9. KeysAmong(t, v, s, Sq!PkColumns(db, t))
  BY DEF Pointing, PointsRight, s, v
<1>10. RightKeys(v, y, s)
  BY <1>8, <1>9, KeysRight
<1>11. \A c, class : KeyTold(db, s, t, ColMeta(c, class, v.pk, v.references))
  BY <1>8, <1>10, RightIsTold
<1> SUFFICES ASSUME NEW i \in DOMAIN TableMeta(known, t).columns
             PROVE  KeyTold(db, s, t, TableMeta(known, t).columns[i])
  BY <1>3
<1>12. PICK c, class : TableMeta(known, t).columns[i] = ColMeta(c, class, v.pk, v.references)
  BY DEF TableMeta, v
<1> QED BY <1>11, <1>12

(* The columns of an answer tell their keys.                               *)
BodyTells(body) ==
    \A i \in DOMAIN body.columns :
        IF IsJoin(req)
        THEN KeyTold(db, SchemaAsked(req, db), body.columns[i].table, body.columns[i].column)
        ELSE KeyTold(db, SchemaAsked(req, db), req.table, body.columns[i])

LEMMA TableBodyTells ==
    ASSUME KeysInSight, NEW known, Ready(known), ~disturbed, Pointing(known), Asks({"data"}),
           \A i \in DOMAIN Tables : Described(known, Tables[i])
    PROVE  BodyTells(Body(known))
<1>1. Body(known).columns = TableMeta(known, req.table).columns
  BY DEF Body, TableData, Asks
<1>2. ~IsJoin(req) /\ Tables = <<req.table>>
  BY DEF IsJoin, Tables, Asks
<1>3. Has(known, "keys", req.table)
  BY <1>2 DEF Described
<1>4. \A i \in DOMAIN TableMeta(known, req.table).columns :
        KeyTold(db, SchemaAsked(req, db), req.table, TableMeta(known, req.table).columns[i])
  BY <1>3, TableTells
<1> HIDE DEF BodyTells
<1> QED BY <1>1, <1>2, <1>4 DEF BodyTells

(* A column that a lookup finds is one of its table.                       *)
LEMMA FoundIsColumn ==
    ASSUME NEW known, Ready(known), NEW t, Has(known, "columns", t), NEW c, Finder(known, t, c).ok
    PROVE  \E i \in DOMAIN TableMeta(known, t).columns :
                Finder(known, t, c).val = TableMeta(known, t).columns[i]
<1> DEFINE columns == known[<<"columns", t>>]
           meta == TableMeta(known, t)
           found == {i \in DOMAIN meta.columns : meta.columns[i].name = c}
<1>1. DOMAIN meta.columns = DOMAIN columns
  BY DEF TableMeta
<1>2. columns \in Seq(ToSet(columns))
  BY DEF Ready, ColumnsInOrder, InOrder, Has
<1> HIDE DEF columns, meta
<1>3. found \subseteq Nat
  BY <1>1, <1>2
<1>4. found # {} /\ Finder(known, t, c).val = meta.columns[Min(found)]
  BY DEF Finder, ColumnIndex, Err, Ok, meta
<1> HIDE DEF found
<1>5. Min(found) \in found
  <2>1. \E m \in found : \A k \in found : m <= k
    BY <1>3, <1>4, LeastOf
  <2> QED BY <2>1 DEF Min
<1> QED BY <1>4, <1>5 DEF found, meta

(* The columns of a join are those its plan found.                         *)
LEMMA PlannedIs ==
    ASSUME NEW known, JoinPlan(known).ok
    PROVE  LET plan == JoinPlan(known).val
               columns == PlanColumns(plan)
           IN \A i \in DOMAIN columns : \E p \in DOMAIN Tables : \E c :
                /\ columns[i].table = Tables[p]
                /\ Finder(known, Tables[p], c).ok
                /\ columns[i].column = Finder(known, Tables[p], c).val
<1> DEFINE spec == req.join
           opts == JoinRequest(req).val
           metas == Metas(known)
           selection == Selection(spec, metas)
           filter == ReadFilter(opts)
           faults == <<PairFault(spec, metas), ColumnFault(selection, metas),
                       FilterFault(filter, metas), SortFault(opts.sort, opts.sortJoin, metas)>>
           order == IF opts.sort = None THEN None
                    ELSE NativeOrder(<<Position(opts.sortJoin), opts.sort>>, opts.descending)
           built == [spec |-> spec, tables |-> metas, selection |-> selection,
                     labels |-> AssignLabels(selection), filter |-> filter, sort |-> order]
<1>1. JoinPlan(known) = AndThen(FirstError(faults), Ok(built))
  BY DEF JoinPlan, Plan, Metas, ReadFilter
<1>2. /\ DOMAIN metas = DOMAIN Tables
      /\ \A p \in DOMAIN Tables : metas[p] = TableMeta(known, Tables[p]) /\ metas[p].name = Tables[p]
  BY DEF Metas, TableMeta
<1> HIDE DEF opts, metas, selection, filter, order
<1>3. FirstError(faults).ok /\ JoinPlan(known) = Ok(built)
  <2> HIDE DEF faults, built
  <2> QED BY <1>1, AndThenOk
<1>4. ColumnFault(selection, metas).ok
  <2>1. 2 \in DOMAIN faults /\ faults[2] = ColumnFault(selection, metas)
    OBVIOUS
  <2> HIDE DEF faults
  <2> QED BY <1>3, <2>1, FirstErrorOk
<1> DEFINE looked == [i \in DOMAIN selection |->
                        IF selection[i][1] + 1 \notin DOMAIN metas THEN Err("invalid_join")
                        ELSE JoinColumnIndex(metas[selection[i][1] + 1], selection[i][2])]
<1>5. \A i \in DOMAIN looked : looked[i].ok
  <2>1. FirstError(looked).ok
    BY <1>4 DEF ColumnFault
  <2> HIDE DEF looked
  <2> QED BY <2>1, FirstErrorOk
<1>6. \A i \in DOMAIN selection :
        /\ selection[i][1] + 1 \in DOMAIN metas
        /\ ColumnIndex(metas[selection[i][1] + 1], selection[i][2]).ok
  BY <1>5, JoinIndexIs DEF Err
<1>7. /\ JoinPlan(known).val.selection = selection /\ JoinPlan(known).val.tables = metas
  BY <1>3 DEF Ok
<1> HIDE DEF faults, built, looked
<1>8. DOMAIN PlanColumns(JoinPlan(known).val) = DOMAIN selection
  BY <1>7 DEF PlanColumns
<1> SUFFICES ASSUME NEW i \in DOMAIN selection
             PROVE  LET columns == PlanColumns(JoinPlan(known).val)
                    IN \E p \in DOMAIN Tables : \E c :
                        /\ columns[i].table = Tables[p]
                        /\ Finder(known, Tables[p], c).ok
                        /\ columns[i].column = Finder(known, Tables[p], c).val
  BY <1>8
<1> DEFINE p == selection[i][1] + 1
           c == selection[i][2]
<1>9. /\ PlanColumns(JoinPlan(known).val)[i].table = metas[p].name
      /\ PlanColumns(JoinPlan(known).val)[i].column = ColumnIndex(metas[p], c).val
  BY <1>7 DEF PlanColumns
<1>10. p \in DOMAIN Tables /\ ColumnIndex(metas[p], c) = Finder(known, Tables[p], c)
  BY <1>2, <1>6 DEF Finder
<1>11. ColumnIndex(metas[p], c).ok
  BY <1>6
<1> HIDE DEF p, c
<1> QED BY <1>2, <1>9, <1>10, <1>11

LEMMA JoinBodyTells ==
    ASSUME KeysInSight, NEW known, Ready(known), ~disturbed, Pointing(known), Asks({"join"}),
           \A i \in DOMAIN Tables : Described(known, Tables[i]), JoinPlan(known).ok
    PROVE  BodyTells(Body(known))
<1>1. Body(known).columns = PlanColumns(JoinPlan(known).val)
  BY DEF Body, JoinData, Asks
<1>2. IsJoin(req)
  BY DEF IsJoin, Asks
<1>3. \A p \in DOMAIN Tables : Has(known, "keys", Tables[p]) /\ Has(known, "columns", Tables[p])
  BY DEF Described, Ready, Vouched, Told, Vouches, Has
<1> DEFINE columns == PlanColumns(JoinPlan(known).val)
<1>4. ASSUME NEW i \in DOMAIN columns
      PROVE  KeyTold(db, SchemaAsked(req, db), columns[i].table, columns[i].column)
  <2>1. PICK p \in DOMAIN Tables : \E c :
                /\ columns[i].table = Tables[p]
                /\ Finder(known, Tables[p], c).ok
                /\ columns[i].column = Finder(known, Tables[p], c).val
    BY PlannedIs
  <2>2. PICK k \in DOMAIN TableMeta(known, Tables[p]).columns :
                columns[i].column = TableMeta(known, Tables[p]).columns[k]
    BY <1>3, <2>1, FoundIsColumn
  <2> HIDE DEF columns
  <2>3. KeyTold(db, SchemaAsked(req, db), Tables[p], TableMeta(known, Tables[p]).columns[k])
    BY <1>3, TableTells
  <2> QED BY <2>1, <2>2, <2>3
<1> HIDE DEF columns
<1>5. Body(known).columns = columns
  BY <1>1 DEF columns
<1> QED BY <1>2, <1>4, <1>5 DEF BodyTells

-----------------------------------------------------------------------------
(* The invariant.  A SELECT is built once all its tables are described and *)
(* the plan of its join stands, and neither goes back on that.             *)
PlanInv ==
    Runs /\ sql # None =>
        /\ \A i \in DOMAIN Tables : Described(read, Tables[i])
        /\ Asks({"join"}) => JoinPlan(read).ok
KInv == KeysInv /\ PlanInv /\ KeysAreTold

LEMMA KeysStand ==
    ASSUME UNCHANGED <<req, db>>, NEW body, answer'.body = body, BodyTells(body)
    PROVE  KeysAreTold'
<1>1. \A s, t, m : KeyTold(db, s, t, m)' <=> KeyTold(db, s, t, m)
  OBVIOUS
<1>2. SchemaAsked(req, db)' = SchemaAsked(req, db) /\ IsJoin(req)' = IsJoin(req)
  OBVIOUS
<1>3. BodyTells(body)'
  BY <1>1, <1>2 DEF BodyTells
<1>4. BodyTells(answer.body)'
  BY <1>3
<1> QED BY <1>4 DEF KeysAreTold, BodyTells

LEMMA PointingStands ==
    ASSUME UNCHANGED <<db, req>>, NEW known, Pointing(known), read' = known
    PROVE  KeysInv'
<1>1. Engine' = Engine
  BY DEF Engine
<1>2. SchemaOf(known)' = SchemaOf(known) /\ \A k, u : Has(known, k, u)' = Has(known, k, u)
  BY <1>1 DEF SchemaOf, Has
<1>3. \A u, v, s, pks : KeysAmong(u, v, s, pks) => KeysAmong(u, v, s, pks)'
  <2>1. \A a, b, c : By(a, b, c)' = By(a, b, c)
    BY <1>1 DEF By
  <2> QED BY <1>1 DEF KeysAmong, By
<1>4. ASSUME NEW u PROVE PointsRight(known, u)'
  <2>1. PointsRight(known, u)
    BY DEF Pointing
  <2> QED BY <1>1, <1>2, <1>3, <2>1 DEF PointsRight
<1>5. Pointing(known)'
  BY <1>4 DEF Pointing
<1>6. Pointing(read)'
  BY <1>5
<1> QED BY <1>6 DEF KeysInv

LEMMA UnansweredKeys ==
    ASSUME \/ answer' = Pending \/ \E code : answer' = Problem(code)
           \/ ~Asks({"data", "join"})'
    PROVE  KeysAreTold'
<1>1. ~Answered({"data", "join"})'
  BY DEF Answered, Problem
<1> QED BY <1>1 DEF KeysAreTold

(* What is known of a table that is described does not change.             *)
LEMMA MetaStands ==
    ASSUME NEW known, NEW kind, NEW t, NEW value, Extends(known, kind, t, value),
           KnowledgeInv, NEW u, Described(read, u)
    PROVE  TableMeta(known, u) = TableMeta(read, u) /\ Described(known, u)
<1>1. Has(read, "keys", u) /\ Has(read, "columns", u) /\ (MariaDb => Has(read, "json", u))
  BY DEF Described, KnowledgeInv, Told, Vouches, Has
<1>2. \A k : Has(read, k, u) => Has(known, k, u) /\ known[<<k, u>>] = read[<<k, u>>]
  BY DEF Extends, Has
<1>3. \A c : ColumnClassOf(known, u, c) = ColumnClassOf(read, u, c)
  BY <1>1, <1>2 DEF ColumnClassOf
<1>4. TableMeta(known, u) = TableMeta(read, u)
  BY <1>1, <1>2, <1>3 DEF TableMeta
<1> QED BY <1>1, <1>2, <1>4 DEF Described

LEMMA PlanStands ==
    ASSUME NEW known, NEW kind, NEW t, NEW value, Extends(known, kind, t, value),
           KnowledgeInv, \A i \in DOMAIN Tables : Described(read, Tables[i])
    PROVE  /\ \A i \in DOMAIN Tables : Described(known, Tables[i])
           /\ JoinPlan(known) = JoinPlan(read)
<1>1. \A i \in DOMAIN Tables :
        TableMeta(known, Tables[i]) = TableMeta(read, Tables[i]) /\ Described(known, Tables[i])
  BY MetaStands
<1>2. [p \in DOMAIN Tables |-> TableMeta(known, Tables[p])]
        = [p \in DOMAIN Tables |-> TableMeta(read, Tables[p])]
  BY <1>1
<1> QED BY <1>1, <1>2 DEF JoinPlan

(* What the SELECT that a handler builds is built from.                    *)
LEMMA SelectPlans ==
    ASSUME NEW known, Verdict(known).ok, Selects(known)
    PROVE  /\ \A i \in DOMAIN Tables : Described(known, Tables[i])
           /\ Asks({"join"}) => JoinPlan(known).ok
<1>1. \A i \in DOMAIN Tables : Described(known, Tables[i])
  BY DEF Selects, Open
<1>2. ASSUME Asks({"join"}) PROVE JoinPlan(known).ok
  <2> DEFINE rest == AndThen(TableFault(known), AndThen(NamesFault(known), JoinSelect(known)))
  <2>1. Verdict(known) = AndThen(SchemaFault(known), rest)
    BY <1>2 DEF Verdict, SelectOf
  <2>2. rest.ok
    <3> HIDE DEF rest
    <3> QED BY <2>1, AndThenOk
  <2>3. AndThen(NamesFault(known), JoinSelect(known)).ok
    BY <2>2, AndThenOk
  <2>4. JoinSelect(known).ok
    BY <2>3, AndThenOk
  <2> QED BY <2>4, AndThenOk DEF JoinSelect, QueryJoin
<1> QED BY <1>1, <1>2

(* A statement's result.                                                   *)
LEMMA FindingKeys ==
    ASSUME KeysInSight, IInv, AInv, IInv', AInv', WInv, WInv', KInv,
           NEW kind, NEW t, NEW value, Finding(kind, t, value)
    PROVE  KInv'
<1>1. PICK known : /\ Extends(known, kind, t, value) /\ Proceed(known, Verdict(known))
                   /\ Runs /\ Knows /\ ~Has(read, kind, t) /\ Ready(known)
  BY FindingReady DEF WInv
<1> DEFINE verdict == Verdict(known)
<1>2. /\ read' = known /\ UNCHANGED <<db, variant, req, seen, disturbed>> /\ Engine' = Engine
      /\ sql' = IF verdict.ok /\ Selects(known) THEN verdict.val ELSE sql
      /\ answer' = CASE ~verdict.ok -> Problem(verdict.code)
                     [] verdict.ok /\ Complete(known) -> Success(Body(known))
                     [] OTHER -> Pending
  BY <1>1 DEF Proceed, Engine
<1>3. ~disturbed => Pointing(known)
  <2>1. HasEngine(db)
    BY <1>1, ReadyIs
  <2> QED BY <1>1, <2>1, PointingExtends DEF KInv, KeysInv, WInv, GroundInv, Finding
<1>4. KeysInv'
  <2>1. disturbed => KeysInv'
    BY <1>2 DEF KeysInv
  <2> QED BY <1>2, <1>3, <2>1, PointingStands
<1>5. sql' # None =>
        /\ \A i \in DOMAIN Tables : Described(known, Tables[i])
        /\ Asks({"join"}) => JoinPlan(known).ok
  <2>1. CASE verdict.ok /\ Selects(known)
    BY <2>1, SelectPlans
  <2>2. CASE ~(verdict.ok /\ Selects(known))
    BY <1>1, <1>2, <2>2, PlanStands DEF KInv, PlanInv, IInv
  <2> QED BY <2>1, <2>2
<1>6. PlanInv'
  <2>1. Tables' = Tables /\ Asks({"join"})' = Asks({"join"})
    BY <1>2 DEF Tables, Asks
  <2>2. \A u : Described(known, u)' = Described(known, u)
    BY <1>2 DEF Described, MariaDb, Has
  <2>3. JoinPlan(known)' = JoinPlan(known)
    BY <1>2, <2>1 DEF JoinPlan, TableMeta, ColumnClassOf, By, MariaDb
  <2> QED BY <1>2, <1>5, <2>1, <2>2, <2>3 DEF PlanInv
<1>7. KeysAreTold'
  <2> SUFFICES ASSUME Answered({"data", "join"})' PROVE KeysAreTold'
    BY DEF KeysAreTold
  <2>1. answer'.status = 200 /\ answer' # Pending /\ ~disturbed /\ Asks({"data", "join"})
    BY <1>2 DEF Answered, Asks
  <2>2. verdict.ok /\ Complete(known) /\ answer' = Success(Body(known))
    <3>1. CASE ~verdict.ok
      <4>1. answer' = Problem(verdict.code)
        BY <1>2, <3>1
      <4>2. answer'.status # 200
        BY <4>1 DEF Problem
      <4> QED BY <2>1, <4>2
    <3>2. CASE verdict.ok
      BY <1>2, <2>1, <3>2
    <3> QED BY <3>1, <3>2
  <2>3. Has(known, "select", None)
    BY <1>1, <2>1, <2>2, CompleteIs DEF Asks, AnsweredRoutes
  <2>4. sql' # None
    <3>1. Has(read, "select", None)'
      BY <1>2, <2>3 DEF Has
    <3> QED BY <1>2, <2>1, <3>1 DEF WInv, SelectedInv
  <2>5. BodyTells(Body(known))
    <3>1. CASE Asks({"data"})
      BY <1>1, <1>3, <1>5, <2>1, <2>4, <3>1, TableBodyTells
    <3>2. CASE Asks({"join"})
      BY <1>1, <1>3, <1>5, <2>1, <2>4, <3>2, JoinBodyTells
    <3> QED BY <2>1, <3>1, <3>2 DEF Asks
  <2>6. answer'.body = Body(known)
    BY <2>2 DEF Success
  <2> QED BY <1>2, <2>5, <2>6, KeysStand
<1> QED BY <1>4, <1>6, <1>7 DEF KInv

(* What leaves the request, its database and its results as they are, and  *)
(* answers no columns.                                                     *)
LEMMA KeepsKeys ==
    ASSUME KInv, UNCHANGED <<db, req, read>>, disturbed' \/ UNCHANGED disturbed, PlanInv',
           KeysAreTold'
    PROVE  KInv'
<1>1. KeysInv'
  <2>1. CASE disturbed'
    BY <2>1 DEF KeysInv
  <2>2. CASE ~disturbed'
    <3>1. Pointing(read)
      BY <2>2 DEF KInv, KeysInv
    <3>2. PICK known : known = read
      OBVIOUS
    <3> QED BY <3>1, <3>2, PointingStands
  <2> QED BY <2>1, <2>2
<1> QED BY <1>1 DEF KInv

(* A handler that waits goes on with the plan it has: one that has yet to  *)
(* find out the version of its MySQL has none.                             *)
LEMMA PausesPlan ==
    ASSUME IInv, FitsInv, PlanInv, UNCHANGED <<db, req, read, sql, answer>>,
           Knows => UNCHANGED variant
    PROVE  PlanInv'
<1> SUFFICES ASSUME Runs, sql # None PROVE PlanInv'
  BY DEF PlanInv, Runs, Asks
<1>1. Knows
  <2> SUFFICES ASSUME ~Knows PROVE FALSE
    OBVIOUS
  <2>1. read = <<>> /\ Engine = "mysql"
    BY DEF Knows, IInv, BlindInv
  <2>2. Resolved(read)
    BY DEF FitsInv
  <2> QED BY <2>1, <2>2 DEF Resolved, Has
<1>2. UNCHANGED variant
  BY <1>1
<1>3. Engine' = Engine
  BY DEF Engine
<1>4. Tables' = Tables /\ Asks({"join"})' = Asks({"join"})
  BY DEF Tables, Asks
<1>5. \A u : Described(read, u)' = Described(read, u)
  BY <1>2, <1>3 DEF Described, MariaDb, Has
<1>6. JoinPlan(read)' = JoinPlan(read)
  BY <1>2, <1>3, <1>4 DEF JoinPlan, TableMeta, ColumnClassOf, By, MariaDb
<1> QED BY <1>4, <1>5, <1>6 DEF PlanInv

LEMMA QuietKeys ==
    ASSUME IInv, WInv, KInv, Denies \/ GivesUp \/ Pauses \/ \E i \in Checked : HealthCheck(i)
    PROVE  KInv'
<1>1. CASE Denies \/ GivesUp
  <2>1. \E code : answer' = Problem(code)
    BY <1>1 DEF Denies, GivesUp
  <2>2. PlanInv'
    BY <2>1, ProblemIsAnAnswer DEF PlanInv, Runs
  <2> QED BY <1>1, <2>1, <2>2, UnansweredKeys, KeepsKeys DEF Denies, GivesUp
<1>2. CASE Pauses
  <2>1. KeysAreTold'
    BY <1>2 DEF Pauses, KInv, KeysAreTold, Answered, Asks
  <2>2. PlanInv'
    BY <1>2, PausesPlan DEF Pauses, KInv, WInv
  <2> QED BY <1>2, <2>1, <2>2, KeepsKeys DEF Pauses
<1>3. CASE \E i \in Checked : HealthCheck(i)
  <2>1. UNCHANGED <<db, req, read, sql, disturbed>> /\ ~Asks({"data", "join"})' /\ ~Runs'
    BY <1>3 DEF HealthCheck, Asks, Runs, Standalone
  <2>2. PlanInv'
    BY <2>1 DEF PlanInv
  <2> QED BY <2>1, <2>2, UnansweredKeys, KeepsKeys
<1> QED BY <1>1, <1>2, <1>3

(* Another session edits a table.                                          *)
LEMMA AlterKeys ==
    ASSUME IInv, AInv, WInv, KInv, NEW edit \in Edits, Alter(edit)
    PROVE  KInv'
<1>1. /\ UNCHANGED <<req, read, sql, answer, variant>> /\ disturbed' = TRUE /\ Runs
      /\ db' = Apply(db, edit) /\ Applies(db, edit) /\ edit.kind \in Edited /\ Catalogued(db)
  BY EditsAssumption DEF Alter, Meddles, Runs, IInv, SeenInv, AInv, CatalogueInv
<1>2. Engine' = Engine
  BY <1>1, ApplyCatalogued DEF Engine
<1>3. KeysInv'
  BY <1>1 DEF KeysInv
<1>4. PlanInv'
  <2>1. Tables' = Tables /\ Asks({"join"})' = Asks({"join"}) /\ Runs' = Runs
    BY <1>1 DEF Tables, Asks, Runs
  <2>2. \A u : Described(read, u)' = Described(read, u)
    BY <1>1, <1>2 DEF Described, MariaDb, Has
  <2>3. JoinPlan(read)' = JoinPlan(read)
    BY <1>1, <1>2, <2>1 DEF JoinPlan, TableMeta, ColumnClassOf, By, MariaDb
  <2> QED BY <1>1, <2>1, <2>2, <2>3 DEF KInv, PlanInv
<1>5. KeysAreTold'
  <2>1. answer' = Pending
    BY <1>1 DEF Runs
  <2> QED BY <2>1, UnansweredKeys
<1> QED BY <1>3, <1>4, <1>5 DEF KInv

LEMMA StartKeys ==
    ASSUME read' = <<>>, sql' = None, KeysAreTold'
    PROVE  KInv'
BY DEF KInv, KeysInv, PlanInv, Pointing, PointsRight, Has

LEMMA AskKeys ==
    ASSUME IInv, NEW r \in Requests, Ask(r)
    PROVE  KInv'
<1>1. /\ req' = r /\ read' = <<>> /\ sql' = None
      /\ answer' = IF EarlyFault(r).ok THEN EarlyAnswer(r) ELSE Problem(EarlyFault(r).code)
  BY DEF Ask, IInv, IdleInv
<1>2. r.route \in {"data", "join"} => EarlyAnswer(r) = Pending
  BY DEF EarlyAnswer
<1>3. KeysAreTold'
  <2>1. CASE r.route \in {"data", "join"}
    <3>1. answer' = Pending \/ \E code : answer' = Problem(code)
      BY <1>1, <1>2, <2>1
    <3> QED BY <3>1, UnansweredKeys
  <2>2. CASE r.route \notin {"data", "join"}
    <3>1. ~Asks({"data", "join"})'
      BY <1>1, <2>2 DEF Asks
    <3> QED BY <3>1, UnansweredKeys
  <2> QED BY <2>1, <2>2
<1> QED BY <1>1, <1>3, StartKeys

LEMMA InitKeys == Init => KInv
BY DEF Init, KInv, KeysInv, PlanInv, Pointing, PointsRight, Has, KeysAreTold, Answered

LEMMA NextKeys ==
    ASSUME KeysInSight
    PROVE  IInv /\ AInv /\ IInv' /\ AInv' /\ WInv /\ WInv' /\ KInv /\ [Next]_vars => KInv'
<1> SUFFICES ASSUME IInv, AInv, IInv', AInv', WInv, WInv', KInv, [Next]_vars PROVE KInv'
  OBVIOUS
<1>1. CASE \E kind, t, value : Finding(kind, t, value)
  BY <1>1, FindingKeys
<1>2. CASE Denies \/ GivesUp \/ Pauses \/ \E i \in Checked : HealthCheck(i)
  BY <1>2, QuietKeys
<1>3. CASE Receive
  <2>1. read' = <<>> /\ sql' = None /\ answer' = Pending
    BY <1>3 DEF Receive
  <2> QED BY <2>1, StartKeys, UnansweredKeys
<1>4. CASE \E edit \in Edits : Alter(edit)
  BY <1>4, AlterKeys
<1>5. CASE \E r \in Requests : Ask(r)
  BY <1>5, AskKeys
<1> QED BY <1>1, <1>2, <1>3, <1>4, <1>5, MoveIs DEF WInv

(* Where a role is told of the keys there are: a page or a join that       *)
(* nothing met tells of each of its columns that it is in the primary key, *)
(* and the column that a foreign key of it alone references, and of no     *)
(* other (key_metadata of the three backends).                             *)
THEOREM KeysAreAllTold ==
    ASSUME KeysInSight
    PROVE  Spec => []KeysAreTold
<1>1. Init => IInv /\ AInv /\ WInv /\ KInv
  BY InitInv, InitAnswers, InitVerdicts, InitKeys
<1>2. (IInv /\ AInv /\ WInv /\ KInv) /\ [Next]_vars => (IInv /\ AInv /\ WInv /\ KInv)'
  BY NextInv, NextAnswers, NextVerdicts, NextKeys
<1>3. (IInv /\ AInv /\ WInv /\ KInv) => KeysAreTold
  BY DEF KInv
<1> QED BY <1>1, <1>2, <1>3, PTL DEF Spec
=============================================================================
