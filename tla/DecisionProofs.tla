----------------------------- MODULE DecisionProofs -----------------------------
(***************************************************************************)
(* The decisions of the program are what they are for, for every input and *)
(* not only for those that MCDecisions enumerates.                         *)
(***************************************************************************)
EXTENDS MCDecisions, FiniteSetTheorems, SequenceTheorems, TLAPS

-----------------------------------------------------------------------------
(* Induction.  A theorem of the library with an operator as its parameter  *)
(* cannot be instantiated; these speak of sets instead.                    *)

(* A set that holds 0 and with each number the next holds all of them. *)
LEMMA NatSet ==
  ASSUME NEW S, 0 \in S, \A n \in Nat : n \in S => n + 1 \in S
  PROVE  Nat \subseteq S
<1> DEFINE T == Nat \ S
<1>1. SUFFICES ASSUME T # {} PROVE FALSE
  OBVIOUS
<1>2. PICK x \in T : \A y \in T : ~(<<y, x>> \in OpToRel(<, Nat))
  <2> HIDE DEF T
  <2>1. T \subseteq Nat
    BY DEF T
  <2> QED
    BY <1>1, <2>1, NatLessThanWellFounded, WFMin, Zenon
<1>3. x # 0 /\ x \in Nat
  OBVIOUS
<1>4. x - 1 \in T
  BY <1>3
<1>5. <<x - 1, x>> \in OpToRel(<, Nat)
  BY <1>3 DEF OpToRel
<1> QED
  BY <1>2, <1>4, <1>5

(* A bounded set of numbers has a largest, which Max returns. *)
LEMMA MaxExists ==
  ASSUME NEW S, S \subseteq Int, S # {}, NEW b \in Int, \A x \in S : x <= b
  PROVE  Max(S) \in S /\ \A x \in S : x <= Max(S)
<1> DEFINE T == {b - x : x \in S}
<1>1. T \subseteq Nat /\ T # {}
  <2>1. \A x \in S : b - x \in Nat
    OBVIOUS
  <2> QED
    BY <2>1
<1>2. PICK t \in T : \A u \in T : ~(<<u, t>> \in OpToRel(<, Nat))
  <2> HIDE DEF T
  <2> QED
    BY <1>1, NatLessThanWellFounded, WFMin, Zenon
<1>3. PICK m \in S : t = b - m
  OBVIOUS
<1>4. \A x \in S : x <= m
  <2> SUFFICES ASSUME NEW x \in S, x > m PROVE FALSE
    BY <1>3
  <2>1. b - x \in T /\ b - x < t /\ b - x \in Nat /\ t \in Nat
    BY <1>1, <1>3
  <2>2. <<b - x, t>> \in OpToRel(<, Nat)
    BY <2>1 DEF OpToRel
  <2> QED
    BY <1>2, <2>1, <2>2
<1> QED
  BY <1>4 DEF Max

(* So it returns a largest element that is at hand. *)
LEMMA MaxIs ==
  ASSUME NEW S, S \subseteq Int, NEW m \in S, \A x \in S : x <= m
  PROVE  Max(S) = m
<1>1. m \in Int /\ S # {}
  OBVIOUS
<1>2. Max(S) \in S /\ \A x \in S : x <= Max(S)
  BY <1>1, MaxExists
<1>3. Max(S) \in Int /\ m <= Max(S) /\ Max(S) <= m
  BY <1>2
<1> QED
  BY <1>1, <1>3

(* A set of natural numbers has a smallest. *)
LEMMA SmallestExists ==
  ASSUME NEW S, S \subseteq Nat, S # {}
  PROVE  \E m \in S : \A x \in S : m <= x
<1>1. PICK m \in S : \A x \in S : ~(<<x, m>> \in OpToRel(<, Nat))
  BY NatLessThanWellFounded, WFMin, Zenon
<1>2. ASSUME NEW x \in S, x < m PROVE FALSE
  <2>1. <<x, m>> \in OpToRel(<, Nat)
    BY <1>2 DEF OpToRel
  <2> QED
    BY <1>1, <2>1
<1> QED
  BY <1>2

(* The largest of the first n numbers. *)
LEMMA MaxInterval ==
  ASSUME NEW n \in Nat \ {0}
  PROVE  Max(1 .. n) = n /\ (1 .. n) \ {n} = 1 .. n - 1
<1>1. Max(1 .. n) \in 1 .. n /\ \A x \in 1 .. n : x <= Max(1 .. n)
  BY MaxExists
<1> QED
  BY <1>1

(* The largest of some places is one of them. *)
LEMMA MaxPlace ==
  ASSUME NEW n \in Nat, NEW s \in SUBSET (1 .. n), s # {}
  PROVE  Max(s) \in 1 .. n /\ s \ {Max(s)} \in SUBSET (1 .. n)
<1>1. s \subseteq Int /\ n \in Int /\ \A x \in s : x <= n
  OBVIOUS
<1>2. Max(s) \in s
  BY <1>1, MaxExists
<1> QED
  BY <1>2

-----------------------------------------------------------------------------
(* FoldLeft is a recursive function on the sets of places of a list.  That *)
(* there is one is shown for a step that is a function on some set V.      *)
FoldsTo(n, V, step, base, iter) ==
  /\ iter \in [SUBSET (1 .. n) -> V]
  /\ iter = [s \in SUBSET (1 .. n) |->
               IF s = {} THEN base ELSE step[iter[s \ {Max(s)}], Max(s)]]

(* A longer list: sets with its last place are folded last. *)
LEMMA FoldFurther ==
  ASSUME NEW n \in Nat, NEW V, NEW N \in Nat, n < N,
         NEW step \in [V \X (1 .. N) -> V], NEW base \in V,
         NEW iter, FoldsTo(n, V, step, base, iter)
  PROVE  \E further : FoldsTo(n + 1, V, step, base, further)
<1> DEFINE m == n + 1
           value(s) == IF m \in s THEN step[iter[s \ {m}], m] ELSE iter[s]
           further == [s \in SUBSET (1 .. m) |-> value(s)]
<1>1. \A s \in SUBSET (1 .. m) : s \ {m} \in SUBSET (1 .. n)
  OBVIOUS
<1>2. \A s \in SUBSET (1 .. m) : m \notin s => s \in SUBSET (1 .. n)
  OBVIOUS
<1>3. iter \in [SUBSET (1 .. n) -> V] /\ m \in 1 .. N
  <2>1. iter \in [SUBSET (1 .. n) -> V]
    BY Zenon DEF FoldsTo
  <2> QED
    BY <2>1
<1>4. \A s \in SUBSET (1 .. m) : value(s) \in V
  BY <1>1, <1>2, <1>3
<1>5. further \in [SUBSET (1 .. m) -> V]
  BY <1>4
<1>6. ASSUME NEW s \in SUBSET (1 .. m)
      PROVE  further[s] = IF s = {} THEN base ELSE step[further[s \ {Max(s)}], Max(s)]
  <2>1. CASE m \in s
    <3>1. Max(s) = m
      <4>1. s \subseteq Int /\ s # {} /\ m \in Int /\ \A x \in s : x <= m
        BY <2>1
      <4>2. Max(s) \in s /\ \A x \in s : x <= Max(s)
        BY <4>1, MaxExists
      <4>3. Max(s) >= m /\ Max(s) <= m /\ Max(s) \in Int
        BY <2>1, <4>1, <4>2
      <4> QED
        BY <4>1, <4>3
    <3>2. further[s] = step[iter[s \ {m}], m]
      BY <2>1
    <3>3. further[s \ {m}] = iter[s \ {m}]
      BY <1>1
    <3> QED
      BY <2>1, <3>1, <3>2, <3>3
  <2>2. CASE m \notin s
    <3>1. s \in SUBSET (1 .. n) /\ further[s] = iter[s]
      BY <2>2, <1>2
    <3>2. iter[s] = IF s = {} THEN base ELSE step[iter[s \ {Max(s)}], Max(s)]
      BY <3>1 DEF FoldsTo
    <3>3. s \ {Max(s)} \in SUBSET (1 .. n) /\ s \ {Max(s)} \in SUBSET (1 .. m)
          /\ m \notin s \ {Max(s)}
      BY <2>2, <3>1
    <3>4. further[s \ {Max(s)}] = iter[s \ {Max(s)}]
      BY <3>3
    <3> QED
      BY <3>1, <3>2, <3>4
  <2> QED
    BY <2>1, <2>2
<1>7. further = [s \in SUBSET (1 .. m) |->
                   IF s = {} THEN base ELSE step[further[s \ {Max(s)}], Max(s)]]
  <2> HIDE DEF value
  <2> QED
    BY <1>6, Zenon
<1> QED
  BY <1>5, <1>7 DEF FoldsTo

(* A fold is defined for every list. *)
LEMMA FoldDefined ==
  ASSUME NEW N \in Nat, NEW V, NEW step \in [V \X (1 .. N) -> V], NEW base \in V
  PROVE  \E iter : FoldsTo(N, V, step, base, iter)
<1> DEFINE S == {n \in Nat : n > N \/ \E iter : FoldsTo(n, V, step, base, iter)}
<1>1. 0 \in S
  <2> DEFINE none == [s \in SUBSET (1 .. 0) |-> base]
  <2>1. SUBSET (1 .. 0) = {{}}
    OBVIOUS
  <2>2. FoldsTo(0, V, step, base, none)
    BY <2>1 DEF FoldsTo
  <2> QED
    BY <2>2
<1>2. ASSUME NEW n \in Nat, n \in S PROVE n + 1 \in S
  <2>1. CASE n + 1 > N
    BY <2>1
  <2>2. CASE n + 1 <= N
    <3>1. n < N
      BY <2>2
    <3>2. PICK iter : FoldsTo(n, V, step, base, iter)
      BY <1>2, <3>1
    <3>3. \E further : FoldsTo(n + 1, V, step, base, further)
      BY <3>1, <3>2, FoldFurther
    <3> QED
      BY <3>3
  <2> QED
    BY <2>1, <2>2
<1>3. Nat \subseteq S
  <2> HIDE DEF S
  <2> QED
    BY <1>1, <1>2, NatSet
<1> QED
  BY <1>3

(* The equation of a fold, as far as its values are known to lie in V.     *)
FoldsWithin(n, V, step, base, iter) ==
  /\ iter[{}] = base
  /\ \A s \in SUBSET (1 .. n) : s # {} /\ iter[s \ {Max(s)}] \in V =>
       iter[s] = step[iter[s \ {Max(s)}], Max(s)]

(* Its values for the first places of the list, one step after the other.  *)
Stepwise(n, V, step, base, iter) ==
  /\ iter[1 .. 0] = base
  /\ \A k \in 0 .. n : iter[1 .. k] \in V
  /\ \A k \in 1 .. n : iter[1 .. k] = step[iter[1 .. k - 1], k]

(* Whatever satisfies the equation of a fold takes one step for each place. *)
LEMMA FoldPlaces ==
  ASSUME NEW n \in Nat, NEW V, NEW step \in [V \X (1 .. n) -> V], NEW base \in V,
         NEW iter, FoldsWithin(n, V, step, base, iter)
  PROVE  Stepwise(n, V, step, base, iter)
<1> DEFINE S == {k \in Nat : k > n \/ iter[1 .. k] \in V}
<1>1. iter[1 .. 0] = base
  <2>1. 1 .. 0 = {}
    OBVIOUS
  <2> QED
    BY <2>1, Zenon DEF FoldsWithin
<1>2. ASSUME NEW k \in 1 .. n, iter[1 .. k - 1] \in V
      PROVE  iter[1 .. k] = step[iter[1 .. k - 1], k] /\ iter[1 .. k] \in V
  <2>1. Max(1 .. k) = k /\ (1 .. k) \ {k} = 1 .. k - 1
    BY MaxInterval
  <2>2. 1 .. k \in SUBSET (1 .. n) /\ 1 .. k # {}
    OBVIOUS
  <2>3. iter[1 .. k] = step[iter[1 .. k - 1], k]
    <3>1. Max(1 .. k) = k
      BY <2>1
    <3> QED
      BY <1>2, <2>1, <2>2, <3>1, Zenon DEF FoldsWithin
  <2> QED
    BY <1>2, <2>3
<1>3. ASSUME NEW k \in Nat, k \in S PROVE k + 1 \in S
  <2>1. CASE k + 1 > n
    BY <2>1
  <2>2. CASE k + 1 <= n
    <3>1. k + 1 \in 1 .. n /\ (k + 1) - 1 = k /\ iter[1 .. k] \in V
      BY <1>3, <2>2
    <3>2. iter[1 .. k + 1] \in V
      BY <1>2, <3>1
    <3> QED
      BY <3>2
  <2> QED
    BY <2>1, <2>2
<1>4. Nat \subseteq S
  <2>1. 0 \in S
    BY <1>1
  <2> HIDE DEF S
  <2> QED
    BY <1>3, <2>1, NatSet
<1>5. \A k \in 0 .. n : iter[1 .. k] \in V
  BY <1>4
<1>6. ASSUME NEW k \in 1 .. n PROVE iter[1 .. k] = step[iter[1 .. k - 1], k]
  <2>1. iter[1 .. k - 1] \in V
    BY <1>5
  <2> QED
    BY <1>2, <2>1
<1> QED
  BY <1>1, <1>5, <1>6, Zenon DEF Stepwise

-----------------------------------------------------------------------------
(* coalesceTargets takes the directories in order and keeps those that do  *)
(* not lie below the last one kept.                                        *)
Keep(reduced, target) ==
  IF reduced = <<>> \/ ~isChildPath(Last(reduced), target)
  THEN Append(reduced, target) ELSE reduced

KeepsOneByOne(dirs, X, n, kept) ==
  /\ kept[0] = <<>> /\ kept[n] = coalesceTargets(dirs)
  /\ \A k \in 0 .. n : kept[k] \in Seq(X)
  /\ \A k \in 1 .. n : kept[k] = Keep(kept[k - 1], ByteOrdered(dirs)[k])

(* coalesceTargets keeps one directory after the other. *)
LEMMA CoalesceSteps ==
  ASSUME NEW dirs, NEW X, NEW n \in Nat, ByteOrdered(dirs) \in [1 .. n -> X]
  PROVE  \E kept : KeepsOneByOne(dirs, X, n, kept)
<1> DEFINE seq == ByteOrdered(dirs)
           V == Seq(X)
           step == [p \in V \X (1 .. n) |-> Keep(p[1], seq[p[2]])]
           Folds(iter) == iter = [s \in SUBSET DOMAIN seq |->
                            IF s = {} THEN <<>> ELSE Keep(iter[s \ {Max(s)}], seq[Max(s)])]
           iter == CHOOSE iter : Folds(iter)
<1>1. coalesceTargets(dirs) = iter[DOMAIN seq]
  BY DEF coalesceTargets, FoldLeft, MapThenFoldSet, Keep
<1>2. DOMAIN seq = 1 .. n /\ \A i \in 1 .. n : seq[i] \in X
  OBVIOUS
<1> HIDE DEF seq
<1>3. \A r \in V, i \in 1 .. n : Keep(r, seq[i]) \in V
  BY <1>2 DEF Keep
<1> HIDE DEF V
<1>4. /\ step \in [V \X (1 .. n) -> V]
      /\ \A r \in V, i \in 1 .. n : step[r, i] = Keep(r, seq[i])
  <2> HIDE DEF Keep
  <2> QED
    BY <1>3
<1>5. <<>> \in V
  BY DEF V
<1> HIDE DEF step, Keep
<1>6. PICK iter0 : FoldsTo(n, V, step, <<>>, iter0)
  BY <1>4, <1>5, FoldDefined
<1>7. Folds(iter0)
  <2>1. iter0 \in [SUBSET (1 .. n) -> V]
    BY <1>6, Zenon DEF FoldsTo
  <2>2. ASSUME NEW s \in SUBSET (1 .. n), s # {}
        PROVE  step[iter0[s \ {Max(s)}], Max(s)] = Keep(iter0[s \ {Max(s)}], seq[Max(s)])
    BY <2>1, <2>2, <1>4, MaxPlace
  <2>3. iter0 = [s \in SUBSET (1 .. n) |->
                   IF s = {} THEN <<>> ELSE step[iter0[s \ {Max(s)}], Max(s)]]
    BY <1>6, Zenon DEF FoldsTo
  <2> QED
    BY <1>2, <2>2, <2>3, Zenon
<1>8. Folds(iter)
  BY <1>7, Zenon
<1> HIDE DEF iter
<1>9. FoldsWithin(n, V, step, <<>>, iter)
  <2>1. iter = [s \in SUBSET (1 .. n) |->
                  IF s = {} THEN <<>> ELSE Keep(iter[s \ {Max(s)}], seq[Max(s)])]
    BY <1>2, <1>8, Zenon
  <2>2. iter[{}] = <<>>
    BY <2>1
  <2>3. ASSUME NEW s \in SUBSET (1 .. n), s # {}, iter[s \ {Max(s)}] \in V
        PROVE  iter[s] = step[iter[s \ {Max(s)}], Max(s)]
    <3>1. iter[s] = Keep(iter[s \ {Max(s)}], seq[Max(s)])
      BY <2>1, <2>3
    <3> QED
      BY <2>3, <3>1, <1>4, MaxPlace
  <2> QED
    BY <2>2, <2>3, Zenon DEF FoldsWithin
<1> DEFINE kept == [k \in 0 .. n |-> iter[1 .. k]]
<1>10. Stepwise(n, V, step, <<>>, iter)
  BY <1>4, <1>5, <1>9, FoldPlaces
<1>11. \A k \in 0 .. n : kept[k] = iter[1 .. k] /\ iter[1 .. k] \in V
  BY <1>10 DEF Stepwise
<1>12. iter[1 .. 0] = <<>> /\ 0 \in 0 .. n /\ n \in 0 .. n
  <2>1. 0 \in 0 .. n /\ n \in 0 .. n
    OBVIOUS
  <2> QED
    BY <1>10, <2>1, Zenon DEF Stepwise
<1> HIDE DEF kept
<1>13. kept[0] = <<>> /\ kept[n] = iter[1 .. n] /\ \A k \in 0 .. n : kept[k] \in Seq(X)
  BY <1>11, <1>12, Zenon DEF V
<1>14. ASSUME NEW k \in 1 .. n PROVE kept[k] = Keep(kept[k - 1], seq[k])
  <2>1. k \in 0 .. n /\ k - 1 \in 0 .. n
    OBVIOUS
  <2>2. iter[1 .. k] = step[iter[1 .. k - 1], k]
    BY <1>10, Zenon DEF Stepwise
  <2> QED
    BY <2>1, <2>2, <1>4, <1>11
<1> QED
  BY <1>1, <1>2, <1>13, <1>14, Zenon DEF KeepsOneByOne, seq

-----------------------------------------------------------------------------
(* InOrder sorts, for an order given as a set of pairs.                    *)
StrictOrder(S, R) ==
  /\ \A x \in S : <<x, x>> \notin R
  /\ \A x, y, z \in S : <<x, y>> \in R /\ <<y, z>> \in R => <<x, z>> \in R
  /\ \A x, y \in S : x = y \/ <<x, y>> \in R \/ <<y, x>> \in R

Smaller(S, R, x) == {y \in S : <<y, x>> \in R}
Place(S, R, x) == Cardinality(Smaller(S, R, x)) + 1

(* Different elements have different places, in their order. *)
LEMMA PlaceMonotone ==
  ASSUME NEW S, IsFiniteSet(S), NEW R, StrictOrder(S, R), NEW x \in S, NEW y \in S,
         <<x, y>> \in R
  PROVE  Place(S, R, x) < Place(S, R, y)
<1>1. Smaller(S, R, x) \subseteq Smaller(S, R, y)
  BY DEF Smaller, StrictOrder
<1>2. x \in Smaller(S, R, y) /\ x \notin Smaller(S, R, x)
  BY DEF Smaller, StrictOrder
<1>3. Smaller(S, R, y) \in SUBSET S
  BY DEF Smaller
<1>4. IsFiniteSet(Smaller(S, R, y))
  BY <1>3, FS_Subset
<1>5. /\ IsFiniteSet(Smaller(S, R, x))
      /\ Cardinality(Smaller(S, R, x)) <= Cardinality(Smaller(S, R, y))
      /\ Cardinality(Smaller(S, R, x)) # Cardinality(Smaller(S, R, y))
  BY <1>1, <1>2, <1>4, FS_Subset
<1>6. Cardinality(Smaller(S, R, x)) \in Nat /\ Cardinality(Smaller(S, R, y)) \in Nat
  BY <1>4, <1>5, FS_CardinalityType
<1> QED
  BY <1>5, <1>6 DEF Place

(* A place is a number up to the number of elements. *)
LEMMA PlaceType ==
  ASSUME NEW S, IsFiniteSet(S), NEW R, StrictOrder(S, R), NEW x \in S
  PROVE  Place(S, R, x) \in 1 .. Cardinality(S)
<1>1. Smaller(S, R, x) \in SUBSET (S \ {x})
  BY DEF Smaller, StrictOrder
<1>2. IsFiniteSet(S \ {x}) /\ Cardinality(S \ {x}) = Cardinality(S) - 1
  BY FS_RemoveElement
<1>3. IsFiniteSet(Smaller(S, R, x)) /\ Cardinality(Smaller(S, R, x)) <= Cardinality(S \ {x})
  BY <1>1, <1>2, FS_Subset
<1>4. Cardinality(Smaller(S, R, x)) \in Nat /\ Cardinality(S) \in Nat
  BY <1>3, FS_CardinalityType
<1> QED
  BY <1>2, <1>3, <1>4 DEF Place

(* Every place is taken. *)
LEMMA PlacesTaken ==
  ASSUME NEW S, IsFiniteSet(S), NEW R, StrictOrder(S, R), NEW i \in 1 .. Cardinality(S)
  PROVE  \E x \in S : Place(S, R, x) = i
<1> DEFINE n == Cardinality(S)
           place == [x \in S |-> Place(S, R, x)]
<1>1. n \in Nat
  BY FS_CardinalityType
<1>2. IsFiniteSet(1 .. n) /\ Cardinality(1 .. n) = n
  BY <1>1, FS_Interval
<1>3. place \in [S -> 1 .. n]
  BY PlaceType
<1>4. ASSUME NEW x \in S, NEW y \in S, place[x] = place[y] PROVE x = y
  <2>1. Place(S, R, x) \in Int /\ Place(S, R, y) \in Int /\ Place(S, R, x) = Place(S, R, y)
    BY <1>1, <1>4, PlaceType
  <2>2. <<x, y>> \notin R /\ <<y, x>> \notin R
    BY <2>1, PlaceMonotone
  <2> QED
    BY <2>2 DEF StrictOrder
<1>5. place \in Injection(S, 1 .. n)
  BY <1>3, <1>4 DEF Injection, IsInjective
<1>6. place \in Surjection(S, 1 .. n)
  BY <1>2, <1>5, FS_Injection
<1> QED
  BY <1>6 DEF Surjection

(* A list holds each element, at one place, in the order. *)
Sorts(S, R, list) ==
  /\ Cardinality(S) \in Nat
  /\ list \in [1 .. Cardinality(S) -> S]
  /\ \A x \in S : \E i \in 1 .. Cardinality(S) : list[i] = x
  /\ \A i, j \in 1 .. Cardinality(S) : i < j <=> <<list[i], list[j]>> \in R
  /\ \A i \in 1 .. Cardinality(S) : Place(S, R, list[i]) = i

(* So does a list that has at each place an element of that rank, if there *)
(* is one.                                                                 *)
RankAt(S, R, i, x) == x \in S /\ Cardinality(Smaller(S, R, x)) = i - 1
ByRank(S, R, list) ==
  /\ list = [i \in 1 .. Cardinality(S) |-> list[i]]
  /\ \A i \in 1 .. Cardinality(S) :
       (\E x \in S : RankAt(S, R, i, x)) => RankAt(S, R, i, list[i])

(* Such a list is sorted. *)
LEMMA RankSorts ==
  ASSUME NEW S, IsFiniteSet(S), NEW R, StrictOrder(S, R), NEW list, ByRank(S, R, list)
  PROVE  Sorts(S, R, list)
<1> DEFINE n == Cardinality(S)
<1>1. n \in Nat
  BY FS_CardinalityType
<1>2. ASSUME NEW i \in 1 .. n PROVE list[i] \in S /\ Place(S, R, list[i]) = i
  <2>1. PICK x \in S : Place(S, R, x) = i
    BY PlacesTaken
  <2>2. \A y \in S : Cardinality(Smaller(S, R, y)) \in Int
    <3>1. \A y \in S : Smaller(S, R, y) \in SUBSET S
      BY DEF Smaller
    <3> QED
      BY <3>1, FS_Subset, FS_CardinalityType
  <2>3. RankAt(S, R, i, x)
    BY <2>1, <2>2 DEF Place, RankAt
  <2>4. RankAt(S, R, i, list[i])
    BY <2>3, Zenon DEF ByRank
  <2> QED
    BY <2>2, <2>4 DEF Place, RankAt
<1>3. list \in [1 .. n -> S]
  <2>1. list = [i \in 1 .. n |-> list[i]]
    BY Zenon DEF ByRank
  <2> QED
    BY <1>2, <2>1
<1>4. ASSUME NEW x \in S PROVE \E i \in 1 .. n : list[i] = x
  <2>1. Place(S, R, x) \in 1 .. n
    BY PlaceType
  <2>2. list[Place(S, R, x)] \in S /\ Place(S, R, list[Place(S, R, x)]) = Place(S, R, x)
    BY <1>2, <2>1
  <2>3. ASSUME NEW y \in S, Place(S, R, y) = Place(S, R, x) PROVE y = x
    <3>1. Place(S, R, x) \in Int
      BY <1>1, <2>1
    <3>2. <<x, y>> \notin R /\ <<y, x>> \notin R
      BY <2>3, <3>1, PlaceMonotone
    <3> QED
      BY <3>2 DEF StrictOrder
  <2> QED
    BY <2>1, <2>2, <2>3
<1>5. ASSUME NEW i \in 1 .. n, NEW j \in 1 .. n
      PROVE  i < j <=> <<list[i], list[j]>> \in R
  <2>1. list[i] \in S /\ list[j] \in S /\ Place(S, R, list[i]) = i /\ Place(S, R, list[j]) = j
    BY <1>2
  <2>2. <<list[i], list[j]>> \in R => i < j
    BY <2>1, PlaceMonotone
  <2>3. <<list[j], list[i]>> \in R => j < i
    BY <2>1, PlaceMonotone
  <2>4. list[i] = list[j] \/ <<list[i], list[j]>> \in R \/ <<list[j], list[i]>> \in R
    BY <2>1 DEF StrictOrder
  <2> QED
    BY <1>1, <2>1, <2>2, <2>3, <2>4
<1> QED
  BY <1>1, <1>2, <1>3, <1>4, <1>5, Zenon DEF Sorts

-----------------------------------------------------------------------------
(* The order of strings is one: Before(p, q) says that there is a place,   *)
(* at most one past the end of p, where q goes on differently.             *)
Precedes(p, q, i) ==
  /\ i \in 1 .. Len(q) /\ i <= Len(p) + 1
  /\ \A k \in 1 .. i - 1 : p[k] = q[k]
  /\ i <= Len(p) => p[i] < q[i]

(* IsPrefix, by places. *)
LEMMA PrefixPlaces ==
  ASSUME NEW X, NEW p \in Seq(X), NEW q \in Seq(X)
  PROVE  IsPrefix(p, q) <=> Len(p) <= Len(q) /\ \A k \in 1 .. Len(p) : p[k] = q[k]
<1>1. Len(p) \in Nat /\ Len(q) \in Nat
  OBVIOUS
<1>2. SUFFICES ASSUME Len(p) <= Len(q)
               PROVE  SubSeq(p, 1, Len(p)) = SubSeq(q, 1, Len(p))
                        <=> \A k \in 1 .. Len(p) : p[k] = q[k]
  BY DEF IsPrefix
<1>3. /\ SubSeq(p, 1, Len(p)) = [k \in 1 .. Len(p) |-> p[k]]
      /\ SubSeq(q, 1, Len(p)) = [k \in 1 .. Len(p) |-> q[k]]
  BY <1>1, <1>2
<1> QED
  BY <1>3

(* Before, by places. *)
LEMMA BeforePlaces ==
  ASSUME NEW p \in Seq(Int), NEW q \in Seq(Int)
  PROVE  Before(p, q) <=> \E i \in Nat : Precedes(p, q, i)
<1>1. Len(p) \in Nat /\ Len(q) \in Nat /\ DOMAIN p = 1 .. Len(p) /\ DOMAIN q = 1 .. Len(q)
  OBVIOUS
<1>2. ASSUME IsStrictPrefix(p, q) PROVE Precedes(p, q, Len(p) + 1)
  <2>1. Len(p) <= Len(q) /\ (\A k \in 1 .. Len(p) : p[k] = q[k]) /\ p # q
    BY <1>2, PrefixPlaces DEF IsStrictPrefix
  <2>2. Len(p) # Len(q)
    BY <2>1, SeqEqual
  <2>3. \A n, m \in Nat : n <= m /\ n # m =>
          n + 1 \in 1 .. m /\ n + 1 <= n + 1 /\ (n + 1) - 1 = n /\ ~(n + 1 <= n)
    OBVIOUS
  <2>4. /\ Len(p) + 1 \in 1 .. Len(q) /\ Len(p) + 1 <= Len(p) + 1
        /\ (Len(p) + 1) - 1 = Len(p) /\ ~(Len(p) + 1 <= Len(p))
    BY <1>1, <2>1, <2>2, <2>3, Zenon
  <2> QED
    BY <2>1, <2>4, Zenon DEF Precedes
<1>3. ASSUME NEW i \in DOMAIN p \cap DOMAIN q, p[i] < q[i], \A k \in 1 .. i - 1 : p[k] = q[k]
      PROVE  Precedes(p, q, i)
  BY <1>1, <1>3 DEF Precedes
<1>4. ASSUME NEW i \in Nat, Precedes(p, q, i) PROVE Before(p, q)
  <2>1. CASE i <= Len(p)
    <3>1. i \in DOMAIN p \cap DOMAIN q /\ p[i] < q[i] /\ \A k \in 1 .. i - 1 : p[k] = q[k]
      BY <1>1, <1>4, <2>1 DEF Precedes
    <3> QED
      BY <3>1, Zenon DEF Before
  <2>2. CASE ~(i <= Len(p))
    <3>1. Len(p) < Len(q) /\ \A k \in 1 .. Len(p) : p[k] = q[k]
      BY <1>1, <1>4, <2>2 DEF Precedes
    <3>2. IsStrictPrefix(p, q)
      BY <1>1, <3>1, PrefixPlaces DEF IsStrictPrefix
    <3> QED
      BY <3>2 DEF Before
  <2> QED
    BY <2>1, <2>2
<1>5. ASSUME Before(p, q) PROVE \E i \in Nat : Precedes(p, q, i)
  <2>1. CASE IsStrictPrefix(p, q)
    BY <1>1, <1>2, <2>1
  <2>2. CASE \E i \in DOMAIN p \cap DOMAIN q : p[i] < q[i] /\ \A k \in 1 .. i - 1 : p[k] = q[k]
    BY <1>1, <1>3, <2>2
  <2> QED
    BY <1>5, <2>1, <2>2, Zenon DEF Before
<1> QED
  BY <1>4, <1>5

(* No string is before itself. *)
LEMMA BeforeIrreflexive ==
  ASSUME NEW p \in Seq(Int)
  PROVE  ~Before(p, p)
<1>1. ASSUME NEW i \in Nat, Precedes(p, p, i) PROVE FALSE
  <2>1. i \in 1 .. Len(p) /\ p[i] < p[i] /\ p[i] \in Int
    BY <1>1 DEF Precedes
  <2> QED
    BY <2>1
<1> QED
  BY <1>1, BeforePlaces

(* What is before something before a string is before it, too. *)
LEMMA BeforeTransitive ==
  ASSUME NEW p \in Seq(Int), NEW q \in Seq(Int), NEW r \in Seq(Int),
         Before(p, q), Before(q, r)
  PROVE  Before(p, r)
<1>1. PICK i \in Nat : Precedes(p, q, i)
  BY BeforePlaces
<1>2. PICK j \in Nat : Precedes(q, r, j)
  BY BeforePlaces
<1>3. Len(p) \in Nat /\ Len(q) \in Nat /\ Len(r) \in Nat
  OBVIOUS
<1>4. /\ \A k \in 1 .. Len(p) : p[k] \in Int
      /\ \A k \in 1 .. Len(q) : q[k] \in Int
      /\ \A k \in 1 .. Len(r) : r[k] \in Int
  OBVIOUS
<1>5. CASE i <= j
  <2>1. i \in 1 .. Len(q) /\ i <= Len(p) + 1 /\ j \in 1 .. Len(r)
    BY <1>1, <1>2, Zenon DEF Precedes
  <2>2. i \in 1 .. Len(r)
    BY <1>3, <1>5, <2>1
  <2>3. (\A k \in 1 .. i - 1 : p[k] = q[k]) /\ \A k \in 1 .. j - 1 : q[k] = r[k]
    BY <1>1, <1>2, Zenon DEF Precedes
  <2>4. \A k \in 1 .. i - 1 : p[k] = r[k]
    BY <1>5, <2>3
  <2>5. ASSUME i <= Len(p) PROVE p[i] < r[i]
    <3>1. p[i] \in Int /\ q[i] \in Int /\ r[i] \in Int /\ p[i] < q[i]
      BY <1>1, <1>4, <2>1, <2>2, <2>5 DEF Precedes
    <3>2. i < j => q[i] = r[i]
      BY <2>1, <2>3
    <3>3. i = j => q[i] < r[i]
      <4>1. i \in 1 .. Len(q)
        BY <2>1
      <4>2. j <= Len(q) => q[j] < r[j]
        BY <1>2, Zenon DEF Precedes
      <4> QED
        BY <1>3, <4>1, <4>2
    <3> QED
      BY <1>5, <3>1, <3>2, <3>3
  <2>6. Precedes(p, r, i)
    BY <2>1, <2>2, <2>4, <2>5, Zenon DEF Precedes
  <2> QED
    BY <2>6, BeforePlaces
<1>6. CASE j < i
  <2>1. i \in 1 .. Len(q) /\ i <= Len(p) + 1 /\ j \in 1 .. Len(r)
    BY <1>1, <1>2, Zenon DEF Precedes
  <2>2. j <= Len(p) + 1 /\ j \in 1 .. i - 1 /\ j \in 1 .. Len(q) /\ j \in 1 .. Len(p)
    <3>1. \A a, b, c, d, e \in Nat : b \in 1 .. c /\ b <= d + 1 /\ a \in 1 .. e /\ a < b
             => a <= d + 1 /\ a \in 1 .. b - 1 /\ a \in 1 .. c /\ a \in 1 .. d
      OBVIOUS
    <3> QED
      BY <1>3, <1>6, <2>1, <3>1, Zenon
  <2>3. (\A k \in 1 .. i - 1 : p[k] = q[k]) /\ \A k \in 1 .. j - 1 : q[k] = r[k]
    BY <1>1, <1>2, Zenon DEF Precedes
  <2>4. \A k \in 1 .. j - 1 : p[k] = r[k]
    BY <1>6, <2>3
  <2>5. p[j] < r[j]
    <3>1. p[j] = q[j]
      BY <2>2, <2>3
    <3>2. j <= Len(q) => q[j] < r[j]
      BY <1>2, Zenon DEF Precedes
    <3> QED
      BY <1>3, <2>2, <3>1, <3>2
  <2>6. Precedes(p, r, j)
    BY <2>1, <2>2, <2>4, <2>5, Zenon DEF Precedes
  <2> QED
    BY <2>6, BeforePlaces
<1> QED
  BY <1>5, <1>6

(* Of two strings one is before the other. *)
LEMMA BeforeTotal ==
  ASSUME NEW p \in Seq(Int), NEW q \in Seq(Int), p # q
  PROVE  Before(p, q) \/ Before(q, p)
<1> DEFINE D == {k \in Nat \ {0} : k > Len(p) \/ k > Len(q) \/ p[k] # q[k]}
<1>1. Len(p) \in Nat /\ Len(q) \in Nat
  OBVIOUS
<1>2. Len(p) + 1 \in D /\ Len(q) + 1 \in D
  BY <1>1
<1>3. PICK i \in D : \A k \in D : i <= k
  <2>1. D \subseteq Nat
    OBVIOUS
  <2> HIDE DEF D
  <2> QED
    BY <1>2, <2>1, SmallestExists
<1>4. i \in Nat \ {0} /\ i <= Len(p) + 1 /\ i <= Len(q) + 1
  BY <1>2, <1>3
<1>5. \A k \in 1 .. i - 1 : p[k] = q[k]
  BY <1>3, <1>4
<1>6. CASE i <= Len(p) /\ i <= Len(q)
  <2>1. p[i] \in Int /\ q[i] \in Int /\ p[i] # q[i]
    BY <1>3, <1>4, <1>6
  <2>2. Precedes(p, q, i) \/ Precedes(q, p, i)
    BY <1>1, <1>4, <1>5, <1>6, <2>1 DEF Precedes
  <2> QED
    BY <1>4, <2>2, BeforePlaces
<1>7. CASE i <= Len(q) /\ ~(i <= Len(p))
  <2>1. Precedes(p, q, i)
    BY <1>1, <1>4, <1>5, <1>7 DEF Precedes
  <2> QED
    BY <1>4, <2>1, BeforePlaces
<1>8. CASE i <= Len(p) /\ ~(i <= Len(q))
  <2>1. Precedes(q, p, i)
    BY <1>1, <1>4, <1>5, <1>8 DEF Precedes
  <2> QED
    BY <1>4, <2>1, BeforePlaces
<1>9. CASE ~(i <= Len(p)) /\ ~(i <= Len(q))
  <2>1. Len(p) = Len(q) /\ Len(p) = i - 1
    BY <1>1, <1>4, <1>9
  <2>2. p = q
    BY <1>5, <2>1, SeqEqual
  <2> QED
    BY <2>2
<1> QED
  BY <1>6, <1>7, <1>8, <1>9

(* slices.Sort of some directories holds each of them, in their order.     *)
BeforeOn(dirs) == {x \in dirs \X dirs : Before(x[1], x[2])}

(* The order of strings is a strict total order on any set of them. *)
LEMMA BeforeOrders ==
  ASSUME NEW dirs \in SUBSET Seq(Int)
  PROVE  StrictOrder(dirs, BeforeOn(dirs))
<1>1. \A p, q \in dirs : <<p, q>> \in BeforeOn(dirs) <=> Before(p, q)
  BY DEF BeforeOn
<1>2. dirs \subseteq Seq(Int)
  OBVIOUS
<1>3. \A p \in dirs : ~Before(p, p)
  BY <1>2, BeforeIrreflexive
<1>4. \A p, q, r \in dirs : Before(p, q) /\ Before(q, r) => Before(p, r)
  BY <1>2, BeforeTransitive
<1>5. \A p, q \in dirs : p = q \/ Before(p, q) \/ Before(q, p)
  BY <1>2, BeforeTotal
<1> QED
  BY <1>1, <1>3, <1>4, <1>5, Zenon DEF StrictOrder

(* ByteOrdered (slices.Sort) sorts. *)
LEMMA ByteOrderedSorts ==
  ASSUME NEW dirs \in SUBSET Seq(Int), IsFiniteSet(dirs)
  PROVE  Sorts(dirs, BeforeOn(dirs), ByteOrdered(dirs))
<1> DEFINE R == BeforeOn(dirs)
           list == ByteOrdered(dirs)
<1>1. list = [i \in 1 .. Cardinality(dirs) |->
                CHOOSE x \in dirs : Cardinality({y \in dirs : Before(y, x)}) = i - 1]
  BY DEF ByteOrdered, InOrder, Rank
<1>2. \A x \in dirs : Smaller(dirs, R, x) = {y \in dirs : Before(y, x)}
  BY DEF Smaller, BeforeOn
<1>3. ByRank(dirs, R, list)
  BY <1>1, <1>2 DEF ByRank, RankAt
<1> QED
  BY <1>3, BeforeOrders, RankSorts

(* What coalesceTargets keeps of the first k directories: each is one of   *)
(* them, each of them is one kept or lies below one, and the ones kept are *)
(* in order, none below the one before it.                                 *)
Coalesced(seq, k, r) ==
  /\ \A i \in 1 .. Len(r) : \E m \in 1 .. k : r[i] = seq[m]
  /\ \A m \in 1 .. k : \E i \in 1 .. Len(r) : isChildPath(r[i], seq[m])
  /\ \A i, j \in 1 .. Len(r) : i < j => Before(r[i], r[j])
  /\ \A i \in 1 .. Len(r) - 1 : ~isChildPath(r[i], r[i + 1])

(* One more directory: what was kept stays in order and covers it, too. *)
LEMMA CoalescedFurther ==
  ASSUME NEW n \in Nat, NEW X, NEW seq \in [1 .. n -> X],
         \A i, j \in 1 .. n : i < j => Before(seq[i], seq[j]),
         NEW k \in 0 .. n, k + 1 \in 1 .. n,
         NEW r \in Seq(X), Coalesced(seq, k, r)
  PROVE  Coalesced(seq, k + 1, Keep(r, seq[k + 1]))
<1> DEFINE t == seq[k + 1]
           l == Len(r)
<1>1. l \in Nat /\ t \in X /\ k \in Nat /\ \A m \in 1 .. k : m \in 1 .. n /\ m \in 1 .. k + 1
  OBVIOUS
<1>2. /\ \A i \in 1 .. l : \E m \in 1 .. k : r[i] = seq[m]
      /\ \A m \in 1 .. k : \E i \in 1 .. l : isChildPath(r[i], seq[m])
      /\ \A i, j \in 1 .. l : i < j => Before(r[i], r[j])
      /\ \A i \in 1 .. l - 1 : ~isChildPath(r[i], r[i + 1])
  BY Zenon DEF Coalesced
<1>3. CASE r = <<>> \/ ~isChildPath(Last(r), t)
  <2> DEFINE s == Append(r, t)
  <2>1. Keep(r, t) = s
    BY <1>3, Zenon DEF Keep
  <2>2. Len(s) = l + 1 /\ s[l + 1] = t /\ \A i \in 1 .. l : s[i] = r[i]
    BY <1>1
  <2> HIDE DEF s, t, l
  <2>3. \A i \in 1 .. l + 1 : i \in 1 .. l \/ i = l + 1
    BY <1>1
  <2>4. \A i \in 1 .. l : i \in 1 .. l + 1
    BY <1>1
  <2>5. /\ k + 1 \in 1 .. k + 1 /\ l + 1 \in 1 .. l + 1
        /\ \A m \in 1 .. k + 1 : m \in 1 .. k \/ m = k + 1
    BY <1>1
  <2>6. ASSUME NEW i \in 1 .. l + 1 PROVE \E m \in 1 .. k + 1 : s[i] = seq[m]
    <3>1. CASE i \in 1 .. l
      BY <1>1, <1>2, <2>2, <3>1
    <3>2. CASE i = l + 1
      BY <2>2, <2>5, <3>2 DEF t
    <3> QED
      BY <2>3, <3>1, <3>2
  <2>7. ASSUME NEW m \in 1 .. k + 1 PROVE \E i \in 1 .. l + 1 : isChildPath(s[i], seq[m])
    <3>1. CASE m \in 1 .. k
      <4>1. PICK i \in 1 .. l : isChildPath(r[i], seq[m])
        BY <1>2, <3>1, Zenon
      <4> QED
        BY <2>2, <2>4, <4>1, Zenon
    <3>2. CASE m = k + 1
      BY <2>2, <2>5, <3>2, Zenon DEF isChildPath, t
    <3> QED
      BY <2>5, <3>1, <3>2
  <2>8. ASSUME NEW i \in 1 .. l + 1, NEW j \in 1 .. l + 1, i < j
        PROVE  Before(s[i], s[j])
    <3>1. i \in 1 .. l
      BY <1>1, <2>8
    <3>2. CASE j \in 1 .. l
      BY <1>2, <2>2, <2>8, <3>1, <3>2, Zenon
    <3>3. CASE j = l + 1
      <4>1. PICK m \in 1 .. k : r[i] = seq[m]
        BY <1>2, <3>1, Zenon
      <4>2. m < k + 1 /\ m \in 1 .. n
        BY <1>1
      <4>3. Before(seq[m], seq[k + 1])
        BY <4>2, Zenon
      <4> QED
        BY <2>2, <3>1, <3>3, <4>1, <4>3, Zenon DEF t
    <3> QED
      BY <2>3, <3>2, <3>3
  <2>9. ASSUME NEW i \in 1 .. (l + 1) - 1 PROVE ~isChildPath(s[i], s[i + 1])
    <3>1. i \in 1 .. l
      BY <1>1
    <3>2. CASE i + 1 \in 1 .. l
      <4>1. i \in 1 .. l - 1
        BY <1>1, <3>2
      <4> QED
        BY <1>2, <2>2, <3>1, <3>2, <4>1, Zenon
    <3>3. CASE i + 1 \notin 1 .. l
      <4>1. i = l /\ r # <<>>
        BY <1>1, <3>1, <3>3 DEF l
      <4>2. Last(r) = r[i]
        BY <4>1 DEF Last, l
      <4> QED
        BY <1>3, <2>2, <3>1, <4>1, <4>2
    <3> QED
      BY <3>2, <3>3
  <2>10. Coalesced(seq, k + 1, s)
    BY <2>2, <2>6, <2>7, <2>8, <2>9 DEF Coalesced
  <2> QED
    BY <2>1, <2>10 DEF t
<1>4. CASE ~(r = <<>> \/ ~isChildPath(Last(r), t))
  <2>1. Keep(r, t) = r
    BY <1>4, Zenon DEF Keep
  <2>2. l \in 1 .. l /\ isChildPath(r[l], t)
    BY <1>1, <1>4 DEF Last
  <2> HIDE DEF t, l
  <2>3. ASSUME NEW i \in 1 .. l PROVE \E m \in 1 .. k + 1 : r[i] = seq[m]
    BY <1>1, <1>2
  <2>4. ASSUME NEW m \in 1 .. k + 1 PROVE \E i \in 1 .. l : isChildPath(r[i], seq[m])
    <3>1. CASE m \in 1 .. k
      BY <1>2, <3>1, Zenon
    <3>2. CASE m = k + 1
      BY <2>2, <3>2, Zenon DEF t
    <3>3. m \in 1 .. k \/ m = k + 1
      BY <1>1
    <3> QED
      BY <3>1, <3>2, <3>3
  <2>5. Coalesced(seq, k + 1, r)
    BY <1>2, <2>3, <2>4, Zenon DEF Coalesced, l
  <2> QED
    BY <2>1, <2>5 DEF t
<1> QED
  BY <1>3, <1>4

(* So coalesceTargets keeps of the directories all it has to.              *)
LEMMA TargetsCoalesced ==
  ASSUME NEW dirs \in SUBSET Seq(Int), IsFiniteSet(dirs)
  PROVE  /\ coalesceTargets(dirs) \in Seq(dirs)
         /\ Coalesced(ByteOrdered(dirs), Cardinality(dirs), coalesceTargets(dirs))
<1> DEFINE n == Cardinality(dirs)
           seq == ByteOrdered(dirs)
<1>1. Sorts(dirs, BeforeOn(dirs), seq)
  BY ByteOrderedSorts
<1> HIDE DEF seq
<1>2. /\ n \in Nat /\ seq \in [1 .. n -> dirs]
      /\ \A i, j \in 1 .. n : i < j <=> <<seq[i], seq[j]>> \in BeforeOn(dirs)
  BY <1>1, Zenon DEF Sorts
<1>3. \A i, j \in 1 .. n : i < j => Before(seq[i], seq[j])
  BY <1>2 DEF BeforeOn
<1>4. PICK kept : /\ kept[0] = <<>> /\ kept[n] = coalesceTargets(dirs)
                  /\ \A k \in 0 .. n : kept[k] \in Seq(dirs)
                  /\ \A k \in 1 .. n : kept[k] = Keep(kept[k - 1], seq[k])
  <2>1. n \in Nat /\ ByteOrdered(dirs) \in [1 .. n -> dirs]
    BY <1>2 DEF seq
  <2> HIDE DEF n
  <2>2. \E kept : KeepsOneByOne(dirs, dirs, n, kept)
    BY <2>1, CoalesceSteps
  <2> QED
    BY <2>2, Zenon DEF KeepsOneByOne, seq
<1> DEFINE S == {k \in Nat : k > n \/ Coalesced(seq, k, kept[k])}
<1> HIDE DEF n
<1>5. 0 \in S
  <2>1. Len(kept[0]) = 0
    BY <1>4
  <2>2. Coalesced(seq, 0, kept[0])
    BY <2>1 DEF Coalesced
  <2> QED
    BY <2>2
<1>6. ASSUME NEW k \in Nat, k \in S PROVE k + 1 \in S
  <2>1. CASE k + 1 > n
    BY <2>1
  <2>2. CASE k + 1 <= n
    <3>1. k \in 0 .. n /\ k + 1 \in 1 .. n /\ (k + 1) - 1 = k /\ ~(k > n)
      BY <1>2, <2>2
    <3>2. Coalesced(seq, k, kept[k]) /\ kept[k] \in Seq(dirs)
      BY <1>4, <1>6, <3>1
    <3>3. Coalesced(seq, k + 1, Keep(kept[k], seq[k + 1]))
      BY <1>2, <1>3, <3>1, <3>2, CoalescedFurther
    <3>4. kept[k + 1] = Keep(kept[k], seq[k + 1])
      BY <1>4, <3>1
    <3> QED
      BY <3>3, <3>4
  <2> QED
    BY <1>2, <2>1, <2>2
<1>7. Nat \subseteq S
  <2> HIDE DEF S
  <2> QED
    BY <1>5, <1>6, NatSet
<1>8. n \in S /\ ~(n > n) /\ n \in 0 .. n
  BY <1>2, <1>7
<1>9. Coalesced(seq, n, kept[n]) /\ kept[n] \in Seq(dirs)
  BY <1>4, <1>8
<1> QED
  BY <1>4, <1>9 DEF seq, n

(* Each changed directory is a target or lies below one, in the sense of   *)
(* isChildPath; and a target below another has one outside that between    *)
(* them.                                                                   *)
LEMMA TargetsCover ==
  ASSUME NEW dirs \in SUBSET Seq(Int), IsFiniteSet(dirs)
  PROVE  /\ Targets(dirs) \subseteq dirs
         /\ \A d \in dirs : \E t \in Targets(dirs) : isChildPath(t, d)
<1> DEFINE n == Cardinality(dirs)
           seq == ByteOrdered(dirs)
           r == coalesceTargets(dirs)
<1>1. r \in Seq(dirs) /\ Coalesced(seq, n, r)
  BY TargetsCoalesced
<1>2. Sorts(dirs, BeforeOn(dirs), seq)
  BY ByteOrderedSorts
<1>3. Targets(dirs) = {r[i] : i \in 1 .. Len(r)}
  <2>1. Targets(dirs) = {r[i] : i \in DOMAIN r}
    BY Zenon DEF Targets, ToSet
  <2> QED
    BY <1>1, <2>1
<1> HIDE DEF n, seq, r
<1>4. Targets(dirs) \subseteq dirs
  BY <1>1, <1>3
<1>5. ASSUME NEW d \in dirs PROVE \E t \in Targets(dirs) : isChildPath(t, d)
  <2>1. PICK m \in 1 .. n : seq[m] = d
    BY <1>2, Zenon DEF Sorts, n
  <2>2. PICK i \in 1 .. Len(r) : isChildPath(r[i], seq[m])
    BY <1>1, Zenon DEF Coalesced
  <2> QED
    BY <1>3, <2>1, <2>2
<1> QED
  BY <1>4, <1>5

(* Of two targets, one below the other, the later was kept because of a    *)
(* target between them that is not below the first.                        *)
LEMMA TargetBetween ==
  ASSUME NEW dirs \in SUBSET Seq(Int), IsFiniteSet(dirs),
         NEW s \in Targets(dirs), NEW t \in Targets(dirs), Before(s, t), isChildPath(s, t)
  PROVE  \E u \in Targets(dirs) : Before(s, u) /\ Before(u, t) /\ ~isChildPath(s, u)
<1> DEFINE seq == ByteOrdered(dirs)
           r == coalesceTargets(dirs)
<1>1. r \in Seq(dirs) /\ Coalesced(seq, Cardinality(dirs), r)
  BY TargetsCoalesced
<1>2. Targets(dirs) = {r[i] : i \in 1 .. Len(r)}
  <2>1. Targets(dirs) = {r[i] : i \in DOMAIN r}
    BY Zenon DEF Targets, ToSet
  <2> QED
    BY <1>1, <2>1
<1> HIDE DEF seq, r
<1>3. /\ \A i, j \in 1 .. Len(r) : i < j => Before(r[i], r[j])
      /\ \A i \in 1 .. Len(r) - 1 : ~isChildPath(r[i], r[i + 1])
  BY <1>1, Zenon DEF Coalesced
<1>4. PICK i \in 1 .. Len(r), j \in 1 .. Len(r) : s = r[i] /\ t = r[j]
  BY <1>2
<1>5. Len(r) \in Nat /\ s \in Seq(Int) /\ t \in Seq(Int)
  BY <1>1, <1>2
<1>6. i < j
  <2>1. ~Before(t, s) /\ s # t
    BY <1>5, BeforeTransitive, BeforeIrreflexive
  <2>2. i # j
    BY <1>4, <2>1
  <2>3. j < i => Before(t, s)
    BY <1>3, <1>4, Zenon
  <2> QED
    BY <1>5, <2>1, <2>2, <2>3
<1>7. i \in 1 .. Len(r) - 1 /\ i + 1 \in 1 .. Len(r) /\ i < i + 1 /\ (i + 1 < j \/ i + 1 = j)
  BY <1>5, <1>6
<1>8. ~isChildPath(s, r[i + 1]) /\ Before(s, r[i + 1]) /\ r[i + 1] \in Targets(dirs)
  BY <1>2, <1>3, <1>4, <1>7
<1>9. i + 1 # j
  BY <1>4, <1>8
<1>10. Before(r[i + 1], t)
  BY <1>3, <1>4, <1>7, <1>9
<1> QED
  BY <1>8, <1>10

-----------------------------------------------------------------------------
(* The ends of the names in a path, and where the name before an end starts. *)
Ends(p) == {i - 1 : i \in Slashes(p) \ {1}} \cup {Len(p)}
EndList(p) == InOrder(Ends(p), <)
Start(p, e) == Max({i \in Slashes(p) : i <= e})

(* A path from the root. *)
Absolute == {p \in Seq(Int) : Len(p) >= 1 /\ p[1] = Separator}

(* Names cuts a path at those ends. *)
LEMMA NamesByEnds ==
  ASSUME NEW p \in Absolute, p # <<Separator>>
  PROVE  Names(p) = [n \in 1 .. Cardinality(Ends(p)) |->
                       SubSeq(p, Start(p, EndList(p)[n]) + 1, EndList(p)[n])]
<1>1. DOMAIN EndList(p) = 1 .. Cardinality(Ends(p))
  BY DEF EndList, InOrder
<1>2. Names(p) = [n \in DOMAIN EndList(p) |->
                    SubSeq(p, Start(p, EndList(p)[n]) + 1, EndList(p)[n])]
  BY DEF Names, EndList, Start, Ends
<1> QED
  BY <1>1, <1>2

(* Numbers in order. *)
LessThan == {x \in Int \X Int : x[1] < x[2]}

(* InOrder sorts numbers. *)
LEMMA NumbersSort ==
  ASSUME NEW S \in SUBSET Int, IsFiniteSet(S)
  PROVE  Sorts(S, LessThan, InOrder(S, <))
<1> DEFINE list == InOrder(S, <)
           rank(x) == Cardinality({y \in S : y < x})
<1>1. list = [i \in 1 .. Cardinality(S) |-> CHOOSE x \in S : rank(x) = i - 1]
  BY DEF InOrder, Rank
<1>2. \A x \in S : Cardinality(Smaller(S, LessThan, x)) = rank(x)
  <2>1. \A x \in S : Smaller(S, LessThan, x) = {y \in S : y < x}
    BY DEF Smaller, LessThan
  <2> QED
    BY <2>1
<1> HIDE DEF list, rank
<1>3. ByRank(S, LessThan, list)
  <2>1. list = [i \in 1 .. Cardinality(S) |-> list[i]]
    BY <1>1
  <2>2. ASSUME NEW i \in 1 .. Cardinality(S), NEW x \in S, rank(x) = i - 1
        PROVE  list[i] \in S /\ rank(list[i]) = i - 1
    BY <1>1, <2>2
  <2> QED
    BY <1>2, <2>1, <2>2, Zenon DEF ByRank, RankAt
<1>4. StrictOrder(S, LessThan)
  BY DEF StrictOrder, LessThan
<1>5. Sorts(S, LessThan, list)
  BY <1>3, <1>4, RankSorts
<1> QED
  BY <1>5 DEF list

(* What is added at the end of a sorted list leaves its places. *)
Continues(A, B) == A \subseteq B /\ \A b \in B \ A, a \in A : a < b

(* The smaller set's list begins the other's. *)
LEMMA SortedPrefix ==
  ASSUME NEW A \in SUBSET Int, NEW B \in SUBSET Int, IsFiniteSet(B), Continues(A, B),
         NEW f, Sorts(A, LessThan, f), NEW g, Sorts(B, LessThan, g)
  PROVE  /\ Cardinality(A) <= Cardinality(B)
         /\ \A i \in 1 .. Cardinality(A) : f[i] = g[i]
<1> DEFINE n == Cardinality(A)
           m == Cardinality(B)
<1>5. A \subseteq B /\ \A b \in B \ A, a \in A : a < b
  BY Zenon DEF Continues
<1>1. n <= m
  BY <1>5, FS_Subset
<1>2. /\ n \in Nat /\ f \in [1 .. n -> A] /\ \A i \in 1 .. n : Place(A, LessThan, f[i]) = i
      /\ m \in Nat /\ g \in [1 .. m -> B] /\ \A i \in 1 .. m : Place(B, LessThan, g[i]) = i
      /\ \A x \in B : \E i \in 1 .. m : g[i] = x
  BY Zenon DEF Sorts
<1>3. \A x \in A : Smaller(A, LessThan, x) = Smaller(B, LessThan, x)
  BY <1>5 DEF Smaller, LessThan
<1>4. ASSUME NEW i \in 1 .. n PROVE f[i] = g[i]
  <2>1. f[i] \in A /\ f[i] \in B
    BY <1>2, <1>5
  <2>2. PICK j \in 1 .. m : g[j] = f[i]
    BY <1>2, <2>1
  <2>3. Place(B, LessThan, f[i]) = Place(A, LessThan, f[i])
    BY <1>3, <2>1, Zenon DEF Place
  <2> QED
    BY <1>2, <2>2, <2>3
<1> QED
  BY <1>1, <1>4

(* The ends are places of the path, the last of them its end; a name       *)
(* starts where the one before it ends, and the separator follows it.      *)
EndsInOrder(p, n, e) ==
  /\ n \in Nat \ {0} /\ e \in [1 .. n -> 1 .. Len(p)]
  /\ \A x \in Ends(p) : \E i \in 1 .. n : e[i] = x
  /\ \A i \in 1 .. n : e[i] \in Ends(p)
  /\ \A i, j \in 1 .. n : i < j => e[i] < e[j]
  /\ e[n] = Len(p)
  /\ Start(p, e[1]) = 1
  /\ \A k \in 1 .. n - 1 : Start(p, e[k + 1]) = e[k] + 1 /\ p[e[k] + 1] = Separator

(* The ends are places of the path. *)
LEMMA EndsType ==
  ASSUME NEW p \in Absolute
  PROVE  /\ Len(p) \in Ends(p) /\ Ends(p) \in SUBSET (1 .. Len(p)) /\ Ends(p) \in SUBSET Int
         /\ IsFiniteSet(Ends(p))
         /\ Slashes(p) \subseteq 1 .. Len(p) /\ 1 \in Slashes(p)
         /\ \A i \in Slashes(p) : p[i] = Separator
<1>1. Len(p) \in Nat \ {0} /\ DOMAIN p = 1 .. Len(p) /\ p[1] = Separator
  BY DEF Absolute
<1>2. /\ Slashes(p) \subseteq 1 .. Len(p) /\ 1 \in Slashes(p)
      /\ \A i \in Slashes(p) : p[i] = Separator
  BY <1>1 DEF Slashes
<1>3. Ends(p) \in SUBSET (1 .. Len(p)) /\ Len(p) \in Ends(p)
  BY <1>1, <1>2 DEF Ends
<1>4. IsFiniteSet(Ends(p))
  <2>1. IsFiniteSet(1 .. Len(p))
    BY <1>1, FS_Interval
  <2> QED
    BY <1>3, <2>1, FS_Subset, Zenon
<1>5. Ends(p) \in SUBSET Int
  BY <1>3
<1> QED
  BY <1>2, <1>3, <1>4, <1>5

(* The ends, sorted, are in order. *)
LEMMA EndsOrdered ==
  ASSUME NEW p \in Absolute
  PROVE  EndsInOrder(p, Cardinality(Ends(p)), EndList(p))
<1> DEFINE n == Cardinality(Ends(p))
           e == EndList(p)
           S == Slashes(p)
<1>1. /\ Len(p) \in Ends(p) /\ Ends(p) \in SUBSET (1 .. Len(p)) /\ S \subseteq 1 .. Len(p)
      /\ 1 \in S /\ \A i \in S : p[i] = Separator
  BY EndsType
<1>2. Sorts(Ends(p), LessThan, e)
  BY EndsType, NumbersSort DEF EndList
<1>3. Len(p) \in Nat \ {0}
  BY DEF Absolute
<1>4. \A i \in S : i # 1 => i - 1 \in Ends(p)
  BY DEF Ends
<1>5. \A x \in Ends(p) : x # Len(p) => x + 1 \in S
  <2>1. S \subseteq Int
    BY <1>1
  <2> QED
    BY <2>1 DEF Ends
<1>6. \A x : Start(p, x) = Max({i \in S : i <= x})
  BY DEF Start
<1> HIDE DEF n, e, S
<1>7. /\ n \in Nat /\ e \in [1 .. n -> Ends(p)]
      /\ \A x \in Ends(p) : \E i \in 1 .. n : e[i] = x
  BY <1>2, Zenon DEF Sorts, n
<1>8. \A i, j \in 1 .. n : i < j <=> e[i] < e[j]
  <2>1. \A i, j \in 1 .. n : i < j <=> <<e[i], e[j]>> \in LessThan
    BY <1>2, Zenon DEF Sorts, n
  <2>2. \A i \in 1 .. n : e[i] \in Int
    BY <1>1, <1>7
  <2> QED
    BY <2>1, <2>2 DEF LessThan
<1>9. n \in Nat \ {0} /\ n \in 1 .. n
  BY <1>1, <1>7
<1>10. e[n] = Len(p)
  <2>1. PICK i \in 1 .. n : e[i] = Len(p)
    BY <1>1, <1>7
  <2>2. e[n] \in 1 .. Len(p)
    BY <1>1, <1>7, <1>9
  <2>3. i < n => e[i] < e[n]
    BY <1>8, <1>9
  <2> QED
    BY <1>3, <1>9, <2>1, <2>2, <2>3
<1>11. Start(p, e[1]) = 1
  <2>1. 1 \in 1 .. n
    BY <1>9
  <2>2. e[1] \in 1 .. Len(p) /\ e[1] \in Int
    BY <1>1, <1>7, <2>1
  <2>3. ASSUME NEW i \in S, i <= e[1] PROVE i <= 1
    <3> SUFFICES ASSUME i > 1 PROVE FALSE
      BY <1>1
    <3>1. PICK k \in 1 .. n : e[k] = i - 1
      BY <1>4, <1>7
    <3>2. i \in Int /\ e[k] < e[1]
      BY <1>1, <2>2, <2>3, <3>1
    <3>3. k < 1
      BY <1>8, <2>1, <3>2
    <3> QED
      BY <3>3
  <2> DEFINE T == {i \in S : i <= e[1]}
  <2>4. T \subseteq Int
    <3>1. S \subseteq Int
      BY <1>1
    <3> QED
      BY <3>1, Zenon
  <2>5. 1 \in T
    BY <1>1, <2>2
  <2>6. \A x \in T : x <= 1
    BY <2>3, Zenon
  <2>7. Max(T) = 1
    <3> HIDE DEF T
    <3> QED
      BY <2>4, <2>5, <2>6, MaxIs
  <2> QED
    BY <1>6, <2>7, Zenon
<1>12. ASSUME NEW k \in 1 .. n - 1
       PROVE  Start(p, e[k + 1]) = e[k] + 1 /\ p[e[k] + 1] = Separator
  <2>1. k \in 1 .. n /\ k + 1 \in 1 .. n /\ k < k + 1
    BY <1>9
  <2>2. e[k] < e[k + 1] /\ e[k] \in 1 .. Len(p) /\ e[k + 1] \in 1 .. Len(p)
    BY <1>1, <1>7, <1>8, <2>1
  <2>3. e[k] # Len(p) /\ e[k] \in Ends(p)
    BY <1>3, <1>7, <2>1, <2>2
  <2>4. e[k] + 1 \in S
    BY <1>5, <2>3
  <2>5. ASSUME NEW i \in S, i <= e[k + 1] PROVE i <= e[k] + 1
    <3> SUFFICES ASSUME i > e[k] + 1 PROVE FALSE
      BY <1>1, <2>2
    <3>1. i \in Int /\ i # 1
      BY <1>1, <2>2
    <3>2. PICK m \in 1 .. n : e[m] = i - 1
      BY <1>4, <1>7, <3>1
    <3>3. e[m] < e[k + 1] /\ e[k] < e[m]
      BY <2>2, <2>5, <3>1, <3>2
    <3>4. m < k + 1 /\ k < m
      BY <1>8, <2>1, <3>3
    <3> QED
      BY <3>4
  <2> DEFINE T == {i \in S : i <= e[k + 1]}
  <2>6. T \subseteq Int
    <3>1. S \subseteq Int
      BY <1>1
    <3> QED
      BY <3>1, Zenon
  <2>7. e[k] + 1 \in T
    BY <2>2, <2>4
  <2>8. \A x \in T : x <= e[k] + 1
    BY <2>5, Zenon
  <2>9. Max(T) = e[k] + 1
    <3> HIDE DEF T
    <3> QED
      BY <2>6, <2>7, <2>8, MaxIs
  <2>10. Start(p, e[k + 1]) = e[k] + 1
    BY <1>6, <2>9, Zenon
  <2> QED
    BY <1>1, <2>4, <2>10
<1>13. e \in [1 .. n -> 1 .. Len(p)] /\ \A i \in 1 .. n : e[i] \in Ends(p)
  BY <1>1, <1>7
<1> QED
  BY <1>7, <1>8, <1>9, <1>10, <1>11, <1>12, <1>13, Zenon DEF EndsInOrder, n, e

(* One list of names continues another, by places.                         *)
LEMMA NamesPrefix ==
  ASSUME NEW p \in Absolute, p # <<Separator>>, NEW q \in Absolute, q # <<Separator>>
  PROVE  Below(p, q) <=>
           /\ Cardinality(Ends(p)) <= Cardinality(Ends(q))
           /\ \A k \in 1 .. Cardinality(Ends(p)) :
                SubSeq(p, Start(p, EndList(p)[k]) + 1, EndList(p)[k])
                  = SubSeq(q, Start(q, EndList(q)[k]) + 1, EndList(q)[k])
<1> DEFINE n == Cardinality(Ends(p))
           m == Cardinality(Ends(q))
           f(k) == SubSeq(p, Start(p, EndList(p)[k]) + 1, EndList(p)[k])
           g(k) == SubSeq(q, Start(q, EndList(q)[k]) + 1, EndList(q)[k])
           X == {f(k) : k \in 1 .. n} \cup {g(k) : k \in 1 .. m}
<1>1. n \in Nat /\ m \in Nat
  BY EndsOrdered, Zenon DEF EndsInOrder
<1>2. Names(p) = [k \in 1 .. n |-> f(k)] /\ Names(q) = [k \in 1 .. m |-> g(k)]
  BY NamesByEnds
<1> HIDE DEF n, m, f, g
<1>3. [k \in 1 .. n |-> f(k)] \in Seq(X) /\ [k \in 1 .. m |-> g(k)] \in Seq(X)
  BY <1>1
<1>4. Len(Names(p)) = n /\ Len(Names(q)) = m
  BY <1>1, <1>2
<1>5. Below(p, q) <=> n <= m /\ \A k \in 1 .. n : Names(p)[k] = Names(q)[k]
  <2> HIDE DEF X
  <2>1. Names(p) \in Seq(X) /\ Names(q) \in Seq(X)
    BY <1>2, <1>3
  <2> QED
    BY <1>4, <2>1, PrefixPlaces DEF Below
<1>6. \A k \in 1 .. n : Names(p)[k] = f(k) /\ (n <= m => Names(q)[k] = g(k))
  BY <1>1, <1>2
<1>7. Below(p, q) <=> n <= m /\ \A k \in 1 .. n : f(k) = g(k)
  BY <1>5, <1>6
<1> QED
  BY <1>7, Zenon DEF f, g, n, m

(* The root is above every path.                                           *)
LEMMA RootAbove ==
  ASSUME NEW p \in Absolute
  PROVE  Below(<<Separator>>, p) /\ (p # <<Separator>> => ~Below(p, <<Separator>>))
<1>1. Names(<<Separator>>) = <<>>
  BY DEF Names
<1>2. CASE p = <<Separator>>
  BY <1>1, <1>2 DEF Below, IsPrefix
<1>3. CASE p # <<Separator>>
  <2> DEFINE n == Cardinality(Ends(p))
  <2>1. n \in Nat \ {0}
    BY EndsOrdered, Zenon DEF EndsInOrder
  <2>2. Names(p) = [k \in 1 .. n |-> SubSeq(p, Start(p, EndList(p)[k]) + 1, EndList(p)[k])]
    BY <1>3, NamesByEnds
  <2> HIDE DEF n
  <2>3. Len(Names(p)) = n /\ Len(<<>>) = 0
    BY <2>1, <2>2
  <2>4. SubSeq(Names(p), 1, 0) = <<>> /\ SubSeq(<<>>, 1, 0) = <<>>
    BY <2>1, <2>2
  <2> QED
    BY <1>1, <2>1, <2>3, <2>4 DEF Below, IsPrefix
<1> QED
  BY <1>2, <1>3

(* Equal names are equally long and the same characters.                   *)
NameBetween(p, a, e) == SubSeq(p, a + 1, e)

(* Two names that begin at the same place and are equal end there, too. *)
LEMMA SameName ==
  ASSUME NEW p \in Seq(Int), NEW q \in Seq(Int), NEW a \in Nat \ {0},
         NEW e \in 1 .. Len(p), NEW f \in 1 .. Len(q), a <= e, a <= f,
         NameBetween(p, a, e) = NameBetween(q, a, f)
  PROVE  e = f /\ \A i \in a + 1 .. e : p[i] = q[i]
<1>1. Len(p) \in Nat /\ Len(q) \in Nat /\ e \in Nat /\ f \in Nat
  OBVIOUS
<1>2. /\ SubSeq(p, a + 1, e) = [i \in 1 .. e - a |-> p[i + a]]
      /\ SubSeq(q, a + 1, f) = [i \in 1 .. f - a |-> q[i + a]]
  BY <1>1
<1>3. e - a \in Nat /\ f - a \in Nat
  BY <1>1
<1>6. SubSeq(p, a + 1, e) = SubSeq(q, a + 1, f)
  BY Zenon DEF NameBetween
<1>4. e - a = f - a
  <2>1. Len([i \in 1 .. e - a |-> p[i + a]]) = e - a
    BY <1>3
  <2>2. Len([i \in 1 .. f - a |-> q[i + a]]) = f - a
    BY <1>3
  <2> QED
    BY <1>2, <1>6, <2>1, <2>2
<1>5. ASSUME NEW i \in a + 1 .. e PROVE p[i] = q[i]
  <2>1. i - a \in 1 .. e - a /\ i - a \in 1 .. f - a /\ (i - a) + a = i
    BY <1>1, <1>4
  <2>2. SubSeq(p, a + 1, e)[i - a] = p[i] /\ SubSeq(q, a + 1, f)[i - a] = q[i]
    BY <1>2, <2>1
  <2> QED
    BY <1>6, <2>2
<1> QED
  BY <1>1, <1>4, <1>5

(* A path that continues another at a separator has its ends and more.     *)
LEMMA LongerEnds ==
  ASSUME NEW p \in Absolute, NEW q \in Absolute, IsPrefix(Append(p, Separator), q)
  PROVE  /\ Len(p) < Len(q) /\ \A i \in 1 .. Len(p) : p[i] = q[i]
         /\ Slashes(p) = {i \in Slashes(q) : i <= Len(p)}
         /\ Continues(Ends(p), Ends(q))
<1> DEFINE l == Len(p)
<1>1. l \in Nat \ {0} /\ DOMAIN p = 1 .. l /\ DOMAIN q = 1 .. Len(q) /\ Len(q) \in Nat
  BY DEF Absolute
<1>2. p \in Seq(Int) /\ q \in Seq(Int) /\ Separator \in Int
  BY DEF Absolute, Separator
<1>3. /\ Append(p, Separator) \in Seq(Int) /\ Len(Append(p, Separator)) = l + 1
      /\ Append(p, Separator)[l + 1] = Separator
      /\ \A i \in 1 .. l : Append(p, Separator)[i] = p[i]
  BY <1>2
<1>4. l + 1 <= Len(q) /\ \A i \in 1 .. l + 1 : Append(p, Separator)[i] = q[i]
  <2> DEFINE s == Append(p, Separator)
  <2>1. s \in Seq(Int) /\ Len(s) = l + 1 /\ IsPrefix(s, q)
    BY <1>3
  <2> HIDE DEF s, l
  <2>2. Len(s) <= Len(q) /\ \A i \in 1 .. Len(s) : s[i] = q[i]
    BY <1>2, <2>1, PrefixPlaces
  <2> QED
    BY <2>1, <2>2 DEF s
<1>5. l < Len(q) /\ (\A i \in 1 .. l : p[i] = q[i]) /\ q[l + 1] = Separator
  BY <1>1, <1>3, <1>4
<1>6. Slashes(p) = {i \in Slashes(q) : i <= l}
  BY <1>1, <1>5 DEF Slashes
<1>7. l + 1 \in Slashes(q) /\ l + 1 # 1 /\ (l + 1) - 1 = l
  BY <1>1, <1>4, <1>5 DEF Slashes
<1>8. Ends(p) \subseteq Ends(q)
  <2>1. l \in Ends(q)
    BY <1>7 DEF Ends
  <2>2. \A i \in Slashes(p) : i \in Slashes(q)
    BY <1>6
  <2> QED
    BY <2>1, <2>2 DEF Ends
<1>9. ASSUME NEW b \in Ends(q), b \notin Ends(p) PROVE l < b
  <2>1. b \in 1 .. Len(q)
    BY EndsType
  <2>8. l \in Nat /\ l < Len(q) /\ Len(q) \in Nat
    BY <1>1, <1>5
  <2> HIDE DEF l
  <2> SUFFICES ASSUME b <= l PROVE FALSE
    BY <1>1, <2>1
  <2>2. b # l
    BY <1>9 DEF Ends, l
  <2>3. b # Len(q) /\ b + 1 <= l
    BY <2>1, <2>2, <2>8
  <2>4. PICK i \in Slashes(q) : i # 1 /\ b = i - 1
    BY <2>3 DEF Ends
  <2>5. i \in 1 .. Len(q)
    BY EndsType
  <2>6. i <= l
    BY <1>1, <2>3, <2>4, <2>5
  <2>7. i \in Slashes(p)
    BY <1>6, <2>6
  <2> QED
    BY <1>9, <2>4, <2>7 DEF Ends
<1>10. ASSUME NEW b \in Ends(q), b \notin Ends(p), NEW a \in Ends(p) PROVE a < b
  <2>1. a \in 1 .. l /\ b \in 1 .. Len(q) /\ l < b
    BY <1>9, <1>10, EndsType
  <2> QED
    BY <1>1, <2>1
<1> QED
  BY <1>5, <1>6, <1>8, <1>10 DEF Continues

(* isChildPath is right: such a path lies below the other in the tree.     *)
LEMMA ChildIsBelow ==
  ASSUME NEW p \in Absolute, NEW q \in Absolute, isChildPath(p, q)
  PROVE  Below(p, q)
<1>1. CASE p = <<Separator>>
  BY <1>1, RootAbove
<1>2. CASE p = q /\ p # <<Separator>>
  <2>1. Cardinality(Ends(p)) \in Nat
    BY EndsOrdered, Zenon DEF EndsInOrder
  <2>2. Cardinality(Ends(p)) <= Cardinality(Ends(p))
    BY <2>1
  <2> QED
    BY <1>2, <2>2, NamesPrefix, Zenon
<1>3. CASE IsPrefix(Append(p, Separator), q) /\ p # <<Separator>>
  <2> DEFINE n == Cardinality(Ends(p))
             m == Cardinality(Ends(q))
             e == EndList(p)
             f == EndList(q)
  <2>1. /\ Len(p) < Len(q) /\ \A i \in 1 .. Len(p) : p[i] = q[i]
        /\ Slashes(p) = {i \in Slashes(q) : i <= Len(p)}
        /\ Continues(Ends(p), Ends(q))
    BY <1>3, LongerEnds
  <2>2. Sorts(Ends(p), LessThan, e) /\ Sorts(Ends(q), LessThan, f)
    BY EndsType, NumbersSort DEF EndList
  <2>3. EndsInOrder(p, n, e)
    BY EndsOrdered
  <2> HIDE DEF e, f
  <2>4. n <= m /\ \A i \in 1 .. n : e[i] = f[i]
    <3> DEFINE A == Ends(p)
               B == Ends(q)
    <3>1. A \in SUBSET Int /\ B \in SUBSET Int /\ IsFiniteSet(B)
      BY EndsType
    <3>2. Continues(A, B) /\ Sorts(A, LessThan, e) /\ Sorts(B, LessThan, f)
      BY <2>1, <2>2
    <3> HIDE DEF A, B
    <3>3. Cardinality(A) <= Cardinality(B) /\ \A i \in 1 .. Cardinality(A) : e[i] = f[i]
      BY <3>1, <3>2, SortedPrefix
    <3> QED
      BY <3>3 DEF A, B
  <2>5. q # <<Separator>>
    <3>1. Len(p) \in Nat /\ Len(q) \in Nat /\ Len(p) >= 1 /\ Len(p) < Len(q)
      BY <2>1 DEF Absolute
    <3>2. Len(<<Separator>>) = 1
      OBVIOUS
    <3>3. q = <<Separator>> => Len(q) = 1
      BY <3>2, Zenon
    <3>4. \A a, b \in Nat : a >= 1 /\ a < b => b # 1
      OBVIOUS
    <3>5. Len(q) # 1
      BY <3>1, <3>4, Zenon
    <3> QED
      BY <3>3, <3>5, Zenon
  <2> HIDE DEF n, m
  <2>6. ASSUME NEW k \in 1 .. n
        PROVE  SubSeq(p, Start(p, e[k]) + 1, e[k]) = SubSeq(q, Start(q, f[k]) + 1, f[k])
    <3>1. e[k] = f[k] /\ e[k] \in 1 .. Len(p) /\ Len(p) \in Nat /\ Len(q) \in Nat
      <4>1. e \in [1 .. n -> 1 .. Len(p)]
        BY <2>3, Zenon DEF EndsInOrder
      <4>2. Len(p) \in Nat /\ Len(q) \in Nat
        BY DEF Absolute
      <4> QED
        BY <2>4, <4>1, <4>2
    <3>2. {i \in Slashes(p) : i <= e[k]} = {i \in Slashes(q) : i <= e[k]}
      <4>1. Slashes(p) \subseteq Int /\ Slashes(q) \subseteq Int
        BY EndsType
      <4> QED
        BY <2>1, <3>1, <4>1
    <3>3. Start(p, e[k]) = Start(q, f[k])
      BY <3>1, <3>2, Zenon DEF Start
    <3>4. Start(p, e[k]) \in Nat \ {0}
      <4> DEFINE T == {i \in Slashes(p) : i <= e[k]}
      <4>1. T \subseteq Slashes(p) /\ Slashes(p) \subseteq 1 .. Len(p)
        BY EndsType
      <4>2. 1 \in T
        BY <3>1, EndsType
      <4>3. \A x \in T : x <= Len(p)
        BY <4>1
      <4> HIDE DEF T
      <4>4. Max(T) \in T
        BY <3>1, <4>1, <4>2, <4>3, MaxExists
      <4>5. Max(T) \in 1 .. Len(p)
        BY <4>1, <4>4
      <4> QED
        BY <4>5 DEF Start, T
    <3> DEFINE a == Start(p, e[k]) + 1
               b == e[k]
    <3>5. a \in Nat \ {0} /\ b \in 1 .. Len(p)
      BY <3>1, <3>4
    <3> HIDE DEF a, b
    <3>6. SubSeq(p, a, b) = SubSeq(q, a, b)
      <4>1. p \in Seq(Int) /\ q \in Seq(Int)
        BY DEF Absolute
      <4>2. /\ SubSeq(p, a, b) = [i \in 1 .. (b - a) + 1 |-> p[(i + a) - 1]]
            /\ SubSeq(q, a, b) = [i \in 1 .. (b - a) + 1 |-> q[(i + a) - 1]]
        BY <3>5, <4>1
      <4>3. \A i \in 1 .. (b - a) + 1 : (i + a) - 1 \in 1 .. Len(p)
        BY <3>1, <3>5
      <4>4. \A i \in 1 .. (b - a) + 1 : p[(i + a) - 1] = q[(i + a) - 1]
        BY <2>1, <4>3
      <4> QED
        BY <4>2, <4>4
    <3> QED
      BY <3>1, <3>3, <3>6 DEF a, b
  <2> QED
    BY <1>3, <2>4, <2>5, <2>6, NamesPrefix DEF n, m, e, f
<1> QED
  BY <1>1, <1>2, <1>3 DEF isChildPath

(* And a path below another one is a child path.                           *)
LEMMA BelowIsChild ==
  ASSUME NEW p \in Absolute, NEW q \in Absolute, Below(p, q)
  PROVE  isChildPath(p, q)
<1>1. CASE p = <<Separator>>
  BY <1>1 DEF isChildPath
<1>2. CASE p # <<Separator>>
  <2> DEFINE n == Cardinality(Ends(p))
             m == Cardinality(Ends(q))
             e == EndList(p)
             f == EndList(q)
  <2>1. q # <<Separator>>
    BY <1>2, RootAbove
  <2>2. EndsInOrder(p, n, e) /\ EndsInOrder(q, m, f)
    BY EndsOrdered
  <2>3. /\ n <= m
        /\ \A k \in 1 .. n : SubSeq(p, Start(p, e[k]) + 1, e[k])
                               = SubSeq(q, Start(q, f[k]) + 1, f[k])
    BY <1>2, <2>1, NamesPrefix
  <2> HIDE DEF n, m, e, f
  <2>4. /\ n \in Nat \ {0} /\ e \in [1 .. n -> 1 .. Len(p)] /\ e[n] = Len(p)
        /\ Start(p, e[1]) = 1
        /\ \A k \in 1 .. n - 1 : Start(p, e[k + 1]) = e[k] + 1 /\ p[e[k] + 1] = Separator
        /\ \A i, j \in 1 .. n : i < j => e[i] < e[j]
    BY <2>2, Zenon DEF EndsInOrder
  <2>5. /\ m \in Nat \ {0} /\ f \in [1 .. m -> 1 .. Len(q)]
        /\ Start(q, f[1]) = 1 /\ \A i \in 1 .. m : f[i] \in Ends(q)
        /\ \A k \in 1 .. m - 1 : Start(q, f[k + 1]) = f[k] + 1 /\ q[f[k] + 1] = Separator
        /\ \A i, j \in 1 .. m : i < j => f[i] < f[j]
    BY <2>2, Zenon DEF EndsInOrder
  <2>6. /\ p \in Seq(Int) /\ q \in Seq(Int) /\ Len(p) \in Nat /\ Len(q) \in Nat
        /\ p[1] = Separator /\ q[1] = Separator
    BY DEF Absolute
  <2> DEFINE Same(k) == e[k] = f[k] /\ \A i \in 1 .. e[k] : p[i] = q[i]
             S == {k \in Nat : k + 1 > n \/ Same(k + 1)}
  <2>7. ASSUME NEW k \in 1 .. n, NEW a \in Nat \ {0}, a <= e[k], a <= f[k],
               Start(p, e[k]) = a, Start(q, f[k]) = a, \A i \in 1 .. a : p[i] = q[i]
        PROVE  Same(k)
    <3>1. k \in 1 .. m /\ e[k] \in 1 .. Len(p) /\ f[k] \in 1 .. Len(q)
      BY <2>3, <2>4, <2>5
    <3>2. SubSeq(p, a + 1, e[k]) = SubSeq(q, a + 1, f[k])
      BY <2>3, <2>7
    <3>3. e[k] = f[k] /\ \A i \in a + 1 .. e[k] : p[i] = q[i]
      <4> DEFINE x == e[k]
                 y == f[k]
      <4>1. /\ x \in 1 .. Len(p) /\ y \in 1 .. Len(q) /\ a <= x /\ a <= y
            /\ NameBetween(p, a, x) = NameBetween(q, a, y)
        BY <2>7, <3>1, <3>2 DEF NameBetween
      <4>2. p \in Seq(Int) /\ q \in Seq(Int)
        BY <2>6
      <4> HIDE DEF x, y
      <4>3. x = y /\ \A i \in a + 1 .. x : p[i] = q[i]
        BY <4>1, <4>2, SameName
      <4> QED
        BY <4>3 DEF x, y
    <3>4. \A i \in 1 .. e[k] : i \in 1 .. a \/ i \in a + 1 .. e[k]
      BY <2>6, <3>1
    <3> QED
      BY <2>7, <3>3, <3>4
  <2>8. 0 \in S
    <3>1. 1 \in 1 .. n /\ 1 \in 1 .. m
      BY <2>4, <2>5
    <3>2. e[1] \in 1 .. Len(p) /\ f[1] \in 1 .. Len(q)
      BY <2>4, <2>5, <3>1
    <3>3. 1 <= e[1] /\ 1 <= f[1] /\ 1 \in Nat \ {0} /\ \A i \in 1 .. 1 : p[i] = q[i]
      BY <2>6, <3>2
    <3>4. Same(1)
      BY <2>4, <2>5, <2>7, <3>1, <3>3
    <3> QED
      BY <3>4
  <2>9. ASSUME NEW l \in Nat, l \in S PROVE l + 1 \in S
    <3> DEFINE k == l + 1
    <3>1. CASE k + 1 > n
      BY <3>1
    <3>2. CASE k + 1 <= n
      <4>1. /\ k \in 1 .. n /\ k \in 1 .. n - 1 /\ k + 1 \in 1 .. n /\ k < k + 1
            /\ k \in 1 .. m /\ k \in 1 .. m - 1 /\ k + 1 \in 1 .. m
        BY <2>3, <2>4, <2>5, <3>2
      <4>2. e[k] = f[k] /\ \A i \in 1 .. e[k] : p[i] = q[i]
        BY <2>4, <2>9, <4>1
      <4> HIDE DEF k
      <4>3. e[k] \in 1 .. Len(p) /\ e[k + 1] \in 1 .. Len(p) /\ f[k + 1] \in 1 .. Len(q)
        BY <2>4, <2>5, <4>1
      <4> DEFINE a == e[k] + 1
      <4>4. /\ Start(p, e[k + 1]) = a /\ p[a] = Separator
            /\ Start(q, f[k + 1]) = a /\ q[a] = Separator
        BY <2>4, <2>5, <4>1, <4>2
      <4>5. e[k] < e[k + 1] /\ f[k] < f[k + 1]
        BY <2>4, <2>5, <4>1
      <4>6. a \in Nat \ {0} /\ a <= e[k + 1] /\ a <= f[k + 1]
        <5>1. e[k] \in Nat /\ e[k + 1] \in Nat /\ f[k + 1] \in Nat
          BY <4>3
        <5>2. e[k] < e[k + 1] /\ e[k] < f[k + 1]
          BY <4>2, <4>5
        <5> QED
          BY <5>1, <5>2
      <4>7. \A i \in 1 .. a : i \in 1 .. e[k] \/ i = a
        BY <2>6, <4>3
      <4>8. \A i \in 1 .. a : p[i] = q[i]
        BY <4>2, <4>4, <4>7
      <4> HIDE DEF a
      <4>9. Same(k + 1)
        BY <2>7, <4>1, <4>4, <4>6, <4>8
      <4> QED
        BY <4>9 DEF k
    <3> QED
      BY <2>4, <3>1, <3>2
  <2>10. Nat \subseteq S
    <3> HIDE DEF S
    <3> QED
      BY <2>8, <2>9, NatSet
  <2>11. Same(n)
    <3>1. n - 1 \in Nat /\ (n - 1) + 1 = n /\ ~(n > n)
      BY <2>4
    <3> HIDE DEF Same
    <3>2. n - 1 \in S
      BY <2>10, <3>1, Zenon
    <3> QED
      BY <3>1, <3>2
  <2>12. /\ f[n] = Len(p) /\ \A i \in 1 .. Len(p) : p[i] = q[i]
         /\ n \in 1 .. m /\ f[n] \in 1 .. Len(q)
    BY <2>3, <2>4, <2>5, <2>11
  <2>13. Len(p) \in Ends(q)
    BY <2>5, <2>12
  <2>14. CASE Len(p) = Len(q)
    <3>1. p = q
      BY <2>6, <2>12, <2>14, SeqEqual
    <3> QED
      BY <3>1 DEF isChildPath
  <2>15. CASE Len(p) # Len(q)
    <3>1. PICK i \in Slashes(q) : Len(p) = i - 1
      BY <2>13, <2>15 DEF Ends
    <3>2. i \in 1 .. Len(q) /\ q[i] = Separator
      BY EndsType
    <3>3. i = Len(p) + 1 /\ i <= Len(q)
      BY <2>6, <3>1, <3>2
    <3> DEFINE s == Append(p, Separator)
    <3>4. Separator \in Int
      BY DEF Separator
    <3>5. /\ s \in Seq(Int) /\ Len(s) = Len(p) + 1 /\ s[Len(p) + 1] = Separator
          /\ \A k \in 1 .. Len(p) : s[k] = p[k]
      BY <2>6, <3>4
    <3>6. \A k \in 1 .. Len(p) + 1 : k \in 1 .. Len(p) \/ k = Len(p) + 1
      BY <2>6
    <3> HIDE DEF s
    <3>7. Len(s) <= Len(q) /\ \A k \in 1 .. Len(s) : s[k] = q[k]
      BY <2>12, <3>2, <3>3, <3>5, <3>6
    <3>8. IsPrefix(s, q)
      BY <2>6, <3>5, <3>7, PrefixPlaces
    <3> QED
      BY <3>8 DEF s, isChildPath
  <2> QED
    BY <2>14, <2>15
<1> QED
  BY <1>1, <1>2

-----------------------------------------------------------------------------
(* What is below is later in the order of strings, too.                    *)
LEMMA ChildIsLater ==
  ASSUME NEW p \in Absolute, NEW q \in Absolute, isChildPath(p, q), p # q
  PROVE  Before(p, q)
<1>1. p \in Seq(Int) /\ q \in Seq(Int)
  BY DEF Absolute
<1>2. CASE p = <<Separator>>
  <2>1. Len(p) = 1 /\ p[1] = Separator
    BY <1>2
  <2>2. Len(q) \in Nat /\ Len(q) >= 1 /\ q[1] = Separator
    BY DEF Absolute
  <2>3. Len(p) <= Len(q) /\ \A k \in 1 .. Len(p) : p[k] = q[k]
    BY <2>1, <2>2
  <2> QED
    BY <1>1, <2>3, PrefixPlaces DEF Before, IsStrictPrefix
<1>3. CASE IsPrefix(Append(p, Separator), q)
  <2>1. Len(p) < Len(q) /\ \A k \in 1 .. Len(p) : p[k] = q[k]
    BY <1>3, LongerEnds
  <2>2. Len(p) <= Len(q)
    <3>1. Len(p) \in Nat /\ Len(q) \in Nat
      BY <1>1
    <3> QED
      BY <2>1, <3>1
  <2> QED
    BY <1>1, <2>1, <2>2, PrefixPlaces DEF Before, IsStrictPrefix
<1> QED
  BY <1>2, <1>3 DEF isChildPath

(* Coalescing is right for every finite set of paths: no changed directory *)
(* is missed, and a target below another is explained.                     *)
THEOREM CoalescingRight ==
  ASSUME NEW dirs \in SUBSET Absolute, IsFiniteSet(dirs)
  PROVE  Targets(dirs) \subseteq dirs /\ ChangesTargeted(dirs) /\ RedundancyExplained(dirs)
<1>1. dirs \in SUBSET Seq(Int)
  BY DEF Absolute
<1>2. Targets(dirs) \subseteq dirs /\ \A d \in dirs : \E t \in Targets(dirs) : isChildPath(t, d)
  BY <1>1, TargetsCover
<1>3. Targets(dirs) \subseteq Absolute
  BY <1>2
<1>4. ChangesTargeted(dirs)
  <2> SUFFICES ASSUME NEW d \in dirs PROVE \E t \in Targets(dirs) : Below(t, d)
    BY DEF ChangesTargeted
  <2>1. PICK t \in Targets(dirs) : isChildPath(t, d)
    BY <1>2
  <2>2. Below(t, d)
    BY <1>3, <2>1, ChildIsBelow
  <2> QED
    BY <2>2
<1>5. RedundancyExplained(dirs)
  <2> SUFFICES ASSUME NEW s \in Targets(dirs), NEW t \in Targets(dirs), s # t, Below(s, t)
               PROVE  \E u \in Targets(dirs) : Before(s, u) /\ Before(u, t) /\ ~Below(s, u)
    BY DEF RedundancyExplained
  <2>1. isChildPath(s, t)
    BY <1>3, BelowIsChild
  <2>2. Before(s, t)
    BY <1>3, <2>1, ChildIsLater
  <2>3. PICK u \in Targets(dirs) : Before(s, u) /\ Before(u, t) /\ ~isChildPath(s, u)
    BY <1>1, <2>1, <2>2, TargetBetween
  <2>4. ~Below(s, u)
    BY <1>3, <2>3, BelowIsChild
  <2> QED
    BY <2>3, <2>4
<1> QED
  BY <1>2, <1>4, <1>5

(* Below is a hierarchy.                                                   *)
LEMMA BelowTransitive ==
  ASSUME NEW p \in Absolute, NEW q \in Absolute, NEW r \in Absolute, Below(p, q), Below(q, r)
  PROVE  Below(p, r)
<1>1. CASE p = <<Separator>>
  BY <1>1, RootAbove
<1>2. CASE p # <<Separator>>
  <2> DEFINE name(x, k) == SubSeq(x, Start(x, EndList(x)[k]) + 1, EndList(x)[k])
             n(x) == Cardinality(Ends(x))
  <2>1. q # <<Separator>>
    BY <1>2, RootAbove
  <2>2. r # <<Separator>>
    BY <2>1, RootAbove
  <2>3. n(p) <= n(q) /\ \A k \in 1 .. n(p) : name(p, k) = name(q, k)
    BY <1>2, <2>1, NamesPrefix
  <2>4. n(q) <= n(r) /\ \A k \in 1 .. n(q) : name(q, k) = name(r, k)
    BY <2>1, <2>2, NamesPrefix
  <2>5. n(p) \in Nat /\ n(q) \in Nat /\ n(r) \in Nat
    BY EndsOrdered, Zenon DEF EndsInOrder
  <2> HIDE DEF n, name
  <2>6. n(p) <= n(r) /\ \A k \in 1 .. n(p) : name(p, k) = name(r, k)
    BY <2>3, <2>4, <2>5
  <2> QED
    BY <1>2, <2>2, <2>6, NamesPrefix, Zenon DEF n, name
<1> QED
  BY <1>1, <1>2

(* What module ScanPolicy assumes of the directories and of Reduce is so   *)
(* for the paths and for coalesceTargets.                                  *)
THEOREM CoalescingAssured ==
  ASSUME NEW dirs \in SUBSET Absolute, IsFiniteSet(dirs),
         NEW covers, covers = [d \in dirs |-> {e \in dirs : Below(d, e)}],
         NEW reduce, reduce = [D \in SUBSET dirs |-> Targets(D)]
  PROVE  /\ covers \in [dirs -> SUBSET dirs]
         /\ \A d \in dirs : d \in covers[d]
         /\ \A d \in dirs : \A e \in covers[d] : covers[e] \subseteq covers[d]
         /\ reduce \in [SUBSET dirs -> SUBSET dirs]
         /\ \A D \in SUBSET dirs :
              /\ reduce[D] \subseteq D
              /\ \A d \in D : \E e \in reduce[D] : d \in covers[e]
<1>1. \A d \in dirs : Below(d, d)
  <2>1. \A d \in dirs : d \in Absolute /\ isChildPath(d, d)
    BY DEF isChildPath
  <2> QED
    BY <2>1, ChildIsBelow
<1>2. \A d \in dirs : covers[d] = {e \in dirs : Below(d, e)}
  OBVIOUS
<1>3. covers \in [dirs -> SUBSET dirs]
  OBVIOUS
<1>4. ASSUME NEW d \in dirs, NEW e \in covers[d] PROVE covers[e] \subseteq covers[d]
  <2>1. e \in dirs /\ Below(d, e)
    BY <1>2
  <2> SUFFICES ASSUME NEW f \in covers[e] PROVE f \in covers[d]
    OBVIOUS
  <2>2. f \in dirs /\ Below(e, f)
    BY <1>2, <2>1
  <2>3. Below(d, f)
    BY <2>1, <2>2, BelowTransitive
  <2> QED
    BY <1>2, <2>2, <2>3
<1>5. ASSUME NEW D \in SUBSET dirs
      PROVE  reduce[D] \subseteq D /\ \A d \in D : \E e \in reduce[D] : d \in covers[e]
  <2>1. D \in SUBSET Absolute /\ IsFiniteSet(D) /\ reduce[D] = Targets(D)
    BY FS_Subset
  <2>2. Targets(D) \subseteq D /\ ChangesTargeted(D)
    BY <2>1, CoalescingRight
  <2>3. \A d \in D : \E e \in Targets(D) : Below(e, d)
    BY <2>2 DEF ChangesTargeted
  <2> QED
    BY <1>2, <2>1, <2>2, <2>3
<1>6. reduce \in [SUBSET dirs -> SUBSET dirs]
  BY <1>5
<1> QED
  BY <1>1, <1>2, <1>3, <1>4, <1>5, <1>6

-----------------------------------------------------------------------------
(* A recursive function on the natural numbers: there is one.              *)
Iterates(V, step, base, f) ==
  /\ f \in [Nat -> V]
  /\ f = [i \in Nat |-> IF i = 0 THEN base ELSE step[f[i - 1]]]

Begins(V, step, base, n, g) ==
  /\ g \in [0 .. n -> V] /\ g[0] = base
  /\ \A i \in 1 .. n : g[i] = step[g[i - 1]]

(* Two beginnings agree as far as the shorter goes. *)
LEMMA BeginsUnique ==
  ASSUME NEW V, NEW step \in [V -> V], NEW base \in V, NEW n \in Nat, NEW m \in Nat, n <= m,
         NEW g, Begins(V, step, base, n, g), NEW h, Begins(V, step, base, m, h)
  PROVE  \A i \in 0 .. n : g[i] = h[i]
<1> DEFINE S == {i \in Nat : i > n \/ g[i] = h[i]}
<1>1. /\ g[0] = base /\ \A i \in 1 .. n : g[i] = step[g[i - 1]]
      /\ h[0] = base /\ \A i \in 1 .. m : h[i] = step[h[i - 1]]
  BY Zenon DEF Begins
<1>2. 0 \in S
  BY <1>1
<1>3. ASSUME NEW i \in Nat, i \in S PROVE i + 1 \in S
  <2>1. CASE i + 1 > n
    BY <2>1
  <2>2. CASE i + 1 <= n
    <3>1. i + 1 \in 1 .. n /\ i + 1 \in 1 .. m /\ (i + 1) - 1 = i /\ g[i] = h[i]
      BY <1>3, <2>2
    <3>2. g[i + 1] = h[i + 1]
      BY <1>1, <3>1
    <3> QED
      BY <3>2
  <2> QED
    BY <2>1, <2>2
<1>4. Nat \subseteq S
  <2> HIDE DEF S
  <2> QED
    BY <1>2, <1>3, NatSet
<1> QED
  BY <1>4

(* There is a beginning of every length. *)
LEMMA BeginningsExist ==
  ASSUME NEW V, NEW step \in [V -> V], NEW base \in V, NEW n \in Nat
  PROVE  \E g : Begins(V, step, base, n, g)
<1> DEFINE S == {k \in Nat : \E g : Begins(V, step, base, k, g)}
<1>1. 0 \in S
  <2> DEFINE g == [i \in 0 .. 0 |-> base]
  <2>1. Begins(V, step, base, 0, g)
    BY DEF Begins
  <2> QED
    BY <2>1
<1>2. ASSUME NEW k \in Nat, k \in S PROVE k + 1 \in S
  <2>1. PICK g : Begins(V, step, base, k, g)
    BY <1>2
  <2>2. /\ g \in [0 .. k -> V] /\ g[0] = base
        /\ \A i \in 1 .. k : g[i] = step[g[i - 1]]
    BY <2>1, Zenon DEF Begins
  <2> DEFINE h == [i \in 0 .. k + 1 |-> IF i = k + 1 THEN step[g[k]] ELSE g[i]]
  <2>3. \A i \in 0 .. k + 1 : i \in 0 .. k \/ i = k + 1
    OBVIOUS
  <2>4. k \in 0 .. k
    OBVIOUS
  <2>5. h \in [0 .. k + 1 -> V]
    BY <2>2, <2>3, <2>4
  <2>6. h[0] = base
    BY <2>2
  <2>7. ASSUME NEW i \in 1 .. k + 1 PROVE h[i] = step[h[i - 1]]
    <3>1. CASE i = k + 1
      BY <3>1
    <3>2. CASE i # k + 1
      <4>1. i \in 1 .. k /\ i \in 0 .. k + 1 /\ i - 1 \in 0 .. k + 1 /\ i - 1 # k + 1
        BY <3>2
      <4> QED
        BY <2>2, <4>1
    <3> QED
      BY <3>1, <3>2
  <2>8. Begins(V, step, base, k + 1, h)
    <3> HIDE DEF h
    <3> QED
      BY <2>5, <2>6, <2>7 DEF Begins
  <2> QED
    BY <2>8
<1>3. Nat \subseteq S
  <2> HIDE DEF S
  <2> QED
    BY <1>1, <1>2, NatSet
<1> QED
  BY <1>3

(* The beginnings make the function. *)
LEMMA IteratesExist ==
  ASSUME NEW V, NEW step \in [V -> V], NEW base \in V
  PROVE  \E f : Iterates(V, step, base, f)
<1> DEFINE part(n) == CHOOSE g : Begins(V, step, base, n, g)
           f == [n \in Nat |-> part(n)[n]]
<1>1. \A n \in Nat : Begins(V, step, base, n, part(n))
  BY BeginningsExist, Zenon
<1> HIDE DEF part
<1>2. ASSUME NEW n \in Nat
      PROVE  /\ part(n) \in [0 .. n -> V] /\ part(n)[0] = base
             /\ \A i \in 1 .. n : part(n)[i] = step[part(n)[i - 1]]
  BY <1>1, Zenon DEF Begins
<1>3. f \in [Nat -> V]
  <2>1. \A n \in Nat : n \in 0 .. n
    OBVIOUS
  <2> QED
    BY <1>2, <2>1
<1>4. ASSUME NEW n \in Nat PROVE f[n] = IF n = 0 THEN base ELSE step[f[n - 1]]
  <2>1. CASE n = 0
    BY <1>2, <2>1
  <2>2. CASE n # 0
    <3>1. n - 1 \in Nat /\ n - 1 <= n /\ n \in 1 .. n /\ n - 1 \in 0 .. n - 1
      BY <2>2
    <3>2. Begins(V, step, base, n - 1, part(n - 1)) /\ Begins(V, step, base, n, part(n))
      BY <1>1, <3>1
    <3>3. part(n - 1)[n - 1] = part(n)[n - 1]
      BY <3>1, <3>2, BeginsUnique
    <3> QED
      BY <1>2, <2>2, <3>1, <3>3
  <2> QED
    BY <2>1, <2>2
<1>5. Iterates(V, step, base, f)
  <2> HIDE DEF f
  <2>1. f = [n \in Nat |-> f[n]]
    BY <1>3
  <2>2. f = [n \in Nat |-> IF n = 0 THEN base ELSE step[f[n - 1]]]
    BY <1>4, <2>1, Zenon
  <2> QED
    BY <1>3, <2>2, Zenon DEF Iterates
<1> QED
  BY <1>5

-----------------------------------------------------------------------------
(* A number is its own remainder, or once the divisor less.                *)
LEMMA Remainder ==
  ASSUME NEW x \in Int, NEW k \in Nat \ {0}
  PROVE  /\ 0 <= x /\ x < k => x % k = x
         /\ k <= x /\ x < 2 * k => x % k = x - k
         /\ x % k \in 0 .. k - 1
OBVIOUS

(* What fits into a time.Duration is not wrapped.                          *)
LEMMA WrappedIs ==
  ASSUME NEW n \in Int
  PROVE  /\ Wrapped(n) \in Int
         /\ 0 <= n /\ n <= MaxDuration => Wrapped(n) = n
         /\ MaxDuration < n /\ n <= 2 * MaxDuration => Wrapped(n) < 0
<1> DEFINE k == 2 * (MaxDuration + 1)
           x == n + MaxDuration + 1
<1>1. MaxDuration \in Nat \ {0}
  BY DurationAssumption
<1>2. k \in Nat \ {0} /\ x \in Int
  BY <1>1
<1>3. /\ 0 <= n /\ n <= MaxDuration => 0 <= x /\ x < k
      /\ MaxDuration < n /\ n <= 2 * MaxDuration => k <= x /\ x < 2 * k
  BY <1>1
<1>4. Wrapped(n) = (x % k) - MaxDuration - 1
  BY DEF Wrapped
<1> HIDE DEF k, x
<1>5. x % k \in Int
  <2>1. x % k \in 0 .. k - 1
    BY <1>2, Remainder
  <2> QED
    BY <1>2, <2>1
<1>6. /\ 0 <= n /\ n <= MaxDuration => x % k = x
      /\ MaxDuration < n /\ n <= 2 * MaxDuration => x % k = x - k
  BY <1>2, <1>3, Remainder
<1> QED
  BY <1>1, <1>4, <1>5, <1>6 DEF k, x

(* The loop of backoffForAttempt, one doubling after the other.            *)
Loop == [backoff : Int, returned : BOOLEAN]

(* Doublings is that loop: its start, and one doubling per step. *)
LEMMA DoublingsSteps ==
  ASSUME NEW initial \in Int, NEW max \in Int
  PROVE  /\ Doublings(initial, max) \in [Nat -> Loop]
         /\ Doublings(initial, max)[0] = [backoff |-> initial, returned |-> FALSE]
         /\ \A n \in Nat : Doublings(initial, max)[n + 1]
                             = Doubled(Doublings(initial, max)[n], max)
<1> DEFINE base == [backoff |-> initial, returned |-> FALSE]
           step == [s \in Loop |-> Doubled(s, max)]
           IsLoop(f) == f = [i \in Nat |-> IF i = 0 THEN base ELSE Doubled(f[i - 1], max)]
           loop == CHOOSE f : IsLoop(f)
<1>1. Doublings(initial, max) = loop
  BY DEF Doublings
<1>2. \A s \in Loop : Doubled(s, max) \in Loop
  <2> SUFFICES ASSUME NEW s \in Loop PROVE Doubled(s, max) \in Loop
    OBVIOUS
  <2>1. s.backoff \in Int /\ s.returned \in BOOLEAN
    BY DEF Loop
  <2>2. Wrapped(2 * s.backoff) \in Int
    BY <2>1, WrappedIs
  <2> QED
    BY <2>1, <2>2 DEF Doubled, Loop
<1>3. step \in [Loop -> Loop] /\ base \in Loop /\ \A s \in Loop : step[s] = Doubled(s, max)
  BY <1>2 DEF Loop
<1> HIDE DEF step, base
<1>4. PICK f : Iterates(Loop, step, base, f)
  BY <1>3, IteratesExist
<1>5. f \in [Nat -> Loop] /\ f = [i \in Nat |-> IF i = 0 THEN base ELSE step[f[i - 1]]]
  BY <1>4, Zenon DEF Iterates
<1>6. IsLoop(f)
  <2>1. \A i \in Nat : i # 0 => step[f[i - 1]] = Doubled(f[i - 1], max)
    <3>1. \A i \in Nat : i # 0 => i - 1 \in Nat
      OBVIOUS
    <3> QED
      BY <1>3, <1>5, <3>1
  <2> QED
    BY <1>5, <2>1, Zenon
<1>7. IsLoop(loop)
  BY <1>6, Zenon
<1> HIDE DEF loop
<1>8. loop[0] = base /\ \A n \in Nat : loop[n + 1] = Doubled(loop[n], max)
  <2>1. \A n \in Nat : n + 1 \in Nat /\ n + 1 # 0 /\ (n + 1) - 1 = n /\ 0 \in Nat
    OBVIOUS
  <2>2. loop = [i \in Nat |-> IF i = 0 THEN base ELSE Doubled(loop[i - 1], max)]
    BY <1>7, Zenon
  <2>3. loop[0] = base
    BY <2>2
  <2>4. ASSUME NEW n \in Nat PROVE loop[n + 1] = Doubled(loop[n], max)
    BY <2>1, <2>2
  <2> QED
    BY <2>3, <2>4
<1>9. \A n \in Nat : loop[n] \in Loop
  <2> DEFINE S == {n \in Nat : loop[n] \in Loop}
  <2>1. 0 \in S
    BY <1>3, <1>8
  <2>2. ASSUME NEW n \in Nat, n \in S PROVE n + 1 \in S
    BY <1>2, <1>8, <2>2
  <2>3. Nat \subseteq S
    <3> HIDE DEF S
    <3> QED
      BY <2>1, <2>2, NatSet
  <2> QED
    BY <2>3
<1>10. loop \in [Nat -> Loop]
  <2>1. loop = [i \in Nat |-> IF i = 0 THEN base ELSE Doubled(loop[i - 1], max)]
    BY <1>7, Zenon
  <2>2. loop = [i \in Nat |-> loop[i]]
    BY <2>1
  <2> QED
    BY <1>9, <2>2
<1> QED
  BY <1>1, <1>8, <1>10 DEF base

(* With room for a doubling the backoff grows up to the largest.           *)
LEMMA Growing ==
  ASSUME NEW max \in Int, 2 * max <= MaxDuration, NEW initial \in 1 .. max,
         NEW attempt \in Nat \ {0}
  PROVE  Grows(initial, max, attempt)
<1> DEFINE loop == Doublings(initial, max)
           Good(s) == /\ initial <= s.backoff /\ s.backoff <= max
                      /\ s.returned => s.backoff = max
           S == {n \in Nat : Good(loop[n])}
<1>1. /\ loop \in [Nat -> Loop] /\ loop[0] = [backoff |-> initial, returned |-> FALSE]
      /\ \A n \in Nat : loop[n + 1] = Doubled(loop[n], max)
  BY DoublingsSteps
<1>2. MaxDuration \in Nat
  BY DurationAssumption
<1> HIDE DEF loop
<1>3. ASSUME NEW s \in Loop, Good(s)
      PROVE  /\ Good(Doubled(s, max))
             /\ Doubled(s, max).backoff = IF 2 * s.backoff < max THEN 2 * s.backoff ELSE max
  <2> DEFINE b == s.backoff
             w == Wrapped(2 * b)
  <2>1. b \in Int /\ s.returned \in BOOLEAN
    BY DEF Loop
  <2>2. 1 <= initial /\ initial <= b /\ b <= max
    BY <1>3
  <2>3. 0 <= 2 * b /\ 2 * b <= MaxDuration /\ 2 * b \in Int
    BY <1>2, <2>1, <2>2
  <2>4. w = 2 * b
    BY <2>3, WrappedIs
  <2>5. CASE s.returned
    <3>1. Doubled(s, max) = s /\ b = max
      BY <1>3, <2>5 DEF Doubled
    <3> QED
      BY <1>3, <2>1, <2>2, <3>1
  <2>6. CASE ~s.returned /\ w >= max
    <3>1. Doubled(s, max) = [backoff |-> max, returned |-> TRUE]
      BY <2>6 DEF Doubled
    <3>2. Doubled(s, max).backoff = max /\ ~(2 * b < max)
      BY <2>1, <2>4, <2>6, <3>1
    <3> QED
      BY <2>1, <2>2, <3>1, <3>2
  <2>7. CASE ~s.returned /\ ~(w >= max)
    <3>1. Doubled(s, max) = [backoff |-> w, returned |-> FALSE]
      BY <2>7 DEF Doubled
    <3>2. Doubled(s, max).backoff = 2 * b /\ ~Doubled(s, max).returned
      BY <2>4, <3>1
    <3>3. 2 * b < max /\ 2 * b <= max /\ initial <= 2 * b
      BY <2>1, <2>2, <2>4, <2>7
    <3> QED
      BY <3>2, <3>3, Zenon
  <2> QED
    BY <2>5, <2>6, <2>7
<1>4. \A n \in Nat : n \in S
  <2>1. 0 \in S
    BY <1>1
  <2>2. ASSUME NEW n \in Nat, n \in S PROVE n + 1 \in S
    <3>1. loop[n] \in Loop /\ Good(loop[n])
      BY <1>1, <2>2
    <3> HIDE DEF Good
    <3>2. Good(loop[n + 1])
      BY <1>1, <1>3, <3>1
    <3> QED
      BY <3>2
  <2>3. Nat \subseteq S
    <3> HIDE DEF S
    <3> QED
      BY <2>1, <2>2, NatSet
  <2> QED
    BY <2>3
<1>5. attempt - 1 \in Nat /\ (attempt - 1) + 1 = attempt /\ (attempt + 1) - 1 = attempt
  OBVIOUS
<1>6. loop[attempt - 1] \in Loop /\ Good(loop[attempt - 1])
  BY <1>1, <1>4, <1>5
<1>7. loop[attempt].backoff = IF 2 * loop[attempt - 1].backoff < max
                              THEN 2 * loop[attempt - 1].backoff ELSE max
  <2>1. loop[attempt] = Doubled(loop[attempt - 1], max)
    BY <1>1, <1>5
  <2> QED
    BY <1>3, <1>6, <2>1
<1> QED
  BY <1>5, <1>6, <1>7 DEF Grows, backoffForAttempt, loop

(* Without it the first doubling of the largest backoff turns negative.    *)
LEMMA Overflowing ==
  ASSUME NEW max \in 1 .. MaxDuration, MaxDuration < 2 * max
  PROVE  ~Grows(max, max, 1)
<1> DEFINE loop == Doublings(max, max)
           w == Wrapped(2 * max)
<1>1. MaxDuration \in Nat \ {0} /\ max \in Int
  BY DurationAssumption
<1>2. /\ loop[0] = [backoff |-> max, returned |-> FALSE]
      /\ \A n \in Nat : loop[n + 1] = Doubled(loop[n], max)
  BY <1>1, DoublingsSteps
<1>3. w \in Int /\ w < 0
  <2>1. 2 * max \in Int /\ 2 * max <= 2 * MaxDuration
    BY <1>1
  <2> QED
    BY <2>1, WrappedIs
<1> HIDE DEF loop, w
<1>4. loop[1] = Doubled([backoff |-> max, returned |-> FALSE], max)
  <2>1. 0 \in Nat /\ 0 + 1 = 1
    OBVIOUS
  <2> QED
    BY <1>2, <2>1
<1>5. loop[1] = [backoff |-> w, returned |-> FALSE]
  BY <1>1, <1>3, <1>4 DEF Doubled, w
<1>6. loop[1].backoff < 0 /\ loop[0].backoff = max
  BY <1>2, <1>3, <1>5
<1>7. ~(2 * max < max) /\ max > 0
  BY <1>1
<1>8. 1 - 1 = 0 /\ (1 + 1) - 1 = 1
  OBVIOUS
<1>9. Grows(max, max, 1) => loop[1].backoff = max
  BY <1>6, <1>7, <1>8 DEF Grows, backoffForAttempt, loop
<1> QED
  BY <1>1, <1>6, <1>7, <1>9

(* The backoff grows up to the largest one for every initial backoff,      *)
(* exactly when that leaves room for a doubling (retry.go:65-74).          *)
THEOREM BackoffRight ==
  ASSUME NEW max \in 1 .. MaxDuration, NEW attempts \in Nat \ {0}
  PROVE  BackoffGrows(max, attempts)
<1>1. MaxDuration \in Nat \ {0} /\ max \in Int
  BY DurationAssumption
<1>2. max <= MaxDuration \div 2 <=> 2 * max <= MaxDuration
  BY <1>1
<1>3. CASE 2 * max <= MaxDuration
  <2>1. \A initial \in 1 .. max, n \in 1 .. attempts : Grows(initial, max, n)
    BY <1>1, <1>3, Growing
  <2> QED
    BY <1>2, <1>3, <2>1 DEF BackoffGrows
<1>4. CASE ~(2 * max <= MaxDuration)
  <2>1. ~Grows(max, max, 1)
    BY <1>1, <1>4, Overflowing
  <2>2. max \in 1 .. max /\ 1 \in 1 .. attempts
    BY <1>1
  <2> QED
    BY <1>2, <1>4, <2>1, <2>2 DEF BackoffGrows
<1> QED
  BY <1>3, <1>4

-----------------------------------------------------------------------------
(* A multiple of a number leaves no remainder.                             *)
LEMMA Multiple ==
  ASSUME NEW x \in Int, NEW k \in Nat \ {0}
  PROVE  \E q \in Int : x - (x % k) = k * q
<1>1. x = k * (x \div k) + (x % k) /\ x \div k \in Int
  OBVIOUS
<1>2. x - (x % k) = k * (x \div k)
  BY <1>1
<1> QED
  BY <1>1, <1>2

(* A multiple and a rest leave the rest. *)
LEMMA RemainderOfMultiple ==
  ASSUME NEW q \in Int, NEW k \in Nat \ {0}, NEW d \in 0 .. k - 1
  PROVE  (k * q + d) % k = d
OBVIOUS

(* A number that is off a multiple by c leaves c, or c less than k. *)
LEMMA NearMultiple ==
  ASSUME NEW q \in Int, NEW k \in Nat \ {0}, NEW c \in Nat, NEW d \in {0, c, 0 - c}
  PROVE  /\ (k * q + d) % k \in 0 .. c \cup k - c .. k
         /\ d = 0 => (k * q + d) % k = 0
<1>1. CASE d = 0
  <2>1. (k * q + d) % k = 0
    BY <1>1, RemainderOfMultiple
  <2> QED
    BY <2>1
<1>2. CASE d # 0 /\ c < k /\ d = c
  <2>1. (k * q + d) % k = d
    BY <1>2, RemainderOfMultiple
  <2> QED
    BY <1>2, <2>1
<1>3. CASE d # 0 /\ c < k /\ d = 0 - c
  <2>1. k * (q - 1) = k * q - k /\ q - 1 \in Int /\ k * q \in Int
    OBVIOUS
  <2>2. k * q + d = k * (q - 1) + (k - c)
    BY <1>3, <2>1
  <2>3. k - c \in 0 .. k - 1
    BY <1>3
  <2>4. (k * (q - 1) + (k - c)) % k = k - c
    BY <2>1, <2>3, RemainderOfMultiple
  <2>5. (k * q + d) % k = k - c
    BY <2>2, <2>4
  <2> QED
    BY <1>3, <2>5
<1>4. CASE ~(c < k)
  <2>1. k * q + d \in Int
    OBVIOUS
  <2>2. (k * q + d) % k \in 0 .. k - 1
    BY <2>1, Remainder
  <2> QED
    BY <1>1, <1>4, <2>2
<1> QED
  BY <1>1, <1>2, <1>3, <1>4

(* When the daily time comes round: the wait that nextWait answers, in     *)
(* terms of the instant next that time.Date has for today's daily time.    *)
AsWait(zone, now, t, next, wait) ==
  /\ next \in {t - zone.before, t - zone.after}
  /\ (\E u \in {t - zone.before, t - zone.after} : u + Offset(zone, u) = t)
       => next + Offset(zone, next) = t
  /\ wait = (IF next > now THEN next ELSE next + Day) - now

(* Every wait of nextWait is one: today's daily time is less than a day from *)
(* now on the clock (scheduler.go:41-70).                                  *)
LEMMA WaitFrom ==
  ASSUME NEW zone \in [at : Int, before : Int, after : Int], NEW now \in Int,
         NEW daily \in 0 .. Day - 1, NEW wait \in nextWait(zone, now, 0, daily)
  PROVE  \E q \in Int, next \in Int :
           /\ AsWait(zone, now, Day * q + daily, next, wait)
           /\ Local(zone, now) - Day < Day * q + daily
           /\ Day * q + daily < Local(zone, now) + Day
<1> DEFINE l == Local(zone, now)
           t == Midnight(l) + daily
<1>1. Day \in Nat \ {0} /\ daily \in Int /\ 0 <= daily /\ daily < Day
  BY DayAssumption
<1>2. zone.before \in Int /\ zone.after \in Int /\ zone.at \in Int
  OBVIOUS
<1>3. l \in Int
  BY <1>2 DEF Local, Offset
<1>4. PICK q \in Int : Midnight(l) = Day * q
  BY <1>1, <1>3, Multiple DEF Midnight
<1>5. l % Day \in 0 .. Day - 1
  BY <1>1, <1>3, Remainder
<1>6. t = Day * q + daily /\ l - Day < t /\ t < l + Day /\ t \in Int
  BY <1>1, <1>3, <1>4, <1>5 DEF Midnight
<1>7. PICK next \in Dates(zone, t) : wait = (IF next > now THEN next ELSE next + Day) - now
  BY DEF nextWait
<1> HIDE DEF l, t
<1>8. AsWait(zone, now, t, next, wait)
  BY <1>7 DEF Dates, AsWait, Local
<1>9. next \in Int
  BY <1>2, <1>6, <1>8 DEF AsWait
<1> QED
  BY <1>6, <1>8, <1>9 DEF l

(* The wait is right in every zone: as long as the clock does not change   *)
(* it ends at the daily time, and it is never off by more than that change.*)
THEOREM WaitRight ==
  ASSUME NEW zone \in [at : Int, before : Int, after : Int], NEW now \in Int,
         NEW daily \in 0 .. Day - 1
  PROVE  WaitLands(zone, now, daily)
<1> SUFFICES ASSUME NEW wait \in nextWait(zone, now, 0, daily)
             PROVE  /\ Steady(zone, now, wait) =>
                         0 < wait /\ wait <= Day /\ Misses(zone, now, wait, daily) = 0
                    /\ 0 - Change(zone) <= wait /\ wait <= Day + Change(zone)
                    /\ Misses(zone, now, wait, daily)
                         \in 0 .. Change(zone) \cup Day - Change(zone) .. Day
  BY Zenon DEF WaitLands
<1> DEFINE c == Change(zone)
           b == zone.before
           a == zone.after
           at == zone.at
           o(u) == IF u < at THEN b ELSE a
<1>1. Day \in Nat \ {0} /\ daily \in Int /\ b \in Int /\ a \in Int /\ at \in Int
  BY DayAssumption
<1>2. c \in Nat /\ c = IF a - b < 0 THEN b - a ELSE a - b
  BY DEF Change
<1>3. PICK q \in Int, next \in Int :
        /\ AsWait(zone, now, Day * q + daily, next, wait)
        /\ Local(zone, now) - Day < Day * q + daily
        /\ Day * q + daily < Local(zone, now) + Day
  BY WaitFrom
<1> DEFINE m == Day * q
           t == m + daily
<1>4. m \in Int /\ t \in Int
  BY <1>1
<1>5. \A u : Offset(zone, u) = o(u)
  BY DEF Offset
<1> HIDE DEF c, b, a, at
<1>6. /\ next = t - b \/ next = t - a
      /\ (\E u \in {t - b, t - a} : u + o(u) = t) => next + o(next) = t
      /\ wait = (IF next > now THEN next ELSE next + Day) - now
      /\ (now + o(now)) - Day < t /\ t < (now + o(now)) + Day
  BY <1>3, <1>5 DEF AsWait, Local, b, a
<1> HIDE DEF t, m
<1>7. wait \in Int /\ 0 - c <= wait /\ wait <= Day + c
  BY <1>1, <1>2, <1>4, <1>6
<1>8. \E d \in {0, c, 0 - c}, r \in Int :
        ((now + wait) + o(now + wait)) - daily = Day * r + d
  <2>1. \E d \in {0, c, 0 - c} : \/ ((now + wait) + o(now + wait)) - daily = m + d
                                 \/ ((now + wait) + o(now + wait)) - daily = (m + Day) + d
    BY <1>1, <1>2, <1>4, <1>6 DEF t
  <2>2. m = Day * q /\ m + Day = Day * (q + 1) /\ q + 1 \in Int
    BY <1>1 DEF m
  <2> QED
    BY <2>1, <2>2
<1>9. Misses(zone, now, wait, daily) = (((now + wait) + o(now + wait)) - daily) % Day
  BY <1>5, Zenon DEF Misses, Local
<1>10. Misses(zone, now, wait, daily) \in 0 .. c \cup Day - c .. Day
  <2>1. PICK d \in {0, c, 0 - c}, r \in Int :
          ((now + wait) + o(now + wait)) - daily = Day * r + d
    BY <1>8
  <2>2. (Day * r + d) % Day \in 0 .. c \cup Day - c .. Day
    BY <1>1, <1>2, NearMultiple
  <2> QED
    BY <1>9, <2>1, <2>2
<1>11. ASSUME Steady(zone, now, wait)
       PROVE  0 < wait /\ wait <= Day /\ Misses(zone, now, wait, daily) = 0
  <2>1. o(now - Day - c) = o(now) /\ o(now + Day + wait + c) = o(now)
    BY <1>5, <1>11 DEF Steady, c
  <2>2. /\ next = t - o(now) /\ 0 < wait /\ wait <= Day
        /\ o(now + wait) = o(now)
    BY <1>1, <1>2, <1>4, <1>6, <1>7, <2>1
  <2>3. \/ ((now + wait) + o(now + wait)) - daily = m + 0
        \/ ((now + wait) + o(now + wait)) - daily = (m + Day) + 0
    BY <1>1, <1>4, <1>6, <2>2 DEF t
  <2>4. m = Day * q /\ m + Day = Day * (q + 1) /\ q + 1 \in Int
    BY <1>1 DEF m
  <2>5. (Day * q + 0) % Day = 0 /\ (Day * (q + 1) + 0) % Day = 0
    <3>1. 0 \in 0 .. Day - 1
      BY <1>1
    <3> QED
      BY <1>1, <2>4, <3>1, RemainderOfMultiple
  <2> QED
    BY <1>9, <2>2, <2>3, <2>4, <2>5
<1> QED
  BY <1>7, <1>10, <1>11 DEF c

-----------------------------------------------------------------------------
(* The loops that gather the elements of a list: all but those to drop,    *)
(* and each only once if that is asked for.                                *)
Gather(kept, v, drop, once) ==
  IF v \in drop \/ (once /\ v \in ToSet(kept)) THEN kept ELSE Append(kept, v)

Gathered(list, drop, once) ==
  FoldLeft(LAMBDA kept, v : Gather(kept, v, drop, once), <<>>, list)

(* What is gathered of the first k elements.                               *)
Gathers(list, drop, once, k, r) ==
  /\ \A i \in 1 .. Len(r) : r[i] \notin drop /\ \E m \in 1 .. k : r[i] = list[m]
  /\ \A m \in 1 .. k : list[m] \notin drop => \E i \in 1 .. Len(r) : r[i] = list[m]
  /\ \A i, j \in 1 .. Len(r) : i < j =>
       \E m, o \in 1 .. k : m < o /\ r[i] = list[m] /\ r[j] = list[o]
  /\ once => \A i, j \in 1 .. Len(r) : i < j => r[i] # r[j]

(* One more element. *)
LEMMA GathersFurther ==
  ASSUME NEW n \in Nat, NEW X, NEW list \in [1 .. n -> X], NEW drop, NEW once \in BOOLEAN,
         NEW k \in 0 .. n, k + 1 \in 1 .. n,
         NEW r \in Seq(X), Gathers(list, drop, once, k, r)
  PROVE  Gathers(list, drop, once, k + 1, Gather(r, list[k + 1], drop, once))
<1> DEFINE v == list[k + 1]
           l == Len(r)
<1>1. l \in Nat /\ k \in Nat /\ v \in X
  OBVIOUS
<1> DEFINE From(x, m) == \E q \in 1 .. m : x = list[q]
           Apart(x, y, m) == \E q, o \in 1 .. m : q < o /\ x = list[q] /\ y = list[o]
<1>2. /\ \A i \in 1 .. l : r[i] \notin drop /\ From(r[i], k)
      /\ \A m \in 1 .. k : list[m] \notin drop => \E i \in 1 .. l : r[i] = list[m]
      /\ \A i, j \in 1 .. l : i < j => Apart(r[i], r[j], k)
      /\ once => \A i, j \in 1 .. l : i < j => r[i] # r[j]
  BY Zenon DEF Gathers
<1>3. \A x, y : /\ From(x, k) => From(x, k + 1)
                /\ Apart(x, y, k) => Apart(x, y, k + 1)
                /\ From(x, k) => Apart(x, v, k + 1)
  <2>1. \A m \in 1 .. k : m \in 1 .. k + 1 /\ m < k + 1
    BY <1>1
  <2>2. k + 1 \in 1 .. k + 1
    BY <1>1
  <2>3. ASSUME NEW x, From(x, k) PROVE From(x, k + 1) /\ Apart(x, v, k + 1)
    <3>1. PICK q \in 1 .. k : x = list[q]
      BY <2>3
    <3>2. q \in 1 .. k + 1 /\ q < k + 1
      BY <2>1
    <3> QED
      BY <2>2, <3>1, <3>2
  <2>4. ASSUME NEW x, NEW y, Apart(x, y, k) PROVE Apart(x, y, k + 1)
    <3>1. PICK q \in 1 .. k, o \in 1 .. k : q < o /\ x = list[q] /\ y = list[o]
      BY <2>4
    <3>2. q \in 1 .. k + 1 /\ o \in 1 .. k + 1
      BY <2>1
    <3> QED
      BY <3>1, <3>2
  <2> HIDE DEF From, Apart
  <2> QED
    BY <2>3, <2>4, Zenon
<1>4. From(v, k + 1)
  <2>1. k + 1 \in 1 .. k + 1
    BY <1>1
  <2> QED
    BY <2>1
<1>5. ASSUME NEW s, NEW h \in Nat, Len(s) = h,
             \A i \in 1 .. h : s[i] \notin drop /\ From(s[i], k + 1),
             \A m \in 1 .. k + 1 : list[m] \notin drop => \E i \in 1 .. h : s[i] = list[m],
             \A i, j \in 1 .. h : i < j => Apart(s[i], s[j], k + 1),
             once => \A i, j \in 1 .. h : i < j => s[i] # s[j]
      PROVE  Gathers(list, drop, once, k + 1, s)
  <2> HIDE DEF From, Apart
  <2>1. \A i \in 1 .. Len(s) : s[i] \notin drop /\ From(s[i], k + 1)
    BY <1>5, Zenon
  <2>2. \A m \in 1 .. k + 1 : list[m] \notin drop => \E i \in 1 .. Len(s) : s[i] = list[m]
    BY <1>5, Zenon
  <2>3. \A i, j \in 1 .. Len(s) : i < j => Apart(s[i], s[j], k + 1)
    BY <1>5, Zenon
  <2>4. once => \A i, j \in 1 .. Len(s) : i < j => s[i] # s[j]
    BY <1>5, Zenon
  <2> QED
    BY <2>1, <2>2, <2>3, <2>4, Zenon DEF Gathers, From, Apart
<1>6. ToSet(r) = {r[i] : i \in 1 .. l}
  <2>1. DOMAIN r = 1 .. l
    OBVIOUS
  <2> QED
    BY <2>1, Zenon DEF ToSet
<1>7. \A m \in 1 .. k + 1 : m \in 1 .. k \/ m = k + 1
  BY <1>1
<1> HIDE DEF From, Apart
<1>8. CASE v \in drop \/ (once /\ v \in ToSet(r))
  <2>1. Gather(r, v, drop, once) = r
    BY <1>8, Zenon DEF Gather
  <2>2. v \notin drop => \E i \in 1 .. l : r[i] = v
    BY <1>6, <1>8
  <2>3. \A i \in 1 .. l : r[i] \notin drop /\ From(r[i], k + 1)
    BY <1>2, <1>3
  <2>4. ASSUME NEW m \in 1 .. k + 1, list[m] \notin drop PROVE \E i \in 1 .. l : r[i] = list[m]
    BY <1>2, <1>7, <2>2, <2>4
  <2>5. \A i, j \in 1 .. l : i < j => Apart(r[i], r[j], k + 1)
    BY <1>2, <1>3
  <2>6. Gathers(list, drop, once, k + 1, r)
    <3> HIDE DEF l
    <3>1. Len(r) = l
      BY DEF l
    <3> QED
      BY <1>1, <1>2, <1>5, <2>3, <2>4, <2>5, <3>1, Zenon
  <2> QED
    BY <2>1, <2>6
<1>9. CASE ~(v \in drop \/ (once /\ v \in ToSet(r)))
  <2> DEFINE s == Append(r, v)
  <2>1. Gather(r, v, drop, once) = s
    BY <1>9, Zenon DEF Gather
  <2>2. Len(s) = l + 1 /\ s[l + 1] = v /\ \A i \in 1 .. l : s[i] = r[i]
    BY <1>1
  <2>3. once => \A i \in 1 .. l : r[i] # v
    BY <1>6, <1>9
  <2>4. v \notin drop
    BY <1>9
  <2>5. \A i \in 1 .. l : i \in 1 .. l + 1
    BY <1>1
  <2>6. \A i \in 1 .. l + 1 : i \in 1 .. l \/ i = l + 1
    BY <1>1
  <2>7. \A i, j \in 1 .. l + 1 : i < j => i \in 1 .. l
    BY <1>1
  <2>8. l + 1 \in 1 .. l + 1 /\ l + 1 \in Nat
    BY <1>1
  <2> HIDE DEF s, l
  <2>9. ASSUME NEW i \in 1 .. l + 1 PROVE s[i] \notin drop /\ From(s[i], k + 1)
    <3>1. CASE i \in 1 .. l
      BY <1>2, <1>3, <2>2, <3>1
    <3>2. CASE i = l + 1
      BY <1>4, <2>2, <2>4, <3>2
    <3> QED
      BY <2>6, <3>1, <3>2
  <2>10. ASSUME NEW m \in 1 .. k + 1, list[m] \notin drop
         PROVE  \E i \in 1 .. l + 1 : s[i] = list[m]
    <3>1. CASE m \in 1 .. k
      <4>1. PICK i \in 1 .. l : r[i] = list[m]
        BY <1>2, <2>10, <3>1
      <4> QED
        BY <2>2, <2>5, <4>1
    <3>2. CASE m = k + 1
      BY <2>2, <2>8, <3>2
    <3> QED
      BY <1>7, <3>1, <3>2
  <2>11. ASSUME NEW i \in 1 .. l + 1, NEW j \in 1 .. l + 1, i < j
         PROVE  Apart(s[i], s[j], k + 1) /\ (once => s[i] # s[j])
    <3>1. i \in 1 .. l /\ s[i] = r[i]
      BY <2>2, <2>7, <2>11
    <3>2. CASE j \in 1 .. l
      <4>1. s[j] = r[j] /\ Apart(r[i], r[j], k)
        BY <1>2, <2>2, <2>11, <3>1, <3>2
      <4>2. once => r[i] # r[j]
        BY <1>2, <2>11, <3>1, <3>2
      <4> QED
        BY <1>3, <3>1, <4>1, <4>2
    <3>3. CASE j = l + 1
      <4>1. s[j] = v /\ From(r[i], k)
        BY <1>2, <2>2, <3>1, <3>3
      <4> QED
        BY <1>3, <2>3, <3>1, <4>1
    <3> QED
      BY <2>6, <3>2, <3>3
  <2>12. Gathers(list, drop, once, k + 1, s)
    BY <1>5, <2>2, <2>8, <2>9, <2>10, <2>11, Zenon
  <2> QED
    BY <2>1, <2>12
<1> QED
  BY <1>8, <1>9

(* A list that was gathered from another one.                              *)
GatheredFrom(list, drop, once, r) ==
  /\ Len(list) \in Nat /\ r \in Seq({list[i] : i \in 1 .. Len(list)})
  /\ Gathers(list, drop, once, Len(list), r)

(* Gathered gathers all elements of a list. *)
LEMMA GatheredRight ==
  ASSUME NEW X, NEW list \in Seq(X), NEW drop, NEW once \in BOOLEAN
  PROVE  GatheredFrom(list, drop, once, Gathered(list, drop, once))
<1> DEFINE n == Len(list)
           E == {list[i] : i \in 1 .. n}
           V == Seq(E)
           step == [p \in V \X (1 .. n) |-> Gather(p[1], list[p[2]], drop, once)]
           Folds(iter) == iter = [s \in SUBSET DOMAIN list |->
              IF s = {} THEN <<>> ELSE Gather(iter[s \ {Max(s)}], list[Max(s)], drop, once)]
           iter == CHOOSE iter : Folds(iter)
<1>1. Gathered(list, drop, once) = iter[DOMAIN list]
  BY DEF Gathered, FoldLeft, MapThenFoldSet, Gather
<1>2. DOMAIN list = 1 .. n /\ n \in Nat /\ list \in [1 .. n -> E]
  BY DEF E
<1>3. \A r \in V, i \in 1 .. n : Gather(r, list[i], drop, once) \in V
  <2> HIDE DEF E, n
  <2> SUFFICES ASSUME NEW r \in V, NEW i \in 1 .. n
               PROVE  Gather(r, list[i], drop, once) \in V
    OBVIOUS
  <2>1. list[i] \in E
    BY <1>2
  <2>2. Append(r, list[i]) \in V
    BY <2>1
  <2> QED
    BY <2>2 DEF Gather
<1> HIDE DEF E, V, n
<1>4. /\ step \in [V \X (1 .. n) -> V]
      /\ \A r \in V, i \in 1 .. n : step[r, i] = Gather(r, list[i], drop, once)
  BY <1>3
<1>5. <<>> \in V
  BY DEF V
<1> HIDE DEF step
<1>6. PICK iter0 : FoldsTo(n, V, step, <<>>, iter0)
  BY <1>2, <1>4, <1>5, FoldDefined
<1>7. Folds(iter0)
  <2>1. iter0 \in [SUBSET (1 .. n) -> V]
    BY <1>6, Zenon DEF FoldsTo
  <2>2. ASSUME NEW s \in SUBSET (1 .. n), s # {}
        PROVE  step[iter0[s \ {Max(s)}], Max(s)]
                 = Gather(iter0[s \ {Max(s)}], list[Max(s)], drop, once)
    BY <1>2, <2>1, <2>2, <1>4, MaxPlace
  <2>3. iter0 = [s \in SUBSET (1 .. n) |->
                   IF s = {} THEN <<>> ELSE step[iter0[s \ {Max(s)}], Max(s)]]
    BY <1>6, Zenon DEF FoldsTo
  <2> QED
    BY <1>2, <2>2, <2>3, Zenon
<1>8. Folds(iter)
  BY <1>7, Zenon
<1> HIDE DEF iter
<1>9. FoldsWithin(n, V, step, <<>>, iter)
  <2>1. iter = [s \in SUBSET (1 .. n) |-> IF s = {} THEN <<>>
                  ELSE Gather(iter[s \ {Max(s)}], list[Max(s)], drop, once)]
    BY <1>2, <1>8, Zenon
  <2>2. iter[{}] = <<>>
    BY <2>1
  <2>3. ASSUME NEW s \in SUBSET (1 .. n), s # {}, iter[s \ {Max(s)}] \in V
        PROVE  iter[s] = step[iter[s \ {Max(s)}], Max(s)]
    <3>1. iter[s] = Gather(iter[s \ {Max(s)}], list[Max(s)], drop, once)
      BY <2>1, <2>3
    <3> QED
      BY <1>2, <2>3, <3>1, <1>4, MaxPlace
  <2> QED
    BY <2>2, <2>3, Zenon DEF FoldsWithin
<1>10. Stepwise(n, V, step, <<>>, iter)
  BY <1>2, <1>4, <1>5, <1>9, FoldPlaces
<1>11. /\ iter[1 .. 0] = <<>> /\ \A k \in 0 .. n : iter[1 .. k] \in V
       /\ \A k \in 1 .. n : iter[1 .. k] = step[iter[1 .. k - 1], k]
  BY <1>10, Zenon DEF Stepwise
<1> DEFINE S == {k \in Nat : k > n \/ Gathers(list, drop, once, k, iter[1 .. k])}
<1>12. 0 \in S
  <2>0. iter[1 .. 0] = <<>> /\ Len(<<>>) = 0
    BY <1>11
  <2>1. Len(iter[1 .. 0]) = 0
    BY <2>0, Zenon
  <2>2. Gathers(list, drop, once, 0, iter[1 .. 0])
    BY <2>1 DEF Gathers
  <2> QED
    BY <2>2
<1>13. ASSUME NEW k \in Nat, k \in S PROVE k + 1 \in S
  <2>1. CASE k + 1 > n
    BY <2>1
  <2>2. CASE k + 1 <= n
    <3>1. k \in 0 .. n /\ k + 1 \in 1 .. n /\ (k + 1) - 1 = k /\ ~(k > n)
      BY <1>2, <2>2
    <3>2. Gathers(list, drop, once, k, iter[1 .. k]) /\ iter[1 .. k] \in V
      BY <1>11, <1>13, <3>1
    <3>3. Gathers(list, drop, once, k + 1, Gather(iter[1 .. k], list[k + 1], drop, once))
      BY <1>2, <3>1, <3>2, GathersFurther DEF V
    <3>4. iter[1 .. k + 1] = Gather(iter[1 .. k], list[k + 1], drop, once)
      BY <1>4, <1>11, <3>1, <3>2
    <3> QED
      BY <3>3, <3>4
  <2> QED
    BY <1>2, <2>1, <2>2
<1>14. Nat \subseteq S
  <2> HIDE DEF S
  <2> QED
    BY <1>12, <1>13, NatSet
<1>15. n \in S /\ ~(n > n) /\ n \in 0 .. n
  BY <1>2, <1>14
<1>16. Gathers(list, drop, once, n, iter[1 .. n]) /\ iter[1 .. n] \in V
  BY <1>11, <1>15
<1> QED
  BY <1>1, <1>2, <1>16, Zenon DEF GatheredFrom, V, E, n

(* What it holds, each once if asked to. *)
Holds(X, list, drop, once, r) ==
  r \in Seq(X) /\ ToSet(r) = ToSet(list) \ drop /\ (once => IsInjective(r))

(* It holds the elements that are not dropped. *)
LEMMA GatheredSet ==
  ASSUME NEW X, NEW list \in Seq(X), NEW drop, NEW once \in BOOLEAN
  PROVE  Holds(X, list, drop, once, Gathered(list, drop, once))
<1> DEFINE n == Len(list)
           E == {list[i] : i \in 1 .. n}
           r == Gathered(list, drop, once)
<1>1. n \in Nat /\ DOMAIN list = 1 .. n /\ E \subseteq X
  OBVIOUS
<1>2. r \in Seq(E) /\ Gathers(list, drop, once, n, r)
  BY GatheredRight DEF GatheredFrom
<1> HIDE DEF r, n
<1>3. DOMAIN r = 1 .. Len(r) /\ Len(r) \in Nat /\ r \in Seq(X)
  BY <1>1, <1>2
<1>4. ToSet(r) = {r[i] : i \in 1 .. Len(r)} /\ ToSet(list) = {list[i] : i \in 1 .. n}
  BY <1>1, <1>3 DEF ToSet
<1>5. ToSet(r) = ToSet(list) \ drop
  <2>1. /\ \A i \in 1 .. Len(r) : r[i] \notin drop /\ \E m \in 1 .. n : r[i] = list[m]
        /\ \A m \in 1 .. n : list[m] \notin drop => \E i \in 1 .. Len(r) : r[i] = list[m]
    BY <1>2, Zenon DEF Gathers
  <2> QED
    BY <1>4, <2>1
<1>6. ASSUME once PROVE IsInjective(r)
  <2>1. \A i, j \in 1 .. Len(r) : i < j => r[i] # r[j]
    BY <1>2, <1>6, Zenon DEF Gathers
  <2>2. \A i, j \in 1 .. Len(r) : r[i] = r[j] => i = j
    BY <1>3, <2>1
  <2> QED
    BY <1>3, <2>2, Zenon DEF IsInjective
<1> QED
  BY <1>3, <1>5, <1>6, Zenon DEF r, Holds

(* Gathered once. *)
LEMMA OnceHolds ==
  ASSUME NEW X, NEW list \in Seq(X), NEW drop
  PROVE  LET r == Gathered(list, drop, TRUE)
         IN  r \in Seq(X) /\ ToSet(r) = ToSet(list) \ drop /\ IsInjective(r)
<1>1. Holds(X, list, drop, TRUE, Gathered(list, drop, TRUE))
  BY GatheredSet
<1> QED
  BY <1>1, Zenon DEF Holds

(* And gathered as often as they come. *)
LEMMA EveryHolds ==
  ASSUME NEW X, NEW list \in Seq(X), NEW drop
  PROVE  LET r == Gathered(list, drop, FALSE)
         IN  r \in Seq(X) /\ ToSet(r) = ToSet(list) \ drop
<1>1. Holds(X, list, drop, FALSE, Gathered(list, drop, FALSE))
  BY GatheredSet
<1> QED
  BY <1>1, Zenon DEF Holds

(* Passing gathers, too. *)
LEMMA PassingGathers ==
  ASSUME NEW X, NEW list \in Seq(X), NEW S
  PROVE  Passing(list, S) = Gathered(list, ToSet(list) \ S, FALSE)
<1> DEFINE n == Len(list)
           drop == ToSet(list) \ S
           one(f, s) == IF list[Max(s)] \in S THEN Append(f[s \ {Max(s)}], list[Max(s)])
                                              ELSE f[s \ {Max(s)}]
           other(f, s) == Gather(f[s \ {Max(s)}], list[Max(s)], drop, FALSE)
           F(f) == [s \in SUBSET DOMAIN list |-> IF s = {} THEN <<>> ELSE one(f, s)]
           G(f) == [s \in SUBSET DOMAIN list |-> IF s = {} THEN <<>> ELSE other(f, s)]
<1>1. DOMAIN list = 1 .. n /\ n \in Nat
  OBVIOUS
<1>2. \A i \in 1 .. n : list[i] \in S <=> list[i] \notin drop
  BY <1>1 DEF ToSet
<1> HIDE DEF n, drop
<1>3. \A s \in SUBSET (1 .. n) : s # {} => Max(s) \in 1 .. n
  BY <1>1, MaxPlace
<1>4. \A f : \A s \in SUBSET (1 .. n) : s # {} => one(f, s) = other(f, s)
  BY <1>2, <1>3, Zenon DEF Gather
<1>5. \A f : F(f) = G(f)
  <2> HIDE DEF one, other
  <2> QED
    BY <1>1, <1>4
<1>6. (CHOOSE f : f = F(f)) = (CHOOSE f : f = G(f))
  <2> HIDE DEF F, G
  <2> QED
    BY <1>5
<1>7. Passing(list, S) = (CHOOSE f : f = F(f))[DOMAIN list]
  BY DEF Passing, FoldLeft, MapThenFoldSet
<1>8. Gathered(list, drop, FALSE) = (CHOOSE f : f = G(f))[DOMAIN list]
  BY DEF Gathered, FoldLeft, MapThenFoldSet
<1> QED
  BY <1>6, <1>7, <1>8, Zenon DEF drop

-----------------------------------------------------------------------------
(* The layers of a setting.                                                *)
THEOREM LayersRight ==
  ASSUME NEW kind, NEW default, NEW file, NEW dotenv, NEW env
  PROVE  LayersDecide(kind, default, file, dotenv, env)
BY TextAssumption DEF LayersDecide, LoadedValue, Override, Environment, Usable

-----------------------------------------------------------------------------
(* The post-scan tasks.                                                    *)
AllTasks == <<"identify", "auto_tag", "clean">>

(* Each task once, as asked for. *)
Asked(tasks) == Gathered(tasks, {}, TRUE)

(* PostScanTasks filters what was asked for. *)
LEMMA AskedOnce ==
  ASSUME NEW X, NEW tasks \in Seq(X)
  PROVE  PostScanTasks(tasks) = orderedPostScanTasks(Asked(tasks))
BY DEF PostScanTasks, Asked, Gathered, Gather, FoldLeft, MapThenFoldSet

(* Lists of up to two elements. *)
LEMMA ShortLists ==
  ASSUME NEW S, NEW a \in S, NEW b \in S
  PROVE  <<>> \in Seq(S) /\ <<a>> \in Seq(S) /\ <<a, b>> \in Seq(S)
OBVIOUS

(* What a task asked for once leaves when the others are dropped.          *)
LEMMA OneTask ==
  ASSUME NEW X, NEW asked \in Seq(X), IsInjective(asked), NEW t
  PROVE  Passing(asked, {t}) = IF t \in ToSet(asked) THEN <<t>> ELSE <<>>
<1> DEFINE drop == ToSet(asked) \ {t}
           n == Len(asked)
           r == Passing(asked, {t})
<1>1. r = Gathered(asked, drop, FALSE)
  BY PassingGathers, Zenon
<1> HIDE DEF drop, r
<1>2. /\ r \in Seq({asked[i] : i \in 1 .. n}) /\ Gathers(asked, drop, FALSE, n, r)
      /\ n \in Nat /\ DOMAIN asked = 1 .. n
  <2>1. GatheredFrom(asked, drop, FALSE, r)
    BY <1>1, GatheredRight
  <2>2. n \in Nat /\ DOMAIN asked = 1 .. n
    OBVIOUS
  <2> QED
    BY <2>1, <2>2, Zenon DEF GatheredFrom
<1>3. ToSet(asked) = {asked[m] : m \in 1 .. n}
  BY <1>2 DEF ToSet
<1> HIDE DEF n
<1>4. Len(r) \in Nat /\ \A i \in 1 .. Len(r) : r[i] \in ToSet(asked) /\ r[i] = t
  <2>1. \A i \in 1 .. Len(r) : r[i] \notin drop /\ \E m \in 1 .. n : r[i] = asked[m]
    BY <1>2, Zenon DEF Gathers
  <2>2. Len(r) \in Nat
    BY <1>2
  <2> QED
    BY <1>3, <2>1, <2>2 DEF drop
<1>5. Len(r) = 0 \/ Len(r) = 1
  <2>0. Len(r) = 0 \/ Len(r) = 1 \/ Len(r) > 1
    <3>1. \A l \in Nat : l = 0 \/ l = 1 \/ l > 1
      OBVIOUS
    <3> QED
      BY <1>4, <3>1, Zenon
  <2> SUFFICES ASSUME Len(r) > 1 PROVE FALSE
    BY <2>0
  <2>1. 1 \in 1 .. Len(r) /\ 2 \in 1 .. Len(r) /\ 1 < 2
    BY <1>4
  <2>2. PICK m \in 1 .. n, o \in 1 .. n : m < o /\ r[1] = asked[m] /\ r[2] = asked[o]
    <3>1. \A i, j \in 1 .. Len(r) : i < j =>
            \E m, o \in 1 .. n : m < o /\ r[i] = asked[m] /\ r[j] = asked[o]
      BY <1>2, Zenon DEF Gathers
    <3> QED
      BY <2>1, <3>1
  <2>3. asked[m] = asked[o]
    BY <1>4, <2>1, <2>2
  <2>4. m = o
    BY <1>2, <2>3, Zenon DEF IsInjective
  <2> QED
    BY <1>2, <2>2, <2>4
<1>6. CASE t \in ToSet(asked)
  <2>1. PICK m \in 1 .. n : asked[m] = t
    BY <1>3, <1>6
  <2>2. PICK i \in 1 .. Len(r) : r[i] = t
    <3>1. \A k \in 1 .. n : asked[k] \notin drop => \E i \in 1 .. Len(r) : r[i] = asked[k]
      BY <1>2, Zenon DEF Gathers
    <3> QED
      BY <2>1, <3>1 DEF drop
  <2>3. Len(r) = 1 /\ r[1] = t
    BY <1>4, <1>5, <2>2
  <2> QED
    BY <1>2, <1>6, <2>3 DEF r
<1>7. CASE t \notin ToSet(asked)
  <2>1. Len(r) # 1
    BY <1>4, <1>7
  <2> QED
    BY <1>2, <1>5, <1>7, <2>1 DEF r
<1> QED
  BY <1>6, <1>7

(* Three lists of at most one element each, one after the other.           *)
Joins(a, b, c) ==
  /\ <<a>> \o <<b>> \o <<c>> = <<a, b, c>> /\ <<a>> \o <<b>> \o <<>> = <<a, b>>
  /\ <<a>> \o <<>> \o <<c>> = <<a, c>> /\ <<>> \o <<b>> \o <<c>> = <<b, c>>
  /\ <<a>> \o <<>> \o <<>> = <<a>> /\ <<>> \o <<b>> \o <<>> = <<b>>
  /\ <<>> \o <<>> \o <<c>> = <<c>> /\ <<>> \o <<>> \o <<>> = <<>>

(* They are one list. *)
LEMMA Joined ==
  ASSUME NEW a, NEW b, NEW c
  PROVE  Joins(a, b, c)
<1> DEFINE E == {a, b, c}
<1>1. a \in E /\ b \in E /\ c \in E
  OBVIOUS
<1> HIDE DEF E
<1>2. ASSUME NEW s \in Seq(E) PROVE <<>> \o s = s /\ s \o <<>> = s
  BY ConcatEmptySeq
<1>3. \A s, t \in Seq(E) : Len(s) = Len(t) /\ (\A i \in 1 .. Len(s) : s[i] = t[i]) => s = t
  BY SeqEqual
<1>4. ASSUME NEW x \in E, NEW y \in E PROVE <<x>> \o <<y>> = <<x, y>>
  <2>1. <<x>> \in Seq(E) /\ <<y>> \in Seq(E) /\ <<x, y>> \in Seq(E)
    BY ShortLists
  <2>2. /\ <<x>> \o <<y>> \in Seq(E) /\ Len(<<x>> \o <<y>>) = 1 + 1
        /\ \A i \in 1 .. 1 + 1 : (<<x>> \o <<y>>)[i] = IF i <= 1 THEN <<x>>[i] ELSE <<y>>[i - 1]
    BY <2>1, ConcatProperties
  <2> DEFINE z == <<x>> \o <<y>>
  <2> HIDE DEF z
  <2>3. z \in Seq(E) /\ Len(z) = 2 /\ z[1] = x /\ z[2] = y
    BY <2>2 DEF z
  <2>4. z = <<x, y>>
    BY <1>3, <2>1, <2>3
  <2> QED
    BY <2>4 DEF z
<1>5. <<a, b>> \o <<c>> = <<a, b, c>>
  <2>1. <<a, b>> \in Seq(E) /\ <<c>> \in Seq(E) /\ <<a, b, c>> \in Seq(E)
    BY <1>1
  <2>2. /\ <<a, b>> \o <<c>> \in Seq(E) /\ Len(<<a, b>> \o <<c>>) = 2 + 1
        /\ \A i \in 1 .. 2 + 1 :
             (<<a, b>> \o <<c>>)[i] = IF i <= 2 THEN <<a, b>>[i] ELSE <<c>>[i - 2]
    BY <2>1, ConcatProperties
  <2> DEFINE z == <<a, b>> \o <<c>>
  <2> HIDE DEF z
  <2>3. z \in Seq(E) /\ Len(z) = 3 /\ z[1] = a /\ z[2] = b /\ z[3] = c
    BY <2>2 DEF z
  <2>4. z = <<a, b, c>>
    BY <1>3, <2>1, <2>3
  <2> QED
    BY <2>4 DEF z
<1>6. /\ <<>> \in Seq(E) /\ <<a>> \in Seq(E) /\ <<b>> \in Seq(E) /\ <<c>> \in Seq(E)
      /\ <<a, b>> \in Seq(E) /\ <<a, c>> \in Seq(E) /\ <<b, c>> \in Seq(E)
  BY <1>1, ShortLists
<1>7. \A s \in Seq(E) : <<>> \o s = s /\ s \o <<>> = s
  BY <1>2
<1>8. \A x, y \in E : <<x>> \o <<y>> = <<x, y>>
  BY <1>4
<1> QED
  BY <1>1, <1>5, <1>6, <1>7, <1>8, Zenon DEF Joins

(* README.md:172 and 174: the tasks run in their order, each once.         *)
THEOREM TasksRight ==
  ASSUME NEW X, NEW tasks \in Seq(X)
  PROVE  TasksOrdered(tasks)
<1> DEFINE asked == Asked(tasks)
           run == PostScanTasks(tasks)
           I == Passing(asked, {"identify"})
           A == Passing(asked, {"auto_tag"})
           C == Passing(asked, {"clean"})
<1> SUFFICES ASSUME TasksKnown(tasks)
             PROVE  /\ ToSet(run) = ToSet(tasks) /\ IsInjective(run)
                    /\ \A i, j \in DOMAIN run :
                         \/ run[i] = "identify" /\ run[j] # "identify"
                         \/ run[j] = "clean" /\ run[i] # "clean"
                         => i < j
  BY DEF TasksOrdered
<1>1. asked \in Seq(X) /\ ToSet(asked) = ToSet(tasks) /\ IsInjective(asked)
  BY OnceHolds DEF Asked
<1>2. run = I \o A \o C
  BY AskedOnce DEF orderedPostScanTasks
<1> HIDE DEF asked, run
<1>3. /\ I = IF "identify" \in ToSet(tasks) THEN <<"identify">> ELSE <<>>
      /\ A = IF "auto_tag" \in ToSet(tasks) THEN <<"auto_tag">> ELSE <<>>
      /\ C = IF "clean" \in ToSet(tasks) THEN <<"clean">> ELSE <<>>
  BY <1>1, OneTask
<1> HIDE DEF I, A, C
<1>4. ToSet(tasks) \subseteq {"identify", "auto_tag", "clean"}
  BY DEF TasksKnown, KnownTasks
<1> DEFINE i0 == "identify" \in ToSet(tasks)
           a0 == "auto_tag" \in ToSet(tasks)
           c0 == "clean" \in ToSet(tasks)
<1>5. run = IF i0 THEN IF a0 THEN IF c0 THEN <<"identify", "auto_tag", "clean">>
                                        ELSE <<"identify", "auto_tag">>
                             ELSE IF c0 THEN <<"identify", "clean">> ELSE <<"identify">>
                  ELSE IF a0 THEN IF c0 THEN <<"auto_tag", "clean">> ELSE <<"auto_tag">>
                             ELSE IF c0 THEN <<"clean">> ELSE <<>>
  <2> HIDE DEF i0, a0, c0
  <2>1. /\ I = IF i0 THEN <<"identify">> ELSE <<>>
        /\ A = IF a0 THEN <<"auto_tag">> ELSE <<>>
        /\ C = IF c0 THEN <<"clean">> ELSE <<>>
    BY <1>3 DEF i0, a0, c0
  <2>2. Joins("identify", "auto_tag", "clean")
    BY Joined
  <2>3. CASE i0 /\ a0
    BY <1>2, <2>1, <2>2, <2>3 DEF Joins
  <2>4. CASE i0 /\ ~a0
    BY <1>2, <2>1, <2>2, <2>4 DEF Joins
  <2>5. CASE ~i0 /\ a0
    BY <1>2, <2>1, <2>2, <2>5 DEF Joins
  <2>6. CASE ~i0 /\ ~a0
    BY <1>2, <2>1, <2>2, <2>6 DEF Joins
  <2> QED
    BY <2>3, <2>4, <2>5, <2>6
<1>6. IsInjective(run)
  BY <1>5 DEF IsInjective
<1>7. \A a, b, c : /\ ToSet(<<a, b, c>>) = {a, b, c} /\ ToSet(<<a, b>>) = {a, b}
                  /\ ToSet(<<a>>) = {a} /\ ToSet(<<>>) = {}
  BY DEF ToSet
<1>8. ToSet(run) = ToSet(tasks)
  <2> DEFINE T == ToSet(tasks)
  <2>1. T = (IF i0 THEN {"identify"} ELSE {}) \cup (IF a0 THEN {"auto_tag"} ELSE {})
              \cup (IF c0 THEN {"clean"} ELSE {})
    BY <1>4
  <2> HIDE DEF i0, a0, c0, T
  <2>2. ToSet(run) = (IF i0 THEN {"identify"} ELSE {}) \cup (IF a0 THEN {"auto_tag"} ELSE {})
                       \cup (IF c0 THEN {"clean"} ELSE {})
    BY <1>5, <1>7
  <2> QED
    BY <2>1, <2>2 DEF T
<1>9. \A i, j \in DOMAIN run :
        \/ run[i] = "identify" /\ run[j] # "identify"
        \/ run[j] = "clean" /\ run[i] # "clean"
        => i < j
  BY <1>5
<1> QED
  BY <1>6, <1>8, <1>9

-----------------------------------------------------------------------------
(* With what Validate accepts (config.go:138-192) the scheduler can wait,  *)
(* the runner can walk unless the URL is no address, and with an address   *)
(* it can send every post-scan task, and the scan if the roots come from   *)
(* Stash; and every backoff grows if twice the largest is a duration.      *)
THEOREM ValidatedRuns ==
  ASSUME NEW c, Validate(c), NEW X,
         c.from_stash \in BOOLEAN, c.key \in BOOLEAN, c.dry_run \in BOOLEAN,
         c.sources \in BOOLEAN, c.url \in {"none", "relative", "absolute"},
         c.roots \in {"none", "some", "blank"}, c.tasks \in Seq(X),
         c.interval \in Int, c.attempts \in Int, c.initial \in Int, c.max \in Int
  PROVE  /\ CanWait(c)
         /\ c.url # "relative" => CanWalk(c)
         /\ c.dry_run \/ HasAddress(c) => \A t \in ToSet(PostScanTasks(c.tasks)) : CanRun(c, t)
         /\ c.from_stash /\ HasAddress(c) => CanScan(c)
         /\ c.max <= MaxDuration \div 2 => \A n \in 1 .. c.attempts : Grows(c.initial, c.max, n)
<1>1. c.url # "relative" => CanWalk(c)
  BY DEF Validate, RootsValid, CanWalk, HasCredentials, HasAddress
<1>2. CanWait(c)
  BY DEF Validate, ScheduleValid, CanWait
<1>3. c.dry_run \/ HasAddress(c) => \A t \in ToSet(PostScanTasks(c.tasks)) : CanRun(c, t)
  <2>1. TasksKnown(c.tasks) /\ ("identify" \in ToSet(c.tasks) => c.sources \/ HasCredentials(c))
    BY DEF Validate, PostScanValid
  <2>2. ToSet(PostScanTasks(c.tasks)) = ToSet(c.tasks)
    BY <2>1, TasksRight DEF TasksOrdered
  <2> QED
    BY <2>1, <2>2 DEF CanRun, TasksKnown, KnownTasks, HasCredentials
<1>4. c.from_stash /\ HasAddress(c) => CanScan(c)
  BY DEF Validate, RootsValid, CanScan, HasCredentials
<1>5. ASSUME c.max <= MaxDuration \div 2, NEW n \in 1 .. c.attempts
      PROVE  Grows(c.initial, c.max, n)
  <2>1. 2 * c.max <= MaxDuration
    BY <1>5, DurationAssumption
  <2>2. c.initial \in 1 .. c.max /\ n \in Nat \ {0} /\ c.max \in 1 .. MaxDuration
    BY <2>1, DurationAssumption DEF Validate, RetryValid
  <2> QED
    BY <2>1, <2>2, Growing
<1> QED
  BY <1>1, <1>2, <1>3, <1>4, <1>5

-----------------------------------------------------------------------------
(* The sources of an identify task.                                        *)
LEMMA UniqueGathers ==
  ASSUME NEW values
  PROVE  uniqueNonEmpty(values) = Gathered(values, {0}, TRUE)
BY DEF uniqueNonEmpty, Gathered, Gather, FoldLeft, MapThenFoldSet

(* uniqueNonEmpty keeps each text but the empty one, once. *)
LEMMA UniqueRight ==
  ASSUME NEW values \in Seq(Int)
  PROVE  /\ uniqueNonEmpty(values) \in Seq(Int)
         /\ ToSet(uniqueNonEmpty(values)) = ToSet(values) \ {0}
         /\ IsInjective(uniqueNonEmpty(values))
BY UniqueGathers, OnceHolds

(* A list is empty if it holds nothing. *)
LEMMA EmptyList ==
  ASSUME NEW list \in Seq(Int)
  PROVE  list = <<>> <=> ToSet(list) = {}
BY DEF ToSet

(* Field holds that field of each element. *)
LEMMA FieldSet ==
  ASSUME NEW name, NEW list, DOMAIN list = 1 .. Len(list), Len(list) \in Nat,
         \A i \in DOMAIN list : list[i][name] \in Int
  PROVE  /\ Field(name, list) \in Seq(Int)
         /\ ToSet(Field(name, list)) = {x[name] : x \in ToSet(list)}
<1>1. Field(name, list) \in Seq(Int) /\ DOMAIN Field(name, list) = DOMAIN list
  BY DEF Field
<1>2. \A i \in DOMAIN list : Field(name, list)[i] = list[i][name]
  BY DEF Field
<1> QED
  BY <1>1, <1>2 DEF ToSet

NamedOn(scrapers) ==
  {x \in (DOMAIN scrapers) \X (DOMAIN scrapers) : Named(scrapers, x[1], x[2])}

(* Sorting by name loses no scraper.                                       *)
LEMMA ByNameSet ==
  ASSUME NEW X, NEW scrapers \in Seq(X), \A x \in X : x.name \in Int
  PROVE  ByName(scrapers) \in Seq(X) /\ ToSet(ByName(scrapers)) = ToSet(scrapers)
<1> DEFINE D == DOMAIN scrapers
           R == NamedOn(scrapers)
           rank(j) == Cardinality({i \in D : Named(scrapers, i, j)})
           order == [n \in 1 .. Cardinality(D) |-> CHOOSE j \in D : rank(j) = n - 1]
<1>1. D = 1 .. Len(scrapers) /\ Len(scrapers) \in Nat /\ D \subseteq Int /\ IsFiniteSet(D)
  BY FS_Interval
<1>2. \A i \in D : scrapers[i].name \in Int
  BY <1>1
<1>3. StrictOrder(D, R)
  <2> HIDE DEF D
  <2>1. \A i, j \in D : <<i, j>> \in R <=> Named(scrapers, i, j)
    BY DEF NamedOn, D
  <2>2. \A i, j \in D : Named(scrapers, i, j) <=>
           \/ scrapers[i].name < scrapers[j].name
           \/ scrapers[i].name = scrapers[j].name /\ i < j
    BY DEF Named
  <2> HIDE DEF R
  <2>3. \A i \in D : <<i, i>> \notin R
    BY <1>1, <1>2, <2>1, <2>2
  <2>4. ASSUME NEW i \in D, NEW j \in D, NEW k \in D, <<i, j>> \in R, <<j, k>> \in R
        PROVE  <<i, k>> \in R
    <3>1. \A a, b, c, x, y, z \in Int :
             /\ a < b \/ (a = b /\ x < y)
             /\ b < c \/ (b = c /\ y < z)
             => a < c \/ (a = c /\ x < z)
      OBVIOUS
    <3>2. i \in Int /\ j \in Int /\ k \in Int
      BY <1>1
    <3>3. scrapers[i].name \in Int /\ scrapers[j].name \in Int /\ scrapers[k].name \in Int
      BY <1>2
    <3>4. /\ \/ scrapers[i].name < scrapers[j].name
             \/ scrapers[i].name = scrapers[j].name /\ i < j
          /\ \/ scrapers[j].name < scrapers[k].name
             \/ scrapers[j].name = scrapers[k].name /\ j < k
      BY <2>1, <2>2, <2>4, Zenon
    <3>5. \/ scrapers[i].name < scrapers[k].name
          \/ scrapers[i].name = scrapers[k].name /\ i < k
      BY <3>1, <3>2, <3>3, <3>4
    <3> QED
      BY <2>1, <2>2, <3>5, Zenon
  <2>5. ASSUME NEW i \in D, NEW j \in D
        PROVE  i = j \/ <<i, j>> \in R \/ <<j, i>> \in R
    <3>1. \A x, y, a, b \in Int : x < y \/ y < x \/ (x = y /\ (a < b \/ b < a \/ a = b))
      OBVIOUS
    <3>2. i \in Int /\ j \in Int /\ scrapers[i].name \in Int /\ scrapers[j].name \in Int
      BY <1>1, <1>2
    <3> QED
      BY <2>1, <2>2, <3>1, <3>2, Zenon
  <2> QED
    BY <2>3, <2>4, <2>5, Zenon DEF StrictOrder
<1>4. ByRank(D, R, order)
  <2>1. \A j \in D : Smaller(D, R, j) = {i \in D : Named(scrapers, i, j)}
    BY DEF Smaller, NamedOn
  <2>2. \A j \in D : Cardinality(Smaller(D, R, j)) = rank(j)
    BY <2>1
  <2> HIDE DEF rank, D, R
  <2>3. order = [n \in 1 .. Cardinality(D) |-> order[n]]
    OBVIOUS
  <2>4. \A n \in 1 .. Cardinality(D) : order[n] = CHOOSE j \in D : rank(j) = n - 1
    OBVIOUS
  <2> HIDE DEF order
  <2> QED
    BY <2>2, <2>3, <2>4, Zenon DEF ByRank, RankAt
<1>5. Sorts(D, R, order)
  BY <1>1, <1>3, <1>4, RankSorts
<1>6. ByName(scrapers) = [n \in DOMAIN order |-> scrapers[order[n]]]
  BY DEF ByName, InOrder, Rank
<1> HIDE DEF order
<1>7. /\ Cardinality(D) \in Nat /\ order \in [1 .. Cardinality(D) -> D]
      /\ \A j \in D : \E n \in 1 .. Cardinality(D) : order[n] = j
  BY <1>5, Zenon DEF Sorts
<1>8. ByName(scrapers) \in [1 .. Cardinality(D) -> X]
  BY <1>1, <1>6, <1>7
<1>9. ByName(scrapers) \in Seq(X)
  BY <1>7, <1>8
<1>10. \A n \in 1 .. Cardinality(D) : ByName(scrapers)[n] = scrapers[order[n]] /\ order[n] \in D
  BY <1>6, <1>7
<1>11. ToSet(ByName(scrapers)) = {ByName(scrapers)[n] : n \in 1 .. Cardinality(D)}
  BY <1>8 DEF ToSet
<1>12. ToSet(scrapers) = {scrapers[j] : j \in D}
  BY DEF ToSet
<1>13. ToSet(ByName(scrapers)) = ToSet(scrapers)
  <2> HIDE DEF D
  <2>1. ASSUME NEW x \in ToSet(ByName(scrapers)) PROVE x \in ToSet(scrapers)
    <3>1. PICK n \in 1 .. Cardinality(D) : x = ByName(scrapers)[n]
      BY <1>11, <2>1, Zenon
    <3> QED
      BY <1>10, <1>12, <3>1, Zenon
  <2>2. ASSUME NEW x \in ToSet(scrapers) PROVE x \in ToSet(ByName(scrapers))
    <3>1. PICK j \in D : x = scrapers[j]
      BY <1>12, <2>2, Zenon
    <3>2. PICK n \in 1 .. Cardinality(D) : order[n] = j
      BY <1>7, Zenon
    <3> QED
      BY <1>10, <1>11, <3>1, <3>2, Zenon
  <2> QED
    BY <2>1, <2>2, Zenon
<1> QED
  BY <1>9, <1>13

AnyPostScan == [indexes : Seq(Int), endpoints : Seq(Int), scrapers : Seq(Int)]
AnyDefault == [endpoint : Int, scraper : Int]
AnyScraper == [name : Int, id : Int, fragment : BOOLEAN]
AnyAnswer == [ok : BOOLEAN, defaults : Seq(AnyDefault), boxes : Seq(Int),
              scrapers : Seq(AnyScraper)]

(* The default sources, each once.                                         *)
LEMMA DefaultsFound ==
  ASSUME NEW defaults \in Seq(AnyDefault)
  PROVE  LET De == uniqueNonEmpty(Field("endpoint", defaults))
             Ds == uniqueNonEmpty(Field("scraper", defaults))
         IN  /\ De \in Seq(Int) /\ IsInjective(De)
             /\ ToSet(De) = {d.endpoint : d \in ToSet(defaults)} \ {0}
             /\ Ds \in Seq(Int) /\ IsInjective(Ds)
             /\ ToSet(Ds) = {d.scraper : d \in ToSet(defaults)} \ {0}
             /\ SomeDefault(defaults) <=> De # <<>> \/ Ds # <<>>
<1> DEFINE De == uniqueNonEmpty(Field("endpoint", defaults))
           Ds == uniqueNonEmpty(Field("scraper", defaults))
<1>1. \A d \in AnyDefault : d.endpoint \in Int /\ d.scraper \in Int
  BY DEF AnyDefault
<1>2. /\ DOMAIN defaults = 1 .. Len(defaults) /\ Len(defaults) \in Nat
      /\ \A i \in DOMAIN defaults : defaults[i] \in AnyDefault
  OBVIOUS
<1>3. \A i \in DOMAIN defaults : defaults[i].endpoint \in Int /\ defaults[i].scraper \in Int
  BY <1>1, <1>2
<1>4. /\ De \in Seq(Int) /\ IsInjective(De)
      /\ ToSet(De) = {d.endpoint : d \in ToSet(defaults)} \ {0}
  BY <1>2, <1>3, FieldSet, UniqueRight
<1>5. /\ Ds \in Seq(Int) /\ IsInjective(Ds)
      /\ ToSet(Ds) = {d.scraper : d \in ToSet(defaults)} \ {0}
  BY <1>2, <1>3, FieldSet, UniqueRight
<1> HIDE DEF De, Ds
<1>6. ToSet(defaults) = {defaults[i] : i \in DOMAIN defaults}
  BY DEF ToSet
<1>7. SomeDefault(defaults) <=> ToSet(De) # {} \/ ToSet(Ds) # {}
  <2>1. ToSet(De) # {} <=> \E d \in ToSet(defaults) : d.endpoint # 0
    BY <1>4
  <2>2. ToSet(Ds) # {} <=> \E d \in ToSet(defaults) : d.scraper # 0
    BY <1>5
  <2>3. SomeDefault(defaults) <=>
          \E d \in ToSet(defaults) : d.endpoint # 0 \/ d.scraper # 0
    BY <1>6, Zenon DEF SomeDefault
  <2> QED
    BY <2>1, <2>2, <2>3, Zenon
<1>8. SomeDefault(defaults) <=> De # <<>> \/ Ds # <<>>
  BY <1>4, <1>5, <1>7, EmptyList
<1> QED
  BY <1>4, <1>5, <1>8 DEF De, Ds

(* The scrapers that work on a fragment, each once.                        *)
LEMMA ScrapersFound ==
  ASSUME NEW scrapers \in Seq(AnyScraper)
  PROVE  LET Bs == discoverFragmentSceneScrapers(scrapers)
         IN  /\ Bs \in Seq(Int) /\ IsInjective(Bs)
             /\ ToSet(Bs) = {s.id : s \in {x \in ToSet(scrapers) : x.fragment}} \ {0}
<1> DEFINE fragment == {s \in ToSet(scrapers) : s.fragment}
           drop == ToSet(scrapers) \ fragment
           passing == Passing(scrapers, fragment)
           named == ByName(passing)
<1>1. \A s \in AnyScraper : s.name \in Int /\ s.id \in Int
  BY DEF AnyScraper
<1>2. passing = Gathered(scrapers, drop, FALSE)
  BY PassingGathers
<1>3. fragment \subseteq ToSet(scrapers)
  OBVIOUS
<1>4. discoverFragmentSceneScrapers(scrapers) = uniqueNonEmpty(Field("id", named))
  BY DEF discoverFragmentSceneScrapers
<1> HIDE DEF drop, passing
<1>5. passing \in Seq(AnyScraper) /\ ToSet(passing) = ToSet(scrapers) \ drop
  BY <1>2, EveryHolds
<1>6. named \in Seq(AnyScraper) /\ ToSet(named) = fragment
  <2>1. named \in Seq(AnyScraper) /\ ToSet(named) = ToSet(passing)
    BY <1>1, <1>5, ByNameSet
  <2> HIDE DEF named, fragment
  <2> QED
    BY <1>3, <1>5, <2>1 DEF drop
<1> HIDE DEF named, fragment
<1>7. /\ DOMAIN named = 1 .. Len(named) /\ Len(named) \in Nat
      /\ \A i \in DOMAIN named : named[i] \in AnyScraper
  BY <1>6
<1>8. \A i \in DOMAIN named : named[i].id \in Int
  BY <1>1, <1>7
<1>9. /\ Field("id", named) \in Seq(Int)
      /\ ToSet(Field("id", named)) = {s.id : s \in fragment}
  BY <1>6, <1>7, <1>8, FieldSet
<1> QED
  BY <1>4, <1>9, UniqueRight DEF fragment

(* What is discovered is what was promised.                                *)
Discovered(answer, es, ss) ==
  /\ discoverIdentifySources(answer) = [endpoints |-> es, scrapers |-> ss]
  /\ ToSet(es) = PromisedEndpoints(answer) \ {0}
  /\ ToSet(ss) = PromisedScrapers(answer) \ {0}
  /\ IsInjective(es) /\ IsInjective(ss)

(* So it is for every answer. *)
LEMMA FoundSources ==
  ASSUME NEW answer \in AnyAnswer, answer.ok
  PROVE  \E es, ss \in Seq(Int) : Discovered(answer, es, ss)
<1> DEFINE defaults == answer.defaults
           De == uniqueNonEmpty(Field("endpoint", defaults))
           Ds == uniqueNonEmpty(Field("scraper", defaults))
           Be == uniqueNonEmpty(answer.boxes)
           Bs == discoverFragmentSceneScrapers(answer.scrapers)
<1>1. /\ defaults \in Seq(AnyDefault) /\ answer.boxes \in Seq(Int)
      /\ answer.scrapers \in Seq(AnyScraper)
  BY DEF AnyAnswer
<1>2. /\ De \in Seq(Int) /\ IsInjective(De)
      /\ ToSet(De) = {d.endpoint : d \in ToSet(defaults)} \ {0}
      /\ Ds \in Seq(Int) /\ IsInjective(Ds)
      /\ ToSet(Ds) = {d.scraper : d \in ToSet(defaults)} \ {0}
      /\ SomeDefault(defaults) <=> De # <<>> \/ Ds # <<>>
  BY <1>1, DefaultsFound
<1>3. /\ Be \in Seq(Int) /\ IsInjective(Be) /\ ToSet(Be) = ToSet(answer.boxes) \ {0}
  BY <1>1, UniqueRight
<1>4. /\ Bs \in Seq(Int) /\ IsInjective(Bs)
      /\ ToSet(Bs) = {s.id : s \in {x \in ToSet(answer.scrapers) : x.fragment}} \ {0}
  BY <1>1, ScrapersFound
<1>5. discoverIdentifySources(answer) =
        IF De # <<>> \/ Ds # <<>> THEN [endpoints |-> De, scrapers |-> Ds]
                                  ELSE [endpoints |-> Be, scrapers |-> Bs]
  <2> HIDE DEF Bs
  <2>1. identifySourcesFromDefaults(answer) = [endpoints |-> De, scrapers |-> Ds]
    BY DEF identifySourcesFromDefaults
  <2> HIDE DEF De, Ds
  <2> QED
    BY <2>1 DEF discoverIdentifySources, NoSources, Bs
<1> HIDE DEF De, Ds, Be, Bs
<1>6. CASE SomeDefault(defaults)
  <2>1. /\ PromisedEndpoints(answer) = {d.endpoint : d \in ToSet(defaults)}
        /\ PromisedScrapers(answer) = {d.scraper : d \in ToSet(defaults)}
    BY <1>6 DEF PromisedEndpoints, PromisedScrapers
  <2>2. Discovered(answer, De, Ds)
    BY <1>2, <1>5, <1>6, <2>1, Zenon DEF Discovered
  <2> QED
    BY <1>2, <2>2
<1>7. CASE ~SomeDefault(defaults)
  <2>1. /\ PromisedEndpoints(answer) = ToSet(answer.boxes)
        /\ PromisedScrapers(answer)
             = {s.id : s \in {x \in ToSet(answer.scrapers) : x.fragment}}
    BY <1>7 DEF PromisedEndpoints, PromisedScrapers
  <2>2. Discovered(answer, Be, Bs)
    <3>1. discoverIdentifySources(answer) = [endpoints |-> Be, scrapers |-> Bs]
      BY <1>2, <1>5, <1>7
    <3> QED
      BY <1>3, <1>4, <2>1, <3>1, Zenon DEF Discovered
  <2> QED
    BY <1>3, <1>4, <2>2
<1> QED
  BY <1>6, <1>7

(* README.md:173: the sources are those that the documentation promises.   *)
THEOREM SourcesRight ==
  ASSUME NEW cfg \in AnyPostScan, NEW answer \in AnyAnswer
  PROVE  SourcesAsDocumented(cfg, answer)
<1> DEFINE resolved == resolveIdentifyConfig(cfg, answer)
<1>1. CASE HasIdentifySources(cfg)
  <2>1. resolved = [ok |-> TRUE, cfg |-> cfg]
    BY <1>1 DEF resolveIdentifyConfig
  <2> QED
    BY <1>1, <2>1 DEF SourcesAsDocumented
<1>2. CASE ~HasIdentifySources(cfg) /\ ~answer.ok
  <2>1. resolved.ok = FALSE
    BY <1>2 DEF resolveIdentifyConfig, discoverIdentifySources
  <2> HIDE DEF resolved
  <2> QED
    BY <1>2, <2>1 DEF SourcesAsDocumented, resolved
<1>3. CASE ~HasIdentifySources(cfg) /\ answer.ok
  <2>1. PICK es \in Seq(Int), ss \in Seq(Int) : Discovered(answer, es, ss)
    BY <1>3, FoundSources
  <2>2. /\ discoverIdentifySources(answer) = [endpoints |-> es, scrapers |-> ss]
        /\ ToSet(es) = PromisedEndpoints(answer) \ {0}
        /\ ToSet(ss) = PromisedScrapers(answer) \ {0}
        /\ IsInjective(es) /\ IsInjective(ss)
    BY <2>1, Zenon DEF Discovered
  <2> DEFINE found == [endpoints |-> es, scrapers |-> ss]
  <2>3. resolved = [ok |-> found # NoSources,
                    cfg |-> [cfg EXCEPT !.endpoints = es, !.scrapers = ss]]
    BY <1>3, <2>2 DEF resolveIdentifyConfig
  <2>4. found # NoSources <=> es # <<>> \/ ss # <<>>
    BY DEF NoSources
  <2> HIDE DEF resolved, found
  <2>5. /\ resolved.ok <=> es # <<>> \/ ss # <<>>
        /\ resolved.cfg.endpoints = es /\ resolved.cfg.scrapers = ss
    BY <2>3, <2>4 DEF AnyPostScan
  <2>6. resolved.ok <=> (PromisedEndpoints(answer) \ {0}) \cup (PromisedScrapers(answer) \ {0}) # {}
    BY <2>2, <2>5, EmptyList
  <2> QED
    BY <1>3, <2>2, <2>5, <2>6, Zenon DEF SourcesAsDocumented, resolved
<1> QED
  BY <1>1, <1>2, <1>3

-----------------------------------------------------------------------------
(* The candidates of an item.                                              *)
AnyPerformer(W) == [rank : Int, name : Seq(W), aliases : Seq(Seq(W))]

(* An item's score is a number, and none but for what is mentioned.        *)
LEMMA ScoreType ==
  ASSUME NEW W, NEW text \in Seq(W), NEW p \in AnyPerformer(W)
  PROVE  /\ scorePerformer(text, p) \in Nat
         /\ scorePerformer(text, p) # 0 <=> Mentioned(text, p)
         /\ InText(text, p.name) => scorePerformer(text, p) >= 10
         /\ ~InText(text, p.name) /\ AliasMatches(text, p) = {} =>
              scorePerformer(text, p) = Cardinality(Overlap(text, p))
<1> DEFINE A == AliasMatches(text, p)
           O == Overlap(text, p)
<1>1. IsFiniteSet(A)
  <2>1. A \subseteq DOMAIN p.aliases
    BY DEF AliasMatches
  <2>2. p.aliases \in Seq(Seq(W))
    BY DEF AnyPerformer
  <2>3. DOMAIN p.aliases = 1 .. Len(p.aliases) /\ Len(p.aliases) \in Nat
    BY <2>2
  <2>4. IsFiniteSet(1 .. Len(p.aliases))
    BY <2>3, FS_Interval
  <2> QED
    BY <2>1, <2>3, <2>4, FS_Subset, Zenon
<1>2. IsFiniteSet(O)
  <2>1. O \subseteq ToSet(text)
    BY DEF Overlap
  <2>2. IsFiniteSet(ToSet(text))
    <3>1. DOMAIN text = 1 .. Len(text) /\ Len(text) \in Nat
      OBVIOUS
    <3>2. IsFiniteSet(DOMAIN text)
      BY <3>1, FS_Interval
    <3>3. text \in Surjection(DOMAIN text, ToSet(text))
      BY DEF Surjection, ToSet
    <3> QED
      BY <3>2, <3>3, FS_Surjection
  <2> QED
    BY <2>1, <2>2, FS_Subset, Zenon
<1>3. Cardinality(A) \in Nat /\ (Cardinality(A) = 0 <=> A = {})
  BY <1>1, FS_CardinalityType, FS_EmptySet
<1>4. Cardinality(O) \in Nat /\ (Cardinality(O) = 0 <=> O = {})
  BY <1>2, FS_CardinalityType, FS_EmptySet
<1>5. scorePerformer(text, p) =
        (IF InText(text, p.name) THEN 10 ELSE 0) + 6 * Cardinality(A) + Cardinality(O)
  BY DEF scorePerformer
<1>6. Mentioned(text, p) <=> InText(text, p.name) \/ A # {} \/ O # {}
  BY DEF Mentioned
<1> DEFINE a == Cardinality(A)
           o == Cardinality(O)
           n == InText(text, p.name)
<1> HIDE DEF A, O
<1>7. /\ a \in Nat /\ (a = 0 <=> A = {}) /\ o \in Nat /\ (o = 0 <=> O = {})
      /\ scorePerformer(text, p) = (IF n THEN 10 ELSE 0) + 6 * a + o
      /\ Mentioned(text, p) <=> n \/ A # {} \/ O # {}
  BY <1>3, <1>4, <1>5, <1>6
<1> HIDE DEF a, o, n
<1>8. /\ scorePerformer(text, p) \in Nat
      /\ scorePerformer(text, p) # 0 <=> Mentioned(text, p)
      /\ n => scorePerformer(text, p) >= 10
      /\ ~n /\ A = {} => scorePerformer(text, p) = o
  BY <1>7
<1> QED
  BY <1>8, Zenon DEF a, o, n, A, O

(* The places of those that score are the places of the mentioned ones.    *)
Mentions(text, performers) == {i \in DOMAIN performers : Mentioned(text, performers[i])}

LEMMA MatchingPlaces ==
  ASSUME NEW W, NEW text \in Seq(W), NEW performers \in Seq(AnyPerformer(W))
  PROVE  /\ Matching(text, performers) = Mentions(text, performers)
         /\ Mentions(text, performers) \in SUBSET (1 .. Len(performers))
         /\ IsFiniteSet(Mentions(text, performers))
<1>1. DOMAIN performers = 1 .. Len(performers) /\ Len(performers) \in Nat
  OBVIOUS
<1>2. \A i \in DOMAIN performers : performers[i] \in AnyPerformer(W)
  BY <1>1
<1>3. \A i \in DOMAIN performers :
        scorePerformer(text, performers[i]) # 0 <=> Mentioned(text, performers[i])
  BY <1>2, ScoreType
<1>4. Mentions(text, performers) \in SUBSET (1 .. Len(performers))
  BY <1>1 DEF Mentions
<1>5. IsFiniteSet(1 .. Len(performers))
  BY <1>1, FS_Interval
<1> QED
  BY <1>3, <1>4, <1>5, FS_Subset, Zenon DEF Matching, Mentions

AheadOn(text, performers, S) == {x \in S \X S : Ahead(text, performers, x[1], x[2])}

(* Sorted puts the better before the worse, and each place once.           *)
LEMMA SortedSorts ==
  ASSUME NEW W, NEW text \in Seq(W), NEW performers \in Seq(AnyPerformer(W)),
         NEW S \in SUBSET (1 .. Len(performers)), IsFiniteSet(S)
  PROVE  /\ StrictOrder(S, AheadOn(text, performers, S))
         /\ Sorts(S, AheadOn(text, performers, S), Sorted(text, performers, S))
<1> DEFINE R == AheadOn(text, performers, S)
           order == Sorted(text, performers, S)
           rank(i) == Cardinality({j \in S : Ahead(text, performers, j, i)})
           s(i) == scorePerformer(text, performers[i])
           n(i) == performers[i].rank
<1>1. \A i \in S : s(i) \in Int /\ n(i) \in Int /\ i \in Int
  <2>1. \A i \in S : performers[i] \in AnyPerformer(W) /\ i \in Int
    OBVIOUS
  <2>2. \A p \in AnyPerformer(W) : p.rank \in Int
    BY DEF AnyPerformer
  <2>3. \A i \in S : s(i) \in Nat
    BY <2>1, ScoreType
  <2> QED
    BY <2>1, <2>2, <2>3
<1>2. \A i, j \in S : <<i, j>> \in R <=>
        \/ s(i) > s(j) \/ (s(i) = s(j) /\ n(i) < n(j))
        \/ ~(s(j) > s(i) \/ (s(j) = s(i) /\ n(j) < n(i))) /\ i < j
  BY DEF AheadOn, Ahead, Better
<1>3. StrictOrder(S, R)
  <2> HIDE DEF R, s, n
  <2>1. \A i \in S : <<i, i>> \notin R
    BY <1>1, <1>2
  <2>2. ASSUME NEW i \in S, NEW j \in S, NEW k \in S, <<i, j>> \in R, <<j, k>> \in R
        PROVE  <<i, k>> \in R
    <3> DEFINE A(a, b, x, y, v, w) ==
          \/ a > b \/ (a = b /\ x < y)
          \/ ~(b > a \/ (b = a /\ y < x)) /\ v < w
    <3>1. \A a, b, c, x, y, z, u, v, w \in Int :
             A(a, b, x, y, u, v) /\ A(b, c, y, z, v, w) => A(a, c, x, z, u, w)
      OBVIOUS
    <3>2. A(s(i), s(j), n(i), n(j), i, j) /\ A(s(j), s(k), n(j), n(k), j, k)
      BY <1>2, <2>2, Zenon
    <3>3. A(s(i), s(k), n(i), n(k), i, k)
      <4> HIDE DEF A
      <4> QED
        BY <1>1, <3>1, <3>2
    <3> QED
      BY <1>2, <3>3, Zenon
  <2>3. ASSUME NEW i \in S, NEW j \in S
        PROVE  i = j \/ <<i, j>> \in R \/ <<j, i>> \in R
    <3> DEFINE A(a, b, x, y, v, w) ==
          \/ a > b \/ (a = b /\ x < y)
          \/ ~(b > a \/ (b = a /\ y < x)) /\ v < w
    <3>1. \A a, b, x, y, v, w \in Int : v = w \/ A(a, b, x, y, v, w) \/ A(b, a, y, x, w, v)
      OBVIOUS
    <3>2. i = j \/ A(s(i), s(j), n(i), n(j), i, j) \/ A(s(j), s(i), n(j), n(i), j, i)
      <4> HIDE DEF A
      <4> QED
        BY <1>1, <3>1
    <3> QED
      BY <1>2, <3>2, Zenon
  <2> QED
    BY <2>1, <2>2, <2>3, Zenon DEF StrictOrder
<1>4. ByRank(S, R, order)
  <2>1. \A i \in S : Smaller(S, R, i) = {j \in S : Ahead(text, performers, j, i)}
    BY DEF Smaller, AheadOn
  <2>2. \A i \in S : Cardinality(Smaller(S, R, i)) = rank(i)
    BY <2>1
  <2>3. order = [m \in 1 .. Cardinality(S) |-> CHOOSE i \in S : rank(i) = m - 1]
    BY DEF Sorted, InOrder, Rank
  <2> HIDE DEF rank, R, order
  <2>4. order = [m \in 1 .. Cardinality(S) |-> order[m]]
    BY <2>3
  <2>5. \A m \in 1 .. Cardinality(S) : order[m] = CHOOSE i \in S : rank(i) = m - 1
    BY <2>3
  <2> QED
    BY <2>2, <2>4, <2>5, Zenon DEF ByRank, RankAt
<1> QED
  BY <1>3, <1>4, RankSorts

(* Nobody of them has ten words.                                           *)
FewWords(performers) ==
  \A p \in ToSet(performers) :
    IsFiniteSet(tokens(p)) /\ Cardinality(tokens(p)) < 10

(* Somebody with a name scores more than somebody with words only.         *)
LEMMA NameOverWords ==
  ASSUME NEW W, NEW text \in Seq(W), NEW p \in AnyPerformer(W), NEW q \in AnyPerformer(W),
         IsFiniteSet(tokens(q)), Cardinality(tokens(q)) < 10,
         InText(text, p.name), ~InText(text, q.name), AliasMatches(text, q) = {}
  PROVE  scorePerformer(text, p) > scorePerformer(text, q)
<1>1. scorePerformer(text, p) \in Nat /\ scorePerformer(text, p) >= 10
  BY ScoreType
<1>2. scorePerformer(text, q) = Cardinality(Overlap(text, q))
  BY ScoreType
<1>3. Overlap(text, q) \in SUBSET tokens(q)
  BY DEF Overlap
<1>4. /\ Cardinality(Overlap(text, q)) <= Cardinality(tokens(q))
      /\ Cardinality(tokens(q)) \in Nat /\ Cardinality(Overlap(text, q)) \in Nat
  <2>1. IsFiniteSet(Overlap(text, q)) /\ Cardinality(Overlap(text, q)) <= Cardinality(tokens(q))
    BY <1>3, FS_Subset
  <2> QED
    BY <2>1, FS_CardinalityType
<1> QED
  BY <1>1, <1>2, <1>4

(* The first k of a sorted list.                                           *)
FewerOf(L, k) == IF Len(L) < k THEN Len(L) ELSE k
FirstOf(S, L, k, m, C) ==
  /\ Len(L) = Cardinality(S) /\ Cardinality(S) \in Nat
  /\ m \in 0 .. Cardinality(S) /\ (m = 0 <=> S = {}) /\ (m < k => m = Cardinality(S))
  /\ C = [i \in 1 .. m |-> L[i]] /\ Len(C) = m /\ (C = <<>> <=> m = 0)
  /\ ToSet(C) = {L[i] : i \in 1 .. m} /\ Cardinality(ToSet(C)) = m

(* So is SubSeq of a sorted list. *)
LEMMA FirstSorted ==
  ASSUME NEW S, IsFiniteSet(S), NEW R, StrictOrder(S, R), NEW L, Sorts(S, R, L),
         NEW k \in Nat \ {0}
  PROVE  FirstOf(S, L, k, FewerOf(L, k), SubSeq(L, 1, FewerOf(L, k)))
<1> DEFINE n == Cardinality(S)
           m == FewerOf(L, k)
           C == SubSeq(L, 1, m)
<1>1. /\ n \in Nat /\ L \in [1 .. n -> S]
      /\ \A i, j \in 1 .. n : i < j <=> <<L[i], L[j]>> \in R
  BY Zenon DEF Sorts
<1>2. L \in Seq(S) /\ Len(L) = n
  BY <1>1
<1>3. m \in 0 .. n /\ (m = 0 <=> n = 0) /\ (m < k => m = n)
  BY <1>1, <1>2 DEF FewerOf
<1>4. n = 0 <=> S = {}
  BY FS_EmptySet
<1> HIDE DEF m, n
<1>5. C = [i \in 1 .. m |-> L[i]] /\ Len(C) = m /\ C \in Seq(S)
  BY <1>1, <1>2, <1>3
<1>6. ToSet(C) = {L[i] : i \in 1 .. m}
  BY <1>5 DEF ToSet
<1>7. \A i, j \in 1 .. m : L[i] = L[j] => i = j
  <2>1. \A i, j \in 1 .. m : i \in 1 .. n /\ j \in 1 .. n /\ (i < j \/ j < i \/ i = j)
    BY <1>1, <1>3
  <2>2. \A i \in 1 .. m : L[i] \in S
    BY <1>1, <2>1
  <2> QED
    BY <1>1, <2>1, <2>2, Zenon DEF StrictOrder
<1>8. Cardinality(ToSet(C)) = m
  <2>1. C \in Bijection(1 .. m, ToSet(C))
    <3> DEFINE T == ToSet(C)
    <3>1. C \in [1 .. m -> T] /\ \A t \in T : \E i \in 1 .. m : C[i] = t
      BY <1>5, <1>6
    <3>2. \A i, j \in 1 .. m : C[i] = C[j] => i = j
      BY <1>5, <1>7
    <3> HIDE DEF C, T
    <3> QED
      BY <3>1, <3>2 DEF Bijection, Injection, Surjection, IsInjective, T
  <2>2. m \in Nat /\ IsFiniteSet(1 .. m) /\ Cardinality(1 .. m) = m
    BY <1>1, <1>3, FS_Interval
  <2>3. ExistsBijection(1 .. m, ToSet(C))
    BY <2>1, Zenon DEF ExistsBijection
  <2> QED
    BY <2>2, <2>3, FS_Bijection
<1>9. C = <<>> <=> m = 0
  <2>1. \A c \in Seq(S) : c = <<>> <=> Len(c) = 0
    OBVIOUS
  <2> HIDE DEF C
  <2> QED
    BY <1>5, <2>1
<1> QED
  BY <1>1, <1>2, <1>3, <1>4, <1>5, <1>6, <1>8, <1>9, Zenon DEF m, n, FirstOf

(* What is offered of one performer is listed, and what is listed and not  *)
(* offered is further behind: order is an order of places, m how many of   *)
(* them are offered.                                                       *)
Enumerates(S, n, order) ==
  /\ n \in Nat /\ order \in [1 .. n -> S]
  /\ \A i \in S : \E k \in 1 .. n : order[k] = i
  /\ \A i, j \in 1 .. n : order[i] = order[j] => i = j
Offered(performers, order, m) == [k \in 1 .. m |-> performers[order[k]]]
Behind(performers, S, n, order, m, p) ==
  \/ \E i \in DOMAIN performers : performers[i] = p /\ i \notin S
  \/ \E k \in (m + 1) .. n : performers[order[k]] = p

LEMMA OfferedListed ==
  ASSUME NEW P, NEW performers \in Seq(P), NEW S \in SUBSET (1 .. Len(performers)),
         NEW n, NEW order, Enumerates(S, n, order), NEW m \in 0 .. n, NEW p
  PROVE  LET t == Cardinality(Places(Offered(performers, order, m), p))
             l == Cardinality(Places(performers, p))
         IN  t <= l /\ (t < l => Behind(performers, S, n, order, m, p))
<1> DEFINE T == Places(performers, p)
           list == Offered(performers, order, m)
           U == Places(list, p)
           f == [k \in U |-> order[k]]
<1>0. /\ n \in Nat /\ order \in [1 .. n -> S]
      /\ \A i \in S : \E k \in 1 .. n : order[k] = i
      /\ \A i, j \in 1 .. n : order[i] = order[j] => i = j
  BY Zenon DEF Enumerates
<1>1. DOMAIN performers = 1 .. Len(performers) /\ Len(performers) \in Nat
  OBVIOUS
<1>2. DOMAIN list = 1 .. m /\ \A k \in 1 .. m : k \in 1 .. n /\ list[k] = performers[order[k]]
  BY <1>0 DEF Offered
<1> HIDE DEF list
<1>3. IsFiniteSet(T)
  <2>1. T \in SUBSET (1 .. Len(performers))
    BY <1>1 DEF Places
  <2>2. IsFiniteSet(1 .. Len(performers))
    BY <1>1, FS_Interval
  <2> QED
    BY <2>1, <2>2, FS_Subset, Zenon
<1>4. \A k \in U : k \in 1 .. m /\ k \in 1 .. n /\ order[k] \in T
  BY <1>0, <1>1, <1>2 DEF Places
<1> HIDE DEF T, U
<1>5. f \in Injection(U, T)
  <2>1. f \in [U -> T]
    BY <1>4
  <2>2. \A i, j \in U : f[i] = f[j] => i = j
    BY <1>0, <1>4
  <2> HIDE DEF f
  <2> QED
    BY <2>1, <2>2 DEF Injection, IsInjective
<1>6. /\ Cardinality(U) <= Cardinality(T)
      /\ Cardinality(U) = Cardinality(T) <=> f \in Surjection(U, T)
  BY <1>3, <1>5, FS_Injection
<1>7. ASSUME Cardinality(U) < Cardinality(T)
      PROVE  Behind(performers, S, n, order, m, p)
  <2>1. Cardinality(U) \in Nat /\ Cardinality(T) \in Nat
    <3>1. IsFiniteSet(U)
      BY <1>3, <1>5, FS_Injection
    <3> QED
      BY <1>3, <3>1, FS_CardinalityType
  <2>2. f \notin Surjection(U, T)
    BY <1>6, <1>7, <2>1
  <2>3. PICK i \in T : \A k \in U : f[k] # i
    BY <1>5, <2>2 DEF Injection, Surjection
  <2>4. i \in DOMAIN performers /\ performers[i] = p
    BY DEF T, Places
  <2>5. CASE i \in S
    <3>1. PICK k \in 1 .. n : order[k] = i
      BY <1>0, <2>5
    <3>2. k \notin 1 .. m
      <4> SUFFICES ASSUME k \in 1 .. m PROVE FALSE
        OBVIOUS
      <4>1. list[k] = p
        BY <1>2, <2>4, <3>1
      <4>2. k \in U
        BY <1>2, <4>1 DEF U, Places
      <4> QED
        BY <2>3, <3>1, <4>2
    <3>3. k \in (m + 1) .. n
      BY <1>0, <3>2
    <3> QED
      BY <2>4, <3>1, <3>3 DEF Behind
  <2> QED
    BY <2>4, <2>5 DEF Behind
<1> QED
  BY <1>6, <1>7 DEF T, U, list

(* The best are offered, in their order, for all performers and texts, two *)
(* performers of one name and one listed twice included.                   *)
THEOREM RankingRight ==
  ASSUME NEW W, NEW text \in Seq(W), NEW performers \in Seq(AnyPerformer(W)),
         FewWords(performers)
  PROVE  RankedRight(text, performers)
<1> DEFINE all == Mentions(text, performers)
<1>1. /\ Matching(text, performers) = all /\ all \in SUBSET (1 .. Len(performers))
      /\ IsFiniteSet(all) /\ DOMAIN performers = 1 .. Len(performers)
  BY MatchingPlaces
<1> DEFINE R == AheadOn(text, performers, all)
           L == Sorted(text, performers, all)
           n == Cardinality(all)
           m == FewerOf(L, MaxCandidates)
           C == SubSeq(L, 1, m)
           item == scoreItem(text, performers)
           list == [k \in 1 .. m |-> performers[L[k]]]
           s(i) == scorePerformer(text, performers[i])
<1>2. item = Item(text, performers, C)
  BY <1>1 DEF scoreItem, Best, FewerOf
<1>3. \A i \in all : /\ s(i) \in Nat /\ performers[i] \in AnyPerformer(W)
                     /\ Mentioned(text, performers[i]) /\ performers[i] \in ToSet(performers)
  <2>1. \A i \in all : i \in DOMAIN performers /\ performers[i] \in AnyPerformer(W)
                       /\ Mentioned(text, performers[i])
    BY <1>1 DEF Mentions
  <2>2. \A i \in all : performers[i] \in ToSet(performers)
    BY <2>1 DEF ToSet
  <2> QED
    BY <2>1, <2>2, ScoreType
<1>4. \A i \in DOMAIN performers : Mentioned(text, performers[i]) <=> i \in all
  BY DEF Mentions
<1> HIDE DEF all, L, item
<1>5. StrictOrder(all, R) /\ Sorts(all, R, L)
  BY <1>1, SortedSorts DEF L
<1>6. /\ Len(L) = n /\ n \in Nat /\ m \in 0 .. n /\ (m = 0 <=> all = {})
      /\ m < MaxCandidates => m = n
      /\ C = [i \in 1 .. m |-> L[i]] /\ Len(C) = m /\ (C = <<>> <=> m = 0)
  <2> HIDE DEF R
  <2>1. FirstOf(all, L, MaxCandidates, m, C)
    BY <1>1, <1>5, CandidatesAssumption, FirstSorted
  <2> QED
    BY <2>1, Zenon DEF FirstOf
<1>7. m = IF n < MaxCandidates THEN n ELSE MaxCandidates
  BY <1>6 DEF FewerOf
<1>8. /\ L \in [1 .. n -> all]
      /\ \A i \in all : \E k \in 1 .. n : L[k] = i
      /\ \A i, j \in 1 .. n : i < j <=> <<L[i], L[j]>> \in R
  BY <1>5, Zenon DEF Sorts
<1>9. \A i, j \in 1 .. n : i < j => s(L[j]) <= s(L[i])
  <2>1. ASSUME NEW i \in 1 .. n, NEW j \in 1 .. n, i < j
        PROVE  s(L[j]) <= s(L[i])
    <3>1. L[i] \in all /\ L[j] \in all
      BY <1>8
    <3>2. Ahead(text, performers, L[i], L[j])
      BY <1>8, <2>1 DEF AheadOn
    <3>3. s(L[i]) > s(L[j]) \/ s(L[i]) = s(L[j]) \/ ~(s(L[j]) > s(L[i]))
      BY <3>2 DEF Ahead, Better
    <3>4. s(L[i]) \in Nat /\ s(L[j]) \in Nat
      BY <1>3, <3>1
    <3> HIDE DEF s
    <3> QED
      BY <3>3, <3>4
  <2> QED
    BY <2>1
<1>10. \A i, j \in 1 .. n : L[i] = L[j] => i = j
  <2>1. \A i, j \in 1 .. n : i < j \/ j < i \/ i = j
    BY <1>6
  <2>2. \A i \in 1 .. n : L[i] \in all
    BY <1>8
  <2> HIDE DEF R, n
  <2> QED
    BY <1>5, <1>8, <2>1, <2>2, Zenon DEF StrictOrder
<1> HIDE DEF m, n, C, R, s
<1>11. /\ item.candidates = list
       /\ item.status = IF C = <<>> THEN "no_candidate" ELSE "needs_review"
       /\ item.bestScore = IF C = <<>> THEN 0 ELSE s(C[1])
  <2>1. [k \in DOMAIN C |-> performers[C[k]]] = list
    BY <1>6
  <2> HIDE DEF list
  <2> QED
    BY <1>2, <2>1 DEF Item, s
<1>12. /\ DOMAIN list = 1 .. m /\ Len(list) = m
       /\ \A k \in 1 .. m : k \in 1 .. n /\ L[k] \in all /\ list[k] = performers[L[k]]
       /\ ToSet(list) = {performers[L[k]] : k \in 1 .. m}
  <2>1. m \in Nat /\ \A k \in 1 .. m : k \in 1 .. n
    BY <1>6
  <2>2. DOMAIN list = 1 .. m /\ Len(list) = m
    BY <2>1
  <2> QED
    BY <1>8, <2>1, <2>2 DEF ToSet
<1>13. ASSUME NEW p
       PROVE  /\ Cardinality(Places(list, p)) <= Cardinality(Places(performers, p))
              /\ Cardinality(Places(list, p)) < Cardinality(Places(performers, p)) =>
                   Behind(performers, all, n, L, m, p)
  <2>1. list = Offered(performers, L, m)
    BY DEF Offered
  <2>2. Enumerates(all, n, L)
    BY <1>6, <1>8, <1>10, Zenon DEF Enumerates
  <2> HIDE DEF list
  <2> QED
    BY <1>1, <1>6, <2>1, <2>2, OfferedListed
<1>14. item.status = "needs_review" <=> all # {}
  BY <1>6, <1>11
<1>15. \A p \in ToSet(list) : Mentioned(text, p)
  BY <1>3, <1>12
<1>16. \A i, j \in 1 .. m : i < j => s(L[j]) <= s(L[i])
  BY <1>9, <1>12
<1>17. ASSUME NEW k \in 1 .. m PROVE s(L[k]) <= item.bestScore
  <2>1. 1 \in 1 .. m /\ 1 \in 1 .. n /\ m # 0 /\ (k = 1 \/ 1 < k)
    BY <1>6
  <2>2. item.bestScore = s(L[1])
    <3>1. C[1] = L[1]
      BY <1>6, <2>1
    <3> QED
      BY <1>6, <1>11, <2>1, <3>1, Zenon
  <2>3. s(L[1]) \in Nat /\ s(L[1]) <= s(L[1])
    <3>1. L[1] \in all
      BY <1>12, <2>1
    <3>2. \A a \in Nat : a <= a
      OBVIOUS
    <3> QED
      BY <1>3, <3>1, <3>2 DEF s
  <2> QED
    BY <1>16, <2>1, <2>2, <2>3, Zenon
<1>18. ASSUME NEW i \in all, NEW k \in 1 .. m,
              Cardinality(Places(list, performers[i]))
                < Cardinality(Places(performers, performers[i]))
       PROVE  s(i) <= s(L[k])
  <2>1. \A j \in DOMAIN performers : performers[j] = performers[i] => j \in all
    BY <1>3, <1>4
  <2>2. PICK j \in (m + 1) .. n : performers[L[j]] = performers[i]
    BY <1>13, <1>18, <2>1 DEF Behind
  <2>3. j \in 1 .. n /\ k \in 1 .. n /\ k < j
    BY <1>6, <1>12
  <2>4. s(L[j]) <= s(L[k])
    BY <1>9, <2>3
  <2> QED
    BY <2>2, <2>4 DEF s
<1>19. ASSUME NEW i \in 1 .. m, NEW j \in 1 .. m,
              InText(text, list[i].name), ~InText(text, list[j].name),
              AliasMatches(text, list[j]) = {}
       PROVE  i < j
  <2>1. L[i] \in all /\ L[j] \in all
    BY <1>12
  <2>2. s(L[i]) > s(L[j])
    <3>1. \A p, q : p = performers[L[i]] /\ q = performers[L[j]]
             /\ InText(text, p.name) /\ ~InText(text, q.name) /\ AliasMatches(text, q) = {}
             => scorePerformer(text, p) > scorePerformer(text, q)
      BY <1>3, <2>1, NameOverWords DEF FewWords
    <3> QED
      BY <1>12, <1>19, <3>1 DEF s
  <2>3. s(L[i]) \in Nat /\ s(L[j]) \in Nat
    BY <1>3, <2>1 DEF s
  <2>4. i # j /\ ~(j < i)
    BY <1>16, <2>2, <2>3
  <2> QED
    BY <1>6, <2>4
<1> HIDE DEF list
<1>20. \A i, j \in DOMAIN list :
         i < j => scorePerformer(text, list[j]) <= scorePerformer(text, list[i])
  BY <1>12, <1>16 DEF s
<1>21. \A p \in ToSet(list) : scorePerformer(text, p) <= item.bestScore
  BY <1>12, <1>17 DEF s
<1>22. \A i \in all, p \in ToSet(list) :
         Cardinality(Places(list, performers[i])) < Cardinality(Places(performers, performers[i]))
           => scorePerformer(text, performers[i]) <= scorePerformer(text, p)
  BY <1>12, <1>18 DEF s
<1>23. \A i, j \in DOMAIN list :
         /\ InText(text, list[i].name) /\ ~InText(text, list[j].name)
         /\ AliasMatches(text, list[j]) = {}
         => i < j
  BY <1>12, <1>19, Zenon
<1>24. all = {i \in DOMAIN performers : Mentioned(text, performers[i])}
  BY DEF all, Mentions
<1>25. Len(list) = IF Cardinality(all) < MaxCandidates THEN Cardinality(all) ELSE MaxCandidates
  BY <1>7, <1>12 DEF n
<1> QED
  BY <1>11, <1>13, <1>14, <1>15, <1>20, <1>21, <1>22, <1>23, <1>24, <1>25, Zenon
     DEF RankedRight, item

-----------------------------------------------------------------------------
(* What the runs draw are such inputs, whatever the bounds.                *)
LEMMA UpToLists ==
  ASSUME NEW n, NEW S, NEW x \in UpTo(n, S)
  PROVE  x \in Seq(S)
<1>1. PICK m \in 0 .. n : x \in [1 .. m -> S]
  BY DEF UpTo
<1>2. m \in Nat
  BY <1>1
<1> QED
  BY <1>1, <1>2

(* A list over a set is one over a larger set. *)
LEMMA SeqWithin ==
  ASSUME NEW S, NEW T, S \subseteq T, NEW x \in Seq(S)
  PROVE  x \in Seq(T)
OBVIOUS

(* The paths start at the root. *)
LEMMA PathsAbsolute == MCPath \subseteq Absolute
<1>1. ASSUME NEW p \in UpTo(MaxLength, {45, Separator, 97}), Len(p) > 1, p[1] = Separator
      PROVE  p \in Absolute
  <2>1. p \in Seq({45, Separator, 97}) /\ Separator \in Int
    BY UpToLists DEF Separator
  <2>2. p \in Seq(Int)
    BY <2>1
  <2> QED
    BY <1>1, <2>2 DEF Absolute
<1>2. <<Separator>> \in Absolute
  BY DEF Absolute, Separator
<1> QED
  BY <1>1, <1>2 DEF MCPath

(* Settings and answers. *)
LEMMA PostScansAndAnswers == MCPostScan \subseteq AnyPostScan /\ MCAnswer \subseteq AnyAnswer
<1>1. ASSUME NEW c \in MCPostScan PROVE c \in AnyPostScan
  <2>1. c.endpoints \in Seq({1})
    BY UpToLists DEF MCPostScan
  <2>2. c.endpoints \in Seq(Int)
    BY <2>1
  <2>3. <<>> \in Seq(Int)
    OBVIOUS
  <2>4. c = [indexes |-> <<>>, endpoints |-> c.endpoints, scrapers |-> <<>>]
    BY DEF MCPostScan
  <2> DEFINE L == Seq(Int)
  <2>5. \A e, f \in L : [indexes |-> f, endpoints |-> e, scrapers |-> f]
                          \in [indexes : L, endpoints : L, scrapers : L]
    <3> HIDE DEF L
    <3> QED
      OBVIOUS
  <2> QED
    BY <2>2, <2>3, <2>4, <2>5, Zenon DEF AnyPostScan
<1>2. ASSUME NEW a \in MCAnswer PROVE a \in AnyAnswer
  <2>1. /\ a.defaults \in Seq([endpoint : {0, 1}, scraper : {0, 2}])
        /\ a.boxes \in Seq({0, 1})
        /\ a.scrapers \in Seq([name : {1, 2}, id : {0, 1, 2}, fragment : BOOLEAN])
    BY UpToLists DEF MCAnswer
  <2>2. /\ [endpoint : {0, 1}, scraper : {0, 2}] \subseteq AnyDefault
        /\ [name : {1, 2}, id : {0, 1, 2}, fragment : BOOLEAN] \subseteq AnyScraper
    BY DEF AnyDefault, AnyScraper
  <2>3. a.defaults \in Seq(AnyDefault)
    BY <2>1, <2>2, SeqWithin, Zenon
  <2>4. a.boxes \in Seq(Int)
    BY <2>1
  <2>5. a.scrapers \in Seq(AnyScraper)
    BY <2>1, <2>2, SeqWithin, Zenon
  <2> QED
    BY <2>3, <2>4, <2>5 DEF MCAnswer, AnyAnswer
<1> QED
  BY <1>1, <1>2

Words == {"ann", "bo", "bea"}

(* There are fewer than ten words. *)
LEMMA FewerThanTen ==
  ASSUME NEW T \in SUBSET Words
  PROVE  IsFiniteSet(T) /\ Cardinality(T) < 10
<1> DEFINE f == <<"ann", "bo", "bea">>
<1>1. f \in Surjection(1 .. 3, Words)
  BY DEF Surjection, Words
<1>2. IsFiniteSet(1 .. 3) /\ Cardinality(1 .. 3) = 3
  <2>1. \A n \in Nat : IsFiniteSet(1 .. n) /\ Cardinality(1 .. n) = n
    BY FS_Interval
  <2> QED
    BY <2>1
<1>3. IsFiniteSet(Words) /\ Cardinality(Words) <= 3
  <2> HIDE DEF f
  <2> QED
    BY <1>1, <1>2, FS_Surjection
<1>4. IsFiniteSet(T) /\ Cardinality(T) <= Cardinality(Words)
  BY <1>3, FS_Subset
<1> QED
  BY <1>3, <1>4, FS_CardinalityType

(* Numbered performers are of the right type, and have few words.          *)
LEMMA PerformersDrawn ==
  ASSUME NEW list \in UpTo(3, MCPerformer)
  PROVE  /\ Numbered(list) \in Seq(AnyPerformer(Words))
         /\ FewWords(Numbered(list))
<1> DEFINE numbered == Numbered(list)
<1>1. list \in Seq(MCPerformer) /\ DOMAIN list = 1 .. Len(list) /\ Len(list) \in Nat
  BY UpToLists
<1>2. \A p \in MCPerformer : p.name \in Seq(Words) /\ p.aliases \in Seq(Seq(Words))
  <2> DEFINE L == Seq(Words)
  <2>1. "ann" \in Words /\ "bo" \in Words /\ "bea" \in Words
    BY DEF Words
  <2>2. <<>> \in L /\ <<"ann">> \in L /\ <<"bo">> \in L /\ <<"ann", "bo">> \in L /\ <<"bea">> \in L
    BY <2>1, ShortLists, Zenon
  <2>3. /\ <<>> \in Seq(L) /\ <<<<"bea">>>> \in Seq(L)
        /\ <<<<"ann">>, <<"ann">>>> \in Seq(L)
    <3> HIDE DEF L
    <3> QED
      BY <2>2, ShortLists, Zenon
  <2>4. ASSUME NEW p \in MCPerformer PROVE p.name \in L /\ p.aliases \in Seq(L)
    <3>1. /\ p.name \in {<<>>, <<"ann">>, <<"bo">>, <<"ann", "bo">>}
          /\ p.aliases \in {<<>>, <<<<"bea">>>>, <<<<"ann">>, <<"ann">>>>}
      BY <2>4 DEF MCPerformer
    <3> HIDE DEF L
    <3> QED
      BY <2>2, <2>3, <3>1, Zenon
  <2> QED
    BY <2>4
<1>3. numbered = [i \in DOMAIN list |->
                    [rank |-> i, name |-> list[i].name, aliases |-> list[i].aliases]]
  BY DEF Numbered
<1> HIDE DEF numbered
<1>4. \A i \in 1 .. Len(list) :
        /\ numbered[i].rank = i
        /\ numbered[i].name = list[i].name /\ numbered[i].aliases = list[i].aliases
        /\ numbered[i] \in AnyPerformer(Words)
  BY <1>1, <1>2, <1>3 DEF AnyPerformer
<1>5. numbered \in Seq(AnyPerformer(Words)) /\ DOMAIN numbered = 1 .. Len(list)
  BY <1>1, <1>3, <1>4
<1>6. ToSet(numbered) = {numbered[i] : i \in 1 .. Len(list)}
  BY <1>5 DEF ToSet
<1>7. FewWords(numbered)
  <2>1. ASSUME NEW i \in 1 .. Len(list) PROVE tokens(numbered[i]) \subseteq Words
    <3>1. list[i] \in MCPerformer
      BY <1>1
    <3>2. ToSet(list[i].name) \subseteq Words
      BY <3>1 DEF MCPerformer, ToSet, Words
    <3>3. \A j \in DOMAIN list[i].aliases : ToSet(list[i].aliases[j]) \subseteq Words
      BY <3>1 DEF MCPerformer, ToSet, Words
    <3> QED
      BY <1>4, <3>2, <3>3 DEF tokens
  <2> QED
    BY <1>6, <2>1, FewerThanTen DEF FewWords
<1> QED
  BY <1>5, <1>7 DEF numbered

(* So are performers of whom one is listed again.                          *)
LEMMA ListedAgainDrawn ==
  ASSUME NEW list \in UpTo(3, MCPerformer), NEW again \in ListedAgain(Numbered(list))
  PROVE  again \in Seq(AnyPerformer(Words)) /\ FewWords(again)
<1> DEFINE l == Numbered(list)
           P == AnyPerformer(Words)
<1>1. l \in Seq(P) /\ FewWords(l)
  BY PerformersDrawn
<1>2. again = l \/ \E i \in DOMAIN l : again = Append(l, l[i])
  BY DEF ListedAgain
<1> HIDE DEF l, P
<1>3. ASSUME NEW i \in DOMAIN l, again = Append(l, l[i])
      PROVE  again \in Seq(P) /\ ToSet(again) = ToSet(l)
  <2>1. Len(l) \in Nat /\ DOMAIN l = 1 .. Len(l) /\ l[i] \in P
    BY <1>1
  <2>2. /\ again \in Seq(P) /\ DOMAIN again = 1 .. Len(l) + 1
        /\ \A k \in 1 .. Len(l) : again[k] = l[k] /\ k \in 1 .. Len(l) + 1
        /\ again[Len(l) + 1] = l[i]
        /\ \A k \in 1 .. Len(l) + 1 : k \in 1 .. Len(l) \/ k = Len(l) + 1
    BY <1>1, <1>3, <2>1
  <2>3. \A k \in DOMAIN again : again[k] \in ToSet(l)
    BY <2>1, <2>2 DEF ToSet
  <2>4. \A k \in DOMAIN l : l[k] \in ToSet(again)
    BY <2>1, <2>2 DEF ToSet
  <2> QED
    BY <2>2, <2>3, <2>4 DEF ToSet
<1> QED
  BY <1>1, <1>2, <1>3 DEF FewWords, P

-----------------------------------------------------------------------------
(* What may have been drawn, with the properties of each kind.             *)
DirsInput == [kind : {"dirs"}, dirs : {d \in SUBSET MCPath : IsFiniteSet(d)}]
BackoffInput == [kind : {"backoff"}, max : 1 .. MaxDuration]
WaitInput ==
  [kind : {"wait"}, zone : Zones, now : 0 .. 2 * Day + 2, daily : 0 .. Day - 1]
LayersInput ==
  [kind : {"layers"}, of : {"text", "scalar", "list"}, file : {Unset, "file"},
   dotenv : {Unset, Blank, Bad, "dotenv"}, env : {Unset, Blank, Bad, "env"}]
TasksInput ==
  [kind : {"tasks"}, tasks : UpTo(4, {"identify", "auto_tag", "clean", "generate"})]
ConfigInput == [kind : {"config"}, config : MCConfig]
SourcesInput == [kind : {"sources"}, cfg : MCPostScan, answer : MCAnswer]
ItemInput ==
  [kind : {"item"}, text : UpTo(2, {"ann", "bo", "bea"}),
   performers : UNION {ListedAgain(Numbered(list)) : list \in UpTo(3, MCPerformer)}]

(* InputDrawn: the inductive invariant.                                    *)
InputDrawn ==
  \/ input = None
  \/ input \in DirsInput \/ input \in BackoffInput \/ input \in WaitInput
  \/ input \in LayersInput \/ input \in TasksInput \/ input \in ConfigInput
  \/ input \in SourcesInput \/ input \in ItemInput

(* An input of a kind is one of its inputs.                                *)
LEMMA KindTells ==
  ASSUME InputDrawn
  PROVE  /\ Drawn("dirs") => input \in DirsInput
         /\ Drawn("backoff") => input \in BackoffInput
         /\ Drawn("wait") => input \in WaitInput
         /\ Drawn("layers") => input \in LayersInput
         /\ Drawn("tasks") => input \in TasksInput
         /\ Drawn("config") => input \in ConfigInput
         /\ Drawn("sources") => input \in SourcesInput
         /\ Drawn("item") => input \in ItemInput
<1>1. /\ None.kind = "none" /\ \A x \in DirsInput : x.kind = "dirs"
      /\ \A x \in BackoffInput : x.kind = "backoff"
      /\ \A x \in WaitInput : x.kind = "wait"
      /\ \A x \in LayersInput : x.kind = "layers"
      /\ \A x \in TasksInput : x.kind = "tasks"
      /\ \A x \in ConfigInput : x.kind = "config"
      /\ \A x \in SourcesInput : x.kind = "sources"
      /\ \A x \in ItemInput : x.kind = "item"
  BY DEF None, DirsInput, BackoffInput, WaitInput, LayersInput, TasksInput, ConfigInput,
         SourcesInput, ItemInput
<1> QED
  BY <1>1 DEF InputDrawn, Drawn

(* Every step draws an input, or adds a directory to one.                  *)
LEMMA InputStep ==
  ASSUME InputDrawn, [Next]_input
  PROVE  InputDrawn'
<1>1. CASE DrawDirs
  <2>1. CASE Draw([kind : {"dirs"}, dirs : {{}}])
    <3>1. input' \in DirsInput
      <4>1. IsFiniteSet({})
        BY FS_EmptySet
      <4> QED
        BY <2>1, <4>1 DEF Draw, DirsInput
    <3> QED
      BY <3>1 DEF InputDrawn
  <2>2. ASSUME input.kind = "dirs", NEW p \in MCPath \ input.dirs,
               input' = [input EXCEPT !.dirs = @ \cup {p}]
        PROVE  InputDrawn'
    <3>1. input \in DirsInput
      BY <2>2, KindTells DEF Drawn
    <3>2. input.dirs \in SUBSET MCPath /\ IsFiniteSet(input.dirs)
      BY <3>1 DEF DirsInput
    <3>3. input.dirs \cup {p} \in SUBSET MCPath /\ IsFiniteSet(input.dirs \cup {p})
      BY <3>2, FS_AddElement
    <3>4. input' \in DirsInput
      BY <2>2, <3>1, <3>3 DEF DirsInput
    <3> QED
      BY <3>4 DEF InputDrawn
  <2> QED
    BY <1>1, <2>1, <2>2 DEF DrawDirs
<1>2. CASE DrawBackoff
  BY <1>2 DEF DrawBackoff, Draw, InputDrawn, BackoffInput
<1>3. CASE DrawWait
  BY <1>3 DEF DrawWait, Draw, InputDrawn, WaitInput
<1>4. CASE DrawLayers
  BY <1>4 DEF DrawLayers, Draw, InputDrawn, LayersInput
<1>5. CASE DrawTasks
  BY <1>5 DEF DrawTasks, Draw, InputDrawn, TasksInput
<1>6. CASE DrawConfig
  BY <1>6 DEF DrawConfig, Draw, InputDrawn, ConfigInput
<1>7. CASE DrawSources
  BY <1>7 DEF DrawSources, Draw, InputDrawn, SourcesInput
<1>8. CASE DrawItem
  BY <1>8 DEF DrawItem, Draw, InputDrawn, ItemInput
<1>9. CASE UNCHANGED input
  BY <1>9 DEF InputDrawn
<1> QED
  BY <1>1, <1>2, <1>3, <1>4, <1>5, <1>6, <1>7, <1>8, <1>9 DEF Next

(* Every reachable input is one that MCDecisions draws. *)
THEOREM InputsDrawn == Spec => []InputDrawn
<1>1. Init => InputDrawn
  BY DEF Init, InputDrawn
<1>2. InputDrawn /\ [Next]_input => InputDrawn'
  BY InputStep
<1> QED
  BY <1>1, <1>2, PTL DEF Spec

-----------------------------------------------------------------------------
(* The invariants of the runs, for every value of the constants.           *)

(* No changed directory is missed by a recursive scan of the targets       *)
(* (detect.go:141-168).                                                    *)
THEOREM EveryChangeTargeted == Spec => []EveryChangeIsTargeted
<1>1. InputDrawn => EveryChangeIsTargeted
  <2> SUFFICES ASSUME InputDrawn, Drawn("dirs") PROVE ChangesTargeted(input.dirs)
    BY DEF EveryChangeIsTargeted
  <2>1. input.dirs \in SUBSET MCPath /\ IsFiniteSet(input.dirs)
    BY KindTells DEF DirsInput
  <2> QED
    BY <2>1, PathsAbsolute, CoalescingRight
<1> QED
  BY <1>1, InputsDrawn, PTL

(* Coalescing leaves a target inside another one only past a sibling that  *)
(* sorts between them (detect.go:147-154).                                 *)
THEOREM RedundantPastSiblings == Spec => []RedundantOnlyPastASibling
<1>1. InputDrawn => RedundantOnlyPastASibling
  <2> SUFFICES ASSUME InputDrawn, Drawn("dirs") PROVE RedundancyExplained(input.dirs)
    BY DEF RedundantOnlyPastASibling
  <2>1. input.dirs \in SUBSET MCPath /\ IsFiniteSet(input.dirs)
    BY KindTells DEF DirsInput
  <2> QED
    BY <2>1, PathsAbsolute, CoalescingRight
<1> QED
  BY <1>1, InputsDrawn, PTL

(* The backoff grows up to the largest one, exactly when that leaves room  *)
(* for a doubling in a time.Duration (retry.go:65-74).                     *)
THEOREM BackoffsDouble == Spec => []BackoffDoubles
<1>1. InputDrawn => BackoffDoubles
  <2> SUFFICES ASSUME InputDrawn, Drawn("backoff") PROVE BackoffGrows(input.max, 7)
    BY DEF BackoffDoubles
  <2>1. input.max \in 1 .. MaxDuration
    BY KindTells DEF BackoffInput
  <2> QED
    BY <2>1, BackoffRight
<1> QED
  BY <1>1, InputsDrawn, PTL

(* A daily run comes at the daily time, off by no more than the clock of   *)
(* the zone changes (scheduler.go:41-70).                                  *)
THEOREM DailyRunsLand == Spec => []DailyRunLands
<1>1. InputDrawn => DailyRunLands
  <2> SUFFICES ASSUME InputDrawn, Drawn("wait")
               PROVE  WaitLands(input.zone, input.now, input.daily)
    BY DEF DailyRunLands
  <2>1. input.zone \in Zones /\ input.now \in Int /\ input.daily \in 0 .. Day - 1
    BY KindTells DEF WaitInput
  <2>2. input.zone \in [at : Int, before : Int, after : Int]
    BY <2>1, InputAssumption
  <2> QED
    BY <2>1, <2>2, WaitRight
<1> QED
  BY <1>1, InputsDrawn, PTL

(* The environment goes before .env, .env before the file, the file before *)
(* the default (config.go:66-82, 194-282).                                 *)
THEOREM PrecedenceAlwaysHolds == Spec => []PrecedenceHolds
<1>1. PrecedenceHolds
  BY LayersRight DEF PrecedenceHolds
<1> QED
  BY <1>1, PTL

(* The post-scan tasks run in the order identify, auto_tag, clean, each    *)
(* once (post_scan.go:26-71).                                              *)
THEOREM TasksAlwaysInOrder == Spec => []TasksInOrder
<1>1. InputDrawn => TasksInOrder
  <2> SUFFICES ASSUME InputDrawn, Drawn("tasks") PROVE TasksOrdered(input.tasks)
    BY DEF TasksInOrder
  <2>1. input.tasks \in UpTo(4, {"identify", "auto_tag", "clean", "generate"})
    BY KindTells DEF TasksInput
  <2>2. input.tasks \in Seq({"identify", "auto_tag", "clean", "generate"})
    BY <2>1, UpToLists
  <2> QED
    BY <2>2, TasksRight
<1> QED
  BY <1>1, InputsDrawn, PTL

(* With what Validate accepts the program can wait, walk, send and back    *)
(* off as AcceptedIsRunnable says (config.go:138-192).                     *)
THEOREM AcceptedCanRun == Spec => []AcceptedIsRunnable
<1>1. InputDrawn => AcceptedIsRunnable
  <2> DEFINE c == input.config
             X == {"clean", "identify", "generate"}
             N == 1 .. c.attempts
  <2> SUFFICES ASSUME InputDrawn, Drawn("config"), Validate(c)
               PROVE  /\ CanWait(c)
                      /\ c.url # "relative" => CanWalk(c)
                      /\ c.dry_run \/ HasAddress(c) =>
                           \A t \in ToSet(PostScanTasks(c.tasks)) : CanRun(c, t)
                      /\ c.from_stash /\ HasAddress(c) => CanScan(c)
                      /\ c.max <= MaxDuration \div 2 =>
                           \A n \in N : Grows(c.initial, c.max, n)
    BY DEF AcceptedIsRunnable
  <2>1. c \in MCConfig
    BY KindTells DEF ConfigInput
  <2>2. /\ c.from_stash \in BOOLEAN /\ c.key \in BOOLEAN /\ c.dry_run \in BOOLEAN
        /\ c.url \in {"none", "relative", "absolute"}
        /\ c.sources \in BOOLEAN /\ c.roots \in {"none", "some", "blank"}
        /\ c.interval \in Int /\ c.attempts \in Int /\ c.initial \in Int /\ c.max \in Int
    BY <2>1 DEF MCConfig
  <2>3. c.tasks \in {<<>>, <<"clean">>, <<"clean", "identify">>, <<"generate">>}
    BY <2>1 DEF MCConfig
  <2>4. c.tasks \in Seq(X)
    <3>1. /\ <<>> \in Seq(X) /\ <<"clean">> \in Seq(X) /\ <<"generate">> \in Seq(X)
          /\ <<"clean", "identify">> \in Seq(X)
      BY ShortLists
    <3> QED
      BY <2>3, <3>1, Zenon
  <2> HIDE DEF X, c
  <2> QED
    BY <2>2, <2>4, ValidatedRuns
<1> QED
  BY <1>1, InputsDrawn, PTL

(* The sources of an identify task are the settings' own, or those that    *)
(* the documentation promises (README.md:173, identify_sources.go:12-142). *)
THEOREM SourcesAlwaysDiscovered == Spec => []SourcesDiscovered
<1>1. InputDrawn => SourcesDiscovered
  <2> SUFFICES ASSUME InputDrawn, Drawn("sources")
               PROVE  SourcesAsDocumented(input.cfg, input.answer)
    BY DEF SourcesDiscovered
  <2>1. input.cfg \in MCPostScan /\ input.answer \in MCAnswer
    BY KindTells DEF SourcesInput
  <2> QED
    BY <2>1, PostScansAndAnswers, SourcesRight
<1> QED
  BY <1>1, InputsDrawn, PTL

(* The reviewer offers the best candidates, and nobody an item does not    *)
(* mention (score.go:11-60, 68-107).                                       *)
THEOREM CandidatesAlwaysRanked == Spec => []CandidatesRanked
<1>1. InputDrawn => CandidatesRanked
  <2> SUFFICES ASSUME InputDrawn, Drawn("item")
               PROVE  RankedRight(input.text, input.performers)
    BY DEF CandidatesRanked
  <2>1. /\ input.text \in UpTo(2, Words)
        /\ input.performers \in
             UNION {ListedAgain(Numbered(list)) : list \in UpTo(3, MCPerformer)}
    BY KindTells DEF ItemInput, Words
  <2>2. input.text \in Seq(Words)
    BY <2>1, UpToLists
  <2>3. input.performers \in Seq(AnyPerformer(Words)) /\ FewWords(input.performers)
    <3>1. PICK list \in UpTo(3, MCPerformer) : input.performers \in ListedAgain(Numbered(list))
      BY <2>1, Zenon
    <3> QED
      BY <3>1, ListedAgainDrawn
  <2> QED
    BY <2>2, <2>3, RankingRight
<1> QED
  BY <1>1, InputsDrawn, PTL
===============================================================================
