------------------------------- MODULE Lemmas --------------------------------
(***************************************************************************)
(* Facts the proofs of several components need: induction over the natural *)
(* numbers, sets in order, division with remainder, what round-robin use   *)
(* of a list of any length keeps true, and folds.                          *)
(***************************************************************************)
EXTENDS Rotation, Ordering, Integers, FiniteSetTheorems, TLAPS

(* A set of numbers has a least one.                                       *)
LEMMA LeastNumber ==
  ASSUME NEW T \in SUBSET Nat, T # {}
  PROVE  \E m \in T : \A k \in T : m <= k
<1>1. PICK n \in T : n \in Nat
  OBVIOUS
<1> DEFINE S == 0 .. n
           R == StrictSubsetOrdering(S)
           U == {0 .. m : m \in T \cap S}
<1>2. IsFiniteSet(S)
  BY <1>1, FS_Interval
<1>3. FiniteSubsetsOf(S) = SUBSET S
  BY <1>2, FS_FiniteSubsetsOfFinite
<1>4. IsWellFoundedOn(R, SUBSET S)
  BY <1>3, FS_StrictSubsetOrderingWellFounded
<1>5. U \subseteq SUBSET S /\ U # {}
  BY <1>1
<1>6. PICK x \in U : \A y \in U : <<y, x>> \notin R
  <2> HIDE DEF R, U
  <2> QED BY <1>4, <1>5, WFMin
<1>7. PICK m \in T \cap S : x = 0 .. m
  BY <1>6
<1>8. ASSUME NEW k \in T, k < m PROVE FALSE
  <2>1. k \in T \cap S /\ 0 .. k \in U
    BY <1>7, <1>8
  <2>2. 0 .. k \subseteq 0 .. m /\ m \in 0 .. m /\ m \notin 0 .. k
    BY <1>7, <1>8
  <2>3. <<0 .. k, 0 .. m>> \in R
    BY <2>1, <2>2, <1>5, <1>7, <1>6 DEF StrictSubsetOrdering
  <2> QED BY <2>1, <2>3, <1>6, <1>7
<1> QED BY <1>7, <1>8

(* Induction, for a property given as the set of numbers that have it: a   *)
(* set, unlike an operator, is something a prover can instantiate.         *)
LEMMA Induction ==
  ASSUME NEW G \in SUBSET Nat, 0 \in G, \A n \in G : n + 1 \in G
  PROVE  G = Nat
<1> SUFFICES ASSUME G # Nat PROVE FALSE
  OBVIOUS
<1>1. PICK m \in Nat \ G : \A k \in Nat \ G : m <= k
  BY LeastNumber, Nat \ G # {}, Nat \ G \in SUBSET Nat
<1>2. m - 1 \in Nat /\ m - 1 \in G
  BY <1>1
<1> QED BY <1>1, <1>2

(* A finite set in the order of a relation that compares any two members.  *)
Orders(R, S) ==
  /\ \A x \in S : <<x, x>> \notin R
  /\ \A x, y \in S : x # y => <<x, y>> \in R \/ <<y, x>> \in R
  /\ \A x, y, z \in S : <<x, y>> \in R /\ <<y, z>> \in R => <<x, z>> \in R

LEMMA PlaceBounds ==
  ASSUME NEW S, IsFiniteSet(S), NEW R, Orders(R, S), NEW x \in S
  PROVE  Place(S, R, x) \in 0 .. Cardinality(S) - 1
<1> DEFINE B == {y \in S : <<y, x>> \in R}
<1>1. /\ IsFiniteSet(S \ {x}) /\ Cardinality(S \ {x}) = Cardinality(S) - 1
      /\ Cardinality(S) \in Nat
  BY FS_RemoveElement, FS_CardinalityType
<1>2. B \in SUBSET (S \ {x})
  BY DEF Orders
<1>3. IsFiniteSet(B) /\ Cardinality(B) <= Cardinality(S \ {x})
  <2> HIDE DEF B
  <2> QED BY <1>1, <1>2, FS_Subset
<1>4. Cardinality(B) \in Nat
  BY <1>3, FS_CardinalityType
<1> QED BY <1>1, <1>3, <1>4 DEF Place

LEMMA PlaceIncreases ==
  ASSUME NEW S, IsFiniteSet(S), NEW R, Orders(R, S),
         NEW x \in S, NEW y \in S, <<x, y>> \in R
  PROVE  Place(S, R, x) < Place(S, R, y)
<1> DEFINE B == {z \in S : <<z, x>> \in R}
           C == {z \in S : <<z, y>> \in R}
<1>1. IsFiniteSet(B) /\ IsFiniteSet(C)
  <2>1. B \in SUBSET S /\ C \in SUBSET S
    OBVIOUS
  <2> HIDE DEF B, C
  <2> QED BY <2>1, FS_Subset
<1>2. x \notin B /\ B \cup {x} \in SUBSET C
  BY DEF Orders
<1> HIDE DEF B, C
<1>3. Cardinality(B \cup {x}) = Cardinality(B) + 1 /\ IsFiniteSet(B \cup {x})
  BY <1>1, <1>2, FS_AddElement
<1>4. Cardinality(B \cup {x}) <= Cardinality(C)
  BY <1>1, <1>2, FS_Subset
<1>5. Cardinality(B) \in Nat /\ Cardinality(C) \in Nat
  BY <1>1, FS_CardinalityType
<1> QED BY <1>3, <1>4, <1>5 DEF Place, B, C

LEMMA SortedIs ==
  ASSUME NEW S, IsFiniteSet(S), NEW R, Orders(R, S)
  PROVE  /\ Cardinality(S) \in Nat
         /\ Sorted(S, R) \in [1 .. Cardinality(S) -> S]
         /\ Len(Sorted(S, R)) = Cardinality(S)
         /\ \A n \in 1 .. Cardinality(S) : Place(S, R, Sorted(S, R)[n]) = n - 1
         /\ \A x \in S : Sorted(S, R)[Place(S, R, x) + 1] = x
         /\ \A m, n \in 1 .. Cardinality(S) :
              m < n => <<Sorted(S, R)[m], Sorted(S, R)[n]>> \in R
<1> DEFINE N == Cardinality(S)
           f == [x \in S |-> Place(S, R, x)]
<1>1. N \in Nat
  BY FS_CardinalityType
<1>2. \A x \in S : Place(S, R, x) \in 0 .. N - 1
  BY PlaceBounds
<1>3. \A x, y \in S : Place(S, R, x) = Place(S, R, y) => x = y
  <2> SUFFICES ASSUME NEW x \in S, NEW y \in S, x # y
               PROVE  Place(S, R, x) # Place(S, R, y)
    OBVIOUS
  <2>1. <<x, y>> \in R \/ <<y, x>> \in R
    BY DEF Orders
  <2>2. Place(S, R, x) \in Int /\ Place(S, R, y) \in Int
    BY <1>2
  <2> QED BY <2>1, <2>2, PlaceIncreases
<1>4. \A n \in 1 .. N : \E x \in S : Place(S, R, x) = n - 1
  <2>1. f \in Injection(S, 0 .. N - 1)
    BY <1>2, <1>3 DEF Injection, IsInjective
  <2>2. IsFiniteSet(0 .. N - 1) /\ Cardinality(0 .. N - 1) = N
    <3> HIDE DEF N
    <3>1. 0 \in Int /\ N - 1 \in Int /\ (IF 0 > N - 1 THEN 0 ELSE N - 1 - 0 + 1) = N
      BY <1>1
    <3> QED BY <3>1, FS_Interval
  <2>3. f \in Surjection(S, 0 .. N - 1)
    <3> HIDE DEF f
    <3> QED BY <2>1, <2>2, FS_Injection
  <2>4. \A i \in 0 .. N - 1 : \E x \in S : f[x] = i
    <3> HIDE DEF f
    <3> QED BY <2>3 DEF Surjection
  <2>5. \A n \in 1 .. N : n - 1 \in 0 .. N - 1
    BY <1>1
  <2> QED BY <2>4, <2>5
<1>5. \A n \in 1 .. N : Sorted(S, R)[n] \in S /\ Place(S, R, Sorted(S, R)[n]) = n - 1
  BY <1>4 DEF Sorted
<1>6. Sorted(S, R) \in [1 .. N -> S]
  BY <1>5 DEF Sorted
<1>7. \A x \in S : Sorted(S, R)[Place(S, R, x) + 1] = x
  <2> TAKE x \in S
  <2>1. Place(S, R, x) + 1 \in 1 .. N
    BY <1>1, <1>2
  <2>2. Place(S, R, Sorted(S, R)[Place(S, R, x) + 1]) = Place(S, R, x)
    BY <1>1, <1>2, <1>5, <2>1
  <2> QED BY <1>3, <1>5, <2>1, <2>2
<1>8. ASSUME NEW m \in 1 .. N, NEW n \in 1 .. N, m < n
      PROVE  <<Sorted(S, R)[m], Sorted(S, R)[n]>> \in R
  <2> DEFINE x == Sorted(S, R)[m]
             y == Sorted(S, R)[n]
  <2>1. x \in S /\ y \in S /\ Place(S, R, x) = m - 1 /\ Place(S, R, y) = n - 1
    BY <1>5
  <2> HIDE DEF x, y
  <2>2. x # y /\ <<y, x>> \notin R
    BY <1>8, <2>1, PlaceIncreases
  <2> QED BY <2>1, <2>2 DEF x, y, Orders
<1>9. Len(Sorted(S, R)) = N
  BY <1>1, <1>6
<1> QED BY <1>1, <1>5, <1>6, <1>7, <1>8, <1>9

(* The order of numbers is such an order.                                  *)
LEMMA AscendingSorted ==
  ASSUME NEW S \in SUBSET Nat
  PROVE  \E R : /\ Orders(R, S) /\ R = {p \in S \X S : p[1] < p[2]}
                /\ Ascending(S) = Sorted(S, R)
                /\ \A x \in S : Below(S, x) = Place(S, R, x)
<1> DEFINE R == {p \in S \X S : p[1] < p[2]}
<1>1. \A x, y \in S : <<x, y>> \in R <=> x < y
  OBVIOUS
<1>2. Orders(R, S)
  <2> HIDE DEF R
  <2> QED BY <1>1 DEF Orders
<1>3. ASSUME NEW x \in S PROVE Below(S, x) = Place(S, R, x)
  <2> HIDE DEF R
  <2>1. {y \in S : <<y, x>> \in R} = {y \in S : y < x}
    BY <1>1
  <2> QED BY <2>1 DEF Below, Place
<1>4. Ascending(S) = Sorted(S, R)
  <2> HIDE DEF R
  <2>1. \A n : (CHOOSE x \in S : Below(S, x) = n - 1) = (CHOOSE x \in S : Place(S, R, x) = n - 1)
    BY <1>3, Zenon
  <2> QED BY <2>1 DEF Ascending, Sorted
<1> QED BY <1>2, <1>3, <1>4

(* The members of a finite set of numbers, in ascending order.             *)
LEMMA BelowBounds ==
  ASSUME NEW S \in SUBSET Nat, IsFiniteSet(S), NEW x \in S
  PROVE  Below(S, x) \in 0 .. Cardinality(S) - 1
BY AscendingSorted, PlaceBounds

LEMMA BelowIncreases ==
  ASSUME NEW S \in SUBSET Nat, IsFiniteSet(S), NEW x \in S, NEW y \in S, x < y
  PROVE  Below(S, x) < Below(S, y)
<1>1. PICK R : /\ Orders(R, S) /\ R = {p \in S \X S : p[1] < p[2]}
               /\ \A z \in S : Below(S, z) = Place(S, R, z)
  BY AscendingSorted
<1>2. <<x, y>> \in R
  BY <1>1
<1>3. Place(S, R, x) < Place(S, R, y)
  BY <1>1, <1>2, PlaceIncreases
<1> QED BY <1>1, <1>3

LEMMA AscendingIs ==
  ASSUME NEW S \in SUBSET Nat, IsFiniteSet(S)
  PROVE  /\ Cardinality(S) \in Nat
         /\ Ascending(S) \in [1 .. Cardinality(S) -> S]
         /\ Len(Ascending(S)) = Cardinality(S)
         /\ \A n \in 1 .. Cardinality(S) : Below(S, Ascending(S)[n]) = n - 1
         /\ \A x \in S : Ascending(S)[Below(S, x) + 1] = x
         /\ \A m, n \in 1 .. Cardinality(S) : m < n => Ascending(S)[m] < Ascending(S)[n]
<1>1. PICK R : /\ Orders(R, S) /\ R = {p \in S \X S : p[1] < p[2]}
               /\ Ascending(S) = Sorted(S, R)
               /\ \A x \in S : Below(S, x) = Place(S, R, x)
  BY AscendingSorted
<1> DEFINE N == Cardinality(S)
<1>2. /\ N \in Nat /\ Ascending(S) \in [1 .. N -> S] /\ Len(Ascending(S)) = N
      /\ \A n \in 1 .. N : Place(S, R, Ascending(S)[n]) = n - 1
      /\ \A x \in S : Ascending(S)[Place(S, R, x) + 1] = x
      /\ \A m, n \in 1 .. N : m < n => <<Ascending(S)[m], Ascending(S)[n]>> \in R
  <2>1. Orders(R, S) /\ Ascending(S) = Sorted(S, R)
    BY <1>1
  <2> HIDE <1>1
  <2> QED BY <2>1, SortedIs
<1>3. \A n \in 1 .. N : Ascending(S)[n] \in S
  BY <1>2
<1> QED BY <1>1, <1>2, <1>3

(* Quotient and remainder are determined by the number they make up.       *)
LEMMA DivModUnique ==
  ASSUME NEW n \in Nat \ {0}, NEW a \in Int, NEW b \in Int,
         NEW c \in 0 .. n - 1, NEW d \in 0 .. n - 1,
         n * a + c = n * b + d
  PROVE  c = d
<1>1. ASSUME NEW u \in Int, NEW v \in Int, u < v
      PROVE  n * v >= n * u + n
  <2>1. PICK e \in Nat : v = u + 1 + e
    <3>1. v - u - 1 \in Nat /\ v = u + 1 + (v - u - 1)
      BY <1>1
    <3> QED BY <3>1
  <2>2. n * v = n * u + n + n * e
    BY <2>1
  <2>3. n * e \in Nat
    OBVIOUS
  <2> QED BY <2>2, <2>3
<1>2. n * a \in Int /\ n * b \in Int
  OBVIOUS
<1>3. CASE a < b
  BY <1>1, <1>2, <1>3
<1>4. CASE b < a
  BY <1>1, <1>2, <1>4
<1>5. CASE a = b
  BY <1>2, <1>5
<1> QED BY <1>3, <1>4, <1>5

LEMMA DivMod ==
  ASSUME NEW n \in Nat \ {0}, NEW x \in Nat
  PROVE  x \div n \in Nat /\ x % n \in 0 .. n - 1 /\ x % n \in Nat
         /\ x = n * (x \div n) + (x % n)
OBVIOUS

(* The remainder of a successor: it steps, or wraps to 0.                  *)
LEMMA ModSucc ==
  ASSUME NEW n \in Nat \ {0}, NEW x \in Nat
  PROVE  /\ x % n \in 0 .. n - 1
         /\ (x + 1) % n = IF (x % n) + 1 = n THEN 0 ELSE (x % n) + 1
<1> DEFINE q == x \div n
           r == x % n
           s == (x + 1) \div n
           t == (x + 1) % n
<1>1. q \in Int /\ r \in 0 .. n - 1 /\ x = n * q + r
  OBVIOUS
<1>2. s \in Int /\ t \in 0 .. n - 1 /\ x + 1 = n * s + t
  OBVIOUS
<1> HIDE DEF q, r, s, t
<1>3. CASE r + 1 = n
  <2>1. n * (q + 1) + 0 = n * s + t
    BY <1>1, <1>2, <1>3
  <2>2. t = 0
    BY <1>1, <1>2, <2>1, DivModUnique
  <2> QED BY <1>1, <1>3, <2>2 DEF r, t
<1>4. CASE r + 1 # n
  <2>1. n * q + (r + 1) = n * s + t /\ r + 1 \in 0 .. n - 1
    BY <1>1, <1>2, <1>4
  <2>2. t = r + 1
    BY <1>1, <1>2, <2>1, DivModUnique
  <2> QED BY <1>1, <1>4, <2>2 DEF r, t
<1> QED BY <1>3, <1>4

(* Before the first use no entry has been used.                            *)
LEMMA TurnsStart ==
  ASSUME NEW n \in Nat \ {0}, NEW start \in 0 .. n - 1
  PROVE  Turns([i \in 0 .. n - 1 |-> 0], n, start, start)
BY DEF Turns, InRound

(* Using the entry at hand and moving on keeps the rounds in order.        *)
LEMMA TurnsStep ==
  ASSUME NEW n \in Nat \ {0}, NEW start \in 0 .. n - 1, NEW at \in 0 .. n - 1,
         NEW used \in [0 .. n - 1 -> Nat],
         Turns(used, n, start, at),
         NEW next, next = IF at + 1 = n THEN 0 ELSE at + 1
  PROVE  Turns([used EXCEPT ![at] = @ + 1], n, start, next)
<1> DEFINE new == [used EXCEPT ![at] = @ + 1]
<1>1. next \in 0 .. n - 1
  OBVIOUS
<1>2. \A i \in 0 .. n - 1 : new[i] = used[i] + (IF i = at THEN 1 ELSE 0)
  OBVIOUS
<1>3. \A i \in 0 .. n - 1 :
        used[i] = used[at] + (IF InRound(i, start, at) THEN 1 ELSE 0)
  BY DEF Turns
<1>4. \A i \in 0 .. n - 1 : used[i] \in Nat
  OBVIOUS
<1> HIDE DEF new
<1>5. CASE next = start
  <2>1. \A i \in 0 .. n - 1 : i # at => InRound(i, start, at)
    BY <1>1, <1>5 DEF InRound
  <2>2. \A i \in 0 .. n - 1 : new[i] = used[at] + 1
    BY <1>2, <1>3, <1>4, <2>1
  <2>3. \A i \in 0 .. n - 1 : ~InRound(i, start, next)
    BY <1>1, <1>5 DEF InRound
  <2> QED BY <1>1, <1>4, <2>2, <2>3 DEF Turns, new
<1>6. CASE next # start
  <2>1. \A i \in 0 .. n - 1 :
          InRound(i, start, next) <=> InRound(i, start, at) \/ i = at
    BY <1>1, <1>6 DEF InRound
  <2>2. ~InRound(at, start, at) /\ ~InRound(next, start, at) /\ next # at
    BY <1>1, <1>6 DEF InRound
  <2>3. new[next] = used[at]
    BY <1>1, <1>2, <1>3, <1>4, <2>2
  <2>4. \A i \in 0 .. n - 1 :
          new[i] = used[at] + (IF InRound(i, start, next) THEN 1 ELSE 0)
    BY <1>2, <1>3, <1>4, <2>1, <2>2
  <2> QED BY <2>3, <2>4 DEF Turns, new
<1> QED BY <1>5, <1>6

(* Entries used in rounds are never two uses apart.                        *)
LEMMA TurnsBalanced ==
  ASSUME NEW n \in Nat \ {0}, NEW start \in 0 .. n - 1, NEW at \in 0 .. n - 1,
         NEW used \in [0 .. n - 1 -> Nat], Turns(used, n, start, at)
  PROVE  Balanced(used, n)
<1>1. \A i \in 0 .. n - 1 : used[i] = used[at] \/ used[i] = used[at] + 1
  BY DEF Turns
<1>2. \A i \in 0 .. n - 1 : used[i] \in Nat
  OBVIOUS
<1>3. SUFFICES ASSUME NEW i \in 0 .. n - 1, NEW j \in 0 .. n - 1
               PROVE  used[i] <= used[j] + 1
  BY DEF Balanced
<1>4. \A x, y, z \in Nat :
        (x = z \/ x = z + 1) /\ (y = z \/ y = z + 1) => x <= y + 1
  OBVIOUS
<1>5. used[at] \in Nat /\ used[i] \in Nat /\ used[j] \in Nat
  BY <1>2
<1>6. /\ used[i] = used[at] \/ used[i] = used[at] + 1
      /\ used[j] = used[at] \/ used[j] = used[at] + 1
  BY <1>1
<1> QED BY <1>4, <1>5, <1>6
-----------------------------------------------------------------------------
(* Induction over the subsets of a finite set.                             *)
LEMMA SubsetInduction ==
  ASSUME NEW D, IsFiniteSet(D), NEW P \in SUBSET (SUBSET D),
         \A s \in SUBSET D : (\A x \in s : s \ {x} \in P) => s \in P
  PROVE  P = SUBSET D
<1> DEFINE G == {n \in Nat : \A s \in SUBSET D : Cardinality(s) = n => s \in P}
<1>1. \A s \in SUBSET D : IsFiniteSet(s) /\ Cardinality(s) \in Nat
  BY FS_Subset, FS_CardinalityType
<1>2. 0 \in G
  <2> SUFFICES ASSUME NEW s \in SUBSET D, Cardinality(s) = 0 PROVE s \in P
    OBVIOUS
  <2>1. s = {}
    BY <1>1, FS_EmptySet
  <2> QED BY <2>1
<1>3. \A n \in G : n + 1 \in G
  <2> SUFFICES ASSUME NEW n \in G, NEW s \in SUBSET D, Cardinality(s) = n + 1
               PROVE  s \in P
    OBVIOUS
  <2>1. ASSUME NEW x \in s PROVE s \ {x} \in P
    <3>1. Cardinality(s \ {x}) = Cardinality(s) - 1 /\ s \ {x} \in SUBSET D
      BY <1>1, FS_RemoveElement
    <3>2. Cardinality(s \ {x}) = n
      BY <3>1
    <3> QED BY <3>1, <3>2
  <2> QED BY <2>1
<1>4. G = Nat
  <2> HIDE DEF G
  <2>1. G \in SUBSET Nat
    BY DEF G
  <2> QED BY <1>2, <1>3, <2>1, Induction
<1> QED BY <1>1, <1>4

(* Folding a finite set with a commutative and associative function, one   *)
(* element after the other in the order CHOOSE takes them.                 *)
Pick(s) == CHOOSE x \in s : TRUE

Into(f, D, V) == \A x \in D : f[x] \in V

Same(f, k, S) == \A x \in S : f[x] = k[x]

Commutative(op, V) ==
  /\ op \in [V \X V -> V]
  /\ \A a, b \in V : op[<<a, b>>] = op[<<b, a>>]
  /\ \A a, b, c \in V : op[<<a, op[<<b, c>>]>>] = op[<<op[<<a, b>>], c>>]

FoldStep(g, op, e, f, s) ==
  IF s = {} THEN e ELSE op[<<f[Pick(s)], g[s \ {Pick(s)}]>>]

(* g folds f over every subset of D; ...                                   *)
Follows(g, op, e, f, D) == \A s \in SUBSET D : g[s] = FoldStep(g, op, e, f, s)

(* ... it is the fold of f over every subset of D, as long as it is in V.       *)
IsFold(g, op, e, V, f, D) ==
  /\ g[{}] = e
  /\ \A s \in SUBSET D :
       s # {} /\ g[s \ {Pick(s)}] \in V => g[s] = FoldStep(g, op, e, f, s)

(* In whatever order: any element may be taken last. *)
Takes(g, op, f, D) ==
  \A s \in SUBSET D : \A x \in s : g[s] = op[<<f[x], g[s \ {x}]>>]

(* Two sets without a common element may be folded apart. *)
Joins(g, op, D) ==
  \A S, T \in SUBSET D : S \cap T = {} => g[S \cup T] = op[<<g[S], g[T]>>]

Neutral(e, op, V) == \A a \in V : op[<<e, a>>] = a

LEMMA PickIn == \A s : s # {} => Pick(s) \in s
BY DEF Pick

(* There is such a fold.                                                   *)
LEMMA FoldExists ==
  ASSUME NEW D, IsFiniteSet(D), NEW V, NEW e \in V, NEW op, Commutative(op, V),
         NEW f, Into(f, D, V)
  PROVE  \E g \in [SUBSET D -> V] : Follows(g, op, e, f, D)
<1> DEFINE Upto(g, n) ==
             \A s \in SUBSET D : Cardinality(s) <= n => g[s] = FoldStep(g, op, e, f, s)
           G == {n \in Nat : \E g \in [SUBSET D -> V] : Upto(g, n)}
<1>1. \A s \in SUBSET D : IsFiniteSet(s) /\ Cardinality(s) \in Nat
  BY FS_Subset, FS_CardinalityType
<1>2. \A s \in SUBSET D : Cardinality(s) = 0 => s = {}
  BY <1>1, FS_EmptySet
<1>3. \A s \in SUBSET D : \A x \in s : Cardinality(s \ {x}) = Cardinality(s) - 1
  BY <1>1, FS_RemoveElement
<1>4. 0 \in G
  <2> DEFINE g == [s \in SUBSET D |-> e]
  <2>1. g \in [SUBSET D -> V]
    OBVIOUS
  <2>2. Upto(g, 0)
    BY <1>1, <1>2 DEF FoldStep
  <2> QED BY <2>1, <2>2
<1>5. \A n \in G : n + 1 \in G
  <2> SUFFICES ASSUME NEW n \in G PROVE n + 1 \in G
    OBVIOUS
  <2>1. n \in Nat /\ n + 1 \in Nat
    OBVIOUS
  <2>2. PICK g \in [SUBSET D -> V] : Upto(g, n)
    OBVIOUS
  <2> DEFINE h == [s \in SUBSET D |-> IF s = {} THEN e
                                      ELSE op[<<f[Pick(s)], g[s \ {Pick(s)}]>>]]
  <2>3. h \in [SUBSET D -> V]
    <3> SUFFICES ASSUME NEW s \in SUBSET D, s # {}
                 PROVE  op[<<f[Pick(s)], g[s \ {Pick(s)}]>>] \in V
      OBVIOUS
    <3>1. f[Pick(s)] \in V /\ g[s \ {Pick(s)}] \in V
      BY PickIn DEF Into
    <3> QED BY <3>1 DEF Commutative
  <2>4. ASSUME NEW s \in SUBSET D, Cardinality(s) <= n PROVE h[s] = g[s]
    BY <2>2, <2>4 DEF FoldStep
  <2>5. ASSUME NEW s \in SUBSET D, Cardinality(s) <= n + 1
        PROVE  h[s] = FoldStep(h, op, e, f, s)
    <3>1. CASE s = {}
      BY <3>1 DEF FoldStep
    <3>2. CASE s # {}
      <4>1. s \ {Pick(s)} \in SUBSET D /\ Cardinality(s \ {Pick(s)}) = Cardinality(s) - 1
        BY <1>3, <3>2, PickIn
      <4>2. Cardinality(s \ {Pick(s)}) <= n
        BY <1>1, <2>1, <2>5, <4>1
      <4>3. h[s \ {Pick(s)}] = g[s \ {Pick(s)}]
        BY <2>4, <4>1, <4>2
      <4>4. h[s] = op[<<f[Pick(s)], g[s \ {Pick(s)}]>>]
        BY <3>2
      <4> HIDE DEF h
      <4> QED BY <3>2, <4>3, <4>4 DEF FoldStep
    <3> QED BY <3>1, <3>2
  <2> HIDE DEF h
  <2> QED BY <2>1, <2>3, <2>5
<1>6. G = Nat
  <2> HIDE DEF G
  <2>1. G \in SUBSET Nat
    BY DEF G
  <2> QED BY <1>4, <1>5, <2>1, Induction
<1>7. PICK g \in [SUBSET D -> V] : Upto(g, Cardinality(D))
  BY <1>1, <1>6
<1>8. \A s \in SUBSET D : Cardinality(s) <= Cardinality(D)
  BY FS_Subset
<1> QED BY <1>7, <1>8 DEF Follows

(* Its values stay in V.                                                   *)
LEMMA FoldTyped ==
  ASSUME NEW D, IsFiniteSet(D), NEW V, NEW e \in V, NEW op, Commutative(op, V),
         NEW f, Into(f, D, V), NEW g, IsFold(g, op, e, V, f, D)
  PROVE  Into(g, SUBSET D, V)
<1> DEFINE P == {s \in SUBSET D : g[s] \in V}
<1>1. ASSUME NEW s \in SUBSET D, \A x \in s : s \ {x} \in P PROVE s \in P
  <2>1. CASE s = {}
    BY <2>1 DEF IsFold
  <2>2. CASE s # {}
    <3>1. Pick(s) \in s /\ g[s \ {Pick(s)}] \in V
      BY <1>1, <2>2, PickIn
    <3>2. g[s] = op[<<f[Pick(s)], g[s \ {Pick(s)}]>>]
      BY <2>2, <3>1 DEF IsFold, FoldStep
    <3> QED BY <3>1, <3>2 DEF Commutative, Into
  <2> QED BY <2>1, <2>2
<1>2. P = SUBSET D
  <2> HIDE DEF P
  <2>1. P \in SUBSET (SUBSET D)
    BY DEF P
  <2> QED BY <1>1, <2>1, SubsetInduction
<1> QED BY <1>2 DEF Into

(* Two folds agree where what they fold agrees.                            *)
LEMMA FoldAgrees ==
  ASSUME NEW V, NEW e \in V, NEW op, Commutative(op, V),
         NEW C, NEW D, IsFiniteSet(C), IsFiniteSet(D),
         NEW f, Into(f, C, V),
         NEW k, Into(k, D, V),
         NEW g, IsFold(g, op, e, V, f, C), NEW h, IsFold(h, op, e, V, k, D),
         NEW S \in SUBSET (C \cap D), Same(f, k, S)
  PROVE  g[S] = h[S]
<1> DEFINE P == {s \in SUBSET S : g[s] = h[s]}
<1>1. ASSUME NEW s \in SUBSET S, \A x \in s : s \ {x} \in P PROVE s \in P
  <2>1. CASE s = {}
    BY <2>1 DEF IsFold
  <2>2. CASE s # {}
    <3>1. /\ Pick(s) \in s /\ g[s \ {Pick(s)}] = h[s \ {Pick(s)}]
          /\ f[Pick(s)] = k[Pick(s)]
      BY <1>1, <2>2, PickIn DEF Same
    <3>2. s \in SUBSET C /\ s \in SUBSET D
      OBVIOUS
    <3>3. g[s \ {Pick(s)}] \in V /\ h[s \ {Pick(s)}] \in V
      <4>1. Into(g, SUBSET C, V) /\ Into(h, SUBSET D, V)
        BY FoldTyped
      <4> QED BY <3>2, <4>1 DEF Into
    <3> QED BY <2>2, <3>1, <3>2, <3>3 DEF IsFold, FoldStep
  <2> QED BY <2>1, <2>2
<1>2. P = SUBSET S
  <2>1. IsFiniteSet(S)
    BY FS_Subset
  <2> HIDE DEF P
  <2>2. P \in SUBSET (SUBSET S)
    BY DEF P
  <2> QED BY <1>1, <2>1, <2>2, SubsetInduction
<1> QED BY <1>2

(* The order does not matter.                                              *)
LEMMA FoldTakes ==
  ASSUME NEW D, IsFiniteSet(D), NEW V, NEW e \in V, NEW op, Commutative(op, V),
         NEW f, Into(f, D, V), NEW g, IsFold(g, op, e, V, f, D)
  PROVE  Takes(g, op, f, D)
<1>b. \A s \in SUBSET D : g[s] \in V
  <2>1. Into(g, SUBSET D, V)
    BY FoldTyped
  <2> QED BY <2>1 DEF Into
<1>c. \A s \in SUBSET D : s # {} => g[s] = op[<<f[Pick(s)], g[s \ {Pick(s)}]>>]
  BY <1>b DEF IsFold, FoldStep
<1> DEFINE P == {s \in SUBSET D : \A x \in s : g[s] = op[<<f[x], g[s \ {x}]>>]}
<1>1. ASSUME NEW s \in SUBSET D, \A x \in s : s \ {x} \in P PROVE s \in P
  <2> SUFFICES ASSUME NEW x \in s PROVE g[s] = op[<<f[x], g[s \ {x}]>>]
    OBVIOUS
  <2> DEFINE c == Pick(s)
             r == (s \ {c}) \ {x}
  <2>1. c \in s /\ g[s] = op[<<f[c], g[s \ {c}]>>]
    BY <1>c, PickIn
  <2>2. CASE x = c
    BY <2>1, <2>2
  <2>3. CASE x # c
    <3>1. x \in s \ {c} /\ c \in s \ {x} /\ r = (s \ {x}) \ {c}
      BY <2>1, <2>3
    <3>2. g[s \ {c}] = op[<<f[x], g[r]>>]
      BY <1>1, <2>1, <3>1
    <3>3. g[s \ {x}] = op[<<f[c], g[r]>>]
      BY <1>1, <3>1
    <3>4. f[x] \in V /\ f[c] \in V /\ g[r] \in V
      BY <1>b, <2>1 DEF Into
    <3> HIDE DEF c, r
    <3>5. op[<<f[c], op[<<f[x], g[r]>>]>>] = op[<<op[<<f[c], f[x]>>], g[r]>>]
      BY <3>4 DEF Commutative
    <3>6. op[<<f[x], op[<<f[c], g[r]>>]>>] = op[<<op[<<f[x], f[c]>>], g[r]>>]
      BY <3>4 DEF Commutative
    <3>7. op[<<f[c], f[x]>>] = op[<<f[x], f[c]>>]
      BY <3>4 DEF Commutative
    <3> QED BY <2>1, <3>2, <3>3, <3>5, <3>6, <3>7
  <2> QED BY <2>2, <2>3
<1>2. P = SUBSET D
  <2> HIDE DEF P
  <2>1. P \in SUBSET (SUBSET D)
    BY DEF P
  <2> QED BY <1>1, <2>1, SubsetInduction
<1> QED BY <1>2 DEF Takes

(* The fold over two sets that share nothing.                              *)
LEMMA FoldJoins ==
  ASSUME NEW D, IsFiniteSet(D), NEW V, NEW e \in V, NEW op, Commutative(op, V),
         Neutral(e, op, V),
         NEW f, Into(f, D, V), NEW g, IsFold(g, op, e, V, f, D)
  PROVE  Joins(g, op, D)
<1> SUFFICES ASSUME NEW S \in SUBSET D, NEW T \in SUBSET D, S \cap T = {}
             PROVE  g[S \cup T] = op[<<g[S], g[T]>>]
  BY DEF Joins
<1>b. \A s \in SUBSET D : g[s] \in V
  <2>1. Into(g, SUBSET D, V)
    BY FoldTyped
  <2> QED BY <2>1 DEF Into
<1>c. \A s \in SUBSET D : \A x \in s : g[s] = op[<<f[x], g[s \ {x}]>>]
  <2>1. Takes(g, op, f, D)
    BY FoldTakes
  <2> QED BY <2>1 DEF Takes
<1> DEFINE P == {s \in SUBSET S : g[s \cup T] = op[<<g[s], g[T]>>]}
<1>1. ASSUME NEW s \in SUBSET S, \A x \in s : s \ {x} \in P PROVE s \in P
  <2>1. CASE s = {}
    BY <1>b, <2>1 DEF IsFold, Neutral
  <2>2. CASE s # {}
    <3>1. PICK x \in s : TRUE
      BY <2>2
    <3>2. g[(s \ {x}) \cup T] = op[<<g[s \ {x}], g[T]>>]
      BY <1>1, <3>1
    <3>3. /\ (s \cup T) \ {x} = (s \ {x}) \cup T /\ x \in s \cup T
          /\ s \cup T \in SUBSET D /\ s \in SUBSET D
      BY <3>1
    <3>4. g[s \cup T] = op[<<f[x], g[(s \ {x}) \cup T]>>]
      <4>1. g[s \cup T] = op[<<f[x], g[(s \cup T) \ {x}]>>]
        BY <1>c, <3>3
      <4> QED BY <3>3, <4>1
    <3>5. g[s] = op[<<f[x], g[s \ {x}]>>]
      BY <1>c, <3>1, <3>3
    <3>6. f[x] \in V /\ g[s \ {x}] \in V /\ g[T] \in V
      BY <1>b, <3>1 DEF Into
    <3>7. op[<<f[x], op[<<g[s \ {x}], g[T]>>]>>] = op[<<op[<<f[x], g[s \ {x}]>>], g[T]>>]
      <4> DEFINE a == f[x]
                 b == g[s \ {x}]
                 c == g[T]
      <4>1. a \in V /\ b \in V /\ c \in V
        BY <3>6
      <4> HIDE DEF a, b, c
      <4>2. op[<<a, op[<<b, c>>]>>] = op[<<op[<<a, b>>], c>>]
        BY <4>1 DEF Commutative
      <4> QED BY <4>2 DEF a, b, c
    <3> QED BY <3>2, <3>4, <3>5, <3>7
  <2> QED BY <2>1, <2>2
<1>2. P = SUBSET S
  <2>1. IsFiniteSet(S)
    BY FS_Subset
  <2> HIDE DEF P
  <2>2. P \in SUBSET (SUBSET S)
    BY DEF P
  <2> QED BY <1>1, <2>1, <2>2, SubsetInduction
<1> QED BY <1>2
=============================================================================
