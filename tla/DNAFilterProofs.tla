---------------------------- MODULE DNAFilterProofs ----------------------------
(***************************************************************************)
(* Filtered loading never throws, keeps the elements and rows of every LOD   *)
(* that is kept, and keeps what other layers say of meshes, joints and      *)
(* operations, for all documents and configurations that Requests admits,   *)
(* if channels and animated maps are in the order of their LODs.            *)
(* FilterInv is the inductive invariant, and ElementsInv a second one that   *)
(* rests on it.  Both rest on what the operators of LODMapping and          *)
(* DNAFilter do to a table: filtering leaves the elements that pass in      *)
(* their order, and renumbers each by its place among them.                 *)
(***************************************************************************)
EXTENDS DNAFilter, FiniteSetTheorems, WellFoundedInduction, NaturalsInduction, TLAPS

\* How many numbers of P come before p
Place(P, p) == Cardinality({j \in P : j < p})

Increasing(s) == \A i, k \in 1 .. Len(s) : i < k => s[i] < s[k]
-----------------------------------------------------------------------------
(* Finite sets of numbers, in order.                                        *)

\* A set of natural numbers that is not empty has a least one.
LEMMA LeastNumber ==
    ASSUME NEW T \in SUBSET Nat, T # {}
    PROVE  \E x \in T : \A y \in T : x <= y
<1> DEFINE R == {pair \in Nat \X Nat : pair[1] < pair[2]}
<1>1. IsWellFoundedOn(R, Nat)
  BY NatLessThanWellFounded DEF OpToRel
<1> HIDE DEF R
<1>2. PICK x \in T : \A y \in T : ~(<<y, x>> \in R)
  BY <1>1, WFMin
<1>3. \A y \in T : x <= y
  <2> TAKE y \in T
  <2>1. <<y, x>> \in R <=> y < x
    BY DEF R
  <2> QED  BY <1>2, <2>1
<1> QED  BY <1>3

\* The place of a number grows with the number, from 0 to one less than there are.
LEMMA PlaceGrows ==
    ASSUME NEW P \in SUBSET Nat, IsFiniteSet(P)
    PROVE  /\ Cardinality(P) \in Nat
           /\ \A p \in Nat : Place(P, p) \in 0 .. Cardinality(P)
           /\ \A p \in P : Place(P, p) \in 0 .. Cardinality(P) - 1
           /\ \A p \in P, q \in Nat : p < q => Place(P, p) < Place(P, q)
           /\ \A p, q \in Nat : p <= q => Place(P, p) <= Place(P, q)
<1> DEFINE B(p) == {j \in P : j < p}
<1>1. Cardinality(P) \in Nat
  BY FS_CardinalityType
<1>2. \A p \in Nat : IsFiniteSet(B(p)) /\ Cardinality(B(p)) \in Nat
                      /\ Cardinality(B(p)) <= Cardinality(P)
  <2> TAKE p \in Nat
  <2>1. B(p) \in SUBSET P
    OBVIOUS
  <2> HIDE DEF B
  <2>2. IsFiniteSet(B(p)) /\ Cardinality(B(p)) <= Cardinality(P)
    BY <2>1, FS_Subset
  <2> QED  BY <2>2, FS_CardinalityType
<1>3. \A p, q \in Nat : p <= q => Cardinality(B(p)) <= Cardinality(B(q))
  <2> SUFFICES ASSUME NEW p \in Nat, NEW q \in Nat, p <= q
               PROVE  Cardinality(B(p)) <= Cardinality(B(q))
    OBVIOUS
  <2>1. B(p) \in SUBSET B(q)
    <3> SUFFICES ASSUME NEW j \in P, j < p  PROVE  j < q
      OBVIOUS
    <3> j \in Nat
      OBVIOUS
    <3> QED  OBVIOUS
  <2> HIDE DEF B
  <2> QED  BY <1>2, <2>1, FS_Subset
<1>4. \A p \in P, q \in Nat : p < q => Cardinality(B(p)) < Cardinality(B(q))
  <2> SUFFICES ASSUME NEW p \in P, NEW q \in Nat, p < q
               PROVE  Cardinality(B(p)) < Cardinality(B(q))
    OBVIOUS
  <2>1. B(p) \in SUBSET B(q) /\ p \in B(q) /\ p \notin B(p) /\ p \in Nat
    <3>1. p \in Nat /\ p \in B(q) /\ p \notin B(p)
      OBVIOUS
    <3>2. \A j \in P : j \in Nat
      OBVIOUS
    <3>3. \A j \in P : j < p => j < q
      BY <3>1, <3>2
    <3> QED  BY <3>1, <3>3
  <2> HIDE DEF B
  <2>2. Cardinality(B(p)) <= Cardinality(B(q)) /\ Cardinality(B(p)) # Cardinality(B(q))
    BY <1>2, <2>1, FS_Subset
  <2> QED  BY <1>2, <2>1, <2>2
<1>5. \A p \in P : Cardinality(B(p)) < Cardinality(P)
  <2> TAKE p \in P
  <2>1. B(p) \in SUBSET P /\ p \in P /\ p \notin B(p) /\ p \in Nat
    OBVIOUS
  <2> HIDE DEF B
  <2>2. Cardinality(B(p)) <= Cardinality(P) /\ Cardinality(B(p)) # Cardinality(P)
    BY <2>1, FS_Subset
  <2> QED  BY <1>1, <1>2, <2>1, <2>2
<1>6. \A p \in P : p \in Nat
  OBVIOUS
<1>7. \A p \in Nat : Place(P, p) = Cardinality(B(p))
  BY DEF Place
<1> HIDE DEF B
<1> QED  BY <1>1, <1>2, <1>3, <1>4, <1>5, <1>6, <1>7

\* Every place up to the size of the set is taken.
LEMMA PlacesAreTaken ==
    ASSUME NEW P \in SUBSET Nat, IsFiniteSet(P), NEW k \in 0 .. Cardinality(P) - 1
    PROVE  \E p \in P : Place(P, p) = k
<1> DEFINE n == Cardinality(P)
           f == [p \in P |-> Place(P, p)]
<1>1. n \in Nat /\ 0 \in Int /\ n - 1 \in Int
  BY PlaceGrows
<1>2. IsFiniteSet(0 .. n - 1) /\ Cardinality(0 .. n - 1) = n
  <2> HIDE DEF n
  <2>1. IsFiniteSet(0 .. n - 1) /\ Cardinality(0 .. n - 1) = IF 0 > n - 1 THEN 0 ELSE (n - 1) - 0 + 1
    BY <1>1, FS_Interval
  <2> QED  BY <1>1, <2>1
<1>3. f \in [P -> 0 .. n - 1]
  BY PlaceGrows
<1>4. \A p, q \in P : f[p] = f[q] => p = q
  <2> SUFFICES ASSUME NEW p \in P, NEW q \in P, Place(P, p) = Place(P, q)
               PROVE  p = q
    OBVIOUS
  <2>1. p \in Nat /\ q \in Nat
    OBVIOUS
  <2>2. Place(P, p) \in Nat /\ Place(P, q) \in Nat
    BY <2>1, <1>1, PlaceGrows
  <2>3. ~(p < q) /\ ~(q < p)
    BY <2>1, <2>2, PlaceGrows
  <2> QED  BY <2>1, <2>3
<1>5. f \in Injection(P, 0 .. n - 1)
  BY <1>3, <1>4 DEF Injection, IsInjective
<1>6. f \in Surjection(P, 0 .. n - 1)
  <2> HIDE DEF f
  <2> QED  BY <1>2, <1>5, FS_Injection
<1>7. \E p \in P : f[p] = k
  <2> HIDE DEF f
  <2> QED  BY <1>6 DEF Surjection
<1> QED  BY <1>7

\* Ascending lists the numbers of a set, each at its place.
LEMMA AscendingLists ==
    ASSUME NEW P \in SUBSET Nat, IsFiniteSet(P)
    PROVE  /\ Cardinality(P) \in Nat
           /\ Ascending(P) \in [1 .. Cardinality(P) -> P]
           /\ \A k \in 1 .. Cardinality(P) :
                 Ascending(P)[k] \in P /\ Place(P, Ascending(P)[k]) = k - 1
           /\ \A p \in P : /\ Place(P, p) + 1 \in 1 .. Cardinality(P)
                           /\ Ascending(P)[Place(P, p) + 1] = p
<1>1. Cardinality(P) \in Nat
  BY PlaceGrows
<1>2. \A k \in 1 .. Cardinality(P) :
          Ascending(P)[k] = CHOOSE i \in P : Cardinality({j \in P : j < i}) = k - 1
  BY DEF Ascending
<1>3. \A k \in 1 .. Cardinality(P) :
          Ascending(P)[k] \in P /\ Place(P, Ascending(P)[k]) = k - 1
  <2> TAKE k \in 1 .. Cardinality(P)
  <2>1. k - 1 \in 0 .. Cardinality(P) - 1
    BY <1>1
  <2>2. \E i \in P : Place(P, i) = k - 1
    BY <2>1, PlacesAreTaken
  <2> DEFINE x == CHOOSE i \in P : Place(P, i) = k - 1
  <2>3. Ascending(P)[k] = x
    BY <1>2 DEF Place
  <2>4. x \in P /\ Place(P, x) = k - 1
    BY <2>2
  <2> HIDE DEF x
  <2> QED  BY <2>3, <2>4
<1>4. ASSUME NEW p \in P
      PROVE  /\ Place(P, p) + 1 \in 1 .. Cardinality(P)
             /\ Ascending(P)[Place(P, p) + 1] = p
  <2> DEFINE k == Place(P, p) + 1
             q == Ascending(P)[k]
  <2>1. p \in Nat /\ Place(P, p) \in 0 .. Cardinality(P) - 1
    BY PlaceGrows
  <2>2. k \in 1 .. Cardinality(P)
    BY <1>1, <2>1
  <2>3. q \in P /\ Place(P, q) = k - 1
    BY <1>3, <2>2
  <2>4. q \in Nat /\ Place(P, q) = Place(P, p)
    <3> HIDE DEF q
    <3> QED  BY <2>1, <2>3
  <2> HIDE DEF q, k
  <2>5. ~(p < q) /\ ~(q < p)
    BY <2>1, <2>3, <2>4, PlaceGrows
  <2>6. q = p
    BY <2>1, <2>4, <2>5
  <2> QED  BY <2>2, <2>6 DEF q, k
<1>5. Ascending(P) \in [1 .. Cardinality(P) -> P]
  <2> DEFINE a(k) == CHOOSE i \in P : Cardinality({j \in P : j < i}) = k - 1
  <2>1. Ascending(P) = [k \in 1 .. Cardinality(P) |-> a(k)]
    BY DEF Ascending
  <2>2. \A k \in 1 .. Cardinality(P) : a(k) \in P
    BY <1>2, <1>3
  <2> HIDE DEF a
  <2> QED  BY <2>1, <2>2
<1> QED  BY <1>1, <1>3, <1>4, <1>5

\* It is the only increasing list of them.
LEMMA AscendingIsUnique ==
    ASSUME NEW c \in Seq(Nat), Increasing(c)
    PROVE  /\ ToSet(c) \in SUBSET Nat /\ IsFiniteSet(ToSet(c))
           /\ Cardinality(ToSet(c)) = Len(c)
           /\ \A k \in 1 .. Len(c) : Place(ToSet(c), c[k]) = k - 1
           /\ Ascending(ToSet(c)) = c
<1> DEFINE P == ToSet(c)
<1>1. Len(c) \in Nat /\ c \in [1 .. Len(c) -> Nat]
  OBVIOUS
<1>2. P = {c[k] : k \in 1 .. Len(c)}
  BY <1>1 DEF ToSet
<1>3. P \in SUBSET Nat
  BY <1>1, <1>2
<1>4. \A i, k \in 1 .. Len(c) : c[i] = c[k] => i = k
  <2> SUFFICES ASSUME NEW i \in 1 .. Len(c), NEW k \in 1 .. Len(c), c[i] = c[k]
               PROVE  i = k
    OBVIOUS
  <2>1. i \in Nat /\ k \in Nat /\ c[i] \in Nat /\ c[k] \in Nat
    BY <1>1
  <2>2. ~(i < k) /\ ~(k < i)
    BY <2>1 DEF Increasing
  <2> QED  BY <2>1, <2>2
<1>5. \A m \in 0 .. Len(c) :
          IsFiniteSet({c[k] : k \in 1 .. m}) /\ Cardinality({c[k] : k \in 1 .. m}) = m
  <2> TAKE m \in 0 .. Len(c)
  <2> DEFINE S == {c[k] : k \in 1 .. m}
             g == [k \in 1 .. m |-> c[k]]
  <2>1. m \in Nat /\ 1 .. m \subseteq 1 .. Len(c)
    BY <1>1
  <2>2. g \in [1 .. m -> S] /\ \A t \in S : \E k \in 1 .. m : g[k] = t
    OBVIOUS
  <2>3. \A i, k \in 1 .. m : g[i] = g[k] => i = k
    BY <1>4, <2>1
  <2> HIDE DEF g, S
  <2>4. g \in Bijection(1 .. m, S)
    BY <2>2, <2>3 DEF Bijection, Injection, Surjection, IsInjective
  <2>5. IsFiniteSet(1 .. m) /\ Cardinality(1 .. m) = IF 1 > m THEN 0 ELSE m - 1 + 1
    BY <2>1, FS_Interval
  <2>6. Cardinality(1 .. m) = m
    BY <2>1, <2>5
  <2>7. ExistsBijection(1 .. m, S)
    BY <2>4 DEF ExistsBijection
  <2>8. IsFiniteSet(S) /\ Cardinality(S) = m
    BY <2>5, <2>6, <2>7, FS_Bijection
  <2> QED  BY <2>8 DEF S
<1>6. IsFiniteSet(P) /\ Cardinality(P) = Len(c)
  <2>1. Len(c) \in 0 .. Len(c)
    BY <1>1
  <2> HIDE DEF P
  <2> QED  BY <1>2, <1>5, <2>1
<1>7. \A k \in 1 .. Len(c) : Place(P, c[k]) = k - 1
  <2> TAKE k \in 1 .. Len(c)
  <2>1. k - 1 \in 0 .. Len(c) /\ k \in Nat
    BY <1>1
  <2>2. \A i \in 1 .. Len(c) : i \in Nat /\ c[i] \in Nat
    BY <1>1
  <2>3. \A i \in 1 .. Len(c) : c[i] < c[k] <=> i < k
    <3> TAKE i \in 1 .. Len(c)
    <3>1. i < k => c[i] < c[k]
      BY DEF Increasing
    <3>2. k < i => c[k] < c[i]
      BY DEF Increasing
    <3> QED  BY <2>2, <3>1, <3>2
  <2>4. {j \in P : j < c[k]} = {c[i] : i \in 1 .. k - 1}
    BY <1>2, <2>1, <2>2, <2>3, SMTT(30)
  <2> HIDE DEF P
  <2> QED  BY <1>5, <2>1, <2>4 DEF Place
<1>8. Ascending(P) = c
  <2>1. Ascending(P) \in [1 .. Len(c) -> P]
    BY <1>3, <1>6, AscendingLists
  <2>2. \A k \in 1 .. Len(c) : Ascending(P)[k] = c[k]
    <3> TAKE k \in 1 .. Len(c)
    <3>1. c[k] \in P
      BY <1>2
    <3>2. Ascending(P)[Place(P, c[k]) + 1] = c[k]
      BY <1>3, <1>6, <3>1, AscendingLists
    <3>3. (k - 1) + 1 = k
      BY <1>1
    <3> QED  BY <1>7, <3>2, <3>3
  <2> HIDE DEF P
  <2> QED  BY <1>1, <2>1, <2>2
<1> QED  BY <1>3, <1>6, <1>7, <1>8
-----------------------------------------------------------------------------
(* What is left of a sequence.                                              *)

Kept(s, P) == P \cap Positions(s)

\* Positions of a sequence are a finite set of numbers, and so are any of them.
LEMMA KeptIsFinite ==
    ASSUME NEW S, NEW s \in Seq(S), NEW P
    PROVE  /\ Kept(s, P) \in SUBSET Nat /\ IsFiniteSet(Kept(s, P))
           /\ Kept(s, P) \subseteq 0 .. Len(s) - 1
           /\ Cardinality(Kept(s, P)) \in Nat
<1>1. Len(s) \in Nat /\ 0 \in Int /\ Len(s) - 1 \in Int
  OBVIOUS
<1>2. IsFiniteSet(0 .. Len(s) - 1)
  BY <1>1, FS_Interval
<1>3. Kept(s, P) \in SUBSET (0 .. Len(s) - 1)
  BY DEF Kept, Positions
<1>4. IsFiniteSet(Kept(s, P))
  BY <1>2, <1>3, FS_Subset
<1> QED  BY <1>1, <1>3, <1>4, FS_CardinalityType

\* An element that is kept is found at its place among those that are kept.
LEMMA KeepPositionsKeeps ==
    ASSUME NEW S, NEW s \in Seq(S), NEW P
    PROVE  /\ KeepPositions(s, P) \in Seq(S)
           /\ Len(KeepPositions(s, P)) = Cardinality(Kept(s, P))
           /\ \A k \in 1 .. Cardinality(Kept(s, P)) :
                 /\ Ascending(Kept(s, P))[k] \in Kept(s, P)
                 /\ KeepPositions(s, P)[k] = Nth(s, Ascending(Kept(s, P))[k])
           /\ \A i \in Kept(s, P) :
                 /\ Place(Kept(s, P), i) \in Positions(KeepPositions(s, P))
                 /\ Nth(KeepPositions(s, P), Place(Kept(s, P), i)) = Nth(s, i)
           /\ ToSet(KeepPositions(s, P)) = {Nth(s, i) : i \in Kept(s, P)}
<1> DEFINE Q == Kept(s, P)
           a == Ascending(Q)
           n == Cardinality(Q)
           t == KeepPositions(s, P)
<1>1. Q \in SUBSET Nat /\ IsFiniteSet(Q) /\ Q \subseteq 0 .. Len(s) - 1 /\ n \in Nat
  BY KeptIsFinite
<1>2. a \in [1 .. n -> Q] /\ \A i \in Q : Place(Q, i) + 1 \in 1 .. n /\ a[Place(Q, i) + 1] = i
  <2> HIDE DEF Q
  <2> QED  BY <1>1, AscendingLists
<1>3. t = [k \in DOMAIN a |-> Nth(s, a[k])]
  BY DEF KeepPositions, Kept
<1> HIDE DEF Q, a, n, t
<1>4. \A i \in Q : Nth(s, i) \in S
  BY <1>1 DEF Nth
<1>5. \A k \in 1 .. n : a[k] \in Q /\ t[k] = Nth(s, a[k])
  BY <1>2, <1>3
<1>6. t \in [1 .. n -> S]
  BY <1>2, <1>3, <1>4
<1>7. t \in Seq(S) /\ Len(t) = n
  BY <1>1, <1>6
<1>8. ASSUME NEW i \in Q
      PROVE  Place(Q, i) \in Positions(t) /\ Nth(t, Place(Q, i)) = Nth(s, i)
  <2>1. Place(Q, i) \in 0 .. n - 1
    BY <1>1, PlaceGrows DEF n
  <2>2. t[Place(Q, i) + 1] = Nth(s, i)
    BY <1>2, <1>5
  <2> QED  BY <1>7, <2>1, <2>2 DEF Positions, Nth
<1>9. ToSet(t) = {Nth(s, i) : i \in Q}
  <2>1. ToSet(t) = {t[k] : k \in 1 .. n}
    BY <1>6 DEF ToSet
  <2>2. \A i \in Q : \E k \in 1 .. n : t[k] = Nth(s, i)
    BY <1>2, <1>5
  <2>3. \A k \in 1 .. n : \E i \in Q : t[k] = Nth(s, i)
    BY <1>5
  <2> QED  BY <2>1, <2>2, <2>3
<1> QED  BY <1>5, <1>7, <1>8, <1>9 DEF Q, a, n, t

\* What is kept of an increasing sequence is increasing.
LEMMA KeepPositionsIncreases ==
    ASSUME NEW s \in Seq(Nat), Increasing(s), NEW P
    PROVE  Increasing(KeepPositions(s, P))
<1> DEFINE Q == Kept(s, P)
           a == Ascending(Q)
           n == Cardinality(Q)
           t == KeepPositions(s, P)
<1>1. Q \in SUBSET Nat /\ IsFiniteSet(Q) /\ Q \subseteq 0 .. Len(s) - 1 /\ n \in Nat
  BY KeptIsFinite
<1>2. Len(t) = n /\ \A k \in 1 .. n : a[k] \in Q /\ t[k] = s[a[k] + 1]
  BY KeepPositionsKeeps DEF Nth
<1>3. \A k \in 1 .. n : Place(Q, a[k]) = k - 1
  <2> HIDE DEF Q
  <2> QED  BY <1>1, AscendingLists
<1> HIDE DEF Q, a, n, t
<1>4. ASSUME NEW i \in 1 .. n, NEW k \in 1 .. n, i < k
      PROVE  t[i] < t[k]
  <2>0. Len(s) \in Nat /\ a[i] \in 0 .. Len(s) - 1 /\ a[k] \in 0 .. Len(s) - 1
    <3>1. a[i] \in Q /\ a[k] \in Q
      BY <1>2
    <3>2. Len(s) \in Nat
      OBVIOUS
    <3> QED  BY <1>1, <3>1, <3>2
  <2>1. a[i] \in Nat /\ a[k] \in Nat /\ a[i] + 1 \in 1 .. Len(s) /\ a[k] + 1 \in 1 .. Len(s)
    BY <2>0, SMTT(30)
  <2>2. Place(Q, a[i]) < Place(Q, a[k])
    BY <1>3, <1>4
  <2>3. Place(Q, a[i]) \in Nat /\ Place(Q, a[k]) \in Nat
    <3>1. Place(Q, a[i]) = i - 1 /\ Place(Q, a[k]) = k - 1
      BY <1>3
    <3>2. i - 1 \in Nat /\ k - 1 \in Nat
      BY <1>1
    <3> QED  BY ONLY <3>1, <3>2
  <2>4. ~(a[k] <= a[i])
    <3>1. a[k] <= a[i] => Place(Q, a[k]) <= Place(Q, a[i])
      BY <1>1, <2>1, PlaceGrows
    <3> QED  BY <2>2, <2>3, <3>1
  <2>5. a[i] + 1 < a[k] + 1
    BY <2>1, <2>4
  <2> QED  BY <1>2, <2>1, <2>5 DEF Increasing
<1> QED  BY <1>2, <1>4 DEF Increasing, t

\* Among keeps the elements of a set, and the order they have.
LEMMA AmongKeeps ==
    ASSUME NEW S, NEW s \in Seq(S), NEW T
    PROVE  /\ Among(s, T) \in Seq(S)
           /\ ToSet(Among(s, T)) = ToSet(s) \cap T
<1> DEFINE P == {i \in Positions(s) : Nth(s, i) \in T}
<1>1. Kept(s, P) = P
  BY DEF Kept
<1>2. Among(s, T) \in Seq(S) /\ ToSet(Among(s, T)) = {Nth(s, i) : i \in P}
  BY <1>1, KeepPositionsKeeps DEF Among
<1>3. ToSet(s) = {s[k] : k \in 1 .. Len(s)} /\ Len(s) \in Nat
  BY DEF ToSet
<1>4. \A i \in Positions(s) : i + 1 \in 1 .. Len(s) /\ Nth(s, i) = s[i + 1]
  BY <1>3 DEF Positions, Nth
<1>5. \A k \in 1 .. Len(s) : k - 1 \in Positions(s) /\ Nth(s, k - 1) = s[k]
  BY <1>3 DEF Positions, Nth
<1>6. \A i \in P : Nth(s, i) \in ToSet(s) \cap T
  BY <1>3, <1>4
<1>7. \A x \in ToSet(s) \cap T : \E i \in P : x = Nth(s, i)
  BY <1>3, <1>5
<1> HIDE DEF P
<1> QED  BY <1>2, <1>6, <1>7

\* Remapped gives an element its place among those that are kept.
LEMMA RemappedIsPlace ==
    ASSUME NEW count \in Nat, NEW kept \in SUBSET Nat
    PROVE  /\ DOMAIN Remapped(count, kept) = kept \cap (0 .. count - 1)
           /\ \A i \in kept \cap (0 .. count - 1) :
                 Remapped(count, kept)[i] = Place(kept \cap (0 .. count - 1), i)
<1>1. DOMAIN Remapped(count, kept) = kept \cap (0 .. count - 1)
  BY DEF Remapped
<1>2. ASSUME NEW i \in kept \cap (0 .. count - 1)
      PROVE  Remapped(count, kept)[i] = Place(kept \cap (0 .. count - 1), i)
  <2>1. Remapped(count, kept)[i] = Cardinality({j \in kept : j < i})
    BY DEF Remapped
  <2>2. \A j \in kept : j \in Nat /\ (j < i => j \in 0 .. count - 1)
    OBVIOUS
  <2>3. {j \in kept : j < i} = {j \in kept \cap (0 .. count - 1) : j < i}
    BY <2>2
  <2> QED  BY <2>1, <2>3 DEF Place
<1> QED  BY <1>1, <1>2
-----------------------------------------------------------------------------
(* Constraints: the LODs to be loaded, in increasing order.                 *)

IsConstraint(c, n) == c \in Seq(Nat) /\ Increasing(c) /\ \A k \in 1 .. Len(c) : c[k] < n

\* The LODs that a file has are a constraint on it.
LEMMA ClampIsConstraint ==
    ASSUME NEW c \in Seq(Nat), Increasing(c), NEW n \in Nat
    PROVE  IsConstraint(ClampTo(c, n), n)
<1> DEFINE t == ClampTo(c, n)
<1>1. t \in Seq(Nat) /\ ToSet(t) = ToSet(c) \cap (0 .. n - 1)
  BY AmongKeeps DEF ClampTo
<1>2. Increasing(t)
  BY KeepPositionsIncreases DEF ClampTo, Among
<1> HIDE DEF t
<1>3. \A k \in 1 .. Len(t) : t[k] \in ToSet(t)
  BY <1>1 DEF ToSet
<1>4. \A k \in 1 .. Len(t) : t[k] < n
  BY <1>1, <1>3
<1> QED  BY <1>1, <1>2, <1>4 DEF IsConstraint, t

\* A constraint picks what is at its LODs.
LEMMA ApplyToPicks ==
    ASSUME NEW n \in Nat, NEW c, IsConstraint(c, n), NEW S, NEW lods \in Seq(S), Len(lods) = n
    PROVE  /\ ApplyTo(c, lods) \in [1 .. Len(c) -> S]
           /\ Len(c) \in Nat /\ Len(ApplyTo(c, lods)) = Len(c)
           /\ \A k \in 1 .. Len(c) : /\ c[k] \in 0 .. n - 1
                                     /\ ApplyTo(c, lods)[k] = lods[c[k] + 1]
<1> DEFINE P == ToSet(c)
           t == ApplyTo(c, lods)
<1>1. c \in Seq(Nat) /\ Len(c) \in Nat /\ Increasing(c) /\ \A k \in 1 .. Len(c) : c[k] \in 0 .. n - 1
  <2>1. c \in Seq(Nat) /\ Len(c) \in Nat /\ Increasing(c)
    BY DEF IsConstraint
  <2>2. \A k \in 1 .. Len(c) : c[k] \in Nat /\ c[k] < n
    BY <2>1 DEF IsConstraint
  <2> QED  BY <2>1, <2>2
<1>2. lods \in Seq(S) /\ Len(lods) = n
  OBVIOUS
<1>3. P \subseteq 0 .. n - 1
  BY <1>1 DEF ToSet
<1>4. Kept(lods, P) = P
  BY <1>2, <1>3 DEF Kept, Positions
<1>5. Cardinality(P) = Len(c) /\ Ascending(P) = c
  BY <1>1, AscendingIsUnique
<1> HIDE DEF P
<1>6. t \in Seq(S) /\ Len(t) = Len(c) /\ \A k \in 1 .. Len(c) : t[k] = Nth(lods, c[k])
  BY <1>2, <1>4, <1>5, KeepPositionsKeeps DEF ApplyTo, P
<1> HIDE DEF t
<1>7. t \in [1 .. Len(c) -> S]
  BY <1>6
<1> QED  BY <1>1, <1>6, <1>7 DEF Nth, t

\* A constraint that has every LOD lists them one by one.
LEMMA AllLODs ==
    ASSUME NEW n \in Nat, NEW c, IsConstraint(c, n), 0 .. n - 1 \subseteq ToSet(c)
    PROVE  Len(c) = n /\ \A k \in 1 .. n : c[k] = k - 1
<1> DEFINE id == [k \in 1 .. n |-> k - 1]
<1>1. c \in Seq(Nat) /\ Increasing(c) /\ \A k \in 1 .. Len(c) : c[k] \in 0 .. n - 1
  <2>1. c \in Seq(Nat) /\ Increasing(c)
    BY DEF IsConstraint
  <2>2. \A k \in 1 .. Len(c) : c[k] \in Nat /\ c[k] < n
    BY <2>1 DEF IsConstraint
  <2> QED  BY <2>1, <2>2
<1>2. id \in [1 .. n -> Nat] /\ \A k \in 1 .. n : id[k] = k - 1
  OBVIOUS
<1> HIDE DEF id
<1>3. id \in Seq(Nat) /\ Len(id) = n
  BY <1>2
<1>4. Increasing(id)
  BY <1>2, <1>3 DEF Increasing
<1>5. ToSet(c) = 0 .. n - 1
  BY <1>1 DEF ToSet
<1>6. ToSet(id) = 0 .. n - 1
  <2>1. ToSet(id) = {id[k] : k \in 1 .. n}
    BY <1>2 DEF ToSet
  <2>2. \A i \in 0 .. n - 1 : i + 1 \in 1 .. n /\ id[i + 1] = i
    BY <1>2
  <2> QED  BY <1>2, <2>1, <2>2
<1>7. c = id
  BY <1>1, <1>3, <1>4, <1>5, <1>6, AscendingIsUnique
<1> QED  BY <1>2, <1>3, <1>7

\* When a constraint has no impact on a file, it has every LOD of the file: hasImpactOn
\* counts the LODs that it meets one after the other.
LEMMA NoImpact ==
    ASSUME NEW n \in Nat, NEW c, IsConstraint(c, n), ~HasImpactOn(c, n)
    PROVE  Len(c) = n /\ \A k \in 1 .. n : c[k] = k - 1
<1>1. c \in Seq(Nat) /\ Len(c) \in Nat /\ Increasing(c) /\ \A k \in 1 .. Len(c) : c[k] \in Nat /\ c[k] < n
  BY DEF IsConstraint
<1> DEFINE Counted(lod, k) == IF lod < n /\ lod = c[k] THEN lod + 1 ELSE lod
           Counts(f) == f = [k \in 0 .. Len(c) |-> IF k = 0 THEN 0 ELSE Counted(f[k - 1], k)]
           Broken == {k \in 1 .. Len(c) : c[k] # k - 1}
<1>2. PICK m \in 0 .. Len(c) :
         (\A k \in 1 .. m : c[k] = k - 1) /\ (m < Len(c) => c[m + 1] # m)
  <2>1. CASE Broken = {}
    <3>1. \A k \in 1 .. Len(c) : c[k] = k - 1
      BY <2>1
    <3> QED  BY <1>1, <3>1
  <2>2. CASE Broken # {}
    <3>1. Broken \in SUBSET Nat
      OBVIOUS
    <3>2. PICK b \in Broken : \A k \in Broken : b <= k
      <4> HIDE DEF Broken
      <4> QED  BY <2>2, <3>1, LeastNumber
    <3>3. b \in 1 .. Len(c) /\ c[b] # b - 1
      OBVIOUS
    <3>4. \A k \in 1 .. b - 1 : c[k] = k - 1
      <4> TAKE k \in 1 .. b - 1
      <4>1. k \in 1 .. Len(c) /\ k < b /\ k \in Nat /\ b \in Nat
        BY <1>1, <3>3
      <4>2. k \notin Broken
        BY <3>2, <4>1
      <4> QED  BY <4>1, <4>2
    <3>5. b - 1 \in 0 .. Len(c) /\ (b - 1) + 1 = b
      BY <1>1, <3>3
    <3> QED  BY <3>3, <3>4, <3>5
  <2> QED  BY <2>1, <2>2
<1>3. \A k \in 1 .. Len(c) : k > m => c[k] # m
  <2> SUFFICES ASSUME NEW k \in 1 .. Len(c), k > m  PROVE  c[k] # m
    OBVIOUS
  <2>1. m \in Nat /\ k \in Nat /\ m + 1 \in 1 .. Len(c) /\ m < Len(c)
    BY <1>1
  <2>2. c[m + 1] # m /\ c[m + 1] \in Nat
    BY <1>1, <1>2, <2>1
  <2>3. c[m + 1] >= m
    <3>1. CASE m = 0
      BY <2>2, <3>1
    <3>2. CASE m # 0
      <4>1. m \in 1 .. m /\ m \in 1 .. Len(c)
        BY <2>1, <3>2
      <4>2. c[m] = m - 1
        BY <1>2, <4>1
      <4>3. c[m] < c[m + 1]
        BY <1>1, <2>1, <4>1 DEF Increasing
      <4> QED  BY <2>1, <2>2, <4>2, <4>3
    <3> QED  BY <3>1, <3>2
  <2>4. k = m + 1 \/ c[m + 1] < c[k]
    BY <1>1, <2>1 DEF Increasing
  <2>5. c[k] \in Nat
    BY <1>1
  <2> QED  BY <2>1, <2>2, <2>3, <2>4, <2>5
<1> DEFINE g == [k \in 0 .. Len(c) |-> IF k <= m THEN k ELSE m]
<1>4. Counts(g)
  <2>1. \A k \in 0 .. Len(c) : g[k] = IF k <= m THEN k ELSE m
    OBVIOUS
  <2>2. ASSUME NEW k \in 0 .. Len(c)
        PROVE  (IF k <= m THEN k ELSE m) = (IF k = 0 THEN 0 ELSE Counted(g[k - 1], k))
    <3>1. CASE k = 0
      BY <3>1
    <3>2. CASE k # 0 /\ k <= m
      <4>1. k \in 1 .. m /\ k \in 1 .. Len(c) /\ k - 1 \in 0 .. Len(c) /\ k - 1 <= m
        BY <1>1, <3>2
      <4>2. g[k - 1] = k - 1
        BY <2>1, <4>1
      <4>3. c[k] = k - 1 /\ c[k] < n
        BY <1>1, <1>2, <4>1
      <4> HIDE DEF g
      <4>4. Counted(g[k - 1], k) = (k - 1) + 1
        BY <4>2, <4>3
      <4> QED  BY <3>2, <4>1, <4>4
    <3>3. CASE k # 0 /\ ~(k <= m)
      <4>1. k \in 1 .. Len(c) /\ k - 1 \in 0 .. Len(c) /\ k > m /\ m <= k - 1
        BY <1>1, <3>3
      <4>2. g[k - 1] = m
        BY <2>1, <4>1
      <4>3. c[k] # m
        BY <1>3, <4>1
      <4> HIDE DEF g
      <4>4. Counted(g[k - 1], k) = m
        BY <4>2, <4>3
      <4> QED  BY <3>3, <4>4
    <3> QED  BY <3>1, <3>2, <3>3
  <2> HIDE DEF Counted
  <2> QED  BY <2>2
<1> DEFINE f == CHOOSE h : Counts(h)
<1>5. Counts(f)
  <2> HIDE DEF Counts, g
  <2> QED  BY <1>4
<1>6. n = f[Len(c)]
  BY DEF HasImpactOn
<1> HIDE DEF f, g
<1>7. \A k \in 0 .. Len(c) : f[k] = IF k <= m THEN k ELSE m
  <2> DEFINE Wrong == {k \in 0 .. Len(c) : f[k] # IF k <= m THEN k ELSE m}
  <2>1. \A k \in 0 .. Len(c) : f[k] = IF k = 0 THEN 0 ELSE Counted(f[k - 1], k)
    BY <1>5
  <2> SUFFICES ASSUME Wrong # {} PROVE FALSE
    OBVIOUS
  <2>2. Wrong \in SUBSET Nat
    OBVIOUS
  <2>3. PICK k \in Wrong : \A j \in Wrong : k <= j
    <3> HIDE DEF Wrong
    <3> QED  BY <2>2, LeastNumber
  <2>4. k \in 0 .. Len(c) /\ f[k] # IF k <= m THEN k ELSE m
    OBVIOUS
  <2>5. k # 0
    BY <2>1, <2>4
  <2>6. k - 1 \in 0 .. Len(c) /\ k - 1 < k /\ k \in 1 .. Len(c)
    BY <1>1, <2>4, <2>5
  <2>7. k - 1 \notin Wrong
    BY <2>3, <2>6
  <2>8. f[k - 1] = IF k - 1 <= m THEN k - 1 ELSE m
    BY <2>6, <2>7
  <2>9. f[k] = Counted(f[k - 1], k)
    BY <2>1, <2>4, <2>5
  <2>10. CASE k <= m
    <3>1. c[k] = k - 1 /\ c[k] < n /\ k - 1 <= m
      BY <1>1, <1>2, <2>6, <2>10
    <3>2. f[k] = (k - 1) + 1
      BY <2>8, <2>9, <3>1
    <3> QED  BY <2>4, <2>6, <2>10, <3>2
  <2>11. CASE ~(k <= m)
    <3>1. c[k] # m
      BY <1>3, <2>6, <2>11
    <3>2. f[k - 1] = m
      BY <2>6, <2>8, <2>11
    <3>3. f[k] = m
      BY <2>9, <3>1, <3>2
    <3> QED  BY <2>4, <2>11, <3>3
  <2> QED  BY <2>10, <2>11
<1>8. n = m
  BY <1>1, <1>6, <1>7
<1>9. 0 .. n - 1 \subseteq ToSet(c)
  <2>1. \A i \in 0 .. n - 1 : i + 1 \in 1 .. m /\ i + 1 \in 1 .. Len(c) /\ i = c[i + 1]
    <3> TAKE i \in 0 .. n - 1
    <3>1. i + 1 \in 1 .. m /\ i + 1 \in 1 .. Len(c)
      BY <1>1, <1>8
    <3>2. c[i + 1] = (i + 1) - 1
      BY <1>2, <3>1
    <3> QED  BY <3>1, <3>2
  <2>2. ToSet(c) = {c[k] : k \in 1 .. Len(c)}
    BY <1>1 DEF ToSet
  <2> QED  BY <2>1, <2>2
<1> QED  BY <1>9, AllLODs
-----------------------------------------------------------------------------
(* Mappings: which elements each LOD has.                                   *)

\* What a well-formed mapping gives for a LOD.
LEMMA MappingGives ==
    ASSUME NEW n \in Nat, NEW count \in Nat, NEW m, IsMapping(m, n, count)
    PROVE  /\ m.lods \in [1 .. n -> Nat] /\ Len(m.lods) = n
           /\ m.indices \in Seq(Seq(Nat)) /\ Len(m.indices) \in Nat
           /\ \A k \in 1 .. n : m.lods[k] \in Positions(m.indices)
           /\ \A lod \in 0 .. n - 1 :
                 /\ GetIndices(m, lod) = Nth(m.indices, m.lods[lod + 1])
                 /\ GetIndices(m, lod) \in Seq(0 .. count - 1)
                 /\ ToSet(GetIndices(m, lod)) \subseteq CombinedDistinctIndices(m)
           /\ \A i \in 1 .. Len(m.indices) : ToSet(m.indices[i]) \subseteq 0 .. count - 1
           /\ m = [lods |-> m.lods, indices |-> m.indices]
<1>1. m \in [lods : [1 .. n -> Nat], indices : Seq(Seq(Nat))]
  BY DEF IsMapping
<1>2. m.lods \in [1 .. n -> Nat] /\ Len(m.lods) = n
  BY <1>1
<1>3. m.indices \in Seq(Seq(Nat)) /\ Len(m.indices) \in Nat
  BY <1>1
<1>4. ASSUME NEW k \in 1 .. n PROVE m.lods[k] \in Positions(m.indices)
  <2>1. k - 1 \in 0 .. n - 1 /\ (k - 1) + 1 = k
    OBVIOUS
  <2>2. InTable(m, k - 1)
    BY <2>1 DEF IsMapping
  <2>3. m.lods[k] < Len(m.indices) /\ m.lods[k] \in Nat
    BY <1>2, <2>1, <2>2 DEF InTable, Nth
  <2> QED  BY <1>3, <2>3 DEF Positions
<1>5. ASSUME NEW i \in 1 .. Len(m.indices)
      PROVE  /\ ToSet(m.indices[i]) \subseteq 0 .. count - 1
             /\ ToSet(m.indices[i]) \subseteq CombinedDistinctIndices(m)
             /\ m.indices[i] \in Seq(0 .. count - 1)
  <2>1. ToSet(m.indices[i]) \subseteq CombinedDistinctIndices(m)
    BY DEF CombinedDistinctIndices
  <2>2. ToSet(m.indices[i]) \subseteq 0 .. count - 1
    BY <2>1 DEF IsMapping
  <2>3. m.indices[i] \in Seq(Nat)
    BY <1>3
  <2>4. ToSet(m.indices[i]) = {m.indices[i][k] : k \in 1 .. Len(m.indices[i])}
    BY <2>3 DEF ToSet
  <2>5. \A k \in 1 .. Len(m.indices[i]) : m.indices[i][k] \in 0 .. count - 1
    BY <2>2, <2>4
  <2> DEFINE t == m.indices[i]
  <2>6. t \in [1 .. Len(t) -> 0 .. count - 1] /\ Len(t) \in Nat
    <3> HIDE DEF t
    <3> QED  BY <2>3, <2>5, SMTT(30) DEF t
  <2>7. t \in Seq(0 .. count - 1)
    <3> HIDE DEF t
    <3> QED  BY <2>6
  <2> QED  BY <2>1, <2>2, <2>7
<1>6. ASSUME NEW lod \in 0 .. n - 1
      PROVE  /\ GetIndices(m, lod) = Nth(m.indices, m.lods[lod + 1])
             /\ GetIndices(m, lod) \in Seq(0 .. count - 1)
             /\ ToSet(GetIndices(m, lod)) \subseteq CombinedDistinctIndices(m)
  <2>1. lod + 1 \in 1 .. n /\ ~(lod >= n)
    OBVIOUS
  <2>2. GetIndices(m, lod) = Nth(m.indices, m.lods[lod + 1])
    BY <1>2, <2>1 DEF GetIndices, Nth
  <2>3. m.lods[lod + 1] \in Positions(m.indices)
    BY <1>4, <2>1
  <2>4. m.lods[lod + 1] + 1 \in 1 .. Len(m.indices)
    <3> DEFINE p == m.lods[lod + 1]
               N == Len(m.indices)
    <3>1. p \in 0 .. N - 1 /\ N \in Nat
      BY <1>3, <2>3 DEF Positions
    <3> HIDE DEF p, N
    <3>2. p + 1 \in 1 .. N
      BY <3>1
    <3> QED  BY <3>2 DEF p, N
  <2> QED  BY <1>5, <2>2, <2>4 DEF Nth
<1>7. m = [lods |-> m.lods, indices |-> m.indices]
  BY <1>1
<1> QED  BY <1>2, <1>3, <1>4, <1>5, <1>6, <1>7

\* In a range of numbers, what is in a set and what is not make up all of it.
LEMMA PlaceWithout ==
    ASSUME NEW n \in Nat, NEW U \in SUBSET (0 .. n - 1), NEW x \in 0 .. n
    PROVE  Place((0 .. n - 1) \ U, x) = x - Cardinality({i \in U : i < x})
<1> DEFINE S == 0 .. x - 1
           T == {i \in U : i < x}
<1>1. x \in Nat /\ 0 \in Int /\ x - 1 \in Int
  OBVIOUS
<1>2. IsFiniteSet(S) /\ Cardinality(S) = x
  <2>1. IsFiniteSet(S) /\ Cardinality(S) = IF 0 > x - 1 THEN 0 ELSE (x - 1) - 0 + 1
    BY <1>1, FS_Interval
  <2> QED  BY <1>1, <2>1
<1>3. S \cap T = T
  <2>1. \A i \in U : i \in Nat
    OBVIOUS
  <2>2. \A i \in U : i < x => i \in S
    BY <1>1, <2>1
  <2> HIDE DEF S
  <2> QED  BY <2>2
<1>4. {j \in (0 .. n - 1) \ U : j < x} = S \ T
  OBVIOUS
<1>5. Cardinality(S \ T) = Cardinality(S) - Cardinality(S \cap T)
  <2> HIDE DEF S, T
  <2> QED  BY <1>2, FS_Difference
<1> QED  BY <1>2, <1>3, <1>4, <1>5 DEF Place

\* Discarding LODs leaves the lists of the LODs that stay, in the place of which they are
\* found, and no other list.
LEMMA DiscardKeepsLists ==
    ASSUME NEW n \in Nat, NEW count \in Nat, NEW m, IsMapping(m, n, count),
           NEW c, IsConstraint(c, n)
    PROVE  /\ IsMapping(DiscardLODs(m, c), Len(c), count)
           /\ \A k \in 0 .. Len(c) - 1 :
                 GetIndices(DiscardLODs(m, c), k) = GetIndices(m, Nth(c, k))
           /\ \A x \in CombinedDistinctIndices(DiscardLODs(m, c)) :
                 \E k \in 0 .. Len(c) - 1 : x \in ToSet(GetIndices(m, Nth(c, k)))
<1> DEFINE L == ApplyTo(c, m.lods)
           r == DiscardLODs(m, c)
           N == Len(m.indices)
           used == ToSet(L)
           unused == Positions(m.indices) \ used
<1>1. /\ m.lods \in [1 .. n -> Nat] /\ m.indices \in Seq(Seq(Nat)) /\ N \in Nat
      /\ \A k \in 1 .. n : m.lods[k] \in 0 .. N - 1
  BY MappingGives DEF Positions
<1>2. m \in [lods : [1 .. n -> Nat], indices : Seq(Seq(Nat))]
  BY DEF IsMapping
<1>3. /\ L \in [1 .. Len(c) -> Nat] /\ Len(c) \in Nat /\ Len(L) = Len(c)
      /\ \A k \in 1 .. Len(c) : c[k] \in 0 .. n - 1 /\ L[k] = m.lods[c[k] + 1]
  <2> DEFINE lods == m.lods
  <2>3. lods \in [1 .. n -> Nat]
    BY <1>1
  <2> HIDE DEF lods
  <2>1. lods \in Seq(Nat) /\ Len(lods) = n
    BY <2>3
  <2>2. /\ ApplyTo(c, lods) \in [1 .. Len(c) -> Nat]
        /\ Len(c) \in Nat /\ Len(ApplyTo(c, lods)) = Len(c)
        /\ \A k \in 1 .. Len(c) : c[k] \in 0 .. n - 1 /\ ApplyTo(c, lods)[k] = lods[c[k] + 1]
    BY <2>1, ApplyToPicks
  <2> QED  BY <2>2 DEF lods
<1>4. r = [lods |-> [l \in 1 .. Len(L) |-> L[l] - Cardinality({i \in unused : i < L[l]})],
           indices |-> KeepPositions(m.indices, Positions(m.indices) \ unused)]
  <2>1. [m EXCEPT !.lods = L].lods = L /\ [m EXCEPT !.lods = L].indices = m.indices
    BY <1>2
  <2>2. r = CleanupIndices([m EXCEPT !.lods = L])
    BY DEF DiscardLODs
  <2> QED  BY <2>1, <2>2 DEF CleanupIndices
<1> HIDE DEF L, r
<1>5. \A k \in 1 .. Len(c) : L[k] \in 0 .. N - 1 /\ L[k] \in used
  <2>1. \A k \in 1 .. Len(c) : c[k] + 1 \in 1 .. n
    BY <1>3
  <2>2. used = {L[k] : k \in 1 .. Len(c)}
    BY <1>3 DEF ToSet
  <2> HIDE DEF N, used
  <2> QED  BY <1>1, <1>3, <2>1, <2>2
<1>6. used \subseteq 0 .. N - 1
  BY <1>3, <1>5 DEF ToSet
<1>7. unused \in SUBSET (0 .. N - 1) /\ (0 .. N - 1) \ unused = used
  BY <1>6 DEF Positions
<1>8. Kept(m.indices, Positions(m.indices) \ unused) = used
  BY <1>6 DEF Kept, Positions
<1>9. r.indices = KeepPositions(m.indices, Positions(m.indices) \ unused)
  BY <1>4
<1>10. \A k \in 1 .. Len(c) : r.lods[k] = Place(used, L[k])
  <2> TAKE k \in 1 .. Len(c)
  <2>1. r.lods[k] = L[k] - Cardinality({i \in unused : i < L[k]})
    BY <1>3, <1>4
  <2>2. L[k] \in 0 .. N
    BY <1>5
  <2> HIDE DEF N, used, unused
  <2>3. Place((0 .. N - 1) \ unused, L[k]) = L[k] - Cardinality({i \in unused : i < L[k]})
    BY <1>1, <1>7, <2>2, PlaceWithout
  <2> QED  BY <1>7, <2>1, <2>3
<1>11. DOMAIN r.lods = 1 .. Len(c) /\ r = [lods |-> r.lods, indices |-> r.indices]
  BY <1>3, <1>4
<1> HIDE DEF used, unused, N
<1>12. /\ r.indices \in Seq(Seq(Nat)) /\ ToSet(r.indices) = {Nth(m.indices, i) : i \in used}
       /\ \A i \in used : /\ Place(used, i) \in Positions(r.indices)
                          /\ Nth(r.indices, Place(used, i)) = Nth(m.indices, i)
  <2> DEFINE s == m.indices
             P == Positions(m.indices) \ unused
  <2>1. s \in Seq(Seq(Nat))
    BY <1>1
  <2>2. r.indices = KeepPositions(s, P) /\ Kept(s, P) = used
    BY <1>8, <1>9
  <2> HIDE DEF s, P
  <2>3. /\ KeepPositions(s, P) \in Seq(Seq(Nat))
        /\ ToSet(KeepPositions(s, P)) = {Nth(s, i) : i \in Kept(s, P)}
        /\ \A i \in Kept(s, P) :
              /\ Place(Kept(s, P), i) \in Positions(KeepPositions(s, P))
              /\ Nth(KeepPositions(s, P), Place(Kept(s, P), i)) = Nth(s, i)
    BY <2>1, KeepPositionsKeeps
  <2> QED  BY <2>2, <2>3 DEF s
<1>13. \A k \in 1 .. Len(c) : /\ r.lods[k] \in Positions(r.indices)
                              /\ Nth(r.indices, r.lods[k]) = Nth(m.indices, L[k])
  BY <1>5, <1>10, <1>12
<1>14. Len(r.indices) \in Nat
  BY <1>12
<1>15. r.lods \in [1 .. Len(c) -> Nat] /\ Len(r.lods) = Len(c)
  <2>1. \A k \in 1 .. Len(c) : r.lods[k] \in Nat
    BY <1>13, <1>14 DEF Positions
  <2>2. r.lods = [l \in 1 .. Len(c) |-> L[l] - Cardinality({i \in unused : i < L[l]})]
    BY <1>3, <1>4 DEF unused, used
  <2>3. r.lods \in [1 .. Len(c) -> Nat]
    BY <2>1, <2>2
  <2> QED  BY <1>3, <2>3
<1>16. \A k \in 0 .. Len(c) - 1 : InTable(r, k)
  <2> TAKE k \in 0 .. Len(c) - 1
  <2>1. k + 1 \in 1 .. Len(c)
    BY <1>3
  <2>2. r.lods[k + 1] \in 0 .. Len(r.indices) - 1
    BY <1>13, <2>1 DEF Positions
  <2> QED  BY <1>14, <2>2 DEF InTable, Nth
<1>17. \A k \in 0 .. Len(c) - 1 : GetIndices(r, k) = GetIndices(m, Nth(c, k))
  <2> TAKE k \in 0 .. Len(c) - 1
  <2>1. k + 1 \in 1 .. Len(c) /\ ~(k >= Len(c))
    BY <1>3
  <2>2. GetIndices(r, k) = Nth(r.indices, r.lods[k + 1])
    BY <1>15, <2>1 DEF GetIndices, Nth
  <2>3. Nth(c, k) = c[k + 1] /\ c[k + 1] \in 0 .. n - 1
    BY <1>3, <2>1 DEF Nth
  <2>4. GetIndices(m, c[k + 1]) = Nth(m.indices, m.lods[c[k + 1] + 1])
    BY <2>3, MappingGives
  <2> QED  BY <1>3, <1>13, <2>1, <2>2, <2>3, <2>4
<1>18. \A i \in 1 .. Len(r.indices) : \E k \in 0 .. Len(c) - 1 :
          r.indices[i] = GetIndices(m, Nth(c, k))
  <2> TAKE i \in 1 .. Len(r.indices)
  <2>1. r.indices[i] \in ToSet(r.indices)
    BY <1>12 DEF ToSet
  <2>2. PICK u \in used : r.indices[i] = Nth(m.indices, u)
    BY <1>12, <2>1
  <2>3. PICK k \in 1 .. Len(c) : u = L[k]
    BY <1>3 DEF used, ToSet
  <2>4. k - 1 \in 0 .. Len(c) - 1 /\ (k - 1) + 1 = k
    BY <1>3
  <2>5. Nth(c, k - 1) = c[k] /\ c[k] \in 0 .. n - 1
    BY <1>3, <2>4 DEF Nth
  <2>6. GetIndices(m, c[k]) = Nth(m.indices, m.lods[c[k] + 1])
    BY <2>5, MappingGives, SMTT(30)
  <2> QED  BY <1>3, <2>2, <2>3, <2>4, <2>5, <2>6
<1>19. ASSUME NEW x \in CombinedDistinctIndices(r)
       PROVE  \E k \in 0 .. Len(c) - 1 : x \in ToSet(GetIndices(m, Nth(c, k)))
  <2>1. PICK i \in 1 .. Len(r.indices) : x \in ToSet(r.indices[i])
    BY DEF CombinedDistinctIndices
  <2> QED  BY <1>18, <2>1
<1>20. CombinedDistinctIndices(r) \subseteq 0 .. count - 1
  <2> SUFFICES ASSUME NEW x \in CombinedDistinctIndices(r)  PROVE  x \in 0 .. count - 1
    OBVIOUS
  <2>1. PICK k \in 0 .. Len(c) - 1 : x \in ToSet(GetIndices(m, Nth(c, k)))
    BY <1>19
  <2>2. Nth(c, k) \in 0 .. n - 1
    <3>1. k + 1 \in 1 .. Len(c)
      BY <1>3
    <3> QED  BY <1>3, <3>1 DEF Nth
  <2>3. ToSet(GetIndices(m, Nth(c, k))) \subseteq CombinedDistinctIndices(m)
    BY <2>2, MappingGives
  <2> QED  BY <2>1, <2>3 DEF IsMapping
<1>21. r \in [lods : [1 .. Len(c) -> Nat], indices : Seq(Seq(Nat))]
  BY <1>11, <1>12, <1>15
<1> QED  BY <1>16, <1>17, <1>19, <1>20, <1>21 DEF r, IsMapping

\* A rewritten list has the rewritten elements.
LEMMA MappedElements ==
    ASSUME NEW S, NEW s \in Seq(S), NEW map
    PROVE  /\ Len(Mapped(s, map)) = Len(s)
           /\ ToSet(Mapped(s, map)) = {map[x] : x \in ToSet(s)}
           /\ \A k \in 1 .. Len(s) : Mapped(s, map)[k] = map[s[k]]
           /\ \A T : (\A x \in ToSet(s) : map[x] \in T) => Mapped(s, map) \in Seq(T)
<1> DEFINE t == Mapped(s, map)
<1>1. Len(s) \in Nat /\ ToSet(s) = {s[k] : k \in 1 .. Len(s)}
  BY DEF ToSet
<1>2. t = [k \in 1 .. Len(s) |-> map[s[k]]]
  BY DEF Mapped
<1> HIDE DEF t
<1>3. DOMAIN t = 1 .. Len(s) /\ \A k \in 1 .. Len(s) : t[k] = map[s[k]]
  BY <1>2
<1>4. ToSet(t) = {t[k] : k \in 1 .. Len(s)}
  BY <1>3 DEF ToSet
<1>5. ToSet(t) = {map[x] : x \in ToSet(s)}
  BY <1>1, <1>3, <1>4
<1>6. ASSUME NEW T, \A x \in ToSet(s) : map[x] \in T
      PROVE  t \in [1 .. Len(s) -> T]
  <2>1. \A k \in 1 .. Len(s) : map[s[k]] \in T
    BY <1>1, <1>6
  <2> QED  BY <1>2, <2>1
<1>7. Len(t) = Len(s)
  <2>1. t \in [1 .. Len(s) -> {map[x] : x \in ToSet(s)}]
    BY <1>6
  <2> QED  BY <1>1, <2>1
<1>8. \A T : (\A x \in ToSet(s) : map[x] \in T) => t \in Seq(T)
  <2> SUFFICES ASSUME NEW T, \A x \in ToSet(s) : map[x] \in T  PROVE  t \in Seq(T)
    OBVIOUS
  <2>1. t \in [1 .. Len(s) -> T]
    BY <1>6
  <2> QED  BY <1>1, <2>1
<1> QED  BY <1>3, <1>5, <1>7, <1>8 DEF t

\* A mapping whose lists are rewritten has the rewritten lists.
LEMMA MapIndicesGives ==
    ASSUME NEW n \in Nat, NEW count \in Nat, NEW d, IsMapping(d, n, count),
           NEW newCount \in Nat, NEW map,
           \A x \in CombinedDistinctIndices(d) : map[x] \in 0 .. newCount - 1
    PROVE  /\ IsMapping(MapIndices(d, map), n, newCount)
           /\ \A k \in 0 .. n - 1 :
                 /\ GetIndices(MapIndices(d, map), k) = Mapped(GetIndices(d, k), map)
                 /\ ToSet(GetIndices(MapIndices(d, map), k)) = {map[x] : x \in ToSet(GetIndices(d, k))}
<1> DEFINE e == MapIndices(d, map)
           N == Len(d.indices)
<1>1. /\ d.lods \in [1 .. n -> Nat] /\ Len(d.lods) = n
      /\ d.indices \in Seq(Seq(Nat)) /\ N \in Nat
      /\ d \in [lods : [1 .. n -> Nat], indices : Seq(Seq(Nat))]
  BY MappingGives DEF IsMapping
<1>2. e = [lods |-> d.lods, indices |-> [i \in 1 .. N |-> Mapped(d.indices[i], map)]]
  <2> DEFINE lists == [i \in 1 .. N |-> Mapped(d.indices[i], map)]
  <2>1. e = [d EXCEPT !.indices = lists]
    BY DEF MapIndices
  <2> HIDE DEF lists, e
  <2>2. e = [lods |-> d.lods, indices |-> lists]
    BY <1>1, <2>1
  <2> QED  BY <2>2 DEF lists
<1>3. e.lods = d.lods /\ \A i \in 1 .. N : e.indices[i] = Mapped(d.indices[i], map)
  BY <1>2
<1>4. e.indices = [i \in 1 .. N |-> Mapped(d.indices[i], map)]
  BY <1>2
<1>5. e = [lods |-> e.lods, indices |-> e.indices]
  BY <1>2
<1> HIDE DEF e
<1>6. ASSUME NEW i \in 1 .. N
      PROVE  Mapped(d.indices[i], map) \in Seq(0 .. newCount - 1)
  <2>1. d.indices[i] \in Seq(Nat)
    BY <1>1
  <2>2. ToSet(d.indices[i]) \subseteq CombinedDistinctIndices(d)
    BY DEF CombinedDistinctIndices
  <2> QED  BY <2>1, <2>2, MappedElements
<1>7. e.indices \in [1 .. N -> Seq(0 .. newCount - 1)]
  BY <1>4, <1>6
<1>8. e.indices \in Seq(Seq(0 .. newCount - 1)) /\ Len(e.indices) = N
  <2> DEFINE U == Seq(0 .. newCount - 1)
  <2>1. e.indices \in [1 .. N -> U] /\ N \in Nat
    BY <1>1, <1>7
  <2> HIDE DEF U, N
  <2>2. e.indices \in Seq(U) /\ Len(e.indices) = N
    BY <2>1
  <2> QED  BY <2>2 DEF U
<1>9. Seq(0 .. newCount - 1) \subseteq Seq(Nat)
  <2> SUFFICES ASSUME NEW s \in Seq(0 .. newCount - 1)  PROVE  s \in Seq(Nat)
    OBVIOUS
  <2>1. Len(s) \in Nat /\ s \in [1 .. Len(s) -> 0 .. newCount - 1]
    OBVIOUS
  <2>2. s \in [1 .. Len(s) -> Nat]
    BY <2>1
  <2> QED  BY <2>1, <2>2
<1>10. e.indices \in Seq(Seq(Nat))
  <2> DEFINE U == Seq(Nat)
  <2>1. e.indices \in [1 .. N -> U] /\ N \in Nat
    BY <1>1, <1>7, <1>9
  <2> HIDE DEF U, N
  <2>2. e.indices \in Seq(U)
    BY <2>1
  <2> QED  BY <2>2 DEF U
<1>11. CombinedDistinctIndices(e) \subseteq 0 .. newCount - 1
  <2>1. \A i \in 1 .. N : ToSet(e.indices[i]) \subseteq 0 .. newCount - 1
    <3> TAKE i \in 1 .. N
    <3>1. e.indices[i] \in Seq(0 .. newCount - 1)
      BY <1>3, <1>6
    <3> QED  BY <3>1 DEF ToSet
  <2> QED  BY <1>8, <2>1 DEF CombinedDistinctIndices
<1>12. \A k \in 0 .. n - 1 : InTable(d, k)
  BY DEF IsMapping
<1>13. \A k \in 0 .. n - 1 : InTable(e, k)
  BY <1>3, <1>8, <1>12 DEF InTable
<1>14. e \in [lods : [1 .. n -> Nat], indices : Seq(Seq(Nat))]
  BY <1>1, <1>3, <1>5, <1>10
<1>15. IsMapping(e, n, newCount)
  BY <1>11, <1>13, <1>14 DEF IsMapping
<1>16. ASSUME NEW k \in 0 .. n - 1
       PROVE  /\ GetIndices(e, k) = Mapped(GetIndices(d, k), map)
              /\ ToSet(GetIndices(e, k)) = {map[x] : x \in ToSet(GetIndices(d, k))}
  <2>1. k + 1 \in 1 .. n
    OBVIOUS
  <2>2. d.lods[k + 1] \in Positions(d.indices)
    BY <2>1, MappingGives
  <2>3. d.lods[k + 1] + 1 \in 1 .. N
    BY <1>1, <2>2 DEF Positions
  <2>4. GetIndices(e, k) = Nth(e.indices, e.lods[k + 1])
    BY <1>15, MappingGives
  <2>5. GetIndices(d, k) = Nth(d.indices, d.lods[k + 1])
    BY MappingGives
  <2>6. GetIndices(e, k) = Mapped(GetIndices(d, k), map)
    BY <1>3, <2>3, <2>4, <2>5 DEF Nth
  <2>7. GetIndices(d, k) \in Seq(0 .. count - 1)
    BY MappingGives
  <2> QED  BY <2>6, <2>7, MappedElements
<1> QED  BY <1>15, <1>16 DEF e

\* Each LOD that is loaded shows the elements that the LOD it stands for has in the file.
Shows(names, mapping, lods, fileNames, fileMapping, except) ==
    /\ Len(mapping.lods) = Len(lods)
    /\ \A lod \in 0 .. Len(lods) - 1 :
          /\ InTable(mapping, lod)
          /\ ToSet(GetIndices(mapping, lod)) \subseteq Positions(names)
          /\ ShownBy(names, mapping, lod) =
                 ShownBy(fileNames, fileMapping, Nth(lods, lod)) \ except

\* Lists that are rewritten to where elements are found among those that are kept show the
\* same elements.
LEMMA FilteredShows ==
    ASSUME NEW n \in Nat, NEW S, NEW names \in Seq(S), NEW m, IsMapping(m, n, Len(names)),
           NEW c, IsConstraint(c, n), NEW allowed \in SUBSET (0 .. Len(names) - 1),
           CombinedDistinctIndices(DiscardLODs(m, c)) \subseteq allowed,
           NEW map, \A i \in allowed : map[i] = Place(allowed, i)
    PROVE  /\ Shows(KeepPositions(names, allowed), MapIndices(DiscardLODs(m, c), map), c,
                    names, m, {})
           /\ IsMapping(MapIndices(DiscardLODs(m, c), map), Len(c), Len(KeepPositions(names, allowed)))
<1> DEFINE d == DiscardLODs(m, c)
           e == MapIndices(d, map)
           t == KeepPositions(names, allowed)
<1>1. Len(names) \in Nat /\ Len(c) \in Nat
  BY DEF IsConstraint
<1>2. Kept(names, allowed) = allowed
  BY DEF Kept, Positions
<1>3. /\ t \in Seq(S)
      /\ \A i \in allowed : Place(allowed, i) \in Positions(t) /\ Nth(t, Place(allowed, i)) = Nth(names, i)
  BY <1>2, KeepPositionsKeeps
<1>4. /\ IsMapping(d, Len(c), Len(names))
      /\ \A k \in 0 .. Len(c) - 1 : GetIndices(d, k) = GetIndices(m, Nth(c, k))
  BY <1>1, DiscardKeepsLists
<1> HIDE DEF d, t
<1>5. \A x \in CombinedDistinctIndices(d) : map[x] \in 0 .. Len(t) - 1
  BY <1>3 DEF Positions, d
<1>6. Len(t) \in Nat
  BY <1>3
<1>7. /\ IsMapping(e, Len(c), Len(t))
      /\ \A k \in 0 .. Len(c) - 1 :
            ToSet(GetIndices(e, k)) = {map[x] : x \in ToSet(GetIndices(d, k))}
  BY <1>1, <1>4, <1>5, <1>6, MapIndicesGives
<1> HIDE DEF e
<1>8. Len(e.lods) = Len(c)
  BY <1>1, <1>6, <1>7, MappingGives
<1>9. \A k \in 0 .. Len(c) - 1 : InTable(e, k)
  BY <1>7 DEF IsMapping
<1>10. ASSUME NEW k \in 0 .. Len(c) - 1
       PROVE  /\ ToSet(GetIndices(e, k)) \subseteq Positions(t)
              /\ ShownBy(t, e, k) = ShownBy(names, m, Nth(c, k))
  <2>1. ToSet(GetIndices(d, k)) \subseteq allowed
    BY <1>1, <1>4, MappingGives DEF d
  <2>2. ToSet(GetIndices(e, k)) = {map[x] : x \in ToSet(GetIndices(d, k))}
    BY <1>7
  <2>3. \A x \in ToSet(GetIndices(d, k)) : map[x] \in Positions(t) /\ Nth(t, map[x]) = Nth(names, x)
    BY <1>3, <2>1
  <2>4. ShownBy(t, e, k) = {Nth(names, x) : x \in ToSet(GetIndices(d, k))}
    BY <2>2, <2>3 DEF ShownBy
  <2> QED  BY <1>4, <2>2, <2>3, <2>4 DEF ShownBy
<1>11. Shows(t, e, c, names, m, {})
  BY <1>8, <1>9, <1>10 DEF Shows
<1> QED  BY <1>7, <1>11 DEF d, e, t

\* The numbers in Ascending order of a prefix of the numbers are the numbers themselves.
LEMMA PlaceInRange ==
    ASSUME NEW n \in Nat, NEW x \in 0 .. n
    PROVE  Place(0 .. n - 1, x) = x
<1>1. (0 .. n - 1) \ {} = 0 .. n - 1 /\ {i \in {} : i < x} = {} /\ x \in Int
  OBVIOUS
<1>2. {} \in SUBSET (0 .. n - 1)
  OBVIOUS
<1>3. Place((0 .. n - 1) \ {}, x) = x - Cardinality({i \in {} : i < x})
  BY <1>2, PlaceWithout
<1>4. Cardinality({i \in {} : i < x}) = 0
  BY <1>1, FS_EmptySet
<1> QED  BY <1>1, <1>3, <1>4
-----------------------------------------------------------------------------
(* The inductive invariant.                                                 *)

Fields == DOMAIN EmptyDNA

\* A request that can be found, whose channels and maps are in order.
RequestInv ==
    /\ Consistent(file) /\ IsConfig(config)
    /\ InOrder(file.lodBlendShapeMapping, file.lodCount)
    /\ InOrder(file.lodAnimatedMapMapping, file.lodCount)

\* Once the descriptor is loaded, the LODs are a constraint on those of the file.
LODsInv ==
    /\ step \in 1 .. 12
    /\ DOMAIN dna = Fields
    /\ DOMAIN archive = {"lods", "unconstrainedLODCount", "meshes", "joints", "channels",
                         "rootJointIndex", "loadedControls"}
    /\ IF step = 1 THEN archive.lods = config.lods
       ELSE /\ IsConstraint(archive.lods, file.lodCount)
            /\ archive.unconstrainedLODCount = file.lodCount
            /\ dna.lodCount = Len(archive.lods)

\* The lists of the file, although elements that no LOD has are gone from names.
SameLists(names, mapping, lods, fileMapping) ==
    /\ Numbered(names)
    /\ IsMapping(mapping, Len(lods), Len(names))
    /\ \A lod \in 0 .. Len(lods) - 1 :
          ToSet(GetIndices(mapping, lod)) = ToSet(GetIndices(fileMapping, Nth(lods, lod)))

\* A joint of a LOD that is kept is found under its new number.
JointIsFound(joint) ==
    /\ joint \in DOMAIN archive.joints.remapped
    /\ archive.joints.remapped[joint] \in Positions(dna.jointNames)
    /\ Nth(dna.jointNames, archive.joints.remapped[joint]) = joint

DefinitionInv ==
    step > 2 /\ Loads("defn") =>
    /\ Shows(dna.meshNames, dna.lodMeshMapping, archive.lods,
             file.meshNames, file.lodMeshMapping, {})
    /\ Shows(dna.jointNames, dna.lodJointMapping, archive.lods,
             file.jointNames, file.lodJointMapping, {})
    /\ SameLists(dna.animatedMapNames, dna.lodAnimatedMapMapping, archive.lods,
                 file.lodAnimatedMapMapping)
    /\ step < 12 => SameLists(dna.blendShapeChannelNames, dna.lodBlendShapeMapping,
                              archive.lods, file.lodBlendShapeMapping)
    /\ Filters => \A lod \in 0 .. Len(archive.lods) - 1 :
          \A j \in ToSet(GetIndices(file.lodJointMapping, InFile(lod))) : JointIsFound(j)
    /\ ~Filters => dna.jointNames = file.jointNames

\* Controls that the layers so far have brought along.
ControlsSoFar ==
    file.rawControlCount + (IF step > 3 THEN file.psdCount ELSE 0)
        + (IF step > 5 THEN file.mlControlCount ELSE 0)
        + (IF step > 7 THEN file.poseControlCount ELSE 0)

ControlsInv ==
    step > 2 /\ Loads("bhvr") =>
    /\ archive.loadedControls \in Seq(BOOLEAN)
    /\ Len(archive.loadedControls) = ControlsSoFar
    /\ \A control \in 0 .. ControlsSoFar - 1 :
          Nth(archive.loadedControls, control) <=> ControlIsLoaded(control)

BehaviorInv ==
    IF step > 3 /\ Loads("bhvr")
    THEN /\ dna.jointGroups =
                IF Filters THEN [g \in 1 .. Len(file.jointGroups) |-> FilteredGroup(file.jointGroups[g])]
                ELSE file.jointGroups
         /\ dna.animatedMaps = IF Filters THEN FilteredRows(file.animatedMaps) ELSE file.animatedMaps
         /\ step < 12 => dna.blendShapeChannels = IF Filters THEN FilteredRows(file.blendShapeChannels)
                                                  ELSE file.blendShapeChannels
    ELSE step < 12 => dna.blendShapeChannels = NoRows

NetworksInv ==
    step > 5 /\ Loads("mlbh") =>
        Shows(dna.neuralNetworks, dna.lodNeuralNetworkMapping, archive.lods,
              file.neuralNetworks, file.lodNeuralNetworkMapping, {})

SolversInv ==
    step > 6 /\ Loads("rbfb") =>
        Shows(dna.solvers, dna.lodSolverMapping, archive.lods,
              file.solvers, file.lodSolverMapping, {})

OperationsInv ==
    step > 10 /\ Loads("mlbh") =>
        \A s \in DOMAIN file.operations :
           Shows([o \in DOMAIN dna.operations[s] |-> dna.operations[s][o].name],
                 dna.lodMLOperationMappings[s], archive.lods,
                 [o \in DOMAIN file.operations[s] |-> file.operations[s][o].name],
                 file.lodMLOperationMappings[s], {})

PostInv ==
    step = 12 =>
    /\ Loads("defn") =>
          Shows(dna.blendShapeChannelNames, dna.lodBlendShapeMapping, archive.lods,
                file.blendShapeChannelNames, file.lodBlendShapeMapping, Undriven)
    /\ Loads("bhvr") => \A lod \in 0 .. Len(archive.lods) - 1 :
          /\ HasRows(dna.blendShapeChannels, dna.blendShapeChannelNames, lod)
          /\ RowsAt(dna.blendShapeChannels, dna.blendShapeChannelNames, lod) =
                {row \in RowsAt(file.blendShapeChannels, file.blendShapeChannelNames, InFile(lod)) :
                    row[2] \notin Undriven}

FilterInv ==
    /\ RequestInv
    /\ LODsInv
    /\ DefinitionInv
    /\ ControlsInv
    /\ BehaviorInv
    /\ NetworksInv /\ SolversInv /\ OperationsInv
    /\ PostInv
-----------------------------------------------------------------------------
(* Tables that are read as they are, and tables that are filtered.          *)

\* With all LODs, tables show what they show in the file.
LEMMA UnfilteredShows ==
    ASSUME NEW n \in Nat, NEW S, NEW names \in Seq(S), NEW m, IsMapping(m, n, Len(names)),
           NEW c, IsConstraint(c, n), ~HasImpactOn(c, n)
    PROVE  /\ Shows(names, m, c, names, m, {})
           /\ IsMapping(m, Len(c), Len(names))
           /\ \A lod \in 0 .. Len(c) - 1 : Nth(c, lod) = lod
<1>1. Len(c) = n /\ \A k \in 1 .. n : c[k] = k - 1
  BY NoImpact
<1>2. \A lod \in 0 .. n - 1 : Nth(c, lod) = lod
  <2> TAKE lod \in 0 .. n - 1
  <2>1. lod + 1 \in 1 .. n /\ (lod + 1) - 1 = lod
    OBVIOUS
  <2> QED  BY <1>1, <2>1 DEF Nth
<1>3. Len(names) \in Nat
  OBVIOUS
<1>4. Len(m.lods) = n
  BY <1>3, MappingGives
<1>5. \A lod \in 0 .. n - 1 : InTable(m, lod)
  BY DEF IsMapping
<1>6. \A lod \in 0 .. n - 1 : ToSet(GetIndices(m, lod)) \subseteq Positions(names)
  BY <1>3, MappingGives DEF Positions, IsMapping
<1> QED  BY <1>1, <1>2, <1>4, <1>5, <1>6 DEF Shows

\* What is kept of elements in order is the first ones of them.
LEMMA OrderedAreKept ==
    ASSUME NEW n \in Nat, NEW count \in Nat, NEW m, IsMapping(m, n, count), InOrder(m, n),
           NEW c, IsConstraint(c, n)
    PROVE  \E p \in 0 .. count : CombinedDistinctIndices(DiscardLODs(m, c)) = 0 .. p - 1
<1> DEFINE d == DiscardLODs(m, c)
           D == CombinedDistinctIndices(d)
           Out == {x \in Nat : x \notin D}
<1>1. /\ IsMapping(d, Len(c), count) /\ Len(c) \in Nat
      /\ \A k \in 0 .. Len(c) - 1 : GetIndices(d, k) = GetIndices(m, Nth(c, k))
      /\ \A x \in D : \E k \in 0 .. Len(c) - 1 : x \in ToSet(GetIndices(m, Nth(c, k)))
  BY DiscardKeepsLists DEF IsConstraint
<1> HIDE DEF d
<1>2. D \subseteq 0 .. count - 1
  BY <1>1 DEF IsMapping
<1>3. \A k \in 0 .. Len(c) - 1 : Nth(c, k) \in 0 .. n - 1
  <2> TAKE k \in 0 .. Len(c) - 1
  <2>1. k + 1 \in 1 .. Len(c)
    BY <1>1
  <2>2. c[k + 1] \in Nat /\ c[k + 1] < n
    BY <2>1 DEF IsConstraint
  <2> QED  BY <2>2 DEF Nth
<1>4. ASSUME NEW x \in D  PROVE 0 .. x \subseteq D
  <2>1. PICK k \in 0 .. Len(c) - 1 : x \in ToSet(GetIndices(m, Nth(c, k)))
    BY <1>1
  <2>2. 0 .. x \subseteq ToSet(GetIndices(m, Nth(c, k)))
    BY <1>3, <2>1 DEF InOrder
  <2>3. ToSet(GetIndices(d, k)) \subseteq D
    BY <1>1, MappingGives
  <2> QED  BY <1>1, <2>2, <2>3
<1> HIDE DEF D
<1>5. Out \in SUBSET Nat /\ count \in Out
  BY <1>2
<1>6. PICK p \in Out : \A y \in Out : p <= y
  <2> HIDE DEF Out
  <2> QED  BY <1>5, LeastNumber
<1>7. p \in Nat /\ p \notin D /\ p \in 0 .. count
  BY <1>5, <1>6
<1>8. ASSUME NEW x \in D  PROVE x \in 0 .. p - 1
  <2>1. x \in Nat
    BY <1>2
  <2>2. ~(p <= x)
    BY <1>4, <1>7
  <2> QED  BY <1>7, <2>1, <2>2
<1>9. ASSUME NEW x \in 0 .. p - 1  PROVE x \in D
  <2>1. x \in Nat /\ ~(p <= x)
    BY <1>7
  <2>2. x \notin Out
    BY <1>6, <2>1
  <2> QED  BY <2>1, <2>2
<1>10. D = 0 .. p - 1
  BY <1>8, <1>9
<1> QED  BY <1>7, <1>10 DEF D, d

\* Filtering elements in order leaves their numbers alone.
LEMMA FilteredLists ==
    ASSUME NEW n \in Nat, NEW names, Numbered(names), NEW m, IsMapping(m, n, Len(names)),
           InOrder(m, n), NEW c, IsConstraint(c, n),
           NEW allowed, allowed = CombinedDistinctIndices(DiscardLODs(m, c)),
           NEW map, \A i \in allowed : map[i] = Place(allowed, i)
    PROVE  SameLists(KeepPositions(names, allowed), MapIndices(DiscardLODs(m, c), map), c, m)
<1> DEFINE d == DiscardLODs(m, c)
           e == MapIndices(d, map)
           t == KeepPositions(names, allowed)
<1>1. names \in Seq(Nat) /\ Len(names) \in Nat /\ Len(c) \in Nat
  BY DEF Numbered, IsConstraint
<1>2. PICK p \in 0 .. Len(names) : allowed = 0 .. p - 1
  <2> DEFINE count == Len(names)
  <2>1. count \in Nat /\ IsMapping(m, n, count)
    BY <1>1
  <2> HIDE DEF count
  <2>2. \E p \in 0 .. count : CombinedDistinctIndices(DiscardLODs(m, c)) = 0 .. p - 1
    BY <2>1, OrderedAreKept
  <2> QED  BY <2>2 DEF count
<1>3. \A i \in allowed : map[i] = i
  <2> TAKE i \in allowed
  <2>1. i \in 0 .. p /\ p \in Nat
    BY <1>1, <1>2
  <2> QED  BY <1>2, <2>1, PlaceInRange
<1>4. Kept(names, allowed) = allowed
  BY <1>1, <1>2 DEF Kept, Positions
<1>5. /\ t \in Seq(Nat)
      /\ Len(t) = Cardinality(allowed)
      /\ \A i \in allowed : Place(allowed, i) \in Positions(t) /\ Nth(t, Place(allowed, i)) = Nth(names, i)
  BY <1>1, <1>4, KeepPositionsKeeps
<1> HIDE DEF t
<1>6. Len(t) = p
  <2>1. p \in Nat /\ 0 \in Int /\ p - 1 \in Int
    BY <1>1
  <2>2. Cardinality(0 .. p - 1) = IF 0 > p - 1 THEN 0 ELSE (p - 1) - 0 + 1
    BY <2>1, FS_Interval
  <2> QED  BY <1>2, <1>5, <2>1, <2>2
<1>7. Numbered(t)
  <2>1. ASSUME NEW k \in 1 .. p  PROVE t[k] = k - 1
    <3>1. k - 1 \in allowed /\ (k - 1) + 1 = k /\ k - 1 \in 0 .. p /\ p \in Nat /\ k \in 1 .. Len(names)
      BY <1>1, <1>2
    <3>2. Place(allowed, k - 1) = k - 1
      BY <1>2, <3>1, PlaceInRange
    <3>3. Nth(t, k - 1) = Nth(names, k - 1)
      BY <1>5, <3>1, <3>2
    <3>4. names[k] = k - 1
      BY <1>1, <3>1 DEF Numbered
    <3> QED  BY <3>1, <3>3, <3>4 DEF Nth
  <2> QED  BY <1>5, <1>6, <2>1 DEF Numbered
<1>8. /\ IsMapping(d, Len(c), Len(names))
      /\ \A k \in 0 .. Len(c) - 1 : GetIndices(d, k) = GetIndices(m, Nth(c, k))
  BY <1>1, DiscardKeepsLists
<1>9. allowed = CombinedDistinctIndices(d)
  OBVIOUS
<1> HIDE DEF d
<1>10. \A x \in CombinedDistinctIndices(d) : map[x] \in 0 .. Len(t) - 1
  BY <1>2, <1>3, <1>6, <1>9
<1>11. /\ IsMapping(e, Len(c), Len(t))
       /\ \A k \in 0 .. Len(c) - 1 :
             ToSet(GetIndices(e, k)) = {map[x] : x \in ToSet(GetIndices(d, k))}
  <2>1. Len(t) \in Nat
    BY <1>5
  <2> QED  BY <1>1, <1>8, <1>10, <2>1, MapIndicesGives
<1> HIDE DEF e
<1>12. ASSUME NEW k \in 0 .. Len(c) - 1
       PROVE  ToSet(GetIndices(e, k)) = ToSet(GetIndices(m, Nth(c, k)))
  <2>1. ToSet(GetIndices(d, k)) \subseteq allowed
    BY <1>1, <1>8, <1>9, MappingGives
  <2>2. {map[x] : x \in ToSet(GetIndices(d, k))} = ToSet(GetIndices(d, k))
    BY <1>3, <2>1
  <2>3. ToSet(GetIndices(e, k)) = {map[x] : x \in ToSet(GetIndices(d, k))}
    BY <1>11
  <2> QED  BY <1>8, <2>2, <2>3
<1> QED  BY <1>7, <1>11, <1>12 DEF SameLists, d, e, t

\* A table that is read as it is has the LODs of the file.
LEMMA UnfilteredLists ==
    ASSUME NEW n \in Nat, NEW names, Numbered(names), NEW m, IsMapping(m, n, Len(names)),
           NEW c, IsConstraint(c, n), ~HasImpactOn(c, n)
    PROVE  SameLists(names, m, c, m)
<1>1. names \in Seq(Nat)
  BY DEF Numbered
<1>2. IsMapping(m, Len(c), Len(names)) /\ \A lod \in 0 .. Len(c) - 1 : Nth(c, lod) = lod
  BY <1>1, UnfilteredShows
<1> QED  BY <1>2 DEF SameLists

\* Numbers are names: the same lists show the same elements.
LEMMA SameListsShow ==
    ASSUME NEW n \in Nat, NEW names, NEW m, NEW c, IsConstraint(c, n),
           NEW fileNames, Numbered(fileNames), NEW fm, IsMapping(fm, n, Len(fileNames)),
           SameLists(names, m, c, fm)
    PROVE  /\ Shows(names, m, c, fileNames, fm, {})
           /\ \A lod \in 0 .. Len(c) - 1 :
                 /\ Nth(c, lod) \in 0 .. n - 1
                 /\ ToSet(GetIndices(m, lod)) \subseteq Positions(names)
                 /\ ToSet(GetIndices(m, lod)) \subseteq Positions(fileNames)
<1>1. /\ Numbered(names) /\ IsMapping(m, Len(c), Len(names))
      /\ Len(c) \in Nat /\ Len(names) \in Nat /\ Len(fileNames) \in Nat
      /\ names \in Seq(Nat) /\ fileNames \in Seq(Nat)
  BY DEF SameLists, Numbered, IsConstraint
<1>2. \A lod \in 0 .. Len(c) - 1 : Nth(c, lod) \in 0 .. n - 1
  <2> TAKE k \in 0 .. Len(c) - 1
  <2>1. k + 1 \in 1 .. Len(c)
    BY <1>1
  <2>2. c[k + 1] \in Nat /\ c[k + 1] < n
    BY <2>1 DEF IsConstraint
  <2> QED  BY <2>2 DEF Nth
<1>3. \A i \in Positions(names) : Nth(names, i) = i
  <2> TAKE i \in Positions(names)
  <2>1. i + 1 \in 1 .. Len(names) /\ (i + 1) - 1 = i
    BY <1>1 DEF Positions
  <2> QED  BY <1>1, <2>1 DEF Numbered, Nth
<1>4. \A i \in Positions(fileNames) : Nth(fileNames, i) = i
  <2> TAKE i \in Positions(fileNames)
  <2>1. i + 1 \in 1 .. Len(fileNames) /\ (i + 1) - 1 = i
    BY <1>1 DEF Positions
  <2> QED  BY <1>1, <2>1 DEF Numbered, Nth
<1>5. \A lod \in 0 .. Len(c) - 1 : ToSet(GetIndices(m, lod)) \subseteq Positions(names)
  BY <1>1, MappingGives DEF IsMapping, Positions
<1>6. \A lod \in 0 .. n - 1 : ToSet(GetIndices(fm, lod)) \subseteq Positions(fileNames)
  BY <1>1, MappingGives DEF IsMapping, Positions
<1>7. \A lod \in 0 .. Len(c) - 1 : ToSet(GetIndices(m, lod)) = ToSet(GetIndices(fm, Nth(c, lod)))
  BY DEF SameLists
<1>8. \A lod \in 0 .. Len(c) - 1 : ShownBy(names, m, lod) = ShownBy(fileNames, fm, Nth(c, lod))
  <2> TAKE lod \in 0 .. Len(c) - 1
  <2>1. ShownBy(names, m, lod) = ToSet(GetIndices(m, lod))
    BY <1>3, <1>5 DEF ShownBy
  <2>2. ShownBy(fileNames, fm, Nth(c, lod)) = ToSet(GetIndices(fm, Nth(c, lod)))
    BY <1>2, <1>4, <1>6 DEF ShownBy
  <2> QED  BY <1>7, <2>1, <2>2
<1>9. Len(m.lods) = Len(c)
  BY <1>1, MappingGives
<1>10. \A lod \in 0 .. Len(c) - 1 : InTable(m, lod)
  BY <1>1 DEF IsMapping
<1> QED  BY <1>2, <1>5, <1>6, <1>7, <1>8, <1>9, <1>10 DEF Shows

\* Which step loads which layer.
LEMMA StepOf ==
    /\ At("desc") => step = 1
    /\ At("defn") => step = 2
    /\ At("bhvr") => step = 3
    /\ At("geom") => step = 4
    /\ At("mlbh") => step = 5
    /\ At("rbfb") => step = 6
    /\ At("rbfe") => step = 7
    /\ At("jbmd") => step = 8
    /\ At("twsw") => step = 9
    /\ At("mlbe") => step = 10
    /\ At("post") => step = 11
BY DEF At, Layers

\* The fields of a document.
LEMMA FieldsAre ==
    Fields = {"lodCount", "maxLOD", "meshNames", "lodMeshMapping", "jointNames", "lodJointMapping",
              "jointHierarchy", "blendShapeChannelNames", "lodBlendShapeMapping",
              "animatedMapNames", "lodAnimatedMapMapping", "meshBlendShapeChannelMapping",
              "rawControlCount", "psdCount", "mlControlCount", "poseControlCount", "jointGroups",
              "blendShapeChannels", "animatedMaps", "meshes", "lodNeuralNetworkMapping",
              "neuralNetworks", "regions", "lodSolverMapping", "solvers", "jointRepresentations",
              "twists", "swings", "operations", "lodMLOperationMappings", "mlbJoints"}
BY DEF Fields, EmptyDNA
-----------------------------------------------------------------------------
(* What a step leaves alone.                                                *)

\* A step after the descriptor.
KeepsLODs ==
    /\ step \in 2 .. 11 /\ step' = step + 1
    /\ UNCHANGED <<file, config>>
    /\ archive'.lods = archive.lods
    /\ archive'.unconstrainedLODCount = archive.unconstrainedLODCount
    /\ DOMAIN archive' = DOMAIN archive
    /\ DOMAIN dna' = DOMAIN dna
    /\ dna'.lodCount = dna.lodCount

\* The LODs, and whether tables are filtered, are settled by the descriptor.
LEMMA LODsStay ==
    ASSUME RequestInv, LODsInv, KeepsLODs
    PROVE  RequestInv' /\ LODsInv' /\ Filters' = Filters
<1>1. RequestInv'
  BY DEF RequestInv, KeepsLODs
<1>2. LODsInv'
  BY DEF LODsInv, KeepsLODs
<1>3. Filters' = Filters
  BY DEF Filters, KeepsLODs
<1> QED  BY <1>1, <1>2, <1>3

\* What is known of the definition is known after a step that leaves its tables alone.
LEMMA DefinitionStays ==
    ASSUME KeepsLODs, Filters' = Filters, step # 2, archive'.joints = archive.joints,
           \A f \in {"meshNames", "lodMeshMapping", "jointNames", "lodJointMapping",
                     "animatedMapNames", "lodAnimatedMapMapping"} : dna'[f] = dna[f],
           step # 11 => \A f \in {"blendShapeChannelNames", "lodBlendShapeMapping"} : dna'[f] = dna[f],
           DefinitionInv
    PROVE  DefinitionInv'
<1>1. /\ dna'.meshNames = dna.meshNames /\ dna'.lodMeshMapping = dna.lodMeshMapping
      /\ dna'.jointNames = dna.jointNames /\ dna'.lodJointMapping = dna.lodJointMapping
      /\ dna'.animatedMapNames = dna.animatedMapNames
      /\ dna'.lodAnimatedMapMapping = dna.lodAnimatedMapMapping
  OBVIOUS
<1>2. step # 11 => /\ dna'.blendShapeChannelNames = dna.blendShapeChannelNames
                   /\ dna'.lodBlendShapeMapping = dna.lodBlendShapeMapping
  OBVIOUS
<1>3. /\ step > 2 /\ step < 12 /\ file' = file /\ archive'.lods = archive.lods
      /\ (step' < 12 => step # 11)
      /\ (Loads("defn"))' = Loads("defn")
  BY DEF KeepsLODs, Loads
<1>4. \A j : JointIsFound(j)' = JointIsFound(j)
  BY <1>1 DEF JointIsFound
<1>5. \A lod : InFile(lod)' = InFile(lod)
  BY <1>3 DEF InFile
<1>6. SUFFICES ASSUME Loads("defn")  PROVE DefinitionInv'
  BY <1>3 DEF DefinitionInv
<1>7. /\ Shows(dna.meshNames, dna.lodMeshMapping, archive.lods,
               file.meshNames, file.lodMeshMapping, {})'
      /\ Shows(dna.jointNames, dna.lodJointMapping, archive.lods,
               file.jointNames, file.lodJointMapping, {})'
      /\ SameLists(dna.animatedMapNames, dna.lodAnimatedMapMapping, archive.lods,
                   file.lodAnimatedMapMapping)'
  BY <1>1, <1>3, <1>6 DEF DefinitionInv
<1>8. (step < 12 => SameLists(dna.blendShapeChannelNames, dna.lodBlendShapeMapping,
                              archive.lods, file.lodBlendShapeMapping))'
  BY <1>2, <1>3, <1>6 DEF DefinitionInv
<1>9. (Filters => \A lod \in 0 .. Len(archive.lods) - 1 :
          \A j \in ToSet(GetIndices(file.lodJointMapping, InFile(lod))) : JointIsFound(j))'
  BY <1>3, <1>4, <1>5, <1>6 DEF DefinitionInv
<1>10. (~Filters => dna.jointNames = file.jointNames)'
  BY <1>1, <1>3, <1>6 DEF DefinitionInv
<1> QED  BY <1>7, <1>8, <1>9, <1>10 DEF DefinitionInv

\* So is what is known of the controls, after a step that brings none along,
LEMMA ControlsStay ==
    ASSUME KeepsLODs, step \notin {2, 3, 5, 7}, archive'.loadedControls = archive.loadedControls,
           ControlsInv
    PROVE  ControlsInv'
<1>1. /\ step > 2 /\ (step > 3)' = (step > 3) /\ (step > 5)' = (step > 5) /\ (step > 7)' = (step > 7)
      /\ (Loads("bhvr"))' = Loads("bhvr")
      /\ file' = file /\ config' = config
  BY DEF KeepsLODs, Loads
<1>2. ControlsSoFar' = ControlsSoFar
  BY <1>1 DEF ControlsSoFar
<1>3. \A c : ControlIsLoaded(c)' = ControlIsLoaded(c)
  BY <1>1 DEF ControlIsLoaded, Loads
<1> QED  BY <1>1, <1>2, <1>3 DEF ControlsInv

\* of the rows of the behavior,
LEMMA BehaviorStays ==
    ASSUME KeepsLODs, Filters' = Filters, step # 3, step > 3 => archive'.joints = archive.joints,
           dna'.jointGroups = dna.jointGroups, dna'.animatedMaps = dna.animatedMaps,
           step # 11 => dna'.blendShapeChannels = dna.blendShapeChannels,
           BehaviorInv
    PROVE  BehaviorInv'
<1>1. /\ file' = file /\ archive'.lods = archive.lods /\ (step' > 3 <=> step > 3)
      /\ (step' < 12 => step # 11 /\ step < 12)
      /\ (Loads("bhvr"))' = Loads("bhvr")
  BY DEF KeepsLODs, Loads
<1>2. CASE step > 3 /\ Loads("bhvr")
  <2>1. \A g : FilteredGroup(g)' = FilteredGroup(g)
    <3>1. archive'.joints = archive.joints
      BY <1>2
    <3>2. \A a, n : RemappedAttribute(a, n)' = RemappedAttribute(a, n)
      BY <3>1 DEF RemappedAttribute
    <3> QED  BY <1>1, <3>1, <3>2 DEF FilteredGroup
  <2>2. \A rows : FilteredRows(rows)' = FilteredRows(rows)
    BY <1>1 DEF FilteredRows
  <2>3. (dna.jointGroups =
             IF Filters THEN [g \in 1 .. Len(file.jointGroups) |-> FilteredGroup(file.jointGroups[g])]
             ELSE file.jointGroups)'
    BY <1>1, <1>2, <2>1 DEF BehaviorInv
  <2>4. (dna.animatedMaps = IF Filters THEN FilteredRows(file.animatedMaps) ELSE file.animatedMaps)'
    BY <1>1, <1>2, <2>2 DEF BehaviorInv
  <2>5. (step < 12 => dna.blendShapeChannels = IF Filters THEN FilteredRows(file.blendShapeChannels)
                                               ELSE file.blendShapeChannels)'
    BY <1>1, <1>2, <2>2 DEF BehaviorInv
  <2> QED  BY <1>1, <1>2, <2>3, <2>4, <2>5 DEF BehaviorInv
<1>3. CASE ~(step > 3 /\ Loads("bhvr"))
  <2>1. step < 12 => dna.blendShapeChannels = NoRows
    BY <1>3 DEF BehaviorInv
  <2>2. (step < 12 => dna.blendShapeChannels = NoRows)'
    BY <1>1, <2>1
  <2>3. ~((step > 3)' /\ Loads("bhvr")')
    BY <1>1, <1>3
  <2> QED  BY <2>2, <2>3 DEF BehaviorInv
<1> QED  BY <1>2, <1>3

\* of the neural networks,
LEMMA NetworksStay ==
    ASSUME KeepsLODs, step # 5, dna'.neuralNetworks = dna.neuralNetworks,
           dna'.lodNeuralNetworkMapping = dna.lodNeuralNetworkMapping, NetworksInv
    PROVE  NetworksInv'
<1>1. (step' > 5 <=> step > 5) /\ file' = file /\ archive'.lods = archive.lods
      /\ (Loads("mlbh"))' = Loads("mlbh")
  BY DEF KeepsLODs, Loads
<1> QED  BY <1>1 DEF NetworksInv

\* of the solvers,
LEMMA SolversStay ==
    ASSUME KeepsLODs, step # 6, dna'.solvers = dna.solvers,
           dna'.lodSolverMapping = dna.lodSolverMapping, SolversInv
    PROVE  SolversInv'
<1>1. (step' > 6 <=> step > 6) /\ file' = file /\ archive'.lods = archive.lods
      /\ (Loads("rbfb"))' = Loads("rbfb")
  BY DEF KeepsLODs, Loads
<1> QED  BY <1>1 DEF SolversInv

\* and of the operations.
LEMMA OperationsStay ==
    ASSUME KeepsLODs, step # 10, dna'.operations = dna.operations,
           dna'.lodMLOperationMappings = dna.lodMLOperationMappings, OperationsInv
    PROVE  OperationsInv'
<1>1. (step' > 10 <=> step > 10) /\ file' = file /\ archive'.lods = archive.lods
      /\ (Loads("mlbh"))' = Loads("mlbh")
  BY DEF KeepsLODs, Loads
<1> QED  BY <1>1 DEF OperationsInv
-----------------------------------------------------------------------------
(* The first state, and the layers that change no LOD's elements.           *)

\* Before anything is loaded, a request is known to be consistent.
LEMMA InitFilterInv ==
    ASSUME ChannelsInOrder, Init
    PROVE  FilterInv
<1>1. PICK r \in Requests : file = r[1] /\ config = r[2]
  BY DEF Init
<1>2. /\ archive = [lods |-> config.lods, unconstrainedLODCount |-> 0,
                    meshes |-> NoFilter, joints |-> NoFilter, channels |-> NoFilter,
                    rootJointIndex |-> 0, loadedControls |-> <<>>]
      /\ dna = EmptyDNA /\ step = 1
  BY DEF Init
<1>3. RequestInv
  BY <1>1, RequestsAssumption DEF RequestInv, ChannelsInOrder
<1>4. LODsInv
  BY <1>2 DEF LODsInv, Fields
<1>5. BehaviorInv
  <2>1. dna.blendShapeChannels = NoRows
    BY <1>2 DEF EmptyDNA
  <2> QED  BY <1>2, <2>1 DEF BehaviorInv
<1> QED  BY <1>2, <1>3, <1>4, <1>5
         DEF FilterInv, DefinitionInv, ControlsInv, NetworksInv, SolversInv, OperationsInv, PostInv

\* The descriptor decides on the LODs, and keeps those that the file has.
LEMMA DescriptorKeeps ==
    ASSUME FilterInv, LoadDescriptor, UNCHANGED <<file, config>>
    PROVE  FilterInv'
<1>1. step = 1 /\ step' = 2
  BY StepOf DEF LoadDescriptor, Proceed
<1>2. /\ Consistent(file) /\ IsConfig(config) /\ file.lodCount \in Nat /\ DOMAIN dna = Fields
      /\ archive.lods = config.lods
      /\ DOMAIN archive = {"lods", "unconstrainedLODCount", "meshes", "joints", "channels",
                           "rootJointIndex", "loadedControls"}
  BY <1>1 DEF FilterInv, RequestInv, LODsInv, Consistent
<1>3. archive' = [archive EXCEPT !.lods = ClampTo(@, file.lodCount),
                                 !.unconstrainedLODCount = file.lodCount]
  BY DEF LoadDescriptor
<1>4. /\ archive'.lods = ClampTo(config.lods, file.lodCount)
      /\ archive'.unconstrainedLODCount = file.lodCount
      /\ DOMAIN archive' = DOMAIN archive
  BY <1>2, <1>3
<1>5. dna' = [dna EXCEPT !.maxLOD = file.maxLOD + MaxLOD(archive'.lods),
                         !.lodCount = Len(archive'.lods)]
  BY DEF LoadDescriptor
<1>6. /\ dna'.lodCount = Len(archive'.lods) /\ DOMAIN dna' = Fields
      /\ dna'.blendShapeChannels = dna.blendShapeChannels
  <2> HIDE DEF Fields
  <2> QED  BY <1>2, <1>5, FieldsAre
<1>7. IsConstraint(archive'.lods, file.lodCount)
  <2> DEFINE c == config.lods
  <2>1. c \in Seq(Nat) /\ Increasing(c)
    BY <1>2 DEF IsConfig, Increasing
  <2> HIDE DEF c
  <2>2. IsConstraint(ClampTo(c, file.lodCount), file.lodCount)
    BY <1>2, <2>1, ClampIsConstraint
  <2> QED  BY <1>4, <2>2 DEF c
<1>8. LODsInv'
  BY <1>1, <1>2, <1>4, <1>6, <1>7 DEF LODsInv
<1>9. RequestInv'
  BY DEF FilterInv, RequestInv
<1>10. BehaviorInv'
  <2>1. dna.blendShapeChannels = NoRows
    BY <1>1 DEF FilterInv, BehaviorInv
  <2> QED  BY <1>1, <1>6, <2>1 DEF BehaviorInv
<1> QED  BY <1>1, <1>8, <1>9, <1>10
         DEF FilterInv, DefinitionInv, ControlsInv, NetworksInv, SolversInv, OperationsInv, PostInv

\* The shape of a step after the descriptor.
LEMMA LaterStep ==
    ASSUME FilterInv, step \in 2 .. 12
    PROVE  /\ DOMAIN dna = Fields
           /\ DOMAIN archive = {"lods", "unconstrainedLODCount", "meshes", "joints", "channels",
                                "rootJointIndex", "loadedControls"}
           /\ IsConstraint(archive.lods, file.lodCount) /\ file.lodCount \in Nat
           /\ Consistent(file)
           /\ dna.lodCount = Len(archive.lods)
           /\ (Filters <=> HasImpactOn(archive.lods, file.lodCount))
<1>1. LODsInv /\ RequestInv /\ step # 1
  BY DEF FilterInv
<1>2. file.lodCount \in Nat
  BY <1>1 DEF RequestInv, Consistent
<1> QED  BY <1>1, <1>2 DEF LODsInv, RequestInv, Filters

\* Layers without tables of elements change nothing the invariant speaks of.
LEMMA OtherLayersKeep ==
    ASSUME FilterInv, UNCHANGED <<file, config, archive>>,
           LoadGeometry \/ LoadJointRepresentations \/ LoadTwistsAndSwings
    PROVE  FilterInv'
<1>1. step \in {4, 8, 9} /\ step' = step + 1
  BY StepOf DEF LoadGeometry, LoadJointRepresentations, LoadTwistsAndSwings, Proceed
<1>2. DOMAIN dna = Fields
  BY <1>1, LaterStep
<1>3. /\ DOMAIN dna' = Fields
      /\ \A f \in Fields \ {"meshes", "jointRepresentations", "twists", "swings"} : dna'[f] = dna[f]
  <2>1. CASE LoadGeometry
    BY <1>2, <2>1 DEF LoadGeometry
  <2>2. CASE LoadJointRepresentations
    BY <1>2, <2>2 DEF LoadJointRepresentations, Read
  <2>3. CASE LoadTwistsAndSwings
    BY <1>2, <2>3 DEF LoadTwistsAndSwings, Read
  <2> QED  BY <2>1, <2>2, <2>3
<1>4. KeepsLODs
  BY <1>1, <1>2, <1>3, FieldsAre DEF KeepsLODs
<1>5. RequestInv' /\ LODsInv' /\ Filters' = Filters
  BY <1>4, LODsStay DEF FilterInv
<1>6. DefinitionInv'
  BY <1>1, <1>3, <1>4, <1>5, FieldsAre, DefinitionStays DEF FilterInv
<1>7. ControlsInv'
  BY <1>1, <1>4, ControlsStay DEF FilterInv
<1>8. BehaviorInv'
  BY <1>1, <1>3, <1>4, <1>5, FieldsAre, BehaviorStays DEF FilterInv
<1>9. NetworksInv' /\ SolversInv' /\ OperationsInv'
  BY <1>1, <1>3, <1>4, FieldsAre, NetworksStay, SolversStay, OperationsStay DEF FilterInv
<1> QED  BY <1>1, <1>5, <1>6, <1>7, <1>8, <1>9 DEF FilterInv, PostInv
-----------------------------------------------------------------------------
(* Tables that lie in layers of their own, and the controls of these layers. *)

\* A filter of known elements finds each at its place.
LEMMA FilterGives ==
    ASSUME NEW count \in Nat, NEW passing \in SUBSET (0 .. count - 1)
    PROVE  /\ Filter(count, passing).passing = passing
           /\ DOMAIN Filter(count, passing).remapped = passing
           /\ \A i \in passing : Filter(count, passing).remapped[i] = Place(passing, i)
<1>1. passing \in SUBSET Nat /\ passing \cap (0 .. count - 1) = passing
  <2>1. 0 .. count - 1 \subseteq Nat
    OBVIOUS
  <2> QED  BY <2>1
<1>2. /\ Filter(count, passing).passing = passing
      /\ Filter(count, passing).remapped = Remapped(count, passing)
  BY DEF Filter
<1> QED  BY <1>1, <1>2, RemappedIsPlace

\* Filtering a table by the LODs that are kept leaves it with their elements.
LEMMA KeptByShows ==
    ASSUME NEW n \in Nat, IsConstraint(archive.lods, n),
           NEW S, NEW names \in Seq(S), NEW m, IsMapping(m, n, Len(names))
    PROVE  Shows(KeptBy(m, names).names, KeptBy(m, names).mapping, archive.lods, names, m, {})
<1> DEFINE c == archive.lods
           D == CombinedDistinctIndices(DiscardLODs(m, c))
           filter == Filter(Len(names), D)
<1>1. Len(names) \in Nat
  OBVIOUS
<1>2. D \in SUBSET (0 .. Len(names) - 1)
  BY <1>1, DiscardKeepsLists DEF IsMapping
<1>3. filter.passing = D /\ \A i \in D : filter.remapped[i] = Place(D, i)
  <2> HIDE DEF D
  <2> QED  BY <1>1, <1>2, FilterGives
<1>4. /\ KeptBy(m, names).names = KeepPositions(names, D)
      /\ KeptBy(m, names).mapping = MapIndices(DiscardLODs(m, c), filter.remapped)
  BY <1>3 DEF KeptBy
<1>5. Shows(KeepPositions(names, D), MapIndices(DiscardLODs(m, c), filter.remapped), c, names, m, {})
  <2> DEFINE map == filter.remapped
  <2>1. \A i \in D : map[i] = Place(D, i)
    BY <1>3
  <2>2. CombinedDistinctIndices(DiscardLODs(m, c)) \subseteq D
    OBVIOUS
  <2> HIDE DEF map, D, c
  <2>3. IsConstraint(c, n)
    BY DEF c
  <2>4. Shows(KeepPositions(names, D), MapIndices(DiscardLODs(m, c), map), c, names, m, {})
    BY <1>2, <2>1, <2>2, <2>3, FilteredShows
  <2> QED  BY <2>4 DEF map
<1> QED  BY <1>4, <1>5

\* What is appended is found behind what was there.
LEMMA FoundBehind ==
    ASSUME NEW S, NEW s \in Seq(S), NEW u \in Seq(S)
    PROVE  /\ s \o u \in Seq(S) /\ Len(s \o u) = Len(s) + Len(u)
           /\ \A i \in 0 .. Len(s) - 1 : Nth(s \o u, i) = Nth(s, i)
           /\ \A i \in Len(s) .. Len(s) + Len(u) - 1 :
                 i - Len(s) + 1 \in 1 .. Len(u) /\ Nth(s \o u, i) = u[i - Len(s) + 1]
<1>1. Len(s) \in Nat /\ Len(u) \in Nat
  OBVIOUS
<1>2. s \o u \in Seq(S) /\ Len(s \o u) = Len(s) + Len(u)
  OBVIOUS
<1>3. \A i \in 1 .. Len(s) + Len(u) : (s \o u)[i] = IF i <= Len(s) THEN s[i] ELSE u[i - Len(s)]
  OBVIOUS
<1>4. \A i \in 0 .. Len(s) - 1 : Nth(s \o u, i) = Nth(s, i)
  <2> TAKE i \in 0 .. Len(s) - 1
  <2>1. i + 1 \in 1 .. Len(s) + Len(u) /\ i + 1 <= Len(s)
    BY <1>1
  <2> QED  BY <1>3, <2>1 DEF Nth
<1>5. ASSUME NEW i \in Len(s) .. Len(s) + Len(u) - 1
      PROVE  i - Len(s) + 1 \in 1 .. Len(u) /\ Nth(s \o u, i) = u[i - Len(s) + 1]
  <2>1. /\ i + 1 \in 1 .. Len(s) + Len(u) /\ ~(i + 1 <= Len(s))
        /\ (i + 1) - Len(s) = i - Len(s) + 1 /\ i - Len(s) + 1 \in 1 .. Len(u)
    BY <1>1
  <2>2. (s \o u)[i + 1] = u[(i + 1) - Len(s)]
    BY <1>3, <2>1
  <2> QED  BY <2>1, <2>2 DEF Nth
<1> QED  BY <1>2, <1>4, <1>5

\* The layers that bring controls along, and how many; they stay out of the way when
\* the layer is not loaded.
LEMMA ControlsGrow ==
    ASSUME FilterInv, KeepsLODs, NEW n \in Nat, NEW loaded \in BOOLEAN,
           archive'.loadedControls = archive.loadedControls \o [i \in 1 .. n |-> loaded],
           \/ step = 3 /\ n = file.psdCount /\ loaded = TRUE
           \/ step = 5 /\ n = file.mlControlCount /\ loaded = Loads("mlbh")
           \/ step = 7 /\ n = file.poseControlCount /\ loaded = Loads("rbfb")
    PROVE  ControlsInv'
<1>1. SUFFICES ASSUME Loads("bhvr")  PROVE ControlsInv'
  BY DEF KeepsLODs, ControlsInv, Loads
<1> DEFINE s == archive.loadedControls
           t == archive'.loadedControls
           old == ControlsSoFar
<1>2. /\ s \in Seq(BOOLEAN) /\ Len(s) = old
      /\ \A control \in 0 .. old - 1 : Nth(s, control) <=> ControlIsLoaded(control)
  BY <1>1 DEF FilterInv, ControlsInv
<1>3. /\ t \in Seq(BOOLEAN) /\ Len(t) = Len(s) + n
      /\ \A i \in 0 .. Len(s) - 1 : Nth(t, i) = Nth(s, i)
      /\ \A i \in Len(s) .. Len(s) + n - 1 : Nth(t, i) = loaded
  <2> DEFINE u == [i \in 1 .. n |-> loaded]
  <2>1. u \in Seq(BOOLEAN) /\ Len(u) = n
    OBVIOUS
  <2>2. \A i \in 1 .. n : u[i] = loaded
    OBVIOUS
  <2>3. t = s \o u
    OBVIOUS
  <2> HIDE DEF s, t, u
  <2>4. /\ t \in Seq(BOOLEAN) /\ Len(t) = Len(s) + n
        /\ \A i \in 0 .. Len(s) - 1 : Nth(t, i) = Nth(s, i)
        /\ \A i \in Len(s) .. Len(s) + n - 1 :
              i - Len(s) + 1 \in 1 .. n /\ Nth(t, i) = u[i - Len(s) + 1]
    <3>1. s \in Seq(BOOLEAN)
      BY <1>2
    <3>2. /\ s \o u \in Seq(BOOLEAN) /\ Len(s \o u) = Len(s) + Len(u)
          /\ \A i \in 0 .. Len(s) - 1 : Nth(s \o u, i) = Nth(s, i)
          /\ \A i \in Len(s) .. Len(s) + Len(u) - 1 :
                i - Len(s) + 1 \in 1 .. Len(u) /\ Nth(s \o u, i) = u[i - Len(s) + 1]
      BY ONLY <2>1, <3>1, FoundBehind
    <3> QED  BY ONLY <2>1, <2>3, <3>2
  <2> QED  BY <2>2, <2>4
<1>4. /\ file.rawControlCount \in Nat /\ file.psdCount \in Nat
      /\ file.mlControlCount \in Nat /\ file.poseControlCount \in Nat
  BY DEF FilterInv, RequestInv, Consistent
<1>5. ControlsSoFar' = old + n /\ old \in Nat
  <2>1. file' = file /\ step' = step + 1
    BY DEF KeepsLODs
  <2>2. CASE step = 3 /\ n = file.psdCount
    BY <1>4, <2>1, <2>2 DEF ControlsSoFar
  <2>3. CASE step = 5 /\ n = file.mlControlCount
    BY <1>4, <2>1, <2>3 DEF ControlsSoFar
  <2>4. CASE step = 7 /\ n = file.poseControlCount
    BY <1>4, <2>1, <2>4 DEF ControlsSoFar
  <2> QED  BY <2>2, <2>3, <2>4
<1>6. \A c : ControlIsLoaded(c)' <=> ControlIsLoaded(c)
  BY DEF KeepsLODs, ControlIsLoaded, Loads
<1>7. \A c \in old .. old + n - 1 : ControlIsLoaded(c) <=> loaded
  <2> DEFINE raw == file.rawControlCount
             psd == file.psdCount
             ml == file.mlControlCount
             pose == file.poseControlCount
  <2>1. raw \in Nat /\ psd \in Nat /\ ml \in Nat /\ pose \in Nat
    BY <1>4
  <2>2. old = raw + (IF step > 3 THEN psd ELSE 0) + (IF step > 5 THEN ml ELSE 0)
                 + (IF step > 7 THEN pose ELSE 0)
    BY DEF ControlsSoFar
  <2>3. \A c : ControlIsLoaded(c) <=> \/ c < raw + psd
                                      \/ IF c < raw + psd + ml THEN Loads("mlbh") ELSE Loads("rbfb")
    BY DEF ControlIsLoaded
  <2> HIDE DEF raw, psd, ml, pose, old
  <2>4. CASE step = 3 /\ n = psd /\ loaded = TRUE
    <3>1. old = raw
      BY <2>1, <2>2, <2>4
    <3>2. \A c \in old .. old + n - 1 : c < raw + psd
      BY <2>1, <2>4, <3>1
    <3> QED  BY <2>3, <2>4, <3>2
  <2>5. CASE step = 5 /\ n = ml /\ loaded = Loads("mlbh")
    <3>1. old = raw + psd
      BY <2>1, <2>2, <2>5
    <3>2. \A c \in old .. old + n - 1 : ~(c < raw + psd) /\ c < raw + psd + ml
      BY <2>1, <2>5, <3>1
    <3> QED  BY <2>3, <2>5, <3>2
  <2>6. CASE step = 7 /\ n = pose /\ loaded = Loads("rbfb")
    <3>1. old = raw + psd + ml
      BY <2>1, <2>2, <2>6
    <3>2. \A c \in old .. old + n - 1 : ~(c < raw + psd) /\ ~(c < raw + psd + ml)
      BY <2>1, <2>6, <3>1
    <3> QED  BY <2>3, <2>6, <3>2
  <2> QED  BY <2>4, <2>5, <2>6 DEF psd, ml, pose
<1> HIDE DEF s, t, old
<1>8. ASSUME NEW c \in 0 .. old + n - 1
      PROVE  Nth(t, c) <=> ControlIsLoaded(c)
  <2>1. CASE c \in 0 .. old - 1
    BY <1>2, <1>3, <2>1
  <2>2. CASE c \in old .. old + n - 1
    BY <1>2, <1>3, <1>7, <2>2
  <2> QED  BY <1>5, <2>1, <2>2
<1>9. Len(t) = old + n
  BY <1>2, <1>3
<1>10. (archive.loadedControls \in Seq(BOOLEAN))' /\ (Len(archive.loadedControls) = ControlsSoFar)'
  BY <1>3, <1>5, <1>9 DEF t
<1>11. (\A control \in 0 .. ControlsSoFar - 1 :
           Nth(archive.loadedControls, control) <=> ControlIsLoaded(control))'
  <2> SUFFICES ASSUME NEW c \in 0 .. ControlsSoFar' - 1
               PROVE  Nth(t, c) <=> ControlIsLoaded(c)'
    BY DEF t
  <2>1. c \in 0 .. old + n - 1
    BY <1>5
  <2>2. Nth(t, c) <=> ControlIsLoaded(c)
    BY <1>8, <2>1
  <2>3. ControlIsLoaded(c)' <=> ControlIsLoaded(c)
    BY <1>6
  <2> QED  BY <2>2, <2>3
<1> QED  BY <1>10, <1>11 DEF ControlsInv

\* Solvers are filtered by LOD.
LEMMA SolversKeep ==
    ASSUME FilterInv, LoadSolvers, UNCHANGED <<file, config>>
    PROVE  FilterInv'
<1>1. step = 6 /\ step' = 7 /\ archive' = archive
  BY StepOf DEF LoadSolvers, Proceed
<1>2. /\ DOMAIN dna = Fields /\ Consistent(file) /\ file.lodCount \in Nat
      /\ IsConstraint(archive.lods, file.lodCount)
      /\ (Filters <=> HasImpactOn(archive.lods, file.lodCount))
  BY <1>1, LaterStep
<1>3. DOMAIN dna' = Fields /\ \A f \in Fields \ {"solvers", "lodSolverMapping"} : dna'[f] = dna[f]
  BY <1>2, FieldsAre DEF LoadSolvers, Read
<1>4. KeepsLODs
  BY <1>1, <1>2, <1>3, FieldsAre DEF KeepsLODs
<1>5. RequestInv' /\ LODsInv' /\ Filters' = Filters
  BY <1>4, LODsStay DEF FilterInv
<1>6. DefinitionInv'
  BY <1>1, <1>3, <1>4, <1>5, FieldsAre, DefinitionStays DEF FilterInv
<1>7. ControlsInv'
  BY <1>1, <1>4, ControlsStay DEF FilterInv
<1>8. BehaviorInv'
  BY <1>1, <1>3, <1>4, <1>5, FieldsAre, BehaviorStays DEF FilterInv
<1>9. NetworksInv' /\ OperationsInv'
  BY <1>1, <1>3, <1>4, FieldsAre, NetworksStay, OperationsStay DEF FilterInv
<1>10. SolversInv'
  <2> DEFINE names == file.solvers
             m == file.lodSolverMapping
  <2>1. names \in Seq(Nat) /\ IsMapping(m, file.lodCount, Len(names))
    BY <1>2 DEF Consistent, IsTable, Numbered
  <2>2. SUFFICES ASSUME Loads("rbfb")
                 PROVE  Shows(dna'.solvers, dna'.lodSolverMapping, archive.lods, names, m, {})
    BY <1>1 DEF SolversInv, Loads
  <2>3. CASE Filters
    <3>1. dna'.solvers = KeptBy(m, names).names /\ dna'.lodSolverMapping = KeptBy(m, names).mapping
      BY <1>2, <2>2, <2>3, FieldsAre DEF LoadSolvers
    <3> QED  BY <1>2, <2>1, <3>1, KeptByShows
  <2>4. CASE ~Filters
    <3>1. dna'.solvers = names /\ dna'.lodSolverMapping = m
      BY <1>2, <2>2, <2>4, FieldsAre DEF LoadSolvers, Read
    <3> QED  BY <1>2, <2>1, <2>4, <3>1, UnfilteredShows
  <2> QED  BY <2>3, <2>4
<1> QED  BY <1>1, <1>5, <1>6, <1>7, <1>8, <1>9, <1>10 DEF FilterInv, PostInv

\* Neural networks are filtered by LOD, and bring the ML controls along.
LEMMA NetworksKeep ==
    ASSUME FilterInv, LoadNetworks, UNCHANGED <<file, config>>
    PROVE  FilterInv'
<1>1. step = 5 /\ step' = 6
  BY StepOf DEF LoadNetworks, Proceed
<1>2. /\ DOMAIN dna = Fields /\ Consistent(file) /\ file.lodCount \in Nat
      /\ IsConstraint(archive.lods, file.lodCount)
      /\ (Filters <=> HasImpactOn(archive.lods, file.lodCount))
      /\ DOMAIN archive = {"lods", "unconstrainedLODCount", "meshes", "joints", "channels",
                           "rootJointIndex", "loadedControls"}
  BY <1>1, LaterStep
<1>3. DOMAIN dna' = Fields /\ \A f \in Fields \ networkFields : dna'[f] = dna[f]
  BY <1>2, FieldsAre DEF LoadNetworks, Read, networkFields
<1>4. /\ DOMAIN archive' = DOMAIN archive
      /\ \A f \in DOMAIN archive \ {"loadedControls"} : archive'[f] = archive[f]
      /\ archive'.loadedControls =
             archive.loadedControls \o [i \in 1 .. file.mlControlCount |-> Loads("mlbh")]
  BY <1>2 DEF LoadNetworks, ControlsAppended
<1>5. KeepsLODs
  BY <1>1, <1>2, <1>3, <1>4, FieldsAre DEF KeepsLODs, networkFields
<1>6. RequestInv' /\ LODsInv' /\ Filters' = Filters
  BY <1>5, LODsStay DEF FilterInv
<1>7. archive'.joints = archive.joints
  BY <1>2, <1>4
<1>8. DefinitionInv'
  BY <1>1, <1>3, <1>5, <1>6, <1>7, FieldsAre, DefinitionStays DEF FilterInv, networkFields
<1>9. ControlsInv'
  <2> DEFINE loaded == Loads("mlbh")
  <2>1. file.mlControlCount \in Nat
    BY <1>2 DEF Consistent
  <2>2. loaded \in BOOLEAN
    BY DEF Loads
  <2>3. archive'.loadedControls = archive.loadedControls \o [i \in 1 .. file.mlControlCount |-> loaded]
    BY <1>4
  <2>4. loaded = Loads("mlbh")
    OBVIOUS
  <2> HIDE DEF loaded
  <2> QED  BY <1>1, <1>5, <2>1, <2>2, <2>3, <2>4, ControlsGrow
<1>10. BehaviorInv'
  BY <1>1, <1>3, <1>5, <1>6, <1>7, FieldsAre, BehaviorStays DEF FilterInv, networkFields
<1>11. SolversInv' /\ OperationsInv'
  BY <1>1, <1>3, <1>5, FieldsAre, SolversStay, OperationsStay DEF FilterInv, networkFields
<1>12. NetworksInv'
  <2> DEFINE names == file.neuralNetworks
             m == file.lodNeuralNetworkMapping
  <2>1. names \in Seq(Nat) /\ IsMapping(m, file.lodCount, Len(names))
    BY <1>2 DEF Consistent, IsTable, Numbered
  <2>2. archive'.lods = archive.lods
    BY <1>5 DEF KeepsLODs
  <2>3. SUFFICES ASSUME Loads("mlbh")
                 PROVE  Shows(dna'.neuralNetworks, dna'.lodNeuralNetworkMapping, archive.lods,
                              names, m, {})
    BY <1>1, <2>2 DEF NetworksInv, Loads
  <2>4. CASE Filters
    <3>1. /\ dna'.neuralNetworks = KeptBy(m, names).names
          /\ dna'.lodNeuralNetworkMapping = KeptBy(m, names).mapping
      BY <1>2, <2>3, <2>4, FieldsAre DEF LoadNetworks, Read
    <3> QED  BY <1>2, <2>1, <3>1, KeptByShows
  <2>5. CASE ~Filters
    <3>1. dna'.neuralNetworks = names /\ dna'.lodNeuralNetworkMapping = m
      BY <1>2, <2>3, <2>5, FieldsAre DEF LoadNetworks, Read, networkFields
    <3> QED  BY <1>2, <2>1, <2>5, <3>1, UnfilteredShows
  <2> QED  BY <2>4, <2>5
<1> QED  BY <1>1, <1>6, <1>8, <1>9, <1>10, <1>11, <1>12 DEF FilterInv, PostInv

\* Poses bring controls along, which are loaded when the layer of their solvers is.
LEMMA PosesKeep ==
    ASSUME FilterInv, LoadPoses, UNCHANGED <<file, config>>
    PROVE  FilterInv'
<1>1. step = 7 /\ step' = 8
  BY StepOf DEF LoadPoses, Proceed
<1>2. /\ DOMAIN dna = Fields /\ Consistent(file)
      /\ DOMAIN archive = {"lods", "unconstrainedLODCount", "meshes", "joints", "channels",
                           "rootJointIndex", "loadedControls"}
  BY <1>1, LaterStep
<1>3. DOMAIN dna' = Fields /\ \A f \in Fields \ {"poseControlCount"} : dna'[f] = dna[f]
  BY <1>2, FieldsAre DEF LoadPoses, Read
<1>4. /\ DOMAIN archive' = DOMAIN archive
      /\ \A f \in DOMAIN archive \ {"loadedControls"} : archive'[f] = archive[f]
      /\ archive'.loadedControls =
             archive.loadedControls \o [i \in 1 .. file.poseControlCount |-> Loads("rbfb")]
  BY <1>2 DEF LoadPoses, ControlsAppended
<1>5. KeepsLODs
  BY <1>1, <1>2, <1>3, <1>4, FieldsAre DEF KeepsLODs
<1>6. RequestInv' /\ LODsInv' /\ Filters' = Filters
  BY <1>5, LODsStay DEF FilterInv
<1>7. archive'.joints = archive.joints
  BY <1>2, <1>4
<1>8. DefinitionInv'
  BY <1>1, <1>3, <1>5, <1>6, <1>7, FieldsAre, DefinitionStays DEF FilterInv
<1>9. ControlsInv'
  <2> DEFINE loaded == Loads("rbfb")
  <2>1. file.poseControlCount \in Nat
    BY <1>2 DEF Consistent
  <2>2. loaded \in BOOLEAN
    BY DEF Loads
  <2>3. archive'.loadedControls = archive.loadedControls \o [i \in 1 .. file.poseControlCount |-> loaded]
    BY <1>4
  <2>4. loaded = Loads("rbfb")
    OBVIOUS
  <2> HIDE DEF loaded
  <2> QED  BY <1>1, <1>5, <2>1, <2>2, <2>3, <2>4, ControlsGrow
<1>10. BehaviorInv'
  BY <1>1, <1>3, <1>5, <1>6, <1>7, FieldsAre, BehaviorStays DEF FilterInv
<1>11. NetworksInv' /\ SolversInv' /\ OperationsInv'
  BY <1>1, <1>3, <1>5, FieldsAre, NetworksStay, SolversStay, OperationsStay DEF FilterInv
<1> QED  BY <1>1, <1>6, <1>8, <1>9, <1>10, <1>11 DEF FilterInv, PostInv
-----------------------------------------------------------------------------
(* Operations, whose sets are tables of their own.                          *)

OperationNames(ops) == [o \in DOMAIN ops |-> ops[o].name]

\* The names of the operations of a set are filtered like a table of names.
LEMMA SetShows ==
    ASSUME NEW n \in Nat, IsConstraint(archive.lods, n), NEW set \in Nat,
           NEW ops \in Seq([name : Nat, inSet : Seq(Nat), dependsOn : Seq(Nat)]),
           ops = Nth(file.operations, set),
           NEW m, m = Nth(file.lodMLOperationMappings, set), IsMapping(m, n, Len(ops))
    PROVE  /\ Shows(OperationNames(FilteredOperations(set)), KeptInSet(set).mapping, archive.lods,
                    OperationNames(ops), m, {})
<1> DEFINE Op == [name : Nat, inSet : Seq(Nat), dependsOn : Seq(Nat)]
           names == OperationNames(ops)
           D == CombinedDistinctIndices(DiscardLODs(m, archive.lods))
           kept == KeepPositions(ops, D)
           left == KeepPositions(names, D)
           Q == Kept(ops, D)
           a == Ascending(Q)
<1>1. Len(ops) \in Nat /\ ops \in [1 .. Len(ops) -> Op]
  <2>1. ops \in Seq(Op)
    OBVIOUS
  <2> HIDE DEF Op
  <2> QED  BY <2>1
<1>2. names \in [1 .. Len(ops) -> Nat] /\ \A o \in 1 .. Len(ops) : names[o] = ops[o].name
  <2>1. \A o \in 1 .. Len(ops) : ops[o].name \in Nat
    BY <1>1
  <2> QED  BY <1>1, <2>1 DEF OperationNames
<1> HIDE DEF names
<1>3. names \in Seq(Nat) /\ Len(names) = Len(ops)
  <2> DEFINE N == Len(ops)
  <2>1. names \in [1 .. N -> Nat] /\ N \in Nat
    BY <1>1, <1>2
  <2> HIDE DEF N
  <2>2. names \in Seq(Nat) /\ Len(names) = N
    BY <2>1
  <2> QED  BY <2>2 DEF N
<1>4. Filter(Len(names), D) = Filter(Len(ops), D) /\ Filter(Len(ops), D).passing = D
  BY <1>3 DEF Filter
<1>5. /\ KeptInSet(set).mapping = KeptBy(m, names).mapping
      /\ KeptInSet(set).names = kept
      /\ KeptBy(m, names).names = left
  BY <1>4 DEF KeptInSet, KeptBy
<1>6. Shows(left, KeptInSet(set).mapping, archive.lods, names, m, {})
  <2>1. Shows(KeptBy(m, names).names, KeptBy(m, names).mapping, archive.lods, names, m, {})
    <3> HIDE DEF D, kept, left
    <3> QED  BY <1>3, KeptByShows
  <2> QED  BY <1>5, <2>1
<1>7. Kept(names, D) = Q
  BY <1>3 DEF Kept, Positions
<1> HIDE DEF D, Q
<1>8. /\ kept \in Seq(Op) /\ Len(kept) = Cardinality(Q)
      /\ \A k \in 1 .. Cardinality(Q) : a[k] \in Q /\ kept[k] = Nth(ops, a[k])
  <2> HIDE DEF Op
  <2>1. ops \in Seq(Op)
    BY DEF Op
  <2> QED  BY <2>1, KeepPositionsKeeps, SMTT(30) DEF Q
<1>9. /\ left \in Seq(Nat) /\ Len(left) = Cardinality(Q)
      /\ \A k \in 1 .. Cardinality(Q) : left[k] = Nth(names, a[k])
  BY <1>3, <1>7, KeepPositionsKeeps
<1>10. Q \subseteq 0 .. Len(ops) - 1 /\ Cardinality(Q) \in Nat
  BY KeptIsFinite DEF Q
<1> HIDE DEF kept, left, a
<1>11. \A k \in 1 .. Cardinality(Q) : kept[k].name = left[k] /\ kept[k] \in Op
  <2> TAKE k \in 1 .. Cardinality(Q)
  <2>1. a[k] \in 0 .. Len(ops) - 1
    BY <1>8, <1>10
  <2>2. a[k] + 1 \in 1 .. Len(ops)
    <3> DEFINE x == a[k]
               N == Len(ops)
    <3>1. x \in 0 .. N - 1 /\ N \in Nat
      BY <1>1, <2>1
    <3> HIDE DEF x, N
    <3>2. x + 1 \in 1 .. N
      BY <3>1
    <3> QED  BY <3>2 DEF x, N
  <2>3. kept[k] = ops[a[k] + 1] /\ left[k] = names[a[k] + 1]
    BY <1>8, <1>9 DEF Nth
  <2> QED  BY <1>1, <1>2, <2>2, <2>3
<1>12. \A op \in Op : Followed(op, set).name = op.name
  <2> TAKE op \in Op
  <2>1. "name" \in DOMAIN op
    OBVIOUS
  <2> QED  BY <2>1 DEF Followed
<1>13. FilteredOperations(set) = [o \in 1 .. Cardinality(Q) |-> Followed(kept[o], set)]
  BY <1>5, <1>8 DEF FilteredOperations
<1>14. OperationNames(FilteredOperations(set)) = [o \in 1 .. Cardinality(Q) |-> Followed(kept[o], set).name]
  BY <1>13 DEF OperationNames
<1>15. left = [o \in 1 .. Cardinality(Q) |-> left[o]]
  BY <1>9
<1>16. OperationNames(FilteredOperations(set)) = left
  <2>1. \A o \in 1 .. Cardinality(Q) : Followed(kept[o], set).name = left[o]
    BY <1>11, <1>12
  <2> QED  BY <1>14, <1>15, <2>1
<1> QED  BY <1>6, <1>16 DEF names

\* The operations of each set are filtered by LOD.
LEMMA OperationsKeep ==
    ASSUME FilterInv, LoadOperations, UNCHANGED <<file, config>>
    PROVE  FilterInv'
<1>1. step = 10 /\ step' = 11 /\ archive' = archive
  BY StepOf DEF LoadOperations, Proceed
<1>2. /\ DOMAIN dna = Fields /\ Consistent(file) /\ file.lodCount \in Nat
      /\ IsConstraint(archive.lods, file.lodCount)
      /\ (Filters <=> HasImpactOn(archive.lods, file.lodCount))
  BY <1>1, LaterStep
<1>3. /\ DOMAIN dna' = Fields
      /\ \A f \in Fields \ {"operations", "lodMLOperationMappings", "mlbJoints"} : dna'[f] = dna[f]
  BY <1>2, FieldsAre DEF LoadOperations, Read
<1>4. KeepsLODs
  BY <1>1, <1>2, <1>3, FieldsAre DEF KeepsLODs
<1>5. RequestInv' /\ LODsInv' /\ Filters' = Filters
  BY <1>4, LODsStay DEF FilterInv
<1>6. DefinitionInv'
  BY <1>1, <1>3, <1>4, <1>5, FieldsAre, DefinitionStays DEF FilterInv
<1>7. ControlsInv'
  BY <1>1, <1>4, ControlsStay DEF FilterInv
<1>8. BehaviorInv'
  BY <1>1, <1>3, <1>4, <1>5, FieldsAre, BehaviorStays DEF FilterInv
<1>9. NetworksInv' /\ SolversInv'
  BY <1>1, <1>3, <1>4, FieldsAre, NetworksStay, SolversStay DEF FilterInv
<1>10. OperationsInv'
  <2> DEFINE Op == [name : Nat, inSet : Seq(Nat), dependsOn : Seq(Nat)]
             N == Len(file.operations)
  <2>1. N \in Nat /\ DOMAIN file.operations = 1 .. N /\ \A s \in 1 .. N : file.operations[s] \in Seq(Op)
    BY <1>2 DEF Consistent
  <2>2. SUFFICES ASSUME Loads("mlbh"), NEW s \in 1 .. N
                 PROVE  Shows(OperationNames(dna'.operations[s]), dna'.lodMLOperationMappings[s],
                              archive.lods, OperationNames(file.operations[s]),
                              file.lodMLOperationMappings[s], {})
    BY <1>1, <2>1 DEF OperationsInv, Loads, OperationNames
  <2> DEFINE ops == file.operations[s]
             m == file.lodMLOperationMappings[s]
  <2>3. ops \in Seq(Op) /\ IsMapping(m, file.lodCount, Len(ops))
    BY <1>2, <2>1 DEF Consistent
  <2>4. s - 1 \in Nat /\ (s - 1) + 1 = s
    BY <2>1
  <2>5. CASE Filters
    <3>1. /\ dna'.operations = [t \in 1 .. N |-> FilteredOperations(t - 1)]
          /\ dna'.lodMLOperationMappings = [t \in 1 .. N |-> KeptInSet(t - 1).mapping]
      BY <1>2, <2>2, <2>5, FieldsAre DEF LoadOperations, Read
    <3>2. /\ dna'.operations[s] = FilteredOperations(s - 1)
          /\ dna'.lodMLOperationMappings[s] = KeptInSet(s - 1).mapping
      BY <3>1
    <3>3. ops = Nth(file.operations, s - 1) /\ m = Nth(file.lodMLOperationMappings, s - 1)
      BY <2>4 DEF Nth
    <3> HIDE DEF ops, m
    <3>4. Shows(OperationNames(FilteredOperations(s - 1)), KeptInSet(s - 1).mapping, archive.lods,
                OperationNames(ops), m, {})
      BY <1>2, <2>3, <2>4, <3>3, SetShows
    <3> QED  BY <3>2, <3>4 DEF ops, m
  <2>6. CASE ~Filters
    <3>1. dna'.operations = file.operations /\ dna'.lodMLOperationMappings = file.lodMLOperationMappings
      BY <1>2, <2>2, <2>6, FieldsAre DEF LoadOperations, Read
    <3> DEFINE names == OperationNames(ops)
    <3>2. names \in Seq(Nat) /\ Len(names) = Len(ops)
      <4>1. ops \in [1 .. Len(ops) -> Op] /\ Len(ops) \in Nat
        <5> HIDE DEF Op, ops
        <5> QED  BY <2>3
      <4>2. \A o \in 1 .. Len(ops) : ops[o].name \in Nat
        BY <4>1
      <4>3. names \in [1 .. Len(ops) -> Nat]
        BY <4>1, <4>2 DEF OperationNames
      <4> QED  BY <4>1, <4>3
    <3> HIDE DEF names
    <3>3. Shows(names, m, archive.lods, names, m, {})
      BY <1>2, <2>3, <2>6, <3>2, UnfilteredShows
    <3> QED  BY <3>1, <3>3 DEF names
  <2> QED  BY <2>5, <2>6
<1> QED  BY <1>1, <1>5, <1>6, <1>7, <1>8, <1>9, <1>10 DEF FilterInv, PostInv
-----------------------------------------------------------------------------
(* The definition, whose tables are filtered one after the other.           *)

\* What each filter rewrites, and that it leaves the rest alone.
LEMMA MeshFilterGives ==
    ASSUME NEW doc, DOMAIN doc = Fields, NEW filter
    PROVE  LET result == ApplyMeshFilter(doc, filter)
           IN  /\ DOMAIN result = Fields
               /\ \A f \in Fields \ {"lodMeshMapping", "meshNames", "meshBlendShapeChannelMapping"} :
                     result[f] = doc[f]
               /\ result.lodMeshMapping = MapIndices(doc.lodMeshMapping, filter.remapped)
               /\ result.meshNames = KeepPositions(doc.meshNames, filter.passing)
               /\ result.meshBlendShapeChannelMapping =
                      PairsOf(doc.meshBlendShapeChannelMapping, 1, filter)
BY FieldsAre DEF ApplyMeshFilter

\* The joints that pass, and their new numbers.
LEMMA JointFilterGives ==
    ASSUME NEW doc, DOMAIN doc = Fields, NEW filter
    PROVE  LET result == ApplyJointFilter(doc, filter)
           IN  /\ DOMAIN result = Fields
               /\ \A f \in Fields \ {"lodJointMapping", "jointNames", "jointHierarchy"} :
                     result[f] = doc[f]
               /\ result.lodJointMapping = MapIndices(doc.lodJointMapping, filter.remapped)
               /\ result.jointNames = KeepPositions(doc.jointNames, filter.passing)
               /\ result.jointHierarchy =
                      Mapped(KeepPositions(doc.jointHierarchy, filter.passing), filter.remapped)
BY FieldsAre DEF ApplyJointFilter

\* The blend shape channels that pass, and their new numbers.
LEMMA BlendShapeFilterGives ==
    ASSUME NEW doc, DOMAIN doc = Fields, NEW filter
    PROVE  LET result == ApplyBlendShapeFilter(doc, filter)
           IN  /\ DOMAIN result = Fields
               /\ \A f \in Fields \ {"lodBlendShapeMapping", "blendShapeChannelNames",
                                     "meshBlendShapeChannelMapping"} :
                     result[f] = doc[f]
               /\ result.lodBlendShapeMapping = MapIndices(doc.lodBlendShapeMapping, filter.remapped)
               /\ result.blendShapeChannelNames = KeepPositions(doc.blendShapeChannelNames, filter.passing)
               /\ result.meshBlendShapeChannelMapping =
                      PairsOf(doc.meshBlendShapeChannelMapping, 2, filter)
BY FieldsAre DEF ApplyBlendShapeFilter

\* The animated maps that pass, and their new numbers.
LEMMA AnimatedMapFilterGives ==
    ASSUME NEW doc, DOMAIN doc = Fields, NEW filter
    PROVE  LET result == ApplyAnimatedMapFilter(doc, filter)
           IN  /\ DOMAIN result = Fields
               /\ \A f \in Fields \ {"lodAnimatedMapMapping", "animatedMapNames"} :
                     result[f] = doc[f]
               /\ result.lodAnimatedMapMapping = MapIndices(doc.lodAnimatedMapMapping, filter.remapped)
               /\ result.animatedMapNames = KeepPositions(doc.animatedMapNames, filter.passing)
BY FieldsAre DEF ApplyAnimatedMapFilter

\* The filter of a table, by its elements of the LODs that are kept.
TableFilter(names, mapping) ==
    Filter(Len(names), CombinedDistinctIndices(DiscardLODs(mapping, archive.lods)))

JointsAllowed ==
    CombinedDistinctIndices(DiscardLODs(file.lodJointMapping, archive.lods))
        \cup (Positions(file.jointNames) \ ToSet(GetIndices(file.lodJointMapping, 0)))

\* The tables of a definition that was filtered.
LEMMA DefinitionIsFiltered ==
    ASSUME DOMAIN dna = Fields, FilterDefinition(Read(definitionFields)),
           DOMAIN archive = {"lods", "unconstrainedLODCount", "meshes", "joints", "channels",
                             "rootJointIndex", "loadedControls"}
    PROVE  LET discard(m) == DiscardLODs(m, archive.lods)
               meshes == TableFilter(file.meshNames, file.lodMeshMapping)
               channels == TableFilter(file.blendShapeChannelNames, file.lodBlendShapeMapping)
               maps == TableFilter(file.animatedMapNames, file.lodAnimatedMapMapping)
           IN  /\ DOMAIN dna' = Fields /\ DOMAIN archive' = DOMAIN archive
               /\ \A f \in Fields \ definitionFields : dna'[f] = dna[f]
               /\ \A f \in {"lods", "unconstrainedLODCount"} : archive'[f] = archive[f]
               /\ archive'.loadedControls = [i \in 1 .. file.rawControlCount |-> TRUE]
               /\ \E hierarchy : archive'.joints =
                      WithParents(Filter(Len(file.jointNames), JointsAllowed), hierarchy)
               /\ dna'.meshNames = KeepPositions(file.meshNames, meshes.passing)
               /\ dna'.lodMeshMapping = MapIndices(discard(file.lodMeshMapping), meshes.remapped)
               /\ dna'.jointNames = KeepPositions(file.jointNames, archive'.joints.passing)
               /\ dna'.lodJointMapping = MapIndices(discard(file.lodJointMapping),
                                                    archive'.joints.remapped)
               /\ dna'.blendShapeChannelNames =
                      KeepPositions(file.blendShapeChannelNames, channels.passing)
               /\ dna'.lodBlendShapeMapping =
                      MapIndices(discard(file.lodBlendShapeMapping), channels.remapped)
               /\ dna'.animatedMapNames = KeepPositions(file.animatedMapNames, maps.passing)
               /\ dna'.lodAnimatedMapMapping =
                      MapIndices(discard(file.lodAnimatedMapMapping), maps.remapped)
               /\ archive'.meshes = meshes /\ archive'.channels = channels
               /\ dna'.jointHierarchy =
                      Mapped(KeepPositions(file.jointHierarchy, archive'.joints.passing),
                             archive'.joints.remapped)
               /\ dna'.meshBlendShapeChannelMapping =
                      PairsOf(PairsOf(file.meshBlendShapeChannelMapping, 1, meshes), 2, channels)
<1> DEFINE discard(m) == DiscardLODs(m, archive.lods)
           doc == Read(definitionFields)
           kept == [doc EXCEPT !.lodMeshMapping = discard(@), !.lodJointMapping = discard(@),
                               !.lodBlendShapeMapping = discard(@),
                               !.lodAnimatedMapMapping = discard(@)]
           meshes == TableFilter(file.meshNames, file.lodMeshMapping)
           hierarchy == KeepPositions(file.jointHierarchy, JointsAllowed)
           joints == WithParents(Filter(Len(file.jointNames), JointsAllowed), hierarchy)
           channels == TableFilter(file.blendShapeChannelNames, file.lodBlendShapeMapping)
           maps == TableFilter(file.animatedMapNames, file.lodAnimatedMapMapping)
           doc1 == ApplyMeshFilter(kept, meshes)
           doc2 == ApplyJointFilter(doc1, joints)
           doc3 == ApplyBlendShapeFilter(doc2, channels)
           doc4 == ApplyAnimatedMapFilter(doc3, maps)
<1>1. /\ DOMAIN doc = Fields
      /\ \A f \in Fields \ definitionFields : doc[f] = dna[f]
      /\ doc.meshNames = file.meshNames /\ doc.lodMeshMapping = file.lodMeshMapping
      /\ doc.jointNames = file.jointNames /\ doc.lodJointMapping = file.lodJointMapping
      /\ doc.jointHierarchy = file.jointHierarchy
      /\ doc.blendShapeChannelNames = file.blendShapeChannelNames
      /\ doc.lodBlendShapeMapping = file.lodBlendShapeMapping
      /\ doc.animatedMapNames = file.animatedMapNames
      /\ doc.lodAnimatedMapMapping = file.lodAnimatedMapMapping
      /\ doc.meshBlendShapeChannelMapping = file.meshBlendShapeChannelMapping
  BY FieldsAre DEF Read, definitionFields
<1>2. /\ dna' = doc4
      /\ archive' = [archive EXCEPT !.meshes = meshes, !.joints = joints, !.channels = channels,
                        !.rootJointIndex = RootOf(doc4.jointHierarchy),
                        !.loadedControls = [i \in 1 .. file.rawControlCount |-> TRUE]]
  <2> HIDE DEF doc
  <2>1. /\ kept.lodMeshMapping = discard(file.lodMeshMapping)
        /\ kept.lodJointMapping = discard(file.lodJointMapping)
        /\ kept.lodBlendShapeMapping = discard(file.lodBlendShapeMapping)
        /\ kept.lodAnimatedMapMapping = discard(file.lodAnimatedMapMapping)
    BY <1>1, FieldsAre
  <2>2. AllowedJoints(doc, kept.lodJointMapping) = JointsAllowed
    BY <1>1, <2>1 DEF AllowedJoints, JointsAllowed
  <2> HIDE DEF kept
  <2>3. /\ Filter(Len(doc.meshNames), CombinedDistinctIndices(kept.lodMeshMapping)) = meshes
        /\ WithParents(Filter(Len(doc.jointNames), AllowedJoints(doc, kept.lodJointMapping)),
                       KeepPositions(doc.jointHierarchy, AllowedJoints(doc, kept.lodJointMapping)))
               = joints
        /\ Filter(Len(doc.blendShapeChannelNames),
                  CombinedDistinctIndices(kept.lodBlendShapeMapping)) = channels
        /\ Filter(Len(doc.animatedMapNames),
                  CombinedDistinctIndices(kept.lodAnimatedMapMapping)) = maps
    BY <1>1, <2>1, <2>2 DEF TableFilter
  <2> HIDE DEF meshes, joints, channels, maps
  <2> QED  BY <2>3 DEF FilterDefinition, kept, doc
<1>3. /\ DOMAIN kept = Fields
      /\ \A f \in Fields \ {"lodMeshMapping", "lodJointMapping", "lodBlendShapeMapping",
                            "lodAnimatedMapMapping"} : kept[f] = doc[f]
      /\ kept.lodMeshMapping = discard(file.lodMeshMapping)
      /\ kept.lodJointMapping = discard(file.lodJointMapping)
      /\ kept.lodBlendShapeMapping = discard(file.lodBlendShapeMapping)
      /\ kept.lodAnimatedMapMapping = discard(file.lodAnimatedMapMapping)
  <2> HIDE DEF doc
  <2> QED  BY <1>1, FieldsAre
<1> HIDE DEF kept, doc, meshes, joints, channels, maps
<1>4. /\ DOMAIN doc1 = Fields
      /\ \A f \in Fields \ {"lodMeshMapping", "meshNames", "meshBlendShapeChannelMapping"} :
            doc1[f] = kept[f]
      /\ doc1.lodMeshMapping = MapIndices(kept.lodMeshMapping, meshes.remapped)
      /\ doc1.meshNames = KeepPositions(kept.meshNames, meshes.passing)
      /\ doc1.meshBlendShapeChannelMapping = PairsOf(kept.meshBlendShapeChannelMapping, 1, meshes)
  BY <1>3, MeshFilterGives
<1> HIDE DEF doc1
<1>5. /\ DOMAIN doc2 = Fields
      /\ \A f \in Fields \ {"lodJointMapping", "jointNames", "jointHierarchy"} : doc2[f] = doc1[f]
      /\ doc2.lodJointMapping = MapIndices(doc1.lodJointMapping, joints.remapped)
      /\ doc2.jointNames = KeepPositions(doc1.jointNames, joints.passing)
      /\ doc2.jointHierarchy = Mapped(KeepPositions(doc1.jointHierarchy, joints.passing), joints.remapped)
  BY <1>4, JointFilterGives
<1> HIDE DEF doc2
<1>6. /\ DOMAIN doc3 = Fields
      /\ \A f \in Fields \ {"lodBlendShapeMapping", "blendShapeChannelNames",
                            "meshBlendShapeChannelMapping"} : doc3[f] = doc2[f]
      /\ doc3.lodBlendShapeMapping = MapIndices(doc2.lodBlendShapeMapping, channels.remapped)
      /\ doc3.blendShapeChannelNames = KeepPositions(doc2.blendShapeChannelNames, channels.passing)
      /\ doc3.meshBlendShapeChannelMapping = PairsOf(doc2.meshBlendShapeChannelMapping, 2, channels)
  BY <1>5, BlendShapeFilterGives
<1> HIDE DEF doc3
<1>7. /\ DOMAIN doc4 = Fields
      /\ \A f \in Fields \ {"lodAnimatedMapMapping", "animatedMapNames"} : doc4[f] = doc3[f]
      /\ doc4.lodAnimatedMapMapping = MapIndices(doc3.lodAnimatedMapMapping, maps.remapped)
      /\ doc4.animatedMapNames = KeepPositions(doc3.animatedMapNames, maps.passing)
  BY <1>6, AnimatedMapFilterGives
<1> HIDE DEF doc4
<1>8. \A f \in Fields \ definitionFields : doc4[f] = dna[f]
  BY <1>1, <1>3, <1>4, <1>5, <1>6, <1>7 DEF definitionFields
<1>9. /\ doc4.meshNames = doc1.meshNames /\ doc4.lodMeshMapping = doc1.lodMeshMapping
      /\ doc4.jointNames = doc2.jointNames /\ doc4.lodJointMapping = doc2.lodJointMapping
      /\ doc4.blendShapeChannelNames = doc3.blendShapeChannelNames
      /\ doc4.lodBlendShapeMapping = doc3.lodBlendShapeMapping
  BY <1>5, <1>6, <1>7, FieldsAre
<1>10. /\ kept.meshNames = file.meshNames
       /\ doc1.jointNames = file.jointNames /\ doc1.lodJointMapping = discard(file.lodJointMapping)
       /\ doc2.blendShapeChannelNames = file.blendShapeChannelNames
       /\ doc2.lodBlendShapeMapping = discard(file.lodBlendShapeMapping)
       /\ doc3.animatedMapNames = file.animatedMapNames
       /\ doc3.lodAnimatedMapMapping = discard(file.lodAnimatedMapMapping)
  BY <1>1, <1>3, <1>4, <1>5, <1>6, FieldsAre
<1>11. /\ DOMAIN archive' = DOMAIN archive
       /\ \A f \in {"lods", "unconstrainedLODCount"} : archive'[f] = archive[f]
       /\ archive'.loadedControls = [i \in 1 .. file.rawControlCount |-> TRUE]
       /\ archive'.joints = joints
       /\ archive'.meshes = meshes /\ archive'.channels = channels
  BY <1>2
<1>12. \E h : archive'.joints = WithParents(Filter(Len(file.jointNames), JointsAllowed), h)
  BY <1>11 DEF joints
<1> HIDE DEF discard, hierarchy
<1>13. /\ DOMAIN dna' = Fields /\ \A f \in Fields \ definitionFields : dna'[f] = dna[f]
       /\ dna'.meshNames = KeepPositions(file.meshNames, meshes.passing)
       /\ dna'.lodMeshMapping = MapIndices(discard(file.lodMeshMapping), meshes.remapped)
       /\ dna'.jointNames = KeepPositions(file.jointNames, archive'.joints.passing)
       /\ dna'.lodJointMapping = MapIndices(discard(file.lodJointMapping), archive'.joints.remapped)
       /\ dna'.blendShapeChannelNames = KeepPositions(file.blendShapeChannelNames, channels.passing)
       /\ dna'.lodBlendShapeMapping = MapIndices(discard(file.lodBlendShapeMapping), channels.remapped)
       /\ dna'.animatedMapNames = KeepPositions(file.animatedMapNames, maps.passing)
       /\ dna'.lodAnimatedMapMapping = MapIndices(discard(file.lodAnimatedMapMapping), maps.remapped)
  BY <1>2, <1>3, <1>4, <1>5, <1>6, <1>7, <1>8, <1>9, <1>10, <1>11
<1>14. dna'.jointHierarchy = Mapped(KeepPositions(file.jointHierarchy, archive'.joints.passing),
                                    archive'.joints.remapped)
  <2>1. doc4.jointHierarchy = doc2.jointHierarchy /\ doc1.jointHierarchy = file.jointHierarchy
    BY <1>1, <1>3, <1>4, <1>6, <1>7, FieldsAre
  <2> QED  BY <1>2, <1>5, <1>11, <2>1
<1>15. dna'.meshBlendShapeChannelMapping =
           PairsOf(PairsOf(file.meshBlendShapeChannelMapping, 1, meshes), 2, channels)
  <2>1. /\ doc4.meshBlendShapeChannelMapping = doc3.meshBlendShapeChannelMapping
        /\ doc2.meshBlendShapeChannelMapping = doc1.meshBlendShapeChannelMapping
        /\ kept.meshBlendShapeChannelMapping = file.meshBlendShapeChannelMapping
    BY <1>1, <1>3, <1>5, <1>7, FieldsAre
  <2> QED  BY <1>2, <1>4, <1>6, <2>1
<1> QED  BY <1>11, <1>12, <1>13, <1>14, <1>15 DEF meshes, channels, maps, discard

\* In a numbered table an element is its number.
LEMMA NumberedNames ==
    ASSUME NEW names, Numbered(names)
    PROVE  /\ names \in Seq(Nat) /\ Len(names) \in Nat
           /\ \A i \in Positions(names) : Nth(names, i) = i
<1>1. names \in Seq(Nat) /\ Len(names) \in Nat
  BY DEF Numbered
<1>2. ASSUME NEW i \in Positions(names)  PROVE Nth(names, i) = i
  <2>1. i + 1 \in 1 .. Len(names) /\ (i + 1) - 1 = i
    BY <1>1 DEF Positions
  <2> QED  BY <1>1, <2>1 DEF Numbered, Nth
<1> QED  BY <1>1, <1>2

\* The filter of a table passes what a LOD that is kept has.
LEMMA TableFilterGives ==
    ASSUME NEW n \in Nat, IsConstraint(archive.lods, n),
           NEW names, Numbered(names), NEW m, IsMapping(m, n, Len(names))
    PROVE  LET D == CombinedDistinctIndices(DiscardLODs(m, archive.lods))
           IN  /\ D \in SUBSET (0 .. Len(names) - 1)
               /\ TableFilter(names, m).passing = D
               /\ \A i \in D : TableFilter(names, m).remapped[i] = Place(D, i)
<1> DEFINE D == CombinedDistinctIndices(DiscardLODs(m, archive.lods))
<1>1. Len(names) \in Nat
  BY NumberedNames
<1>2. D \in SUBSET (0 .. Len(names) - 1)
  BY <1>1, DiscardKeepsLists DEF IsMapping
<1>3. TableFilter(names, m) = Filter(Len(names), D)
  BY DEF TableFilter
<1> HIDE DEF D
<1>4. TableFilter(names, m).passing = D /\ \A i \in D : TableFilter(names, m).remapped[i] = Place(D, i)
  BY <1>1, <1>2, <1>3, FilterGives
<1> QED  BY <1>2, <1>4 DEF D

\* Every joint of a LOD that is kept passes and is found at its place.
LEMMA JointsAreFound ==
    ASSUME NEW n \in Nat, IsConstraint(archive.lods, n), n = file.lodCount,
           Numbered(file.jointNames), IsMapping(file.lodJointMapping, n, Len(file.jointNames)),
           NEW hierarchy, NEW joints,
           joints = WithParents(Filter(Len(file.jointNames), JointsAllowed), hierarchy)
    PROVE  /\ JointsAllowed \in SUBSET (0 .. Len(file.jointNames) - 1)
           /\ CombinedDistinctIndices(DiscardLODs(file.lodJointMapping, archive.lods)) \subseteq JointsAllowed
           /\ joints.passing = JointsAllowed
           /\ \A j \in JointsAllowed : j \in DOMAIN joints.remapped
                                       /\ joints.remapped[j] = Place(JointsAllowed, j)
           /\ \A j \in JointsAllowed :
                 LET left == KeepPositions(file.jointNames, JointsAllowed)
                 IN  /\ joints.remapped[j] \in Positions(left)
                     /\ Nth(left, joints.remapped[j]) = j
           /\ \A lod \in 0 .. Len(archive.lods) - 1 :
                 ToSet(GetIndices(file.lodJointMapping, InFile(lod))) \subseteq JointsAllowed
<1> DEFINE names == file.jointNames
           m == file.lodJointMapping
           D == CombinedDistinctIndices(DiscardLODs(m, archive.lods))
           left == KeepPositions(names, JointsAllowed)
           filter == Filter(Len(names), JointsAllowed)
<1>1. names \in Seq(Nat) /\ Len(names) \in Nat /\ \A i \in Positions(names) : Nth(names, i) = i
  BY NumberedNames
<1>2. /\ D \subseteq 0 .. Len(names) - 1
      /\ IsMapping(DiscardLODs(m, archive.lods), Len(archive.lods), Len(names))
      /\ \A k \in 0 .. Len(archive.lods) - 1 :
            GetIndices(DiscardLODs(m, archive.lods), k) = GetIndices(m, Nth(archive.lods, k))
  <2> DEFINE c == archive.lods
             r == DiscardLODs(m, c)
  <2>1. IsConstraint(c, n) /\ IsMapping(m, n, Len(names))
    OBVIOUS
  <2> HIDE DEF c, m, names
  <2>2. /\ IsMapping(r, Len(c), Len(names))
        /\ \A k \in 0 .. Len(c) - 1 : GetIndices(r, k) = GetIndices(m, Nth(c, k))
    BY <1>1, <2>1, DiscardKeepsLists, SMTT(30)
  <2>3. CombinedDistinctIndices(r) \subseteq 0 .. Len(names) - 1
    BY <2>2 DEF IsMapping
  <2> QED  BY <2>2, <2>3 DEF c
<1>3. JointsAllowed \in SUBSET (0 .. Len(names) - 1) /\ D \subseteq JointsAllowed
  BY <1>2 DEF JointsAllowed, Positions
<1> HIDE DEF names, left
<1>4. filter.passing = JointsAllowed /\ DOMAIN filter.remapped = JointsAllowed
      /\ \A j \in JointsAllowed : filter.remapped[j] = Place(JointsAllowed, j)
  BY <1>1, <1>3, FilterGives
<1>5. "remapped" \in DOMAIN filter /\ "passing" \in DOMAIN filter
  BY DEF Filter
<1> DEFINE entries == [j \in DOMAIN filter.remapped \cup ToSet(hierarchy) |->
                          IF j \in DOMAIN filter.remapped THEN filter.remapped[j] ELSE 0]
<1>6. joints = [filter EXCEPT !.remapped = entries]
  BY DEF WithParents, names
<1> HIDE DEF filter
<1>7. joints.passing = JointsAllowed
      /\ \A j \in JointsAllowed : j \in DOMAIN joints.remapped
                                  /\ joints.remapped[j] = Place(JointsAllowed, j)
  <2>1. \A j \in JointsAllowed : j \in DOMAIN entries /\ entries[j] = Place(JointsAllowed, j)
    BY <1>4
  <2> HIDE DEF entries
  <2>2. joints.passing = filter.passing /\ joints.remapped = entries
    BY <1>5, <1>6
  <2> QED  BY <1>4, <2>1, <2>2
<1>8. Kept(names, JointsAllowed) = JointsAllowed
  BY <1>3 DEF Kept, Positions
<1>9. \A j \in JointsAllowed : /\ joints.remapped[j] \in Positions(left)
                               /\ Nth(left, joints.remapped[j]) = j
  <2>1. \A j \in JointsAllowed : /\ Place(JointsAllowed, j) \in Positions(left)
                                 /\ Nth(left, Place(JointsAllowed, j)) = Nth(names, j)
    BY <1>1, <1>8, KeepPositionsKeeps DEF left
  <2>2. \A j \in JointsAllowed : Nth(names, j) = j
    BY <1>1, <1>3 DEF Positions
  <2> QED  BY <1>7, <2>1, <2>2
<1>10. ASSUME NEW lod \in 0 .. Len(archive.lods) - 1
       PROVE  ToSet(GetIndices(m, InFile(lod))) \subseteq JointsAllowed
  <2>1. Len(archive.lods) \in Nat
    BY DEF IsConstraint
  <2>2. ToSet(GetIndices(DiscardLODs(m, archive.lods), lod)) \subseteq D
    <3> DEFINE r == DiscardLODs(m, archive.lods)
               count == Len(names)
               k == Len(archive.lods)
    <3>1. count \in Nat /\ k \in Nat /\ IsMapping(r, k, count) /\ lod \in 0 .. k - 1
      BY <1>1, <1>2, <2>1
    <3> HIDE DEF r, count, k
    <3>2. ToSet(GetIndices(r, lod)) \subseteq CombinedDistinctIndices(r)
      BY <3>1, MappingGives
    <3> QED  BY <3>2 DEF r
  <2> QED  BY <1>2, <1>3, <2>2 DEF InFile
<1> QED  BY <1>3, <1>7, <1>9, <1>10 DEF left, names

\* Loading the definition leaves every LOD its elements, whether or not tables are filtered.
LEMMA DefinitionKeeps ==
    ASSUME FilterInv, LoadDefinition, UNCHANGED <<file, config>>
    PROVE  FilterInv'
<1>1. step = 2 /\ step' = 3
  BY StepOf DEF LoadDefinition, Proceed
<1>2. /\ DOMAIN dna = Fields /\ Consistent(file) /\ file.lodCount \in Nat
      /\ IsConstraint(archive.lods, file.lodCount)
      /\ (Filters <=> HasImpactOn(archive.lods, file.lodCount))
      /\ DOMAIN archive = {"lods", "unconstrainedLODCount", "meshes", "joints", "channels",
                           "rootJointIndex", "loadedControls"}
      /\ dna.lodCount = Len(archive.lods)
  BY <1>1, LaterStep
<1>3. /\ IsTable(file.meshNames, file.lodMeshMapping, file.lodCount)
      /\ IsTable(file.jointNames, file.lodJointMapping, file.lodCount)
      /\ IsTable(file.blendShapeChannelNames, file.lodBlendShapeMapping, file.lodCount)
      /\ IsTable(file.animatedMapNames, file.lodAnimatedMapMapping, file.lodCount)
      /\ file.rawControlCount \in Nat
      /\ InOrder(file.lodBlendShapeMapping, file.lodCount)
      /\ InOrder(file.lodAnimatedMapMapping, file.lodCount)
  BY <1>2 DEF Consistent, FilterInv, RequestInv
<1>4. CASE ~Loads("defn")
  <2>1. UNCHANGED <<archive, dna>>
    BY <1>4 DEF LoadDefinition
  <2>2. KeepsLODs
    BY <1>1, <2>1 DEF KeepsLODs
  <2>3. RequestInv' /\ LODsInv' /\ Filters' = Filters
    BY <2>2, LODsStay DEF FilterInv
  <2>4. ~Loads("bhvr") /\ (Loads("defn"))' = Loads("defn") /\ (Loads("bhvr"))' = Loads("bhvr")
    BY <1>4 DEF FilterInv, RequestInv, IsConfig, Loads
  <2>5. BehaviorInv'
    BY <1>1, <2>1 DEF FilterInv, BehaviorInv
  <2> QED  BY <1>1, <1>4, <2>3, <2>4, <2>5
           DEF FilterInv, DefinitionInv, ControlsInv, NetworksInv, SolversInv, OperationsInv, PostInv
<1>5. CASE Loads("defn")
  <2>1. /\ DOMAIN dna' = Fields /\ DOMAIN archive' = DOMAIN archive
        /\ \A f \in Fields \ definitionFields : dna'[f] = dna[f]
        /\ archive'.lods = archive.lods
        /\ archive'.unconstrainedLODCount = archive.unconstrainedLODCount
        /\ archive'.loadedControls = [i \in 1 .. file.rawControlCount |-> TRUE]
    <3>1. CASE Filters
      <4>1. FilterDefinition(Read(definitionFields))
        BY <1>5, <3>1 DEF LoadDefinition
      <4> QED  BY <1>2, <4>1, DefinitionIsFiltered
    <3>2. CASE ~Filters
      <4>1. /\ dna' = Read(definitionFields)
            /\ archive' = [archive EXCEPT !.loadedControls = [i \in 1 .. file.rawControlCount |-> TRUE]]
        BY <1>5, <3>2 DEF LoadDefinition
      <4>2. /\ DOMAIN dna' = Fields /\ \A f \in Fields \ definitionFields : dna'[f] = dna[f]
        BY <1>2, <4>1 DEF Read
      <4> QED  BY <1>2, <4>1, <4>2
    <3> QED  BY <3>1, <3>2
  <2>2. KeepsLODs
    BY <1>1, <1>2, <2>1, FieldsAre DEF KeepsLODs, definitionFields
  <2>3. RequestInv' /\ LODsInv' /\ Filters' = Filters
    BY <2>2, LODsStay DEF FilterInv
  <2>4. BehaviorInv'
    <3>1. dna'.blendShapeChannels = dna.blendShapeChannels
      BY <2>1, FieldsAre DEF definitionFields
    <3>2. dna.blendShapeChannels = NoRows
      BY <1>1 DEF FilterInv, BehaviorInv
    <3> QED  BY <1>1, <3>1, <3>2 DEF BehaviorInv
  <2>5. ControlsInv'
    <3> DEFINE s == [i \in 1 .. file.rawControlCount |-> TRUE]
    <3>1. s \in Seq(BOOLEAN) /\ Len(s) = file.rawControlCount
          /\ \A i \in 1 .. file.rawControlCount : s[i]
      <4> DEFINE n == file.rawControlCount
      <4>1. n \in Nat
        BY <1>3
      <4> HIDE DEF n
      <4>2. s \in [1 .. n -> BOOLEAN]
        BY Zenon DEF n
      <4>3. \A i \in 1 .. n : s[i]
        BY Zenon DEF n
      <4> HIDE DEF s
      <4>4. s \in Seq(BOOLEAN) /\ Len(s) = n
        BY <4>1, <4>2
      <4> QED  BY <4>3, <4>4 DEF n
    <3>2. archive'.loadedControls = s
      BY <2>1
    <3> HIDE DEF s
    <3>3. ControlsSoFar' = file.rawControlCount
      BY <1>1, <1>3 DEF ControlsSoFar
    <3>4. \A control \in 0 .. file.rawControlCount - 1 : Nth(s, control) /\ ControlIsLoaded(control)'
      <4> TAKE control \in 0 .. file.rawControlCount - 1
      <4>1. control + 1 \in 1 .. file.rawControlCount
        BY <1>3
      <4>2. file.psdCount \in Nat
        BY <1>2 DEF Consistent
      <4>3. control < file.rawControlCount + file.psdCount
        BY <1>3, <4>2
      <4> QED  BY <3>1, <4>1, <4>3 DEF Nth, ControlIsLoaded
    <3> QED  BY <3>1, <3>2, <3>3, <3>4 DEF ControlsInv
  <2>6. DefinitionInv'
    <3> DEFINE c == archive.lods
    <3>1. /\ file' = file /\ c' = c /\ step' = 3
          /\ \A lod : InFile(lod)' = InFile(lod)
      BY <1>1, <2>1 DEF InFile
    <3>2. CASE Filters
      <4> DEFINE discard(m) == DiscardLODs(m, c)
                 meshes == TableFilter(file.meshNames, file.lodMeshMapping)
                 channels == TableFilter(file.blendShapeChannelNames, file.lodBlendShapeMapping)
                 maps == TableFilter(file.animatedMapNames, file.lodAnimatedMapMapping)
      <4>1. FilterDefinition(Read(definitionFields))
        BY <1>5, <3>2 DEF LoadDefinition
      <4>2. PICK hierarchy : archive'.joints =
                WithParents(Filter(Len(file.jointNames), JointsAllowed), hierarchy)
        BY <1>2, <4>1, DefinitionIsFiltered
      <4>3. /\ dna'.meshNames = KeepPositions(file.meshNames, meshes.passing)
            /\ dna'.lodMeshMapping = MapIndices(discard(file.lodMeshMapping), meshes.remapped)
            /\ dna'.jointNames = KeepPositions(file.jointNames, archive'.joints.passing)
            /\ dna'.lodJointMapping = MapIndices(discard(file.lodJointMapping), archive'.joints.remapped)
            /\ dna'.blendShapeChannelNames = KeepPositions(file.blendShapeChannelNames, channels.passing)
            /\ dna'.lodBlendShapeMapping = MapIndices(discard(file.lodBlendShapeMapping), channels.remapped)
            /\ dna'.animatedMapNames = KeepPositions(file.animatedMapNames, maps.passing)
            /\ dna'.lodAnimatedMapMapping = MapIndices(discard(file.lodAnimatedMapMapping), maps.remapped)
        BY <1>2, <4>1, DefinitionIsFiltered
      <4>4. Shows(dna'.meshNames, dna'.lodMeshMapping, c, file.meshNames, file.lodMeshMapping, {})
        <5> DEFINE D == CombinedDistinctIndices(DiscardLODs(file.lodMeshMapping, c))
                   map == meshes.remapped
                   names == file.meshNames
                   m == file.lodMeshMapping
        <5>1. Numbered(names) /\ IsMapping(m, file.lodCount, Len(names)) /\ names \in Seq(Nat)
          BY <1>3 DEF IsTable, Numbered
        <5>2. D \in SUBSET (0 .. Len(names) - 1) /\ meshes.passing = D
              /\ \A i \in D : map[i] = Place(D, i)
          BY <1>2, <5>1, TableFilterGives
        <5>3. CombinedDistinctIndices(DiscardLODs(m, c)) \subseteq D
          OBVIOUS
        <5> HIDE DEF D, map
        <5>4. Shows(KeepPositions(names, D), MapIndices(DiscardLODs(m, c), map), c, names, m, {})
          BY <1>2, <5>1, <5>2, <5>3, FilteredShows
        <5> QED  BY <4>3, <5>2, <5>4 DEF map
      <4>5. /\ Shows(dna'.jointNames, dna'.lodJointMapping, c, file.jointNames, file.lodJointMapping, {})
            /\ \A lod \in 0 .. Len(c) - 1 :
                  \A j \in ToSet(GetIndices(file.lodJointMapping, InFile(lod))) : JointIsFound(j)'
        <5> DEFINE joints == archive'.joints
                   map == joints.remapped
                   names == file.jointNames
                   m == file.lodJointMapping
                   left == KeepPositions(names, JointsAllowed)
        <5>1. Numbered(names) /\ IsMapping(m, file.lodCount, Len(names)) /\ names \in Seq(Nat)
          BY <1>3 DEF IsTable, Numbered
        <5>2. /\ JointsAllowed \in SUBSET (0 .. Len(names) - 1)
              /\ CombinedDistinctIndices(DiscardLODs(m, c)) \subseteq JointsAllowed
              /\ joints.passing = JointsAllowed
              /\ \A j \in JointsAllowed : j \in DOMAIN map /\ map[j] = Place(JointsAllowed, j)
              /\ \A j \in JointsAllowed : map[j] \in Positions(left) /\ Nth(left, map[j]) = j
              /\ \A lod \in 0 .. Len(c) - 1 : ToSet(GetIndices(m, InFile(lod))) \subseteq JointsAllowed
          BY <1>2, <4>2, <5>1, JointsAreFound
        <5> HIDE DEF map
        <5>3. Shows(left, MapIndices(DiscardLODs(m, c), map), c, names, m, {})
          BY <1>2, <5>1, <5>2, FilteredShows
        <5>4. dna'.jointNames = left /\ dna'.lodJointMapping = MapIndices(DiscardLODs(m, c), map)
          BY <4>3, <5>2 DEF map
        <5>5. \A j \in JointsAllowed : JointIsFound(j)'
          BY <5>2, <5>4 DEF JointIsFound, map
        <5> QED  BY <5>2, <5>3, <5>4, <5>5
      <4>6. SameLists(dna'.animatedMapNames, dna'.lodAnimatedMapMapping, c, file.lodAnimatedMapMapping)
        <5> DEFINE D == CombinedDistinctIndices(DiscardLODs(file.lodAnimatedMapMapping, c))
                   map == maps.remapped
                   names == file.animatedMapNames
                   m == file.lodAnimatedMapMapping
        <5>1. Numbered(names) /\ IsMapping(m, file.lodCount, Len(names)) /\ InOrder(m, file.lodCount)
          BY <1>3 DEF IsTable
        <5>2. maps.passing = D /\ \A i \in D : map[i] = Place(D, i)
          BY <1>2, <5>1, TableFilterGives
        <5>3. D = CombinedDistinctIndices(DiscardLODs(m, c))
          OBVIOUS
        <5> HIDE DEF D, map
        <5>4. SameLists(KeepPositions(names, D), MapIndices(DiscardLODs(m, c), map), c, m)
          BY <1>2, <5>1, <5>2, <5>3, FilteredLists
        <5> QED  BY <4>3, <5>2, <5>4 DEF map
      <4>7. SameLists(dna'.blendShapeChannelNames, dna'.lodBlendShapeMapping, c, file.lodBlendShapeMapping)
        <5> DEFINE D == CombinedDistinctIndices(DiscardLODs(file.lodBlendShapeMapping, c))
                   map == channels.remapped
                   names == file.blendShapeChannelNames
                   m == file.lodBlendShapeMapping
        <5>1. Numbered(names) /\ IsMapping(m, file.lodCount, Len(names)) /\ InOrder(m, file.lodCount)
          BY <1>3 DEF IsTable
        <5>2. channels.passing = D /\ \A i \in D : map[i] = Place(D, i)
          BY <1>2, <5>1, TableFilterGives
        <5>3. D = CombinedDistinctIndices(DiscardLODs(m, c))
          OBVIOUS
        <5> HIDE DEF D, map
        <5>4. SameLists(KeepPositions(names, D), MapIndices(DiscardLODs(m, c), map), c, m)
          BY <1>2, <5>1, <5>2, <5>3, FilteredLists
        <5> QED  BY <4>3, <5>2, <5>4 DEF map
      <4> QED  BY <2>3, <3>1, <3>2, <4>4, <4>5, <4>6, <4>7 DEF DefinitionInv
    <3>3. CASE ~Filters
      <4>1. dna' = Read(definitionFields)
        BY <1>5, <3>3 DEF LoadDefinition
      <4>2. /\ dna'.meshNames = file.meshNames /\ dna'.lodMeshMapping = file.lodMeshMapping
            /\ dna'.jointNames = file.jointNames /\ dna'.lodJointMapping = file.lodJointMapping
            /\ dna'.blendShapeChannelNames = file.blendShapeChannelNames
            /\ dna'.lodBlendShapeMapping = file.lodBlendShapeMapping
            /\ dna'.animatedMapNames = file.animatedMapNames
            /\ dna'.lodAnimatedMapMapping = file.lodAnimatedMapMapping
        BY <1>2, <4>1, FieldsAre DEF Read, definitionFields
      <4>3. ~HasImpactOn(c, file.lodCount) /\ IsConstraint(c, file.lodCount)
        BY <1>2, <3>3
      <4> HIDE DEF c
      <4>4. Shows(file.meshNames, file.lodMeshMapping, c, file.meshNames, file.lodMeshMapping, {})
        BY <1>2, <1>3, <4>3, UnfilteredShows DEF IsTable, Numbered
      <4>5. Shows(file.jointNames, file.lodJointMapping, c, file.jointNames, file.lodJointMapping, {})
        BY <1>2, <1>3, <4>3, UnfilteredShows DEF IsTable, Numbered
      <4>6. /\ SameLists(file.animatedMapNames, file.lodAnimatedMapMapping, c, file.lodAnimatedMapMapping)
            /\ SameLists(file.blendShapeChannelNames, file.lodBlendShapeMapping, c,
                         file.lodBlendShapeMapping)
        BY <1>2, <1>3, <4>3, UnfilteredLists DEF IsTable
      <4> QED  BY <2>3, <3>1, <3>3, <4>2, <4>4, <4>5, <4>6 DEF DefinitionInv, c
    <3> QED  BY <3>2, <3>3
  <2> QED  BY <1>1, <2>3, <2>4, <2>5, <2>6
           DEF FilterInv, NetworksInv, SolversInv, OperationsInv, PostInv
<1> QED  BY <1>4, <1>5
-----------------------------------------------------------------------------
(* The behavior, whose tables are cut to the rows of the LODs that are kept. *)

\* Sizes of the LODs that are kept: the first is the largest, and cuts what there is.
LEMMA CutSizes ==
    ASSUME NEW n \in Nat, NEW c, IsConstraint(c, n), NEW rowCount \in Nat,
           NEW lods, AreSizes(lods, n, rowCount)
    PROVE  LET t == ApplyTo(c, lods)
           IN  /\ t \in Seq(Nat) /\ Len(t) = Len(c) /\ Len(c) \in Nat
               /\ RowCount(t) \in 0 .. rowCount
               /\ \A lod \in 0 .. Len(c) - 1 : /\ Nth(c, lod) \in 0 .. n - 1
                                               /\ Nth(t, lod) = Nth(lods, Nth(c, lod))
                                               /\ Nth(t, lod) \in 0 .. RowCount(t)
               /\ Len(c) = 0 => RowCount(t) = 0
               /\ Len(c) # 0 => RowCount(t) = Nth(lods, Nth(c, 0))
<1> DEFINE t == ApplyTo(c, lods)
<1>1. lods \in [1 .. n -> Nat] /\ lods \in Seq(Nat) /\ Len(lods) = n
      /\ RowCount(lods) = rowCount /\ \A k, l \in 1 .. n : k <= l => lods[l] <= lods[k]
  BY DEF AreSizes
<1>2. /\ t \in [1 .. Len(c) -> Nat] /\ Len(c) \in Nat /\ Len(t) = Len(c)
      /\ \A k \in 1 .. Len(c) : c[k] \in 0 .. n - 1 /\ t[k] = lods[c[k] + 1]
  BY <1>1, ApplyToPicks
<1> HIDE DEF t
<1>3. t \in Seq(Nat)
  <2> DEFINE k == Len(c)
  <2>1. t \in [1 .. k -> Nat] /\ k \in Nat
    BY <1>2
  <2> HIDE DEF k
  <2> QED  BY <2>1
<1>4. \A k, l \in 1 .. Len(c) : k <= l => c[k] <= c[l]
  <2> SUFFICES ASSUME NEW k \in 1 .. Len(c), NEW l \in 1 .. Len(c), k <= l
               PROVE  c[k] <= c[l]
    OBVIOUS
  <2>1. k < l => c[k] < c[l]
    BY DEF IsConstraint, Increasing
  <2>2. c[k] \in Nat /\ c[l] \in Nat /\ k \in Nat /\ l \in Nat
    BY <1>2
  <2> QED  BY <2>1, <2>2
<1>5. ASSUME Len(c) # 0
      PROVE  /\ RowCount(t) = t[1] /\ t[1] = Nth(lods, Nth(c, 0)) /\ t[1] \in 0 .. rowCount
             /\ \A k \in 1 .. Len(c) : t[k] <= t[1]
  <2>1. 1 \in 1 .. Len(c) /\ t # <<>>
    BY <1>2, <1>5
  <2>2. RowCount(t) = t[1]
    BY <1>3, <2>1 DEF RowCount
  <2>3. c[1] \in 0 .. n - 1 /\ t[1] = lods[c[1] + 1]
    BY <1>2, <2>1
  <2>4. t[1] = Nth(lods, Nth(c, 0))
    BY <2>3 DEF Nth
  <2>5. lods # <<>> /\ 1 \in 1 .. n /\ c[1] + 1 \in 1 .. n /\ 1 <= c[1] + 1
    <3>1. c[1] \in 0 .. n - 1
      BY <2>3
    <3>2. 1 \in 1 .. n /\ c[1] + 1 \in 1 .. n /\ 1 <= c[1] + 1 /\ n # 0
      BY <3>1
    <3>3. Len(lods) = n
      BY <1>1
    <3>4. Len(<<>>) = 0
      OBVIOUS
    <3>5. lods # <<>>
      BY <3>2, <3>3, <3>4
    <3> QED  BY <3>2, <3>5
  <2>6. rowCount = lods[1]
    BY <1>1, <2>5 DEF RowCount
  <2>7. lods[c[1] + 1] <= lods[1]
    BY <1>1, <2>5
  <2>8. lods[c[1] + 1] \in Nat /\ lods[1] \in Nat
    BY <1>1, <2>5
  <2>9. t[1] \in 0 .. rowCount
    BY <2>3, <2>6, <2>7, <2>8
  <2>10. ASSUME NEW k \in 1 .. Len(c)  PROVE t[k] <= t[1]
    <3>1. c[k] \in 0 .. n - 1 /\ t[k] = lods[c[k] + 1] /\ c[1] <= c[k]
      BY <1>2, <1>4, <2>1
    <3>2. c[k] + 1 \in 1 .. n /\ c[1] + 1 <= c[k] + 1
      <4>1. c[1] \in 0 .. n - 1 /\ c[k] \in 0 .. n - 1 /\ c[1] <= c[k]
        BY <2>3, <3>1
      <4> DEFINE x == c[1]
                 y == c[k]
      <4>2. x \in 0 .. n - 1 /\ y \in 0 .. n - 1 /\ x <= y
        BY <4>1
      <4> HIDE DEF x, y
      <4>3. y + 1 \in 1 .. n /\ x + 1 <= y + 1
        BY <4>2
      <4> QED  BY <4>3 DEF x, y
    <3> QED  BY <1>1, <2>3, <2>5, <3>1, <3>2
  <2> QED  BY <2>2, <2>4, <2>9, <2>10
<1>6. Len(c) = 0 => RowCount(t) = 0
  <2>1. Len(c) = 0 => t = <<>>
    BY <1>2, <1>3
  <2> QED  BY <2>1 DEF RowCount
<1>7. ASSUME NEW lod \in 0 .. Len(c) - 1
      PROVE  /\ Nth(c, lod) \in 0 .. n - 1
             /\ Nth(t, lod) = Nth(lods, Nth(c, lod))
             /\ Nth(t, lod) \in 0 .. RowCount(t)
  <2>1. lod + 1 \in 1 .. Len(c) /\ Len(c) # 0
    BY <1>2
  <2>2. c[lod + 1] \in 0 .. n - 1 /\ t[lod + 1] = lods[c[lod + 1] + 1] /\ t[lod + 1] \in Nat
    BY <1>2, <2>1
  <2>3. t[lod + 1] <= t[1] /\ RowCount(t) = t[1] /\ t[1] \in Nat
    BY <1>5, <2>1
  <2> QED  BY <2>2, <2>3 DEF Nth
<1>8. RowCount(t) \in 0 .. rowCount
  BY <1>5, <1>6
<1> QED  BY <1>2, <1>3, <1>5, <1>6, <1>7, <1>8 DEF t

\* Every row of a group that is kept belongs to a joint that is found.
LEMMA NoGroupThrows ==
    ASSUME FilterInv, step \in 3 .. 11, Loads("defn"), Filters,
           NEW g \in DOMAIN file.jointGroups
    PROVE  ~GroupThrows(file.jointGroups[g])
<1> DEFINE group == file.jointGroups[g]
           c == archive.lods
           rowCount == Len(group.outputIndices)
           n == file.lodCount
<1>1. Consistent(file) /\ n \in Nat /\ IsConstraint(c, n)
  BY LaterStep
<1>2. IsGroup(group, file.lodJointMapping, n)
  BY <1>1 DEF Consistent
<1>3. /\ group.outputIndices \in Seq(Nat) /\ rowCount \in Nat
      /\ AreSizes(group.lods, n, rowCount)
      /\ \A lod \in 0 .. n - 1 : \A r \in 0 .. Nth(group.lods, lod) - 1 :
            jointOf(Nth(group.outputIndices, r)) \in ToSet(GetIndices(file.lodJointMapping, lod))
  BY <1>2 DEF IsGroup
<1>4. \A lod \in 0 .. Len(c) - 1 :
         \A j \in ToSet(GetIndices(file.lodJointMapping, Nth(c, lod))) : JointIsFound(j)
  BY DEF FilterInv, DefinitionInv, InFile
<1> DEFINE t == ApplyTo(c, group.lods)
<1>5. /\ Len(c) \in Nat /\ (Len(c) = 0 => RowCount(t) = 0)
      /\ RowCount(t) \in 0 .. rowCount
      /\ \A lod \in 0 .. Len(c) - 1 : Nth(c, lod) \in 0 .. n - 1
      /\ Len(c) # 0 => RowCount(t) = Nth(group.lods, Nth(c, 0))
  <2> DEFINE lods == group.lods
  <2>1. AreSizes(lods, n, rowCount)
    BY <1>3
  <2> HIDE DEF lods, rowCount, n, c
  <2> QED  BY <1>1, <1>3, <2>1, CutSizes DEF lods
<1> HIDE DEF t, c, n, rowCount, group
<1>6. SUFFICES ASSUME NEW i \in 1 .. RowCount(t)
               PROVE  jointOf(group.outputIndices[i]) \in DOMAIN archive.joints.remapped
  BY DEF GroupThrows, t, group, c
<1>7. Len(c) # 0 /\ 0 \in 0 .. Len(c) - 1 /\ i - 1 \in 0 .. Nth(group.lods, Nth(c, 0)) - 1 /\ (i - 1) + 1 = i
  BY <1>5
<1>8. jointOf(Nth(group.outputIndices, i - 1)) \in ToSet(GetIndices(file.lodJointMapping, Nth(c, 0)))
  BY <1>3, <1>5, <1>7
<1>9. JointIsFound(jointOf(Nth(group.outputIndices, i - 1)))
  BY <1>4, <1>7, <1>8
<1> QED  BY <1>7, <1>9 DEF JointIsFound, Nth

\* Loading the behavior throws nothing, and brings its controls along.
LEMMA BehaviorKeeps ==
    ASSUME FilterInv, LoadBehavior, UNCHANGED <<file, config>>
    PROVE  FilterInv'
<1>1. step = 3
  BY StepOf DEF LoadBehavior
<1>2. /\ DOMAIN dna = Fields /\ Consistent(file)
      /\ DOMAIN archive = {"lods", "unconstrainedLODCount", "meshes", "joints", "channels",
                           "rootJointIndex", "loadedControls"}
  BY <1>1, LaterStep
<1>3. Loads("bhvr") => Loads("defn")
  BY DEF FilterInv, RequestInv, IsConfig, Loads
<1>4. ~(Loads("bhvr") /\ Filters /\ \E g \in ToSet(file.jointGroups) : GroupThrows(g))
  <2> SUFFICES ASSUME Loads("bhvr"), Filters, NEW g \in ToSet(file.jointGroups), GroupThrows(g)
               PROVE  FALSE
    OBVIOUS
  <2>1. PICK i \in DOMAIN file.jointGroups : g = file.jointGroups[i]
    BY <1>2 DEF Consistent, ToSet
  <2> QED  BY <1>1, <1>3, <2>1, NoGroupThrows
<1>5. /\ step' = 4
      /\ ~Loads("bhvr") => UNCHANGED <<archive, dna>>
      /\ Loads("bhvr") => /\ archive' = ControlsAppended(file.psdCount, TRUE)
                          /\ dna' = IF ~Filters THEN Read(behaviorFields)
                                    ELSE [Read({"psdCount"}) EXCEPT
                                             !.jointGroups = [g \in 1 .. Len(file.jointGroups) |->
                                                                 FilteredGroup(file.jointGroups[g])],
                                             !.blendShapeChannels = FilteredRows(file.blendShapeChannels),
                                             !.animatedMaps = FilteredRows(file.animatedMaps)]
  <2>1. CASE ~Loads("bhvr")
    <3>1. Proceed /\ UNCHANGED <<archive, dna>>
      BY <2>1 DEF LoadBehavior
    <3>2. step' = 4
      BY <1>1, <3>1 DEF Proceed
    <3> QED  BY <2>1, <3>1, <3>2
  <2>2. CASE Loads("bhvr")
    <3>1. ~(Filters /\ \E g \in ToSet(file.jointGroups) : GroupThrows(g))
      BY <1>4, <2>2
    <3>2. Proceed
      BY <2>2, <3>1 DEF LoadBehavior
    <3>3. step' = 4
      BY <1>1, <3>2 DEF Proceed
    <3>4. /\ archive' = ControlsAppended(file.psdCount, TRUE)
          /\ dna' = IF ~Filters THEN Read(behaviorFields)
                    ELSE [Read({"psdCount"}) EXCEPT
                             !.jointGroups = [g \in 1 .. Len(file.jointGroups) |->
                                                 FilteredGroup(file.jointGroups[g])],
                             !.blendShapeChannels = FilteredRows(file.blendShapeChannels),
                             !.animatedMaps = FilteredRows(file.animatedMaps)]
      BY <2>2, <3>1 DEF LoadBehavior
    <3> QED  BY <2>2, <3>3, <3>4
  <2> QED  BY <2>1, <2>2
<1>6. /\ DOMAIN dna' = Fields
      /\ \A f \in Fields \ behaviorFields : dna'[f] = dna[f]
      /\ DOMAIN archive' = DOMAIN archive
      /\ \A f \in DOMAIN archive \ {"loadedControls"} : archive'[f] = archive[f]
      /\ Loads("bhvr") => archive'.loadedControls =
             archive.loadedControls \o [i \in 1 .. file.psdCount |-> TRUE]
  <2>1. CASE ~Loads("bhvr")
    BY <1>2, <1>5, <2>1
  <2>2. CASE Loads("bhvr")
    <3>1. /\ DOMAIN archive' = DOMAIN archive
          /\ \A f \in DOMAIN archive \ {"loadedControls"} : archive'[f] = archive[f]
          /\ archive'.loadedControls = archive.loadedControls \o [i \in 1 .. file.psdCount |-> TRUE]
      BY <1>2, <1>5, <2>2 DEF ControlsAppended
    <3>2. DOMAIN dna' = Fields /\ \A f \in Fields \ behaviorFields : dna'[f] = dna[f]
      <4>1. CASE ~Filters
        BY <1>2, <1>5, <2>2, <4>1 DEF Read
      <4>2. CASE Filters
        <5> DEFINE R == Read({"psdCount"})
                   groups == [g \in 1 .. Len(file.jointGroups) |-> FilteredGroup(file.jointGroups[g])]
                   channels == FilteredRows(file.blendShapeChannels)
                   maps == FilteredRows(file.animatedMaps)
        <5>1. DOMAIN R = Fields /\ \A f \in Fields \ behaviorFields : R[f] = dna[f]
          BY <1>2 DEF Read, behaviorFields
        <5>2. dna' = [R EXCEPT !.jointGroups = groups, !.blendShapeChannels = channels,
                               !.animatedMaps = maps]
          BY <1>5, <2>2, <4>2
        <5> HIDE DEF R, groups, channels, maps
        <5>3. DOMAIN dna' = DOMAIN R
          BY <5>2
        <5>4. \A f \in DOMAIN R \ behaviorFields : dna'[f] = R[f]
          BY <5>2 DEF behaviorFields
        <5> QED  BY <5>1, <5>3, <5>4
      <4> QED  BY <4>1, <4>2
    <3> QED  BY <3>1, <3>2
  <2> QED  BY <2>1, <2>2
<1>7. KeepsLODs
  BY <1>1, <1>2, <1>5, <1>6, FieldsAre DEF KeepsLODs, behaviorFields
<1>8. RequestInv' /\ LODsInv' /\ Filters' = Filters
  BY <1>7, LODsStay DEF FilterInv
<1>9. archive'.joints = archive.joints /\ archive'.lods = archive.lods
  BY <1>2, <1>6
<1>10. DefinitionInv'
  BY <1>1, <1>6, <1>7, <1>8, <1>9, FieldsAre, DefinitionStays DEF FilterInv, behaviorFields
<1>11. (Loads("bhvr"))' = Loads("bhvr") /\ file' = file
  BY DEF Loads
<1>12. CASE ~Loads("bhvr")
  <2>1. ControlsInv'
    BY <1>11, <1>12 DEF ControlsInv
  <2>2. BehaviorInv'
    BY <1>1, <1>5, <1>11, <1>12 DEF FilterInv, BehaviorInv
  <2> QED  BY <1>5, <1>8, <1>10, <2>1, <2>2
           DEF FilterInv, NetworksInv, SolversInv, OperationsInv, PostInv
<1>13. CASE Loads("bhvr")
  <2>1. ControlsInv'
    <3> DEFINE loaded == TRUE
    <3>1. file.psdCount \in Nat /\ loaded \in BOOLEAN /\ loaded = TRUE
      BY <1>2 DEF Consistent
    <3>2. archive'.loadedControls = archive.loadedControls \o [i \in 1 .. file.psdCount |-> loaded]
      BY <1>6, <1>13
    <3> HIDE DEF loaded
    <3> QED  BY <1>1, <1>7, <3>1, <3>2, ControlsGrow
  <2>2. \A g : FilteredGroup(g)' = FilteredGroup(g)
    <3>1. \A a, n : RemappedAttribute(a, n)' = RemappedAttribute(a, n)
      BY <1>9 DEF RemappedAttribute
    <3> QED  BY <1>9, <3>1 DEF FilteredGroup
  <2>3. \A rows : FilteredRows(rows)' = FilteredRows(rows)
    BY <1>9 DEF FilteredRows
  <2>4. /\ dna'.jointGroups =
               IF Filters THEN [g \in 1 .. Len(file.jointGroups) |-> FilteredGroup(file.jointGroups[g])]
               ELSE file.jointGroups
        /\ dna'.animatedMaps = IF Filters THEN FilteredRows(file.animatedMaps) ELSE file.animatedMaps
        /\ dna'.blendShapeChannels = IF Filters THEN FilteredRows(file.blendShapeChannels)
                                     ELSE file.blendShapeChannels
    BY <1>2, <1>5, <1>13, FieldsAre DEF Read, behaviorFields
  <2>5. (step > 3)'
    BY <1>5
  <2>6. BehaviorInv'
    BY <1>8, <1>11, <1>13, <2>2, <2>3, <2>4, <2>5 DEF BehaviorInv
  <2> QED  BY <1>5, <1>8, <1>10, <2>1, <2>6
           DEF FilterInv, NetworksInv, SolversInv, OperationsInv, PostInv
<1> QED  BY <1>12, <1>13
-----------------------------------------------------------------------------
(* Rows of channels and of animated maps, before any of them is removed.    *)

\* A table has the first rows of the table in the file, as many as its LODs need.
IsCut(rows, lods, fileRows) ==
    /\ rows.inputIndices \in Seq(Nat) /\ rows.outputIndices \in Seq(Nat)
    /\ Len(rows.inputIndices) = Len(rows.outputIndices)
    /\ Len(rows.outputIndices) <= Len(fileRows.outputIndices)
    /\ \A r \in Positions(rows.outputIndices) :
          /\ Nth(rows.inputIndices, r) = Nth(fileRows.inputIndices, r)
          /\ Nth(rows.outputIndices, r) = Nth(fileRows.outputIndices, r)
    /\ rows.lods \in [1 .. Len(lods) -> Nat]
    /\ \A lod \in 0 .. Len(lods) - 1 :
          /\ Nth(rows.lods, lod) = Nth(fileRows.lods, Nth(lods, lod))
          /\ Nth(rows.lods, lod) <= Len(rows.outputIndices)
    /\ Len(rows.outputIndices) = IF Len(lods) = 0 THEN 0 ELSE Nth(rows.lods, 0)

\* The first k elements of a sequence.
LEMMA PrefixGives ==
    ASSUME NEW S, NEW s \in Seq(S), NEW k \in 0 .. Len(s)
    PROVE  /\ SubSeq(s, 1, k) \in Seq(S) /\ Len(SubSeq(s, 1, k)) = k
           /\ \A i \in 0 .. k - 1 : Nth(SubSeq(s, 1, k), i) = Nth(s, i)
<1>1. Len(s) \in Nat /\ k \in Nat /\ k <= Len(s)
  OBVIOUS
<1>2. SubSeq(s, 1, k) \in Seq(S) /\ Len(SubSeq(s, 1, k)) = k
  BY <1>1
<1>3. \A i \in 1 .. k : SubSeq(s, 1, k)[i] = s[i]
  BY <1>1
<1>4. \A i \in 0 .. k - 1 : i + 1 \in 1 .. k
  BY <1>1
<1> QED  BY <1>2, <1>3, <1>4 DEF Nth

\* What AreRows says of a table, one fact at a time.
LEMMA RowsAre ==
    ASSUME NEW n \in Nat, NEW count \in Nat, NEW names, Numbered(names), NEW m,
           IsMapping(m, n, Len(names)), NEW rows, AreRows(rows, names, m, n, count)
    PROVE  LET N == Len(rows.outputIndices)
           IN  /\ N \in Nat /\ Len(rows.inputIndices) = N
               /\ rows.inputIndices \in Seq(Nat) /\ rows.outputIndices \in Seq(Nat)
               /\ AreSizes(rows.lods, n, N)
               /\ \A r \in 0 .. N - 1 : /\ Nth(rows.inputIndices, r) \in 0 .. count - 1
                                        /\ Nth(rows.outputIndices, r) \in Positions(names)
               /\ \A i, k \in 0 .. N - 1 :
                     Nth(rows.outputIndices, i) = Nth(rows.outputIndices, k) => i = k
               /\ \A lod \in 0 .. n - 1 :
                     {r \in 0 .. N - 1 : Nth(rows.outputIndices, r) \in ToSet(GetIndices(m, lod))} =
                     0 .. Nth(rows.lods, lod) - 1
<1> DEFINE N == Len(rows.outputIndices)
           in == rows.inputIndices
           out == rows.outputIndices
           last == Len(names) - 1
<1>1. in \in Seq(0 .. count - 1) /\ out \in Seq(0 .. last) /\ Len(in) = N /\ Len(out) = N
  BY DEF AreRows
<1>2. last + 1 \in Nat
  BY DEF Numbered
<1>12. AreSizes(rows.lods, n, N)
  BY DEF AreRows
<1>3. /\ \A i, k \in 0 .. N - 1 : Nth(out, i) = Nth(out, k) => i = k
      /\ \A lod \in 0 .. n - 1 :
            {r \in 0 .. N - 1 : Nth(out, r) \in ToSet(GetIndices(m, lod))} = 0 .. Nth(rows.lods, lod) - 1
  BY DEF AreRows, Positions
<1> HIDE DEF last, in, out, N
<1>4. N \in Nat /\ in \in [1 .. N -> 0 .. count - 1] /\ out \in [1 .. N -> 0 .. last]
  <2> DEFINE C == 0 .. count - 1
             O == 0 .. last
  <2>1. in \in Seq(C) /\ out \in Seq(O) /\ Len(in) = N /\ Len(out) = N
    BY <1>1
  <2> HIDE DEF C, O
  <2>2. N \in Nat /\ in \in [1 .. N -> C] /\ out \in [1 .. N -> O]
    BY <2>1
  <2> QED  BY <2>2 DEF C, O
<1>5. in \in [1 .. N -> Nat] /\ out \in [1 .. N -> Nat]
  BY <1>4
<1>6. in \in Seq(Nat) /\ out \in Seq(Nat)
  BY <1>4, <1>5
<1>7. \A r \in 0 .. N - 1 : Nth(in, r) \in 0 .. count - 1 /\ Nth(out, r) \in 0 .. last
  BY <1>4 DEF Nth
<1>8. Positions(names) = 0 .. last
  BY DEF Positions, last
<1>9. \A r \in 0 .. N - 1 : Nth(in, r) \in 0 .. count - 1 /\ Nth(out, r) \in Positions(names)
  BY <1>7, <1>8
<1>10. N \in Nat /\ Len(in) = N /\ in \in Seq(Nat) /\ out \in Seq(Nat)
  BY <1>1, <1>4, <1>6
<1>11. N \in Nat /\ Len(in) = N /\ in \in Seq(Nat) /\ out \in Seq(Nat) /\ AreSizes(rows.lods, n, N)
  BY <1>12, <1>10
<1> USE DEF N, in, out
<1> QED  BY ONLY <1>3, <1>9, <1>11

\* Rows that are read are cut to those of the LODs that are kept, if that leaves any out.
LEMMA RowsAreCut ==
    ASSUME NEW n \in Nat, n = file.lodCount, IsConstraint(archive.lods, n),
           (Filters <=> HasImpactOn(archive.lods, n)),
           NEW count \in Nat, NEW names, Numbered(names), NEW m, IsMapping(m, n, Len(names)),
           NEW rows, AreRows(rows, names, m, n, count)
    PROVE  IsCut(IF Filters THEN FilteredRows(rows) ELSE rows, archive.lods, rows)
<1> DEFINE c == archive.lods
           N == Len(rows.outputIndices)
           in == rows.inputIndices
           out == rows.outputIndices
           t == ApplyTo(c, rows.lods)
           k == RowCount(t)
<1>1. /\ N \in Nat /\ Len(in) = N /\ in \in Seq(Nat) /\ out \in Seq(Nat) /\ AreSizes(rows.lods, n, N)
  BY RowsAre
<1>2. CASE Filters
  <2>1. /\ t \in Seq(Nat) /\ Len(t) = Len(c) /\ Len(c) \in Nat
        /\ k \in 0 .. N
        /\ \A lod \in 0 .. Len(c) - 1 : /\ Nth(t, lod) = Nth(rows.lods, Nth(c, lod))
                                        /\ Nth(t, lod) \in 0 .. k
        /\ Len(c) = 0 => k = 0
        /\ Len(c) # 0 => k = Nth(rows.lods, Nth(c, 0))
    <3> DEFINE lods == rows.lods
    <3>1. AreSizes(lods, n, N)
      BY <1>1
    <3> HIDE DEF lods, N, c
    <3>2. IsConstraint(c, n)
      BY DEF c
    <3> QED  BY <1>1, <3>1, <3>2, CutSizes DEF lods
  <2>2. FilteredRows(rows) = [lods |-> t, inputIndices |-> SubSeq(in, 1, k),
                              outputIndices |-> SubSeq(out, 1, k)]
    BY DEF FilteredRows
  <2> DEFINE cut == FilteredRows(rows)
  <2> HIDE DEF in, out, t, k
  <2>10. cut = [lods |-> t, inputIndices |-> SubSeq(in, 1, k), outputIndices |-> SubSeq(out, 1, k)]
    BY <2>2
  <2> HIDE DEF cut
  <2>3. cut.lods = t /\ cut.inputIndices = SubSeq(in, 1, k) /\ cut.outputIndices = SubSeq(out, 1, k)
    BY <2>10
  <2>4. k \in 0 .. Len(in) /\ k \in 0 .. Len(out) /\ Len(out) = N
    BY <1>1, <2>1 DEF in, out
  <2>5. /\ SubSeq(in, 1, k) \in Seq(Nat) /\ Len(SubSeq(in, 1, k)) = k
        /\ \A i \in 0 .. k - 1 : Nth(SubSeq(in, 1, k), i) = Nth(in, i)
        /\ SubSeq(out, 1, k) \in Seq(Nat) /\ Len(SubSeq(out, 1, k)) = k
        /\ \A i \in 0 .. k - 1 : Nth(SubSeq(out, 1, k), i) = Nth(out, i)
    BY <1>1, <2>4, PrefixGives
  <2>6. cut.lods \in [1 .. Len(c) -> Nat]
    <3> DEFINE q == Len(c)
    <3>1. t \in Seq(Nat) /\ Len(t) = q
      BY <2>1
    <3> HIDE DEF q
    <3>2. t \in [1 .. q -> Nat]
      BY <3>1
    <3> QED  BY <2>3, <3>2 DEF q
  <2>7. k = IF Len(c) = 0 THEN 0 ELSE Nth(t, 0)
    <3>1. Len(c) # 0 => 0 \in 0 .. Len(c) - 1
      BY <2>1
    <3> QED  BY <2>1, <3>1
  <2>8. k <= N /\ \A lod \in 0 .. Len(c) - 1 : Nth(t, lod) <= k
    BY <1>1, <2>1
  <2>9. IsCut(cut, c, rows)
    BY <1>1, <2>1, <2>3, <2>5, <2>6, <2>7, <2>8 DEF IsCut, Positions, in, out
  <2> QED  BY <1>2, <2>9 DEF cut
<1>3. CASE ~Filters
  <2>1. Len(c) = n /\ \A i \in 1 .. n : c[i] = i - 1
    BY <1>3, NoImpact
  <2>2. \A lod \in 0 .. n - 1 : lod + 1 \in 1 .. n /\ Nth(c, lod) = lod
    <3> TAKE lod \in 0 .. n - 1
    <3>1. lod + 1 \in 1 .. n /\ (lod + 1) - 1 = lod
      OBVIOUS
    <3> QED  BY <2>1, <3>1 DEF Nth
  <2>3. rows.lods \in [1 .. n -> Nat] /\ RowCount(rows.lods) = N
        /\ \A i, l \in 1 .. n : i <= l => rows.lods[l] <= rows.lods[i]
    BY <1>1 DEF AreSizes
  <2>4. N = IF n = 0 THEN 0 ELSE Nth(rows.lods, 0)
    <3> DEFINE lods == rows.lods
    <3>0. lods \in [1 .. n -> Nat] /\ RowCount(lods) = N
      BY <2>3
    <3> HIDE DEF lods, N
    <3>1. lods \in Seq(Nat) /\ Len(lods) = n /\ RowCount(lods) = N
      BY <3>0
    <3>2. CASE n = 0
      <4>1. lods = <<>>
        BY <3>1, <3>2
      <4> QED  BY <3>1, <3>2, <4>1 DEF RowCount
    <3>3. CASE n # 0
      <4>1. lods # <<>>
        BY <3>1, <3>3
      <4>2. Head(lods) = lods[1]
        BY <3>1, <4>1
      <4> QED  BY <3>1, <3>3, <4>1, <4>2 DEF RowCount, Nth, lods
    <3> QED  BY <3>2, <3>3
  <2>5. \A lod \in 0 .. n - 1 : Nth(rows.lods, lod) <= N
    <3> TAKE lod \in 0 .. n - 1
    <3>1. n # 0 /\ 1 \in 1 .. n /\ lod + 1 \in 1 .. n /\ 1 <= lod + 1
      OBVIOUS
    <3>2. rows.lods[lod + 1] <= rows.lods[1]
      BY <2>3, <3>1
    <3> QED  BY <2>4, <3>1, <3>2 DEF Nth
  <2>6. N <= N
    BY <1>1
  <2> HIDE DEF c
  <2>7. IsCut(rows, c, rows)
    BY <1>1, <2>1, <2>2, <2>3, <2>4, <2>5, <2>6 DEF IsCut
  <2> QED  BY <1>3, <2>7 DEF c
<1> QED  BY <1>2, <1>3

\* The rows that are left drive outputs of the LODs that are kept.
LEMMA CutRowsAreShown ==
    ASSUME NEW n \in Nat, NEW c, IsConstraint(c, n), NEW count \in Nat,
           NEW fileNames, Numbered(fileNames), NEW fm, IsMapping(fm, n, Len(fileNames)),
           NEW fileRows, AreRows(fileRows, fileNames, fm, n, count),
           NEW rows, IsCut(rows, c, fileRows),
           NEW names, NEW m, SameLists(names, m, c, fm)
    PROVE  /\ \A r \in Positions(rows.outputIndices) :
                 /\ Len(c) # 0
                 /\ Nth(rows.outputIndices, r) \in ToSet(GetIndices(m, 0))
                 /\ Nth(rows.outputIndices, r) \in Positions(names)
           /\ \A lod \in 0 .. Len(c) - 1 :
                 /\ HasRows(rows, names, lod)
                 /\ RowsAt(rows, names, lod) = RowsAt(fileRows, fileNames, Nth(c, lod))
<1> DEFINE in == rows.inputIndices
           out == rows.outputIndices
           N == Len(out)
           F == Len(fileRows.outputIndices)
<1>1. /\ in \in Seq(Nat) /\ out \in Seq(Nat) /\ Len(in) = N /\ N <= F /\ N \in Nat
      /\ \A r \in 0 .. N - 1 : /\ Nth(in, r) = Nth(fileRows.inputIndices, r)
                               /\ Nth(out, r) = Nth(fileRows.outputIndices, r)
      /\ rows.lods \in [1 .. Len(c) -> Nat]
      /\ \A lod \in 0 .. Len(c) - 1 : /\ Nth(rows.lods, lod) = Nth(fileRows.lods, Nth(c, lod))
                                      /\ Nth(rows.lods, lod) <= N
      /\ N = IF Len(c) = 0 THEN 0 ELSE Nth(rows.lods, 0)
  BY DEF IsCut, Positions
<1>2. /\ F \in Nat
      /\ \A r \in 0 .. F - 1 : Nth(fileRows.outputIndices, r) \in Positions(fileNames)
      /\ \A lod \in 0 .. n - 1 :
            {r \in 0 .. F - 1 : Nth(fileRows.outputIndices, r) \in ToSet(GetIndices(fm, lod))} =
            0 .. Nth(fileRows.lods, lod) - 1
  BY RowsAre
<1>3. Len(c) \in Nat
  BY DEF IsConstraint
<1>4. \A lod \in 0 .. Len(c) - 1 : Nth(c, lod) \in 0 .. n - 1
                                   /\ ToSet(GetIndices(m, lod)) \subseteq Positions(names)
  BY SameListsShow
<1>5. /\ \A i \in Positions(fileNames) : Nth(fileNames, i) = i
      /\ \A i \in Positions(names) : Nth(names, i) = i
  BY NumberedNames DEF SameLists
<1>6. \A lod \in 0 .. Len(c) - 1 : ToSet(GetIndices(m, lod)) = ToSet(GetIndices(fm, Nth(c, lod)))
  BY DEF SameLists
<1> HIDE DEF F, N, in, out
<1>7. ASSUME NEW r \in 0 .. N - 1
      PROVE  /\ Len(c) # 0
             /\ Nth(out, r) \in ToSet(GetIndices(m, 0))
             /\ Nth(out, r) \in Positions(names) /\ Nth(out, r) \in Positions(fileNames)
  <2>1. Len(c) # 0 /\ 0 \in 0 .. Len(c) - 1 /\ N = Nth(rows.lods, 0)
    BY <1>1, <1>3
  <2>2. r \in 0 .. Nth(fileRows.lods, Nth(c, 0)) - 1 /\ r \in 0 .. F - 1
    <3>1. Nth(fileRows.lods, Nth(c, 0)) = N
      BY <1>1, <2>1
    <3>2. N \in Nat /\ F \in Nat /\ N <= F
      BY <1>1, <1>2
    <3>3. r \in 0 .. F - 1
      BY <3>2
    <3> QED  BY <3>1, <3>3
  <2>3. Nth(fileRows.outputIndices, r) \in ToSet(GetIndices(fm, Nth(c, 0)))
    BY <1>2, <1>4, <2>1, <2>2
  <2> QED  BY <1>1, <1>2, <1>4, <1>6, <2>1, <2>2, <2>3
<1>8. ASSUME NEW lod \in 0 .. Len(c) - 1
      PROVE  /\ HasRows(rows, names, lod)
             /\ RowsAt(rows, names, lod) = RowsAt(fileRows, fileNames, Nth(c, lod))
  <2>1. ToSet(out) \subseteq Positions(names)
    <3>1. ToSet(out) = {out[i] : i \in 1 .. N}
      BY <1>1 DEF ToSet, N
    <3>2. \A i \in 1 .. N : i - 1 \in 0 .. N - 1 /\ Nth(out, i - 1) = out[i]
      BY <1>1 DEF Nth
    <3> QED  BY <1>7, <3>1, <3>2
  <2>2. HasRows(rows, names, lod)
    BY <1>1, <2>1 DEF HasRows, out, N
  <2> DEFINE L == Nth(rows.lods, lod)
  <2>3. L = Nth(fileRows.lods, Nth(c, lod)) /\ L <= N /\ L \in Nat
    <3>1. lod + 1 \in 1 .. Len(c)
      BY <1>3
    <3> QED  BY <1>1, <3>1 DEF Nth
  <2> HIDE DEF L
  <2>4. \A r \in 0 .. L - 1 : r \in 0 .. N - 1
    BY <1>1, <2>3, SMTT(30)
  <2>5. \A r \in 0 .. L - 1 :
           <<Nth(in, r), Nth(names, Nth(out, r))>> =
           <<Nth(fileRows.inputIndices, r), Nth(fileNames, Nth(fileRows.outputIndices, r))>>
    <3> TAKE r \in 0 .. L - 1
    <3>1. r \in 0 .. N - 1
      BY <2>4
    <3>2. Nth(in, r) = Nth(fileRows.inputIndices, r) /\ Nth(out, r) = Nth(fileRows.outputIndices, r)
      BY <1>1, <3>1
    <3>3. Nth(names, Nth(out, r)) = Nth(out, r) /\ Nth(fileNames, Nth(out, r)) = Nth(out, r)
      BY <1>5, <1>7, <3>1
    <3> QED  BY <3>2, <3>3
  <2>6. RowsAt(rows, names, lod) = {<<Nth(in, r), Nth(names, Nth(out, r))>> : r \in 0 .. L - 1}
    BY DEF RowsAt, L, in, out
  <2>7. RowsAt(fileRows, fileNames, Nth(c, lod)) =
           {<<Nth(fileRows.inputIndices, r), Nth(fileNames, Nth(fileRows.outputIndices, r))>> :
               r \in 0 .. L - 1}
    BY <2>3 DEF RowsAt
  <2>8. RowsAt(rows, names, lod) = RowsAt(fileRows, fileNames, Nth(c, lod))
    BY <2>5, <2>6, <2>7
  <2> QED  BY <2>2, <2>8
<1> QED  BY <1>7, <1>8 DEF N, out, Positions
-----------------------------------------------------------------------------
(* Channels and rows that are removed once everything is loaded.            *)

\* Elements of a set are all that a mapping keeps of its lists.
LEMMA FilterIndicesGives ==
    ASSUME NEW n \in Nat, NEW count \in Nat, NEW d, IsMapping(d, n, count), NEW T
    PROVE  /\ IsMapping(FilterIndices(d, T), n, count)
           /\ CombinedDistinctIndices(FilterIndices(d, T)) = CombinedDistinctIndices(d) \cap T
           /\ \A k \in 0 .. n - 1 :
                 ToSet(GetIndices(FilterIndices(d, T), k)) = ToSet(GetIndices(d, k)) \cap T
<1> DEFINE e == FilterIndices(d, T)
           N == Len(d.indices)
           U == Seq(Nat)
<1>1. /\ d.lods \in [1 .. n -> Nat] /\ Len(d.lods) = n
      /\ d.indices \in Seq(U) /\ N \in Nat
      /\ d \in [lods : [1 .. n -> Nat], indices : Seq(U)]
  BY MappingGives DEF IsMapping
<1>2. e = [lods |-> d.lods, indices |-> [i \in 1 .. N |-> Among(d.indices[i], T)]]
  <2> DEFINE lists == [i \in 1 .. N |-> Among(d.indices[i], T)]
  <2>1. e = [d EXCEPT !.indices = lists]
    BY DEF FilterIndices
  <2> HIDE DEF lists, e, U
  <2>2. e = [lods |-> d.lods, indices |-> lists]
    BY <1>1, <2>1
  <2> QED  BY <2>2 DEF lists
<1>3. /\ e.lods = d.lods /\ e.indices = [i \in 1 .. N |-> Among(d.indices[i], T)]
      /\ e = [lods |-> e.lods, indices |-> e.indices]
  BY <1>2
<1> HIDE DEF e
<1>4. ASSUME NEW i \in 1 .. N
      PROVE  Among(d.indices[i], T) \in U /\ ToSet(Among(d.indices[i], T)) = ToSet(d.indices[i]) \cap T
  <2>1. d.indices[i] \in U
    <3> HIDE DEF U
    <3> QED  BY <1>1
  <2> QED  BY <2>1, AmongKeeps
<1> HIDE DEF U, N
<1>5. e.indices \in [1 .. N -> U]
  BY <1>3, <1>4
<1>6. e.indices \in Seq(U) /\ Len(e.indices) = N
  BY <1>1, <1>5
<1>7. \A i \in 1 .. N : ToSet(e.indices[i]) = ToSet(d.indices[i]) \cap T
  BY <1>3, <1>4
<1>8. CombinedDistinctIndices(e) = CombinedDistinctIndices(d) \cap T
  <2>1. /\ CombinedDistinctIndices(e) = UNION {ToSet(e.indices[i]) : i \in 1 .. N}
        /\ CombinedDistinctIndices(d) = UNION {ToSet(d.indices[i]) : i \in 1 .. N}
    BY <1>6 DEF CombinedDistinctIndices, N
  <2>2. UNION {ToSet(e.indices[i]) : i \in 1 .. N} = (UNION {ToSet(d.indices[i]) : i \in 1 .. N}) \cap T
    BY <1>7
  <2> QED  BY <2>1, <2>2
<1>9. \A k \in 0 .. n - 1 : InTable(e, k)
  <2>1. \A k \in 0 .. n - 1 : InTable(d, k)
    BY DEF IsMapping
  <2> QED  BY <1>3, <1>6, <2>1 DEF InTable, N
<1>10. IsMapping(e, n, count)
  <2>1. CombinedDistinctIndices(d) \subseteq 0 .. count - 1
    BY DEF IsMapping
  <2>2. e \in [lods : [1 .. n -> Nat], indices : Seq(U)]
    BY <1>1, <1>3, <1>6
  <2> QED  BY <1>8, <1>9, <2>1, <2>2 DEF IsMapping, U
<1>11. ASSUME NEW k \in 0 .. n - 1
       PROVE  ToSet(GetIndices(e, k)) = ToSet(GetIndices(d, k)) \cap T
  <2>1. k + 1 \in 1 .. n
    OBVIOUS
  <2>2. d.lods[k + 1] \in Positions(d.indices)
    BY <2>1, MappingGives
  <2>3. d.lods[k + 1] + 1 \in 1 .. N
    BY <1>1, <2>2 DEF Positions, N
  <2>4. GetIndices(e, k) = Nth(e.indices, e.lods[k + 1])
    BY <1>10, MappingGives
  <2>5. GetIndices(d, k) = Nth(d.indices, d.lods[k + 1])
    BY MappingGives
  <2> QED  BY <1>3, <1>7, <2>3, <2>4, <2>5 DEF Nth
<1> QED  BY <1>8, <1>10, <1>11 DEF e

\* A numbered table of which the elements of all LODs are kept shows them under their names.
LEMMA RefilteredShows ==
    ASSUME NEW n \in Nat, NEW names, Numbered(names), NEW m, IsMapping(m, n, Len(names)),
           NEW D, D = CombinedDistinctIndices(m), NEW map, \A i \in D : map[i] = Place(D, i)
    PROVE  LET t == KeepPositions(names, D)
               e == MapIndices(m, map)
           IN  /\ IsMapping(e, n, Len(t))
               /\ \A i \in D : map[i] \in Positions(t) /\ Nth(t, map[i]) = i
               /\ \A k \in 0 .. n - 1 : /\ ToSet(GetIndices(e, k)) \subseteq Positions(t)
                                        /\ ShownBy(t, e, k) = ToSet(GetIndices(m, k))
<1> DEFINE t == KeepPositions(names, D)
           e == MapIndices(m, map)
           count == Len(names)
<1>1. names \in Seq(Nat) /\ count \in Nat /\ \A i \in Positions(names) : Nth(names, i) = i
  BY NumberedNames
<1>2. D \subseteq 0 .. count - 1
  BY DEF IsMapping
<1>3. Kept(names, D) = D
  BY <1>2 DEF Kept, Positions
<1>4. /\ t \in Seq(Nat)
      /\ \A i \in D : Place(D, i) \in Positions(t) /\ Nth(t, Place(D, i)) = Nth(names, i)
  BY <1>1, <1>3, KeepPositionsKeeps
<1>5. \A i \in D : Nth(names, i) = i
  BY <1>1, <1>2 DEF Positions
<1> HIDE DEF t
<1>6. \A i \in D : map[i] \in Positions(t) /\ Nth(t, map[i]) = i
  BY <1>4, <1>5
<1>7. Len(t) \in Nat /\ \A x \in CombinedDistinctIndices(m) : map[x] \in 0 .. Len(t) - 1
  BY <1>4, <1>6 DEF Positions
<1>8. IsMapping(m, n, count)
  OBVIOUS
<1> HIDE DEF count
<1>9. /\ IsMapping(e, n, Len(t))
      /\ \A k \in 0 .. n - 1 : ToSet(GetIndices(e, k)) = {map[x] : x \in ToSet(GetIndices(m, k))}
  BY <1>1, <1>7, <1>8, MapIndicesGives
<1> HIDE DEF e
<1>10. ASSUME NEW k \in 0 .. n - 1
       PROVE  /\ ToSet(GetIndices(e, k)) \subseteq Positions(t)
              /\ ShownBy(t, e, k) = ToSet(GetIndices(m, k))
  <2>1. ToSet(GetIndices(m, k)) \subseteq D
    BY <1>1, <1>8, MappingGives
  <2>2. ToSet(GetIndices(e, k)) = {map[x] : x \in ToSet(GetIndices(m, k))}
    BY <1>9
  <2>3. ShownBy(t, e, k) = {Nth(t, map[x]) : x \in ToSet(GetIndices(m, k))}
    BY <2>2 DEF ShownBy
  <2> QED  BY <1>6, <2>1, <2>2, <2>3
<1> QED  BY <1>6, <1>9, <1>10 DEF t, e

\* Elements are found, in names, where a map says.
FoundIn(D, map, names) == \A i \in D : map[i] \in Positions(names) /\ Nth(names, map[i]) = i

\* Rows of which some are removed, with outputs that follow their channels.
IsRemoval(left, rows, kept, map) ==
    left = [RowsRemoved(rows, kept) EXCEPT !.outputIndices = Mapped(@, map)]

\* A table of N rows and the sizes of q LODs, of whose outputs those that are kept are in D.
IsTableOf(rows, N, q, kept, D) ==
    /\ N \in Nat /\ q \in Nat
    /\ rows.inputIndices \in Seq(Nat) /\ Len(rows.inputIndices) = N
    /\ rows.outputIndices \in Seq(Nat) /\ Len(rows.outputIndices) = N
    /\ rows.lods \in [1 .. q -> Nat]
    /\ kept \subseteq 0 .. N - 1 /\ \A r \in kept : Nth(rows.outputIndices, r) \in D

\* Every one of q LODs has the rows it had, without those that are not kept.
HasRowsOf(left, names, rows, kept, q) ==
    \A lod \in 0 .. q - 1 :
       /\ HasRows(left, names, lod)
       /\ RowsAt(left, names, lod) =
              {<<Nth(rows.inputIndices, r), Nth(rows.outputIndices, r)>> :
                  r \in {r \in kept : r < Nth(rows.lods, lod)}}

\* The rows that are left, with outputs that follow their channels, are those that were
\* there: a LOD has as many of them as there are left before its size.
LEMMA RemovedRowsShow ==
    ASSUME NEW rows, NEW N, NEW q, NEW kept, NEW D, IsTableOf(rows, N, q, kept, D),
           NEW map, NEW names, FoundIn(D, map, names),
           NEW left, IsRemoval(left, rows, kept, map)
    PROVE  HasRowsOf(left, names, rows, kept, q)
<1> DEFINE in == KeepPositions(rows.inputIndices, kept)
           out == KeepPositions(rows.outputIndices, kept)
           n == Cardinality(kept)
           a == Ascending(kept)
           sizes == [l \in 1 .. q |-> Cardinality({i \in kept : i < rows.lods[l]})]
<1>0. /\ N \in Nat /\ q \in Nat
      /\ rows.inputIndices \in Seq(Nat) /\ Len(rows.inputIndices) = N
      /\ rows.outputIndices \in Seq(Nat) /\ Len(rows.outputIndices) = N
      /\ rows.lods \in [1 .. q -> Nat]
      /\ kept \subseteq 0 .. N - 1 /\ \A r \in kept : Nth(rows.outputIndices, r) \in D
  BY DEF IsTableOf
<1>1. Kept(rows.inputIndices, kept) = kept /\ Kept(rows.outputIndices, kept) = kept
  BY <1>0 DEF Kept, Positions
<1>2. kept \in SUBSET Nat /\ IsFiniteSet(kept) /\ n \in Nat
  <2>1. rows.inputIndices \in Seq(Nat)
    BY <1>0
  <2> QED  BY <1>1, <2>1, KeptIsFinite
<1>3. /\ out \in Seq(Nat) /\ Len(out) = n
      /\ \A k \in 1 .. n : a[k] \in kept /\ out[k] = Nth(rows.outputIndices, a[k])
      /\ ToSet(out) = {Nth(rows.outputIndices, r) : r \in kept}
  <2> DEFINE s == rows.outputIndices
             t == KeepPositions(s, kept)
             Q == Kept(s, kept)
  <2>1. s \in Seq(Nat) /\ Q = kept
    BY <1>0, <1>1
  <2> HIDE DEF s
  <2>2. /\ t \in Seq(Nat) /\ Len(t) = Cardinality(Q) /\ ToSet(t) = {Nth(s, r) : r \in Q}
        /\ \A k \in 1 .. Cardinality(Q) : /\ Ascending(Q)[k] \in Q
                                         /\ t[k] = Nth(s, Ascending(Q)[k])
    BY <2>1, KeepPositionsKeeps
  <2> HIDE DEF t, Q
  <2>3. /\ t \in Seq(Nat) /\ Len(t) = n /\ ToSet(t) = {Nth(s, r) : r \in kept}
        /\ \A k \in 1 .. n : a[k] \in kept /\ t[k] = Nth(s, a[k])
    BY <2>1, <2>2
  <2> QED  BY <2>3 DEF s, t
<1>4. /\ in \in Seq(Nat) /\ Len(in) = n
      /\ \A k \in 1 .. n : in[k] = Nth(rows.inputIndices, a[k])
  <2> DEFINE s == rows.inputIndices
             t == KeepPositions(s, kept)
             Q == Kept(s, kept)
  <2>1. s \in Seq(Nat) /\ Q = kept
    BY <1>0, <1>1
  <2> HIDE DEF s
  <2>2. /\ t \in Seq(Nat) /\ Len(t) = Cardinality(Q)
        /\ \A k \in 1 .. Cardinality(Q) : t[k] = Nth(s, Ascending(Q)[k])
    BY <2>1, KeepPositionsKeeps
  <2> HIDE DEF t, Q
  <2>3. /\ t \in Seq(Nat) /\ Len(t) = n
        /\ \A k \in 1 .. n : t[k] = Nth(s, a[k])
    BY <2>1, <2>2
  <2> QED  BY <2>3 DEF s, t
<1>5. \A k \in 1 .. n : Place(kept, a[k]) = k - 1
  BY <1>2, AscendingLists
<1>6. \A r \in kept : Place(kept, r) + 1 \in 1 .. n /\ a[Place(kept, r) + 1] = r
  BY <1>2, AscendingLists
<1> HIDE DEF a, n
<1>7. left.lods = sizes /\ left.inputIndices = in /\ left.outputIndices = Mapped(out, map)
  <2>1. Len(rows.lods) = q
    BY <1>0
  <2>2. RowsRemoved(rows, kept) = [lods |-> sizes, inputIndices |-> in, outputIndices |-> out]
    BY <2>1 DEF RowsRemoved
  <2>3. left = [RowsRemoved(rows, kept) EXCEPT !.outputIndices = Mapped(@, map)]
    BY DEF IsRemoval
  <2> HIDE DEF sizes, in, out
  <2> QED  BY <2>2, <2>3
<1> HIDE DEF in, out
<1> DEFINE new == Mapped(out, map)
<1>8. /\ Len(new) = n /\ \A k \in 1 .. n : new[k] = map[out[k]]
      /\ ToSet(new) = {map[x] : x \in ToSet(out)}
  BY <1>3, MappedElements
<1> HIDE DEF new
<1>9. ToSet(new) \subseteq Positions(names)
  BY <1>0, <1>3, <1>8 DEF FoundIn
<1>10. ASSUME NEW lod \in 0 .. q - 1
       PROVE  /\ HasRows(left, names, lod)
              /\ RowsAt(left, names, lod) = 
                    {<<Nth(rows.inputIndices, r), Nth(rows.outputIndices, r)>> :
                        r \in {r \in kept : r < Nth(rows.lods, lod)}}
  <2> DEFINE L == Nth(rows.lods, lod)
             S == {r \in kept : r < L}
  <2>1. lod + 1 \in 1 .. q /\ L \in Nat
    BY <1>0 DEF Nth
  <2>2. Nth(left.lods, lod) = Place(kept, L)
    BY <1>7, <2>1 DEF Nth, Place
  <2>3. Place(kept, L) \in 0 .. n
    BY <1>2, <2>1, PlaceGrows DEF n
  <2>4. HasRows(left, names, lod)
    BY <1>7, <1>8, <1>9, <2>2, <2>3 DEF HasRows, new
  <2> HIDE DEF L
  <2>5. RowsAt(left, names, lod) =
           {<<Nth(in, k), Nth(names, Nth(new, k))>> : k \in 0 .. Place(kept, L) - 1}
    BY <1>7, <2>2 DEF RowsAt, new
  <2>6. \A k \in 0 .. Place(kept, L) - 1 :
           /\ a[k + 1] \in S
           /\ <<Nth(in, k), Nth(names, Nth(new, k))>> =
                 <<Nth(rows.inputIndices, a[k + 1]), Nth(rows.outputIndices, a[k + 1])>>
    <3> TAKE k \in 0 .. Place(kept, L) - 1
    <3>1. k + 1 \in 1 .. n /\ k \in Nat /\ (k + 1) - 1 = k
      BY <1>2, <2>3
    <3>2. a[k + 1] \in kept /\ a[k + 1] \in Nat /\ Place(kept, a[k + 1]) = k
      BY <1>2, <1>3, <1>5, <3>1
    <3>3. ~(L <= a[k + 1])
      <4>1. L <= a[k + 1] => Place(kept, L) <= Place(kept, a[k + 1])
        BY <1>2, <2>1, <3>2, PlaceGrows
      <4>2. ~(Place(kept, L) <= k)
        BY <2>3
      <4> QED  BY <3>2, <4>1, <4>2
    <3>4. a[k + 1] \in S
      BY <2>1, <3>2, <3>3
    <3>5. Nth(in, k) = Nth(rows.inputIndices, a[k + 1])
      BY <1>4, <3>1 DEF Nth
    <3>6. Nth(new, k) = map[Nth(rows.outputIndices, a[k + 1])]
      BY <1>3, <1>8, <3>1 DEF Nth
    <3>7. Nth(rows.outputIndices, a[k + 1]) \in D
      BY <1>0, <3>2
    <3> QED  BY <3>4, <3>5, <3>6, <3>7 DEF FoundIn
  <2>7. \A r \in S : \E k \in 0 .. Place(kept, L) - 1 : a[k + 1] = r
    <3> TAKE r \in S
    <3>1. r \in kept /\ r \in Nat /\ r < L
      BY <1>2
    <3>2. Place(kept, r) \in Nat /\ Place(kept, r) < Place(kept, L)
      <4> HIDE DEF S
      <4>1. Place(kept, r) \in 0 .. Cardinality(kept) - 1
        BY <1>2, <3>1, PlaceGrows
      <4>2. Place(kept, r) < Place(kept, L)
        BY <1>2, <2>1, <3>1, PlaceGrows
      <4> QED  BY <4>1, <4>2
    <3>3. Place(kept, r) \in 0 .. Place(kept, L) - 1 /\ a[Place(kept, r) + 1] = r
      BY <1>6, <2>3, <3>1, <3>2
    <3> QED  BY <3>3
  <2>8. RowsAt(left, names, lod) = {<<Nth(rows.inputIndices, r), Nth(rows.outputIndices, r)>> : r \in S}
    <3> DEFINE before(r) == <<Nth(rows.inputIndices, r), Nth(rows.outputIndices, r)>>
               after(k) == <<Nth(in, k), Nth(names, Nth(new, k))>>
    <3>1. /\ RowsAt(left, names, lod) = {after(k) : k \in 0 .. Place(kept, L) - 1}
          /\ \A k \in 0 .. Place(kept, L) - 1 : a[k + 1] \in S /\ after(k) = before(a[k + 1])
      BY <2>5, <2>6
    <3> HIDE DEF S, before, after
    <3>2. \A r \in S : \E k \in 0 .. Place(kept, L) - 1 : after(k) = before(r)
      BY <2>7, <3>1
    <3>3. RowsAt(left, names, lod) = {before(r) : r \in S}
      BY <3>1, <3>2
    <3> QED  BY <3>3 DEF before
  <2>9. RowsAt(left, names, lod) = 
                    {<<Nth(rows.inputIndices, r), Nth(rows.outputIndices, r)>> :
                        r \in {r \in kept : r < Nth(rows.lods, lod)}}
    BY <2>8 DEF L
  <2> QED  BY <2>4, <2>9
<1> QED  BY <1>10 DEF HasRowsOf

\* What is known of the channels' rows before any is removed.
LEMMA ChannelRowsAre ==
    ASSUME FilterInv, step = 11, Loads("bhvr")
    PROVE  /\ Loads("defn")
           /\ IsCut(dna.blendShapeChannels, archive.lods, file.blendShapeChannels)
           /\ AreRows(file.blendShapeChannels, file.blendShapeChannelNames, file.lodBlendShapeMapping,
                      file.lodCount, ControlCount(file))
           /\ ControlCount(file) \in Nat /\ ControlsSoFar = ControlCount(file)
<1>1. Loads("defn")
  BY DEF FilterInv, RequestInv, IsConfig, Loads
<1>2. /\ Consistent(file) /\ file.lodCount \in Nat /\ IsConstraint(archive.lods, file.lodCount)
      /\ (Filters <=> HasImpactOn(archive.lods, file.lodCount))
  BY LaterStep
<1>3. /\ Numbered(file.blendShapeChannelNames)
      /\ IsMapping(file.lodBlendShapeMapping, file.lodCount, Len(file.blendShapeChannelNames))
      /\ AreRows(file.blendShapeChannels, file.blendShapeChannelNames, file.lodBlendShapeMapping,
                 file.lodCount, ControlCount(file))
      /\ file.rawControlCount \in Nat /\ file.psdCount \in Nat
      /\ file.mlControlCount \in Nat /\ file.poseControlCount \in Nat
  BY <1>2 DEF Consistent, IsTable
<1>4. ControlCount(file) \in Nat /\ ControlsSoFar = ControlCount(file)
  BY <1>3 DEF ControlCount, ControlsSoFar
<1>5. IsCut(IF Filters THEN FilteredRows(file.blendShapeChannels) ELSE file.blendShapeChannels,
            archive.lods, file.blendShapeChannels)
  <2> DEFINE rows == file.blendShapeChannels
             names == file.blendShapeChannelNames
             m == file.lodBlendShapeMapping
             n == file.lodCount
             count == ControlCount(file)
  <2>1. /\ n \in Nat /\ n = file.lodCount /\ IsConstraint(archive.lods, n)
        /\ (Filters <=> HasImpactOn(archive.lods, n))
        /\ count \in Nat /\ Numbered(names) /\ IsMapping(m, n, Len(names))
        /\ AreRows(rows, names, m, n, count)
    BY <1>2, <1>3, <1>4
  <2> HIDE DEF rows, names, m, n, count
  <2>2. IsCut(IF Filters THEN FilteredRows(rows) ELSE rows, archive.lods, rows)
    BY <2>1, RowsAreCut
  <2> QED  BY <2>2 DEF rows
<1>6. dna.blendShapeChannels =
          IF Filters THEN FilteredRows(file.blendShapeChannels) ELSE file.blendShapeChannels
  BY DEF FilterInv, BehaviorInv
<1> QED  BY <1>1, <1>3, <1>4, <1>5, <1>6

\* A reader that keeps unknown layers, or has no controls, leaves no channel out.
LEMMA NoneUndriven ==
    ASSUME FilterInv, step = 11, ~(config.unknownPolicy = "Ignore" /\ archive.loadedControls # <<>>)
    PROVE  Undriven = {}
<1> SUFFICES ASSUME config.unknownPolicy = "Ignore", Loads("bhvr"), archive.loadedControls = <<>>
             PROVE  Positions(file.blendShapeChannels.inputIndices) = {}
  BY DEF Undriven
<1>1. Len(archive.loadedControls) = ControlsSoFar
  BY DEF FilterInv, ControlsInv
<1>2. ControlCount(file) = 0
  BY <1>1, ChannelRowsAre
<1>3. file.blendShapeChannels.inputIndices \in Seq(0 .. 0 - 1)
  BY <1>2, ChannelRowsAre DEF AreRows
<1> DEFINE in == file.blendShapeChannels.inputIndices
<1>4. Len(in) \in Nat /\ \A i \in 1 .. Len(in) : in[i] \in 0 .. 0 - 1
  <2> DEFINE C == 0 .. 0 - 1
  <2>1. in \in Seq(C)
    BY <1>3
  <2> HIDE DEF in, C
  <2>2. Len(in) \in Nat /\ \A i \in 1 .. Len(in) : in[i] \in C
    BY <2>1
  <2> QED  BY <2>2 DEF C
<1> HIDE DEF in
<1>5. ~(1 \in 1 .. Len(in))
  BY <1>4
<1>6. Len(in) = 0
  BY <1>4, <1>5
<1> QED  BY <1>6 DEF Positions, in

\* What it leaves is what it read.
LEMMA UnfilteredPost ==
    ASSUME FilterInv, step = 11, step' = 12, Undriven = {}, UNCHANGED <<file, config, archive, dna>>
    PROVE  PostInv'
<1>1. /\ Consistent(file) /\ file.lodCount \in Nat /\ IsConstraint(archive.lods, file.lodCount)
  BY LaterStep
<1>2. /\ Numbered(file.blendShapeChannelNames)
      /\ IsMapping(file.lodBlendShapeMapping, file.lodCount, Len(file.blendShapeChannelNames))
  BY <1>1 DEF Consistent, IsTable
<1>3. Undriven' = {}
  BY DEF Undriven, Loads, ControlIsLoaded
<1>4. Loads("defn") => SameLists(dna.blendShapeChannelNames, dna.lodBlendShapeMapping,
                                 archive.lods, file.lodBlendShapeMapping)
  BY DEF FilterInv, DefinitionInv
<1>5. ASSUME Loads("defn")
      PROVE  Shows(dna.blendShapeChannelNames, dna.lodBlendShapeMapping, archive.lods,
                   file.blendShapeChannelNames, file.lodBlendShapeMapping, {})
  BY <1>1, <1>2, <1>4, <1>5, SameListsShow
<1>6. ASSUME Loads("bhvr"), NEW lod \in 0 .. Len(archive.lods) - 1
      PROVE  /\ HasRows(dna.blendShapeChannels, dna.blendShapeChannelNames, lod)
             /\ RowsAt(dna.blendShapeChannels, dna.blendShapeChannelNames, lod) =
                   RowsAt(file.blendShapeChannels, file.blendShapeChannelNames, InFile(lod))
  <2> DEFINE rows == dna.blendShapeChannels
             names == dna.blendShapeChannelNames
             m == dna.lodBlendShapeMapping
             fileRows == file.blendShapeChannels
             fileNames == file.blendShapeChannelNames
             fm == file.lodBlendShapeMapping
             n == file.lodCount
             c == archive.lods
  <2>1. /\ n \in Nat /\ IsConstraint(c, n) /\ ControlCount(file) \in Nat
        /\ Numbered(fileNames) /\ IsMapping(fm, n, Len(fileNames))
        /\ AreRows(fileRows, fileNames, fm, n, ControlCount(file))
        /\ IsCut(rows, c, fileRows) /\ SameLists(names, m, c, fm)
        /\ lod \in 0 .. Len(c) - 1
    BY <1>1, <1>2, <1>4, <1>6, ChannelRowsAre
  <2> HIDE DEF rows, names, m, fileRows, fileNames, fm, n, c
  <2>2. HasRows(rows, names, lod) /\ RowsAt(rows, names, lod) = RowsAt(fileRows, fileNames, Nth(c, lod))
    BY <2>1, CutRowsAreShown
  <2> QED  BY <2>2 DEF rows, names, fileRows, fileNames, c, InFile
<1>7. \A lod : HasRows(dna.blendShapeChannels, dna.blendShapeChannelNames, lod)' =
               HasRows(dna.blendShapeChannels, dna.blendShapeChannelNames, lod)
  BY DEF HasRows
<1>8. \A lod : /\ RowsAt(dna.blendShapeChannels, dna.blendShapeChannelNames, lod)' =
                     RowsAt(dna.blendShapeChannels, dna.blendShapeChannelNames, lod)
               /\ RowsAt(file.blendShapeChannels, file.blendShapeChannelNames, InFile(lod))' =
                     RowsAt(file.blendShapeChannels, file.blendShapeChannelNames, InFile(lod))
  BY DEF RowsAt, InFile
<1>9. (Loads("defn") =>
          Shows(dna.blendShapeChannelNames, dna.lodBlendShapeMapping, archive.lods,
                file.blendShapeChannelNames, file.lodBlendShapeMapping, Undriven))'
  BY <1>3, <1>5 DEF Loads
<1>10. (Loads("bhvr") => \A lod \in 0 .. Len(archive.lods) - 1 :
          /\ HasRows(dna.blendShapeChannels, dna.blendShapeChannelNames, lod)
          /\ RowsAt(dna.blendShapeChannels, dna.blendShapeChannelNames, lod) =
                {row \in RowsAt(file.blendShapeChannels, file.blendShapeChannelNames, InFile(lod)) :
                    row[2] \notin Undriven})'
  BY <1>3, <1>6, <1>7, <1>8 DEF Loads
<1> QED  BY <1>9, <1>10 DEF PostInv

\* The steps of a removal, by the names of the code.
RowsToKeep ==
    {i \in Positions(dna.blendShapeChannels.inputIndices) :
        Referenced(Nth(dna.blendShapeChannels.inputIndices, i))}
Unreferenced ==
    {Nth(dna.blendShapeChannels.outputIndices, i) :
        i \in Positions(dna.blendShapeChannels.inputIndices) \ RowsToKeep}
MappingLeft ==
    FilterIndices(dna.lodBlendShapeMapping,
                  CombinedDistinctIndices(dna.lodBlendShapeMapping) \ Unreferenced)
FilterLeft ==
    Filter(Len(dna.blendShapeChannelNames), CombinedDistinctIndices(MappingLeft))
RowsLeft ==
    [RowsRemoved(dna.blendShapeChannels, RowsToKeep) EXCEPT
        !.outputIndices = Mapped(@, FilterLeft.remapped)]
TargetsLeft(mesh) == Mapped(Among(mesh.targets, FilterLeft.passing), FilterLeft.remapped)

\* A removal throws, or leaves these.
LEMMA RemovalGives ==
    ASSUME DOMAIN dna = Fields, RemoveUnreferencedBlendShapes, step = 11,
           DOMAIN archive = {"lods", "unconstrainedLODCount", "meshes", "joints", "channels",
                             "rootJointIndex", "loadedControls"}
    PROVE  LET outputs == KeepPositions(dna.blendShapeChannels.outputIndices, RowsToKeep)
           IN  IF ~ ToSet(outputs) \subseteq DOMAIN FilterLeft.remapped THEN Throw
               ELSE /\ step' = 12
                    /\ DOMAIN archive' = DOMAIN archive
                    /\ \A f \in DOMAIN archive \ {"channels"} : archive'[f] = archive[f]
                    /\ DOMAIN dna' = Fields
                    /\ \A f \in Fields \ {"lodBlendShapeMapping", "blendShapeChannelNames",
                                          "meshBlendShapeChannelMapping", "blendShapeChannels",
                                          "meshes"} : dna'[f] = dna[f]
                    /\ dna'.blendShapeChannelNames =
                           KeepPositions(dna.blendShapeChannelNames, FilterLeft.passing)
                    /\ dna'.lodBlendShapeMapping = MapIndices(MappingLeft, FilterLeft.remapped)
                    /\ dna'.blendShapeChannels = RowsLeft
                    /\ archive'.channels = FilterLeft
                    /\ dna'.meshBlendShapeChannelMapping =
                           PairsOf(dna.meshBlendShapeChannelMapping, 2, FilterLeft)
                    /\ dna'.meshes = [m \in 1 .. Len(dna.meshes) |->
                                         [dna.meshes[m] EXCEPT !.targets = TargetsLeft(dna.meshes[m])]]
<1> DEFINE rows == dna.blendShapeChannels
           remaining == RowsRemoved(rows, RowsToKeep)
           outputs == KeepPositions(rows.outputIndices, RowsToKeep)
           doc == [dna EXCEPT !.lodBlendShapeMapping = MappingLeft]
           filtered == ApplyBlendShapeFilter(doc, FilterLeft)
           targets(mesh) == Mapped(Among(mesh.targets, FilterLeft.passing), FilterLeft.remapped)
           newMeshes == [m \in 1 .. Len(filtered.meshes) |->
                            [filtered.meshes[m] EXCEPT !.targets = targets(dna.meshes[m])]]
<1>1. remaining.outputIndices = outputs
  BY DEF RowsRemoved
<1>2. IF ~ ToSet(remaining.outputIndices) \subseteq DOMAIN FilterLeft.remapped THEN Throw
      ELSE /\ Proceed
           /\ archive' = [archive EXCEPT !.channels = FilterLeft]
           /\ dna' = [filtered EXCEPT
                         !.blendShapeChannels = [remaining EXCEPT
                                                    !.outputIndices = Mapped(@, FilterLeft.remapped)],
                         !.meshes = [m \in 1 .. Len(@) |->
                                        [@[m] EXCEPT !.targets = targets(dna.meshes[m])]]]
  BY DEF RemoveUnreferencedBlendShapes, RowsToKeep, Unreferenced, MappingLeft, FilterLeft
<1>3. /\ DOMAIN filtered = Fields
      /\ \A f \in Fields \ {"lodBlendShapeMapping", "blendShapeChannelNames",
                            "meshBlendShapeChannelMapping"} : filtered[f] = dna[f]
      /\ filtered.lodBlendShapeMapping = MapIndices(MappingLeft, FilterLeft.remapped)
      /\ filtered.blendShapeChannelNames = KeepPositions(dna.blendShapeChannelNames, FilterLeft.passing)
      /\ filtered.meshBlendShapeChannelMapping =
             PairsOf(dna.meshBlendShapeChannelMapping, 2, FilterLeft)
  <2>1. /\ DOMAIN doc = Fields /\ doc.lodBlendShapeMapping = MappingLeft
        /\ \A f \in Fields \ {"lodBlendShapeMapping"} : doc[f] = dna[f]
    BY FieldsAre
  <2> HIDE DEF doc
  <2>2. /\ DOMAIN filtered = Fields
        /\ \A f \in Fields \ {"lodBlendShapeMapping", "blendShapeChannelNames",
                              "meshBlendShapeChannelMapping"} : filtered[f] = doc[f]
        /\ filtered.lodBlendShapeMapping = MapIndices(doc.lodBlendShapeMapping, FilterLeft.remapped)
        /\ filtered.blendShapeChannelNames = KeepPositions(doc.blendShapeChannelNames, FilterLeft.passing)
        /\ filtered.meshBlendShapeChannelMapping =
               PairsOf(doc.meshBlendShapeChannelMapping, 2, FilterLeft)
    BY <2>1, BlendShapeFilterGives
  <2>3. /\ doc.blendShapeChannelNames = dna.blendShapeChannelNames
        /\ doc.meshBlendShapeChannelMapping = dna.meshBlendShapeChannelMapping
    BY <2>1, FieldsAre
  <2> HIDE DEF filtered
  <2> QED  BY <2>1, <2>2, <2>3
<1>4. CASE ~ ToSet(outputs) \subseteq DOMAIN FilterLeft.remapped
  BY <1>1, <1>2, <1>4
<1>5. CASE ToSet(outputs) \subseteq DOMAIN FilterLeft.remapped
  <2>1. /\ Proceed
        /\ archive' = [archive EXCEPT !.channels = FilterLeft]
        /\ dna' = [filtered EXCEPT !.blendShapeChannels = RowsLeft, !.meshes = newMeshes]
    <3> HIDE DEF filtered, targets
    <3> QED  BY <1>1, <1>2, <1>5 DEF RowsLeft
  <2> HIDE DEF filtered, newMeshes
  <2>2. /\ DOMAIN dna' = Fields /\ dna'.blendShapeChannels = RowsLeft
        /\ \A f \in Fields \ {"blendShapeChannels", "meshes"} : dna'[f] = filtered[f]
    BY <1>3, <2>1, FieldsAre
  <2>3. /\ DOMAIN archive' = DOMAIN archive /\ archive'.channels = FilterLeft
        /\ \A f \in DOMAIN archive \ {"channels"} : archive'[f] = archive[f]
    BY <2>1
  <2>4. step' = 12
    BY <2>1 DEF Proceed
  <2> HIDE DEF outputs
  <2>5. /\ \A f \in Fields \ {"lodBlendShapeMapping", "blendShapeChannelNames",
                              "meshBlendShapeChannelMapping", "blendShapeChannels",
                              "meshes"} : dna'[f] = dna[f]
        /\ dna'.blendShapeChannelNames = KeepPositions(dna.blendShapeChannelNames, FilterLeft.passing)
        /\ dna'.lodBlendShapeMapping = MapIndices(MappingLeft, FilterLeft.remapped)
    BY <1>3, <2>2, FieldsAre
  <2>6. dna'.meshBlendShapeChannelMapping = PairsOf(dna.meshBlendShapeChannelMapping, 2, FilterLeft)
    BY <1>3, <2>2, FieldsAre
  <2>7. dna'.meshes = [m \in 1 .. Len(dna.meshes) |->
                          [dna.meshes[m] EXCEPT !.targets = TargetsLeft(dna.meshes[m])]]
    <3>1. dna'.meshes = newMeshes
      BY <1>3, <2>1, FieldsAre
    <3>2. filtered.meshes = dna.meshes
      BY <1>3, FieldsAre
    <3> QED  BY <3>1, <3>2 DEF newMeshes, TargetsLeft
  <2> QED  BY <1>5, <2>2, <2>3, <2>4, <2>5, <2>6, <2>7 DEF outputs
<1> QED  BY <1>4, <1>5

\* A control is referenced when its layer is loaded: rows are kept by what drives them, and
\* the channels of a kept LOD that lose their rows are those that are not driven.
LEMMA UnreferencedMeans ==
    ASSUME FilterInv, step = 11, Loads("bhvr"), config.unknownPolicy = "Ignore"
    PROVE  LET out == dna.blendShapeChannels.outputIndices
               N == Len(out)
           IN  /\ RowsToKeep \in SUBSET (0 .. N - 1)
               /\ \A r \in 0 .. N - 1 : r \in RowsToKeep <=> Nth(out, r) \notin Undriven
               /\ \A r \in RowsToKeep : Nth(out, r) \notin Unreferenced
               /\ \A lod \in 0 .. Len(archive.lods) - 1 :
                     \A x \in ToSet(GetIndices(file.lodBlendShapeMapping, Nth(archive.lods, lod))) :
                        x \in Unreferenced <=> x \in Undriven
<1> DEFINE rows == dna.blendShapeChannels
           in == rows.inputIndices
           out == rows.outputIndices
           N == Len(out)
           fileRows == file.blendShapeChannels
           F == Len(fileRows.outputIndices)
           fm == file.lodBlendShapeMapping
           n == file.lodCount
           c == archive.lods
           count == ControlCount(file)
<1>1. /\ Consistent(file) /\ n \in Nat /\ IsConstraint(c, n) /\ Len(c) \in Nat
  BY LaterStep DEF IsConstraint
<1>2. /\ N \in Nat /\ Len(in) = N /\ N <= F
      /\ \A r \in 0 .. N - 1 : /\ Nth(in, r) = Nth(fileRows.inputIndices, r)
                               /\ Nth(out, r) = Nth(fileRows.outputIndices, r)
      /\ \A lod \in 0 .. Len(c) - 1 : Nth(rows.lods, lod) = Nth(fileRows.lods, Nth(c, lod))
                                      /\ Nth(rows.lods, lod) <= N
      /\ rows.lods \in [1 .. Len(c) -> Nat]
  BY ChannelRowsAre DEF IsCut, Positions
<1>3. /\ F \in Nat /\ Len(fileRows.inputIndices) = F
      /\ \A r \in 0 .. F - 1 : Nth(fileRows.inputIndices, r) \in 0 .. count - 1
      /\ \A i, k \in 0 .. F - 1 :
            Nth(fileRows.outputIndices, i) = Nth(fileRows.outputIndices, k) => i = k
      /\ \A lod \in 0 .. n - 1 :
            {r \in 0 .. F - 1 : Nth(fileRows.outputIndices, r) \in ToSet(GetIndices(fm, lod))} =
            0 .. Nth(fileRows.lods, lod) - 1
  <2> DEFINE names == file.blendShapeChannelNames
  <2>1. /\ Numbered(names) /\ IsMapping(fm, n, Len(names)) /\ count \in Nat
        /\ AreRows(fileRows, names, fm, n, count)
    BY <1>1, ChannelRowsAre DEF Consistent, IsTable
  <2> HIDE DEF names, fm, n, count, fileRows, F
  <2> DEFINE L == Len(fileRows.outputIndices)
  <2>2. L = F
    BY DEF F
  <2>3. /\ L \in Nat /\ Len(fileRows.inputIndices) = L
        /\ \A r \in 0 .. L - 1 : Nth(fileRows.inputIndices, r) \in 0 .. count - 1
        /\ \A i, k \in 0 .. L - 1 :
              Nth(fileRows.outputIndices, i) = Nth(fileRows.outputIndices, k) => i = k
        /\ \A lod \in 0 .. n - 1 :
              {r \in 0 .. L - 1 : Nth(fileRows.outputIndices, r) \in ToSet(GetIndices(fm, lod))} =
              0 .. Nth(fileRows.lods, lod) - 1
    BY <1>1, <2>1, RowsAre, SMTT(30)
  <2> HIDE DEF L
  <2> QED  BY ONLY <2>2, <2>3
<1>4. /\ Len(archive.loadedControls) = count /\ count \in Nat
      /\ \A control \in 0 .. count - 1 : Referenced(control) <=> ControlIsLoaded(control)
  <2>1. ControlsSoFar = count /\ count \in Nat
    BY ChannelRowsAre
  <2>2. /\ Len(archive.loadedControls) = count
        /\ \A control \in 0 .. count - 1 : Nth(archive.loadedControls, control) <=> ControlIsLoaded(control)
    BY <2>1 DEF FilterInv, ControlsInv
  <2> HIDE DEF count
  <2>3. \A control \in 0 .. count - 1 : control < count
    BY <2>1
  <2> QED  BY <2>1, <2>2, <2>3 DEF Referenced
<1>5. Undriven = {Nth(fileRows.outputIndices, i) :
                     i \in {i \in 0 .. F - 1 : ~ControlIsLoaded(Nth(fileRows.inputIndices, i))}}
  BY <1>3 DEF Undriven, Positions
<1>6. RowsToKeep = {i \in 0 .. N - 1 : Referenced(Nth(in, i))}
  BY <1>2 DEF RowsToKeep, Positions
<1>7. Unreferenced = {Nth(out, i) : i \in (0 .. N - 1) \ RowsToKeep}
  BY <1>2 DEF Unreferenced, Positions
<1>8. \A r \in 0 .. N - 1 : r \in 0 .. F - 1
  BY <1>2, <1>3
<1>9. \A lod \in 0 .. Len(c) - 1 : Nth(c, lod) \in 0 .. n - 1
  <2> TAKE lod \in 0 .. Len(c) - 1
  <2>1. /\ lod + 1 \in 1 .. Len(c) /\ n \in Nat
        /\ c \in Seq(Nat) /\ \A k \in 1 .. Len(c) : c[k] < n
    BY <1>1 DEF IsConstraint
  <2> HIDE DEF c, n
  <2>2. c[lod + 1] \in Nat
    BY <2>1
  <2>3. c[lod + 1] < n
    BY <2>1
  <2> QED  BY <2>1, <2>2, <2>3 DEF Nth
<1> HIDE DEF rows, in, out, N, fileRows, F, fm, n, c, count
<1>10. \A r \in 0 .. N - 1 : r \in RowsToKeep <=> ControlIsLoaded(Nth(fileRows.inputIndices, r))
  BY <1>2, <1>3, <1>4, <1>6, <1>8
<1>11. \A i \in 0 .. F - 1 :
          Nth(fileRows.outputIndices, i) \in Undriven <=> ~ControlIsLoaded(Nth(fileRows.inputIndices, i))
  BY <1>3, <1>5
<1>12. \A r \in 0 .. N - 1 : r \in RowsToKeep <=> Nth(out, r) \notin Undriven
  BY <1>2, <1>8, <1>10, <1>11
<1>13. \A r \in RowsToKeep : r \in 0 .. N - 1 /\ Nth(out, r) \notin Unreferenced
  <2> TAKE r \in RowsToKeep
  <2>1. r \in 0 .. N - 1
    BY <1>6
  <2> SUFFICES ASSUME NEW i \in (0 .. N - 1) \ RowsToKeep, Nth(out, r) = Nth(out, i)
               PROVE  FALSE
    BY <1>7, <2>1
  <2>2. r = i
    BY <1>2, <1>3, <1>8, <2>1
  <2> QED  BY <2>2
<1>14. ASSUME NEW lod \in 0 .. Len(c) - 1, NEW x \in ToSet(GetIndices(fm, Nth(c, lod)))
       PROVE  x \in Unreferenced <=> x \in Undriven
  <2>1. ASSUME x \in Unreferenced  PROVE x \in Undriven
    <3>1. PICK i \in (0 .. N - 1) \ RowsToKeep : x = Nth(out, i)
      BY <1>7, <2>1
    <3> QED  BY <1>12, <3>1
  <2>2. ASSUME x \in Undriven  PROVE x \in Unreferenced
    <3>1. PICK i \in 0 .. F - 1 : x = Nth(fileRows.outputIndices, i)
                                  /\ ~ControlIsLoaded(Nth(fileRows.inputIndices, i))
      BY <1>5, <2>2
    <3>2. i \in 0 .. Nth(fileRows.lods, Nth(c, lod)) - 1
      BY <1>3, <1>9, <3>1
    <3>3. Nth(rows.lods, lod) = Nth(fileRows.lods, Nth(c, lod)) /\ Nth(rows.lods, lod) <= N
      BY <1>2
    <3>4. Nth(rows.lods, lod) \in Nat
      <4>1. lod + 1 \in 1 .. Len(c)
        BY <1>1 DEF c
      <4> QED  BY <1>2, <4>1 DEF Nth
    <3>5. i \in 0 .. N - 1
      BY <1>2, <3>2, <3>3, <3>4
    <3>6. i \notin RowsToKeep
      BY <1>10, <3>1, <3>5
    <3>7. x = Nth(out, i)
      BY <1>2, <3>1, <3>5
    <3> QED  BY <1>7, <3>5, <3>6, <3>7
  <2> QED  BY <2>1, <2>2
<1>15. RowsToKeep \in SUBSET (0 .. N - 1)
  BY <1>13
<1>16. \A r \in RowsToKeep : Nth(out, r) \notin Unreferenced
  BY <1>13
<1>17. \A lod \in 0 .. Len(c) - 1 :
          \A x \in ToSet(GetIndices(fm, Nth(c, lod))) : x \in Unreferenced <=> x \in Undriven
  BY <1>14
<1> USE DEF rows, in, out, N, fileRows, F, fm, n, c
<1> QED  BY ONLY <1>12, <1>15, <1>16, <1>17

\* Without the behavior there are no rows to remove, and none is.
LEMMA NoRowsNoRemoval ==
    ASSUME dna.blendShapeChannels = NoRows
    PROVE  /\ RowsToKeep = {} /\ Unreferenced = {}
           /\ ToSet(KeepPositions(dna.blendShapeChannels.outputIndices, RowsToKeep)) = {}
<1>1. dna.blendShapeChannels.inputIndices = <<>> /\ dna.blendShapeChannels.outputIndices = <<>>
  BY DEF NoRows
<1>2. Positions(<<>>) = {}
  BY DEF Positions
<1>3. RowsToKeep = {}
  BY <1>1, <1>2 DEF RowsToKeep
<1>4. Unreferenced = {}
  BY <1>1, <1>2 DEF Unreferenced
<1>5. ToSet(KeepPositions(<<>>, {})) = {}
  <2>1. <<>> \in Seq(Nat) /\ Kept(<<>>, {}) = {}
    BY DEF Kept
  <2>2. ToSet(KeepPositions(<<>>, {})) = {Nth(<<>>, i) : i \in Kept(<<>>, {})}
    BY <2>1, KeepPositionsKeeps
  <2> QED  BY <2>1, <2>2
<1> QED  BY <1>1, <1>3, <1>4, <1>5

\* Of each LOD, a removal leaves the channels that are driven.
LEMMA RemovalLeaves ==
    ASSUME FilterInv, step = 11, Loads("defn"), config.unknownPolicy = "Ignore"
    PROVE  LET t == KeepPositions(dna.blendShapeChannelNames, FilterLeft.passing)
               D == CombinedDistinctIndices(dna.lodBlendShapeMapping) \ Unreferenced
           IN  /\ FilterLeft.passing = D /\ DOMAIN FilterLeft.remapped = D
               /\ \A i \in D : /\ FilterLeft.remapped[i] \in Positions(t)
                               /\ Nth(t, FilterLeft.remapped[i]) = i
               /\ Shows(t, MapIndices(MappingLeft, FilterLeft.remapped), archive.lods,
                        file.blendShapeChannelNames, file.lodBlendShapeMapping, Undriven)
<1> DEFINE names == dna.blendShapeChannelNames
           m == dna.lodBlendShapeMapping
           fileNames == file.blendShapeChannelNames
           fm == file.lodBlendShapeMapping
           n == file.lodCount
           c == archive.lods
           q == Len(c)
           U == Unreferenced
           D == CombinedDistinctIndices(m) \ U
           t == KeepPositions(names, D)
           map == FilterLeft.remapped
           e == MapIndices(MappingLeft, map)
<1>1. /\ Consistent(file) /\ n \in Nat /\ IsConstraint(c, n) /\ q \in Nat
  BY LaterStep DEF IsConstraint
<1>2. Numbered(fileNames) /\ IsMapping(fm, n, Len(fileNames))
  BY <1>1 DEF Consistent, IsTable
<1>3. SameLists(names, m, c, fm)
  BY DEF FilterInv, DefinitionInv
<1>4. /\ Numbered(names) /\ IsMapping(m, q, Len(names)) /\ Len(names) \in Nat
      /\ \A lod \in 0 .. q - 1 : ToSet(GetIndices(m, lod)) = ToSet(GetIndices(fm, Nth(c, lod)))
  BY <1>3, NumberedNames DEF SameLists
<1>5. \A lod \in 0 .. q - 1 : \A x \in ToSet(GetIndices(fm, Nth(c, lod))) : x \in U <=> x \in Undriven
  <2>1. CASE Loads("bhvr")
    BY <2>1, UnreferencedMeans
  <2>2. CASE ~Loads("bhvr")
    <3>1. dna.blendShapeChannels = NoRows
      BY <2>2 DEF FilterInv, BehaviorInv
    <3>2. Undriven = {}
      BY <2>2 DEF Undriven
    <3> QED  BY <3>1, <3>2, NoRowsNoRemoval
  <2> QED  BY <2>1, <2>2
<1>6. \A lod \in 0 .. q - 1 : ShownBy(fileNames, fm, Nth(c, lod)) = ToSet(GetIndices(fm, Nth(c, lod)))
  <2> TAKE lod \in 0 .. q - 1
  <2>1. ToSet(GetIndices(m, lod)) \subseteq Positions(fileNames)
    <3> HIDE DEF n, c, names, m, fileNames, fm
    <3> QED  BY <1>1, <1>2, <1>3, SameListsShow
  <2>2. \A i \in Positions(fileNames) : Nth(fileNames, i) = i
    BY <1>2, NumberedNames
  <2> QED  BY <1>4, <2>1, <2>2 DEF ShownBy
<1>7. MappingLeft = FilterIndices(m, D)
  BY DEF MappingLeft
<1> HIDE DEF names, m, fileNames, fm, n, c, q, U, map
<1>8. /\ IsMapping(MappingLeft, q, Len(names))
      /\ CombinedDistinctIndices(MappingLeft) = D
      /\ \A k \in 0 .. q - 1 : ToSet(GetIndices(MappingLeft, k)) = ToSet(GetIndices(m, k)) \ U
  <2>1. /\ IsMapping(MappingLeft, q, Len(names))
        /\ CombinedDistinctIndices(MappingLeft) = CombinedDistinctIndices(m) \cap D
        /\ \A k \in 0 .. q - 1 : ToSet(GetIndices(MappingLeft, k)) = ToSet(GetIndices(m, k)) \cap D
    <3> HIDE DEF D
    <3> QED  BY <1>1, <1>4, <1>7, FilterIndicesGives
  <2>2. \A k \in 0 .. q - 1 : ToSet(GetIndices(m, k)) \subseteq CombinedDistinctIndices(m)
    BY <1>1, <1>4, MappingGives
  <2> QED  BY <2>1, <2>2
<1> HIDE DEF D
<1>9. FilterLeft.passing = D /\ DOMAIN map = D /\ \A i \in D : map[i] = Place(D, i)
  <2>1. D \in SUBSET (0 .. Len(names) - 1)
    BY <1>8 DEF IsMapping
  <2>2. FilterLeft = Filter(Len(names), D)
    BY <1>8 DEF FilterLeft, names
  <2> QED  BY <1>4, <2>1, <2>2, FilterGives DEF map
<1>10. /\ IsMapping(e, q, Len(t))
       /\ \A i \in D : map[i] \in Positions(t) /\ Nth(t, map[i]) = i
       /\ \A k \in 0 .. q - 1 : /\ ToSet(GetIndices(e, k)) \subseteq Positions(t)
                                /\ ShownBy(t, e, k) = ToSet(GetIndices(MappingLeft, k))
  BY <1>1, <1>4, <1>8, <1>9, RefilteredShows
<1>11. Len(t) \in Nat
  <2>1. names \in Seq(Nat)
    BY <1>4 DEF Numbered
  <2>2. t \in Seq(Nat)
    BY <2>1, KeepPositionsKeeps
  <2> HIDE DEF t
  <2> QED  BY <2>2
<1> HIDE DEF t, e
<1>12. Shows(t, e, c, fileNames, fm, Undriven)
  <2>1. Len(e.lods) = q
    BY <1>1, <1>10, <1>11, MappingGives
  <2>2. \A k \in 0 .. q - 1 : InTable(e, k)
    BY <1>10 DEF IsMapping
  <2>3. \A k \in 0 .. q - 1 : ShownBy(t, e, k) = ShownBy(fileNames, fm, Nth(c, k)) \ Undriven
    BY <1>4, <1>5, <1>6, <1>8, <1>10
  <2> QED  BY <1>10, <2>1, <2>2, <2>3 DEF Shows, q
<1> QED  BY <1>9, <1>10, <1>12 DEF t, e, map, D, U, names, m, fileNames, fm, c

\* The channels of the rows that are left are found, and the rows are those of the file that
\* some loaded control drives.
LEMMA RemovalKeepsRows ==
    ASSUME FilterInv, step = 11, Loads("bhvr"), config.unknownPolicy = "Ignore"
    PROVE  LET t == KeepPositions(dna.blendShapeChannelNames, FilterLeft.passing)
           IN  /\ ToSet(KeepPositions(dna.blendShapeChannels.outputIndices, RowsToKeep))
                     \subseteq DOMAIN FilterLeft.remapped
               /\ \A lod \in 0 .. Len(archive.lods) - 1 :
                     /\ HasRows(RowsLeft, t, lod)
                     /\ RowsAt(RowsLeft, t, lod) =
                           {row \in RowsAt(file.blendShapeChannels, file.blendShapeChannelNames,
                                           InFile(lod)) : row[2] \notin Undriven}
<1> DEFINE rows == dna.blendShapeChannels
           in == rows.inputIndices
           out == rows.outputIndices
           N == Len(out)
           names == dna.blendShapeChannelNames
           m == dna.lodBlendShapeMapping
           fileRows == file.blendShapeChannels
           fileNames == file.blendShapeChannelNames
           fm == file.lodBlendShapeMapping
           n == file.lodCount
           c == archive.lods
           q == Len(c)
           count == ControlCount(file)
           D == CombinedDistinctIndices(m) \ Unreferenced
           t == KeepPositions(names, FilterLeft.passing)
           map == FilterLeft.remapped
           kept == RowsToKeep
           left == RowsLeft
<1>1. /\ n \in Nat /\ IsConstraint(c, n) /\ q \in Nat /\ Loads("defn") /\ count \in Nat
      /\ Numbered(fileNames) /\ IsMapping(fm, n, Len(fileNames))
      /\ AreRows(fileRows, fileNames, fm, n, count) /\ IsCut(rows, c, fileRows)
      /\ SameLists(names, m, c, fm)
  <2>1. Consistent(file) /\ n \in Nat /\ IsConstraint(c, n)
    BY LaterStep
  <2>2. /\ Loads("defn") /\ count \in Nat /\ AreRows(fileRows, fileNames, fm, n, count)
        /\ IsCut(rows, c, fileRows)
    BY ChannelRowsAre
  <2>3. Numbered(fileNames) /\ IsMapping(fm, n, Len(fileNames))
    BY <2>1 DEF Consistent, IsTable
  <2>4. SameLists(names, m, c, fm)
    BY <2>2 DEF FilterInv, DefinitionInv
  <2>5. q \in Nat
    BY <2>1 DEF IsConstraint
  <2> QED  BY <2>1, <2>2, <2>3, <2>4, <2>5
<1>2. /\ kept \in SUBSET (0 .. N - 1)
      /\ \A r \in 0 .. N - 1 : r \in kept <=> Nth(out, r) \notin Undriven
      /\ \A r \in kept : Nth(out, r) \notin Unreferenced
  BY UnreferencedMeans
<1>3. /\ DOMAIN map = D
      /\ \A i \in D : map[i] \in Positions(t) /\ Nth(t, map[i]) = i
  BY <1>1, RemovalLeaves
<1>4. IsRemoval(left, rows, kept, map)
  BY DEF RowsLeft, IsRemoval
<1> HIDE DEF rows, names, m, fileRows, fileNames, fm, n, c, count, t, map, kept, left
<1>5. /\ in \in Seq(Nat) /\ out \in Seq(Nat) /\ Len(in) = N /\ N \in Nat
      /\ rows.lods \in [1 .. q -> Nat]
      /\ \A lod \in 0 .. q - 1 : Nth(rows.lods, lod) <= N
  <2>1. in \in Seq(Nat) /\ out \in Seq(Nat) /\ Len(in) = N
    BY <1>1 DEF IsCut
  <2>2. N \in Nat
    BY <2>1
  <2>3. /\ rows.lods \in [1 .. q -> Nat]
        /\ \A lod \in 0 .. q - 1 : Nth(rows.lods, lod) <= N
    BY <1>1 DEF IsCut
  <2> QED  BY <2>1, <2>2, <2>3
<1>6. /\ \A r \in 0 .. N - 1 : /\ q # 0
                               /\ Nth(out, r) \in ToSet(GetIndices(m, 0))
                               /\ Nth(out, r) \in Positions(names)
      /\ \A lod \in 0 .. q - 1 : RowsAt(rows, names, lod) = RowsAt(fileRows, fileNames, Nth(c, lod))
  <2>1. /\ \A r \in Positions(out) : /\ Len(c) # 0
                                     /\ Nth(out, r) \in ToSet(GetIndices(m, 0))
                                     /\ Nth(out, r) \in Positions(names)
        /\ \A lod \in 0 .. Len(c) - 1 :
              RowsAt(rows, names, lod) = RowsAt(fileRows, fileNames, Nth(c, lod))
    BY <1>1, CutRowsAreShown
  <2> QED  BY <2>1 DEF Positions
<1>7. \A r \in 0 .. N - 1 : Nth(out, r) \in CombinedDistinctIndices(m) /\ Nth(names, Nth(out, r)) = Nth(out, r)
  <2> TAKE r \in 0 .. N - 1
  <2>1. Numbered(names) /\ IsMapping(m, q, Len(names))
    BY <1>1 DEF SameLists
  <2>2. Len(names) \in Nat /\ \A i \in Positions(names) : Nth(names, i) = i
    BY <2>1, NumberedNames
  <2>3. 0 \in 0 .. q - 1
    BY <1>1, <1>6
  <2>4. ToSet(GetIndices(m, 0)) \subseteq CombinedDistinctIndices(m)
    BY <1>1, <2>1, <2>2, <2>3, MappingGives
  <2> QED  BY <1>6, <2>2, <2>4
<1>8. \A r \in kept : r \in 0 .. N - 1 /\ Nth(out, r) \in D
  BY <1>2, <1>7
<1>9. ToSet(KeepPositions(out, kept)) \subseteq D
  <2>1. Kept(out, kept) = kept
    BY <1>2 DEF Kept, Positions
  <2>2. ToSet(KeepPositions(out, kept)) = {Nth(out, i) : i \in Kept(out, kept)}
    <3> HIDE DEF out
    <3> QED  BY <1>5, KeepPositionsKeeps
  <2> QED  BY <1>8, <2>1, <2>2
<1>10. HasRowsOf(left, t, rows, kept, q)
  <2>1. FoundIn(D, map, t)
    BY <1>3 DEF FoundIn
  <2>2. IsTableOf(rows, N, q, kept, D)
    BY <1>1, <1>5, <1>8 DEF IsTableOf
  <2> HIDE DEF D, q, N
  <2> QED  BY <1>4, <2>1, <2>2, RemovedRowsShow
<1>11. ASSUME NEW lod \in 0 .. q - 1
       PROVE  RowsAt(left, t, lod) =
                 {row \in RowsAt(fileRows, fileNames, Nth(c, lod)) : row[2] \notin Undriven}
  <2> DEFINE L == Nth(rows.lods, lod)
             pair(r) == <<Nth(in, r), Nth(out, r)>>
             S == {r \in kept : r < L}
  <2>1. L \in Nat /\ L <= N
    <3>1. lod + 1 \in 1 .. q
      BY <1>1
    <3> QED  BY <1>5, <3>1 DEF Nth
  <2> HIDE DEF L
  <2>2. \A r \in 0 .. L - 1 : r \in 0 .. N - 1
    BY <1>5, <2>1
  <2>3. RowsAt(rows, names, lod) = {<<Nth(in, r), Nth(names, Nth(out, r))>> : r \in 0 .. L - 1}
    BY DEF RowsAt, L
  <2>4. RowsAt(rows, names, lod) = {pair(r) : r \in 0 .. L - 1}
    BY <1>7, <2>2, <2>3
  <2>5. \A r \in 0 .. N - 1 : pair(r)[2] = Nth(out, r)
    OBVIOUS
  <2>6. RowsAt(left, t, lod) = {pair(r) : r \in S}
    BY <1>10 DEF L, HasRowsOf
  <2>7. \A r : r \in S <=> r \in 0 .. L - 1 /\ Nth(out, r) \notin Undriven
    <3> TAKE r
    <3>1. r \in S => r \in 0 .. L - 1 /\ Nth(out, r) \notin Undriven
      BY <1>2, <2>1
    <3>2. r \in 0 .. L - 1 /\ Nth(out, r) \notin Undriven => r \in S
      <4>1. r \in 0 .. L - 1 => r \in 0 .. N - 1 /\ r < L
        BY <2>1, <2>2
      <4> QED  BY <1>2, <4>1
    <3> QED  BY <3>1, <3>2
  <2>8. \A r \in 0 .. L - 1 : pair(r)[2] = Nth(out, r)
    BY <2>2, <2>5
  <2> HIDE DEF pair, S
  <2>9. RowsAt(left, t, lod) = {row \in {pair(r) : r \in 0 .. L - 1} : row[2] \notin Undriven}
    BY <2>6, <2>7, <2>8
  <2> QED  BY <1>6, <2>4, <2>9
<1>12. \A lod \in 0 .. q - 1 :
          /\ HasRows(left, t, lod)
          /\ RowsAt(left, t, lod) =
                {row \in RowsAt(fileRows, fileNames, Nth(c, lod)) : row[2] \notin Undriven}
  BY <1>10, <1>11 DEF HasRowsOf
<1>13. ToSet(KeepPositions(out, kept)) \subseteq DOMAIN map
  BY <1>3, <1>9
<1>14. \A lod : Nth(c, lod) = InFile(lod)
  BY DEF InFile, c
<1>15. \A lod \in 0 .. q - 1 :
          /\ HasRows(left, t, lod)
          /\ RowsAt(left, t, lod) =
                {row \in RowsAt(fileRows, fileNames, InFile(lod)) : row[2] \notin Undriven}
  BY <1>12, <1>14
<1> USE DEF rows, names, fileRows, fileNames, c, q, t, map, kept, left, out
<1> QED  BY ONLY <1>13, <1>15

\* The last step removes channels, or none at all, and leaves what the invariant says of them.
LEMMA PostKeeps ==
    ASSUME FilterInv, PostFilter, UNCHANGED <<file, config>>
    PROVE  FilterInv'
<1> DEFINE t == KeepPositions(dna.blendShapeChannelNames, FilterLeft.passing)
           left == MapIndices(MappingLeft, FilterLeft.remapped)
<1>1. step = 11
  BY StepOf DEF PostFilter
<1>2. /\ DOMAIN dna = Fields
      /\ DOMAIN archive = {"lods", "unconstrainedLODCount", "meshes", "joints", "channels",
                           "rootJointIndex", "loadedControls"}
      /\ dna.lodCount = Len(archive.lods)
  BY <1>1, LaterStep
<1>3. Loads("bhvr") => Loads("defn")
  BY DEF FilterInv, RequestInv, IsConfig, Loads
<1>4. Loads("defn")' = Loads("defn") /\ Loads("bhvr")' = Loads("bhvr") /\ Undriven' = Undriven
  <2>1. \A control : ControlIsLoaded(control)' = ControlIsLoaded(control)
    BY DEF ControlIsLoaded, Loads
  <2> QED  BY <2>1 DEF Loads, Undriven
<1>5. ASSUME step' = 12, \A f \in DOMAIN archive \ {"channels"} : archive'[f] = archive[f],
             DOMAIN archive' = DOMAIN archive, DOMAIN dna' = Fields,
             \A f \in Fields \ {"lodBlendShapeMapping", "blendShapeChannelNames",
                                "meshBlendShapeChannelMapping", "blendShapeChannels",
                                "meshes"} : dna'[f] = dna[f],
             PostInv'
      PROVE  FilterInv'
  <2>1. /\ archive'.lods = archive.lods /\ archive'.joints = archive.joints
        /\ archive'.unconstrainedLODCount = archive.unconstrainedLODCount
        /\ archive'.loadedControls = archive.loadedControls
    BY <1>2, <1>5
  <2>2. /\ dna'.lodCount = dna.lodCount
        /\ dna'.jointGroups = dna.jointGroups /\ dna'.animatedMaps = dna.animatedMaps
        /\ dna'.neuralNetworks = dna.neuralNetworks
        /\ dna'.lodNeuralNetworkMapping = dna.lodNeuralNetworkMapping
        /\ dna'.solvers = dna.solvers /\ dna'.lodSolverMapping = dna.lodSolverMapping
        /\ dna'.operations = dna.operations
        /\ dna'.lodMLOperationMappings = dna.lodMLOperationMappings
        /\ \A f \in {"meshNames", "lodMeshMapping", "jointNames", "lodJointMapping",
                     "animatedMapNames", "lodAnimatedMapMapping"} : dna'[f] = dna[f]
    BY <1>5, FieldsAre
  <2>3. KeepsLODs
    BY <1>1, <1>2, <1>5, <2>1, <2>2 DEF KeepsLODs
  <2>4. RequestInv' /\ LODsInv' /\ Filters' = Filters
    BY <2>3, LODsStay DEF FilterInv
  <2>5. DefinitionInv'
    BY <1>1, <2>1, <2>2, <2>3, <2>4, DefinitionStays DEF FilterInv
  <2>6. ControlsInv'
    BY <1>1, <2>1, <2>3, ControlsStay DEF FilterInv
  <2>7. BehaviorInv'
    BY <1>1, <2>1, <2>2, <2>3, <2>4, BehaviorStays DEF FilterInv
  <2>8. NetworksInv' /\ SolversInv' /\ OperationsInv'
    BY <1>1, <2>2, <2>3, NetworksStay, SolversStay, OperationsStay DEF FilterInv
  <2> QED  BY <1>5, <2>4, <2>5, <2>6, <2>7, <2>8 DEF FilterInv
<1>6. CASE ~(config.unknownPolicy = "Ignore" /\ archive.loadedControls # <<>>)
  <2>1. step' = 12 /\ UNCHANGED <<archive, dna>>
    BY <1>1, <1>6 DEF PostFilter, Proceed
  <2>2. PostInv'
    BY <1>1, <1>6, <2>1, NoneUndriven, UnfilteredPost
  <2> QED  BY <1>2, <1>5, <2>1, <2>2
<1>7. CASE config.unknownPolicy = "Ignore" /\ archive.loadedControls # <<>>
  <2> DEFINE outputs == KeepPositions(dna.blendShapeChannels.outputIndices, RowsToKeep)
  <2>1. RemoveUnreferencedBlendShapes
    BY <1>7 DEF PostFilter
  <2>2. ToSet(outputs) \subseteq DOMAIN FilterLeft.remapped
    <3>1. CASE Loads("bhvr")
      BY <1>1, <1>7, <3>1, RemovalKeepsRows
    <3>2. CASE ~Loads("bhvr")
      <4>1. dna.blendShapeChannels = NoRows
        BY <1>1, <3>2 DEF FilterInv, BehaviorInv
      <4> QED  BY <4>1, NoRowsNoRemoval
    <3> QED  BY <3>1, <3>2
  <2>3. /\ step' = 12 /\ DOMAIN archive' = DOMAIN archive
        /\ \A f \in DOMAIN archive \ {"channels"} : archive'[f] = archive[f]
        /\ DOMAIN dna' = Fields
        /\ \A f \in Fields \ {"lodBlendShapeMapping", "blendShapeChannelNames",
                              "meshBlendShapeChannelMapping", "blendShapeChannels",
                              "meshes"} : dna'[f] = dna[f]
        /\ dna'.blendShapeChannelNames = t /\ dna'.lodBlendShapeMapping = left
        /\ dna'.blendShapeChannels = RowsLeft
    <3> HIDE DEF Fields
    <3> QED  BY <1>1, <1>2, <2>1, <2>2, RemovalGives
  <2>4. archive'.lods = archive.lods
    BY <1>2, <2>3
  <2>5. (Loads("defn") =>
            Shows(dna.blendShapeChannelNames, dna.lodBlendShapeMapping, archive.lods,
                  file.blendShapeChannelNames, file.lodBlendShapeMapping, Undriven))'
    <3> SUFFICES ASSUME Loads("defn")
                 PROVE  Shows(t, left, archive.lods, file.blendShapeChannelNames,
                              file.lodBlendShapeMapping, Undriven)
      BY <1>4, <2>3, <2>4
    <3> QED  BY <1>1, <1>7, RemovalLeaves
  <2>6. ASSUME Loads("bhvr"), NEW lod \in 0 .. Len(archive.lods) - 1
        PROVE  /\ HasRows(RowsLeft, t, lod)
               /\ RowsAt(RowsLeft, t, lod) =
                     {row \in RowsAt(file.blendShapeChannels, file.blendShapeChannelNames, InFile(lod)) :
                         row[2] \notin Undriven}
    BY <1>1, <1>7, <2>6, RemovalKeepsRows
  <2>7. \A lod : InFile(lod)' = InFile(lod)
    BY <2>4 DEF InFile
  <2> HIDE DEF t
  <2>8. \A lod : /\ HasRows(dna.blendShapeChannels, dna.blendShapeChannelNames, lod)' =
                       HasRows(RowsLeft, t, lod)
                 /\ RowsAt(dna.blendShapeChannels, dna.blendShapeChannelNames, lod)' =
                       RowsAt(RowsLeft, t, lod)
                 /\ RowsAt(file.blendShapeChannels, file.blendShapeChannelNames, InFile(lod))' =
                       RowsAt(file.blendShapeChannels, file.blendShapeChannelNames, InFile(lod))
    BY <2>3, <2>7
  <2>9. (Loads("bhvr") => \A lod \in 0 .. Len(archive.lods) - 1 :
            /\ HasRows(dna.blendShapeChannels, dna.blendShapeChannelNames, lod)
            /\ RowsAt(dna.blendShapeChannels, dna.blendShapeChannelNames, lod) =
                  {row \in RowsAt(file.blendShapeChannels, file.blendShapeChannelNames, InFile(lod)) :
                      row[2] \notin Undriven})'
    BY <1>4, <2>4, <2>6, <2>8
  <2>10. PostInv'
    BY <2>5, <2>9 DEF PostInv
  <2> QED  BY <1>5, <2>3, <2>10
<1> QED  BY <1>6, <1>7
-----------------------------------------------------------------------------
(* What is loaded.                                                          *)

\* Whatever is asked of a consistent file whose LODs have the first channels and the first
\* animated maps, the invariant holds (FilteredBinaryInputArchive).
THEOREM FilterInvariant ==
    ASSUME ChannelsInOrder
    PROVE  Spec => []FilterInv
<1>1. Init => FilterInv
  BY InitFilterInv
<1>2. FilterInv /\ [Next]_vars => FilterInv'
  <2> SUFFICES ASSUME FilterInv, [Next]_vars
               PROVE  FilterInv'
    OBVIOUS
  <2>1. CASE LoadDescriptor /\ UNCHANGED <<file, config>>
    BY <2>1, DescriptorKeeps
  <2>2. CASE LoadDefinition /\ UNCHANGED <<file, config>>
    BY <2>2, DefinitionKeeps
  <2>3. CASE LoadBehavior /\ UNCHANGED <<file, config>>
    BY <2>3, BehaviorKeeps
  <2>4. CASE (LoadGeometry \/ LoadJointRepresentations \/ LoadTwistsAndSwings)
             /\ UNCHANGED <<file, config>>
    BY <2>4, OtherLayersKeep DEF LoadGeometry, LoadJointRepresentations, LoadTwistsAndSwings
  <2>5. CASE LoadNetworks /\ UNCHANGED <<file, config>>
    BY <2>5, NetworksKeep
  <2>6. CASE LoadSolvers /\ UNCHANGED <<file, config>>
    BY <2>6, SolversKeep
  <2>7. CASE LoadPoses /\ UNCHANGED <<file, config>>
    BY <2>7, PosesKeep
  <2>8. CASE LoadOperations /\ UNCHANGED <<file, config>>
    BY <2>8, OperationsKeep
  <2>9. CASE PostFilter /\ UNCHANGED <<file, config>>
    BY <2>9, PostKeeps
  <2>10. CASE UNCHANGED vars
    <3>1. UNCHANGED <<file, config, archive, dna, step>>
      BY <2>10 DEF vars
    <3>2. \A layer : Loads(layer)' = Loads(layer)
      BY <3>1 DEF Loads
    <3>3. Filters' = Filters /\ ControlsSoFar' = ControlsSoFar
      BY <3>1 DEF Filters, ControlsSoFar
    <3>4. \A control : ControlIsLoaded(control)' = ControlIsLoaded(control)
      BY <3>1, <3>2 DEF ControlIsLoaded
    <3>5. Undriven' = Undriven
      BY <3>1, <3>2, <3>4 DEF Undriven
    <3>6. \A lod : InFile(lod)' = InFile(lod)
      BY <3>1 DEF InFile
    <3>7. RequestInv' /\ LODsInv'
      BY <3>1 DEF FilterInv, RequestInv, LODsInv
    <3>8. DefinitionInv'
      <4>1. \A j : JointIsFound(j)' = JointIsFound(j)
        BY <3>1 DEF JointIsFound
      <4> QED  BY <3>1, <3>2, <3>3, <3>6, <4>1 DEF FilterInv, DefinitionInv
    <3>9. ControlsInv'
      BY <3>1, <3>2, <3>3, <3>4 DEF FilterInv, ControlsInv
    <3>10. BehaviorInv'
      <4>1. \A a, n : RemappedAttribute(a, n)' = RemappedAttribute(a, n)
        BY <3>1 DEF RemappedAttribute
      <4>2. \A g : FilteredGroup(g)' = FilteredGroup(g)
        BY <3>1, <4>1 DEF FilteredGroup
      <4>3. \A rows : FilteredRows(rows)' = FilteredRows(rows)
        BY <3>1 DEF FilteredRows
      <4> QED  BY <3>1, <3>2, <3>3, <4>2, <4>3 DEF FilterInv, BehaviorInv
    <3>11. NetworksInv' /\ SolversInv' /\ OperationsInv'
      BY <3>1, <3>2 DEF FilterInv, NetworksInv, SolversInv, OperationsInv
    <3>12. PostInv'
      BY <3>1, <3>2, <3>5, <3>6 DEF FilterInv, PostInv
    <3> QED  BY <3>7, <3>8, <3>9, <3>10, <3>11, <3>12 DEF FilterInv
  <2> QED  BY <2>1, <2>2, <2>3, <2>4, <2>5, <2>6, <2>7, <2>8, <2>9, <2>10 DEF Next
<1> QED  BY <1>1, <1>2, PTL DEF Spec

\* No step throws (FilteredBinaryInputArchive::process, JointFilter::remapped).
THEOREM NeverThrows ==
    ASSUME ChannelsInOrder
    PROVE  Spec => []NothingThrown
<1>1. FilterInv => NothingThrown
  BY DEF FilterInv, LODsInv, NothingThrown, Thrown
<1> QED  BY <1>1, FilterInvariant, PTL

\* The invariant says of the LODs that are kept what is said of a loaded document.
LEMMA ShownAreSame ==
    ASSUME FilterInv, Loaded, NEW names, NEW m, NEW fileNames, NEW fm, NEW except,
           Shows(names, m, archive.lods, fileNames, fm, except)
    PROVE  SameElements(names, m, fileNames, fm, except)
<1>1. step = 12
  BY DEF FilterInv, LODsInv, Loaded, Layers
<1>2. dna.lodCount = Len(archive.lods)
  BY <1>1, LaterStep
<1> QED  BY <1>2 DEF Shows, SameElements, InFile

\* Every LOD of a loaded document has the elements of the LOD it stands for in the file
\* (LODMapping::discardLODs and the filters that rewrite its lists).
THEOREM KeepsElementsOfLODs ==
    ASSUME ChannelsInOrder
    PROVE  Spec => []LODsKeepElements
<1>1. FilterInv => LODsKeepElements
  <2> SUFFICES ASSUME FilterInv, Loaded
               PROVE  LODsKeepElements
    BY DEF LODsKeepElements
  <2>1. step = 12
    BY DEF FilterInv, LODsInv, Loaded, Layers
  <2>2. ASSUME Loads("defn")
        PROVE  /\ SameElements(dna.meshNames, dna.lodMeshMapping,
                               file.meshNames, file.lodMeshMapping, {})
               /\ SameElements(dna.jointNames, dna.lodJointMapping,
                               file.jointNames, file.lodJointMapping, {})
               /\ SameElements(dna.blendShapeChannelNames, dna.lodBlendShapeMapping,
                               file.blendShapeChannelNames, file.lodBlendShapeMapping, Undriven)
               /\ SameElements(dna.animatedMapNames, dna.lodAnimatedMapMapping,
                               file.animatedMapNames, file.lodAnimatedMapMapping, {})
    <3>1. /\ Shows(dna.meshNames, dna.lodMeshMapping, archive.lods,
                   file.meshNames, file.lodMeshMapping, {})
          /\ Shows(dna.jointNames, dna.lodJointMapping, archive.lods,
                   file.jointNames, file.lodJointMapping, {})
          /\ SameLists(dna.animatedMapNames, dna.lodAnimatedMapMapping, archive.lods,
                       file.lodAnimatedMapMapping)
      BY <2>1, <2>2 DEF FilterInv, DefinitionInv
    <3>2. Shows(dna.blendShapeChannelNames, dna.lodBlendShapeMapping, archive.lods,
                file.blendShapeChannelNames, file.lodBlendShapeMapping, Undriven)
      BY <2>1, <2>2 DEF FilterInv, PostInv
    <3>3. Consistent(file) /\ file.lodCount \in Nat /\ IsConstraint(archive.lods, file.lodCount)
      BY <2>1, LaterStep
    <3>4. /\ Numbered(file.animatedMapNames)
          /\ IsMapping(file.lodAnimatedMapMapping, file.lodCount, Len(file.animatedMapNames))
      BY <3>3 DEF Consistent, IsTable
    <3>5. Shows(dna.animatedMapNames, dna.lodAnimatedMapMapping, archive.lods,
                file.animatedMapNames, file.lodAnimatedMapMapping, {})
      BY <3>1, <3>3, <3>4, SameListsShow
    <3> QED  BY <3>1, <3>2, <3>5, ShownAreSame
  <2>3. ASSUME Loads("mlbh")
        PROVE  /\ SameElements(dna.neuralNetworks, dna.lodNeuralNetworkMapping,
                               file.neuralNetworks, file.lodNeuralNetworkMapping, {})
               /\ \A s \in DOMAIN file.operations :
                     SameElements([o \in DOMAIN dna.operations[s] |-> dna.operations[s][o].name],
                                  dna.lodMLOperationMappings[s],
                                  [o \in DOMAIN file.operations[s] |-> file.operations[s][o].name],
                                  file.lodMLOperationMappings[s], {})
    <3>1. Shows(dna.neuralNetworks, dna.lodNeuralNetworkMapping, archive.lods,
                file.neuralNetworks, file.lodNeuralNetworkMapping, {})
      BY <2>1, <2>3 DEF FilterInv, NetworksInv
    <3>2. ASSUME NEW s \in DOMAIN file.operations
          PROVE  Shows([o \in DOMAIN dna.operations[s] |-> dna.operations[s][o].name],
                       dna.lodMLOperationMappings[s], archive.lods,
                       [o \in DOMAIN file.operations[s] |-> file.operations[s][o].name],
                       file.lodMLOperationMappings[s], {})
      BY <2>1, <2>3 DEF FilterInv, OperationsInv
    <3> QED  BY <3>1, <3>2, ShownAreSame
  <2>4. ASSUME Loads("rbfb")
        PROVE  SameElements(dna.solvers, dna.lodSolverMapping, file.solvers, file.lodSolverMapping, {})
    BY <2>1, <2>4, ShownAreSame DEF FilterInv, SolversInv
  <2> QED  BY <2>2, <2>3, <2>4 DEF LODsKeepElements
<1> QED  BY <1>1, FilterInvariant, PTL

\* The values of some of the first rows of a matrix are found among the first rows.
LEMMA CellIsBefore ==
    ASSUME NEW k \in Nat, NEW n \in Nat, NEW r \in 0 .. k - 1, NEW c \in 0 .. n - 1
    PROVE  r * n + c \in 0 .. k * n - 1
<1>1. r * n + c < (r + 1) * n
  OBVIOUS
<1>2. k = (r + 1) + (k - r - 1) /\ k - r - 1 \in Nat
  OBVIOUS
<1>3. k * n = (r + 1) * n + (k - r - 1) * n
  BY <1>2
<1>4. (k - r - 1) * n \in Nat /\ r * n \in Nat /\ (r + 1) * n \in Nat
  BY <1>2
<1> QED  BY <1>1, <1>3, <1>4

\* An attribute of a joint that is found is the same attribute of the joint's new number.
LEMMA RemappedAttributeGives ==
    ASSUME NEW attribute \in Nat, archive.joints.remapped[jointOf(attribute)] \in Nat
    PROVE  LET new == RemappedAttribute(attribute, jointAttributeCount)
           IN  /\ jointOf(new) = archive.joints.remapped[jointOf(attribute)]
               /\ new % jointAttributeCount = attribute % jointAttributeCount
<1> DEFINE j == archive.joints.remapped[jointOf(attribute)]
           a == attribute % 9
<1>1. j \in Nat /\ a \in 0 .. 8
  OBVIOUS
<1>2. RemappedAttribute(attribute, jointAttributeCount) = j * 9 + a
  BY DEF RemappedAttribute, jointAttributeCount, jointOf
<1> HIDE DEF j, a
<1>3. (j * 9 + a) \div 9 = j /\ (j * 9 + a) % 9 = a
  BY <1>1
<1> QED  BY <1>2, <1>3 DEF jointOf, jointAttributeCount, j, a

\* A group that is cut and rewritten has the cells it has in the file.
LEMMA FilteredGroupCells ==
    ASSUME FilterInv, step = 12, Loads("defn"), Filters, NEW g \in DOMAIN file.jointGroups,
           NEW lod \in 0 .. Len(archive.lods) - 1
    PROVE  Cells(FilteredGroup(file.jointGroups[g]), dna.jointNames, lod) =
           Cells(file.jointGroups[g], file.jointNames, InFile(lod))
<1> DEFINE group == file.jointGroups[g]
           c == archive.lods
           n == file.lodCount
           in == group.inputIndices
           out == group.outputIndices
           N == Len(out)
           C == Len(in)
           t == ApplyTo(c, group.lods)
           k == RowCount(t)
           new == FilteredGroup(group)
           at == InFile(lod)
           L == Nth(group.lods, at)
<1>1. /\ Consistent(file) /\ n \in Nat /\ IsConstraint(c, n)
  BY LaterStep
<1>2. IsGroup(group, file.lodJointMapping, n)
  BY <1>1 DEF Consistent
<1>3. /\ in \in Seq(Nat) /\ out \in Seq(Nat) /\ group.values \in Seq(Int)
      /\ Len(group.values) = N * C /\ AreSizes(group.lods, n, N)
      /\ \A l \in 0 .. n - 1 : \A r \in 0 .. Nth(group.lods, l) - 1 :
            jointOf(Nth(out, r)) \in ToSet(GetIndices(file.lodJointMapping, l))
  BY <1>2 DEF IsGroup
<1>4. N \in Nat /\ C \in Nat
  <2>1. in \in Seq(Nat) /\ out \in Seq(Nat)
    BY <1>3
  <2> HIDE DEF in, out
  <2> QED  BY <2>1
<1>5. /\ k \in 0 .. N /\ at \in 0 .. n - 1 /\ Nth(t, lod) = L /\ L \in 0 .. k
  <2> DEFINE lods == group.lods
  <2>1. AreSizes(lods, n, N)
    BY <1>3
  <2> HIDE DEF lods, N, n, c
  <2>2. lod \in 0 .. Len(c) - 1 /\ at = Nth(c, lod)
    BY DEF c, InFile
  <2> HIDE DEF at
  <2> QED  BY <1>1, <1>4, <2>1, <2>2, CutSizes DEF lods
<1>6. \A j \in ToSet(GetIndices(file.lodJointMapping, at)) : JointIsFound(j)
  BY DEF FilterInv, DefinitionInv
<1>7. \A j \in ToSet(GetIndices(file.lodJointMapping, at)) : Nth(file.jointNames, j) = j
  <2>1. Numbered(file.jointNames) /\ IsMapping(file.lodJointMapping, n, Len(file.jointNames))
    BY <1>1 DEF Consistent, IsTable
  <2>2. Len(file.jointNames) \in Nat /\ \A i \in Positions(file.jointNames) : Nth(file.jointNames, i) = i
    BY <2>1, NumberedNames
  <2>3. ToSet(GetIndices(file.lodJointMapping, at)) \subseteq CombinedDistinctIndices(file.lodJointMapping)
    BY <1>1, <1>5, <2>1, <2>2, MappingGives
  <2>4. CombinedDistinctIndices(file.lodJointMapping) \subseteq Positions(file.jointNames)
    BY <2>1 DEF IsMapping, Positions
  <2> QED  BY <2>2, <2>3, <2>4
<1> DEFINE inputs == IF k # 0 THEN in ELSE <<>>
           outputs == [i \in 1 .. k |-> RemappedAttribute(out[i], jointAttributeCount)]
           values == SubSeq(group.values, 1, k * Len(inputs))
<1>8. new.lods = t /\ new.inputIndices = inputs /\ new.outputIndices = outputs /\ new.values = values
  BY DEF FilteredGroup
<1> HIDE DEF new, group, t, k, outputs, in, out, N, C, L, at
<1>9. Cells(new, dna.jointNames, lod) =
         {<<Nth(dna.jointNames, jointOf(Nth(outputs, r))), Nth(outputs, r) % jointAttributeCount,
            Nth(inputs, i), Nth(values, r * Len(inputs) + i)>> :
              r \in 0 .. L - 1, i \in Positions(inputs)}
  BY <1>5, <1>8 DEF Cells
<1>10. Cells(group, file.jointNames, at) =
         {<<Nth(file.jointNames, jointOf(Nth(out, r))), Nth(out, r) % jointAttributeCount,
            Nth(in, i), Nth(group.values, r * C + i)>> :
              r \in 0 .. L - 1, i \in Positions(in)}
  BY DEF Cells, L, in, out, C
<1>11. CASE L = 0
  <2>1. 0 .. L - 1 = {}
    BY <1>11
  <2>2. Cells(new, dna.jointNames, lod) = {}
    BY <1>9, <2>1
  <2>3. Cells(group, file.jointNames, at) = {}
    BY <1>10, <2>1
  <2> QED  BY <2>2, <2>3 DEF new, group, at
<1>12. CASE L # 0
  <2>1. k # 0 /\ inputs = in /\ Len(inputs) = C
    BY <1>5, <1>12 DEF C
  <2> HIDE DEF inputs
  <2>2. ASSUME NEW r \in 0 .. L - 1
        PROVE  /\ r \in 0 .. k - 1
               /\ Nth(dna.jointNames, jointOf(Nth(outputs, r))) = Nth(file.jointNames, jointOf(Nth(out, r)))
               /\ Nth(outputs, r) % jointAttributeCount = Nth(out, r) % jointAttributeCount
    <3>1. r \in 0 .. k - 1 /\ r + 1 \in 1 .. k /\ r + 1 \in 1 .. N
      BY <1>4, <1>5
    <3>2. Nth(outputs, r) = RemappedAttribute(Nth(out, r), jointAttributeCount)
      BY <3>1 DEF outputs, Nth
    <3>3. jointOf(Nth(out, r)) \in ToSet(GetIndices(file.lodJointMapping, at))
      BY <1>3, <1>5 DEF L
    <3>4. JointIsFound(jointOf(Nth(out, r)))
      BY <1>6, <3>3
    <3>5. Nth(out, r) \in Nat
      <4>1. out \in Seq(Nat) /\ Len(out) = N
        BY <1>3 DEF N
      <4>2. out[r + 1] \in Nat
        BY <3>1, <4>1
      <4> QED  BY <4>2 DEF Nth
    <3> DEFINE j == jointOf(Nth(out, r))
    <3>6. /\ archive.joints.remapped[j] \in Nat
          /\ Nth(dna.jointNames, archive.joints.remapped[j]) = j
      <4> HIDE DEF j
      <4>1. JointIsFound(j)
        BY <3>4 DEF j
      <4>2. \A x \in Positions(dna.jointNames) : x \in Nat
        BY DEF Positions
      <4> QED  BY <4>1, <4>2 DEF JointIsFound
    <3>7. /\ jointOf(Nth(outputs, r)) = archive.joints.remapped[j]
          /\ Nth(outputs, r) % jointAttributeCount = Nth(out, r) % jointAttributeCount
      BY <3>2, <3>5, <3>6, RemappedAttributeGives
    <3>8. Nth(file.jointNames, j) = j
      BY <1>7, <3>3
    <3> QED  BY <3>1, <3>6, <3>7, <3>8
  <2>3. ASSUME NEW r \in 0 .. L - 1, NEW i \in Positions(in)
        PROVE  Nth(values, r * C + i) = Nth(group.values, r * C + i)
    <3>1. i \in 0 .. C - 1 /\ r \in 0 .. k - 1 /\ r \in 0 .. N - 1
      BY <1>4, <1>5 DEF Positions, C
    <3>2. r * C + i \in 0 .. k * C - 1
      BY <1>4, <1>5, <3>1, CellIsBefore
    <3>3. k * C \in 0 .. Len(group.values)
      <4>1. k * C <= N * C /\ k * C \in Nat /\ N * C \in Nat
        <5>1. N = k + (N - k) /\ N - k \in Nat /\ k \in Nat
          BY <1>4, <1>5
        <5>2. N * C = k * C + (N - k) * C
          BY <1>4, <5>1
        <5>3. (N - k) * C \in Nat /\ k * C \in Nat
          BY <1>4, <5>1
        <5> QED  BY <5>2, <5>3
      <4>2. Len(group.values) = N * C
        BY <1>3
      <4> QED  BY <4>1, <4>2
    <3> DEFINE all == group.values
               last == k * C
    <3>4. all \in Seq(Int) /\ last \in 0 .. Len(all) /\ values = SubSeq(all, 1, last)
      BY <1>3, <2>1, <3>3
    <3>5. r * C + i \in 0 .. last - 1
      BY <3>2
    <3> HIDE DEF all, last, values
    <3>6. \A x \in 0 .. last - 1 : Nth(values, x) = Nth(all, x)
      BY <3>4, PrefixGives
    <3> QED  BY <3>5, <3>6 DEF all
  <2> HIDE DEF values
  <2> DEFINE after(r, i) ==
                 <<Nth(dna.jointNames, jointOf(Nth(outputs, r))), Nth(outputs, r) % jointAttributeCount,
                   Nth(in, i), Nth(values, r * C + i)>>
             before(r, i) ==
                 <<Nth(file.jointNames, jointOf(Nth(out, r))), Nth(out, r) % jointAttributeCount,
                   Nth(in, i), Nth(group.values, r * C + i)>>
  <2>4. \A r \in 0 .. L - 1, i \in Positions(in) : after(r, i) = before(r, i)
    BY <2>2, <2>3
  <2>5. Cells(new, dna.jointNames, lod) = {after(r, i) : r \in 0 .. L - 1, i \in Positions(in)}
    BY <1>9, <2>1
  <2>6. Cells(group, file.jointNames, at) = {before(r, i) : r \in 0 .. L - 1, i \in Positions(in)}
    BY <1>10
  <2> HIDE DEF after, before
  <2>7. Cells(new, dna.jointNames, lod) = Cells(group, file.jointNames, at)
    BY <2>4, <2>5, <2>6
  <2> QED  BY <2>7 DEF new, group, at
<1> QED  BY <1>11, <1>12

\* The animated maps' rows that are left are the rows of their LODs.
LEMMA MapRowsAre ==
    ASSUME FilterInv, step = 12, Loads("bhvr"), NEW lod \in 0 .. Len(archive.lods) - 1
    PROVE  /\ HasRows(dna.animatedMaps, dna.animatedMapNames, lod)
           /\ RowsAt(dna.animatedMaps, dna.animatedMapNames, lod) =
                 RowsAt(file.animatedMaps, file.animatedMapNames, InFile(lod))
<1> DEFINE rows == file.animatedMaps
           cut == dna.animatedMaps
           fileNames == file.animatedMapNames
           names == dna.animatedMapNames
           fm == file.lodAnimatedMapMapping
           m == dna.lodAnimatedMapMapping
           n == file.lodCount
           c == archive.lods
           count == ControlCount(file)
<1>1. /\ Consistent(file) /\ n \in Nat /\ n = file.lodCount /\ IsConstraint(c, n)
      /\ (Filters <=> HasImpactOn(c, n))
  BY LaterStep
<1>2. /\ Numbered(fileNames) /\ IsMapping(fm, n, Len(fileNames))
      /\ AreRows(rows, fileNames, fm, n, count) /\ count \in Nat
  <2>1. /\ Numbered(fileNames) /\ IsMapping(fm, n, Len(fileNames))
        /\ AreRows(rows, fileNames, fm, n, count)
    BY <1>1 DEF Consistent, IsTable
  <2>2. /\ file.rawControlCount \in Nat /\ file.psdCount \in Nat
        /\ file.mlControlCount \in Nat /\ file.poseControlCount \in Nat
    BY <1>1 DEF Consistent
  <2>3. ControlCount(file) \in Nat
    BY <2>2, SMTT(30) DEF ControlCount
  <2> QED  BY <2>1, <2>3
<1>3. SameLists(names, m, c, fm)
  BY DEF FilterInv, DefinitionInv, RequestInv, IsConfig, Loads
<1>4. cut = IF Filters THEN FilteredRows(rows) ELSE rows
  BY DEF FilterInv, BehaviorInv
<1>5. lod \in 0 .. Len(c) - 1 /\ InFile(lod) = Nth(c, lod)
  BY DEF InFile
<1> HIDE DEF rows, cut, fileNames, names, fm, m, n, count
<1>6. IsCut(cut, c, rows)
  BY <1>1, <1>2, <1>4, RowsAreCut
<1> HIDE DEF c
<1>7. HasRows(cut, names, lod) /\ RowsAt(cut, names, lod) = RowsAt(rows, fileNames, Nth(c, lod))
  BY <1>1, <1>2, <1>3, <1>5, <1>6, CutRowsAreShown
<1> QED  BY <1>5, <1>7 DEF cut, names, rows, fileNames

\* The rows of every LOD drive what they drive in the file, by the same controls and values
\* (process(RawJoints), removeUnreferencedBlendShapes).
THEOREM KeepsRows ==
    ASSUME ChannelsInOrder
    PROVE  Spec => []RowsKeepElements
<1>1. FilterInv => RowsKeepElements
  <2> SUFFICES ASSUME FilterInv, Loaded, Loads("bhvr"), NEW lod \in 0 .. dna.lodCount - 1
               PROVE  /\ \A g \in DOMAIN file.jointGroups :
                            Cells(dna.jointGroups[g], dna.jointNames, lod) =
                            Cells(file.jointGroups[g], file.jointNames, InFile(lod))
                      /\ HasRows(dna.blendShapeChannels, dna.blendShapeChannelNames, lod)
                      /\ RowsAt(dna.blendShapeChannels, dna.blendShapeChannelNames, lod) =
                            {row \in RowsAt(file.blendShapeChannels, file.blendShapeChannelNames,
                                            InFile(lod)) : row[2] \notin Undriven}
                      /\ HasRows(dna.animatedMaps, dna.animatedMapNames, lod)
                      /\ RowsAt(dna.animatedMaps, dna.animatedMapNames, lod) =
                            RowsAt(file.animatedMaps, file.animatedMapNames, InFile(lod))
    BY DEF RowsKeepElements
  <2>1. step = 12
    BY DEF FilterInv, LODsInv, Loaded, Layers
  <2>2. /\ Consistent(file) /\ file.lodCount \in Nat /\ IsConstraint(archive.lods, file.lodCount)
        /\ dna.lodCount = Len(archive.lods)
        /\ (Filters <=> HasImpactOn(archive.lods, file.lodCount))
    BY <2>1, LaterStep
  <2>3. lod \in 0 .. Len(archive.lods) - 1
    BY <2>2
  <2>4. Loads("defn")
    BY DEF FilterInv, RequestInv, IsConfig, Loads
  <2>5. ASSUME NEW g \in DOMAIN file.jointGroups
        PROVE  Cells(dna.jointGroups[g], dna.jointNames, lod) =
               Cells(file.jointGroups[g], file.jointNames, InFile(lod))
    <3>1. CASE Filters
      <4>1. dna.jointGroups[g] = FilteredGroup(file.jointGroups[g])
        BY <2>1, <2>2, <3>1 DEF FilterInv, BehaviorInv, Consistent
      <4> QED  BY <2>1, <2>3, <2>4, <3>1, <4>1, FilteredGroupCells
    <3>2. CASE ~Filters
      <4>1. dna.jointGroups = file.jointGroups
        BY <2>1, <3>2 DEF FilterInv, BehaviorInv
      <4>2. dna.jointNames = file.jointNames
        BY <2>1, <2>4, <3>2 DEF FilterInv, DefinitionInv
      <4>3. InFile(lod) = lod
        <5>1. Len(archive.lods) = file.lodCount
              /\ \A k \in 1 .. file.lodCount : archive.lods[k] = k - 1
          BY <2>2, <3>2, NoImpact
        <5>2. lod + 1 \in 1 .. file.lodCount /\ (lod + 1) - 1 = lod
          BY <2>2, <2>3, <5>1
        <5> QED  BY <5>1, <5>2 DEF InFile, Nth
      <4> QED  BY <4>1, <4>2, <4>3
    <3> QED  BY <3>1, <3>2
  <2>6. /\ HasRows(dna.blendShapeChannels, dna.blendShapeChannelNames, lod)
        /\ RowsAt(dna.blendShapeChannels, dna.blendShapeChannelNames, lod) =
              {row \in RowsAt(file.blendShapeChannels, file.blendShapeChannelNames,
                              InFile(lod)) : row[2] \notin Undriven}
    BY <2>1, <2>3 DEF FilterInv, PostInv
  <2>7. /\ HasRows(dna.animatedMaps, dna.animatedMapNames, lod)
        /\ RowsAt(dna.animatedMaps, dna.animatedMapNames, lod) =
              RowsAt(file.animatedMaps, file.animatedMapNames, InFile(lod))
    BY <2>1, <2>3, MapRowsAre
  <2> QED  BY <2>5, <2>6, <2>7
<1> QED  BY <1>1, FilterInvariant, PTL
-----------------------------------------------------------------------------
(* Operations and what they depend on.                                      *)

\* Where the elements of a table are that pass a filter of its own.
LEMMA KeptByGives ==
    ASSUME NEW n \in Nat, IsConstraint(archive.lods, n),
           NEW S, NEW names \in Seq(S), NEW m, IsMapping(m, n, Len(names))
    PROVE  LET D == CombinedDistinctIndices(DiscardLODs(m, archive.lods))
               left == KeptBy(m, names).names
               map == KeptBy(m, names).filter.remapped
           IN  /\ D \in SUBSET (0 .. Len(names) - 1)
               /\ KeptBy(m, names).filter.passing = D
               /\ left = KeepPositions(names, D)
               /\ left \in Seq(S)
               /\ DOMAIN map = D
               /\ \A i \in D : map[i] = Place(D, i)
               /\ \A i \in D : map[i] \in Positions(left) /\ Nth(left, map[i]) = Nth(names, i)
               /\ \A k \in 1 .. Len(left) : \E i \in D : left[k] = Nth(names, i)
<1> DEFINE D == CombinedDistinctIndices(DiscardLODs(m, archive.lods))
           filter == Filter(Len(names), D)
           left == KeepPositions(names, D)
<1>1. Len(names) \in Nat
  OBVIOUS
<1>2. D \in SUBSET (0 .. Len(names) - 1)
  BY <1>1, DiscardKeepsLists DEF IsMapping
<1>3. KeptBy(m, names).filter = filter
  BY DEF KeptBy
<1>4. filter.passing = D
  <2> HIDE DEF D
  <2> QED  BY <1>1, <1>2, FilterGives
<1>5. KeptBy(m, names).names = left
  BY <1>4 DEF KeptBy
<1> HIDE DEF D
<1>6. DOMAIN filter.remapped = D /\ \A i \in D : filter.remapped[i] = Place(D, i)
  BY <1>1, <1>2, FilterGives
<1>7. Kept(names, D) = D
  BY <1>2 DEF Kept, Positions
<1>8. /\ left \in Seq(S)
      /\ \A k \in 1 .. Len(left) : \E i \in D : left[k] = Nth(names, i)
      /\ \A i \in D : Place(D, i) \in Positions(left) /\ Nth(left, Place(D, i)) = Nth(names, i)
  BY <1>7, KeepPositionsKeeps
<1> DEFINE k == KeptBy(m, names)
<1> HIDE DEF left, filter, k
<1>9. k.filter = filter /\ k.names = left
  BY <1>3, <1>5 DEF k
<1>10. /\ k.filter.passing = D /\ k.names \in Seq(S)
       /\ DOMAIN k.filter.remapped = D /\ \A i \in D : k.filter.remapped[i] = Place(D, i)
       /\ \A i \in D : /\ k.filter.remapped[i] \in Positions(k.names)
                       /\ Nth(k.names, k.filter.remapped[i]) = Nth(names, i)
       /\ \A j \in 1 .. Len(k.names) : \E i \in D : k.names[j] = Nth(names, i)
  BY <1>4, <1>6, <1>8, <1>9
<1>11. k.names = KeepPositions(names, D)
  BY <1>9 DEF left
<1> QED  BY <1>2, <1>10, <1>11 DEF D, k

Op == [name : Nat, inSet : Seq(Nat), dependsOn : Seq(Nat)]

\* The sets of operations of the file, with the LODs that have them.
OperationSets ==
    /\ IsConstraint(archive.lods, file.lodCount) /\ file.lodCount \in Nat
    /\ file.operations \in Seq(Seq(Op))
    /\ \A s \in DOMAIN file.operations :
          IsMapping(file.lodMLOperationMappings[s], file.lodCount, Len(file.operations[s]))

\* The operations of a set that some LOD has which is kept.
OfKeptLODs(set) ==
    CombinedDistinctIndices(DiscardLODs(Nth(file.lodMLOperationMappings, set), archive.lods))

\* Where the operations of a set are that are kept.
LEMMA KeptInSetGives ==
    ASSUME OperationSets, NEW set \in Nat, set + 1 \in DOMAIN file.operations
    PROVE  LET ops == Nth(file.operations, set)
               left == KeptInSet(set).names
               map == KeptInSet(set).filter.remapped
               D == OfKeptLODs(set)
           IN  /\ ops \in Seq(Op)
               /\ D \in SUBSET (0 .. Len(ops) - 1)
               /\ left \in Seq(Op)
               /\ DOMAIN map = D
               /\ \A i \in D : map[i] \in Positions(left) /\ Nth(left, map[i]) = Nth(ops, i)
               /\ \A k \in 1 .. Len(left) : \E i \in D : left[k] = Nth(ops, i)
<1> DEFINE ops == Nth(file.operations, set)
           m == Nth(file.lodMLOperationMappings, set)
           D == CombinedDistinctIndices(DiscardLODs(m, archive.lods))
           O == Op
           n == file.lodCount
<1>1. ops \in Seq(O) /\ IsMapping(m, n, Len(ops))
  <2>1. file.operations \in Seq(Seq(O))
    BY DEF OperationSets
  <2> HIDE DEF O
  <2>2. file.operations \in [1 .. Len(file.operations) -> Seq(O)]
    BY <2>1
  <2>3. ops = file.operations[set + 1] /\ m = file.lodMLOperationMappings[set + 1]
    BY DEF Nth
  <2>4. IsMapping(file.lodMLOperationMappings[set + 1], n, Len(file.operations[set + 1]))
    BY DEF OperationSets
  <2> HIDE DEF ops, m, n
  <2> QED  BY <2>2, <2>3, <2>4
<1>2. n \in Nat /\ IsConstraint(archive.lods, n)
  BY DEF OperationSets
<1>3. KeptInSet(set) = KeptBy(m, ops) /\ OfKeptLODs(set) = D
  BY DEF KeptInSet, OfKeptLODs
<1> HIDE DEF ops, m, O, n
<1>4. LET left == KeptBy(m, ops).names
          map == KeptBy(m, ops).filter.remapped
      IN  /\ D \in SUBSET (0 .. Len(ops) - 1)
          /\ left \in Seq(O)
          /\ DOMAIN map = D
          /\ \A i \in D : map[i] \in Positions(left) /\ Nth(left, map[i]) = Nth(ops, i)
          /\ \A k \in 1 .. Len(left) : \E i \in D : left[k] = Nth(ops, i)
  BY <1>1, <1>2, KeptByGives
<1> QED  BY <1>1, <1>3, <1>4 DEF ops, O

\* A LOD that is kept has what the operations it has depend on.
LEMMA DependencyIsKept ==
    ASSUME OperationSets, NEW set \in Nat, set + 1 \in DOMAIN file.operations,
           NEW p \in OfKeptLODs(set), DependsOnEarlier(file, set + 1, p + 1),
           NEW i \in DOMAIN Nth(Nth(file.operations, set), p).dependsOn
    PROVE  LET op == Nth(Nth(file.operations, set), p)
           IN  /\ op.inSet[i] \in Nat /\ op.inSet[i] < set
               /\ op.inSet[i] + 1 \in DOMAIN file.operations
               /\ op.dependsOn[i] \in OfKeptLODs(op.inSet[i])
<1> DEFINE op == Nth(Nth(file.operations, set), p)
           q == op.inSet[i]
           d == op.dependsOn[i]
           n == file.lodCount
           c == archive.lods
<1>0. p \in Nat /\ p \in 0 .. Len(Nth(file.operations, set)) - 1
  BY KeptInSetGives
<1>1. op \in Op
  <2>1. Nth(file.operations, set) \in Seq(Op)
    BY KeptInSetGives
  <2> DEFINE O == Op
             ops == Nth(file.operations, set)
  <2>2. ops \in Seq(O) /\ p \in 0 .. Len(ops) - 1
    BY <1>0, <2>1
  <2> HIDE DEF O, ops
  <2>3. ops[p + 1] \in O
    BY <2>2
  <2> QED  BY <2>3 DEF O, ops, Nth
<1>2. op = file.operations[set + 1][p + 1]
  BY DEF Nth
<1>3. /\ Len(op.inSet) = Len(op.dependsOn)
      /\ q < set
      /\ \A lod \in 0 .. n - 1 :
            p \in ToSet(GetIndices(Nth(file.lodMLOperationMappings, set), lod)) =>
            d \in ToSet(GetIndices(Nth(file.lodMLOperationMappings, q), lod))
  <2>1. (set + 1) - 1 = set /\ (p + 1) - 1 = p
    BY <1>0
  <2>2. file.lodMLOperationMappings[set + 1] = Nth(file.lodMLOperationMappings, set)
    BY DEF Nth
  <2> QED  BY <1>2, <2>1, <2>2 DEF DependsOnEarlier
<1>4. op.inSet \in Seq(Nat) /\ op.dependsOn \in Seq(Nat)
  BY <1>1 DEF Op
<1>5. q \in Nat
  <2> DEFINE s == op.inSet
             t == op.dependsOn
  <2>1. s \in Seq(Nat) /\ t \in Seq(Nat) /\ Len(s) = Len(t) /\ i \in DOMAIN t
    BY <1>3, <1>4
  <2> HIDE DEF s, t
  <2>2. i \in 1 .. Len(s)
    BY <2>1
  <2>3. s[i] \in Nat
    BY <2>1, <2>2
  <2> QED  BY <2>3 DEF s
<1>6. DOMAIN file.operations = 1 .. Len(file.operations) /\ Len(file.operations) \in Nat
  BY DEF OperationSets
<1>7. q + 1 \in DOMAIN file.operations
  <2> HIDE DEF q
  <2>1. set + 1 \in 1 .. Len(file.operations) /\ q + 1 \in Nat /\ q + 1 < set + 1
    BY <1>3, <1>5, <1>6
  <2>2. q + 1 \in 1 .. Len(file.operations)
    BY <1>5, <1>6, <2>1
  <2> QED  BY <1>6, <2>2
<1> HIDE DEF q, d, op
<1>8. d \in OfKeptLODs(q)
  <2> DEFINE m1 == Nth(file.lodMLOperationMappings, set)
             m2 == Nth(file.lodMLOperationMappings, q)
             N1 == Len(Nth(file.operations, set))
             N2 == Len(Nth(file.operations, q))
             r1 == DiscardLODs(m1, c)
             r2 == DiscardLODs(m2, c)
  <2>1. N1 \in Nat /\ N2 \in Nat
    <3>1. Nth(file.operations, set) \in Seq(Op) /\ Nth(file.operations, q) \in Seq(Op)
      BY <1>5, <1>7, KeptInSetGives
    <3> QED  BY <3>1
  <2>2. IsMapping(m1, n, N1) /\ IsMapping(m2, n, N2) /\ IsConstraint(c, n) /\ n \in Nat
    BY <1>5, <1>7 DEF OperationSets, Nth
  <2>3. p \in CombinedDistinctIndices(r1)
    BY DEF OfKeptLODs
  <2>4. \A lod \in 0 .. n - 1 : p \in ToSet(GetIndices(m1, lod)) => d \in ToSet(GetIndices(m2, lod))
    BY <1>3
  <2>5. OfKeptLODs(q) = CombinedDistinctIndices(r2)
    BY DEF OfKeptLODs
  <2> HIDE DEF m1, m2, N1, N2, n, c
  <2>6. PICK k \in 0 .. Len(c) - 1 : p \in ToSet(GetIndices(m1, Nth(c, k)))
    BY <2>1, <2>2, <2>3, DiscardKeepsLists
  <2>7. Nth(c, k) \in 0 .. n - 1 /\ Len(c) \in Nat
    <3>1. c \in Seq(Nat) /\ Len(c) \in Nat /\ k + 1 \in 1 .. Len(c)
      BY <2>2 DEF IsConstraint
    <3>2. c[k + 1] \in Nat /\ c[k + 1] < n
      BY <2>2, <3>1 DEF IsConstraint
    <3> QED  BY <2>2, <3>1, <3>2 DEF Nth
  <2>8. d \in ToSet(GetIndices(m2, Nth(c, k)))
    BY <2>4, <2>6, <2>7
  <2>9. IsMapping(r2, Len(c), N2) /\ GetIndices(r2, k) = GetIndices(m2, Nth(c, k))
    BY <2>1, <2>2, DiscardKeepsLists
  <2> HIDE DEF r2
  <2>10. ToSet(GetIndices(r2, k)) \subseteq CombinedDistinctIndices(r2)
    BY <2>1, <2>7, <2>9, MappingGives
  <2> QED  BY <2>5, <2>8, <2>9, <2>10
<1> QED  BY <1>3, <1>5, <1>7, <1>8 DEF q, d, op

\* Following rewrites the numbers of the operations an operation depends on, and nothing else.
LEMMA FollowedGives ==
    ASSUME NEW op \in Op, NEW set
    PROVE  LET new == Followed(op, set)
           IN  /\ new.name = op.name /\ new.inSet = op.inSet
               /\ DOMAIN new.dependsOn = DOMAIN op.dependsOn
               /\ \A i \in DOMAIN op.dependsOn :
                     LET map == KeptInSet(op.inSet[i]).filter.remapped
                     IN  op.inSet[i] < set /\ op.dependsOn[i] \in DOMAIN map =>
                         new.dependsOn[i] = map[op.dependsOn[i]]
<1> DEFINE map(i) == KeptInSet(op.inSet[i]).filter.remapped
           deps == op.dependsOn
           R == [i \in 1 .. Len(deps) |->
                    IF op.inSet[i] < set /\ deps[i] \in DOMAIN map(i) THEN map(i)[deps[i]] ELSE deps[i]]
<1>1. Followed(op, set) = [op EXCEPT !.dependsOn = R]
  BY DEF Followed
<1>2. DOMAIN op = {"name", "inSet", "dependsOn"} /\ deps \in Seq(Nat)
  BY DEF Op
<1>3. DOMAIN deps = 1 .. Len(deps)
  BY <1>2
<1>4. DOMAIN R = DOMAIN deps
  BY <1>3
<1>5. \A i \in DOMAIN deps :
         op.inSet[i] < set /\ deps[i] \in DOMAIN map(i) => R[i] = map(i)[deps[i]]
  BY <1>3
<1> HIDE DEF R, deps
<1>6. LET new == Followed(op, set)
      IN  new.name = op.name /\ new.inSet = op.inSet /\ new.dependsOn = R
  BY <1>1, <1>2
<1> HIDE DEF map
<1> QED  BY <1>4, <1>5, <1>6 DEF deps, map

OperationsLeft(doc) ==
    doc.operations = [s \in 1 .. Len(file.operations) |-> FilteredOperations(s - 1)]

\* An operation that is kept depends on what it depended on.
DependenciesAreKept(doc, s) ==
    \A o \in DOMAIN doc.operations[s] :
        \E before \in ToSet(file.operations[s]) :
            /\ before.name = doc.operations[s][o].name
            /\ Dependencies(doc, doc.operations[s][o]) = Dependencies(file, before)

\* Every operation of a filtered set depends on what it depended on.
LEMMA KeptDependencies ==
    ASSUME OperationSets, OperationsAgree(file), NEW doc, OperationsLeft(doc),
           NEW s \in DOMAIN file.operations
    PROVE  DependenciesAreKept(doc, s)
<1> SUFFICES ASSUME NEW o \in DOMAIN doc.operations[s]
             PROVE  \E before \in ToSet(file.operations[s]) :
                        /\ before.name = doc.operations[s][o].name
                        /\ Dependencies(doc, doc.operations[s][o]) = Dependencies(file, before)
  BY DEF DependenciesAreKept
<1> DEFINE set == s - 1
           ops == Nth(file.operations, set)
           left == KeptInSet(set).names
<1>1. /\ DOMAIN file.operations = 1 .. Len(file.operations) /\ Len(file.operations) \in Nat
      /\ set \in Nat /\ set + 1 = s
  BY DEF OperationSets
<1>2. \A t \in DOMAIN file.operations :
         doc.operations[t] = [k \in 1 .. Len(KeptInSet(t - 1).names) |->
                                 Followed(KeptInSet(t - 1).names[k], t - 1)]
  BY <1>1 DEF FilteredOperations, OperationsLeft
<1> HIDE DEF set, ops
<1>3. o \in 1 .. Len(left) /\ doc.operations[s][o] = Followed(left[o], set)
  BY <1>2 DEF set
<1>4. PICK p \in OfKeptLODs(set) : left[o] = Nth(ops, p)
  BY <1>1, <1>3, KeptInSetGives DEF ops
<1> DEFINE before == Nth(ops, p)
           new == doc.operations[s][o]
<1>5. p \in Nat /\ p \in 0 .. Len(ops) - 1 /\ ops \in Seq(Op) /\ Len(ops) \in Nat
  <2>1. OfKeptLODs(set) \in SUBSET (0 .. Len(ops) - 1) /\ ops \in Seq(Op)
    BY <1>1, KeptInSetGives DEF ops
  <2>2. Len(ops) \in Nat
    BY <2>1
  <2> QED  BY <2>1, <2>2
<1>6. before \in Op /\ before \in ToSet(ops)
  <2> DEFINE O == Op
  <2>1. ops \in Seq(O) /\ p + 1 \in 1 .. Len(ops)
    BY <1>5
  <2> HIDE DEF O
  <2>2. ops[p + 1] \in O /\ p + 1 \in DOMAIN ops
    BY <2>1
  <2> QED  BY <2>2 DEF O, Nth, ToSet
<1>7. file.operations[s] = ops
  BY <1>1 DEF ops, Nth
<1>8. new = Followed(before, set)
  BY <1>3, <1>4
<1> DEFINE deps == DOMAIN before.dependsOn
<1>9. /\ new.name = before.name /\ new.inSet = before.inSet /\ DOMAIN new.dependsOn = deps
      /\ \A i \in deps :
            LET map == KeptInSet(before.inSet[i]).filter.remapped
            IN  before.inSet[i] < set /\ before.dependsOn[i] \in DOMAIN map =>
                new.dependsOn[i] = map[before.dependsOn[i]]
  <2> HIDE DEF before
  <2> QED  BY <1>6, <1>8, FollowedGives
<1>10. DependsOnEarlier(file, set + 1, p + 1)
  <2>1. p + 1 \in DOMAIN file.operations[s]
    BY <1>5, <1>7
  <2> QED  BY <1>1, <2>1 DEF OperationsAgree
<1> HIDE DEF new
<1>11. ASSUME NEW i \in deps
       PROVE  Nth(Nth(doc.operations, new.inSet[i]), new.dependsOn[i]).name =
              Nth(Nth(file.operations, before.inSet[i]), before.dependsOn[i]).name
  <2> DEFINE q == before.inSet[i]
             d == before.dependsOn[i]
             map == KeptInSet(q).filter.remapped
             others == KeptInSet(q).names
  <2>1. q \in Nat /\ q < set /\ q + 1 \in DOMAIN file.operations /\ d \in OfKeptLODs(q)
    BY <1>1, <1>10, DependencyIsKept DEF ops
  <2> HIDE DEF q, d
  <2>2. /\ DOMAIN map = OfKeptLODs(q)
        /\ map[d] \in Positions(others) /\ Nth(others, map[d]) = Nth(Nth(file.operations, q), d)
        /\ others \in Seq(Op)
    BY <2>1, KeptInSetGives
  <2>3. new.inSet[i] = q /\ new.dependsOn[i] = map[d]
    BY <1>9, <2>1, <2>2 DEF q, d
  <2> HIDE DEF map, others
  <2>4. map[d] \in Nat /\ map[d] + 1 \in 1 .. Len(others) /\ (q + 1) - 1 = q
    <3>1. Len(others) \in Nat /\ map[d] \in 0 .. Len(others) - 1
      BY <2>2 DEF Positions
    <3> QED  BY <2>1, <3>1
  <2>5. doc.operations[q + 1] = [k \in 1 .. Len(others) |-> Followed(others[k], q)]
    BY <1>2, <2>1, <2>4 DEF others
  <2>6. doc.operations[q + 1][map[d] + 1] = Followed(others[map[d] + 1], q)
    BY <2>4, <2>5
  <2>7. others[map[d] + 1] \in Op
    <3> DEFINE O == Op
    <3>1. others \in Seq(O) /\ map[d] + 1 \in 1 .. Len(others)
      BY <2>2, <2>4
    <3> HIDE DEF O
    <3>2. others[map[d] + 1] \in O
      BY <3>1
    <3> QED  BY <3>2 DEF O
  <2>8. Followed(others[map[d] + 1], q).name = others[map[d] + 1].name
    BY <2>7, FollowedGives
  <2>9. Nth(Nth(doc.operations, q), map[d]).name = Nth(others, map[d]).name
    BY <2>6, <2>8 DEF Nth
  <2> QED  BY <2>2, <2>3, <2>9 DEF q, d
<1>12. \A i \in deps : new.inSet[i] = before.inSet[i]
  BY <1>9
<1> HIDE DEF before
<1>13. Dependencies(doc, new) = Dependencies(file, before)
  BY <1>9, <1>11, <1>12 DEF Dependencies
<1> QED  BY <1>6, <1>7, <1>9, <1>13 DEF new
-----------------------------------------------------------------------------
(* Entries of a table that was filtered.                                    *)

\* names are the numbers of P in their order, and map finds each of them.
Renumbers(names, N, P, map) ==
    /\ N \in Nat /\ P \in SUBSET (0 .. N - 1)
    /\ names \in Seq(Nat) /\ Len(names) = Cardinality(P) /\ ToSet(names) = P
    /\ \A k \in 1 .. Len(names) : names[k] = Ascending(P)[k]
    /\ \A j \in P : map[j] \in Positions(names) /\ Nth(names, map[j]) = j

\* A numbered table that is filtered is left with the numbers that pass.
LEMMA KeptNumbers ==
    ASSUME NEW all, Numbered(all), NEW P \in SUBSET (0 .. Len(all) - 1),
           NEW map, \A i \in P : map[i] = Place(P, i)
    PROVE  Renumbers(KeepPositions(all, P), Len(all), P, map)
<1> DEFINE left == KeepPositions(all, P)
           N == Len(all)
<1>1. all \in Seq(Nat) /\ N \in Nat /\ \A i \in 0 .. N - 1 : Nth(all, i) = i
  BY NumberedNames DEF Positions
<1>2. Kept(all, P) = P
  BY DEF Kept, Positions
<1>3. /\ left \in Seq(Nat) /\ Len(left) = Cardinality(P)
      /\ \A k \in 1 .. Len(left) : Ascending(P)[k] \in P /\ left[k] = Nth(all, Ascending(P)[k])
      /\ \A i \in P : Place(P, i) \in Positions(left) /\ Nth(left, Place(P, i)) = Nth(all, i)
      /\ ToSet(left) = {Nth(all, i) : i \in P}
  BY <1>1, <1>2, KeepPositionsKeeps
<1> HIDE DEF left, N
<1>4. \A i \in P : Nth(all, i) = i
  BY <1>1 DEF N
<1>5. ToSet(left) = P
  BY <1>3, <1>4
<1>6. \A k \in 1 .. Len(left) : left[k] = Ascending(P)[k]
  BY <1>3, <1>4
<1>7. \A j \in P : map[j] \in Positions(left) /\ Nth(left, map[j]) = j
  BY <1>3, <1>4
<1>8. P \in SUBSET (0 .. N - 1)
  BY DEF N
<1>9. Renumbers(left, N, P, map)
  BY <1>1, <1>3, <1>5, <1>6, <1>7, <1>8 DEF Renumbers
<1> QED  BY <1>9 DEF left, N

\* The entries of the elements that pass are in their order too.
LEMMA EntriesOfKept ==
    ASSUME NEW names, NEW N, NEW P, NEW map, Renumbers(names, N, P, map),
           NEW S, NEW t \in Seq(S), Len(t) = N
    PROVE  LET left == KeepPositions(t, P)
           IN  /\ left \in Seq(S) /\ Len(left) = Len(names) /\ Len(names) \in Nat
               /\ \A k \in 1 .. Len(names) : names[k] \in P /\ left[k] = Nth(t, names[k])
               /\ \A j \in Positions(names) :
                     Nth(names, j) \in P /\ Nth(left, j) = Nth(t, Nth(names, j))
<1> DEFINE left == KeepPositions(t, P)
<1>1. /\ N \in Nat /\ P \in SUBSET (0 .. N - 1)
      /\ names \in Seq(Nat) /\ Len(names) = Cardinality(P)
      /\ \A k \in 1 .. Len(names) : names[k] = Ascending(P)[k]
  BY DEF Renumbers
<1>2. Kept(t, P) = P
  BY <1>1 DEF Kept, Positions
<1>3. /\ left \in Seq(S) /\ Len(left) = Cardinality(P)
      /\ \A k \in 1 .. Cardinality(P) : Ascending(P)[k] \in P /\ left[k] = Nth(t, Ascending(P)[k])
  BY <1>2, KeepPositionsKeeps
<1>4. Len(names) \in Nat
  BY <1>1
<1> HIDE DEF left
<1>5. \A k \in 1 .. Len(names) : names[k] \in P /\ left[k] = Nth(t, names[k])
  BY <1>1, <1>3
<1>6. ASSUME NEW j \in Positions(names)
      PROVE  Nth(names, j) \in P /\ Nth(left, j) = Nth(t, Nth(names, j))
  <2>1. j + 1 \in 1 .. Len(names)
    BY <1>4 DEF Positions
  <2>2. Nth(names, j) = names[j + 1] /\ Nth(left, j) = left[j + 1]
    BY DEF Nth
  <2> QED  BY <1>5, <2>1, <2>2
<1> QED  BY <1>1, <1>3, <1>4, <1>5, <1>6 DEF left

\* u and v are what s and t have at the positions K.
CutAlike(s, t, K, u, v) ==
    /\ Len(u) = Len(v) /\ Len(u) \in Nat
    /\ \A k \in 1 .. Len(u) : \E i \in K : u[k] = Nth(s, i) /\ v[k] = Nth(t, i)
    /\ \A i \in K : \E k \in 1 .. Len(u) : u[k] = Nth(s, i) /\ v[k] = Nth(t, i)
    /\ K = {} <=> Len(u) = 0

\* Two lists of one length that are cut to the same positions stay in step.
LEMMA KeptTogether ==
    ASSUME NEW S, NEW s \in Seq(S), NEW T, NEW t \in Seq(T), Len(t) = Len(s),
           NEW K \in SUBSET Positions(s)
    PROVE  /\ KeepPositions(s, K) \in Seq(S) /\ KeepPositions(t, K) \in Seq(T)
           /\ CutAlike(s, t, K, KeepPositions(s, K), KeepPositions(t, K))
<1> DEFINE u == KeepPositions(s, K)
           v == KeepPositions(t, K)
           n == Cardinality(K)
<1>1. Kept(s, K) = K /\ Kept(t, K) = K
  BY DEF Kept, Positions
<1>2. /\ u \in Seq(S) /\ Len(u) = n
      /\ \A k \in 1 .. n : Ascending(K)[k] \in K /\ u[k] = Nth(s, Ascending(K)[k])
      /\ \A i \in K : Place(K, i) \in Positions(u) /\ Nth(u, Place(K, i)) = Nth(s, i)
  BY <1>1, KeepPositionsKeeps
<1>3. /\ v \in Seq(T) /\ Len(v) = n
      /\ \A k \in 1 .. n : v[k] = Nth(t, Ascending(K)[k])
      /\ \A i \in K : Place(K, i) \in Positions(v) /\ Nth(v, Place(K, i)) = Nth(t, i)
  BY <1>1, KeepPositionsKeeps
<1> HIDE DEF u, v, n
<1>4. n \in Nat
  BY <1>2
<1>5. \A k \in 1 .. n : \E i \in K : u[k] = Nth(s, i) /\ v[k] = Nth(t, i)
  BY <1>2, <1>3
<1>6. \A i \in K : \E k \in 1 .. n : u[k] = Nth(s, i) /\ v[k] = Nth(t, i)
  <2> TAKE i \in K
  <2>1. Place(K, i) \in 0 .. n - 1
    BY <1>2 DEF Positions
  <2>2. Place(K, i) + 1 \in 1 .. n
    BY <1>4, <2>1
  <2>3. u[Place(K, i) + 1] = Nth(s, i) /\ v[Place(K, i) + 1] = Nth(t, i)
    BY <1>2, <1>3 DEF Nth
  <2> QED  BY <2>2, <2>3
<1>7. K = {} <=> n = 0
  <2>1. n # 0 => 1 \in 1 .. n
    BY <1>4
  <2>2. n # 0 => K # {}
    BY <1>5, <2>1
  <2>3. n = 0 => 1 .. n = {}
    OBVIOUS
  <2>4. n = 0 => K = {}
    BY <1>6, <2>3
  <2> QED  BY <2>2, <2>4
<1>8. CutAlike(s, t, K, u, v)
  BY <1>2, <1>3, <1>4, <1>5, <1>6, <1>7 DEF CutAlike
<1> QED  BY <1>2, <1>3, <1>8 DEF u, v

\* A parent that passes is found where the hierarchy that is left says.
LEMMA ParentsAreFound ==
    ASSUME NEW names, NEW N, NEW P, NEW map, Renumbers(names, N, P, map),
           NEW S, NEW parents \in Seq(S), Len(parents) = N,
           NEW j \in Positions(names), Nth(parents, Nth(names, j)) \in P
    PROVE  Nth(names, Nth(Mapped(KeepPositions(parents, P), map), j)) = Nth(parents, Nth(names, j))
<1> DEFINE left == KeepPositions(parents, P)
           t == Mapped(left, map)
<1>1. /\ left \in Seq(S) /\ Len(left) = Len(names) /\ Len(names) \in Nat
      /\ Nth(left, j) = Nth(parents, Nth(names, j))
  BY EntriesOfKept
<1> HIDE DEF left
<1>2. j + 1 \in 1 .. Len(left)
  BY <1>1 DEF Positions
<1>3. t[j + 1] = map[left[j + 1]]
  BY <1>1, <1>2, MappedElements
<1>4. Nth(t, j) = map[Nth(left, j)]
  BY <1>3 DEF Nth
<1>5. Nth(left, j) \in P
  BY <1>1
<1>6. Nth(names, map[Nth(left, j)]) = Nth(left, j)
  BY <1>5 DEF Renumbers
<1> QED  BY <1>1, <1>4, <1>6 DEF left

\* Elements are known by their numbers.
AreNumbers(all, N) == \A j \in 0 .. N - 1 : Nth(all, j) = j

\* At the positions K, s and w say of the joints of P what o and v say by new numbers.
MoveAlike(names, all, P, s, w, K, o, v) ==
    LET before == {p \in {<<Nth(all, s[i]), w[i]>> : i \in DOMAIN s} : p[1] \in P}
    IN  /\ {<<Nth(names, o[i]), v[i]>> : i \in DOMAIN o} = before
        /\ K # {} <=> before # {}

\* What is moved of the joints that are left, with the weight of each, by its number in the file.
LEMMA MovesAreKept ==
    ASSUME NEW names, NEW N, NEW P, NEW map, Renumbers(names, N, P, map),
           NEW all, AreNumbers(all, N),
           NEW s \in Seq(0 .. N - 1), NEW w \in Seq(Int), Len(w) = Len(s)
    PROVE  LET K == {i \in Positions(s) : Nth(s, i) \in P}
           IN  MoveAlike(names, all, P, s, w, K, Mapped(KeepPositions(s, K), map), KeepPositions(w, K))
<1> DEFINE K == {i \in Positions(s) : Nth(s, i) \in P}
           u == KeepPositions(s, K)
           o == Mapped(u, map)
           v == KeepPositions(w, K)
           L == {<<Nth(names, o[i]), v[i]>> : i \in DOMAIN o}
           before == {p \in {<<Nth(all, s[i]), w[i]>> : i \in DOMAIN s} : p[1] \in P}
           R == 0 .. N - 1
<1>1. N \in Nat /\ \A j \in P : Nth(names, map[j]) = j
  BY DEF Renumbers
<1>2. s \in Seq(R) /\ (\A j \in R : Nth(all, j) = j)
  BY DEF AreNumbers
<1> HIDE DEF R
<1>3. DOMAIN s = 1 .. Len(s) /\ Len(s) \in Nat /\ \A i \in 1 .. Len(s) : s[i] \in R
  BY <1>2
<1>4. /\ \A i \in Positions(s) : i + 1 \in 1 .. Len(s) /\ Nth(s, i) = s[i + 1] /\ Nth(w, i) = w[i + 1]
      /\ \A i \in 1 .. Len(s) : i - 1 \in Positions(s) /\ Nth(s, i - 1) = s[i] /\ Nth(w, i - 1) = w[i]
  BY <1>3 DEF Positions, Nth
<1>5. K \in SUBSET Positions(s) /\ \A i \in Positions(s) : i \in K <=> Nth(s, i) \in P
  OBVIOUS
<1> HIDE DEF K
<1>6. /\ u \in Seq(R) /\ Len(u) \in Nat
      /\ \A k \in 1 .. Len(u) : \E i \in K : u[k] = Nth(s, i) /\ v[k] = Nth(w, i)
      /\ \A i \in K : \E k \in 1 .. Len(u) : u[k] = Nth(s, i) /\ v[k] = Nth(w, i)
      /\ K = {} <=> Len(u) = 0
  <2>1. K \in SUBSET Positions(s)
    BY <1>5
  <2>2. u \in Seq(R) /\ CutAlike(s, w, K, u, v)
    BY <1>2, <2>1, KeptTogether
  <2> HIDE DEF u, v
  <2> QED  BY <2>2 DEF CutAlike
<1> HIDE DEF u, v
<1>7. DOMAIN o = 1 .. Len(u) /\ \A k \in 1 .. Len(u) : o[k] = map[u[k]]
  BY DEF Mapped
<1> HIDE DEF o
<1>8. \A k \in 1 .. Len(u) : \E i \in K : Nth(names, o[k]) = Nth(s, i) /\ v[k] = Nth(w, i)
  <2> TAKE k \in 1 .. Len(u)
  <2>1. PICK i \in K : u[k] = Nth(s, i) /\ v[k] = Nth(w, i)
    BY <1>6
  <2>2. Nth(s, i) \in P
    BY <1>5
  <2> QED  BY <1>1, <1>7, <2>1, <2>2
<1>9. ASSUME NEW p \in L PROVE p \in before
  <2>1. PICK k \in 1 .. Len(u) : p = <<Nth(names, o[k]), v[k]>>
    BY <1>7
  <2>2. PICK i \in K : Nth(names, o[k]) = Nth(s, i) /\ v[k] = Nth(w, i)
    BY <1>8
  <2>3. i \in Positions(s) /\ Nth(s, i) \in P
    BY <1>5
  <2>4. i + 1 \in 1 .. Len(s) /\ s[i + 1] \in P /\ p = <<s[i + 1], w[i + 1]>>
    BY <1>4, <2>1, <2>2, <2>3
  <2>5. Nth(all, s[i + 1]) = s[i + 1]
    BY <1>2, <1>3, <2>4
  <2> QED  BY <1>3, <2>4, <2>5
<1>10. ASSUME NEW p \in before
       PROVE  \E i \in K : p = <<Nth(s, i), Nth(w, i)>>
  <2>1. PICK i \in 1 .. Len(s) : p = <<Nth(all, s[i]), w[i]>> /\ p[1] \in P
    BY <1>3
  <2>2. Nth(all, s[i]) = s[i]
    BY <1>2, <1>3
  <2>3. s[i] \in P
    BY <2>1, <2>2
  <2>4. i - 1 \in Positions(s) /\ Nth(s, i - 1) = s[i] /\ Nth(w, i - 1) = w[i]
    BY <1>4
  <2>5. i - 1 \in K
    BY <1>5, <2>3, <2>4
  <2> QED  BY <2>1, <2>2, <2>4, <2>5
<1>11. ASSUME NEW p \in before PROVE p \in L
  <2>1. PICK i \in K : p = <<Nth(s, i), Nth(w, i)>>
    BY <1>10
  <2>2. PICK k \in 1 .. Len(u) : u[k] = Nth(s, i) /\ v[k] = Nth(w, i)
    BY <1>6
  <2>3. Nth(names, o[k]) = Nth(s, i)
    BY <1>1, <1>5, <1>7, <2>2
  <2> QED  BY <1>7, <2>1, <2>2, <2>3
<1>12. L = before
  <2> HIDE DEF L, before
  <2> QED  BY <1>9, <1>11
<1>13. K # {} => before # {}
  <2> SUFFICES ASSUME K # {}  PROVE L # {}
    BY <1>12
  <2>1. 1 \in 1 .. Len(u)
    BY <1>6
  <2> QED  BY <1>7, <2>1
<1>14. before # {} => K # {}
  <2> HIDE DEF before
  <2> QED  BY <1>10
<1> HIDE DEF L, before
<1>15. L = before /\ (K # {} <=> before # {})
  BY <1>12, <1>13, <1>14
<1>16. MoveAlike(names, all, P, s, w, K, o, v)
  BY <1>15 DEF L, before, MoveAlike
<1> QED  BY <1>16 DEF o, v, u, K

\* The joints that are left are those that pass the filter of the definition.
JointsLeft == Renumbers(dna.jointNames, Len(file.jointNames), archive.joints.passing,
                        archive.joints.remapped)

\* A twist that is filtered moves what it moved of the joints that are left.
LEMMA FilteredTwistMoves ==
    ASSUME JointsLeft, Numbered(file.jointNames),
           NEW twist \in Twists(Positions(file.jointNames)),
           Len(twist.blendWeights) = Len(twist.outputJointIndices)
    PROVE  LET before == {p \in Moves(twist, file.jointNames) : p[1] \in archive.joints.passing}
           IN  /\ Moves(FilteredTwist(twist), dna.jointNames) = before
               /\ KeptOutputs(twist) # {} <=> before # {}
<1> DEFINE names == dna.jointNames
           all == file.jointNames
           N == Len(all)
           P == archive.joints.passing
           map == archive.joints.remapped
           s == twist.outputJointIndices
           w == twist.blendWeights
           K == {i \in Positions(s) : Nth(s, i) \in P}
           o == Mapped(KeepPositions(s, K), map)
           v == KeepPositions(w, K)
           before == {p \in {<<Nth(all, s[i]), w[i]>> : i \in DOMAIN s} : p[1] \in P}
<1>1. Renumbers(names, N, P, map) /\ AreNumbers(all, N)
  BY NumberedNames DEF JointsLeft, Positions, AreNumbers
<1>2. /\ s \in Seq(0 .. N - 1) /\ w \in Seq(Int) /\ Len(w) = Len(s)
      /\ DOMAIN twist = {"outputJointIndices", "blendWeights", "inputIndices"}
  BY DEF Twists, Positions
<1>3. KeptOutputs(twist) = K
  BY DEF KeptOutputs, passes
<1>4. FilteredTwist(twist) = [twist EXCEPT !.outputJointIndices = o, !.blendWeights = v]
  BY <1>3 DEF FilteredTwist
<1>5. {<<Nth(names, o[i]), v[i]>> : i \in DOMAIN o} = before /\ (K # {} <=> before # {})
  <2> HIDE DEF names, all, N, P, map, s, w
  <2>1. MoveAlike(names, all, P, s, w, K, o, v)
    BY <1>1, <1>2, MovesAreKept
  <2> HIDE DEF o, v, K
  <2> QED  BY <2>1 DEF MoveAlike
<1> HIDE DEF o, v, K
<1>6. FilteredTwist(twist).outputJointIndices = o /\ FilteredTwist(twist).blendWeights = v
  BY <1>2, <1>4
<1>7. Moves(FilteredTwist(twist), names) = {<<Nth(names, o[i]), v[i]>> : i \in DOMAIN o}
  BY <1>6 DEF Moves
<1>8. Moves(twist, all) = {<<Nth(all, s[i]), w[i]>> : i \in DOMAIN s}
  BY DEF Moves
<1> QED  BY <1>3, <1>5, <1>7, <1>8

\* The twists that are left, and what they move.
LEMMA FilteredTwistsMove ==
    ASSUME JointsLeft, Numbered(file.jointNames),
           NEW twists, AreTwists(twists, Positions(file.jointNames))
    PROVE  LET left == FilteredTwists(twists)
           IN  [t \in DOMAIN left |-> Moves(left[t], dna.jointNames)] =
               MovesKept(twists, archive.joints.passing)
<1> DEFINE N == Len(twists)
           P == archive.joints.passing
           Now(t) == {p \in Moves(twists[t], file.jointNames) : p[1] \in P}
           moved == [t \in 1 .. N |-> Now(t)]
           M == {i \in Positions(twists) : KeptOutputs(Nth(twists, i)) # {}}
           moving == KeepPositions(twists, M)
           left == FilteredTwists(twists)
           kept == KeepPositions(moved, M)
           A == Twists(Positions(file.jointNames))
           B == {Now(t) : t \in 1 .. N}
<1>0. twists \in Seq(A) /\ N \in Nat /\ DOMAIN twists = 1 .. N
  <2>1. twists \in Seq(A)
    BY DEF AreTwists
  <2> HIDE DEF A
  <2> QED  BY <2>1
<1>1. \A t \in 1 .. N : /\ Moves(FilteredTwist(twists[t]), dna.jointNames) = Now(t)
                        /\ KeptOutputs(twists[t]) # {} <=> Now(t) # {}
  <2> TAKE t \in 1 .. N
  <2>1. twists[t] \in A
    <3> HIDE DEF A
    <3> QED  BY <1>0
  <2>2. Len(twists[t].blendWeights) = Len(twists[t].outputJointIndices)
    BY <1>0 DEF AreTwists
  <2> QED  BY <2>1, <2>2, FilteredTwistMoves
<1> HIDE DEF Now, A
<1>2. DOMAIN moved = 1 .. N /\ \A t \in 1 .. N : moved[t] = Now(t)
  OBVIOUS
<1>3. moved \in Seq(B) /\ Len(moved) = N
  <2>1. \A t \in 1 .. N : Now(t) \in B
    OBVIOUS
  <2> HIDE DEF B
  <2>2. moved \in [1 .. N -> B]
    BY <2>1
  <2> HIDE DEF moved
  <2> QED  BY <1>0, <2>2
<1> HIDE DEF moved, B
<1>4. \A i \in 0 .. N - 1 :
         i + 1 \in 1 .. N /\ Nth(twists, i) = twists[i + 1] /\ Nth(moved, i) = moved[i + 1]
  BY <1>0 DEF Nth
<1>5. M = {t \in Positions(moved) : Nth(moved, t) # {}} /\ M \in SUBSET Positions(twists)
  <2>1. \A i \in 0 .. N - 1 : KeptOutputs(Nth(twists, i)) # {} <=> Nth(moved, i) # {}
    BY <1>1, <1>2, <1>4
  <2> QED  BY <1>3, <2>1 DEF Positions
<1> HIDE DEF M
<1>6. MovesKept(twists, P) = kept
  BY <1>0, <1>5 DEF MovesKept, moved, Now
<1>7. /\ Len(moving) = Len(kept) /\ Len(moving) \in Nat
      /\ \A k \in 1 .. Len(moving) : \E i \in M : moving[k] = Nth(twists, i) /\ kept[k] = Nth(moved, i)
  <2>1. M \in SUBSET Positions(twists)
    BY <1>5
  <2>2. CutAlike(twists, moved, M, moving, kept)
    BY <1>0, <1>3, <2>1, KeptTogether
  <2> HIDE DEF moving, kept
  <2> QED  BY <2>2 DEF CutAlike
<1>8. DOMAIN kept = 1 .. Len(kept)
  <2>1. kept \in Seq(B)
    BY <1>3, KeepPositionsKeeps
  <2> HIDE DEF kept
  <2> QED  BY <2>1
<1>9. left = [k \in 1 .. Len(moving) |-> FilteredTwist(moving[k])]
  BY DEF FilteredTwists, M
<1> HIDE DEF moving, kept, left
<1>10. \A k \in 1 .. Len(moving) : Moves(left[k], dna.jointNames) = kept[k]
  <2> TAKE k \in 1 .. Len(moving)
  <2>1. PICK i \in M : moving[k] = Nth(twists, i) /\ kept[k] = Nth(moved, i)
    BY <1>7
  <2>2. i + 1 \in 1 .. N /\ Nth(twists, i) = twists[i + 1] /\ Nth(moved, i) = Now(i + 1)
    BY <1>2, <1>4, <1>5 DEF Positions
  <2>3. left[k] = FilteredTwist(twists[i + 1])
    BY <1>9, <2>1, <2>2
  <2> QED  BY <1>1, <2>1, <2>2, <2>3
<1>11. DOMAIN left = 1 .. Len(moving)
  BY <1>9
<1>12. kept = [k \in 1 .. Len(moving) |-> kept[k]]
  <2>1. DOMAIN kept = 1 .. Len(moving)
    BY <1>7, <1>8
  <2>2. kept = [k \in DOMAIN kept |-> kept[k]]
    BY <1>8 DEF kept, KeepPositions
  <2> QED  BY <2>1, <2>2
<1>13. [t \in DOMAIN left |-> Moves(left[t], dna.jointNames)] = kept
  BY <1>10, <1>11, <1>12
<1> QED  BY <1>6, <1>13 DEF left

\* A larger factor makes a product larger by the other factor at least.
LEMMA ProductGap ==
    ASSUME NEW p \in Nat, NEW q \in Nat, NEW n \in Nat, p < q
    PROVE  p * n + n <= q * n
<1>1. PICK d \in Nat : q = p + 1 + d
  <2>1. q - p - 1 \in Nat /\ q = p + 1 + (q - p - 1)
    OBVIOUS
  <2> QED  BY <2>1
<1>2. q * n = p * n + n + d * n
  BY <1>1
<1>3. d * n \in Nat /\ p * n \in Nat
  OBVIOUS
<1> QED  BY <1>2, <1>3

\* A number has one quotient and one remainder.
LEMMA DivisionIsUnique ==
    ASSUME NEW n \in Nat, n > 0, NEW p \in Nat, NEW r \in 0 .. n - 1
    PROVE  (p * n + r) \div n = p /\ (p * n + r) % n = r
<1> DEFINE a == p * n + r
           q == a \div n
           s == a % n
<1>1. p * n \in Nat /\ a \in Nat
  OBVIOUS
<1>2. q \in Nat /\ s \in 0 .. n - 1 /\ a = q * n + s
  BY <1>1
<1>3. ~ q < p
  BY <1>2, ProductGap
<1>4. ~ p < q
  BY <1>2, ProductGap
<1>5. q = p
  BY <1>2, <1>3, <1>4
<1>6. s = r
  BY <1>2, <1>5
<1> QED  BY <1>5, <1>6

\* The machine learned outputs of the joints that are left are those they had.
LEMMA FilteredMLJointsPut ==
    ASSUME JointsLeft, Numbered(file.jointNames),
           NEW ml, AreMLJoints(ml, Positions(file.jointNames))
    PROVE  MLOutputs(FilteredMLJoints(ml), dna.jointNames) =
           {o \in MLOutputs(ml, file.jointNames) : o[2] \in archive.joints.passing}
<1> DEFINE names == dna.jointNames
           all == file.jointNames
           N == Len(all)
           P == archive.joints.passing
           map == archive.joints.remapped
           s == ml.outputIndices
           w == ml.inputIndices
           n == ml.attributes
           K == {i \in Positions(s) : Nth(s, i) \div n \in P}
           u == KeepPositions(s, K)
           v == KeepPositions(w, K)
           o == [i \in 1 .. Len(u) |-> RemappedAttribute(u[i], n)]
           new == FilteredMLJoints(ml)
           before == {x \in MLOutputs(ml, all) : x[2] \in P}
<1>1. /\ \A q \in P : map[q] \in Nat /\ Nth(names, map[q]) = q
      /\ \A j \in 0 .. N - 1 : Nth(all, j) = j
  <2>1. \A q \in P : map[q] \in Positions(names) /\ Nth(names, map[q]) = q /\ Len(names) \in Nat
    BY DEF JointsLeft, Renumbers
  <2>2. \A q \in P : map[q] \in Nat
    BY <2>1 DEF Positions
  <2>3. \A j \in 0 .. N - 1 : Nth(all, j) = j
    BY NumberedNames DEF Positions
  <2> QED  BY <2>1, <2>2, <2>3
<1>2. /\ n \in Nat /\ s \in Seq(Nat) /\ w \in Seq(Nat) /\ Len(w) = Len(s)
      /\ n = 0 => s = <<>>
      /\ DOMAIN ml = {"attributes", "inputIndices", "outputIndices"}
      /\ DOMAIN s = 1 .. Len(s) /\ Len(s) \in Nat
      /\ \A i \in 1 .. Len(s) : s[i] \in Nat /\ s[i] \div n \in 0 .. N - 1
  <2>1. /\ n \in Nat /\ s \in Seq(Nat) /\ w \in Seq(Nat) /\ Len(w) = Len(s)
        /\ n = 0 => s = <<>>
        /\ DOMAIN ml = {"attributes", "inputIndices", "outputIndices"}
    BY DEF AreMLJoints
  <2>2. \A i \in DOMAIN s : s[i] \div n \in 0 .. N - 1
    BY DEF AreMLJoints, Positions
  <2> HIDE DEF s, n, N, w
  <2>3. DOMAIN s = 1 .. Len(s) /\ Len(s) \in Nat /\ \A i \in 1 .. Len(s) : s[i] \in Nat
    BY <2>1
  <2> QED  BY <2>1, <2>2, <2>3
<1>3. MLOutputs(ml, all) = {<<w[i], Nth(all, s[i] \div n), s[i] % n>> : i \in 1 .. Len(s)}
  BY <1>2 DEF MLOutputs
<1>4. CASE n = 0
  <2>1. s = <<>> /\ 1 .. Len(s) = {}
    BY <1>2, <1>4
  <2>2. before = {}
    BY <1>3, <2>1
  <2>3. new = ml
    BY <1>4 DEF FilteredMLJoints
  <2>4. MLOutputs(ml, names) = {}
    BY <1>2, <2>1 DEF MLOutputs
  <2> QED  BY <2>2, <2>3, <2>4
<1>5. CASE n # 0
  <2>1. new = [ml EXCEPT !.outputIndices = o, !.inputIndices = v]
    BY <1>5 DEF FilteredMLJoints, passes
  <2> HIDE DEF K
  <2>2. K \in SUBSET Positions(s) /\ \A i \in Positions(s) : i \in K <=> Nth(s, i) \div n \in P
    BY DEF K
  <2>3. u \in Seq(Nat) /\ CutAlike(s, w, K, u, v)
    <3> HIDE DEF s, w
    <3> QED  BY <1>2, <2>2, KeptTogether
  <2> HIDE DEF u, v, s, w, n, N, new
  <2>4. DOMAIN o = 1 .. Len(u) /\ \A k \in 1 .. Len(u) : o[k] = map[u[k] \div n] * n + (u[k] % n)
    BY DEF RemappedAttribute
  <2> HIDE DEF o
  <2>5. new.outputIndices = o /\ new.inputIndices = v /\ new.attributes = n
    BY <1>2, <2>1 DEF n
  <2>6. /\ \A i \in Positions(s) : /\ i + 1 \in 1 .. Len(s)
                                   /\ Nth(s, i) = s[i + 1] /\ Nth(w, i) = w[i + 1]
        /\ \A i \in 1 .. Len(s) : /\ i - 1 \in Positions(s)
                                  /\ Nth(s, i - 1) = s[i] /\ Nth(w, i - 1) = w[i]
    BY <1>2 DEF Positions, Nth
  <2>7. ASSUME NEW k \in 1 .. Len(u), NEW i \in K, u[k] = Nth(s, i), v[k] = Nth(w, i)
        PROVE  <<v[k], Nth(names, o[k] \div n), o[k] % n>> =
               <<w[i + 1], Nth(all, s[i + 1] \div n), s[i + 1] % n>>
    <3> DEFINE a == s[i + 1]
               q == a \div n
               r == a % n
    <3>1. i \in Positions(s) /\ q \in P /\ a \in Nat /\ u[k] = a /\ v[k] = w[i + 1]
      BY <1>2, <2>2, <2>6, <2>7
    <3>2. q \in 0 .. N - 1
      BY <1>2, <2>6, <3>1
    <3>3. r \in 0 .. n - 1
      <4> HIDE DEF a
      <4> QED  BY <1>2, <1>5, <3>1
    <3> HIDE DEF a, q, r
    <3>4. o[k] = map[q] * n + r
      BY <2>4, <3>1 DEF q, r
    <3>5. map[q] \in Nat /\ Nth(names, map[q]) = q /\ Nth(all, q) = q
      BY <1>1, <3>1, <3>2
    <3>6. o[k] \div n = map[q] /\ o[k] % n = r
      <4> DEFINE p == map[q]
      <4>1. p \in Nat /\ n \in Nat /\ n > 0
        BY <1>2, <1>5, <3>5
      <4> HIDE DEF p
      <4>2. (p * n + r) \div n = p /\ (p * n + r) % n = r
        BY <3>3, <4>1, DivisionIsUnique
      <4> QED  BY <3>4, <4>2 DEF p
    <3> QED  BY <3>1, <3>5, <3>6 DEF a, q, r
  <2>8. MLOutputs(new, names) = {<<v[k], Nth(names, o[k] \div n), o[k] % n>> : k \in 1 .. Len(u)}
    BY <2>4, <2>5 DEF MLOutputs
  <2> DEFINE Now(k) == <<v[k], Nth(names, o[k] \div n), o[k] % n>>
             Was(i) == <<w[i], Nth(all, s[i] \div n), s[i] % n>>
  <2>9. \A i \in 1 .. Len(s) : Was(i)[2] = s[i] \div n
    BY <1>1, <1>2
  <2>10. \A k \in 1 .. Len(u), i \in K : u[k] = Nth(s, i) /\ v[k] = Nth(w, i) => Now(k) = Was(i + 1)
    BY <2>7
  <2>11. /\ MLOutputs(new, names) = {Now(k) : k \in 1 .. Len(u)}
         /\ MLOutputs(ml, all) = {Was(i) : i \in 1 .. Len(s)}
    BY <1>3, <2>8
  <2> HIDE DEF Now, Was
  <2>12. ASSUME NEW x \in MLOutputs(new, names)  PROVE x \in before
    <3>1. PICK k \in 1 .. Len(u) : x = Now(k)
      BY <2>11
    <3>2. PICK i \in K : u[k] = Nth(s, i) /\ v[k] = Nth(w, i)
      BY <2>3 DEF CutAlike
    <3>3. x = Was(i + 1)
      BY <2>10, <3>1, <3>2
    <3>4. i + 1 \in 1 .. Len(s) /\ s[i + 1] \div n \in P
      BY <2>2, <2>6
    <3> QED  BY <2>9, <2>11, <3>3, <3>4
  <2>13. ASSUME NEW x \in before  PROVE x \in MLOutputs(new, names)
    <3>1. PICK j \in 1 .. Len(s) : x = Was(j) /\ x[2] \in P
      BY <2>11
    <3>2. s[j] \div n \in P
      BY <2>9, <3>1
    <3>3. j - 1 \in K /\ (j - 1) + 1 = j
      BY <1>2, <2>2, <2>6, <3>2
    <3>4. PICK k \in 1 .. Len(u) : u[k] = Nth(s, j - 1) /\ v[k] = Nth(w, j - 1)
      BY <2>3, <3>3 DEF CutAlike
    <3>5. Now(k) = Was(j)
      BY <2>10, <3>3, <3>4
    <3> QED  BY <2>11, <3>1, <3>5
  <2> HIDE DEF before
  <2>14. MLOutputs(new, names) = before
    BY <2>12, <2>13
  <2> QED  BY <2>14 DEF new, before
<1> QED  BY <1>4, <1>5

\* The pairs of one side that passes, with that side rewritten.
LEMMA PairsOfGives ==
    ASSUME NEW A, NEW B, NEW pairs \in Seq(A \X B), NEW side \in {1, 2}, NEW filter
    PROVE  LET new(p) == [p EXCEPT ![side] = filter.remapped[@]]
               left == PairsOf(pairs, side, filter)
           IN  /\ ToSet(left) = {new(p) : p \in {p \in ToSet(pairs) : p[side] \in filter.passing}}
               /\ \A T : (\A p \in ToSet(pairs) : p[side] \in filter.passing => new(p) \in T) =>
                         left \in Seq(T)
<1> DEFINE new(p) == [p EXCEPT ![side] = filter.remapped[@]]
           left == PairsOf(pairs, side, filter)
           S == A \X B
           K == {i \in Positions(pairs) : Nth(pairs, i)[side] \in filter.passing}
           kept == KeepPositions(pairs, K)
<1>1. left = [k \in 1 .. Len(kept) |-> new(kept[k])]
  BY DEF PairsOf
<1>2. pairs \in Seq(S)
  OBVIOUS
<1> HIDE DEF S
<1>3. Kept(pairs, K) = K
  BY DEF Kept
<1>4. kept \in Seq(S) /\ ToSet(kept) = {Nth(pairs, i) : i \in K}
  BY <1>2, <1>3, KeepPositionsKeeps
<1>5. DOMAIN pairs = 1 .. Len(pairs) /\ Len(pairs) \in Nat
  BY <1>2
<1>6. ToSet(kept) = {p \in ToSet(pairs) : p[side] \in filter.passing}
  <2>1. ASSUME NEW i \in K
        PROVE  Nth(pairs, i) \in ToSet(pairs) /\ Nth(pairs, i)[side] \in filter.passing
    <3>1. i + 1 \in 1 .. Len(pairs)
      BY <1>5 DEF Positions
    <3> QED  BY <1>5, <3>1 DEF Nth, ToSet
  <2>2. ASSUME NEW p \in ToSet(pairs), p[side] \in filter.passing
        PROVE  \E i \in K : p = Nth(pairs, i)
    <3>1. PICK k \in 1 .. Len(pairs) : p = pairs[k]
      BY <1>5 DEF ToSet
    <3>2. k - 1 \in Positions(pairs) /\ Nth(pairs, k - 1) = p
      BY <1>5, <3>1 DEF Positions, Nth
    <3> QED  BY <2>2, <3>2
  <2> HIDE DEF K, kept
  <2> QED  BY <1>4, <2>1, <2>2
<1> HIDE DEF kept, K, new, left
<1>7. DOMAIN kept = 1 .. Len(kept) /\ Len(kept) \in Nat
  BY <1>4
<1>8. DOMAIN left = 1 .. Len(kept) /\ \A k \in 1 .. Len(kept) : left[k] = new(kept[k])
  BY <1>1
<1>9. ToSet(left) = {new(p) : p \in ToSet(kept)}
  BY <1>7, <1>8 DEF ToSet
<1>10. ASSUME NEW T, \A p \in ToSet(pairs) : p[side] \in filter.passing => new(p) \in T
       PROVE  left \in Seq(T)
  <2>1. \A k \in 1 .. Len(kept) : kept[k] \in ToSet(kept)
    BY <1>7 DEF ToSet
  <2>2. \A k \in 1 .. Len(kept) : new(kept[k]) \in T
    BY <1>6, <1>10, <2>1
  <2>3. left \in [1 .. Len(kept) -> T]
    BY <1>1, <2>2
  <2> QED  BY <1>7, <2>3
<1> QED  BY <1>6, <1>9, <1>10 DEF new, left

\* Named by those names, pairs are those of before of which that side is in P.
OnlyPairs(pairs, meshNames, channelNames, T, before, side, P) ==
    /\ pairs \in Seq(T)
    /\ PairsNamed(pairs, meshNames, channelNames) = {x \in before : x[side] \in P}

\* Meshes that are left are paired with the channels they are paired with in the file.
LEMMA PairsOfMeshes ==
    ASSUME NEW all, NEW names, NEW N, NEW P, NEW map, AreNumbers(all, N), Renumbers(names, N, P, map),
           NEW B, NEW pairs \in Seq((0 .. N - 1) \X B), NEW channelNames,
           NEW filter, filter.passing = P, filter.remapped = map
    PROVE  OnlyPairs(PairsOf(pairs, 1, filter), names, channelNames, Positions(names) \X B,
                     PairsNamed(pairs, all, channelNames), 1, P)
<1> DEFINE R == 0 .. N - 1
           left == PairsOf(pairs, 1, filter)
           new(p) == <<map[p[1]], p[2]>>
           Name(p) == <<Nth(names, p[1]), Nth(channelNames, p[2])>>
           Was(p) == <<Nth(all, p[1]), Nth(channelNames, p[2])>>
<1>1. pairs \in Seq(R \X B) /\ (\A j \in R : Nth(all, j) = j)
  BY DEF AreNumbers
<1>2. \A j \in P : map[j] \in Positions(names) /\ Nth(names, map[j]) = j
  BY DEF Renumbers
<1> HIDE DEF R
<1>3. \A p \in ToSet(pairs) : p \in R \X B
  <2> DEFINE S == R \X B
  <2>1. pairs \in Seq(S)
    BY <1>1
  <2> HIDE DEF S
  <2>2. \A p \in ToSet(pairs) : p \in S
    BY <2>1 DEF ToSet
  <2> QED  BY <2>2 DEF S
<1>4. \A p \in ToSet(pairs) : [p EXCEPT ![1] = filter.remapped[@]] = new(p)
  BY <1>3
<1>5. /\ ToSet(left) = {[p EXCEPT ![1] = filter.remapped[@]] :
                           p \in {p \in ToSet(pairs) : p[1] \in filter.passing}}
      /\ \A T : (\A p \in ToSet(pairs) : p[1] \in filter.passing =>
                     [p EXCEPT ![1] = filter.remapped[@]] \in T) => left \in Seq(T)
  BY <1>1, PairsOfGives
<1>6. left \in Seq(Positions(names) \X B)
  <2> DEFINE T == Positions(names) \X B
  <2>1. \A p \in ToSet(pairs) : p[1] \in filter.passing => new(p) \in T
    BY <1>2, <1>3
  <2>2. \A p \in ToSet(pairs) : p[1] \in filter.passing =>
            [p EXCEPT ![1] = filter.remapped[@]] \in T
    BY <1>4, <2>1
  <2> HIDE DEF T, left
  <2>3. left \in Seq(T)
    BY <1>5, <2>2
  <2> QED  BY <2>3 DEF T
<1>7. ToSet(left) = {new(p) : p \in {p \in ToSet(pairs) : p[1] \in P}}
  <2> HIDE DEF left, new
  <2> QED  BY <1>4, <1>5
<1>8. \A p \in ToSet(pairs) : p[1] \in P => Name(new(p)) = Was(p)
  BY <1>1, <1>2, <1>3
<1>9. \A p \in ToSet(pairs) : Was(p)[1] = p[1]
  BY <1>1, <1>3
<1>10. /\ PairsNamed(left, names, channelNames) = {Name(p) : p \in ToSet(left)}
       /\ PairsNamed(pairs, all, channelNames) = {Was(p) : p \in ToSet(pairs)}
  BY DEF PairsNamed
<1> HIDE DEF left, new, Name, Was
<1>11. PairsNamed(left, names, channelNames) =
          {x \in PairsNamed(pairs, all, channelNames) : x[1] \in P}
  BY <1>7, <1>8, <1>9, <1>10
<1> QED  BY <1>6, <1>11 DEF left, OnlyPairs

\* Channels that are left are paired with the meshes they were paired with.
LEMMA PairsOfChannels ==
    ASSUME NEW all, NEW names, NEW N, NEW P, NEW map, AreNumbers(all, N), Renumbers(names, N, P, map),
           NEW A, NEW pairs \in Seq(A \X (0 .. N - 1)), NEW meshNames,
           NEW filter, filter.passing = P, filter.remapped = map
    PROVE  OnlyPairs(PairsOf(pairs, 2, filter), meshNames, names, A \X Positions(names),
                     PairsNamed(pairs, meshNames, all), 2, P)
<1> DEFINE R == 0 .. N - 1
           left == PairsOf(pairs, 2, filter)
           new(p) == <<p[1], map[p[2]]>>
           Name(p) == <<Nth(meshNames, p[1]), Nth(names, p[2])>>
           Was(p) == <<Nth(meshNames, p[1]), Nth(all, p[2])>>
<1>1. pairs \in Seq(A \X R) /\ (\A j \in R : Nth(all, j) = j)
  BY DEF AreNumbers
<1>2. \A j \in P : map[j] \in Positions(names) /\ Nth(names, map[j]) = j
  BY DEF Renumbers
<1> HIDE DEF R
<1>3. \A p \in ToSet(pairs) : p \in A \X R
  <2> DEFINE S == A \X R
  <2>1. pairs \in Seq(S)
    BY <1>1
  <2> HIDE DEF S
  <2>2. \A p \in ToSet(pairs) : p \in S
    BY <2>1 DEF ToSet
  <2> QED  BY <2>2 DEF S
<1>4. \A p \in ToSet(pairs) : [p EXCEPT ![2] = filter.remapped[@]] = new(p)
  BY <1>3
<1>5. /\ ToSet(left) = {[p EXCEPT ![2] = filter.remapped[@]] :
                           p \in {p \in ToSet(pairs) : p[2] \in filter.passing}}
      /\ \A T : (\A p \in ToSet(pairs) : p[2] \in filter.passing =>
                     [p EXCEPT ![2] = filter.remapped[@]] \in T) => left \in Seq(T)
  BY <1>1, PairsOfGives
<1>6. left \in Seq(A \X Positions(names))
  <2> DEFINE T == A \X Positions(names)
  <2>1. \A p \in ToSet(pairs) : p[2] \in filter.passing => new(p) \in T
    BY <1>2, <1>3
  <2>2. \A p \in ToSet(pairs) : p[2] \in filter.passing =>
            [p EXCEPT ![2] = filter.remapped[@]] \in T
    BY <1>4, <2>1
  <2> HIDE DEF T, left
  <2>3. left \in Seq(T)
    BY <1>5, <2>2
  <2> QED  BY <2>3 DEF T
<1>7. ToSet(left) = {new(p) : p \in {p \in ToSet(pairs) : p[2] \in P}}
  <2> HIDE DEF left, new
  <2> QED  BY <1>4, <1>5
<1>8. \A p \in ToSet(pairs) : p[2] \in P => Name(new(p)) = Was(p)
  BY <1>1, <1>2, <1>3
<1>9. \A p \in ToSet(pairs) : Was(p)[2] = p[2]
  BY <1>1, <1>3
<1>10. /\ PairsNamed(left, meshNames, names) = {Name(p) : p \in ToSet(left)}
       /\ PairsNamed(pairs, meshNames, all) = {Was(p) : p \in ToSet(pairs)}
  BY DEF PairsNamed
<1> HIDE DEF left, new, Name, Was
<1>11. PairsNamed(left, meshNames, names) =
          {x \in PairsNamed(pairs, meshNames, all) : x[2] \in P}
  BY <1>7, <1>8, <1>9, <1>10
<1> QED  BY <1>6, <1>11 DEF left, OnlyPairs

\* The numbers are those of the elements that are wanted.
NamesLeft(numbers, names, wanted) ==
    /\ numbers \in Seq(Positions(names)) /\ ToSet(numbers) \subseteq Positions(names)
    /\ {Nth(names, x) : x \in ToSet(numbers)} = wanted

\* A list of elements that is cut to those that pass and renumbered names those.
LEMMA NamesOfKept ==
    ASSUME NEW names, NEW N, NEW P, NEW map, Renumbers(names, N, P, map),
           NEW S, NEW s \in Seq(S)
    PROVE  NamesLeft(Mapped(Among(s, P), map), names, ToSet(s) \cap P)
<1> DEFINE kept == Among(s, P)
           left == Mapped(kept, map)
<1>1. \A j \in P : map[j] \in Positions(names) /\ Nth(names, map[j]) = j
  BY DEF Renumbers
<1>2. kept \in Seq(S) /\ ToSet(kept) = ToSet(s) \cap P
  BY AmongKeeps
<1> HIDE DEF kept
<1>3. ToSet(left) = {map[x] : x \in ToSet(kept)}
  BY <1>2, MappedElements
<1>4. left \in Seq(Positions(names))
  <2>1. \A x \in ToSet(kept) : map[x] \in Positions(names)
    BY <1>1, <1>2
  <2> QED  BY <1>2, <2>1, MappedElements
<1> HIDE DEF left
<1>5. ToSet(left) \subseteq Positions(names)
  BY <1>1, <1>2, <1>3
<1>6. {Nth(names, x) : x \in ToSet(left)} = ToSet(s) \cap P
  BY <1>1, <1>2, <1>3
<1> QED  BY <1>4, <1>5, <1>6 DEF left, kept, NamesLeft
-----------------------------------------------------------------------------
(* The second invariant.                                                    *)

\* A step loads one layer, and leaves alone what the layers before it brought along.
LEMMA WhatStepsKeep ==
    ASSUME FilterInv, FilterInv', Next
    PROVE  /\ step \in 1 .. 11 /\ step' = step + 1 /\ UNCHANGED <<file, config>>
           /\ step # 1 => archive'.lods = archive.lods /\ Filters' = Filters
           /\ step > 2 => archive'.joints = archive.joints /\ archive'.meshes = archive.meshes
           /\ step \in 3 .. 10 => archive'.channels = archive.channels
           /\ step # 2 => /\ dna'.meshNames = dna.meshNames /\ dna'.jointNames = dna.jointNames
                          /\ dna'.jointHierarchy = dna.jointHierarchy
           /\ step \notin {2, 11} =>
                 /\ dna'.blendShapeChannelNames = dna.blendShapeChannelNames
                 /\ dna'.meshBlendShapeChannelMapping = dna.meshBlendShapeChannelMapping
           /\ step \notin {4, 11} => dna'.meshes = dna.meshes
           /\ step # 5 => dna'.neuralNetworks = dna.neuralNetworks /\ dna'.regions = dna.regions
           /\ step # 8 => dna'.jointRepresentations = dna.jointRepresentations
           /\ step # 9 => dna'.twists = dna.twists /\ dna'.swings = dna.swings
           /\ step # 10 => dna'.operations = dna.operations /\ dna'.mlbJoints = dna.mlbJoints
<1>1. /\ step \in 1 .. 12 /\ step' \in 1 .. 12 /\ UNCHANGED <<file, config>>
      /\ DOMAIN dna = Fields
      /\ DOMAIN archive = {"lods", "unconstrainedLODCount", "meshes", "joints", "channels",
                           "rootJointIndex", "loadedControls"}
  BY DEF FilterInv, LODsInv, Next
<1>2. Filters' = Filters
      <=> HasImpactOn(archive'.lods, archive'.unconstrainedLODCount) =
          HasImpactOn(archive.lods, archive.unconstrainedLODCount)
  BY DEF Filters
<1>3. CASE LoadDescriptor
  <2>1. step = 1 /\ step' = 2
    BY <1>3, StepOf DEF LoadDescriptor, Proceed
  <2>2. \A f \in Fields \ {"maxLOD", "lodCount"} : dna'[f] = dna[f]
    BY <1>1, <1>3 DEF LoadDescriptor
  <2> QED  BY <1>1, <2>1, <2>2, FieldsAre
<1>4. CASE LoadDefinition
  <2>1. step = 2 /\ step' = 3
    BY <1>4, StepOf DEF LoadDefinition, Proceed
  <2>2. /\ \A f \in Fields \ definitionFields : dna'[f] = dna[f]
        /\ archive'.lods = archive.lods
        /\ archive'.unconstrainedLODCount = archive.unconstrainedLODCount
    <3>1. CASE Loads("defn") /\ Filters
      <4>1. FilterDefinition(Read(definitionFields))
        BY <1>4, <3>1 DEF LoadDefinition
      <4> QED  BY <1>1, <4>1, DefinitionIsFiltered
    <3>2. CASE Loads("defn") /\ ~Filters
      <4>1. /\ dna' = Read(definitionFields)
            /\ archive' = [archive EXCEPT !.loadedControls = [i \in 1 .. file.rawControlCount |-> TRUE]]
        BY <1>4, <3>2 DEF LoadDefinition
      <4> QED  BY <1>1, <4>1 DEF Read
    <3>3. CASE ~Loads("defn")
      BY <1>4, <3>3 DEF LoadDefinition
    <3> QED  BY <3>1, <3>2, <3>3
  <2> QED  BY <1>1, <1>2, <2>1, <2>2, FieldsAre DEF definitionFields
<1>5. CASE LoadBehavior
  <2>1. step = 3
    BY <1>5, StepOf DEF LoadBehavior
  <2>2. step' # 0
    BY <1>1
  <2>3. /\ step' = 4
        /\ \A f \in Fields \ behaviorFields : dna'[f] = dna[f]
        /\ \A f \in DOMAIN archive \ {"loadedControls"} : archive'[f] = archive[f]
    <3>1. CASE ~Loads("bhvr")
      BY <1>5, <2>1, <3>1 DEF LoadBehavior, Proceed
    <3>2. CASE Loads("bhvr")
      <4>1. /\ Proceed
            /\ archive' = ControlsAppended(file.psdCount, TRUE)
            /\ dna' = IF ~ Filters THEN Read(behaviorFields)
                      ELSE [Read({"psdCount"}) EXCEPT
                               !.jointGroups = [g \in 1 .. Len(file.jointGroups) |->
                                                   FilteredGroup(file.jointGroups[g])],
                               !.blendShapeChannels = FilteredRows(file.blendShapeChannels),
                               !.animatedMaps = FilteredRows(file.animatedMaps)]
        BY <1>5, <2>2, <3>2 DEF LoadBehavior, Throw
      <4>2. \A f \in Fields \ behaviorFields : dna'[f] = dna[f]
        BY <1>1, <4>1, FieldsAre DEF Read, behaviorFields
      <4>3. \A f \in DOMAIN archive \ {"loadedControls"} : archive'[f] = archive[f]
        BY <1>1, <4>1 DEF ControlsAppended
      <4>4. step' = 4
        <5>1. Proceed
          BY <4>1
        <5> QED  BY <2>1, <5>1 DEF Proceed
      <4> QED  BY <4>2, <4>3, <4>4
    <3> QED  BY <3>1, <3>2
  <2> QED  BY <1>1, <1>2, <2>1, <2>3, FieldsAre DEF behaviorFields
<1>6. CASE LoadGeometry
  <2>1. step = 4 /\ step' = 5 /\ archive' = archive
    BY <1>6, StepOf DEF LoadGeometry, Proceed
  <2>2. \A f \in Fields \ {"meshes"} : dna'[f] = dna[f]
    BY <1>1, <1>6 DEF LoadGeometry
  <2> QED  BY <1>1, <1>2, <2>1, <2>2, FieldsAre
<1>7. CASE LoadNetworks
  <2>1. step = 5 /\ step' = 6
    BY <1>7, StepOf DEF LoadNetworks, Proceed
  <2>2. \A f \in Fields \ networkFields : dna'[f] = dna[f]
    BY <1>1, <1>7, FieldsAre DEF LoadNetworks, Read, networkFields
  <2>3. \A f \in DOMAIN archive \ {"loadedControls"} : archive'[f] = archive[f]
    BY <1>1, <1>7 DEF LoadNetworks, ControlsAppended
  <2> QED  BY <1>1, <1>2, <2>1, <2>2, <2>3, FieldsAre DEF networkFields
<1>8. CASE LoadSolvers
  <2>1. step = 6 /\ step' = 7 /\ archive' = archive
    BY <1>8, StepOf DEF LoadSolvers, Proceed
  <2>2. \A f \in Fields \ {"solvers", "lodSolverMapping"} : dna'[f] = dna[f]
    BY <1>1, <1>8, FieldsAre DEF LoadSolvers, Read
  <2> QED  BY <1>1, <1>2, <2>1, <2>2, FieldsAre
<1>9. CASE LoadPoses
  <2>1. step = 7 /\ step' = 8
    BY <1>9, StepOf DEF LoadPoses, Proceed
  <2>2. \A f \in Fields \ {"poseControlCount"} : dna'[f] = dna[f]
    BY <1>1, <1>9, FieldsAre DEF LoadPoses, Read
  <2>3. \A f \in DOMAIN archive \ {"loadedControls"} : archive'[f] = archive[f]
    BY <1>1, <1>9 DEF LoadPoses, ControlsAppended
  <2> QED  BY <1>1, <1>2, <2>1, <2>2, <2>3, FieldsAre
<1>10. CASE LoadJointRepresentations
  <2>1. step = 8 /\ step' = 9 /\ archive' = archive
    BY <1>10, StepOf DEF LoadJointRepresentations, Proceed
  <2>2. \A f \in Fields \ {"jointRepresentations"} : dna'[f] = dna[f]
    BY <1>1, <1>10, FieldsAre DEF LoadJointRepresentations, Read
  <2> QED  BY <1>1, <1>2, <2>1, <2>2, FieldsAre
<1>11. CASE LoadTwistsAndSwings
  <2>1. step = 9 /\ step' = 10 /\ archive' = archive
    BY <1>11, StepOf DEF LoadTwistsAndSwings, Proceed
  <2>2. \A f \in Fields \ {"twists", "swings"} : dna'[f] = dna[f]
    BY <1>1, <1>11, FieldsAre DEF LoadTwistsAndSwings, Read
  <2> QED  BY <1>1, <1>2, <2>1, <2>2, FieldsAre
<1>12. CASE LoadOperations
  <2>1. step = 10 /\ step' = 11 /\ archive' = archive
    BY <1>12, StepOf DEF LoadOperations, Proceed
  <2>2. \A f \in Fields \ {"operations", "lodMLOperationMappings", "mlbJoints"} : dna'[f] = dna[f]
    BY <1>1, <1>12, FieldsAre DEF LoadOperations, Read
  <2> QED  BY <1>1, <1>2, <2>1, <2>2, FieldsAre
<1>13. CASE PostFilter
  <2>1. step = 11
    BY <1>13, StepOf DEF PostFilter
  <2>2. step' # 0
    BY <1>1
  <2>3. /\ step' = 12
        /\ \A f \in Fields \ {"lodBlendShapeMapping", "blendShapeChannelNames",
                              "meshBlendShapeChannelMapping", "blendShapeChannels",
                              "meshes"} : dna'[f] = dna[f]
        /\ \A f \in DOMAIN archive \ {"channels"} : archive'[f] = archive[f]
    <3>1. CASE RemoveUnreferencedBlendShapes
      BY <1>1, <2>1, <2>2, <3>1, RemovalGives DEF Throw
    <3>2. CASE Proceed /\ UNCHANGED <<archive, dna>>
      BY <2>1, <3>2 DEF Proceed
    <3> QED  BY <1>13, <3>1, <3>2 DEF PostFilter
  <2> QED  BY <1>1, <1>2, <2>1, <2>3, FieldsAre
<1> QED  BY <1>3, <1>4, <1>5, <1>6, <1>7, <1>8, <1>9, <1>10, <1>11, <1>12, <1>13 DEF Next

\* What the layers of a file say of each other.
DependentsInv == JointsAgree(file) /\ MeshesAgree(file) /\ OperationsAgree(file)

DependenciesInv ==
    step > 10 /\ Loads("mlbh") => \A s \in DOMAIN dna.operations : DependenciesAreKept(dna, s)

\* Each layer has its step.
LEMMA WhatIsLoaded ==
    ASSUME Next
    PROVE  /\ step = 2 => LoadDefinition
           /\ step = 4 => LoadGeometry
           /\ step = 5 => LoadNetworks
           /\ step = 8 => LoadJointRepresentations
           /\ step = 9 => LoadTwistsAndSwings
           /\ step = 10 => LoadOperations
           /\ step = 11 => PostFilter
<1>1. (LoadDescriptor => step = 1) /\ (LoadDefinition => step = 2) /\ (LoadBehavior => step = 3)
  BY StepOf DEF LoadDescriptor, LoadDefinition, LoadBehavior
<1>2. (LoadGeometry => step = 4) /\ (LoadNetworks => step = 5) /\ (LoadSolvers => step = 6)
  BY StepOf DEF LoadGeometry, LoadNetworks, LoadSolvers
<1>3. (LoadPoses => step = 7) /\ (LoadJointRepresentations => step = 8)
      /\ (LoadTwistsAndSwings => step = 9)
  BY StepOf DEF LoadPoses, LoadJointRepresentations, LoadTwistsAndSwings
<1>4. (LoadOperations => step = 10) /\ (PostFilter => step = 11)
  BY StepOf DEF LoadOperations, PostFilter
<1> QED  BY <1>1, <1>2, <1>3, <1>4 DEF Next

\* Operations are loaded with their dependencies.
LEMMA DependenciesKeep ==
    ASSUME FilterInv, FilterInv', DependentsInv, DependenciesInv, Next
    PROVE  DependenciesInv'
<1>1. /\ step \in 1 .. 11 /\ step' = step + 1 /\ UNCHANGED <<file, config>>
      /\ step # 10 => dna'.operations = dna.operations
  BY WhatStepsKeep
<1>2. Loads("mlbh")' = Loads("mlbh")
  BY <1>1 DEF Loads
<1>3. CASE step < 10
  BY <1>1, <1>3 DEF DependenciesInv
<1>4. CASE step > 10
  <2>1. dna'.operations = dna.operations /\ step' > 10
    BY <1>1, <1>4
  <2>2. \A op : Dependencies(dna, op)' = Dependencies(dna, op)
    BY <2>1 DEF Dependencies
  <2>3. \A op : Dependencies(file, op)' = Dependencies(file, op)
    BY <1>1 DEF Dependencies
  <2>4. ASSUME NEW s \in DOMAIN dna.operations, NEW o \in DOMAIN dna.operations[s], Loads("mlbh")
        PROVE  \E before \in ToSet(file'.operations[s]) :
                   /\ before.name = dna'.operations[s][o].name
                   /\ Dependencies(dna, dna.operations[s][o])' = Dependencies(file, before)'
    <3>1. \E before \in ToSet(file.operations[s]) :
              /\ before.name = dna.operations[s][o].name
              /\ Dependencies(dna, dna.operations[s][o]) = Dependencies(file, before)
      BY <1>4, <2>4 DEF DependenciesInv, DependenciesAreKept
    <3> QED  BY <1>1, <2>1, <2>2, <2>3, <3>1
  <2> QED  BY <1>2, <2>1, <2>4 DEF DependenciesInv, DependenciesAreKept
<1>5. CASE step = 10
  <2>1. LoadOperations /\ archive' = archive /\ file' = file /\ DOMAIN dna = Fields
    <3>1. DOMAIN dna = Fields
      BY <1>5, LaterStep
    <3>2. LoadOperations
      BY <1>5, WhatIsLoaded
    <3> QED  BY <1>1, <3>1, <3>2 DEF LoadOperations
  <2>2. /\ Consistent(file) /\ IsConstraint(archive.lods, file.lodCount) /\ file.lodCount \in Nat
    BY <1>5, LaterStep
  <2>3. OperationSets
    BY <2>2 DEF Consistent, OperationSets, Op
  <2>4. SUFFICES ASSUME Loads("mlbh"), NEW s \in DOMAIN dna'.operations
                 PROVE  DependenciesAreKept(dna', s)
    <3>1. \A op : Dependencies(dna, op)' = Dependencies(dna', op)
      BY DEF Dependencies
    <3>2. \A op : Dependencies(file, op)' = Dependencies(file, op)
      BY <2>1 DEF Dependencies
    <3>3. \A s \in DOMAIN dna'.operations : DependenciesAreKept(dna, s)' <=> DependenciesAreKept(dna', s)
      BY <2>1, <3>1, <3>2 DEF DependenciesAreKept
    <3> QED  BY <1>2, <3>3 DEF DependenciesInv
  <2>5. CASE Filters
    <3>1. dna'.operations = [t \in 1 .. Len(file.operations) |-> FilteredOperations(t - 1)]
      BY <2>1, <2>4, <2>5, FieldsAre DEF LoadOperations, Read
    <3>2. DOMAIN file.operations = 1 .. Len(file.operations)
      BY <2>3 DEF OperationSets
    <3>3. s \in DOMAIN file.operations
      BY <2>4, <3>1, <3>2
    <3> DEFINE doc == dna'
    <3>4. OperationsAgree(file)
      BY DEF DependentsInv
    <3> HIDE DEF doc
    <3>5. OperationsLeft(doc)
      BY <3>1 DEF doc, OperationsLeft
    <3>6. DependenciesAreKept(doc, s)
      BY <2>3, <3>3, <3>4, <3>5, KeptDependencies
    <3> QED  BY <3>6 DEF doc
  <2>6. CASE ~Filters
    <3>1. dna'.operations = file.operations
      BY <2>1, <2>4, <2>6, FieldsAre DEF LoadOperations, Read
    <3>2. ASSUME NEW o \in DOMAIN dna'.operations[s]
          PROVE  dna'.operations[s][o] \in ToSet(file.operations[s])
      <4>1. file.operations[s] \in Seq(Op)
        <5>1. file.operations \in Seq(Seq(Op)) /\ s \in DOMAIN file.operations
          BY <2>3, <2>4, <3>1 DEF OperationSets
        <5> QED  BY <5>1
      <4> DEFINE ops == file.operations[s]
      <4>2. DOMAIN ops = 1 .. Len(ops) /\ o \in DOMAIN ops
        BY <3>1, <4>1
      <4> QED  BY <3>1, <4>2 DEF ToSet
    <3>3. \A op : Dependencies(dna', op) = Dependencies(file, op)
      BY <3>1 DEF Dependencies
    <3> QED  BY <3>2, <3>3 DEF DependenciesAreKept
  <2> QED  BY <2>5, <2>6
<1> QED  BY <1>1, <1>3, <1>4, <1>5
-----------------------------------------------------------------------------
(* Joints, and what layers say of them.                                     *)

\* Without a filter all joints are kept.
AllJoints == dna.jointNames = file.jointNames

\* A parent that is kept is found by the hierarchy.
ParentsAreKept ==
    \A j \in Positions(dna.jointNames) :
        LET parent == Nth(file.jointHierarchy, Nth(dna.jointNames, j))
        IN  parent \in ToSet(dna.jointNames) =>
            Nth(dna.jointNames, Nth(dna.jointHierarchy, j)) = parent

JointsInv ==
    step > 2 /\ Loads("defn") =>
    /\ IF Filters THEN JointsLeft ELSE AllJoints
    /\ ParentsAreKept

\* The elements of a numbered table are its positions.
LEMMA NumbersArePositions ==
    ASSUME NEW names, Numbered(names)
    PROVE  /\ names \in Seq(Nat) /\ Len(names) \in Nat
           /\ ToSet(names) = Positions(names) /\ Positions(names) = 0 .. Len(names) - 1
           /\ \A j \in Positions(names) : Nth(names, j) = j
<1>2. names \in Seq(Nat) /\ Len(names) \in Nat /\ \A j \in Positions(names) : Nth(names, j) = j
  BY NumberedNames
<1>3. DOMAIN names = 1 .. Len(names) /\ \A i \in 1 .. Len(names) : names[i] = i - 1
  BY <1>2 DEF Numbered
<1>4. ASSUME NEW x \in Positions(names) PROVE x \in ToSet(names)
  <2>1. x + 1 \in 1 .. Len(names) /\ (x + 1) - 1 = x
    BY <1>2 DEF Positions
  <2> QED  BY <1>3, <2>1 DEF ToSet
<1>5. ASSUME NEW x \in ToSet(names) PROVE x \in Positions(names)
  <2>1. PICK i \in 1 .. Len(names) : x = names[i]
    BY <1>3 DEF ToSet
  <2>2. x = i - 1
    BY <1>3, <2>1
  <2> QED  BY <1>2, <2>2 DEF Positions
<1>6. ToSet(names) = Positions(names)
  BY <1>4, <1>5
<1>7. Positions(names) = 0 .. Len(names) - 1
  BY DEF Positions
<1> QED  BY <1>2, <1>6, <1>7

\* Parents are known after the definition, and stay known.
LEMMA JointsKeep ==
    ASSUME FilterInv, FilterInv', DependentsInv, JointsInv, Next
    PROVE  JointsInv'
<1>1. /\ step \in 1 .. 11 /\ step' = step + 1 /\ UNCHANGED <<file, config>>
      /\ step # 1 => Filters' = Filters
      /\ step > 2 => archive'.joints = archive.joints
      /\ step # 2 => dna'.jointNames = dna.jointNames /\ dna'.jointHierarchy = dna.jointHierarchy
  BY WhatStepsKeep
<1>2. Loads("defn")' = Loads("defn")
  BY <1>1 DEF Loads
<1>3. CASE step = 1
  BY <1>1, <1>3 DEF JointsInv
<1>4. CASE step > 2
  <2>1. /\ dna'.jointNames = dna.jointNames /\ dna'.jointHierarchy = dna.jointHierarchy
        /\ archive'.joints = archive.joints /\ Filters' = Filters /\ file' = file
    BY <1>1, <1>4
  <2>2. (IF Filters THEN JointsLeft ELSE AllJoints)' = (IF Filters THEN JointsLeft ELSE AllJoints)
    BY <2>1 DEF JointsLeft, AllJoints
  <2>3. ParentsAreKept' = ParentsAreKept
    BY <2>1 DEF ParentsAreKept
  <2> QED  BY <1>2, <1>4, <2>2, <2>3 DEF JointsInv
<1>5. CASE step = 2
  <2>1. /\ LoadDefinition /\ DOMAIN dna = Fields /\ Consistent(file)
        /\ DOMAIN archive = {"lods", "unconstrainedLODCount", "meshes", "joints", "channels",
                             "rootJointIndex", "loadedControls"}
        /\ IsConstraint(archive.lods, file.lodCount) /\ file.lodCount \in Nat
    BY <1>5, WhatIsLoaded, LaterStep
  <2>2. /\ Numbered(file.jointNames)
        /\ IsMapping(file.lodJointMapping, file.lodCount, Len(file.jointNames))
    BY <2>1 DEF Consistent, IsTable
  <2> DEFINE parents == file.jointHierarchy
             N == Len(file.jointNames)
  <2>3. parents \in Seq(Positions(file.jointNames)) /\ Len(parents) = N /\ N \in Nat
    BY <2>2, NumberedNames DEF DependentsInv, JointsAgree
  <2> SUFFICES ASSUME Loads("defn") PROVE JointsInv'
    BY <1>2 DEF JointsInv
  <2>4. CASE Filters
    <3> DEFINE left == archive'.joints
    <3>1. FilterDefinition(Read(definitionFields))
      BY <2>1, <2>4 DEF LoadDefinition
    <3>2. /\ \E hierarchy : left = WithParents(Filter(N, JointsAllowed), hierarchy)
          /\ dna'.jointNames = KeepPositions(file.jointNames, left.passing)
          /\ dna'.jointHierarchy = Mapped(KeepPositions(parents, left.passing), left.remapped)
      BY <2>1, <3>1, DefinitionIsFiltered
    <3> HIDE DEF left
    <3>3. /\ JointsAllowed \in SUBSET (0 .. N - 1) /\ left.passing = JointsAllowed
          /\ \A j \in JointsAllowed : left.remapped[j] = Place(JointsAllowed, j)
      BY <2>1, <2>2, <3>2, JointsAreFound
    <3>4. Renumbers(dna'.jointNames, N, left.passing, left.remapped)
      BY <2>2, <3>2, <3>3, KeptNumbers
    <3>5. JointsLeft'
      BY <1>1, <3>4 DEF JointsLeft, left
    <3>6. ASSUME NEW j \in Positions(dna'.jointNames),
                 Nth(parents, Nth(dna'.jointNames, j)) \in ToSet(dna'.jointNames)
          PROVE  Nth(dna'.jointNames, Nth(dna'.jointHierarchy, j)) =
                 Nth(parents, Nth(dna'.jointNames, j))
      <4> DEFINE names == dna'.jointNames
                 P == left.passing
                 map == left.remapped
      <4>1. Renumbers(names, N, P, map)
        BY <3>4
      <4>2. ToSet(names) = P
        BY <4>1 DEF Renumbers
      <4> HIDE DEF names, P, map, N, parents
      <4>3. j \in Positions(names) /\ Nth(parents, Nth(names, j)) \in P
        BY <3>6, <4>2 DEF names, P
      <4>4. Nth(names, Nth(Mapped(KeepPositions(parents, P), map), j)) = Nth(parents, Nth(names, j))
        BY <2>3, <4>1, <4>3, ParentsAreFound
      <4> QED  BY <3>2, <4>4 DEF names, P, map
    <3>7. ParentsAreKept'
      BY <1>1, <3>6 DEF ParentsAreKept
    <3> QED  BY <1>1, <1>5, <2>4, <3>5, <3>7 DEF JointsInv
  <2>5. CASE ~Filters
    <3>1. dna' = Read(definitionFields)
      BY <2>1, <2>5 DEF LoadDefinition
    <3>2. dna'.jointNames = file.jointNames /\ dna'.jointHierarchy = parents
      BY <2>1, <3>1, FieldsAre DEF Read, definitionFields
    <3>3. AllJoints'
      BY <1>1, <3>2 DEF AllJoints
    <3>4. /\ \A j \in Positions(dna'.jointNames) : Nth(dna'.jointNames, j) = j
          /\ ToSet(dna'.jointNames) = Positions(dna'.jointNames)
      BY <2>2, <3>2, NumbersArePositions
    <3>5. ParentsAreKept'
      BY <1>1, <3>2, <3>4 DEF ParentsAreKept
    <3> QED  BY <1>1, <1>5, <2>5, <3>3, <3>5 DEF JointsInv
  <2> QED  BY <2>4, <2>5
<1> QED  BY <1>1, <1>3, <1>4, <1>5

\* Nothing is cut from a list of which every position is kept.
LEMMA KeepAll ==
    ASSUME NEW S, NEW t \in Seq(S), NEW P, P = Positions(t)
    PROVE  KeepPositions(t, P) = t
<1> DEFINE n == Len(t)
           u == KeepPositions(t, P)
<1>1. n \in Nat /\ P = 0 .. n - 1 /\ Kept(t, P) = P
  BY DEF Positions, Kept
<1>2. u \in Seq(S) /\ Len(u) = Cardinality(P)
      /\ \A i \in P : Nth(u, Place(P, i)) = Nth(t, i)
  BY <1>1, KeepPositionsKeeps
<1> HIDE DEF u, n
<1>3. Cardinality(0 .. n - 1) = n
  <2>1. Cardinality(0 .. n - 1) = IF 0 > n - 1 THEN 0 ELSE (n - 1) - 0 + 1
    BY <1>1, FS_Interval
  <2> QED  BY <1>1, <2>1
<1>4. \A i \in P : Place(P, i) = i
  <2>1. \A i \in 0 .. n - 1 : Place(0 .. n - 1, i) = i
    BY <1>1, PlaceInRange
  <2> QED  BY <1>1, <2>1
<1>5. Len(u) = n /\ \A i \in P : Nth(u, i) = Nth(t, i)
  BY <1>1, <1>2, <1>3, <1>4
<1>6. \A k \in 1 .. n : u[k] = t[k]
  <2> TAKE k \in 1 .. n
  <2>1. k - 1 \in P /\ (k - 1) + 1 = k
    BY <1>1
  <2> QED  BY <1>5, <2>1 DEF Nth
<1>7. t \in Seq(S) /\ Len(t) = n
  BY DEF n
<1> QED  BY <1>2, <1>5, <1>6, <1>7 DEF u

\* Without a filter twists move what they moved, all of it being kept.
LEMMA AllTwistsMove ==
    ASSUME NEW names, Numbered(names), names = file.jointNames,
           NEW twists, AreTwists(twists, Positions(names)), NEW P, P = Positions(names)
    PROVE  [t \in DOMAIN twists |-> Moves(twists[t], names)] = MovesKept(twists, P)
<1> DEFINE N == Len(twists)
           Now(t) == {p \in Moves(twists[t], names) : p[1] \in P}
           moved == [t \in 1 .. N |-> Now(t)]
           A == Twists(P)
           B == {Now(t) : t \in 1 .. N}
<1>1. twists \in Seq(A) /\ N \in Nat /\ DOMAIN twists = 1 .. N
  <2>1. twists \in Seq(A)
    BY DEF AreTwists
  <2> HIDE DEF A
  <2> QED  BY <2>1
<1>2. ASSUME NEW t \in 1 .. N
      PROVE  Now(t) = Moves(twists[t], names) /\ Now(t) # {}
  <2> DEFINE s == twists[t].outputJointIndices
             w == twists[t].blendWeights
  <2>1. s \in Seq(P) /\ s # <<>>
    <3>1. twists[t] \in A
      <4> HIDE DEF A
      <4> QED  BY <1>1
    <3> QED  BY <1>1, <3>1 DEF AreTwists, Twists
  <2>2. Moves(twists[t], names) = {<<Nth(names, s[i]), w[i]>> : i \in DOMAIN s}
    BY DEF Moves
  <2>3. \A j \in P : Nth(names, j) = j
    BY NumberedNames
  <2> HIDE DEF s
  <2>4. 1 \in DOMAIN s /\ \A i \in DOMAIN s : s[i] \in P
    BY <2>1
  <2>5. \A p \in Moves(twists[t], names) : p[1] \in P
    BY <2>2, <2>3, <2>4
  <2>6. Moves(twists[t], names) # {}
    BY <2>2, <2>4
  <2> QED  BY <2>5, <2>6
<1>3. MovesKept(twists, P) = KeepPositions(moved, {t \in Positions(moved) : Nth(moved, t) # {}})
  BY <1>1 DEF MovesKept
<1>4. moved = [t \in DOMAIN twists |-> Moves(twists[t], names)]
  BY <1>1, <1>2
<1>5. \A t \in 1 .. N : Now(t) # {}
  BY <1>2
<1> HIDE DEF Now
<1>6. \A t \in 1 .. N : moved[t] # {}
  BY <1>5
<1>7. moved \in Seq(B) /\ Len(moved) = N
  <2>1. moved \in [1 .. N -> B]
    OBVIOUS
  <2> HIDE DEF moved, B
  <2> QED  BY <1>1, <2>1
<1> HIDE DEF moved, B
<1>8. {t \in Positions(moved) : Nth(moved, t) # {}} = Positions(moved)
  BY <1>1, <1>6, <1>7 DEF Positions, Nth
<1>9. KeepPositions(moved, {t \in Positions(moved) : Nth(moved, t) # {}}) = moved
  BY <1>7, <1>8, KeepAll
<1> QED  BY <1>3, <1>4, <1>9

\* Without a filter all machine learned outputs are kept.
LEMMA AllMLJointsPut ==
    ASSUME NEW names, Numbered(names), NEW ml, AreMLJoints(ml, Positions(names)),
           NEW P, P = Positions(names)
    PROVE  MLOutputs(ml, names) = {o \in MLOutputs(ml, names) : o[2] \in P}
<1> DEFINE s == ml.outputIndices
           Put(i) == <<ml.inputIndices[i], Nth(names, s[i] \div ml.attributes), s[i] % ml.attributes>>
<1>1. \A i \in DOMAIN s : s[i] \div ml.attributes \in P
  BY DEF AreMLJoints
<1>2. \A j \in P : Nth(names, j) = j
  BY NumberedNames
<1>3. \A i \in DOMAIN s : Put(i)[2] \in P
  BY <1>1, <1>2
<1>4. MLOutputs(ml, names) = {Put(i) : i \in DOMAIN s}
  BY DEF MLOutputs
<1> HIDE DEF Put
<1> QED  BY <1>3, <1>4

\* The representation of a joint is its own.
RepresentationsInv ==
    step > 8 /\ Loads("defn") /\ Loads("jbmd") => \A j \in Positions(dna.jointNames) :
        Nth(dna.jointRepresentations, j) = Nth(file.jointRepresentations, Nth(dna.jointNames, j))

\* Of the joints that are kept, twists or swings move what they moved.
MoveAsBefore(twists, before) ==
    [t \in DOMAIN twists |-> Moves(twists[t], dna.jointNames)] =
    MovesKept(before, ToSet(dna.jointNames))

TwistsInv ==
    step > 9 /\ Loads("defn") /\ Loads("twsw") =>
        MoveAsBefore(dna.twists, file.twists) /\ MoveAsBefore(dna.swings, file.swings)

MLJointsInv ==
    step > 10 /\ Loads("defn") /\ Loads("mlbh") =>
        MLOutputs(dna.mlbJoints, dna.jointNames) =
        {o \in MLOutputs(file.mlbJoints, file.jointNames) : o[2] \in ToSet(dna.jointNames)}

\* The joints of a file, and those that are left of them.
LEMMA JointsAre ==
    ASSUME FilterInv, DependentsInv, JointsInv, step \in 3 .. 12, Loads("defn")
    PROVE  /\ Numbered(file.jointNames) /\ Len(file.jointNames) \in Nat /\ JointsAgree(file)
           /\ Filters => JointsLeft /\ ToSet(dna.jointNames) = archive.joints.passing
           /\ ~Filters => /\ dna.jointNames = file.jointNames
                          /\ ToSet(dna.jointNames) = Positions(file.jointNames)
                          /\ \A j \in Positions(dna.jointNames) : Nth(dna.jointNames, j) = j
<1>1. Numbered(file.jointNames)
  BY DEF FilterInv, RequestInv, Consistent, IsTable
<1>2. JointsAgree(file)
  BY DEF DependentsInv
<1>3. IF Filters THEN JointsLeft ELSE AllJoints
  BY DEF JointsInv
<1>4. JointsLeft => ToSet(dna.jointNames) = archive.joints.passing
  BY DEF JointsLeft, Renumbers
<1>5. /\ Len(file.jointNames) \in Nat /\ ToSet(file.jointNames) = Positions(file.jointNames)
      /\ \A j \in Positions(file.jointNames) : Nth(file.jointNames, j) = j
  BY <1>1, NumbersArePositions
<1> QED  BY <1>1, <1>2, <1>3, <1>4, <1>5 DEF AllJoints

\* Representations follow their joints.
LEMMA RepresentationsKeep ==
    ASSUME FilterInv, FilterInv', DependentsInv, JointsInv, RepresentationsInv, Next
    PROVE  RepresentationsInv'
<1>1. /\ step \in 1 .. 11 /\ step' = step + 1 /\ UNCHANGED <<file, config>>
      /\ step # 2 => dna'.jointNames = dna.jointNames
      /\ step # 8 => dna'.jointRepresentations = dna.jointRepresentations
  BY WhatStepsKeep
<1>2. Loads("defn")' = Loads("defn") /\ Loads("jbmd")' = Loads("jbmd")
  BY <1>1 DEF Loads
<1>3. CASE step < 8
  BY <1>1, <1>3 DEF RepresentationsInv
<1>4. CASE step > 8
  <2>1. dna'.jointNames = dna.jointNames /\ dna'.jointRepresentations = dna.jointRepresentations
        /\ file' = file
    BY <1>1, <1>4
  <2> QED  BY <1>2, <1>4, <2>1 DEF RepresentationsInv
<1>5. CASE step = 8
  <2>1. LoadJointRepresentations /\ DOMAIN dna = Fields /\ dna'.jointNames = dna.jointNames
    BY <1>1, <1>5, WhatIsLoaded, LaterStep
  <2> DEFINE names == dna.jointNames
             t == file.jointRepresentations
             new == dna'.jointRepresentations
  <2>2. SUFFICES ASSUME Loads("defn"), Loads("jbmd"), NEW j \in Positions(names)
                 PROVE  Nth(new, j) = Nth(t, Nth(names, j))
    BY <1>1, <1>2, <2>1 DEF RepresentationsInv
  <2>3. t \in Seq(Nat) /\ Len(t) = Len(file.jointNames)
    BY DEF DependentsInv, JointsAgree
  <2>4. CASE Filters
    <3>1. new = KeepPositions(t, archive.joints.passing)
      BY <2>1, <2>2, <2>4 DEF LoadJointRepresentations
    <3>2. Renumbers(names, Len(file.jointNames), archive.joints.passing, archive.joints.remapped)
      BY <1>5, <2>2, <2>4, JointsAre DEF JointsLeft
    <3> HIDE DEF names, t, new
    <3> QED  BY <2>2, <2>3, <3>1, <3>2, EntriesOfKept
  <2>5. CASE ~Filters
    <3>1. new = t
      BY <2>1, <2>2, <2>5, FieldsAre DEF LoadJointRepresentations, Read
    <3>2. Nth(names, j) = j
      BY <1>5, <2>2, <2>5, JointsAre
    <3> QED  BY <3>1, <3>2
  <2> QED  BY <2>4, <2>5
<1> QED  BY <1>1, <1>3, <1>4, <1>5

\* Twists and swings move the joints they moved.
LEMMA TwistsKeep ==
    ASSUME FilterInv, FilterInv', DependentsInv, JointsInv, TwistsInv, Next
    PROVE  TwistsInv'
<1>1. /\ step \in 1 .. 11 /\ step' = step + 1 /\ UNCHANGED <<file, config>>
      /\ step # 2 => dna'.jointNames = dna.jointNames
      /\ step # 9 => dna'.twists = dna.twists /\ dna'.swings = dna.swings
  BY WhatStepsKeep
<1>2. Loads("defn")' = Loads("defn") /\ Loads("twsw")' = Loads("twsw")
  BY <1>1 DEF Loads
<1>3. CASE step < 9
  BY <1>1, <1>3 DEF TwistsInv
<1>4. CASE step > 9
  <2>1. dna'.jointNames = dna.jointNames /\ dna'.twists = dna.twists /\ dna'.swings = dna.swings
        /\ file' = file
    BY <1>1, <1>4
  <2>2. MoveAsBefore(dna.twists, file.twists)' = MoveAsBefore(dna.twists, file.twists)
        /\ MoveAsBefore(dna.swings, file.swings)' = MoveAsBefore(dna.swings, file.swings)
    BY <2>1 DEF MoveAsBefore, MovesKept
  <2> QED  BY <1>2, <1>4, <2>2 DEF TwistsInv
<1>5. CASE step = 9
  <2>1. LoadTwistsAndSwings /\ DOMAIN dna = Fields /\ dna'.jointNames = dna.jointNames
    BY <1>1, <1>5, WhatIsLoaded, LaterStep
  <2> DEFINE names == dna.jointNames
             kept == ToSet(names)
  <2>2. SUFFICES ASSUME Loads("defn"), Loads("twsw")
                 PROVE  /\ MoveAsBefore(dna'.twists, file.twists)
                        /\ MoveAsBefore(dna'.swings, file.swings)
    <3>1. MoveAsBefore(dna.twists, file.twists)' = MoveAsBefore(dna'.twists, file.twists)
          /\ MoveAsBefore(dna.swings, file.swings)' = MoveAsBefore(dna'.swings, file.swings)
      BY <1>1, <2>1 DEF MoveAsBefore, MovesKept
    <3> QED  BY <1>1, <1>2, <3>1 DEF TwistsInv
  <2>3. /\ Numbered(file.jointNames)
        /\ AreTwists(file.twists, Positions(file.jointNames))
        /\ AreTwists(file.swings, Positions(file.jointNames))
    BY <1>5, <2>2, JointsAre DEF JointsAgree
  <2>4. CASE Filters
    <3>1. dna'.twists = FilteredTwists(file.twists) /\ dna'.swings = FilteredTwists(file.swings)
      BY <2>1, <2>2, <2>4, FieldsAre DEF LoadTwistsAndSwings
    <3>2. JointsLeft /\ kept = archive.joints.passing
      BY <1>5, <2>2, <2>4, JointsAre
    <3>3. MoveAsBefore(FilteredTwists(file.twists), file.twists)
      BY <2>3, <3>2, FilteredTwistsMove DEF MoveAsBefore
    <3>4. MoveAsBefore(FilteredTwists(file.swings), file.swings)
      BY <2>3, <3>2, FilteredTwistsMove DEF MoveAsBefore
    <3> QED  BY <3>1, <3>3, <3>4
  <2>5. CASE ~Filters
    <3>1. dna'.twists = file.twists /\ dna'.swings = file.swings
      BY <2>1, <2>2, <2>5, FieldsAre DEF LoadTwistsAndSwings, Read
    <3>2. names = file.jointNames /\ kept = Positions(file.jointNames)
      BY <1>5, <2>2, <2>5, JointsAre
    <3>3. MoveAsBefore(file.twists, file.twists)
      BY <2>3, <3>2, AllTwistsMove DEF MoveAsBefore
    <3>4. MoveAsBefore(file.swings, file.swings)
      BY <2>3, <3>2, AllTwistsMove DEF MoveAsBefore
    <3> QED  BY <3>1, <3>3, <3>4
  <2> QED  BY <2>4, <2>5
<1> QED  BY <1>1, <1>3, <1>4, <1>5

\* Machine learned joints are put where they were.
LEMMA MLJointsKeep ==
    ASSUME FilterInv, FilterInv', DependentsInv, JointsInv, MLJointsInv, Next
    PROVE  MLJointsInv'
<1>1. /\ step \in 1 .. 11 /\ step' = step + 1 /\ UNCHANGED <<file, config>>
      /\ step # 2 => dna'.jointNames = dna.jointNames
      /\ step # 10 => dna'.mlbJoints = dna.mlbJoints
  BY WhatStepsKeep
<1>2. Loads("defn")' = Loads("defn") /\ Loads("mlbh")' = Loads("mlbh")
  BY <1>1 DEF Loads
<1>3. CASE step < 10
  BY <1>1, <1>3 DEF MLJointsInv
<1>4. CASE step > 10
  <2>1. dna'.jointNames = dna.jointNames /\ dna'.mlbJoints = dna.mlbJoints /\ file' = file
    BY <1>1, <1>4
  <2> QED  BY <1>2, <1>4, <2>1 DEF MLJointsInv, MLOutputs
<1>5. CASE step = 10
  <2>1. LoadOperations /\ DOMAIN dna = Fields /\ dna'.jointNames = dna.jointNames
    BY <1>1, <1>5, WhatIsLoaded, LaterStep
  <2> DEFINE names == dna.jointNames
             kept == ToSet(names)
             ml == file.mlbJoints
             before == MLOutputs(ml, file.jointNames)
  <2>2. SUFFICES ASSUME Loads("defn"), Loads("mlbh")
                 PROVE  MLOutputs(dna'.mlbJoints, names) = {o \in before : o[2] \in kept}
    BY <1>1, <1>2, <2>1 DEF MLJointsInv, MLOutputs
  <2>3. /\ Numbered(file.jointNames)
        /\ AreMLJoints(ml, Positions(file.jointNames))
    BY <1>5, <2>2, JointsAre DEF JointsAgree
  <2>4. CASE Filters
    <3>1. dna'.mlbJoints = FilteredMLJoints(ml)
      BY <2>1, <2>2, <2>4, FieldsAre DEF LoadOperations, Read
    <3>2. JointsLeft /\ kept = archive.joints.passing
      BY <1>5, <2>2, <2>4, JointsAre
    <3> QED  BY <2>3, <3>1, <3>2, FilteredMLJointsPut
  <2>5. CASE ~Filters
    <3>1. dna'.mlbJoints = ml
      BY <2>1, <2>2, <2>5, FieldsAre DEF LoadOperations, Read
    <3>2. names = file.jointNames /\ kept = Positions(file.jointNames)
      BY <1>5, <2>2, <2>5, JointsAre
    <3> QED  BY <2>3, <3>1, <3>2, AllMLJointsPut
  <2> QED  BY <2>4, <2>5
<1> QED  BY <1>1, <1>3, <1>4, <1>5
-----------------------------------------------------------------------------
(* Meshes, their channels, pairs, targets and regions.                       *)

\* What is left of the meshes and of the channels of the file
MeshesLeft == Renumbers(dna.meshNames, Len(file.meshNames), archive.meshes.passing,
                        archive.meshes.remapped)
ChannelsLeft == Renumbers(dna.blendShapeChannelNames, Len(file.blendShapeChannelNames),
                          archive.channels.passing, archive.channels.remapped)

\* The pairs are those of before whose meshes and channels have these names.
PairsLeft(pairs, meshNames, channelNames, before) ==
    /\ pairs \in Seq(Positions(meshNames) \X Positions(channelNames))
    /\ PairsNamed(pairs, meshNames, channelNames) =
          {p \in ToSet(before) : p[1] \in ToSet(meshNames) /\ p[2] \in ToSet(channelNames)}

PairsAreKept(doc) ==
    PairsLeft(doc.meshBlendShapeChannelMapping, doc.meshNames, doc.blendShapeChannelNames,
              file.meshBlendShapeChannelMapping)

\* Names of meshes, and of channels before any are removed, and pairs of what is left of them
MeshNamesInv ==
    step > 2 /\ Loads("defn") => IF Filters THEN MeshesLeft ELSE dna.meshNames = file.meshNames

ChannelsInv ==
    step \in 3 .. 11 /\ Loads("defn") =>
        IF Filters THEN ChannelsLeft ELSE dna.blendShapeChannelNames = file.blendShapeChannelNames

PairsInv == step > 2 /\ Loads("defn") => PairsAreKept(dna)

\* In numbered tables pairs are their own names.
LEMMA PairsAreNamed ==
    ASSUME NEW s, Numbered(s), NEW t, Numbered(t),
           NEW pairs \in Seq(Positions(s) \X Positions(t))
    PROVE  /\ PairsNamed(pairs, s, t) = ToSet(pairs)
           /\ \A p \in ToSet(pairs) : p[1] \in ToSet(s) /\ p[2] \in ToSet(t)
<1> DEFINE A == Positions(s)
           B == Positions(t)
           Name(p) == <<Nth(s, p[1]), Nth(t, p[2])>>
<1>1. /\ ToSet(s) = A /\ \A x \in A : Nth(s, x) = x
      /\ ToSet(t) = B /\ \A x \in B : Nth(t, x) = x
  BY NumbersArePositions
<1>2. pairs \in Seq(A \X B)
  OBVIOUS
<1> HIDE DEF A, B
<1>3. \A p \in ToSet(pairs) : p \in A \X B
  <2>1. DOMAIN pairs = 1 .. Len(pairs) /\ \A i \in 1 .. Len(pairs) : pairs[i] \in A \X B
    BY <1>2
  <2> QED  BY <2>1 DEF ToSet
<1>4. \A p \in ToSet(pairs) : Name(p) = p
  BY <1>1, <1>3
<1>5. PairsNamed(pairs, s, t) = {Name(p) : p \in ToSet(pairs)}
  BY DEF PairsNamed
<1> HIDE DEF Name
<1>6. PairsNamed(pairs, s, t) = ToSet(pairs)
  BY <1>4, <1>5
<1>7. \A p \in ToSet(pairs) : p[1] \in ToSet(s) /\ p[2] \in ToSet(t)
  BY <1>1, <1>3
<1> QED  BY <1>6, <1>7

\* Filtering both sides keeps the pairs of which both sides pass.
LEMMA FilteredPairs ==
    ASSUME NEW all1, Numbered(all1), NEW all2, Numbered(all2),
           NEW names1, NEW P1, NEW map1, Renumbers(names1, Len(all1), P1, map1),
           NEW names2, NEW P2, NEW map2, Renumbers(names2, Len(all2), P2, map2),
           NEW pairs \in Seq(Positions(all1) \X Positions(all2)),
           NEW f1, f1.passing = P1, f1.remapped = map1,
           NEW f2, f2.passing = P2, f2.remapped = map2
    PROVE  PairsLeft(PairsOf(PairsOf(pairs, 1, f1), 2, f2), names1, names2, pairs)
<1> DEFINE N1 == Len(all1)
           N2 == Len(all2)
           half == PairsOf(pairs, 1, f1)
           left == PairsOf(half, 2, f2)
<1>1. AreNumbers(all1, N1) /\ AreNumbers(all2, N2)
  BY NumbersArePositions DEF AreNumbers
<1>2. Positions(all1) = 0 .. N1 - 1 /\ Positions(all2) = 0 .. N2 - 1
  BY DEF Positions
<1>3. pairs \in Seq((0 .. N1 - 1) \X (0 .. N2 - 1))
  BY <1>2
<1> HIDE DEF N1, N2
<1>4. Renumbers(names1, N1, P1, map1) /\ Renumbers(names2, N2, P2, map2)
  BY DEF N1, N2
<1>5. OnlyPairs(half, names1, all2, Positions(names1) \X (0 .. N2 - 1),
                PairsNamed(pairs, all1, all2), 1, P1)
  BY <1>1, <1>3, <1>4, PairsOfMeshes
<1>6. /\ half \in Seq(Positions(names1) \X (0 .. N2 - 1))
      /\ PairsNamed(half, names1, all2) = {x \in PairsNamed(pairs, all1, all2) : x[1] \in P1}
  BY <1>5 DEF OnlyPairs
<1> HIDE DEF half
<1>7. OnlyPairs(left, names1, names2, Positions(names1) \X Positions(names2),
                PairsNamed(half, names1, all2), 2, P2)
  BY <1>1, <1>4, <1>6, PairsOfChannels
<1>8. PairsNamed(pairs, all1, all2) = ToSet(pairs)
  BY PairsAreNamed
<1>9. ToSet(names1) = P1 /\ ToSet(names2) = P2
  BY DEF Renumbers
<1> HIDE DEF left
<1>10. PairsNamed(left, names1, names2) =
         {p \in ToSet(pairs) : p[1] \in ToSet(names1) /\ p[2] \in ToSet(names2)}
  BY <1>6, <1>7, <1>8, <1>9 DEF OnlyPairs
<1>11. left \in Seq(Positions(names1) \X Positions(names2))
  BY <1>7 DEF OnlyPairs
<1> QED  BY <1>10, <1>11 DEF left, half, PairsLeft

\* Meshes, channels and pairs are those of the file after the definition is loaded.
LEMMA MeshesAreDefined ==
    ASSUME FilterInv, FilterInv', DependentsInv, LoadDefinition, UNCHANGED <<file, config>>,
           Loads("defn")
    PROVE  /\ (IF Filters THEN MeshesLeft ELSE dna.meshNames = file.meshNames)'
           /\ (IF Filters THEN ChannelsLeft
               ELSE dna.blendShapeChannelNames = file.blendShapeChannelNames)'
           /\ PairsAreKept(dna')
<1>1. step = 2 /\ Filters' = Filters
  <2>1. step = 2
    BY StepOf DEF LoadDefinition
  <2>2. Next
    BY DEF Next
  <2> QED  BY <2>1, <2>2, WhatStepsKeep
<1> DEFINE meshNames == file.meshNames
           channelNames == file.blendShapeChannelNames
           pairs == file.meshBlendShapeChannelMapping
<1>2. /\ DOMAIN dna = Fields /\ Consistent(file)
      /\ DOMAIN archive = {"lods", "unconstrainedLODCount", "meshes", "joints", "channels",
                           "rootJointIndex", "loadedControls"}
      /\ IsConstraint(archive.lods, file.lodCount) /\ file.lodCount \in Nat
  BY <1>1, LaterStep
<1>3. /\ Numbered(meshNames) /\ IsMapping(file.lodMeshMapping, file.lodCount, Len(meshNames))
      /\ Numbered(channelNames)
      /\ IsMapping(file.lodBlendShapeMapping, file.lodCount, Len(channelNames))
  BY <1>2 DEF Consistent, IsTable
<1>4. pairs \in Seq(Positions(meshNames) \X Positions(channelNames))
  BY DEF DependentsInv, MeshesAgree
<1>5. CASE Filters
  <2> DEFINE m == TableFilter(meshNames, file.lodMeshMapping)
             c == TableFilter(channelNames, file.lodBlendShapeMapping)
  <2>1. FilterDefinition(Read(definitionFields))
    BY <1>5 DEF LoadDefinition
  <2>2. /\ dna'.meshNames = KeepPositions(meshNames, m.passing)
        /\ dna'.blendShapeChannelNames = KeepPositions(channelNames, c.passing)
        /\ archive'.meshes = m /\ archive'.channels = c
        /\ dna'.meshBlendShapeChannelMapping = PairsOf(PairsOf(pairs, 1, m), 2, c)
    BY <1>2, <2>1, DefinitionIsFiltered
  <2>3. /\ m.passing \in SUBSET (0 .. Len(meshNames) - 1)
        /\ \A i \in m.passing : m.remapped[i] = Place(m.passing, i)
    <3> HIDE DEF meshNames
    <3> QED  BY <1>2, <1>3, TableFilterGives
  <2>4. /\ c.passing \in SUBSET (0 .. Len(channelNames) - 1)
        /\ \A i \in c.passing : c.remapped[i] = Place(c.passing, i)
    <3> HIDE DEF channelNames
    <3> QED  BY <1>2, <1>3, TableFilterGives
  <2> HIDE DEF m, c
  <2>5. Renumbers(dna'.meshNames, Len(meshNames), m.passing, m.remapped)
    BY <1>3, <2>2, <2>3, KeptNumbers
  <2>6. Renumbers(dna'.blendShapeChannelNames, Len(channelNames), c.passing, c.remapped)
    BY <1>3, <2>2, <2>4, KeptNumbers
  <2>7. MeshesLeft' /\ ChannelsLeft'
    BY <2>2, <2>5, <2>6 DEF MeshesLeft, ChannelsLeft
  <2>8. PairsAreKept(dna')
    <3> DEFINE left == PairsOf(PairsOf(pairs, 1, m), 2, c)
               names1 == dna'.meshNames
               names2 == dna'.blendShapeChannelNames
    <3>1. PairsLeft(left, names1, names2, pairs)
      <4> HIDE DEF meshNames, channelNames, pairs, names1, names2
      <4>1. Renumbers(names1, Len(meshNames), m.passing, m.remapped)
            /\ Renumbers(names2, Len(channelNames), c.passing, c.remapped)
        BY <2>5, <2>6 DEF names1, names2
      <4> QED  BY <1>3, <1>4, <4>1, FilteredPairs
    <3> QED  BY <2>2, <3>1 DEF PairsAreKept
  <2> QED  BY <1>1, <1>5, <2>7, <2>8
<1>6. CASE ~Filters
  <2>1. dna' = Read(definitionFields)
    BY <1>6 DEF LoadDefinition
  <2>2. /\ dna'.meshNames = meshNames /\ dna'.blendShapeChannelNames = channelNames
        /\ dna'.meshBlendShapeChannelMapping = pairs
    BY <1>2, <2>1, FieldsAre DEF Read, definitionFields
  <2>3. /\ PairsNamed(pairs, meshNames, channelNames) = ToSet(pairs)
        /\ \A p \in ToSet(pairs) : p[1] \in ToSet(meshNames) /\ p[2] \in ToSet(channelNames)
    BY <1>3, <1>4, PairsAreNamed
  <2>4. PairsAreKept(dna')
    BY <1>4, <2>2, <2>3 DEF PairsAreKept, PairsLeft
  <2> QED  BY <1>1, <1>6, <2>2, <2>4
<1> QED  BY <1>5, <1>6

\* The last step leaves everything, or removes channels, their pairs and their targets.
LEMMA WhatIsRemoved ==
    ASSUME FilterInv, FilterInv', PostFilter, Loads("defn"), ~(archive' = archive /\ dna' = dna)
    PROVE  /\ Renumbers(dna'.blendShapeChannelNames, Len(dna.blendShapeChannelNames),
                        FilterLeft.passing, FilterLeft.remapped)
           /\ dna'.meshBlendShapeChannelMapping =
                  PairsOf(dna.meshBlendShapeChannelMapping, 2, FilterLeft)
           /\ dna'.meshes = [m \in 1 .. Len(dna.meshes) |->
                                [dna.meshes[m] EXCEPT !.targets = TargetsLeft(dna.meshes[m])]]
<1>1. step = 11 /\ step' # 0
  BY StepOf DEF PostFilter, FilterInv, LODsInv
<1>2. /\ DOMAIN dna = Fields
      /\ DOMAIN archive = {"lods", "unconstrainedLODCount", "meshes", "joints", "channels",
                           "rootJointIndex", "loadedControls"}
  BY <1>1, LaterStep
<1>3. RemoveUnreferencedBlendShapes /\ config.unknownPolicy = "Ignore"
  BY DEF PostFilter
<1> DEFINE names == dna.blendShapeChannelNames
           P == FilterLeft.passing
           map == FilterLeft.remapped
<1>4. /\ dna'.blendShapeChannelNames = KeepPositions(names, P)
      /\ dna'.meshBlendShapeChannelMapping =
             PairsOf(dna.meshBlendShapeChannelMapping, 2, FilterLeft)
      /\ dna'.meshes = [m \in 1 .. Len(dna.meshes) |->
                           [dna.meshes[m] EXCEPT !.targets = TargetsLeft(dna.meshes[m])]]
  BY <1>1, <1>2, <1>3, RemovalGives DEF Throw
<1>5. Renumbers(KeepPositions(names, P), Len(names), P, map)
  <2> DEFINE D == CombinedDistinctIndices(dna.lodBlendShapeMapping) \ Unreferenced
  <2>1. SameLists(names, dna.lodBlendShapeMapping, archive.lods, file.lodBlendShapeMapping)
    BY <1>1 DEF FilterInv, DefinitionInv
  <2>2. Numbered(names) /\ D \in SUBSET (0 .. Len(names) - 1)
    BY <2>1 DEF SameLists, IsMapping
  <2>3. P = D /\ FilterLeft = Filter(Len(names), CombinedDistinctIndices(MappingLeft))
    BY <1>1, <1>3, RemovalLeaves DEF FilterLeft
  <2>4. Len(names) \in Nat
    BY <2>2, NumberedNames
  <2> DEFINE A == CombinedDistinctIndices(MappingLeft)
  <2>5. P = A
    BY <2>3 DEF Filter
  <2> HIDE DEF D, names, A
  <2>6. A \in SUBSET (0 .. Len(names) - 1)
    BY <2>2, <2>3, <2>5
  <2>7. \A i \in A : map[i] = Place(A, i)
    BY <2>3, <2>4, <2>6, FilterGives DEF A
  <2> HIDE DEF map
  <2> QED  BY <2>2, <2>5, <2>6, <2>7, KeptNumbers
<1> QED  BY <1>4, <1>5

\* Names of meshes are known after the definition, and stay known.
LEMMA MeshNamesKeep ==
    ASSUME FilterInv, FilterInv', DependentsInv, MeshNamesInv, Next
    PROVE  MeshNamesInv'
<1>1. /\ step \in 1 .. 11 /\ step' = step + 1 /\ UNCHANGED <<file, config>>
      /\ step # 1 => Filters' = Filters
      /\ step > 2 => archive'.meshes = archive.meshes
      /\ step # 2 => dna'.meshNames = dna.meshNames
  BY WhatStepsKeep
<1>2. Loads("defn")' = Loads("defn")
  BY <1>1 DEF Loads
<1>3. CASE step = 1
  BY <1>1, <1>3 DEF MeshNamesInv
<1>4. CASE step > 2
  <2>1. MeshesLeft' = MeshesLeft /\ Filters' = Filters
    BY <1>1, <1>4 DEF MeshesLeft
  <2> QED  BY <1>1, <1>2, <1>4, <2>1 DEF MeshNamesInv
<1>5. CASE step = 2
  <2>1. LoadDefinition
    BY <1>5, WhatIsLoaded
  <2> QED  BY <1>1, <1>2, <1>5, <2>1, MeshesAreDefined DEF MeshNamesInv
<1> QED  BY <1>1, <1>3, <1>4, <1>5

\* Names of channels stay until channels are removed.
LEMMA ChannelsKeep ==
    ASSUME FilterInv, FilterInv', DependentsInv, ChannelsInv, Next
    PROVE  ChannelsInv'
<1>1. /\ step \in 1 .. 11 /\ step' = step + 1 /\ UNCHANGED <<file, config>>
      /\ step # 1 => Filters' = Filters
      /\ step \in 3 .. 10 => archive'.channels = archive.channels
      /\ step \notin {2, 11} => dna'.blendShapeChannelNames = dna.blendShapeChannelNames
  BY WhatStepsKeep
<1>2. Loads("defn")' = Loads("defn")
  BY <1>1 DEF Loads
<1>3. CASE step \in {1, 11}
  BY <1>1, <1>3 DEF ChannelsInv
<1>4. CASE step \in 3 .. 10
  <2>1. /\ dna'.blendShapeChannelNames = dna.blendShapeChannelNames
        /\ archive'.channels = archive.channels /\ file' = file
    BY <1>1, <1>4
  <2>2. ChannelsLeft' = ChannelsLeft /\ Filters' = Filters
    BY <1>1, <1>4, <2>1 DEF ChannelsLeft
  <2>3. step \in 3 .. 11
    BY <1>4
  <2> QED  BY <1>2, <2>1, <2>2, <2>3 DEF ChannelsInv
<1>5. CASE step = 2
  <2>1. LoadDefinition
    BY <1>5, WhatIsLoaded
  <2> QED  BY <1>1, <1>2, <1>5, <2>1, MeshesAreDefined DEF ChannelsInv
<1> QED  BY <1>1, <1>3, <1>4, <1>5

\* Of the pairs, those stay of which both sides do.
LEMMA PairsKeep ==
    ASSUME FilterInv, FilterInv', DependentsInv, PairsInv, Next
    PROVE  PairsInv'
<1>1. /\ step \in 1 .. 11 /\ step' = step + 1 /\ UNCHANGED <<file, config>>
      /\ step # 2 => dna'.meshNames = dna.meshNames
      /\ step \notin {2, 11} =>
            /\ dna'.blendShapeChannelNames = dna.blendShapeChannelNames
            /\ dna'.meshBlendShapeChannelMapping = dna.meshBlendShapeChannelMapping
  BY WhatStepsKeep
<1>2. Loads("defn")' = Loads("defn")
  BY <1>1 DEF Loads
<1>3. PairsAreKept(dna)' = PairsAreKept(dna')
  BY <1>1 DEF PairsAreKept, PairsLeft, PairsNamed
<1>4. CASE step = 1
  BY <1>1, <1>4 DEF PairsInv
<1>5. CASE step \in 3 .. 10
  <2>1. PairsAreKept(dna') = PairsAreKept(dna)
    BY <1>1, <1>5 DEF PairsAreKept
  <2> QED  BY <1>2, <1>3, <1>5, <2>1 DEF PairsInv
<1>6. CASE step = 2
  <2>1. LoadDefinition
    BY <1>6, WhatIsLoaded
  <2> QED  BY <1>1, <1>2, <1>3, <1>6, <2>1, MeshesAreDefined DEF PairsInv
<1>7. CASE step = 11
  <2>1. PostFilter
    BY <1>7, WhatIsLoaded
  <2>2. CASE archive' = archive /\ dna' = dna
    BY <1>2, <1>3, <1>7, <2>2 DEF PairsInv
  <2>3. CASE ~(archive' = archive /\ dna' = dna)
    <3> SUFFICES ASSUME Loads("defn") PROVE PairsAreKept(dna')
      BY <1>2, <1>3 DEF PairsInv
    <3> DEFINE all == dna.blendShapeChannelNames
               names == dna'.blendShapeChannelNames
               meshNames == dna.meshNames
               pairs == dna.meshBlendShapeChannelMapping
               left == PairsOf(pairs, 2, FilterLeft)
               P == FilterLeft.passing
               map == FilterLeft.remapped
               N == Len(all)
               A == Positions(meshNames)
    <3>1. Renumbers(names, N, P, map) /\ dna'.meshBlendShapeChannelMapping = left
          /\ dna'.meshNames = meshNames
      BY <1>1, <1>7, <2>1, <2>3, WhatIsRemoved
    <3>2. Numbered(all)
      BY <1>7 DEF FilterInv, DefinitionInv, SameLists
    <3>3. PairsLeft(pairs, meshNames, all, file.meshBlendShapeChannelMapping)
      BY <1>7 DEF PairsInv, PairsAreKept
    <3> HIDE DEF all
    <3>4. AreNumbers(all, N) /\ Positions(all) = 0 .. N - 1 /\ ToSet(all) = Positions(all)
      BY <3>2, NumbersArePositions DEF AreNumbers
    <3> HIDE DEF names, meshNames, pairs, N, A
    <3>5. pairs \in Seq(A \X (0 .. N - 1))
      BY <3>3, <3>4 DEF PairsLeft, A
    <3>6. OnlyPairs(left, meshNames, names, A \X Positions(names),
                    PairsNamed(pairs, meshNames, all), 2, P)
      BY <3>1, <3>4, <3>5, PairsOfChannels
    <3>7. ToSet(names) = P /\ P \subseteq ToSet(all)
      BY <3>1, <3>4 DEF Renumbers
    <3> HIDE DEF left, P
    <3>8. PairsLeft(left, meshNames, names, file.meshBlendShapeChannelMapping)
      BY <3>3, <3>6, <3>7 DEF PairsLeft, OnlyPairs, A
    <3> QED  BY <3>1, <3>8 DEF PairsAreKept, names, meshNames
  <2> QED  BY <2>2, <2>3
<1> QED  BY <1>1, <1>4, <1>5, <1>6, <1>7

\* Elements of a mesh number in the file that a reader wants as targets.
TargetsOf(number) ==
    IF Loads("blendshapes") THEN ToSet(Nth(file.meshes, number).targets) ELSE {}

MeshIsKept(mesh, number, channelNames) ==
    /\ DOMAIN mesh = {"name", "skin", "targets"} /\ mesh.name = number
    /\ NamesLeft(mesh.targets, channelNames, TargetsOf(number) \cap ToSet(channelNames))

MeshesAre(doc) ==
    /\ Len(doc.meshNames) \in Nat /\ DOMAIN doc.meshes = 1 .. Len(doc.meshNames)
    /\ \A m \in 1 .. Len(doc.meshNames) :
          MeshIsKept(doc.meshes[m], doc.meshNames[m], doc.blendShapeChannelNames)

MeshesInv ==
    step > 4 /\ Loads("defn") /\ Loads("geom") =>
        MeshesAre(dna) /\ (step < 12 => Len(dna.meshes) = Len(dna.meshNames))

\* A list is one of what is in it.
LEMMA ListOfElements ==
    ASSUME NEW S, NEW s \in Seq(S), NEW T, ToSet(s) \subseteq T
    PROVE  s \in Seq(T)
<1>1. DOMAIN s = 1 .. Len(s) /\ Len(s) \in Nat
  OBVIOUS
<1>2. \A k \in 1 .. Len(s) : s[k] \in T
  BY <1>1 DEF ToSet
<1>3. s = [k \in 1 .. Len(s) |-> s[k]]
  OBVIOUS
<1>4. s \in [1 .. Len(s) -> T]
  BY <1>1, <1>2, <1>3
<1> QED  BY <1>1, <1>4

\* So many entries are that long a list.
LEMMA LengthOfList ==
    ASSUME NEW n \in Nat, NEW s, s = [k \in 1 .. n |-> s[k]]
    PROVE  Len(s) = n
<1> DEFINE T == {s[k] : k \in 1 .. n}
<1>1. s \in [1 .. n -> T]
  OBVIOUS
<1> HIDE DEF T
<1>2. s \in Seq(T) /\ DOMAIN s = 1 .. n
  BY <1>1
<1> QED  BY <1>2

\* Meshes that are kept, whose numbers are their names.
LEMMA MeshesToLoad ==
    ASSUME FilterInv, DependentsInv, MeshNamesInv, step \in 3 .. 12, Loads("defn"),
           NEW kept, kept = IF Filters THEN KeepPositions(file.meshes, archive.meshes.passing)
                            ELSE file.meshes
    PROVE  LET names == dna.meshNames
               M == Meshes(Positions(file.blendShapeChannelNames))
           IN  /\ Len(names) \in Nat /\ kept \in Seq(M) /\ Len(kept) = Len(names)
               /\ \A k \in 1 .. Len(names) : /\ kept[k] \in M /\ kept[k].name = names[k]
                                             /\ kept[k] = Nth(file.meshes, names[k])
<1> DEFINE names == dna.meshNames
           all == file.meshNames
           t == file.meshes
           N == Len(all)
           M == Meshes(Positions(file.blendShapeChannelNames))
           P == archive.meshes.passing
           map == archive.meshes.remapped
<1>1. Numbered(all)
  BY DEF FilterInv, RequestInv, Consistent, IsTable
<1>2. N \in Nat /\ \A k \in 1 .. N : all[k] = k - 1
  BY <1>1, NumberedNames DEF Numbered
<1>3. t \in Seq(M) /\ Len(t) = N /\ \A m \in DOMAIN t : t[m].name = m - 1
  BY DEF DependentsInv, MeshesAgree
<1>4. IF Filters THEN Renumbers(names, N, P, map) ELSE names = all
  BY DEF MeshNamesInv, MeshesLeft
<1> HIDE DEF names, all, t, N, M, P, map
<1>5. \A j \in 0 .. N - 1 : Nth(t, j) \in M /\ Nth(t, j).name = j
  <2> TAKE j \in 0 .. N - 1
  <2>1. j + 1 \in 1 .. N /\ (j + 1) - 1 = j
    BY <1>2
  <2>2. j + 1 \in DOMAIN t /\ t[j + 1] \in M
    BY <1>3, <2>1
  <2> QED  BY <1>3, <2>1, <2>2 DEF Nth
<1>6. CASE Filters
  <2>1. kept = KeepPositions(t, P)
    BY <1>6 DEF t, P
  <2>2. Renumbers(names, N, P, map)
    BY <1>4, <1>6
  <2>3. P \subseteq 0 .. N - 1
    BY <2>2 DEF Renumbers
  <2>4. /\ kept \in Seq(M) /\ Len(kept) = Len(names) /\ Len(names) \in Nat
        /\ \A k \in 1 .. Len(names) : names[k] \in P /\ kept[k] = Nth(t, names[k])
    BY <1>3, <2>1, <2>2, EntriesOfKept
  <2>5. \A k \in 1 .. Len(names) : kept[k] \in M /\ kept[k].name = names[k]
    BY <1>5, <2>3, <2>4
  <2> QED  BY <2>4, <2>5 DEF names, M, t
<1>7. CASE ~Filters
  <2>1. kept = t /\ names = all
    BY <1>4, <1>7 DEF t
  <2>2. Len(names) = N
    BY <2>1 DEF N
  <2>3. \A k \in 1 .. N : Nth(t, k - 1) = t[k] /\ k - 1 \in 0 .. N - 1
    BY <1>2 DEF Nth
  <2>4. \A k \in 1 .. N : kept[k] \in M /\ kept[k].name = names[k] /\ kept[k] = Nth(t, names[k])
    BY <1>2, <1>5, <2>1, <2>3
  <2> QED  BY <1>2, <1>3, <2>1, <2>2, <2>4 DEF names, M, t
<1> QED  BY <1>6, <1>7

\* Channels that are kept are their own names until channels are removed.
LEMMA ChannelsAre ==
    ASSUME FilterInv, ChannelsInv, step \in 3 .. 11, Loads("defn")
    PROVE  LET names == dna.blendShapeChannelNames
           IN  /\ Numbered(names) /\ ToSet(names) = Positions(names)
               /\ \A j \in Positions(names) : Nth(names, j) = j
               /\ Filters => archive.channels.passing = ToSet(names)
               /\ ~Filters => names = file.blendShapeChannelNames
<1>1. Numbered(dna.blendShapeChannelNames)
  BY DEF FilterInv, DefinitionInv, SameLists
<1>2. Filters => ChannelsLeft
  BY DEF ChannelsInv
<1>3. ChannelsLeft => archive.channels.passing = ToSet(dna.blendShapeChannelNames)
  BY DEF ChannelsLeft, Renumbers
<1>4. ~Filters => dna.blendShapeChannelNames = file.blendShapeChannelNames
  BY DEF ChannelsInv
<1> QED  BY <1>1, <1>2, <1>3, <1>4, NumbersArePositions

\* A mesh is loaded with the targets of channels that are.
LEMMA FilteredMeshIsKept ==
    ASSUME FilterInv, ChannelsInv, step \in 3 .. 11, Loads("defn"),
           NEW mesh \in Meshes(Positions(file.blendShapeChannelNames)),
           NEW number, mesh.name = number, mesh = Nth(file.meshes, number)
    PROVE  MeshIsKept(FilteredMesh(mesh), number, dna.blendShapeChannelNames)
<1> DEFINE names == dna.blendShapeChannelNames
           s == mesh.targets
           left == FilteredMesh(mesh).targets
           C == Positions(file.blendShapeChannelNames)
<1>1. DOMAIN FilteredMesh(mesh) = {"name", "skin", "targets"} /\ FilteredMesh(mesh).name = number
  BY DEF FilteredMesh
<1>2. left = IF ~ Loads("blendshapes") THEN <<>>
             ELSE IF Filters THEN Among(s, archive.channels.passing) ELSE s
  BY DEF FilteredMesh
<1>3. s \in Seq(C)
  BY DEF Meshes
<1>4. /\ ToSet(names) = Positions(names)
      /\ \A j \in Positions(names) : Nth(names, j) = j
      /\ Filters => archive.channels.passing = ToSet(names)
      /\ ~Filters => Positions(names) = C
  BY ChannelsAre
<1>5. TargetsOf(number) = IF Loads("blendshapes") THEN ToSet(s) ELSE {}
  BY DEF TargetsOf
<1> HIDE DEF names, s, left, C
<1>6. left \in Seq(C) /\ ToSet(left) = TargetsOf(number) \cap ToSet(names)
  <2>1. CASE ~ Loads("blendshapes")
    <3>1. left = <<>> /\ ToSet(<<>>) = {} /\ <<>> \in Seq(C)
      BY <1>2, <2>1 DEF ToSet
    <3> QED  BY <1>5, <2>1, <3>1
  <2>2. CASE Loads("blendshapes") /\ Filters
    BY <1>2, <1>3, <1>4, <1>5, <2>2, AmongKeeps
  <2>3. CASE Loads("blendshapes") /\ ~Filters
    <3>1. left = s /\ ToSet(s) \subseteq C
      <4>1. \A k \in DOMAIN s : s[k] \in C
        BY <1>3
      <4> QED  BY <1>2, <2>3, <4>1 DEF ToSet
    <3>2. TargetsOf(number) = ToSet(s) /\ ToSet(names) = C
      BY <1>4, <1>5, <2>3
    <3> QED  BY <1>3, <3>1, <3>2
  <2> QED  BY <2>1, <2>2, <2>3
<1>7. left \in Seq(Positions(names)) /\ ToSet(left) \subseteq Positions(names)
  BY <1>4, <1>6, ListOfElements
<1>8. {Nth(names, x) : x \in ToSet(left)} = ToSet(left)
  BY <1>4, <1>7
<1> QED  BY <1>1, <1>6, <1>7, <1>8 DEF MeshIsKept, NamesLeft, names, left

\* What a removal of channels leaves of the targets of a mesh.
LEMMA TargetsAreRemoved ==
    ASSUME NEW all, Numbered(all),
           NEW names, NEW P, NEW map, Renumbers(names, Len(all), P, map),
           NEW s, NEW wanted, NamesLeft(s, all, wanted \cap ToSet(all))
    PROVE  NamesLeft(Mapped(Among(s, P), map), names, wanted \cap ToSet(names))
<1> DEFINE A == Positions(all)
           N == Len(all)
           left == Mapped(Among(s, P), map)
<1>1. ToSet(all) = A /\ A = 0 .. N - 1 /\ \A j \in A : Nth(all, j) = j
  BY NumbersArePositions
<1>2. s \in Seq(A) /\ ToSet(s) \subseteq A /\ {Nth(all, x) : x \in ToSet(s)} = wanted \cap ToSet(all)
  BY DEF NamesLeft
<1> HIDE DEF A, N
<1>3. ToSet(s) = wanted \cap ToSet(all)
  BY <1>1, <1>2
<1>4. ToSet(names) = P /\ P \subseteq 0 .. N - 1
  BY DEF Renumbers, N
<1>5. ToSet(s) \cap P = wanted \cap ToSet(names)
  BY <1>1, <1>3, <1>4
<1>6. NamesLeft(left, names, ToSet(s) \cap P)
  BY <1>2, NamesOfKept
<1> QED  BY <1>5, <1>6

\* Meshes are loaded, and lose targets with the channels that are removed.
LEMMA MeshesKeep ==
    ASSUME FilterInv, FilterInv', DependentsInv, MeshNamesInv, ChannelsInv, MeshesInv, Next
    PROVE  MeshesInv'
<1>1. /\ step \in 1 .. 11 /\ step' = step + 1 /\ UNCHANGED <<file, config>>
      /\ step # 2 => dna'.meshNames = dna.meshNames
      /\ step \notin {2, 11} => dna'.blendShapeChannelNames = dna.blendShapeChannelNames
      /\ step \notin {4, 11} => dna'.meshes = dna.meshes
  BY WhatStepsKeep
<1>2. Loads("defn")' = Loads("defn") /\ Loads("geom")' = Loads("geom")
  BY <1>1 DEF Loads
<1>3. MeshesAre(dna)' <=> MeshesAre(dna')
  BY <1>1 DEF MeshesAre, MeshIsKept, TargetsOf, Loads, NamesLeft
<1>4. CASE step < 4
  BY <1>1, <1>4 DEF MeshesInv
<1>5. CASE step \in 5 .. 10
  <2>1. /\ dna'.meshNames = dna.meshNames /\ dna'.meshes = dna.meshes
        /\ dna'.blendShapeChannelNames = dna.blendShapeChannelNames
        /\ step > 4 /\ step < 12
    BY <1>1, <1>5
  <2>2. MeshesAre(dna') <=> MeshesAre(dna)
    BY <2>1 DEF MeshesAre
  <2> QED  BY <1>2, <1>3, <2>1, <2>2 DEF MeshesInv
<1>6. CASE step = 4
  <2>1. LoadGeometry /\ DOMAIN dna = Fields
    BY <1>6, WhatIsLoaded, LaterStep
  <2> SUFFICES ASSUME Loads("defn"), Loads("geom")
               PROVE  MeshesAre(dna') /\ Len(dna'.meshes) = Len(dna'.meshNames)
    BY <1>2, <1>3 DEF MeshesInv
  <2> DEFINE kept == IF Filters THEN KeepPositions(file.meshes, archive.meshes.passing)
                     ELSE file.meshes
             names == dna.meshNames
             channels == dna.blendShapeChannelNames
             new == dna'.meshes
             M == Meshes(Positions(file.blendShapeChannelNames))
             n == Len(names)
  <2>2. new = [i \in 1 .. Len(kept) |-> FilteredMesh(kept[i])]
    BY <2>1, FieldsAre DEF LoadGeometry
  <2>3. dna'.meshNames = names /\ dna'.blendShapeChannelNames = channels
    BY <1>1, <1>6
  <2> HIDE DEF kept
  <2>4. /\ n \in Nat /\ Len(kept) = n
        /\ \A k \in 1 .. n : /\ kept[k] \in M /\ kept[k].name = names[k]
                             /\ kept[k] = Nth(file.meshes, names[k])
    BY <1>6, MeshesToLoad DEF kept
  <2> HIDE DEF new, n
  <2>5. DOMAIN new = 1 .. n /\ \A k \in 1 .. n : new[k] = FilteredMesh(kept[k])
    BY <2>2, <2>4
  <2>6. ASSUME NEW k \in 1 .. n
        PROVE  MeshIsKept(new[k], names[k], channels)
    <3>1. MeshIsKept(FilteredMesh(kept[k]), names[k], channels)
      BY <1>6, <2>4, FilteredMeshIsKept
    <3> QED  BY <2>5, <3>1
  <2>7. Len(new) = n
    <3>1. new = [k \in 1 .. n |-> new[k]]
      BY <2>2, <2>4
    <3> QED  BY <2>4, <3>1, LengthOfList
  <2> QED  BY <2>3, <2>4, <2>5, <2>6, <2>7 DEF MeshesAre, new, n
<1>7. CASE step = 11
  <2>1. PostFilter /\ dna'.meshNames = dna.meshNames
    BY <1>1, <1>7, WhatIsLoaded
  <2>2. CASE archive' = archive /\ dna' = dna
    BY <1>1, <1>2, <1>3, <1>7, <2>2 DEF MeshesInv
  <2>3. CASE ~(archive' = archive /\ dna' = dna)
    <3> SUFFICES ASSUME Loads("defn"), Loads("geom") PROVE MeshesAre(dna')
      BY <1>1, <1>2, <1>3, <1>7 DEF MeshesInv
    <3> DEFINE all == dna.blendShapeChannelNames
               channels == dna'.blendShapeChannelNames
               names == dna.meshNames
               n == Len(names)
               old == dna.meshes
               new == dna'.meshes
    <3>1. /\ Renumbers(channels, Len(all), FilterLeft.passing, FilterLeft.remapped)
          /\ new = [m \in 1 .. Len(old) |-> [old[m] EXCEPT !.targets = TargetsLeft(old[m])]]
      BY <2>1, <2>3, WhatIsRemoved
    <3>2. Numbered(all)
      BY <1>7, ChannelsAre
    <3>3. /\ n \in Nat /\ DOMAIN old = 1 .. n /\ Len(old) = n
          /\ \A m \in 1 .. n : MeshIsKept(old[m], names[m], all)
      BY <1>7 DEF MeshesInv, MeshesAre
    <3> HIDE DEF all, channels, old, new, n
    <3>4. DOMAIN new = 1 .. n
          /\ \A m \in 1 .. n : new[m] = [old[m] EXCEPT !.targets = TargetsLeft(old[m])]
      BY <3>1, <3>3
    <3>5. ASSUME NEW m \in 1 .. n
          PROVE  MeshIsKept(new[m], names[m], channels)
      <4>1. /\ DOMAIN old[m] = {"name", "skin", "targets"} /\ old[m].name = names[m]
            /\ NamesLeft(old[m].targets, all, TargetsOf(names[m]) \cap ToSet(all))
        BY <3>3 DEF MeshIsKept
      <4>2. /\ DOMAIN new[m] = {"name", "skin", "targets"} /\ new[m].name = names[m]
            /\ new[m].targets = TargetsLeft(old[m])
        BY <3>4, <4>1
      <4>3. NamesLeft(TargetsLeft(old[m]), channels, TargetsOf(names[m]) \cap ToSet(channels))
        BY <3>1, <3>2, <4>1, TargetsAreRemoved DEF TargetsLeft
      <4> QED  BY <4>2, <4>3 DEF MeshIsKept
    <3> QED  BY <2>1, <3>3, <3>4, <3>5 DEF MeshesAre, channels, new, n
  <2> QED  BY <2>2, <2>3
<1> QED  BY <1>1, <1>4, <1>5, <1>6, <1>7

\* The networks of the regions of a mesh are those of before that are loaded too.
RegionsAre(regions, networks, before) ==
    /\ \A r \in DOMAIN regions : ToSet(regions[r]) \subseteq Positions(networks)
    /\ [r \in DOMAIN regions |-> {Nth(networks, n) : n \in ToSet(regions[r])}] =
       [r \in DOMAIN before |-> ToSet(before[r]) \cap ToSet(networks)]

AllRegionsAre(doc) ==
    \A m \in DOMAIN doc.regions :
        RegionsAre(doc.regions[m], doc.neuralNetworks, Nth(file.regions, doc.meshNames[m]))

RegionsInv == step > 5 /\ Loads("defn") /\ Loads("mlbh") => AllRegionsAre(dna)

\* Regions of a mesh keep the networks that pass.
LEMMA NetworksOfRegions ==
    ASSUME NEW networks, NEW N, NEW P, NEW map, Renumbers(networks, N, P, map),
           NEW S, NEW before \in Seq(Seq(S)), NEW new,
           new = [r \in 1 .. Len(before) |-> Mapped(Among(before[r], P), map)]
    PROVE  RegionsAre(new, networks, before)
<1> DEFINE R == 1 .. Len(before)
<1>1. DOMAIN before = R /\ DOMAIN new = R
  OBVIOUS
<1>2. ToSet(networks) = P
  BY DEF Renumbers
<1>3. ASSUME NEW r \in R
      PROVE  /\ ToSet(new[r]) \subseteq Positions(networks)
             /\ {Nth(networks, n) : n \in ToSet(new[r])} = ToSet(before[r]) \cap P
  <2>1. before[r] \in Seq(S)
    <3> DEFINE T == Seq(S)
    <3>1. before \in Seq(T)
      OBVIOUS
    <3> HIDE DEF T
    <3>2. before[r] \in T
      BY <3>1
    <3> QED  BY <3>2 DEF T
  <2> DEFINE s == before[r]
  <2>2. NamesLeft(Mapped(Among(s, P), map), networks, ToSet(s) \cap P)
    <3> HIDE DEF s
    <3>1. s \in Seq(S)
      BY <2>1 DEF s
    <3> QED  BY <3>1, NamesOfKept
  <2>3. new[r] = Mapped(Among(s, P), map)
    OBVIOUS
  <2> QED  BY <2>2, <2>3 DEF NamesLeft
<1> HIDE DEF R
<1>4. [r \in DOMAIN new |-> {Nth(networks, n) : n \in ToSet(new[r])}] =
      [r \in DOMAIN before |-> ToSet(before[r]) \cap ToSet(networks)]
  BY <1>1, <1>2, <1>3
<1> QED  BY <1>1, <1>3, <1>4 DEF RegionsAre

\* With all networks, regions are as they are in the file.
LEMMA NetworksOfAllRegions ==
    ASSUME NEW networks, Numbered(networks), NEW before \in Seq(Seq(Positions(networks)))
    PROVE  RegionsAre(before, networks, before)
<1> DEFINE A == Positions(networks)
           T == Seq(A)
<1>1. ToSet(networks) = A /\ \A j \in A : Nth(networks, j) = j
  BY NumbersArePositions
<1>2. before \in Seq(T)
  OBVIOUS
<1> HIDE DEF A
<1>3. ASSUME NEW r \in DOMAIN before
      PROVE  ToSet(before[r]) \subseteq A
  <2> HIDE DEF T
  <2>1. before[r] \in T
    BY <1>2
  <2> DEFINE s == before[r]
  <2>2. s \in Seq(A)
    BY <2>1 DEF T
  <2> HIDE DEF s
  <2>3. \A k \in DOMAIN s : s[k] \in A
    BY <2>2
  <2>4. ToSet(s) \subseteq A
    BY <2>3 DEF ToSet
  <2> QED  BY <2>4 DEF s
<1>4. ASSUME NEW r \in DOMAIN before
      PROVE  {Nth(networks, n) : n \in ToSet(before[r])} = ToSet(before[r]) \cap ToSet(networks)
  BY <1>1, <1>3
<1>5. [r \in DOMAIN before |-> {Nth(networks, n) : n \in ToSet(before[r])}] =
      [r \in DOMAIN before |-> ToSet(before[r]) \cap ToSet(networks)]
  BY <1>4
<1> QED  BY <1>3, <1>5 DEF RegionsAre, A

\* Networks are loaded with the regions that use them.
LEMMA RegionsKeep ==
    ASSUME FilterInv, FilterInv', DependentsInv, MeshNamesInv, RegionsInv, Next
    PROVE  RegionsInv'
<1>1. /\ step \in 1 .. 11 /\ step' = step + 1 /\ UNCHANGED <<file, config>>
      /\ step # 2 => dna'.meshNames = dna.meshNames
      /\ step # 5 => dna'.neuralNetworks = dna.neuralNetworks /\ dna'.regions = dna.regions
  BY WhatStepsKeep
<1>2. Loads("defn")' = Loads("defn") /\ Loads("mlbh")' = Loads("mlbh")
  BY <1>1 DEF Loads
<1>3. AllRegionsAre(dna)' <=> AllRegionsAre(dna')
  BY <1>1 DEF AllRegionsAre, RegionsAre
<1>4. CASE step < 5
  BY <1>1, <1>4 DEF RegionsInv
<1>5. CASE step > 5
  <2>1. /\ dna'.meshNames = dna.meshNames /\ dna'.neuralNetworks = dna.neuralNetworks
        /\ dna'.regions = dna.regions
    BY <1>1, <1>5
  <2>2. AllRegionsAre(dna') <=> AllRegionsAre(dna)
    BY <2>1 DEF AllRegionsAre
  <2> QED  BY <1>2, <1>3, <1>5, <2>2 DEF RegionsInv
<1>6. CASE step = 5
  <2>1. /\ LoadNetworks /\ DOMAIN dna = Fields /\ Consistent(file)
        /\ IsConstraint(archive.lods, file.lodCount) /\ file.lodCount \in Nat
        /\ dna'.meshNames = dna.meshNames
    BY <1>1, <1>6, WhatIsLoaded, LaterStep
  <2> SUFFICES ASSUME Loads("defn"), Loads("mlbh") PROVE AllRegionsAre(dna')
    BY <1>2, <1>3 DEF RegionsInv
  <2> DEFINE names == dna.meshNames
             all == file.neuralNetworks
             networks == dna'.neuralNetworks
             t == file.regions
             new == dna'.regions
             S == Positions(all)
             T == Seq(Seq(S))
  <2>2. /\ Numbered(all)
        /\ IsMapping(file.lodNeuralNetworkMapping, file.lodCount, Len(all))
        /\ Numbered(file.meshNames)
    BY <2>1 DEF Consistent, IsTable
  <2>3. t \in Seq(T) /\ Len(t) = Len(file.meshNames)
    BY DEF DependentsInv, MeshesAgree
  <2>4. IF Filters THEN MeshesLeft ELSE names = file.meshNames
    BY <1>6 DEF MeshNamesInv
  <2>5. SUFFICES ASSUME NEW m \in DOMAIN new
                 PROVE  RegionsAre(new[m], networks, Nth(t, names[m]))
    BY <2>1 DEF AllRegionsAre
  <2>6. CASE Filters
    <3> DEFINE k == KeptBy(file.lodNeuralNetworkMapping, all)
               kept == KeepPositions(t, archive.meshes.passing)
               P == k.filter.passing
               map == k.filter.remapped
    <3>1. networks = k.names /\ new = FilteredRegions(t, k.filter)
      BY <2>1, <2>6, FieldsAre DEF LoadNetworks, Read
    <3>2. Renumbers(networks, Len(all), P, map)
      <4>1. all \in Seq(Nat)
        BY <2>2, NumberedNames
      <4> DEFINE D == CombinedDistinctIndices(DiscardLODs(file.lodNeuralNetworkMapping, archive.lods))
      <4>2. /\ D \in SUBSET (0 .. Len(all) - 1) /\ P = D /\ k.names = KeepPositions(all, D)
            /\ \A i \in D : map[i] = Place(D, i)
        <5> HIDE DEF all
        <5> QED  BY <2>1, <2>2, <4>1, KeptByGives
      <4> HIDE DEF D, k, all, networks
      <4>3. networks = KeepPositions(all, P) /\ P \in SUBSET (0 .. Len(all) - 1)
            /\ \A i \in P : map[i] = Place(P, i)
        BY <3>1, <4>2
      <4> HIDE DEF P, map
      <4> QED  BY <2>2, <4>3, KeptNumbers
    <3>3. Renumbers(names, Len(t), archive.meshes.passing, archive.meshes.remapped)
      BY <2>3, <2>4, <2>6 DEF MeshesLeft
    <3> HIDE DEF k, kept, networks, names, t, all, T, S
    <3>4. /\ kept \in Seq(T) /\ Len(kept) = Len(names) /\ Len(names) \in Nat
          /\ \A j \in 1 .. Len(names) : kept[j] = Nth(t, names[j])
      BY <2>3, <3>3, EntriesOfKept DEF kept
    <3>5. new = [j \in 1 .. Len(kept) |->
                    [r \in 1 .. Len(kept[j]) |-> Mapped(Among(kept[j][r], P), map)]]
      BY <3>1 DEF FilteredRegions, kept
    <3> HIDE DEF new, P, map
    <3>6. /\ m \in 1 .. Len(kept) /\ kept[m] \in T /\ kept[m] = Nth(t, names[m])
          /\ new[m] = [r \in 1 .. Len(kept[m]) |-> Mapped(Among(kept[m][r], P), map)]
      BY <2>5, <3>4, <3>5
    <3>7. kept[m] \in Seq(Seq(S))
      BY <3>6 DEF T
    <3>8. RegionsAre(new[m], networks, kept[m])
      BY <3>2, <3>6, <3>7, NetworksOfRegions
    <3> QED  BY <3>6, <3>8
  <2>7. CASE ~Filters
    <3>1. networks = all /\ new = t
      BY <2>1, <2>7, FieldsAre DEF LoadNetworks, Read, networkFields
    <3>2. names = file.meshNames
      BY <2>4, <2>7
    <3> HIDE DEF T
    <3>3. m \in 1 .. Len(t) /\ t[m] \in T
      BY <2>3, <2>5, <3>1
    <3>4. names[m] = m - 1 /\ m \in Nat
      BY <2>2, <2>3, <3>2, <3>3, NumberedNames DEF Numbered
    <3>5. Nth(t, names[m]) = t[m]
      BY <3>4 DEF Nth
    <3>6. t[m] \in Seq(Seq(S))
      BY <3>3 DEF T
    <3>7. RegionsAre(t[m], all, t[m])
      BY <2>2, <3>6, NetworksOfAllRegions
    <3> QED  BY <3>1, <3>5, <3>7
  <2> QED  BY <2>6, <2>7
<1> QED  BY <1>1, <1>4, <1>5, <1>6
-----------------------------------------------------------------------------
(* What is kept of the elements.                                            *)

\* What is kept of joints, meshes and operations is what it was in the file.
ElementsInv ==
    /\ DependentsInv /\ DependenciesInv
    /\ JointsInv /\ RepresentationsInv /\ TwistsInv /\ MLJointsInv
    /\ MeshNamesInv /\ ChannelsInv /\ PairsInv /\ MeshesInv /\ RegionsInv

\* Nothing is loaded at first, and files agree with themselves.
LEMMA InitElementsInv ==
    ASSUME Init
    PROVE  ElementsInv
<1>1. step = 1
  BY DEF Init
<1>2. DependentsInv
  BY DependentsAssumption DEF Init, DependentsInv
<1>3. DependenciesInv /\ JointsInv /\ RepresentationsInv /\ TwistsInv /\ MLJointsInv
  BY <1>1 DEF DependenciesInv, JointsInv, RepresentationsInv, TwistsInv, MLJointsInv
<1>4. MeshNamesInv /\ ChannelsInv /\ PairsInv /\ MeshesInv /\ RegionsInv
  BY <1>1 DEF MeshNamesInv, ChannelsInv, PairsInv, MeshesInv, RegionsInv
<1> QED  BY <1>2, <1>3, <1>4 DEF ElementsInv

\* A step that changes nothing keeps it.
LEMMA ElementsStay ==
    ASSUME ElementsInv, UNCHANGED vars
    PROVE  ElementsInv'
<1>1. UNCHANGED <<file, config, archive, dna, step>>
  BY DEF vars
<1>2. Filters' = Filters /\ \A layer : Loads(layer)' = Loads(layer)
  BY <1>1 DEF Filters, Loads
<1>3. DependentsInv' /\ DependenciesInv'
  <2>1. /\ \A op : Dependencies(dna, op)' = Dependencies(dna, op)
        /\ \A op : Dependencies(file, op)' = Dependencies(file, op)
    BY <1>1 DEF Dependencies
  <2>2. \A s : DependenciesAreKept(dna, s)' <=> DependenciesAreKept(dna, s)
    BY <1>1, <2>1 DEF DependenciesAreKept
  <2> QED  BY <1>1, <1>2, <2>2 DEF ElementsInv, DependentsInv, DependenciesInv
<1>4. JointsInv' /\ RepresentationsInv'
  BY <1>1, <1>2 DEF ElementsInv, JointsInv, JointsLeft, AllJoints, ParentsAreKept, RepresentationsInv
<1>5. TwistsInv' /\ MLJointsInv'
  BY <1>1, <1>2 DEF ElementsInv, TwistsInv, MoveAsBefore, MovesKept, MLJointsInv, MLOutputs
<1>6. MeshNamesInv' /\ ChannelsInv'
  BY <1>1, <1>2 DEF ElementsInv, MeshNamesInv, MeshesLeft, ChannelsInv, ChannelsLeft
<1>7. PairsInv' /\ MeshesInv'
  <2>1. PairsAreKept(dna)' <=> PairsAreKept(dna)
    BY <1>1 DEF PairsAreKept, PairsLeft, PairsNamed
  <2>2. MeshesAre(dna)' <=> MeshesAre(dna)
    <3>1. \A number : TargetsOf(number)' = TargetsOf(number)
      BY <1>1, <1>2 DEF TargetsOf
    <3>2. \A mesh, number, names : MeshIsKept(mesh, number, names)' <=> MeshIsKept(mesh, number, names)
      BY <3>1 DEF MeshIsKept, NamesLeft
    <3> QED  BY <1>1, <3>2 DEF MeshesAre
  <2> QED  BY <1>1, <1>2, <2>1, <2>2 DEF ElementsInv, PairsInv, MeshesInv
<1>8. RegionsInv'
  BY <1>1, <1>2 DEF ElementsInv, RegionsInv, AllRegionsAre, RegionsAre
<1> QED  BY <1>3, <1>4, <1>5, <1>6, <1>7, <1>8 DEF ElementsInv

\* Each layer that is loaded keeps it.
LEMMA ElementsKeep ==
    ASSUME FilterInv, FilterInv', ElementsInv, Next
    PROVE  ElementsInv'
<1>1. DependentsInv /\ DependenciesInv /\ JointsInv /\ RepresentationsInv /\ TwistsInv /\ MLJointsInv
  BY DEF ElementsInv
<1>2. MeshNamesInv /\ ChannelsInv /\ PairsInv /\ MeshesInv /\ RegionsInv
  BY DEF ElementsInv
<1>3. DependentsInv'
  <2>1. file' = file
    BY DEF Next
  <2> QED  BY <1>1, <2>1 DEF DependentsInv
<1>4. DependenciesInv'
  BY <1>1, DependenciesKeep
<1>5. JointsInv'
  BY <1>1, JointsKeep
<1>6. RepresentationsInv'
  BY <1>1, RepresentationsKeep
<1>7. TwistsInv'
  BY <1>1, TwistsKeep
<1>8. MLJointsInv'
  BY <1>1, MLJointsKeep
<1>9. MeshNamesInv'
  BY <1>1, <1>2, MeshNamesKeep
<1>10. ChannelsInv'
  BY <1>1, <1>2, ChannelsKeep
<1>11. PairsInv'
  BY <1>1, <1>2, PairsKeep
<1>12. MeshesInv'
  BY <1>1, <1>2, MeshesKeep
<1>13. RegionsInv'
  BY <1>1, <1>2, RegionsKeep
<1> QED  BY <1>3, <1>4, <1>5, <1>6, <1>7, <1>8, <1>9, <1>10, <1>11, <1>12, <1>13 DEF ElementsInv

\* What later layers say of joints, meshes and operations follows the elements that were
\* renumbered, whatever is asked of a file whose channels and maps are in order
\* (FilteredBinaryInputArchive).
THEOREM ElementsInvariant ==
    ASSUME ChannelsInOrder
    PROVE  Spec => []ElementsInv
<1>1. Init => ElementsInv
  BY InitElementsInv
<1>2. FilterInv /\ FilterInv' /\ ElementsInv /\ [Next]_vars => ElementsInv'
  BY ElementsKeep, ElementsStay
<1> QED  BY <1>1, <1>2, FilterInvariant, PTL DEF Spec

\* Operations that are kept depend on the operations they depended on in the file
\* (process(RawMachineLearnedBehaviorExt)).
THEOREM KeepsDependencies ==
    ASSUME ChannelsInOrder
    PROVE  Spec => []OperationsKeepDependencies
<1>1. FilterInv /\ ElementsInv => OperationsKeepDependencies
  <2> SUFFICES ASSUME FilterInv, ElementsInv, Loaded, Loads("mlbh")
               PROVE  \A s \in DOMAIN dna.operations : DependenciesAreKept(dna, s)
    BY DEF OperationsKeepDependencies, DependenciesAreKept
  <2>1. step = 12
    BY DEF FilterInv, LODsInv, Loaded, Layers
  <2> QED  BY <2>1 DEF ElementsInv, DependenciesInv
<1> QED  BY <1>1, ElementsInvariant, FilterInvariant, PTL

\* Parents, representations, twists, swings and machine learned outputs are those of the
\* same joints as in the file (JointFilter, process(RawTwist), process(RawMachineLearnedBehaviorExt)).
THEOREM KeepsJoints ==
    ASSUME ChannelsInOrder
    PROVE  Spec => []JointsKeepElements
<1>1. FilterInv /\ ElementsInv => JointsKeepElements
  <2> DEFINE name(j) == Nth(dna.jointNames, j)
             kept == ToSet(dna.jointNames)
             moves(twists) == [t \in DOMAIN twists |-> Moves(twists[t], dna.jointNames)]
  <2> SUFFICES ASSUME FilterInv, ElementsInv, Loaded, Loads("defn")
               PROVE  /\ \A j \in Positions(dna.jointNames) :
                            LET parent == Nth(file.jointHierarchy, name(j))
                            IN  parent \in kept => name(Nth(dna.jointHierarchy, j)) = parent
                      /\ Loads("jbmd") => \A j \in Positions(dna.jointNames) :
                            Nth(dna.jointRepresentations, j) = Nth(file.jointRepresentations, name(j))
                      /\ Loads("twsw") => /\ moves(dna.twists) = MovesKept(file.twists, kept)
                                          /\ moves(dna.swings) = MovesKept(file.swings, kept)
                      /\ Loads("mlbh") => MLOutputs(dna.mlbJoints, dna.jointNames) =
                             {o \in MLOutputs(file.mlbJoints, file.jointNames) : o[2] \in kept}
    BY DEF JointsKeepElements
  <2>1. step = 12
    BY DEF FilterInv, LODsInv, Loaded, Layers
  <2>2. \A j \in Positions(dna.jointNames) :
            LET parent == Nth(file.jointHierarchy, name(j))
            IN  parent \in kept => name(Nth(dna.jointHierarchy, j)) = parent
    BY <2>1 DEF ElementsInv, JointsInv, ParentsAreKept
  <2>3. Loads("jbmd") => \A j \in Positions(dna.jointNames) :
            Nth(dna.jointRepresentations, j) = Nth(file.jointRepresentations, name(j))
    BY <2>1 DEF ElementsInv, RepresentationsInv
  <2>4. Loads("twsw") => /\ moves(dna.twists) = MovesKept(file.twists, kept)
                         /\ moves(dna.swings) = MovesKept(file.swings, kept)
    BY <2>1 DEF ElementsInv, TwistsInv, MoveAsBefore
  <2>5. Loads("mlbh") => MLOutputs(dna.mlbJoints, dna.jointNames) =
            {o \in MLOutputs(file.mlbJoints, file.jointNames) : o[2] \in kept}
    BY <2>1 DEF ElementsInv, MLJointsInv
  <2> QED  BY <2>2, <2>3, <2>4, <2>5
<1> QED  BY <1>1, ElementsInvariant, FilterInvariant, PTL

\* Meshes line up with their names, and their targets, pairs and networks are those of the
\* file (MeshFilter, BlendShapeFilter, process(RawMachineLearnedBehavior)).
THEOREM KeepsMeshes ==
    ASSUME ChannelsInOrder
    PROVE  Spec => []MeshesKeepElements
<1>1. FilterInv /\ ElementsInv => MeshesKeepElements
  <2> SUFFICES ASSUME FilterInv, ElementsInv, Loaded, Loads("defn")
               PROVE  /\ PairsNamed(dna.meshBlendShapeChannelMapping, dna.meshNames,
                                    dna.blendShapeChannelNames) =
                            {p \in ToSet(file.meshBlendShapeChannelMapping) :
                                p[1] \in ToSet(dna.meshNames)
                                /\ p[2] \in ToSet(dna.blendShapeChannelNames)}
                      /\ Loads("geom") =>
                            [m \in DOMAIN dna.meshes |-> dna.meshes[m].name] = dna.meshNames
                      /\ TargetsMatchChannels
                      /\ Loads("mlbh") => \A m \in DOMAIN dna.regions : RegionsKeepNetworks(m)
    BY DEF MeshesKeepElements
  <2>1. step = 12
    BY DEF FilterInv, LODsInv, Loaded, Layers
  <2>2. /\ PairsAreKept(dna)
        /\ Loads("geom") => MeshesAre(dna)
        /\ Loads("mlbh") => AllRegionsAre(dna)
        /\ IF Filters THEN MeshesLeft ELSE dna.meshNames = file.meshNames
    BY <2>1 DEF ElementsInv, PairsInv, MeshesInv, RegionsInv, MeshNamesInv
  <2>3. PairsNamed(dna.meshBlendShapeChannelMapping, dna.meshNames, dna.blendShapeChannelNames) =
           {p \in ToSet(file.meshBlendShapeChannelMapping) :
               p[1] \in ToSet(dna.meshNames) /\ p[2] \in ToSet(dna.blendShapeChannelNames)}
    BY <2>2 DEF PairsAreKept, PairsLeft
  <2>4. Loads("geom") => [m \in DOMAIN dna.meshes |-> dna.meshes[m].name] = dna.meshNames
    <3> SUFFICES ASSUME Loads("geom")
                 PROVE  [m \in DOMAIN dna.meshes |-> dna.meshes[m].name] = dna.meshNames
      OBVIOUS
    <3>1. /\ DOMAIN dna.meshes = 1 .. Len(dna.meshNames)
          /\ \A m \in 1 .. Len(dna.meshNames) : dna.meshes[m].name = dna.meshNames[m]
      BY <2>2 DEF MeshesAre, MeshIsKept
    <3>2. dna.meshNames \in Seq(Nat)
      <4>1. Numbered(file.meshNames)
        BY DEF FilterInv, RequestInv, Consistent, IsTable
      <4> QED  BY <2>2, <4>1 DEF MeshesLeft, Renumbers, Numbered
    <3>3. dna.meshNames = [m \in 1 .. Len(dna.meshNames) |-> dna.meshNames[m]]
      BY <3>2
    <3> QED  BY <3>1, <3>3
  <2>5. TargetsMatchChannels
    <3> SUFFICES ASSUME Loads("geom"), NEW m \in DOMAIN dna.meshes
                 PROVE  LET names == dna.blendShapeChannelNames
                            channels == ToSet(dna.meshes[m].targets)
                        IN  /\ channels \subseteq Positions(names)
                            /\ {Nth(names, c) : c \in channels} =
                                   IF Loads("blendshapes")
                                   THEN ToSet(Nth(file.meshes, dna.meshes[m].name).targets)
                                            \cap ToSet(names)
                                   ELSE {}
      BY DEF TargetsMatchChannels
    <3> DEFINE names == dna.blendShapeChannelNames
               number == dna.meshes[m].name
    <3>1. MeshIsKept(dna.meshes[m], dna.meshNames[m], names)
      BY <2>2 DEF MeshesAre
    <3>2. NamesLeft(dna.meshes[m].targets, names, TargetsOf(number) \cap ToSet(names))
      BY <3>1 DEF MeshIsKept
    <3>3. TargetsOf(number) \cap ToSet(names) =
             IF Loads("blendshapes") THEN ToSet(Nth(file.meshes, number).targets) \cap ToSet(names)
             ELSE {}
      BY DEF TargetsOf
    <3> QED  BY <3>2, <3>3 DEF NamesLeft
  <2>6. Loads("mlbh") => \A m \in DOMAIN dna.regions : RegionsKeepNetworks(m)
    BY <2>2 DEF AllRegionsAre, RegionsAre, RegionsKeepNetworks
  <2> QED  BY <2>3, <2>4, <2>5, <2>6
<1> QED  BY <1>1, ElementsInvariant, FilterInvariant, PTL
=============================================================================
