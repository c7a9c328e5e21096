-------------------------- MODULE CurveTablesProofs --------------------------
(***************************************************************************)
(* What the conditional tables compute, proved for every table that the      *)
(* factories can build: the forward pass, whose loop jumps over the rest of   *)
(* a curve once a row of it contributed, sums the curves, and the reverse     *)
(* pass finds inputs that lead to the outputs it was given.                  *)
(*                                                                         *)
(* Two rows are Joined when all the rows from one to the other belong to one *)
(* curve.  A row contributes exactly when it is hit and no row it is joined   *)
(* to is hit before it; both the loop and the definition of a curve are       *)
(* reduced to that.                                                         *)
(***************************************************************************)
EXTENDS CurveTables, WellFoundedInduction, NaturalsInduction, FiniteSetTheorems, TLAPS

\* Rows of a table, their intervals in order
Rows ==
    {r \in [in : Inputs, out : Outputs, from : Int, to : Int, slope : Int, cut : Int] :
        r.from <= r.to}

TableInv ==
    /\ table \in Seq(Rows)
    /\ inputs \in [Inputs -> Int]

Joined(t, i, j) == \A k \in i .. j : SameCurve(t[i], t[k])

Hit(t, i, in) == InInterval(t[i], in[t[i].in])

\* The rows that are hit before any row they are joined to
FirstOfCurve(t, n, in) ==
    {i \in 1 .. n : Hit(t, i, in) /\ \A j \in 1 .. i - 1 : Hit(t, j, in) => ~Joined(t, j, i)}
-----------------------------------------------------------------------------
(* Least and greatest numbers.                                              *)

\* A set of natural numbers that is not empty has a least one, and Min picks it.
LEMMA LeastOf ==
    ASSUME NEW T \in SUBSET Nat, T # {}
    PROVE  Min(T) \in T /\ \A y \in T : Min(T) <= y
<1> DEFINE R == {pair \in Nat \X Nat : pair[1] < pair[2]}
<1>1. IsWellFoundedOn(R, Nat)
  BY NatLessThanWellFounded DEF OpToRel
<1> HIDE DEF R
<1>2. PICK x \in T : \A y \in T : ~(<<y, x>> \in R)
  BY <1>1, WFMin
<1>3. \A y \in T : x <= y
  <2> TAKE y \in T
  <2>1. <<y, x>> \in R <=> y < x
    BY DEF R
  <2> QED  BY <1>2, <2>1
<1> QED  BY <1>3 DEF Min

\* Natural numbers with a bound have a greatest one, and Max picks it.
LEMMA GreatestOf ==
    ASSUME NEW n \in Nat, NEW S \in SUBSET (0 .. n), S # {}
    PROVE  Max(S) \in S /\ \A y \in S : y <= Max(S)
<1> DEFINE T == {n - s : s \in S}
<1>1. T \in SUBSET Nat /\ T # {}
  <2>1. \A s \in S : n - s \in Nat
    OBVIOUS
  <2>2. PICK s \in S : TRUE
    OBVIOUS
  <2> QED  BY <2>1, <2>2
<1> DEFINE x == Min(T)
<1>2. x \in T /\ \A y \in T : x <= y
  BY <1>1, LeastOf
<1> HIDE DEF x
<1>3. PICK s \in S : x = n - s
  BY <1>2
<1>4. \A u \in S : s >= u
  <2> TAKE u \in S
  <2>1. n - s <= n - u
    BY <1>2, <1>3
  <2> QED  BY <2>1
<1>5. Max(S) \in S /\ \A y \in S : Max(S) >= y
  BY <1>4 DEF Max
<1> QED  BY <1>5
-----------------------------------------------------------------------------
(* Curves.                                                                  *)

\* What is joined is joined piece by piece.
LEMMA JoinedParts ==
    ASSUME NEW t, NEW i \in Nat, NEW k \in Nat, NEW j \in Nat, i <= k, k <= j,
           Joined(t, i, j)
    PROVE  Joined(t, i, k) /\ Joined(t, k, j) /\ SameCurve(t[i], t[k])
<1>1. SameCurve(t[i], t[k])
  BY DEF Joined
<1>2. Joined(t, i, k)
  BY DEF Joined
<1>3. Joined(t, k, j)
  <2> SUFFICES ASSUME NEW m \in k .. j PROVE SameCurve(t[k], t[m])
    BY DEF Joined
  <2>1. SameCurve(t[i], t[m])
    BY DEF Joined
  <2> QED  BY <1>1, <2>1 DEF SameCurve
<1> QED  BY <1>1, <1>2, <1>3

\* Rows that are joined to one row are joined through it.
LEMMA JoinedChain ==
    ASSUME NEW t, NEW i \in Nat, NEW k \in Nat, NEW j \in Nat, i <= k, k <= j,
           Joined(t, i, k), Joined(t, k, j)
    PROVE  Joined(t, i, j)
<1> SUFFICES ASSUME NEW m \in i .. j PROVE SameCurve(t[i], t[m])
  BY DEF Joined
<1>1. SameCurve(t[i], t[k])
  BY DEF Joined
<1>2. CASE m <= k
  BY <1>2 DEF Joined
<1>3. CASE k <= m
  <2>1. SameCurve(t[k], t[m])
    BY <1>3 DEF Joined
  <2> QED  BY <1>1, <2>1 DEF SameCurve
<1> QED  BY <1>2, <1>3

\* The skip map: row i lies behind the rows that j jumps over exactly when the
\* two are not joined.
LEMMA Jump ==
    ASSUME NEW t, Len(t) \in Nat, NEW j \in 1 .. Len(t)
    PROVE  /\ IntervalsRemaining(t, j) \in 0 .. Len(t) - j
           /\ Joined(t, j, j + IntervalsRemaining(t, j))
           /\ \A i \in j .. Len(t) : j + IntervalsRemaining(t, j) < i <=> ~Joined(t, j, i)
<1> DEFINE after == {i \in j .. Len(t) : \A k \in j .. i : SameCurve(t[j], t[k])}
           last == Max(after)
<1>1. after \in SUBSET (0 .. Len(t)) /\ j \in after
  BY DEF SameCurve
<1>2. last \in after /\ \A i \in after : i <= last
  BY <1>1, GreatestOf
<1>3. IntervalsRemaining(t, j) = last - j
  BY DEF IntervalsRemaining
<1>4. last \in j .. Len(t) /\ Joined(t, j, last)
  BY <1>2 DEF Joined
<1>5. \A i \in j .. Len(t) : Joined(t, j, i) => i <= last
  BY <1>2 DEF Joined
<1> HIDE DEF last, after
<1>6. j + IntervalsRemaining(t, j) = last /\ IntervalsRemaining(t, j) \in 0 .. Len(t) - j
  BY <1>3, <1>4
<1>7. ASSUME NEW i \in j .. Len(t)
      PROVE  last < i <=> ~Joined(t, j, i)
  <2>1. CASE i <= last
    BY <1>4, <2>1, JoinedParts
  <2>2. CASE last < i
    BY <1>4, <1>5, <2>2
  <2> QED  BY <1>4, <2>1, <2>2
<1> QED  BY <1>4, <1>6, <1>7

\* A row is hit first in its curve when no row that is first is joined to it.
LEMMA FirstOfCurveStep ==
    ASSUME NEW t, NEW n \in Nat, NEW in, NEW i \in 1 .. n
    PROVE  i \in FirstOfCurve(t, n, in) <=>
              /\ Hit(t, i, in)
              /\ \A j \in 1 .. i - 1 : j \in FirstOfCurve(t, n, in) => ~Joined(t, j, i)
<1> DEFINE First == FirstOfCurve(t, n, in)
<1>1. i \in First => Hit(t, i, in) /\ \A j \in 1 .. i - 1 : j \in First => ~Joined(t, j, i)
  BY DEF FirstOfCurve
<1>2. ASSUME Hit(t, i, in), \A j \in 1 .. i - 1 : j \in First => ~Joined(t, j, i)
      PROVE  i \in First
  <2> SUFFICES ASSUME NEW j0 \in 1 .. i - 1, Hit(t, j0, in), Joined(t, j0, i)
               PROVE  FALSE
    BY <1>2 DEF FirstOfCurve
  <2> DEFINE before == {j \in 1 .. i - 1 : Hit(t, j, in) /\ Joined(t, j, i)}
             first == Min(before)
  <2>1. before \in SUBSET Nat /\ j0 \in before
    OBVIOUS
  <2>2. first \in before /\ \A j \in before : first <= j
    BY <2>1, LeastOf
  <2> HIDE DEF first
  <2>3. first \in 1 .. i - 1 /\ Hit(t, first, in) /\ Joined(t, first, i)
    BY <2>2
  <2>4. ASSUME NEW j \in 1 .. first - 1, Hit(t, j, in), Joined(t, j, first)
        PROVE  FALSE
    <3>1. Joined(t, j, i)
      BY <2>3, <2>4, JoinedChain
    <3>2. j \in before /\ j < first
      BY <2>3, <2>4, <3>1
    <3> QED  BY <2>2, <2>3, <3>2
  <2>5. first \in First
    BY <2>3, <2>4 DEF FirstOfCurve
  <2> QED  BY <1>2, <2>3, <2>5
<1> QED  BY <1>1, <1>2

\* The loop takes the first row that is hit of each curve: the recursion over
\* the rows before has one solution.
LEMMA LoopTakesFirst ==
    ASSUME NEW t, Len(t) \in Nat, NEW n \in 0 .. Len(t), NEW in
    PROVE  Contributing(t, n, in) = FirstOfCurve(t, n, in)
<1> DEFINE First == FirstOfCurve(t, n, in)
           Row1(f, i) == /\ InInterval(t[i], in[t[i].in])
                         /\ \A j \in 1 .. i - 1 : f[j] => j + IntervalsRemaining(t, j) < i
           Solves(f) == f = [i \in 1 .. n |-> Row1(f, i)]
           fires == CHOOSE f : Solves(f)
<1>1. ASSUME NEW i \in 1 .. n, NEW j \in 1 .. i - 1
      PROVE  j + IntervalsRemaining(t, j) < i <=> ~Joined(t, j, i)
  <2>1. j \in 1 .. Len(t) /\ i \in j .. Len(t)
    OBVIOUS
  <2> QED  BY <2>1, Jump
<1>2. ASSUME NEW f, NEW i \in 1 .. n, \A j \in 1 .. i - 1 : f[j] <=> j \in First
      PROVE  Row1(f, i) <=> i \in First
  <2>1. i \in First <=> /\ Hit(t, i, in)
                        /\ \A j \in 1 .. i - 1 : j \in First => ~Joined(t, j, i)
    BY FirstOfCurveStep
  <2>2. \A j \in 1 .. i - 1 : (f[j] => j + IntervalsRemaining(t, j) < i)
                              <=> (j \in First => ~Joined(t, j, i))
    BY <1>1, <1>2
  <2>3. Row1(f, i) <=> /\ Hit(t, i, in)
                       /\ \A j \in 1 .. i - 1 : j \in First => ~Joined(t, j, i)
    BY <2>2 DEF Hit
  <2> QED  BY <2>1, <2>3
<1>3. \E f : Solves(f)
  <2> DEFINE g == [i \in 1 .. n |-> i \in First]
  <2>1. ASSUME NEW i \in 1 .. n
        PROVE  g[i] = Row1(g, i)
    <3> HIDE DEF First
    <3>1. \A j \in 1 .. n : g[j] = (j \in First)
      OBVIOUS
    <3> HIDE DEF g
    <3>2. \A j \in 1 .. i - 1 : j \in 1 .. n
      OBVIOUS
    <3>3. \A j \in 1 .. i - 1 : g[j] <=> j \in First
      BY <3>1, <3>2, Zenon
    <3>4. Row1(g, i) <=> i \in First
      BY <1>2, <3>3
    <3>5. Row1(g, i) \in BOOLEAN
      OBVIOUS
    <3> HIDE DEF Row1
    <3>6. Row1(g, i) = (i \in First)
      BY <3>4, <3>5
    <3> QED  BY <3>1, <3>6
  <2>2. g = [i \in 1 .. n |-> g[i]]
    OBVIOUS
  <2> HIDE DEF g, First
  <2>3. g = [i \in 1 .. n |-> Row1(g, i)]
    BY <2>1, <2>2
  <2> QED  BY <2>3
<1>4. Solves(fires)
  BY <1>3
<1>5. Contributing(t, n, in) = {i \in 1 .. n : fires[i]}
  BY DEF Contributing
<1> HIDE DEF fires
<1>6. \A i \in 1 .. n : fires[i] = Row1(fires, i)
  BY <1>4
<1>7. ASSUME NEW i \in 1 .. n, ~(fires[i] <=> i \in First)
      PROVE  FALSE
  <2> DEFINE wrong == {k \in 1 .. n : ~(fires[k] <=> k \in First)}
             k == Min(wrong)
  <2>1. wrong \in SUBSET Nat /\ i \in wrong
    BY <1>7
  <2>2. k \in wrong /\ \A m \in wrong : k <= m
    BY <2>1, LeastOf
  <2> HIDE DEF k
  <2>3. k \in 1 .. n /\ ~(fires[k] <=> k \in First)
    BY <2>2
  <2>4. ASSUME NEW j \in 1 .. k - 1
        PROVE  fires[j] <=> j \in First
    <3>1. j \in 1 .. n /\ ~(k <= j)
      BY <2>3
    <3> QED  BY <2>2, <3>1
  <2>5. Row1(fires, k) <=> k \in First
    BY <1>2, <2>3, <2>4
  <2> QED  BY <1>6, <2>3, <2>5
<1>8. First \in SUBSET (1 .. n)
  BY DEF FirstOfCurve
<1> HIDE DEF First
<1>9. {i \in 1 .. n : fires[i]} = First
  BY <1>7, <1>8
<1> QED  BY <1>5, <1>9 DEF First
-----------------------------------------------------------------------------
(* The tables that the factories build.                                     *)

\* A row that a factory adds has its interval in order.
LEMMA OrderedRow ==
    ASSUME NEW c \in Inputs, NEW o \in Outputs, NEW s \in Segments
    PROVE  Ordered(Row(c, o, s)) \in Rows
<1> DEFINE r == Row(c, o, s)
           q == Ordered(r)
<1> SUFFICES q \in Rows
  OBVIOUS
<1>1. s[1] \in Int /\ s[2] \in Int /\ s[3] \in Int /\ s[4] \in Int
  BY SegmentsAssumption
<1>2. r = [in |-> c, out |-> o, from |-> s[1], to |-> s[2], slope |-> s[3], cut |-> s[4]]
  BY DEF Row
<1> HIDE DEF r
<1>3. CASE s[1] > s[2]
  <2>1. q = [in |-> c, out |-> o, from |-> s[2], to |-> s[1], slope |-> s[3], cut |-> s[4]]
    BY <1>2, <1>3 DEF Ordered
  <2> HIDE DEF q
  <2> QED  BY <1>1, <1>3, <2>1 DEF Rows
<1>4. CASE ~(s[1] > s[2])
  <2>1. q = r
    BY <1>2, <1>4 DEF Ordered
  <2> HIDE DEF q
  <2> QED  BY <1>1, <1>2, <1>4, <2>1 DEF Rows
<1> QED  BY <1>3, <1>4

\* Tables hold rows of whole numbers with their intervals in order, whatever rows
\* are added.
THEOREM TablesAreWellTyped == Spec => []TableInv
<1>1. Init => TableInv
  <2> SUFFICES ASSUME Init PROVE TableInv
    OBVIOUS
  <2>1. table \in Seq(Rows)
    BY DEF Init
  <2>2. inputs \in [Inputs -> Int]
    BY InputValuesAssumption DEF Init
  <2> QED  BY <2>1, <2>2 DEF TableInv
<1>2. TableInv /\ [Next]_vars => TableInv'
  <2> SUFFICES ASSUME TableInv, [Next]_vars
               PROVE  TableInv'
    OBVIOUS
  <2>1. CASE UNCHANGED vars
    BY <2>1 DEF TableInv, vars
  <2>2. ASSUME NEW c \in Inputs, NEW o \in Outputs, NEW s \in Segments, AddRow(Row(c, o, s))
        PROVE  TableInv'
    <3>1. Ordered(Row(c, o, s)) \in Rows
      BY OrderedRow
    <3>2. table' = Append(table, Ordered(Row(c, o, s))) /\ inputs' = inputs
      BY <2>2 DEF AddRow
    <3> QED  BY <3>1, <3>2 DEF TableInv
  <2> QED  BY <2>1, <2>2 DEF Next
<1> QED  BY <1>1, <1>2, PTL DEF Spec
-----------------------------------------------------------------------------
(* Forward evaluation.                                                      *)

\* Every row is in a curve: the one from the first row that is joined to it to
\* the last one that it is joined to.
LEMMA CurveOf ==
    ASSUME TableInv, NEW i \in 1 .. Len(table)
    PROVE  \E run \in Curves :
              /\ run[1] <= i /\ i <= run[2]
              /\ Joined(table, run[1], i)
<1>0. Len(table) \in Nat
  BY DEF TableInv
<1> DEFINE before == {k \in 1 .. i : Joined(table, k, i)}
           first == Min(before)
           last == i + IntervalsRemaining(table, i)
<1>1. before \in SUBSET Nat /\ i \in before
  BY <1>0 DEF Joined, SameCurve
<1>2. first \in before /\ \A k \in before : first <= k
  BY <1>1, LeastOf
<1>3. /\ last \in i .. Len(table)
      /\ Joined(table, i, last)
      /\ \A k \in i .. Len(table) : last < k <=> ~Joined(table, i, k)
  <2>1. /\ IntervalsRemaining(table, i) \in 0 .. Len(table) - i
        /\ Joined(table, i, last)
        /\ \A k \in i .. Len(table) : last < k <=> ~Joined(table, i, k)
    BY <1>0, Jump
  <2> QED  BY <1>0, <2>1
<1> HIDE DEF first, last
<1>4. first \in 1 .. i /\ Joined(table, first, i)
  BY <1>2
<1>5. Joined(table, first, last)
  BY <1>0, <1>3, <1>4, JoinedChain
<1>6. ASSUME first > 1
      PROVE  ~SameCurve(table[first], table[first - 1])
  <2> SUFFICES ASSUME SameCurve(table[first], table[first - 1])
               PROVE  FALSE
    OBVIOUS
  <2>1. Joined(table, first - 1, first)
    <3>1. \A k \in first - 1 .. first : k = first - 1 \/ k = first
      BY <1>4
    <3> QED  BY <3>1 DEF Joined, SameCurve
  <2>2. Joined(table, first - 1, i)
    BY <1>0, <1>4, <1>6, <2>1, JoinedChain
  <2>3. first - 1 \in before
    BY <1>4, <1>6, <2>2
  <2> QED  BY <1>2, <1>4, <2>3
<1>7. ASSUME last < Len(table)
      PROVE  ~SameCurve(table[last], table[last + 1])
  <2> SUFFICES ASSUME SameCurve(table[last], table[last + 1])
               PROVE  FALSE
    OBVIOUS
  <2>1. Joined(table, last, last + 1)
    <3>1. \A k \in last .. last + 1 : k = last \/ k = last + 1
      BY <1>3
    <3> QED  BY <3>1 DEF Joined, SameCurve
  <2>2. Joined(table, i, last + 1)
    BY <1>0, <1>3, <2>1, JoinedChain
  <2> QED  BY <1>0, <1>3, <1>7, <2>2
<1>8. <<first, last>> \in Curves
  <2>1. first \in 1 .. Len(table) /\ last \in 1 .. Len(table) /\ first <= last
    BY <1>0, <1>3, <1>4
  <2> QED  BY <1>5, <1>6, <1>7, <2>1 DEF Curves, Joined
<1> QED  BY <1>3, <1>4, <1>8

\* The first row of a curve that the input hits is one that no row before is
\* joined to and hit.
LEMMA FirstOfCurveIsFirstHit ==
    ASSUME TableInv, NEW n \in 0 .. Len(table), NEW o
    PROVE  {i \in FirstOfCurve(table, n, inputs) : table[i].out = o} = FirstHits(o, n)
<1>0. Len(table) \in Nat
  BY DEF TableInv
<1>1. ASSUME NEW run \in Curves
      PROVE  /\ run[1] \in 1 .. Len(table) /\ run[2] \in 1 .. Len(table) /\ run[1] <= run[2]
             /\ Joined(table, run[1], run[2])
             /\ run[1] > 1 => ~SameCurve(table[run[1]], table[run[1] - 1])
             /\ run[2] < Len(table) => ~SameCurve(table[run[1]], table[run[2] + 1])
             /\ Hits(run, n) \in SUBSET Nat
  <2>1. /\ run[1] \in 1 .. Len(table) /\ run[2] \in 1 .. Len(table) /\ run[1] <= run[2]
        /\ \A i \in run[1] .. run[2] : SameCurve(table[run[1]], table[i])
        /\ run[1] > 1 => ~SameCurve(table[run[1]], table[run[1] - 1])
        /\ run[2] < Len(table) => ~SameCurve(table[run[2]], table[run[2] + 1])
    BY DEF Curves
  <2>2. SameCurve(table[run[1]], table[run[2]])
    BY <1>0, <2>1
  <2>3. run[2] < Len(table) => ~SameCurve(table[run[1]], table[run[2] + 1])
    BY <2>1, <2>2 DEF SameCurve
  <2>4. Hits(run, n) \in SUBSET Nat
    BY <1>0, <2>1 DEF Hits
  <2> QED  BY <2>1, <2>3, <2>4 DEF Joined
<1>2. ASSUME NEW i \in FirstOfCurve(table, n, inputs), table[i].out = o
      PROVE  i \in FirstHits(o, n)
  <2>1. /\ i \in 1 .. n /\ Hit(table, i, inputs)
        /\ \A j \in 1 .. i - 1 : Hit(table, j, inputs) => ~Joined(table, j, i)
    BY DEF FirstOfCurve
  <2>2. i \in 1 .. Len(table)
    BY <1>0, <2>1
  <2>3. PICK run \in Curves : run[1] <= i /\ i <= run[2] /\ Joined(table, run[1], i)
    BY <2>2, CurveOf
  <2>4. i \in Hits(run, n)
    BY <1>1, <2>1, <2>3 DEF Hits, Hit
  <2>5. ASSUME NEW j \in Hits(run, n)
        PROVE  i <= j
    <3> SUFFICES ASSUME j < i PROVE FALSE
      BY <1>1, <2>2
    <3>1. j \in run[1] .. run[2] /\ Hit(table, j, inputs)
      BY DEF Hits, Hit
    <3>2. j \in Nat /\ run[1] \in Nat /\ i \in Nat /\ run[1] <= j /\ j \in 1 .. i - 1
      BY <1>1, <2>2, <3>1
    <3>3. Joined(table, j, i)
      BY <2>3, <3>2, JoinedParts
    <3> QED  BY <2>1, <3>1, <3>2, <3>3
  <2>6. Hits(run, n) \in SUBSET Nat
    BY <1>1
  <2>7. Min(Hits(run, n)) \in Hits(run, n) /\ \A j \in Hits(run, n) : Min(Hits(run, n)) <= j
    BY <2>4, <2>6, LeastOf
  <2>8. Min(Hits(run, n)) = i
    BY <2>2, <2>4, <2>5, <2>6, <2>7
  <2>9. table[run[1]].out = o
    <3>1. SameCurve(table[run[1]], table[i])
      BY <1>1, <2>2, <2>3 DEF Joined
    <3> QED  BY <1>2, <3>1 DEF SameCurve
  <2> QED  BY <2>4, <2>8, <2>9 DEF FirstHits
<1>3. ASSUME NEW run \in Curves, table[run[1]].out = o, Hits(run, n) # {}
      PROVE  Min(Hits(run, n)) \in {i \in FirstOfCurve(table, n, inputs) : table[i].out = o}
  <2> DEFINE m == Min(Hits(run, n))
  <2>1. m \in Hits(run, n) /\ \A j \in Hits(run, n) : m <= j
    BY <1>1, <1>3, LeastOf
  <2> HIDE DEF m
  <2>2. m \in run[1] .. run[2] /\ m <= n /\ Hit(table, m, inputs)
    BY <2>1 DEF Hits, Hit
  <2>3. /\ run[1] \in 1 .. Len(table) /\ run[2] \in 1 .. Len(table)
        /\ Joined(table, run[1], run[2])
        /\ run[1] > 1 => ~SameCurve(table[run[1]], table[run[1] - 1])
    BY <1>1
  <2>4. m \in 1 .. n /\ m \in Nat /\ run[1] \in Nat /\ run[1] <= m /\ m <= run[2]
    BY <1>0, <2>2, <2>3
  <2>5. Joined(table, run[1], m) /\ SameCurve(table[run[1]], table[m])
    BY <2>3, <2>4, JoinedParts
  <2>6. ASSUME NEW j \in 1 .. m - 1, Hit(table, j, inputs), Joined(table, j, m)
        PROVE  FALSE
    <3>1. CASE run[1] <= j
      <4>1. j \in run[1] .. run[2] /\ j <= n /\ ~(m <= j)
        BY <1>0, <2>3, <2>4, <3>1
      <4>2. j \in Hits(run, n)
        BY <2>6, <4>1 DEF Hits, Hit
      <4> QED  BY <2>1, <4>1, <4>2
    <3>2. CASE j < run[1]
      <4>1. run[1] > 1 /\ run[1] - 1 \in j .. m /\ run[1] \in j .. m
        BY <2>3, <2>4, <3>2
      <4>2. SameCurve(table[j], table[run[1] - 1]) /\ SameCurve(table[j], table[run[1]])
        BY <2>6, <4>1 DEF Joined
      <4> QED  BY <2>3, <4>1, <4>2 DEF SameCurve
    <3> QED  BY <2>3, <3>1, <3>2
  <2>7. m \in FirstOfCurve(table, n, inputs)
    BY <2>2, <2>4, <2>6 DEF FirstOfCurve
  <2>8. table[m].out = o
    BY <1>3, <2>5 DEF SameCurve
  <2> QED  BY <2>7, <2>8 DEF m
<1>4. FirstHits(o, n) \in SUBSET {i \in FirstOfCurve(table, n, inputs) : table[i].out = o}
  BY <1>3 DEF FirstHits
<1> QED  BY <1>2, <1>4

\* The rows that the loop adds to an output are the first hits of its curves.
LEMMA ForwardSumsFirstHits ==
    TableInv => ForwardIsSumOfCurves
<1> SUFFICES ASSUME TableInv, NEW n \in 0 .. Len(table)
             PROVE  CalculateForward(table, n, inputs, Outputs) = Reference(n)
  BY DEF ForwardIsSumOfCurves
<1>1. Len(table) \in Nat
  BY DEF TableInv
<1>2. Contributing(table, n, inputs) = FirstOfCurve(table, n, inputs)
  BY <1>1, LoopTakesFirst
<1>3. ASSUME NEW o \in Outputs
      PROVE  {i \in Contributing(table, n, inputs) : table[i].out = o} = FirstHits(o, n)
  BY <1>2, FirstOfCurveIsFirstHit
<1>4. ASSUME NEW o \in Outputs
      PROVE  SumOfRows(table, {i \in Contributing(table, n, inputs) : table[i].out = o}, inputs)
                = SumOfRows(table, FirstHits(o, n), inputs)
  BY <1>3
<1> QED  BY <1>4 DEF CalculateForward, Reference

\* At every LOD, an output is the clamped sum of its curves, each of which counts
\* once, for all tables, inputs and outputs.
THEOREM ForwardSumsCurves == Spec => []ForwardIsSumOfCurves
BY TablesAreWellTyped, ForwardSumsFirstHits, PTL
-----------------------------------------------------------------------------
(* Reverse evaluation.                                                      *)

\* A sum of no row is 0.
LEMMA SumOfNoRow ==
    ASSUME NEW t, NEW in
    PROVE  SumOfRows(t, {}, in) = 0
<1> DEFINE Body(f) == [s \in SUBSET {} |->
                          IF s = {} THEN 0
                          ELSE RowValue(t[CHOOSE x \in s : TRUE], in) + f[s \ {CHOOSE x \in s : TRUE}]]
           iter == CHOOSE f : f = Body(f)
           g == [s \in SUBSET {} |-> 0]
<1>1. g = Body(g)
  OBVIOUS
<1>2. iter = Body(iter)
  BY <1>1
<1>3. SumOfRows(t, {}, in) = iter[{}]
  BY DEF SumOfRows, MapThenSumSet, MapThenFoldSet
<1> HIDE DEF iter
<1>4. iter[{}] = 0
  BY <1>2
<1> QED  BY <1>3, <1>4

\* A sum of one row is the value of the row.
LEMMA SumOfOneRow ==
    ASSUME NEW t, NEW i, NEW in, RowValue(t[i], in) \in Int
    PROVE  SumOfRows(t, {i}, in) = RowValue(t[i], in)
<1> DEFINE Body(f) == [s \in SUBSET {i} |->
                          IF s = {} THEN 0
                          ELSE RowValue(t[CHOOSE x \in s : TRUE], in) + f[s \ {CHOOSE x \in s : TRUE}]]
           iter == CHOOSE f : f = Body(f)
           g == [s \in SUBSET {i} |-> IF s = {} THEN 0 ELSE RowValue(t[i], in)]
<1>1. \A s \in SUBSET {i} : s # {} => s = {i} /\ (CHOOSE x \in s : TRUE) = i
                                      /\ s \ {CHOOSE x \in s : TRUE} = {}
  OBVIOUS
<1>2. g = Body(g)
  <2>1. g[{}] = 0
    OBVIOUS
  <2>2. \A s \in SUBSET {i} : g[s] = Body(g)[s]
    <3> HIDE DEF g
    <3> SUFFICES ASSUME NEW s \in SUBSET {i} PROVE g[s] = Body(g)[s]
      OBVIOUS
    <3>1. CASE s = {}
      BY <2>1, <3>1
    <3>2. CASE s # {}
      <4>1. Body(g)[s] = RowValue(t[i], in) + g[{}]
        BY <1>1, <3>2
      <4>2. g[s] = RowValue(t[i], in)
        BY <3>2 DEF g
      <4> QED  BY <2>1, <4>1, <4>2
    <3> QED  BY <3>1, <3>2
  <2> QED  BY <2>2
<1>3. iter = Body(iter)
  BY <1>2
<1>4. SumOfRows(t, {i}, in) = iter[{i}]
  BY DEF SumOfRows, MapThenSumSet, MapThenFoldSet
<1> HIDE DEF iter
<1>5. iter[{}] = 0
  BY <1>3
<1>6. iter[{i}] = RowValue(t[i], in) + iter[{}]
  BY <1>1, <1>3
<1> QED  BY <1>4, <1>5, <1>6

\* No two rows have the same output: what OneSegmentPerCurve leaves of the
\* tables that have one curve for each output.
RowPerOutput ==
    \A i, j \in 1 .. Len(table) : table[i].out = table[j].out => i = j

LEMMA CurvesOfOneRow ==
    ASSUME TableInv, OneSegmentPerCurve, WellFormed
    PROVE  RowPerOutput
<1>1. ASSUME NEW i \in 1 .. Len(table)
      PROVE  \E run \in Curves : run[1] = i
  <2>1. PICK run \in Curves : run[1] <= i /\ i <= run[2] /\ Joined(table, run[1], i)
    BY CurveOf
  <2>2. run[1] = run[2] /\ run[1] \in 1 .. Len(table)
    BY DEF OneSegmentPerCurve, Curves
  <2>3. Len(table) \in Nat
    BY DEF TableInv
  <2> QED  BY <2>1, <2>2, <2>3
<1>2. ASSUME NEW i \in 1 .. Len(table), NEW j \in 1 .. Len(table), table[i].out = table[j].out
      PROVE  i = j
  <2>1. PICK run \in Curves : run[1] = i
    BY <1>1
  <2>2. PICK other \in Curves : other[1] = j
    BY <1>1
  <2>3. run = other
    BY <1>2, <2>1, <2>2 DEF WellFormed
  <2> QED  BY <2>1, <2>2, <2>3
<1> QED  BY <1>2 DEF RowPerOutput

\* What a row of a table holds
LEMMA RowTypes ==
    ASSUME TableInv, NEW i \in 1 .. Len(table)
    PROVE  /\ Len(table) \in Nat
           /\ table[i].in \in Inputs /\ table[i].out \in Outputs
           /\ table[i].from \in Int /\ table[i].to \in Int
           /\ table[i].slope \in Int /\ table[i].cut \in Int
<1>1. table[i] \in Rows /\ Len(table) \in Nat
  BY DEF TableInv
<1> QED  BY <1>1 DEF Rows

\* Where outputs have a row each, an output is the value of its row.
LEMMA ForwardOfRow ==
    ASSUME TableInv, RowPerOutput, FullSlope, NEW in \in [Inputs -> Int], NEW i \in 1 .. Len(table)
    PROVE  LET x == in[table[i].in]
               y == Forward(in)[table[i].out]
           IN  /\ Hit(table, i, in) => /\ y = table[i].slope * x + table[i].cut
                                       /\ y \in {0, 1}
               /\ ~Hit(table, i, in) => y = 0
<1> DEFINE n == Len(table)
           o == table[i].out
           x == in[table[i].in]
           rows == {k \in Contributing(table, n, in) : table[k].out = o}
<1>0. /\ n \in Nat /\ table[i].in \in Inputs /\ o \in Outputs
      /\ table[i].from \in Int /\ table[i].to \in Int
      /\ table[i].slope \in {-1, 1} /\ table[i].cut \in Int
      /\ \A z \in table[i].from .. table[i].to : table[i].slope * z + table[i].cut \in {0, 1}
  BY RowTypes DEF FullSlope
<1>1. x \in Int
  BY <1>0
<1>2. Contributing(table, n, in) = FirstOfCurve(table, n, in)
  BY <1>0, LoopTakesFirst
<1>3. i \in FirstOfCurve(table, n, in) <=> Hit(table, i, in)
  <2>1. ASSUME NEW j \in 1 .. i - 1, Joined(table, j, i)
        PROVE  FALSE
    <3>1. j \in 1 .. n /\ i \in j .. i /\ j # i
      BY <1>0
    <3>2. SameCurve(table[j], table[i])
      BY <2>1, <3>1 DEF Joined
    <3> QED  BY <3>1, <3>2 DEF SameCurve, RowPerOutput
  <2> QED  BY <2>1 DEF FirstOfCurve
<1>4. \A k \in FirstOfCurve(table, n, in) : table[k].out = o => k = i
  BY DEF FirstOfCurve, RowPerOutput
<1>5. Forward(in)[o] = Clamp01(SumOfRows(table, rows, in))
  BY <1>0 DEF Forward, CalculateForward
<1>6. CASE Hit(table, i, in)
  <2>1. rows = {i}
    BY <1>2, <1>3, <1>4, <1>6
  <2>2. RowValue(table[i], in) = table[i].slope * x + table[i].cut
    BY DEF RowValue
  <2>3. x \in table[i].from .. table[i].to
    BY <1>0, <1>1, <1>6 DEF Hit, InInterval
  <2>4. table[i].slope * x + table[i].cut \in {0, 1}
    BY <1>0, <2>3
  <2>5. SumOfRows(table, {i}, in) = RowValue(table[i], in)
    BY <2>2, <2>4, SumOfOneRow
  <2>6. Forward(in)[o] = Clamp01(table[i].slope * x + table[i].cut)
    BY <1>5, <2>1, <2>2, <2>5
  <2>7. \A v \in {0, 1} : Clamp01(v) = v
    BY DEF Clamp01
  <2> HIDE DEF x
  <2>8. Forward(in)[o] = table[i].slope * x + table[i].cut
    BY <2>4, <2>6, <2>7
  <2> QED  BY <1>6, <2>4, <2>8 DEF x
<1>7. CASE ~Hit(table, i, in)
  <2>1. rows = {}
    BY <1>2, <1>3, <1>4, <1>7
  <2>2. Forward(in)[o] = Clamp01(0)
    BY <1>5, <2>1, SumOfNoRow
  <2>3. Clamp01(0) = 0
    BY DEF Clamp01
  <2> QED  BY <1>7, <2>2, <2>3
<1> QED  BY <1>6, <1>7

\* An output without a row is 0.
LEMMA ForwardOfNoRow ==
    ASSUME TableInv, NEW in, NEW o \in Outputs,
           \A i \in 1 .. Len(table) : table[i].out # o
    PROVE  Forward(in)[o] = 0
<1> DEFINE n == Len(table)
           rows == {k \in Contributing(table, n, in) : table[k].out = o}
<1>1. Contributing(table, n, in) \in SUBSET (1 .. n)
  BY DEF Contributing
<1>2. rows = {}
  BY <1>1
<1>3. Forward(in)[o] = Clamp01(SumOfRows(table, rows, in))
  BY DEF Forward, CalculateForward
<1>4. Forward(in)[o] = Clamp01(0)
  BY <1>2, <1>3, SumOfNoRow
<1> QED  BY <1>4 DEF Clamp01

\* The interval of a row is named by its first row.
LEMMA RangeOfRow ==
    ASSUME NEW k \in 1 .. Len(table), Len(table) \in Nat
    PROVE  LET m == Min(RangeRows(table, k))
           IN  /\ m \in RangesOf(table, table[k].in) /\ m \in 1 .. Len(table) /\ m <= k
               /\ k \in RangeRows(table, m)
<1> DEFINE m == Min(RangeRows(table, k))
<1>1. RangeRows(table, k) \in SUBSET Nat /\ k \in RangeRows(table, k)
  BY DEF RangeRows
<1>2. m \in RangeRows(table, k) /\ m <= k
  BY <1>1, LeastOf
<1>3. RangeRows(table, m) = RangeRows(table, k)
  <2> HIDE DEF m
  <2> QED  BY <1>2 DEF RangeRows
<1>4. m \in 1 .. Len(table) /\ table[m].in = table[k].in
  BY <1>2 DEF RangeRows
<1>5. m = Min(RangeRows(table, m))
  BY <1>3
<1> HIDE DEF m
<1>6. m \in RangesOf(table, table[k].in)
  BY <1>4, <1>5 DEF RangesOf
<1> QED  BY <1>1, <1>2, <1>3, <1>4, <1>6 DEF m

\* The rows of an interval that the outputs speak for
Evidence(i, out) ==
    {j \in RangeRows(table, i) : j <= Len(table) /\ ValidOutput(table[j], out)}

\* There is one interval that the search takes: of those with the most rows that
\* the outputs speak for, the first.
LEMMA WinnerExists ==
    ASSUME Len(table) \in Nat, NEW c, RangesOf(table, c) # {}, NEW out
    PROVE  LET w == WinningRange(table, Len(table), c, out)
               Votes(i) == Cardinality(Evidence(i, out))
           IN  /\ w \in RangesOf(table, c)
               /\ \A j \in RangesOf(table, c) \ {w} :
                     Votes(j) < Votes(w) \/ (Votes(j) = Votes(w) /\ w < j)
<1> DEFINE n == Len(table)
           Ranges == RangesOf(table, c)
           Votes(i) == Cardinality(Evidence(i, out))
           Wins(i) == \A j \in Ranges \ {i} :
                         Votes(j) < Votes(i) \/ (Votes(j) = Votes(i) /\ i < j)
<1>1. Ranges \in SUBSET (1 .. n) /\ Ranges # {}
  BY DEF RangesOf
<1>2. ASSUME NEW i
      PROVE  IsFiniteSet(Evidence(i, out)) /\ Votes(i) \in 0 .. n
  <2>1. Evidence(i, out) \in SUBSET (1 .. n)
    BY DEF Evidence, RangeRows
  <2>2. IsFiniteSet(1 .. n) /\ Cardinality(1 .. n) = n
    <3>1. 1 \in Int /\ n \in Int
      OBVIOUS
    <3>2. IsFiniteSet(1 .. n) /\ Cardinality(1 .. n) = IF 1 > n THEN 0 ELSE n - 1 + 1
      BY <3>1, FS_Interval
    <3> QED  BY <3>2
  <2>3. IsFiniteSet(Evidence(i, out)) /\ Votes(i) <= n
    BY <2>1, <2>2, FS_Subset
  <2>4. Votes(i) \in Nat
    BY <2>3, FS_CardinalityType
  <2> QED  BY <2>3, <2>4
<1> HIDE DEF Votes, Ranges
<1> DEFINE most == Max({Votes(i) : i \in Ranges})
           best == {i \in Ranges : Votes(i) = most}
           w0 == Min(best)
<1>3. most \in {Votes(i) : i \in Ranges} /\ \A i \in Ranges : Votes(i) <= most
  <2>1. {Votes(i) : i \in Ranges} \in SUBSET (0 .. n) /\ {Votes(i) : i \in Ranges} # {}
    BY <1>1, <1>2
  <2> QED  BY <2>1, GreatestOf
<1> HIDE DEF most
<1>4. best \in SUBSET Nat /\ best # {}
  BY <1>1, <1>3
<1>5. w0 \in best /\ \A i \in best : w0 <= i
  BY <1>4, LeastOf
<1> HIDE DEF w0
<1>6. w0 \in Ranges /\ Votes(w0) = most
  BY <1>5
<1>7. ASSUME NEW j \in Ranges \ {w0}
      PROVE  Votes(j) < Votes(w0) \/ (Votes(j) = Votes(w0) /\ w0 < j)
  <2>1. Votes(j) \in Int /\ most \in Int /\ j \in Int /\ w0 \in Int
    BY <1>1, <1>2, <1>6
  <2>2. Votes(j) <= most
    BY <1>3
  <2>3. CASE Votes(j) = most
    <3>1. w0 <= j
      BY <1>5, <2>3
    <3> QED  BY <1>6, <2>1, <2>3, <3>1
  <2> QED  BY <1>6, <2>1, <2>2, <2>3
<1>8. Wins(w0)
  BY <1>7
<1>9. WinningRange(table, n, c, out) = CHOOSE i \in Ranges : Wins(i)
  BY DEF WinningRange, Evidence, Votes, Ranges
<1> HIDE DEF Wins
<1>10. \E i \in Ranges : Wins(i)
  BY <1>6, <1>8
<1>11. WinningRange(table, n, c, out) \in Ranges /\ Wins(WinningRange(table, n, c, out))
  BY <1>9, <1>10
<1> QED  BY <1>11 DEF Wins, Votes, Ranges

\* A row that its input hits is solved by the input, whatever the slope.
LEMMA SolutionOfHit ==
    ASSUME TableInv, FullSlope, NEW i \in 1 .. Len(table), NEW x \in Int, NEW out,
           out[table[i].out] = table[i].slope * x + table[i].cut
    PROVE  Solution(table[i], out) = x
<1> DEFINE a == table[i].slope
           b == table[i].cut
<1>1. a \in {-1, 1} /\ b \in Int
  BY RowTypes DEF FullSlope
<1>2. Solution(table[i], out) = ((a * x + b) - b) * a
  BY DEF Solution
<1> HIDE DEF a, b
<1>3. CASE a = 1
  BY <1>1, <1>2, <1>3
<1>4. CASE a = -1
  BY <1>1, <1>2, <1>4
<1> QED  BY <1>1, <1>3, <1>4

\* The search returns 0 or the solution of a row of the interval that it takes.
LEMMA ReverseOfInput ==
    ASSUME TableInv, NEW c \in Inputs, RangesOf(table, c) # {}, NEW out
    PROVE  LET w == WinningRange(table, Len(table), c, out)
               solved == {j \in RangeRows(table, w) : j <= Len(table) /\ Solvable(table[j], out)}
           IN  IF solved = {} THEN Reverse(out)[c] = 0
               ELSE \E j \in solved : Reverse(out)[c] = Solution(table[j], out)
<1> DEFINE w == WinningRange(table, Len(table), c, out)
           solved == {j \in RangeRows(table, w) : j <= Len(table) /\ Solvable(table[j], out)}
<1>1. Reverse(out)[c] = IF solved = {} THEN 0 ELSE Solution(table[Min(solved)], out)
  BY DEF Reverse, CalculateReverse
<1>2. solved \in SUBSET Nat
  BY DEF RangeRows
<1> HIDE DEF solved
<1>3. CASE solved = {}
  BY <1>1, <1>3 DEF solved
<1>4. CASE solved # {}
  <2>1. Min(solved) \in solved
    BY <1>2, <1>4, LeastOf
  <2> QED  BY <1>1, <1>4, <2>1 DEF solved
<1> QED  BY <1>3, <1>4

\* An output that is not 0 tells the interval of its input: the interval taken
\* has a row that the input hits, and any of its rows gives the input back.
LEMMA DrivenInputFound ==
    ASSUME TableInv, RowPerOutput, FullSlope, inputs \in [Inputs -> Int],
           NEW k \in 1 .. Len(table), Forward(inputs)[table[k].out] # 0
    PROVE  Reverse(Forward(inputs))[table[k].in] = inputs[table[k].in]
<1> DEFINE n == Len(table)
           out == Forward(inputs)
           c == table[k].in
           x == inputs[c]
           w == WinningRange(table, n, c, out)
           solved == {j \in RangeRows(table, w) : j <= n /\ Solvable(table[j], out)}
           m == Min(RangeRows(table, k))
<1>0. n \in Nat /\ c \in Inputs /\ x \in Int
  BY RowTypes
<1>1. /\ Forward(inputs)[table[k].out] = table[k].slope * x + table[k].cut
      /\ Hit(table, k, inputs)
  BY ForwardOfRow
<1>2. m \in RangesOf(table, c) /\ k \in RangeRows(table, m)
  BY <1>0, RangeOfRow
<1>3. Solution(table[k], out) = x
  BY <1>0, <1>1, SolutionOfHit
<1>4. ValidOutput(table[k], out)
  BY <1>1, <1>3 DEF ValidOutput, Solvable, Hit
<1>5. k \in Evidence(m, out)
  BY <1>0, <1>2, <1>4 DEF Evidence
<1> HIDE DEF out
<1>6. /\ w \in RangesOf(table, c)
      /\ \A j \in RangesOf(table, c) \ {w} :
            \/ Cardinality(Evidence(j, out)) < Cardinality(Evidence(w, out))
            \/ Cardinality(Evidence(j, out)) = Cardinality(Evidence(w, out)) /\ w < j
  BY <1>0, <1>2, WinnerExists
<1> HIDE DEF w, m
<1>7. Evidence(w, out) # {}
  <2> SUFFICES ASSUME Evidence(w, out) = {} PROVE FALSE
    OBVIOUS
  <2>1. m # w
    BY <1>5
  <2>2. Cardinality(Evidence(w, out)) = 0
    BY FS_EmptySet
  <2>3. Evidence(m, out) \in SUBSET (1 .. n)
    BY DEF Evidence, RangeRows
  <2>4. IsFiniteSet(1 .. n)
    BY <1>0, FS_Interval
  <2>5. IsFiniteSet(Evidence(m, out))
    BY <2>3, <2>4, FS_Subset
  <2>6. Cardinality(Evidence(m, out)) \in Nat /\ Cardinality(Evidence(m, out)) # 0
    BY <1>5, <2>5, FS_CardinalityType, FS_EmptySet
  <2> QED  BY <1>2, <1>6, <2>1, <2>2, <2>6
<1>8. PICK j \in RangeRows(table, w) : j <= n /\ ValidOutput(table[j], out)
  BY <1>7 DEF Evidence
<1>9. /\ w \in 1 .. n /\ table[w].in = c
      /\ j \in 1 .. n /\ table[j].in = c
      /\ table[j].from = table[w].from /\ table[j].to = table[w].to
  BY <1>6, <1>8 DEF RangesOf, RangeRows
<1>10. Hit(table, j, inputs)
  BY <1>8, <1>9, ForwardOfRow DEF ValidOutput, out
<1>11. ASSUME NEW i \in RangeRows(table, w)
       PROVE  Solution(table[i], out) = x /\ Solvable(table[i], out)
  <2>1. /\ i \in 1 .. n /\ table[i].in = c
        /\ table[i].from = table[w].from /\ table[i].to = table[w].to
    BY <1>9 DEF RangeRows
  <2>2. Hit(table, i, inputs)
    BY <1>9, <1>10, <2>1 DEF Hit, InInterval
  <2>3. out[table[i].out] = table[i].slope * x + table[i].cut
    BY <2>1, <2>2, ForwardOfRow DEF out
  <2>4. Solution(table[i], out) = x
    BY <1>0, <2>1, <2>3, SolutionOfHit
  <2> QED  BY <2>1, <2>2, <2>4 DEF Solvable, Hit
<1>12. solved # {}
  BY <1>8, <1>11
<1>13. RangesOf(table, c) # {}
  BY <1>6
<1>14. IF solved = {} THEN Reverse(out)[c] = 0
       ELSE \E i \in solved : Reverse(out)[c] = Solution(table[i], out)
  BY <1>0, <1>13, ReverseOfInput DEF w
<1>15. Reverse(out)[c] = x
  BY <1>11, <1>12, <1>14
<1> QED  BY <1>15 DEF out

\* Where all the outputs of an input are 0, the search takes the first interval of
\* the input, which holds its neutral, and gives the neutral back.
LEMMA IdleInputFound ==
    ASSUME TableInv, RowPerOutput, FullSlope, WellFormed, inputs \in [Inputs -> Int],
           NEW k \in 1 .. Len(table),
           \A i \in 1 .. Len(table) :
              table[i].in = table[k].in => Forward(inputs)[table[i].out] = 0
    PROVE  Reverse(Forward(inputs))[table[k].in] = 0
<1> DEFINE n == Len(table)
           out == Forward(inputs)
           c == table[k].in
           w == WinningRange(table, n, c, out)
           solved == {j \in RangeRows(table, w) : j <= n /\ Solvable(table[j], out)}
           mine == {i \in 1 .. n : table[i].in = c}
           first == Min(mine)
<1>0. n \in Nat /\ c \in Inputs
  BY RowTypes
<1>1. mine \in SUBSET Nat /\ k \in mine
  OBVIOUS
<1>2. first \in mine /\ \A i \in mine : first <= i
  BY <1>1, LeastOf
<1>3. \A i \in 1 .. n : table[i].in = c => out[table[i].out] = 0
  OBVIOUS
<1> HIDE DEF first, out
<1>4. first \in 1 .. n /\ table[first].in = c
  BY <1>2
<1>5. first \in RangesOf(table, c)
  <2> DEFINE m == Min(RangeRows(table, first))
  <2>1. m \in RangesOf(table, c) /\ m \in 1 .. n /\ m <= first
    BY <1>0, <1>4, RangeOfRow
  <2> HIDE DEF m
  <2>2. m \in mine
    BY <2>1 DEF RangesOf
  <2>3. m = first
    BY <1>2, <1>4, <2>1, <2>2
  <2> QED  BY <2>1, <2>3
<1>6. /\ w \in RangesOf(table, c)
      /\ \A j \in RangesOf(table, c) \ {w} :
            \/ Cardinality(Evidence(j, out)) < Cardinality(Evidence(w, out))
            \/ Cardinality(Evidence(j, out)) = Cardinality(Evidence(w, out)) /\ w < j
  BY <1>0, <1>5, WinnerExists
<1> HIDE DEF w
<1>7. ASSUME NEW i \in RangesOf(table, c)
      PROVE  Cardinality(Evidence(i, out)) = 0
  <2>1. \A j \in RangeRows(table, i) : j \in 1 .. n /\ table[j].in = c
    BY DEF RangesOf, RangeRows
  <2>2. Evidence(i, out) = {}
    BY <1>3, <2>1 DEF Evidence, ValidOutput
  <2> QED  BY <2>2, FS_EmptySet
<1>8. w = first
  <2> SUFFICES ASSUME w # first PROVE FALSE
    OBVIOUS
  <2>1. Cardinality(Evidence(first, out)) = 0 /\ Cardinality(Evidence(w, out)) = 0
    BY <1>5, <1>6, <1>7
  <2>2. w < first
    BY <1>5, <1>6, <2>1
  <2>3. w \in mine
    BY <1>6 DEF RangesOf
  <2> QED  BY <1>2, <1>4, <2>2, <2>3
<1>9. InInterval(table[first], 0)
  <2>1. \A j \in 1 .. first - 1 : table[j].in # table[first].in
    <3> SUFFICES ASSUME NEW j \in 1 .. first - 1, table[j].in = c PROVE FALSE
      BY <1>4
    <3>1. j \in mine /\ ~(first <= j)
      BY <1>0, <1>4
    <3> QED  BY <1>2, <3>1
  <2> QED  BY <1>4, <2>1 DEF WellFormed
<1>10. ASSUME NEW i \in RangeRows(table, w)
       PROVE  Solution(table[i], out) = 0
  <2>1. /\ i \in 1 .. n /\ table[i].in = c
        /\ table[i].from = table[first].from /\ table[i].to = table[first].to
    BY <1>4, <1>8 DEF RangeRows
  <2>2. /\ table[i].out \in Outputs /\ table[i].slope \in Int /\ table[i].cut \in Int
    BY <2>1, RowTypes
  <2>3. Neutral \in [Inputs -> Int] /\ Neutral[c] = 0
    BY <1>0 DEF Neutral
  <2>4. Hit(table, i, Neutral)
    BY <1>9, <2>1, <2>3 DEF Hit, InInterval
  <2>5. Forward(Neutral)[table[i].out] = 0
    BY <2>2 DEF WellFormed
  <2>6. Forward(Neutral)[table[i].out] = table[i].slope * 0 + table[i].cut
    <3>1. Forward(Neutral)[table[i].out] = table[i].slope * Neutral[table[i].in] + table[i].cut
      BY <2>1, <2>3, <2>4, ForwardOfRow
    <3>2. Neutral[table[i].in] = 0
      BY <2>1, <2>3
    <3> QED  BY <3>1, <3>2
  <2>7. table[i].slope * 0 = 0
    BY <2>2
  <2>8. out[table[i].out] = table[i].slope * 0 + table[i].cut
    BY <1>3, <2>1, <2>5, <2>6
  <2> QED  BY <2>1, <2>8, SolutionOfHit
<1>11. IF solved = {} THEN Reverse(out)[c] = 0
       ELSE \E i \in solved : Reverse(out)[c] = Solution(table[i], out)
  BY <1>0, <1>5, ReverseOfInput DEF w
<1>12. Reverse(out)[c] = 0
  BY <1>10, <1>11
<1> QED  BY <1>12 DEF out

\* Inputs that drive an output are found, and the others are neutral: both lead
\* to the outputs that were given.
LEMMA ReverseFindsSome ==
    TableInv => ReverseInverts
<1> SUFFICES ASSUME TableInv, WellFormed, OneSegmentPerCurve
             PROVE  Forward(Reverse(Forward(inputs))) = Forward(inputs)
  BY DEF ReverseInverts
<1> DEFINE n == Len(table)
           out == Forward(inputs)
           found == Reverse(out)
<1>1. RowPerOutput /\ FullSlope /\ inputs \in [Inputs -> Int] /\ n \in Nat
  BY CurvesOfOneRow DEF TableInv, WellFormed
<1>2. ASSUME NEW k \in 1 .. n
      PROVE  \/ found[table[k].in] = inputs[table[k].in]
             \/ found[table[k].in] = 0 /\ Forward(inputs)[table[k].out] = 0
  <2> DEFINE c == table[k].in
  <2>1. CASE \A i \in 1 .. n : table[i].in = c => Forward(inputs)[table[i].out] = 0
    <3>1. found[c] = 0
      BY <1>1, <2>1, IdleInputFound
    <3> QED  BY <2>1, <3>1
  <2>2. CASE \E i \in 1 .. n : table[i].in = c /\ Forward(inputs)[table[i].out] # 0
    <3>1. PICK i \in 1 .. n : table[i].in = c /\ Forward(inputs)[table[i].out] # 0
      BY <2>2
    <3>2. Reverse(Forward(inputs))[table[i].in] = inputs[table[i].in]
      BY <1>1, <3>1, DrivenInputFound
    <3> QED  BY <3>1, <3>2
  <2> QED  BY <2>1, <2>2
<1>3. found \in [Inputs -> Int]
  <2> SUFFICES ASSUME NEW c \in Inputs PROVE found[c] \in Int
    <3>1. found = [c \in Inputs |-> found[c]]
      BY DEF Reverse, CalculateReverse
    <3> HIDE DEF found
    <3> QED  BY <3>1
  <2>1. CASE \E k \in 1 .. n : table[k].in = c
    BY <1>1, <1>2, <2>1
  <2>2. CASE ~\E k \in 1 .. n : table[k].in = c
    <3>1. RangesOf(table, c) = {}
      BY <2>2 DEF RangesOf
    <3>2. found[c] = 0
      BY <3>1 DEF Reverse, CalculateReverse
    <3> QED  BY <3>2
  <2> QED  BY <2>1, <2>2
<1> HIDE DEF found
<1>4. ASSUME NEW o \in Outputs
      PROVE  Forward(found)[o] = Forward(inputs)[o]
  <2>1. CASE \A i \in 1 .. n : table[i].out # o
    BY <2>1, ForwardOfNoRow
  <2>2. CASE \E i \in 1 .. n : table[i].out = o
    <3>1. PICK i \in 1 .. n : table[i].out = o
      BY <2>2
    <3> DEFINE c == table[i].in
    <3>2. /\ Hit(table, i, found) =>
                Forward(found)[o] = table[i].slope * found[c] + table[i].cut
          /\ ~Hit(table, i, found) => Forward(found)[o] = 0
      BY <1>1, <1>3, <3>1, ForwardOfRow
    <3>3. /\ Hit(table, i, inputs) =>
                Forward(inputs)[o] = table[i].slope * inputs[c] + table[i].cut
          /\ ~Hit(table, i, inputs) => Forward(inputs)[o] = 0
      BY <1>1, <3>1, ForwardOfRow
    <3>4. CASE found[c] = inputs[c]
      <4>1. Hit(table, i, found) <=> Hit(table, i, inputs)
        BY <3>4 DEF Hit
      <4> QED  BY <3>2, <3>3, <3>4, <4>1
    <3>5. CASE found[c] = 0 /\ Forward(inputs)[o] = 0
      <4>1. Neutral \in [Inputs -> Int] /\ Neutral[c] = 0
        BY <3>1, RowTypes DEF Neutral
      <4>2. /\ Hit(table, i, Neutral) =>
                  Forward(Neutral)[o] = table[i].slope * Neutral[c] + table[i].cut
            /\ ~Hit(table, i, Neutral) => Forward(Neutral)[o] = 0
        BY <1>1, <3>1, <4>1, ForwardOfRow
      <4>3. Forward(Neutral)[o] = 0
        BY DEF WellFormed
      <4>4. Hit(table, i, found) <=> Hit(table, i, Neutral)
        BY <3>5, <4>1 DEF Hit
      <4>5. Hit(table, i, found) => Forward(found)[o] = 0
        BY <3>2, <3>5, <4>1, <4>2, <4>3, <4>4
      <4> QED  BY <3>2, <3>5, <4>5
    <3> QED  BY <1>2, <3>1, <3>4, <3>5
  <2> QED  BY <2>1, <2>2
<1>5. Forward(found) = [o \in Outputs |-> Forward(found)[o]]
      /\ Forward(inputs) = [o \in Outputs |-> Forward(inputs)[o]]
  BY DEF Forward, CalculateForward
<1>6. Forward(found) = Forward(inputs)
  BY <1>4, <1>5
<1> QED  BY <1>6 DEF found

\* The reverse mapping finds inputs that lead to the outputs it was given, for all
\* tables of the shape it was written for.
THEOREM ReverseFindsInputs == Spec => []ReverseInverts
BY TablesAreWellTyped, ReverseFindsSome, PTL
=============================================================================
