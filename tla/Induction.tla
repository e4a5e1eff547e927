------------------------------- MODULE Induction ------------------------------
(* Induction and recursion over data, stated so that the provers can use them: *)
(* a set takes the place of the formula that an induction is about, and a      *)
(* functional F that of a recursive definition.                                *)
EXTENDS Integers, WellFoundedInduction, TLAPS

\* A set of numbers that is not empty has a smallest one.
LEMMA Smallest ==
  ASSUME NEW S \in SUBSET Nat, S # {} PROVE \E n \in S : \A other \in S : n <= other
<1>1. PICK n \in S : \A other \in S : ~(<<other, n>> \in OpToRel(<, Nat))
  BY NatLessThanWellFounded, WFMin
<1>2. \A other \in S : ~(other < n)
  BY <1>1 DEF OpToRel
<1> QED
  BY <1>2

\* Induction, over a set instead of a formula.
LEMMA Reaches ==
  ASSUME NEW S, 0 \in S, \A n \in Nat : n \in S => n + 1 \in S
  PROVE  Nat \subseteq S
<1> SUFFICES ASSUME Nat \ S # {} PROVE FALSE
  OBVIOUS
<1>1. PICK n \in Nat \ S : \A other \in Nat \ S : n <= other
  BY Smallest
<1>2. n # 0 /\ n - 1 \in Nat /\ n - 1 \notin Nat \ S
  BY <1>1
<1> QED
  BY <1>1, <1>2

\* The same, up to a bound.
LEMMA ReachesUpTo ==
  ASSUME NEW N \in Nat, NEW S, 0 \in S, \A n \in 0 .. N - 1 : n \in S => n + 1 \in S
  PROVE  0 .. N \subseteq S
<1> DEFINE T == {n \in Nat : n <= N => n \in S}
<1>1. 0 \in T
  OBVIOUS
<1>2. \A n \in Nat : n \in T => n + 1 \in T
  OBVIOUS
<1>3. Nat \subseteq T
  BY <1>1, <1>2, Reaches
<1> QED
  BY <1>3

\* Counting down, from all that is above.
LEMMA Backwards ==
  ASSUME NEW N \in Nat, NEW S, \A n \in 1 .. N : (\A m \in n + 1 .. N : m \in S) => n \in S
  PROVE  1 .. N \subseteq S
<1> DEFINE T == {k \in 0 .. N : \A m \in N - k + 1 .. N : m \in S}
<1>1. 0 \in T
  OBVIOUS
<1>2. ASSUME NEW k \in 0 .. N - 1, k \in T PROVE k + 1 \in T
  <2>1. N - k \in 1 .. N /\ \A m \in (N - k) + 1 .. N : m \in S
    BY <1>2
  <2>2. N - k \in S
    BY <2>1
  <2>3. \A m \in N - (k + 1) + 1 .. N : m = N - k \/ m \in (N - k) + 1 .. N
    OBVIOUS
  <2> QED
    BY <2>1, <2>2, <2>3
<1>3. 0 .. N \subseteq T
  <2> HIDE DEF T
  <2> QED
    BY <1>1, <1>2, ReachesUpTo
<1>4. N \in T
  BY <1>3
<1> QED
  BY <1>4

\* f and g agree below n, in the order of a measure.
Agree(f, g, D, measure, n) == \A x \in D : measure[x] < n => f[x] = g[x]

\* What F makes of a function at a point depends on its values at smaller points only.
Recursive(F, D, V, measure) ==
  /\ measure \in [D -> Nat]
  /\ F \in [[D -> V] -> [D -> V]]
  /\ \A f, g \in [D -> V] : \A n \in Nat :
        Agree(f, g, D, measure, n) => Agree(F[f], F[g], D, measure, n + 1)

\* Definition by recursion: there is such a function.
LEMMA Recursion ==
  ASSUME NEW D, NEW V, NEW measure, NEW F, Recursive(F, D, V, measure), V # {}
  PROVE  \E f \in [D -> V] : f = F[f]
<1> DEFINE A(f, g, n) == Agree(f, g, D, measure, n)
           Functions == [D -> V]
<1>1. /\ measure \in [D -> Nat]
      /\ \A f \in Functions : F[f] \in Functions
      /\ \A f, g \in Functions : \A n \in Nat : A(f, g, n) => A(F[f], F[g], n + 1)
  BY DEF Recursive
<1>2. \A f, g, n : A(f, g, n) => A(g, f, n)
  BY DEF Agree
<1>3. \A f, g, h, n : A(f, g, n) /\ A(g, h, n) => A(f, h, n)
  BY DEF Agree
<1>4. \A f, g : \A n \in Nat : A(f, g, n + 1) => A(f, g, n)
  BY <1>1 DEF Agree
<1>5. \A f, g : A(f, g, 0)
  BY <1>1 DEF Agree
<1>6. \A f, g, n : \A x \in D : A(f, g, n) /\ measure[x] < n => f[x] = g[x]
  BY DEF Agree
<1>7. \A f, g, n : (\A x \in D : measure[x] < n => f[x] = g[x]) => A(f, g, n)
  BY DEF Agree
<1> DEFINE Good(f, n) == f \in Functions /\ A(f, F[f], n)
<1> HIDE DEF A
<1>8. \A n \in Nat : \E f : Good(f, n)
  <2> DEFINE S == {n \in Nat : \E f : Good(f, n)}
  <2>1. 0 \in S
    <3>1. PICK v : v \in V
      OBVIOUS
    <3>2. [x \in D |-> v] \in Functions
      BY <3>1
    <3>3. Good([x \in D |-> v], 0)
      BY <3>2, <1>5
    <3> QED
      BY <3>3
  <2>2. ASSUME NEW n \in Nat, n \in S PROVE n + 1 \in S
    <3>1. PICK f : Good(f, n)
      BY <2>2
    <3> HIDE DEF Functions
    <3>2. F[f] \in Functions /\ Good(F[f], n + 1)
      BY <3>1, <1>1
    <3> HIDE DEF Good
    <3> QED
      BY <3>2
  <2> HIDE DEF Good
  <2>3. Nat \subseteq S
    <3> HIDE DEF S
    <3> QED BY <2>1, <2>2, Reaches
  <2> QED
    BY <2>3
<1> HIDE DEF Functions
<1>9. ASSUME NEW f, NEW g, NEW n \in Nat, Good(f, n), Good(g, n) PROVE A(f, g, n)
  <2> DEFINE S == {k \in 0 .. n : A(f, g, k)}
  <2>1. 0 \in S
    BY <1>5
  <2>2. ASSUME NEW k \in 0 .. n - 1, k \in S PROVE k + 1 \in S
    <3>1. A(F[f], F[g], k + 1)
      BY <2>2, <1>9, <1>1
    <3>2. \A j \in Nat : j <= n => A(f, F[f], j) /\ A(g, F[g], j)
      BY <1>9, <1>1 DEF A, Agree
    <3>3. A(f, F[f], k + 1) /\ A(g, F[g], k + 1)
      BY <3>2
    <3>4. A(f, g, k + 1)
      BY <3>1, <3>3, <1>2, <1>3
    <3> QED
      BY <3>4
  <2>3. 0 .. n \subseteq S
    BY <2>1, <2>2, ReachesUpTo
  <2> QED
    BY <2>3
<1> DEFINE approx == [n \in Nat |-> CHOOSE f : Good(f, n)]
           limit == [x \in D |-> approx[measure[x] + 1][x]]
<1>10. \A n \in Nat : Good(approx[n], n)
  <2> HIDE DEF Good
  <2> QED BY <1>8
<1> HIDE DEF approx
<1>11. limit \in Functions
  <2>1. ASSUME NEW x \in D PROVE approx[measure[x] + 1][x] \in V
    <3>1. measure[x] + 1 \in Nat
      BY <1>1
    <3>2. approx[measure[x] + 1] \in [D -> V]
      BY <3>1, <1>10 DEF Functions
    <3> QED
      BY <3>2
  <2> QED
    BY <2>1 DEF Functions
<1>12. ASSUME NEW n \in Nat PROVE A(limit, approx[n], n)
  <2>1. ASSUME NEW x \in D, measure[x] < n PROVE limit[x] = approx[n][x]
    <3>1. measure[x] \in Nat /\ measure[x] + 1 \in Nat
      BY <1>1
    <3>2. Good(approx[measure[x] + 1], measure[x] + 1)
      BY <3>1, <1>10
    <3>3. Good(approx[n], n)
      BY <1>10
    <3>4. \A j \in Nat : j <= n => A(approx[n], F[approx[n]], j)
      BY <3>3, <1>1 DEF A, Agree
    <3>5. Good(approx[n], measure[x] + 1)
      BY <3>1, <3>3, <3>4, <2>1
    <3>6. A(approx[measure[x] + 1], approx[n], measure[x] + 1)
      <4> HIDE DEF Good
      <4> QED BY <3>1, <3>2, <3>5, <1>9
    <3>7. measure[x] < measure[x] + 1
      BY <3>1
    <3>8. limit[x] = approx[measure[x] + 1][x]
      OBVIOUS
    <3> HIDE DEF limit, A
    <3> QED
      BY <3>6, <3>7, <3>8, <1>6
  <2> HIDE DEF limit
  <2> QED
    BY <2>1, <1>7
<1> HIDE DEF limit
<1>13. ASSUME NEW x \in D PROVE limit[x] = F[limit][x]
  <2> DEFINE n == measure[x]
  <2>1. n \in Nat
    BY <1>1
  <2> HIDE DEF n
  <2>2. Good(approx[n + 1], n + 1)
    BY <2>1, <1>10
  <2>3. A(limit, approx[n + 1], n + 1)
    BY <2>1, <1>12
  <2>4. A(F[limit], F[approx[n + 1]], n + 1)
    <3>1. A(limit, approx[n + 1], n)
      BY <2>1, <2>3, <1>4
    <3> QED
      BY <3>1, <2>1, <2>2, <1>1, <1>11
  <2>5. A(limit, F[limit], n + 1)
    BY <2>2, <2>3, <2>4, <1>2, <1>3
  <2>6. measure[x] < n + 1
    BY <2>1 DEF n
  <2> QED
    BY <2>5, <2>6, <1>6
<1>14. limit = F[limit]
  <2>1. limit \in [D -> V] /\ F[limit] \in [D -> V]
    BY <1>11, <1>1 DEF Functions
  <2> QED
    BY <2>1, <1>13
<1> QED
  BY <1>11, <1>14 DEF Functions

=============================================================================
