---------------------------- MODULE InductionLemmas ----------------------------
(***************************************************************************)
(* Induction and recursion on the natural numbers, and what they say of    *)
(* the folds of the community modules.  The theorems of the library take   *)
(* operators as parameters, which the provers do not instantiate; here a   *)
(* set stands for the predicate, and a function for the step.              *)
(***************************************************************************)
EXTENDS Naturals, SequencesExt, WellFoundedInduction, TLAPS

LEMMA LeastOfNat ==
  ASSUME NEW T, T \subseteq Nat, T # {}
  PROVE  \E x \in T : \A y \in T : x <= y
<1> DEFINE R == {ss \in Nat \X Nat : ss[1] < ss[2]}
<1>1. IsWellFoundedOn(R, Nat)
  BY NatLessThanWellFounded DEF OpToRel
<1>2. \A x, y \in Nat : <<y, x>> \in R <=> y < x
  OBVIOUS
<1> HIDE DEF R
<1>3. \E x \in T : \A y \in T : ~(<<y, x>> \in R)
  BY <1>1, WFMin
<1>4. PICK x \in T : \A y \in T : ~(<<y, x>> \in R)
  BY <1>3
<1>5. ASSUME NEW y \in T PROVE x <= y
  <2>1. x \in Nat /\ y \in Nat
    OBVIOUS
  <2>2. ~(y < x)
    BY <1>2, <1>4, <2>1
  <2>3. QED
    BY <2>1, <2>2
<1>6. QED
  BY <1>4, <1>5

\* Max is the greatest of a set of numbers that has a bound.
LEMMA MaxIsGreatest ==
  ASSUME NEW T, T \subseteq Nat, T # {}, NEW b \in Nat, \A x \in T : x <= b
  PROVE  Max(T) \in T /\ \A x \in T : x <= Max(T)
<1> DEFINE Bounds == {n \in Nat : \A x \in T : x <= n}
<1>1. PICK m \in Bounds : \A n \in Bounds : m <= n
  BY LeastOfNat
<1>2. m \in T
  <2>1. SUFFICES ASSUME m \notin T PROVE FALSE
    OBVIOUS
  <2>2. PICK x \in T : TRUE
    OBVIOUS
  <2>3. m \in Nat /\ m # 0
    BY <1>1, <2>1, <2>2
  <2>4. \A y \in T : y <= m - 1 /\ m - 1 \in Nat
    BY <1>1, <2>1, <2>3
  <2>5. m - 1 \in Bounds
    BY <2>3, <2>4
  <2>6. QED
    BY <1>1, <2>3, <2>5
<1>3. \E x \in T : \A y \in T : x >= y
  BY <1>1, <1>2
<1>4. Max(T) \in T /\ \A y \in T : Max(T) >= y
  BY <1>3 DEF Max
<1>5. QED
  BY <1>4

\* Induction, for a set of numbers in place of a predicate.
LEMMA NatInSet ==
  ASSUME NEW S, 0 \in S, \A n \in Nat : n \in S => n + 1 \in S
  PROVE  Nat \subseteq S
<1> SUFFICES ASSUME ~(Nat \subseteq S) PROVE FALSE
  OBVIOUS
<1>1. PICK n \in Nat \ S : \A m \in Nat \ S : n <= m
  <2>1. Nat \ S \in SUBSET Nat /\ Nat \ S # {}
    OBVIOUS
  <2> QED
    BY <2>1, LeastOfNat
<1>2. n # 0
  BY <1>1
<1>3. n - 1 \in Nat /\ (n - 1) + 1 = n /\ ~(n <= n - 1)
  BY <1>1, <1>2
<1>4. n - 1 \in S
  BY <1>1, <1>3
<1> QED
  BY <1>1, <1>3, <1>4

\* The function that starts with s0 and goes from n to n + 1 by h[n].
IsRecursion(f, S, s0, h) ==
  f \in [Nat -> S] /\ f[0] = s0 /\ \A n \in Nat : f[n + 1] = h[n][f[n]]

\* Functions on the numbers can be defined by recursion.
LEMMA RecursionOnNat ==
  ASSUME NEW S, NEW s0 \in S, NEW h \in [Nat -> [S -> S]]
  PROVE  \E f : IsRecursion(f, S, s0, h)
<1> DEFINE Starts(g, n) == /\ g \in [0..n -> S] /\ g[0] = s0
                           /\ \A i \in 0..n : i # n => g[i + 1] = h[i][g[i]]
           Have == {n \in Nat : \E g : Starts(g, n)}
           Agree(n, k, m) == \A g, gg : Starts(g, k) /\ Starts(gg, m) => g[n] = gg[n]
           One == {n \in Nat : \A k, m \in Nat : n <= k /\ n <= m => Agree(n, k, m)}
<1>1. Nat \subseteq Have
  <2>1. 0 \in Have
    <3>1. Starts([i \in 0..0 |-> s0], 0)
      OBVIOUS
    <3> QED
      BY <3>1
  <2>2. ASSUME NEW n \in Nat, n \in Have PROVE n + 1 \in Have
    <3>1. PICK g : Starts(g, n)
      BY <2>2
    <3> DEFINE gg == [i \in 0..(n + 1) |-> IF i = n + 1 THEN h[n][g[n]] ELSE g[i]]
    <3>2. /\ g \in [0..n -> S] /\ g[0] = s0
          /\ \A i \in 0..n : i # n => g[i + 1] = h[i][g[i]]
      BY <3>1
    <3> HIDE DEF Starts
    <3>3. gg \in [0..(n + 1) -> S]
      <4>1. h[n][g[n]] \in S
        BY <3>2
      <4>2. \A i \in 0..(n + 1) : i # n + 1 => i \in 0..n
        OBVIOUS
      <4> QED
        BY <3>2, <4>1, <4>2
    <3>4. gg[0] = s0
      BY <3>2
    <3>5. ASSUME NEW i \in 0..(n + 1), i # n + 1 PROVE gg[i + 1] = h[i][gg[i]]
      BY <3>2, <3>5
    <3>6. Starts(gg, n + 1)
      <4> HIDE DEF gg
      <4> QED
        BY <3>3, <3>4, <3>5 DEF Starts
    <3> QED
      BY <3>6
  <2> HIDE DEF Have
  <2> QED
    BY <2>1, <2>2, NatInSet
<1>2. Nat \subseteq One
  <2>1. 0 \in One
    OBVIOUS
  <2>2. ASSUME NEW n \in Nat, n \in One PROVE n + 1 \in One
    <3>1. ASSUME NEW k \in Nat, NEW m \in Nat, n + 1 <= k, n + 1 <= m,
                 NEW g, NEW gg, Starts(g, k), Starts(gg, m)
          PROVE  g[n + 1] = gg[n + 1]
      <4>1. n <= k /\ n <= m /\ n \in 0..k /\ n \in 0..m /\ n # k /\ n # m
        BY <3>1
      <4>2. g[n] = gg[n]
        <5>1. Agree(n, k, m)
          <6> HIDE DEF Agree
          <6> QED
            BY <2>2, <4>1
        <5> HIDE DEF Starts
        <5> QED
          BY <3>1, <5>1
      <4>3. g[n + 1] = h[n][g[n]]
        BY <3>1, <4>1
      <4>4. gg[n + 1] = h[n][gg[n]]
        BY <3>1, <4>1
      <4> QED
        BY <4>2, <4>3, <4>4
    <3>2. ASSUME NEW k \in Nat, NEW m \in Nat, n + 1 <= k, n + 1 <= m
          PROVE  Agree(n + 1, k, m)
      <4> HIDE DEF Starts
      <4> QED
        BY <3>1, <3>2
    <3> HIDE DEF Agree
    <3> QED
      BY <3>2
  <2> HIDE DEF One
  <2> QED
    BY <2>1, <2>2, NatInSet
<1> DEFINE G == [n \in Nat |-> CHOOSE g : Starts(g, n)]
           f == [n \in Nat |-> G[n][n]]
<1>3. ASSUME NEW n \in Nat PROVE Starts(G[n], n)
  <2>1. \E g : Starts(g, n)
    <3> HIDE DEF Starts
    <3> QED
      BY <1>1
  <2> HIDE DEF Starts
  <2> QED
    BY <2>1
<1> HIDE DEF G
<1>4. f \in [Nat -> S]
  <2>1. ASSUME NEW n \in Nat PROVE G[n][n] \in S
    <3>1. G[n] \in [0..n -> S] /\ n \in 0..n
      BY <1>3
    <3> QED
      BY <3>1
  <2> QED
    BY <2>1
<1>5. f[0] = s0
  BY <1>3
<1>6. ASSUME NEW n \in Nat PROVE f[n + 1] = h[n][f[n]]
  <2>1. Starts(G[n + 1], n + 1) /\ Starts(G[n], n)
    BY <1>3
  <2>2. G[n + 1][n + 1] = h[n][G[n + 1][n]]
    <3>1. n \in 0..(n + 1) /\ n # n + 1
      OBVIOUS
    <3> QED
      BY <2>1, <3>1
  <2>3. G[n + 1][n] = G[n][n]
    <3> HIDE DEF Starts
    <3>1. Agree(n, n + 1, n)
      <4> HIDE DEF Agree
      <4> QED
        BY <1>2
    <3> QED
      BY <2>1, <3>1
  <2> QED
    BY <2>2, <2>3
<1> HIDE DEF f
<1>7. IsRecursion(f, S, s0, h)
  BY <1>4, <1>5, <1>6 DEF IsRecursion
<1> QED
  BY <1>7
-----------------------------------------------------------------------------
(* Folds.  MapThenFoldSet is a function on the subsets of a set, of which    *)
(* FoldLeft takes out the greatest index first.                              *)

LEMMA GreatestIndex ==
  ASSUME NEW N \in Nat, NEW s \in SUBSET (1..N), s # {}
  PROVE  Max(s) \in s /\ \A x \in s : x <= Max(s)
<1>1. s \subseteq Nat /\ \A x \in s : x <= N
  OBVIOUS
<1> QED
  BY <1>1, MaxIsGreatest

IsFold(it, N, S, s0, h) ==
  /\ it \in [SUBSET (1..N) -> S]
  /\ \A s \in SUBSET (1..N) :
       it[s] = IF s = {} THEN s0 ELSE h[Max(s)][it[s \ {Max(s)}]]

LEMMA FoldExists ==
  ASSUME NEW N \in Nat, NEW S, NEW s0 \in S, NEW h \in [1..N -> [S -> S]]
  PROVE  \E it : IsFold(it, N, S, s0, h)
<1> DEFINE I == SUBSET (1..N)
           Next1(n, g) == [s \in I |-> IF n + 1 \in s THEN h[n + 1][g[s]] ELSE g[s]]
           step == [n \in Nat |-> [g \in [I -> S] |-> Next1(n, g)]]
           start == [s \in I |-> s0]
<1>1. start \in [I -> S]
  OBVIOUS
<1>2. step \in [Nat -> [[I -> S] -> [I -> S]]]
  <2>1. ASSUME NEW n \in Nat, NEW g \in [I -> S] PROVE Next1(n, g) \in [I -> S]
    OBVIOUS
  <2> HIDE DEF Next1
  <2> QED
    BY <2>1
<1>3. PICK F \in [Nat -> [I -> S]] :
        F[0] = start /\ \A n \in Nat : F[n + 1] = step[n][F[n]]
  <2> DEFINE X == [I -> S]
  <2>1. start \in X /\ step \in [Nat -> [X -> X]]
    BY <1>1, <1>2
  <2> HIDE DEF step, start, X
  <2>2. \E f : IsRecursion(f, X, start, step)
    BY <2>1, RecursionOnNat
  <2> QED
    BY <2>2 DEF X, IsRecursion
<1>4. ASSUME NEW n \in Nat, NEW s \in I
      PROVE  /\ F[n][s] \in S
             /\ F[n + 1][s] = IF n + 1 \in s THEN h[n + 1][F[n][s]] ELSE F[n][s]
  <2>1. F[n] \in [I -> S] /\ F[n + 1] = step[n][F[n]]
    BY <1>3
  <2>2. F[n + 1] = Next1(n, F[n])
    <3> HIDE DEF Next1
    <3> QED
      BY <2>1
  <2> QED
    BY <2>1, <2>2
<1>5. ASSUME NEW s \in I PROVE F[0][s] = s0
  BY <1>3
<1> HIDE DEF step, start
(* What is above the elements of a set does not matter for it, *)
<1>6. ASSUME NEW s \in I, NEW b \in Nat, \A x \in s : x <= b, NEW n \in Nat
      PROVE  F[b + n][s] = F[b][s]
  <2> DEFINE T == {m \in Nat : F[b + m][s] = F[b][s]}
  <2>1. 0 \in T
    OBVIOUS
  <2>2. ASSUME NEW m \in Nat, m \in T PROVE m + 1 \in T
    <3>1. (b + m) + 1 = b + (m + 1) /\ b + m \in Nat /\ (b + m) + 1 \notin s
      BY <1>6
    <3>2. F[(b + m) + 1][s] = F[b + m][s]
      BY <1>4, <3>1
    <3> QED
      BY <2>2, <3>1, <3>2
  <2>3. Nat \subseteq T
    <3> HIDE DEF T
    <3> QED
      BY <2>1, <2>2, NatInSet
  <2> QED
    BY <2>3
(* nor what it has above for what is below. *)
<1>7. ASSUME NEW s \in I, NEW b \in 1..N, NEW n \in Nat, n < b
      PROVE  F[n][s] = F[n][s \ {b}]
  <2> DEFINE T == {m \in Nat : m < b => F[m][s] = F[m][s \ {b}]}
  <2>0. s \ {b} \in I
    OBVIOUS
  <2>1. 0 \in T
    BY <1>5, <2>0
  <2>2. ASSUME NEW m \in Nat, m \in T PROVE m + 1 \in T
    <3> SUFFICES ASSUME m + 1 < b PROVE F[m + 1][s] = F[m + 1][s \ {b}]
      OBVIOUS
    <3>1. m < b /\ m + 1 # b
      OBVIOUS
    <3>2. F[m][s] = F[m][s \ {b}]
      BY <2>2, <3>1
    <3>3. m + 1 \in s <=> m + 1 \in s \ {b}
      BY <3>1
    <3> QED
      BY <1>4, <2>0, <3>2, <3>3, ZenonT(60)
  <2>3. Nat \subseteq T
    <3> HIDE DEF T
    <3> QED
      BY <2>1, <2>2, NatInSet
  <2> QED
    BY <1>7, <2>3
<1> DEFINE it == F[N]
<1>8. ASSUME NEW s \in I
      PROVE  it[s] = IF s = {} THEN s0 ELSE h[Max(s)][it[s \ {Max(s)}]]
  <2>1. CASE s = {}
    <3>1. F[0 + N][s] = F[0][s]
      BY <1>6, <2>1
    <3> QED
      BY <1>5, <2>1, <3>1
  <2>2. CASE s # {}
    <3> DEFINE M == Max(s)
               r == s \ {M}
    <3>1. M \in s /\ \A x \in s : x <= M
      BY <2>2, GreatestIndex
    <3> HIDE DEF M
    <3>2. M \in 1..N /\ M \in Nat /\ M - 1 \in Nat /\ (M - 1) + 1 = M /\ M - 1 < M
          /\ N - M \in Nat /\ M + (N - M) = N
      BY <3>1
    <3>3. r \in I /\ \A x \in r : x <= M
      BY <3>1
    <3>4. it[s] = F[M][s] /\ it[r] = F[M][r]
      <4>1. F[M + (N - M)][s] = F[M][s]
        BY <1>6, <3>1, <3>2
      <4>2. F[M + (N - M)][r] = F[M][r]
        <5> HIDE DEF r
        <5> QED
          BY <1>6, <3>2, <3>3
      <4> QED
        BY <3>2, <4>1, <4>2
    <3>5. F[M][s] = h[M][F[M - 1][s]]
      BY <1>4, <3>1, <3>2
    <3>6. F[M][r] = F[M - 1][r]
      BY <1>4, <3>2, <3>3
    <3>7. F[M - 1][s] = F[M - 1][r]
      BY <1>7, <3>2
    <3> QED
      BY <2>2, <3>4, <3>5, <3>6, <3>7 DEF M
  <2> QED
    BY <2>1, <2>2
<1>9. it \in [I -> S]
  BY <1>3
<1> HIDE DEF it
<1>10. IsFold(it, N, S, s0, h)
  BY <1>8, <1>9 DEF IsFold
<1> QED
  BY <1>10

\* What FoldLeft takes out of the first n indices.
LEMMA LastOfInterval ==
  ASSUME NEW n \in Nat \ {0}
  PROVE  1..n # {} /\ Max(1..n) = n /\ (1..n) \ {n} = 1..(n - 1)
<1>1. n \in 1..n
  OBVIOUS
<1>2. Max(1..n) \in 1..n /\ n <= Max(1..n)
  BY <1>1, GreatestIndex
<1> QED
  BY <1>1, <1>2

\* v[n] is what the first n steps of h make of s0.
IsRun(v, N, S, s0, h) ==
  v \in [0..N -> S] /\ v[0] = s0 /\ \A n \in 1..N : v[n] = h[n][v[n - 1]]

\* f folds h over sets of indices, as far as its values stay in S.
FoldsBy(f, N, S, s0, h) ==
  \A s \in SUBSET (1..N) :
    /\ s = {} => f[s] = s0
    /\ s # {} /\ f[s \ {Max(s)}] \in S => f[s] = h[Max(s)][f[s \ {Max(s)}]]

\* Such a fold takes the indices 1..N in order.
LEMMA FoldRuns ==
  ASSUME NEW N \in Nat, NEW S, NEW s0 \in S, NEW h \in [1..N -> [S -> S]], NEW f,
         FoldsBy(f, N, S, s0, h)
  PROVE  \E v : IsRun(v, N, S, s0, h) /\ v[N] = f[1..N]
<1> DEFINE v == [n \in 0..N |-> f[1..n]]
<1>1. \A n \in 0..N : 1..n \in SUBSET (1..N) /\ v[n] = f[1..n]
  OBVIOUS
<1>2. v[0] = s0
  <2>1. 1..0 = {} /\ 0 \in 0..N /\ {} \in SUBSET (1..N)
    OBVIOUS
  <2>2. f[{}] = s0
    BY <2>1 DEF FoldsBy
  <2> QED
    BY <2>1, <2>2
<1>3. ASSUME NEW n \in 1..N, v[n - 1] \in S
      PROVE  v[n] = h[n][v[n - 1]] /\ v[n] \in S
  <2> DEFINE s == 1..n
  <2>0. n \in Nat \ {0} /\ n \in 0..N /\ n - 1 \in 0..N
    OBVIOUS
  <2>1. s # {} /\ Max(s) = n /\ s \ {n} = 1..(n - 1)
    BY <2>0, LastOfInterval
  <2>2. s \in SUBSET (1..N) /\ v[n] = f[s] /\ v[n - 1] = f[1..(n - 1)]
    BY <1>1, <2>0
  <2> HIDE DEF s, v
  <2>3. f[s] = h[Max(s)][f[s \ {Max(s)}]]
    BY <1>3, <2>1, <2>2 DEF FoldsBy
  <2>4. v[n] = h[n][v[n - 1]]
    BY <2>1, <2>2, <2>3
  <2> QED
    BY <1>3, <2>4
<1> HIDE DEF v
<1> DEFINE T == {m \in Nat : m <= N => v[m] \in S}
<1>4. 0 \in T
  BY <1>2
<1>5. ASSUME NEW m \in Nat, m \in T PROVE m + 1 \in T
  <2> SUFFICES ASSUME m + 1 <= N PROVE v[m + 1] \in S
    OBVIOUS
  <2>1. m + 1 \in 1..N /\ (m + 1) - 1 = m /\ v[m] \in S
    BY <1>5
  <2> QED
    BY <1>3, <2>1
<1>6. Nat \subseteq T
  <2> HIDE DEF T
  <2> QED
    BY <1>4, <1>5, NatInSet
<1>7. \A n \in 0..N : v[n] \in S
  BY <1>6
<1>8. v \in [0..N -> S]
  BY <1>7 DEF v
<1>9. \A n \in 1..N : v[n] = h[n][v[n - 1]]
  BY <1>3, <1>7
<1>10. v[N] = f[1..N]
  BY DEF v
<1> QED
  BY <1>2, <1>8, <1>9, <1>10 DEF IsRun
=============================================================================
