----------------------------- MODULE Iterations ------------------------------
(***************************************************************************)
(* Induction and recursion over the natural numbers, as theorems about     *)
(* sets and functions: they can be cited for any property that defines a   *)
(* set of numbers, and for any recursion whose step is a function.         *)
(***************************************************************************)
EXTENDS Naturals, WellFoundedInduction, TLAPS

(* A set of numbers that is not empty has a least element. *)
LEMMA LeastIn ==
  ASSUME NEW S, S \subseteq Nat, S # {}
  PROVE  \E m \in S : \A j \in S : m <= j
<1> DEFINE R == OpToRel(<, Nat)
<1>1. R = {ss \in Nat \X Nat : ss[1] < ss[2]}
  BY DEF OpToRel
<1>2. IsWellFoundedOn(R, Nat)
  BY NatLessThanWellFounded
<1> HIDE DEF R
<1>3. PICK i \in S : \A j \in S : ~(<<j, i>> \in R)
  BY <1>2, WFMin
<1>4. \A j \in S : ~(j < i)
  BY <1>1, <1>3
<1>5. \A j \in S : i <= j
  BY <1>4
<1> QED
  BY <1>5

(* A set with 0 that is closed under the successor has every number. *)
LEMMA AllNumbers ==
  ASSUME NEW S, 0 \in S, \A n \in Nat : n \in S => n + 1 \in S
  PROVE  \A n \in Nat : n \in S
<1> DEFINE T == Nat \ S
<1> SUFFICES ASSUME T # {} PROVE FALSE
  OBVIOUS
<1>1. PICK m \in T : \A j \in T : m <= j
  <2>1. T \subseteq Nat
    OBVIOUS
  <2> HIDE DEF T
  <2> QED
    BY <2>1, LeastIn
<1>2. m \in Nat \ {0} /\ m - 1 \in Nat
  BY <1>1
<1>3. m - 1 \notin T
  BY <1>1, <1>2
<1>4. (m - 1) + 1 \in S
  BY <1>2, <1>3
<1> QED
  BY <1>1, <1>2, <1>4

(* The same below a bound. *)
LEMMA AllUpTo ==
  ASSUME NEW n \in Nat, NEW S, 0 \in S, \A k \in 0..n : k \in S /\ k < n => k + 1 \in S
  PROVE  \A k \in 0..n : k \in S
<1> DEFINE T == {k \in Nat : k <= n => k \in S}
<1>1. 0 \in T
  OBVIOUS
<1>2. \A k \in Nat : k \in T => k + 1 \in T
  OBVIOUS
<1>3. \A k \in Nat : k \in T
  <2> HIDE DEF T
  <2> QED
    BY <1>1, <1>2, AllNumbers
<1> QED
  BY <1>3

(* Applying the functions G[1], G[2], ... of S to a in turn is a function,  *)
(* ...                                                                      *)
Iterates(f, a, n, G) == f[0] = a /\ \A k \in 1..n : f[k] = G[k][f[k - 1]]
HasIteration(S, a, n, G) == \E f \in [0..n -> S] : Iterates(f, a, n, G)

LEMMA Iterated ==
  \A S : \A a \in S : \A n \in Nat : \A G \in [1..n -> [S -> S]] : HasIteration(S, a, n, G)
<1> SUFFICES ASSUME NEW S, NEW a \in S, NEW n \in Nat, NEW G \in [1..n -> [S -> S]]
             PROVE  \E f \in [0..n -> S] :
                      f[0] = a /\ \A k \in 1..n : f[k] = G[k][f[k - 1]]
  BY DEF HasIteration, Iterates
<1> DEFINE Is(f, m) == f[0] = a /\ \A k \in 1..m : f[k] = G[k][f[k - 1]]
           T == {m \in 0..n : \E f \in [0..m -> S] : Is(f, m)}
<1>1. 0 \in T
  <2> DEFINE g == [k \in 0..0 |-> a]
  <2>1. g \in [0..0 -> S] /\ g[0] = a
    OBVIOUS
  <2> HIDE DEF g
  <2>2. g[0] = a /\ \A k \in 1..0 : g[k] = G[k][g[k - 1]]
    BY <2>1
  <2>3. \E f \in [0..0 -> S] : Is(f, 0)
    BY <2>1, <2>2
  <2>4. 0 \in 0..n
    OBVIOUS
  <2> QED
    BY <2>3, <2>4
<1>2. ASSUME NEW m \in 0..n, m \in T, m < n PROVE m + 1 \in T
  <2>1. PICK f \in [0..m -> S] : Is(f, m)
    BY <1>2
  <2> DEFINE g == [k \in 0..(m + 1) |-> IF k = m + 1 THEN G[m + 1][f[m]] ELSE f[k]]
  <2>2. g \in [0..(m + 1) -> S]
    BY <1>2, <2>1
  <2>3. g[0] = a /\ \A k \in 1..(m + 1) : g[k] = G[k][g[k - 1]]
    <3>1. \A k \in 0..m : g[k] = f[k]
      BY <1>2
    <3>2. g[m + 1] = G[m + 1][f[m]]
      BY <1>2
    <3> HIDE DEF g
    <3>3. g[0] = a
      BY <1>2, <2>1, <3>1
    <3>4. ASSUME NEW k \in 1..(m + 1) PROVE g[k] = G[k][g[k - 1]]
      <4>1. CASE k = m + 1
        BY <1>2, <3>1, <3>2, <4>1
      <4>2. CASE k # m + 1
        <5>1. k \in 1..m /\ k \in 0..m /\ k - 1 \in 0..m
          BY <1>2, <4>2
        <5> QED
          BY <2>1, <3>1, <5>1
      <4> QED
        BY <4>1, <4>2
    <3> QED
      BY <3>3, <3>4
  <2>4. m + 1 \in 0..n
    BY <1>2
  <2> HIDE DEF g
  <2> QED
    BY <2>2, <2>3, <2>4
<1>3. \A k \in 0..n : k \in T
  <2> HIDE DEF T
  <2> QED
    BY <1>1, <1>2, AllUpTo
<1>4. n \in T
  BY <1>3
<1> QED
  BY <1>4

(* ... and whatever satisfies such a recursion stays in the set.            *)
Recurs(S, f, a, n, G) ==
  f[0] = a /\ \A k \in 1..n : f[k - 1] \in S => f[k] = G[k][f[k - 1]]
StaysIn(S, f, n) == \A k \in 0..n : f[k] \in S

LEMMA IterationTyped ==
  \A S : \A a \in S : \A n \in Nat : \A G \in [1..n -> [S -> S]] :
    \A f : Recurs(S, f, a, n, G) => StaysIn(S, f, n)
<1> SUFFICES ASSUME NEW S, NEW a \in S, NEW n \in Nat, NEW G \in [1..n -> [S -> S]], NEW f,
                    f[0] = a, \A k \in 1..n : f[k - 1] \in S => f[k] = G[k][f[k - 1]]
             PROVE  \A k \in 0..n : f[k] \in S
  BY DEF Recurs, StaysIn
<1> DEFINE T == {k \in 0..n : f[k] \in S}
<1>1. 0 \in T
  OBVIOUS
<1>2. ASSUME NEW k \in 0..n, k \in T, k < n PROVE k + 1 \in T
  <2>1. k + 1 \in 1..n /\ k + 1 \in 0..n /\ (k + 1) - 1 = k
    BY <1>2
  <2>2. f[k] \in S
    BY <1>2
  <2>3. f[k + 1] = G[k + 1][f[k]]
    BY <2>1, <2>2
  <2> QED
    BY <2>1, <2>2, <2>3
<1>3. \A k \in 0..n : k \in T
  <2> HIDE DEF T
  <2> QED
    BY <1>1, <1>2, AllUpTo
<1> QED
  BY <1>3

LEMMA IterationIs ==
  \A S : \A a \in S : \A n \in Nat : \A G \in [1..n -> [S -> S]] :
    \A f : f = [k \in 0..n |-> f[k]] /\ Recurs(S, f, a, n, G)
           => f \in [0..n -> S] /\ Iterates(f, a, n, G)
<1> SUFFICES ASSUME NEW S, NEW a \in S, NEW n \in Nat, NEW G \in [1..n -> [S -> S]], NEW f,
                    f = [k \in 0..n |-> f[k]], Recurs(S, f, a, n, G)
             PROVE  f \in [0..n -> S] /\ Iterates(f, a, n, G)
  OBVIOUS
<1>1. \A k \in 0..n : f[k] \in S
  BY IterationTyped DEF StaysIn
<1>2. f \in [0..n -> S]
  BY <1>1
<1>3. ASSUME NEW k \in 1..n PROVE f[k - 1] \in S
  <2>1. k - 1 \in 0..n
    OBVIOUS
  <2> QED
    BY <1>1, <2>1
<1> QED
  BY <1>2, <1>3 DEF Recurs, Iterates

(* Steps that are undone one by one, the last one first, are all undone.    *)
Undoes(B, F, n, S) == \A k \in 1..n : \A s \in S : B[n + 1 - k][F[k][s]] = s
ComesBack(B, F, n, S) ==
  \A f \in [0..n -> S], g \in [0..n -> S] :
    Iterates(f, f[0], n, F) /\ Iterates(g, f[n], n, B) => g[n] = f[0]

LEMMA AllUndone ==
  \A S : \A n \in Nat : \A F \in [1..n -> [S -> S]], B \in [1..n -> [S -> S]] :
    Undoes(B, F, n, S) => ComesBack(B, F, n, S)
<1> SUFFICES ASSUME NEW S, NEW n \in Nat,
                    NEW F \in [1..n -> [S -> S]], NEW B \in [1..n -> [S -> S]],
                    Undoes(B, F, n, S),
                    NEW f \in [0..n -> S], NEW g \in [0..n -> S],
                    Iterates(f, f[0], n, F), Iterates(g, f[n], n, B)
             PROVE  g[n] = f[0]
  BY DEF ComesBack
<1>0. /\ \A k \in 1..n : \A s \in S : B[n + 1 - k][F[k][s]] = s
      /\ \A k \in 1..n : f[k] = F[k][f[k - 1]]
      /\ g[0] = f[n] /\ \A k \in 1..n : g[k] = B[k][g[k - 1]]
  BY DEF Undoes, Iterates
<1> DEFINE T == {k \in 0..n : g[k] = f[n - k]}
<1>1. 0 \in T
  BY <1>0
<1>2. ASSUME NEW k \in 0..n, k \in T, k < n PROVE k + 1 \in T
  <2> DEFINE j == n - k
  <2>1. /\ k + 1 \in 1..n /\ k + 1 \in 0..n /\ (k + 1) - 1 = k
        /\ j \in 1..n /\ n + 1 - j = k + 1 /\ j - 1 = n - (k + 1) /\ j - 1 \in 0..n
    BY <1>2
  <2>2. g[k] = f[j]
    BY <1>2
  <2> HIDE DEF j
  <2>3. g[k + 1] = B[k + 1][g[k]]
    BY <1>0, <2>1
  <2>4. f[j] = F[j][f[j - 1]] /\ f[j - 1] \in S
    BY <1>0, <2>1
  <2>5. B[n + 1 - j][F[j][f[j - 1]]] = f[j - 1]
    BY <1>0, <2>1, <2>4
  <2>6. g[k + 1] = f[n - (k + 1)]
    BY <2>1, <2>2, <2>3, <2>4, <2>5
  <2> QED
    BY <2>1, <2>6
<1>3. \A k \in 0..n : k \in T
  <2> HIDE DEF T
  <2> QED
    BY <1>1, <1>2, AllUpTo
<1>4. n \in T
  BY <1>3
<1> QED
  BY <1>4

=============================================================================
