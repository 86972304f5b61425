------------------------------ MODULE Induction ------------------------------
(***************************************************************************)
(* Induction for the proofs of the other modules, stated about sets: every *)
(* nonempty set of finite sets has a minimal member, so every nonempty set *)
(* of natural numbers has a least one, so a set with 0 that is closed      *)
(* under successor has them all, so what is computed from one state to the *)
(* next exists for every number of steps.                                  *)
(***************************************************************************)
EXTENDS Integers, FiniteSets, FiniteSetsExt, TLAPS, FiniteSetTheorems

(* The order of finite sets by inclusion is well founded.                  *)
LEMMA MinimalSet ==
  ASSUME NEW S, NEW TT, TT \subseteq FiniteSubsetsOf(S), TT # {}
  PROVE  \E X \in TT : \A Y \in TT : Y \subseteq X => Y = X
<1> DEFINE R == StrictSubsetOrdering(S)
<1>1. IsWellFoundedOn(R, FiniteSubsetsOf(S))
  BY FS_StrictSubsetOrderingWellFounded
<1>2. \A X, Y \in SUBSET S : Y \subseteq X /\ Y # X => <<Y, X>> \in R
  BY DEF StrictSubsetOrdering
<1> HIDE DEF R
<1>3. \E X \in TT : \A Y \in TT : ~ (<<Y, X>> \in R)
  BY <1>1, WFMin
<1>4. TT \subseteq SUBSET S
  BY DEF FiniteSubsetsOf
<1> QED BY <1>2, <1>3, <1>4

(* The number n stands for the set 0 .. n.                                 *)
LEMMA LeastOf ==
  ASSUME NEW T, T \subseteq Nat, T # {}
  PROVE  \E x \in T : \A y \in T : x <= y
<1> DEFINE TT == {0 .. n : n \in T}
<1>1. TT \subseteq FiniteSubsetsOf(Nat)
  <2> SUFFICES ASSUME NEW n \in T PROVE IsFiniteSet(0 .. n) /\ 0 .. n \subseteq Nat
    BY DEF FiniteSubsetsOf
  <2> QED BY FS_Interval
<1>2. TT # {}
  OBVIOUS
<1>3. PICK X \in TT : \A Y \in TT : Y \subseteq X => Y = X
  <2> HIDE DEF TT
  <2> QED BY <1>1, <1>2, MinimalSet
<1>4. PICK x \in T : X = 0 .. x
  OBVIOUS
<1>5. ASSUME NEW y \in T, y < x PROVE FALSE
  <2>1. 0 .. y \in TT
    OBVIOUS
  <2>2. 0 .. y \subseteq 0 .. x
    BY <1>5
  <2>3. 0 .. y = 0 .. x
    BY <2>1, <2>2, <1>3, <1>4
  <2> QED BY <2>3, <1>5
<1> QED BY <1>5

(* Otherwise the least number that is missing has a predecessor.           *)
LEMMA AllNumbers ==
  ASSUME NEW T, 0 \in T, \A k \in Nat : k \in T => k + 1 \in T
  PROVE  Nat \subseteq T
<1> SUFFICES ASSUME Nat \ T # {} PROVE FALSE
  OBVIOUS
<1>1. PICK x \in Nat \ T : \A y \in Nat \ T : x <= y
  BY LeastOf
<1>2. x # 0 /\ x - 1 \in Nat
  BY <1>1
<1>3. x - 1 \in T
  BY <1>1, <1>2
<1> QED BY <1>1, <1>2, <1>3

(* A function of the steps made so far, from the first state on: that of k *)
(* steps is extended by one.                                               *)
Iterates(f, S, first, G, n) ==
  f \in [0 .. n -> S] /\ f[0] = first /\ \A k \in 1 .. n : f[k] = G[f[k - 1]]

LEMMA Iteration ==
  ASSUME NEW S, NEW first \in S, NEW G \in [S -> S], NEW n \in Nat
  PROVE  \E f : Iterates(f, S, first, G, n)
<1> DEFINE T == {m \in Nat : \E f : Iterates(f, S, first, G, m)}
<1>1. 0 \in T
  <2> DEFINE f == [k \in 0 .. 0 |-> first]
  <2>1. Iterates(f, S, first, G, 0)
    BY DEF Iterates
  <2> QED BY <2>1
<1>2. ASSUME NEW m \in Nat, m \in T PROVE m + 1 \in T
  <2>1. PICK f : Iterates(f, S, first, G, m)
    BY <1>2
  <2> DEFINE g == [k \in 0 .. m + 1 |-> IF k = m + 1 THEN G[f[m]] ELSE f[k]]
  <2>2. f \in [0 .. m -> S] /\ f[0] = first /\ \A k \in 1 .. m : f[k] = G[f[k - 1]]
    BY <2>1 DEF Iterates
  <2>3. G[f[m]] \in S
    BY <2>2
  <2>4. g \in [0 .. m + 1 -> S]
    <3>1. ASSUME NEW k \in 0 .. m + 1, k # m + 1 PROVE f[k] \in S
      <4>1. k \in 0 .. m
        BY <3>1
      <4> QED BY <4>1, <2>2
    <3> QED BY <2>3, <3>1
  <2>5. g[0] = first
    BY <2>2
  <2>6. ASSUME NEW k \in 1 .. m + 1 PROVE g[k] = G[g[k - 1]]
    <3>1. k - 1 \in 0 .. m + 1 /\ k - 1 # m + 1 /\ k \in 0 .. m + 1
      OBVIOUS
    <3>2. g[k - 1] = f[k - 1]
      BY <3>1
    <3>3. CASE k = m + 1
      BY <3>1, <3>2, <3>3
    <3>4. CASE k # m + 1
      <4>1. k \in 1 .. m
        BY <3>4
      <4>2. g[k] = f[k]
        BY <3>1, <3>4
      <4> QED BY <2>2, <3>2, <4>1, <4>2
    <3> QED BY <3>3, <3>4
  <2> HIDE DEF g
  <2>7. Iterates(g, S, first, G, m + 1)
    BY <2>4, <2>5, <2>6 DEF Iterates
  <2>8. m + 1 \in Nat
    OBVIOUS
  <2> QED BY <2>7, <2>8
<1> HIDE DEF T
<1>3. n \in T
  BY <1>1, <1>2, AllNumbers
<1> QED BY <1>3 DEF T

-----------------------------------------------------------------------------
(* The folds of the community modules are recursive functions on the       *)
(* subsets of a finite set: what holds of the empty set and, with a set    *)
(* from which the picked member is taken, of the set, holds of all.        *)
LEMMA FoldedStays ==
  ASSUME NEW S, IsFiniteSet(S), NEW P, NEW pick,
         {} \in P,
         \A t \in SUBSET S : t # {} => pick[t] \in t /\ (t \ {pick[t]} \in P => t \in P)
  PROVE  SUBSET S \subseteq P
<1> DEFINE TT == {t \in SUBSET S : t \notin P}
<1> SUFFICES ASSUME TT # {} PROVE FALSE
  OBVIOUS
<1>1. TT \subseteq FiniteSubsetsOf(S)
  BY FS_Subset DEF FiniteSubsetsOf
<1> HIDE DEF TT
<1>2. PICK t \in TT : \A u \in TT : u \subseteq t => u = t
  BY <1>1, MinimalSet
<1>3. t \in SUBSET S /\ t \notin P /\ t # {}
  BY <1>2 DEF TT
<1>4. pick[t] \in t /\ t \ {pick[t]} \notin P /\ t \ {pick[t]} \in SUBSET S
  BY <1>3
<1>5. t \ {pick[t]} \in TT
  BY <1>4 DEF TT
<1>6. t \ {pick[t]} = t
  BY <1>2, <1>5
<1> QED BY <1>4, <1>6

IsFold(f, S, D, base, pick, G) ==
  /\ f \in [SUBSET S -> D]
  /\ f = [t \in SUBSET S |-> IF t = {} THEN base ELSE G[pick[t]][f[t \ {pick[t]}]]]

(* There is such a function: repeat its equation, and after n rounds it    *)
(* holds on all sets with n members.                                       *)
LEMMA FoldExists ==
  ASSUME NEW S, IsFiniteSet(S), NEW D, NEW base \in D, NEW pick,
         \A t \in SUBSET S : t # {} => pick[t] \in t,
         NEW G, \A x \in S, d \in D : G[x][d] \in D
  PROVE  \E iter : IsFold(iter, S, D, base, pick, G)
<1> DEFINE Once(f) == [t \in SUBSET S |-> IF t = {} THEN base ELSE G[pick[t]][f[t \ {pick[t]}]]]
           Maps == [SUBSET S -> D]
           Phi == [f \in Maps |-> Once(f)]
           start == [t \in SUBSET S |-> base]
           n == Cardinality(S)
<1>1. n \in Nat /\ n + 1 \in Nat
  BY FS_CardinalityType
<1>2. start \in Maps
  OBVIOUS
<1>3. ASSUME NEW f \in Maps PROVE Once(f) \in Maps
  <2> SUFFICES ASSUME NEW t \in SUBSET S, t # {} PROVE G[pick[t]][f[t \ {pick[t]}]] \in D
    OBVIOUS
  <2>1. pick[t] \in S /\ f[t \ {pick[t]}] \in D
    OBVIOUS
  <2> QED BY <2>1
<1>4. Phi \in [Maps -> Maps]
  BY <1>3
<1> HIDE DEF n, Maps, start, Phi
<1>5. PICK F : Iterates(F, Maps, start, Phi, n + 1)
  BY <1>1, <1>2, <1>4, Iteration
<1>6. /\ F \in [0 .. n + 1 -> Maps] /\ F[0] = start
      /\ \A k \in 1 .. n + 1 : F[k] = Phi[F[k - 1]]
  BY <1>5 DEF Iterates
<1>7. ASSUME NEW k \in 0 .. n
      PROVE  /\ F[k] \in Maps /\ F[k + 1] \in Maps
             /\ \A t \in SUBSET S :
                  F[k + 1][t] = IF t = {} THEN base ELSE G[pick[t]][F[k][t \ {pick[t]}]]
  <2>1. k \in 0 .. n + 1 /\ k + 1 \in 1 .. n + 1 /\ k + 1 \in 0 .. n + 1 /\ (k + 1) - 1 = k
    BY <1>1
  <2>2. F[k] \in Maps /\ F[k + 1] \in Maps
    BY <1>6, <2>1
  <2>3. F[k + 1] = Phi[F[k]]
    BY <1>6, <2>1
  <2>4. F[k + 1] = Once(F[k])
    BY <2>2, <2>3 DEF Phi
  <2> QED BY <2>2, <2>4
<1> DEFINE T == {m \in Nat : m <= n => \A t \in SUBSET S : Cardinality(t) <= m => F[m + 1][t] = F[m][t]}
<1>8. \A t \in SUBSET S : IsFiniteSet(t) /\ Cardinality(t) \in Nat /\ Cardinality(t) <= n
  BY FS_Subset, FS_CardinalityType DEF n
<1>9. 0 \in T
  <2> SUFFICES ASSUME NEW t \in SUBSET S, Cardinality(t) <= 0 PROVE F[0 + 1][t] = F[0][t]
    OBVIOUS
  <2>1. t = {}
    BY <1>8, FS_EmptySet
  <2>2. F[0][t] = base
    BY <1>6 DEF start
  <2>3. 0 \in 0 .. n
    BY <1>1
  <2>4. F[0 + 1][t] = base
    BY <1>7, <2>1, <2>3
  <2> QED BY <2>2, <2>4
<1>10. ASSUME NEW m \in Nat, m \in T PROVE m + 1 \in T
  <2> SUFFICES ASSUME m + 1 <= n, NEW t \in SUBSET S, Cardinality(t) <= m + 1
               PROVE  F[m + 1 + 1][t] = F[m + 1][t]
    OBVIOUS
  <2>1. m \in 0 .. n /\ m + 1 \in 0 .. n
    BY <1>1
  <2>2. CASE t = {}
    BY <1>7, <2>1, <2>2
  <2>3. CASE t # {}
    <3> DEFINE u == t \ {pick[t]}
    <3>1. pick[t] \in t /\ u \in SUBSET S
      BY <2>3
    <3>2. Cardinality(u) = Cardinality(t) - 1
      BY <1>8, <3>1, FS_RemoveElement
    <3>3. Cardinality(u) <= m
      BY <1>8, <3>2
    <3>4. F[m + 1][u] = F[m][u]
      BY <1>10, <2>1, <3>1, <3>3
    <3> HIDE DEF u
    <3>5. F[m + 1 + 1][t] = G[pick[t]][F[m + 1][u]]
      BY <1>7, <2>1, <2>3 DEF u
    <3>6. F[m + 1][t] = G[pick[t]][F[m][u]]
      BY <1>7, <2>1, <2>3 DEF u
    <3> QED BY <3>4, <3>5, <3>6
  <2> QED BY <2>2, <2>3
<1> HIDE DEF T
<1>11. n \in T
  BY <1>1, <1>9, <1>10, AllNumbers
<1>12. \A t \in SUBSET S : F[n + 1][t] = F[n][t]
  BY <1>1, <1>8, <1>11 DEF T
<1>13. F[n] \in Maps
  BY <1>1, <1>6
<1>14. \A t \in SUBSET S : F[n][t] = IF t = {} THEN base ELSE G[pick[t]][F[n][t \ {pick[t]}]]
  <2>1. n \in 0 .. n
    BY <1>1
  <2> QED BY <1>7, <1>12, <2>1
<1> DEFINE h == F[n]
<1>15. h \in [SUBSET S -> D]
  BY <1>13 DEF Maps
<1>16. \A t \in SUBSET S : h[t] = IF t = {} THEN base ELSE G[pick[t]][h[t \ {pick[t]}]]
  BY <1>14
<1> HIDE DEF h, Once
<1>17. IsFold(h, S, D, base, pick, G)
  BY <1>15, <1>16 DEF IsFold
<1> QED BY <1>17

(* A fold over a sequence from the left picks the greatest index, so that  *)
(* it goes through the beginnings of the sequence.                         *)
LEMMA MaxOfBeginning ==
  ASSUME NEW k \in Nat, k # 0
  PROVE  Max(1 .. k) = k /\ (1 .. k) \ {k} = 1 .. k - 1 /\ 1 .. k # {}
  BY DEF Max

LEMMA MaxIsMember ==
  ASSUME NEW n \in Nat, NEW t \in SUBSET (1 .. n), t # {}
  PROVE  Max(t) \in t
<1> DEFINE Back == {n - i : i \in t}
<1>1. Back \subseteq Nat /\ Back # {}
  <2>1. \A i \in t : n - i \in Nat
    OBVIOUS
  <2>2. PICK i \in t : TRUE
    OBVIOUS
  <2> QED BY <2>1, <2>2
<1> HIDE DEF Back
<1>2. PICK b \in Back : \A y \in Back : b <= y
  BY <1>1, LeastOf
<1>3. PICK m \in t : b = n - m
  BY <1>2 DEF Back
<1>4. \A y \in t : m >= y
  <2> SUFFICES ASSUME NEW y \in t PROVE m >= y
    OBVIOUS
  <2>1. n - y \in Back
    BY DEF Back
  <2>2. n - m <= n - y
    BY <1>2, <1>3, <2>1
  <2> QED BY <2>2
<1>5. \E x \in t : \A y \in t : x >= y
  BY <1>4
<1> QED BY <1>5 DEF Max

(* What a fold from the left over n members computes, when op(d, s[i]) is  *)
(* G[i][d] on a set D of results: there is a function that satisfies the   *)
(* fold's equation on the subsets of 1 .. n ...                            *)
IsLeftFold(f, n, D, base, G) ==
  /\ f \in [SUBSET (1 .. n) -> D] /\ f[{}] = base
  /\ \A u \in SUBSET (1 .. n) : u # {} =>
       /\ Max(u) \in 1 .. n /\ u \ {Max(u)} \in SUBSET (1 .. n)
       /\ f[u \ {Max(u)}] \in D /\ f[u] = G[Max(u)][f[u \ {Max(u)}]]

LEMMA LeftFoldExists ==
  ASSUME NEW n \in Nat, NEW D, NEW base \in D,
         NEW G, \A i \in 1 .. n, d \in D : G[i][d] \in D
  PROVE  \E f : IsLeftFold(f, n, D, base, G)
<1> DEFINE I == 1 .. n
           pick == [u \in SUBSET I |-> Max(u)]
<1>1. \A u \in SUBSET I : u # {} => Max(u) \in u
  BY MaxIsMember
<1>2. \A u \in SUBSET I : u # {} => pick[u] \in u
  BY <1>1
<1>3. IsFiniteSet(I)
  BY FS_Interval
<1>4. \A i \in I, d \in D : G[i][d] \in D
  OBVIOUS
<1> HIDE DEF I
<1> HIDE DEF pick
<1>5. PICK f : IsFold(f, I, D, base, pick, G)
  BY <1>2, <1>3, <1>4, FoldExists
<1>f. /\ f \in [SUBSET I -> D]
      /\ f = [u \in SUBSET I |-> IF u = {} THEN base ELSE G[pick[u]][f[u \ {pick[u]}]]]
  BY <1>5 DEF IsFold
<1>6. f[{}] = base
  BY <1>f
<1>7. ASSUME NEW u \in SUBSET I, u # {}
      PROVE  /\ Max(u) \in I /\ u \ {Max(u)} \in SUBSET I
             /\ f[u \ {Max(u)}] \in D /\ f[u] = G[Max(u)][f[u \ {Max(u)}]]
  <2>1. pick[u] = Max(u) /\ Max(u) \in I
    BY <1>1, <1>7 DEF pick
  <2>2. f[u] = G[pick[u]][f[u \ {pick[u]}]]
    BY <1>f, <1>7
  <2>3. u \ {Max(u)} \in SUBSET I
    OBVIOUS
  <2> QED BY <1>f, <2>1, <2>2, <2>3
<1>8. IsLeftFold(f, n, D, base, G)
  BY <1>f, <1>6, <1>7 DEF I, IsLeftFold
<1> QED BY <1>8

(* ... and any function that does has the values of n single steps.        *)
FoldsLeft(iter, n, D, base, G) ==
  /\ iter[{}] = base
  /\ \A u \in SUBSET (1 .. n) :
       u # {} /\ Max(u) \in 1 .. n /\ iter[u \ {Max(u)}] \in D =>
         iter[u] = G[Max(u)][iter[u \ {Max(u)}]]
StepsTo(made, n, D, base, G, last) ==
  /\ made \in [0 .. n -> D] /\ made[0] = base /\ made[n] = last
  /\ \A k \in 1 .. n : made[k] = G[k][made[k - 1]]

LEMMA LeftFoldSteps ==
  ASSUME NEW n \in Nat, NEW D, NEW base \in D,
         NEW G, \A i \in 1 .. n, d \in D : G[i][d] \in D,
         NEW iter, FoldsLeft(iter, n, D, base, G)
  PROVE  \E made : StepsTo(made, n, D, base, G, iter[1 .. n])
<1>0. /\ iter[{}] = base
      /\ \A u \in SUBSET (1 .. n) :
           u # {} /\ Max(u) \in 1 .. n /\ iter[u \ {Max(u)}] \in D =>
             iter[u] = G[Max(u)][iter[u \ {Max(u)}]]
  BY DEF FoldsLeft
<1> DEFINE T == {k \in Nat : k <= n => iter[1 .. k] \in D}
<1>1. ASSUME NEW k \in 1 .. n, iter[1 .. k - 1] \in D PROVE iter[1 .. k] = G[k][iter[1 .. k - 1]]
  <2>1. Max(1 .. k) = k /\ (1 .. k) \ {k} = 1 .. k - 1 /\ 1 .. k # {}
    BY MaxOfBeginning
  <2>2. 1 .. k \in SUBSET (1 .. n)
    OBVIOUS
  <2> QED BY <1>0, <1>1, <2>1, <2>2
<1>2. 1 .. 0 = {}
  OBVIOUS
<1>3. 0 \in T
  BY <1>0, <1>2
<1>4. ASSUME NEW k \in Nat, k \in T PROVE k + 1 \in T
  <2> SUFFICES ASSUME k + 1 <= n PROVE iter[1 .. k + 1] \in D
    OBVIOUS
  <2>1. k + 1 \in 1 .. n /\ (k + 1) - 1 = k /\ iter[1 .. k] \in D
    BY <1>4
  <2>2. iter[1 .. k + 1] = G[k + 1][iter[1 .. k]]
    BY <1>1, <2>1
  <2> QED BY <2>1, <2>2
<1> HIDE DEF T
<1>5. Nat \subseteq T
  BY <1>3, <1>4, AllNumbers
<1>6. \A k \in 0 .. n : iter[1 .. k] \in D
  BY <1>5 DEF T
<1> DEFINE made == [k \in 0 .. n |-> iter[1 .. k]]
<1>7. made \in [0 .. n -> D] /\ made[n] = iter[1 .. n] /\ made[0] = base
  BY <1>0, <1>2, <1>6
<1>8. ASSUME NEW k \in 1 .. n PROVE made[k] = G[k][made[k - 1]]
  <2>1. k \in 0 .. n /\ k - 1 \in 0 .. n
    OBVIOUS
  <2> QED BY <1>1, <1>6, <2>1
<1> HIDE DEF made
<1>9. StepsTo(made, n, D, base, G, iter[1 .. n])
  BY <1>7, <1>8 DEF StepsTo
<1> QED BY <1>9
=============================================================================
