--------------------------- MODULE StarWorldProofs --------------------------
(***************************************************************************)
(* star.rg's world keeps its entities in order, for any map, any number of *)
(* orks and any costs.                                                     *)
(*                                                                         *)
(* That the pools are sorted is not inductive: it takes that identifiers   *)
(* are handed out in order, which they are because Clear gives them back   *)
(* in order, all of them, and the next level makes as many units.  So the  *)
(* units are the numbers from zero on, and each pool is a run of numbers.  *)
(*                                                                         *)
(* On this rest what a level owns, that the fallen lie still, and that the *)
(* view comes to show the world as it is.                                  *)
(***************************************************************************)
EXTENDS StarWorld, Induction, SequenceTheorems

(* The identifiers from lo to hi - 1.                                      *)
Span(lo, hi) == [i \in 1 .. hi - lo |-> lo + i - 1]

LEMMA SpanFacts ==
  ASSUME NEW lo \in Nat, NEW hi \in Nat, lo <= hi
  PROVE  /\ Span(lo, hi) \in Seq(Nat) /\ Len(Span(lo, hi)) = hi - lo
         /\ DOMAIN Span(lo, hi) = 1 .. hi - lo
         /\ \A i \in 1 .. hi - lo : Span(lo, hi)[i] = lo + i - 1
<1>1. hi - lo \in Nat /\ \A i \in 1 .. hi - lo : lo + i - 1 \in Nat
  OBVIOUS
<1>2. Span(lo, hi) \in [1 .. hi - lo -> Nat]
  BY <1>1 DEF Span
<1>3. Span(lo, hi) \in Seq(Nat)
  BY <1>1, <1>2
<1> QED BY <1>1, <1>2, <1>3 DEF Span

-----------------------------------------------------------------------------
(* The binary search: in a sorted pool LowerBound is the first place whose *)
(* identifier is not smaller.                                              *)
Sorted(ids) == \A i, j \in DOMAIN ids : i < j => ids[i] < ids[j]

Ranges(ids, id) ==
  {r \in [first : Nat, count : Nat] :
     /\ r.first >= 1 /\ r.first + r.count <= Len(ids) + 1
     /\ \A i \in 1 .. Len(ids) : /\ i < r.first => ids[i] < id
                                 /\ i >= r.first + r.count => ~(ids[i] < id)}

LEMMA HalfOfRange ==
  \A a, c, n \in Nat : (a >= 1 /\ a + c <= n + 1 /\ c # 0) =>
    /\ c \div 2 \in Nat /\ c \div 2 < c /\ a + (c \div 2) \in 1 .. n
    /\ a + (c \div 2) + 1 \in Nat /\ c - (c \div 2) - 1 \in Nat
    /\ (a + (c \div 2) + 1) + (c - (c \div 2) - 1) = a + c
    /\ c - (c \div 2) - 1 <= c - 1 /\ c \div 2 <= c - 1
    /\ a + (c \div 2) + 1 >= 1 /\ a + (c \div 2) <= n + 1
<1> TAKE a, c, n \in Nat
<1> HAVE a >= 1 /\ a + c <= n + 1 /\ c # 0
<1> DEFINE h == c \div 2
<1>1. h \in Nat /\ h < c
  OBVIOUS
<1> HIDE DEF h
<1>2. /\ a + h \in 1 .. n /\ a + h + 1 \in Nat /\ c - h - 1 \in Nat
      /\ (a + h + 1) + (c - h - 1) = a + c
      /\ c - h - 1 <= c - 1 /\ h <= c - 1 /\ a + h + 1 >= 1 /\ a + h <= n + 1
  BY <1>1
<1> QED BY <1>1, <1>2 DEF h

LEMMA HalvedIsRange ==
  ASSUME NEW ids \in Seq(Nat), Sorted(ids), NEW id \in Nat, NEW r \in Ranges(ids, id)
  PROVE  /\ Halved(r, ids, id) \in Ranges(ids, id)
         /\ Halved(r, ids, id).count <= (IF r.count = 0 THEN 0 ELSE r.count - 1)
<1> DEFINE n == Len(ids)
           a == r.first
           c == r.count
           half == c \div 2
           mid == a + half
<1>0. /\ n \in Nat /\ DOMAIN ids = 1 .. n
      /\ \A i \in 1 .. n : ids[i] \in Nat
  OBVIOUS
<1>1. /\ a \in Nat /\ c \in Nat /\ a >= 1 /\ a + c <= n + 1
      /\ \A i \in 1 .. n : i < a => ids[i] < id
      /\ \A i \in 1 .. n : i >= a + c => ~(ids[i] < id)
  BY DEF Ranges
<1>2. ASSUME NEW x \in Nat, NEW y \in Nat, x >= 1, x + y <= n + 1,
             \A i \in 1 .. n : i < x => ids[i] < id,
             \A i \in 1 .. n : i >= x + y => ~(ids[i] < id)
      PROVE  [first |-> x, count |-> y] \in Ranges(ids, id)
  BY <1>2 DEF Ranges
<1>h. Halved(r, ids, id) = IF c = 0 THEN r
                           ELSE IF ids[mid] < id THEN [first |-> mid + 1, count |-> c - half - 1]
                                                 ELSE [first |-> a, count |-> half]
  BY DEF Halved
<1>s. \A i, j \in 1 .. n : i < j => ids[i] < ids[j]
  BY <1>0 DEF Sorted
<1>m. c # 0 =>
        /\ half \in Nat /\ mid \in 1 .. n /\ mid + 1 \in Nat /\ c - half - 1 \in Nat
        /\ (mid + 1) + (c - half - 1) = a + c
        /\ c - half - 1 <= c - 1 /\ half <= c - 1 /\ mid + 1 >= 1 /\ mid <= n + 1
  BY <1>0, <1>1, HalfOfRange
<1> HIDE DEF mid, half, a, c, n
<1>t. \A x, y, z \in Nat : (x < y /\ y < z => x < z) /\ (x < y /\ ~(x < z) => ~(y < z))
  OBVIOUS
<1>u. \A x, y \in Nat : (x < y + 1 /\ x # y => x < y) /\ (x >= y /\ x # y => y < x)
  OBVIOUS
<1>v. /\ \A i \in 1 .. n : i \in Nat
      /\ c # 0 => mid \in Nat
  BY <1>m
<1>3. CASE c = 0
  BY <1>h, <1>3 DEF c
<1>4. CASE c # 0 /\ ids[mid] < id
  <2>1. \A i \in 1 .. n : i < mid + 1 => ids[i] < id
    <3> SUFFICES ASSUME NEW i \in 1 .. n, i < mid + 1 PROVE ids[i] < id
      OBVIOUS
    <3>1. CASE i = mid
      BY <1>4, <3>1
    <3>2. CASE i # mid
      <4>1. i < mid
        BY <1>u, <1>v, <1>4, <3>2
      <4>2. ids[i] < ids[mid]
        BY <1>m, <1>s, <1>4, <4>1
      <4>3. ids[i] \in Nat /\ ids[mid] \in Nat
        BY <1>0, <1>m, <1>4
      <4> QED BY <1>t, <1>4, <4>2, <4>3
    <3> QED BY <3>1, <3>2
  <2>2. [first |-> mid + 1, count |-> c - half - 1] \in Ranges(ids, id)
    BY <1>1, <1>2, <1>m, <1>4, <2>1
  <2>3. Halved(r, ids, id) = [first |-> mid + 1, count |-> c - half - 1]
    BY <1>h, <1>4
  <2>4. Halved(r, ids, id).count <= c - 1
    BY <1>m, <1>4, <2>3
  <2> QED BY <1>4, <2>2, <2>3, <2>4 DEF c
<1>5. CASE c # 0 /\ ~(ids[mid] < id)
  <2>1. \A i \in 1 .. n : i >= mid => ~(ids[i] < id)
    <3> SUFFICES ASSUME NEW i \in 1 .. n, i >= mid PROVE ~(ids[i] < id)
      OBVIOUS
    <3>1. CASE i = mid
      BY <1>5, <3>1
    <3>2. CASE i # mid
      <4>1. mid < i
        BY <1>u, <1>v, <1>5, <3>2
      <4>2. ids[mid] < ids[i]
        BY <1>m, <1>s, <1>5, <4>1
      <4>3. ids[i] \in Nat /\ ids[mid] \in Nat
        BY <1>0, <1>m, <1>5
      <4> QED BY <1>t, <1>5, <4>2, <4>3
    <3> QED BY <3>1, <3>2
  <2>2. a + half = mid
    BY DEF mid
  <2>3. [first |-> a, count |-> half] \in Ranges(ids, id)
    BY <1>1, <1>2, <1>m, <1>5, <2>1, <2>2
  <2>4. Halved(r, ids, id) = [first |-> a, count |-> half]
    BY <1>h, <1>5
  <2>5. Halved(r, ids, id).count <= c - 1
    BY <1>m, <1>5, <2>4
  <2> QED BY <1>5, <2>3, <2>4, <2>5 DEF c
<1> QED BY <1>3, <1>4, <1>5

LEMMA LowerBoundFinds ==
  ASSUME NEW ids \in Seq(Nat), Sorted(ids), NEW id \in Nat
  PROVE  /\ LowerBound(ids, id) \in 1 .. Len(ids) + 1
         /\ \A i \in 1 .. Len(ids) : i < LowerBound(ids, id) <=> ids[i] < id
<1> DEFINE n == Len(ids)
           D == Ranges(ids, id)
           base == [first |-> 1, count |-> n]
           Code(f) == [u \in SUBSET (1 .. n) |->
                         IF u = {} THEN base ELSE Halved(f[u \ {Max(u)}], ids, id)]
           iter == CHOOSE f : f = Code(f)
           G == [i \in 1 .. n |-> [d \in D |-> Halved(d, ids, id)]]
<1>1. n \in Nat /\ DOMAIN ids = 1 .. n /\ \A i \in 1 .. n : ids[i] \in Nat
  OBVIOUS
<1>2. LowerBound(ids, id) = iter[1 .. n].first
  BY <1>1 DEF LowerBound, FoldLeft, MapThenFoldSet
<1>3. base \in D
  BY <1>1 DEF Ranges
<1> HIDE DEF n, base
<1>5. \A i \in 1 .. n, d \in D : G[i][d] = Halved(d, ids, id) /\ G[i][d] \in D
  BY HalvedIsRange
<1> HIDE DEF G
<1>6. PICK f : IsLeftFold(f, n, D, base, G)
  BY <1>1, <1>3, <1>5, LeftFoldExists
<1>7. f = Code(f)
  BY <1>5, <1>6 DEF IsLeftFold
<1>8. iter = Code(iter)
  BY <1>7
<1> HIDE DEF iter
<1>9. iter[{}] = base
  BY <1>8
<1>10. ASSUME NEW u \in SUBSET (1 .. n), u # {}, Max(u) \in 1 .. n, iter[u \ {Max(u)}] \in D
       PROVE  iter[u] = G[Max(u)][iter[u \ {Max(u)}]]
  BY <1>5, <1>8, <1>10
<1>11. FoldsLeft(iter, n, D, base, G)
  BY <1>9, <1>10 DEF FoldsLeft
<1>12. PICK made : StepsTo(made, n, D, base, G, iter[1 .. n])
  BY <1>1, <1>3, <1>5, <1>11, LeftFoldSteps
<1>13. /\ made \in [0 .. n -> D] /\ made[0] = base /\ made[n] = iter[1 .. n]
       /\ \A k \in 1 .. n : made[k] = G[k][made[k - 1]]
  BY <1>12 DEF StepsTo
(* Each round takes one off the range at least.                            *)
<1> DEFINE T == {k \in Nat : k <= n => made[k].count <= n - k}
<1>14. 0 \in T
  BY <1>1, <1>13 DEF base
<1>15. ASSUME NEW k \in Nat, k \in T PROVE k + 1 \in T
  <2> SUFFICES ASSUME k + 1 <= n PROVE made[k + 1].count <= n - (k + 1)
    OBVIOUS
  <2>1. k \in 0 .. n /\ k + 1 \in 1 .. n /\ (k + 1) - 1 = k /\ made[k].count <= n - k
    BY <1>1, <1>15
  <2>2. made[k] \in D /\ made[k].count \in Nat
    BY <1>13, <2>1 DEF Ranges
  <2>3. made[k + 1] = Halved(made[k], ids, id)
    BY <1>5, <1>13, <2>1, <2>2
  <2>4. made[k + 1].count <= (IF made[k].count = 0 THEN 0 ELSE made[k].count - 1)
    BY <2>2, <2>3, HalvedIsRange
  <2>5. made[k + 1].count \in Nat
    <3>1. made[k + 1] \in D
      BY <1>13, <2>1
    <3> QED BY <3>1 DEF Ranges
  <2>6. \A x, y \in Nat : /\ y <= (IF x = 0 THEN 0 ELSE x - 1) /\ x <= n - k
                          => y <= n - (k + 1)
    BY <1>1
  <2> HIDE DEF D
  <2> QED BY <2>1, <2>2, <2>4, <2>5, <2>6
<1> HIDE DEF T
<1>16. Nat \subseteq T
  BY <1>14, <1>15, AllNumbers
<1>17. made[n] \in D /\ made[n].count <= n - n
  BY <1>1, <1>13, <1>16 DEF T
<1>18. /\ made[n].first \in Nat /\ made[n].first >= 1 /\ made[n].count = 0
       /\ made[n].first <= n + 1
       /\ \A i \in 1 .. n : /\ i < made[n].first => ids[i] < id
                            /\ i >= made[n].first => ~(ids[i] < id)
  BY <1>1, <1>17 DEF Ranges, n
<1>19. LowerBound(ids, id) = made[n].first
  BY <1>2, <1>13
<1> QED BY <1>1, <1>18, <1>19 DEF n

(* In a run of identifiers it is a matter of counting.                     *)
LEMMA LowerBoundInSpan ==
  ASSUME NEW lo \in Nat, NEW hi \in Nat, lo <= hi, NEW id \in Nat
  PROVE  LET i == LowerBound(Span(lo, hi), id) IN
         /\ id < lo => i = 1
         /\ lo <= id /\ id < hi => i = id - lo + 1
         /\ hi <= id => i = hi - lo + 1
<1> DEFINE s == Span(lo, hi)
           i == LowerBound(s, id)
<1>1. /\ s \in Seq(Nat) /\ Len(s) = hi - lo /\ DOMAIN s = 1 .. hi - lo
      /\ \A j \in 1 .. hi - lo : s[j] = lo + j - 1
  BY SpanFacts
<1> HIDE DEF s
<1>2. Sorted(s)
  BY <1>1 DEF Sorted
<1>3. i \in 1 .. hi - lo + 1 /\ \A j \in 1 .. hi - lo : j < i <=> s[j] < id
  BY <1>1, <1>2, LowerBoundFinds
<1> HIDE DEF i
<1>4. \A j \in 1 .. hi - lo : j < i <=> lo + j - 1 < id
  BY <1>1, <1>3
<1>5. ASSUME id < lo PROVE i = 1
  <2>1. 1 <= hi - lo => ~(1 < i)
    BY <1>4, <1>5
  <2> QED BY <1>3, <1>5, <2>1
<1>6. ASSUME lo <= id, id < hi PROVE i = id - lo + 1
  <2>1. ~(id - lo + 1 < i)
    BY <1>4, <1>6
  <2>2. id - lo >= 1 => id - lo < i
    BY <1>4, <1>6
  <2> QED BY <1>3, <1>6, <2>1, <2>2
<1>7. ASSUME hi <= id PROVE i = hi - lo + 1
  <2>1. hi - lo >= 1 => hi - lo < i
    BY <1>4, <1>7
  <2> QED BY <1>3, <1>7, <2>1
<1> QED BY <1>5, <1>6, <1>7 DEF i, s
-----------------------------------------------------------------------------
(* A pool: the identifiers from lo to hi - 1, and as many data in T.       *)
IsStore(s, lo, hi, T) ==
  /\ s = [ids |-> s.ids, data |-> s.data]
  /\ s.ids = Span(lo, hi)
  /\ s.data \in Seq(T) /\ Len(s.data) = hi - lo

LEMMA FoundInSpan ==
  ASSUME NEW lo \in Nat, NEW hi \in Nat, lo <= hi, NEW T, NEW s, IsStore(s, lo, hi, T),
         NEW id \in Nat
  PROVE  /\ Found(s, id) <=> lo <= id /\ id < hi
         /\ Found(s, id) => LowerBound(s.ids, id) = id - lo + 1
<1> DEFINE i == LowerBound(Span(lo, hi), id)
<1>1. /\ s.ids = Span(lo, hi) /\ Len(s.ids) = hi - lo
      /\ \A j \in 1 .. hi - lo : s.ids[j] = lo + j - 1
  BY SpanFacts DEF IsStore
<1>2. /\ id < lo => i = 1
      /\ lo <= id /\ id < hi => i = id - lo + 1
      /\ hi <= id => i = hi - lo + 1
  BY LowerBoundInSpan
<1>0. i = LowerBound(s.ids, id)
  BY <1>1
<1> HIDE DEF i
<1>3. Found(s, id) <=> i <= hi - lo /\ s.ids[i] = id
  BY <1>0, <1>1 DEF Found
<1> HIDE DEF i
<1>4. ASSUME id < lo PROVE ~Found(s, id)
  <2>1. i = 1
    BY <1>2, <1>4
  <2>2. 1 <= hi - lo => s.ids[1] = lo + 1 - 1
    BY <1>1
  <2> QED BY <1>3, <1>4, <2>1, <2>2
<1>5. ASSUME lo <= id, id < hi PROVE Found(s, id)
  <2>1. i = id - lo + 1 /\ i \in 1 .. hi - lo
    BY <1>2, <1>5
  <2>2. s.ids[i] = lo + i - 1
    BY <1>1, <2>1
  <2>3. lo + i - 1 = id
    BY <2>1
  <2> QED BY <1>3, <2>1, <2>2, <2>3
<1>6. ASSUME hi <= id PROVE ~Found(s, id)
  BY <1>2, <1>3, <1>6
<1> QED BY <1>0, <1>2, <1>4, <1>5, <1>6

(* Where the smallest identifier is deleted, no data changes its owner.    *)
LEMMA DeleteFirst ==
  ASSUME NEW lo \in Nat, NEW hi \in Nat, lo <= hi, NEW T, NEW s, IsStore(s, lo, hi, T),
         NEW id \in Nat, id <= lo \/ lo = hi
  PROVE  IsStore(OnEntityDelete(s, id), IF id = lo /\ lo < hi THEN lo + 1 ELSE lo, hi, T)
<1>1. CASE ~(id = lo /\ lo < hi)
  <2>1. ~Found(s, id)
    BY <1>1, FoundInSpan
  <2> QED BY <1>1, <2>1 DEF OnEntityDelete
<1>2. CASE id = lo /\ lo < hi
  <2>1. Found(s, id) /\ LowerBound(s.ids, id) = 1
    BY <1>2, FoundInSpan
  <2>2. OnEntityDelete(s, id) = EraseSlot(s, 1)
    BY <2>1 DEF OnEntityDelete
  <2>3. /\ s.ids \in Seq(Nat) /\ Len(s.ids) = hi - lo
        /\ \A j \in 1 .. hi - lo : s.ids[j] = lo + j - 1
        /\ s.data \in Seq(T) /\ Len(s.data) = hi - lo
    BY SpanFacts DEF IsStore
  <2>4. EraseSlot(s, 1).ids = Tail(s.ids)
    <3>1. CASE hi - lo = 1
      <4>1. Len(s.ids) = 1 /\ 1 - 1 = 0
        BY <2>3, <3>1
      <4>2. SubSeq(s.ids, 1, Len(s.ids) - 1) = SubSeq(s.ids, 1, 0)
        BY <4>1
      <4>3. SubSeq(s.ids, 1, 0) = <<>>
        BY SubSeqEmpty
      <4>4. s.ids # <<>>
        <5>1. Len(<<>>) = 0
          BY EmptySeq
        <5>2. Len(s.ids) # 0
          BY <4>1
        <5> QED BY <5>1, <5>2, Zenon
      <4>5. Len(Tail(s.ids)) = 0 /\ Tail(s.ids) \in Seq(Nat)
        BY <2>3, <4>1, <4>4, HeadTailProperties
      <4>6. Tail(s.ids) = <<>>
        BY <4>5, EmptySeq, SeqEqual
      <4> QED BY <4>2, <4>3, <4>6 DEF EraseSlot, Front
    <3>2. CASE hi - lo # 1
      <4>1. \A m \in Nat : m > 1 => 0 < m \div 2
        OBVIOUS
      <4>2. hi - lo \in Nat /\ hi - lo > 1
        BY <1>2, <3>2
      <4>3. 1 - 1 < Len(s.ids) \div 2
        BY <2>3, <4>1, <4>2
      <4> QED BY <4>3 DEF EraseSlot
    <3> QED BY <3>1, <3>2
  <2>5. Tail(s.ids) = Span(lo + 1, hi)
    <3>1. Tail(s.ids) \in Seq(Nat) /\ Len(Tail(s.ids)) = hi - (lo + 1)
      BY <1>2, <2>3
    <3>2. \A j \in 1 .. hi - (lo + 1) : Tail(s.ids)[j] = lo + 1 + j - 1
      <4> TAKE j \in 1 .. hi - (lo + 1)
      <4>1. j + 1 \in 1 .. hi - lo /\ Tail(s.ids)[j] = s.ids[j + 1]
        BY <1>2, <2>3
      <4> QED BY <2>3, <4>1
    <3>3. Span(lo + 1, hi) \in Seq(Nat) /\ Len(Span(lo + 1, hi)) = hi - (lo + 1)
          /\ \A j \in 1 .. hi - (lo + 1) : Span(lo + 1, hi)[j] = lo + 1 + j - 1
      <4>1. lo + 1 \in Nat /\ lo + 1 <= hi
        BY <1>2
      <4> DEFINE up == lo + 1
      <4> HIDE DEF up
      <4>2. Span(up, hi) \in Seq(Nat) /\ Len(Span(up, hi)) = hi - up
          /\ \A j \in 1 .. hi - up : Span(up, hi)[j] = up + j - 1
        BY <4>1, SpanFacts DEF up
      <4> QED BY <4>2 DEF up
    <3> QED BY <3>1, <3>2, <3>3, SeqEqual
  <2>6. EraseSlot(s, 1).data \in Seq(T) /\ Len(EraseSlot(s, 1).data) = hi - (lo + 1)
    <3>1. EraseSlot(s, 1).data = SubSeq(s.data, 1, 0) \o SubSeq(s.data, 2, Len(s.data))
      BY DEF EraseSlot, RemoveAt
    <3>2. SubSeq(s.data, 1, 0) = <<>>
      BY SubSeqEmpty
    <3> DEFINE d == s.data
               rest == SubSeq(d, 2, Len(d))
    <3>3. d \in Seq(T) /\ Len(d) \in Nat /\ Len(d) = hi - lo /\ Len(d) >= 1
      BY <1>2, <2>3
    <3> HIDE DEF d
    <3>4. \A i \in 2 .. Len(d) : d[i] \in T
      BY <3>3, ElementOfSeq
    <3>5. rest \in Seq(T) /\ Len(rest) = IF 2 <= Len(d) THEN Len(d) - 2 + 1 ELSE 0
      BY <3>3, <3>4, SubSeqProperties
    <3>6. Len(rest) = hi - (lo + 1)
      BY <3>3, <3>5
    <3> HIDE DEF rest
    <3>7. <<>> \o rest = rest
      BY <3>5, ConcatEmptySeq
    <3> QED BY <3>1, <3>2, <3>5, <3>6, <3>7 DEF rest, d
  <2>7. EraseSlot(s, 1) = [ids |-> EraseSlot(s, 1).ids, data |-> EraseSlot(s, 1).data]
    BY DEF EraseSlot
  <2> QED BY <1>2, <2>2, <2>4, <2>5, <2>6, <2>7 DEF IsStore
<1> QED BY <1>1, <1>2

-----------------------------------------------------------------------------
(* Sorting what is sorted moves nothing.                                   *)
IsJoin(w, s, t, T) ==
  /\ w \in Seq(T) /\ Len(w) = Len(s) + Len(t)
  /\ \A j \in 1 .. Len(s) : w[j] = s[j]
  /\ \A j \in 1 .. Len(t) : w[Len(s) + j] = t[j]

LEMMA Joined ==
  ASSUME NEW T, NEW s \in Seq(T), NEW t \in Seq(T)
  PROVE  IsJoin(s \o t, s, t, T)
<1> DEFINE a == Len(s)
           b == Len(t)
<1>0. a \in Nat /\ b \in Nat
  OBVIOUS
<1>1. /\ s \o t \in Seq(T) /\ Len(s \o t) = a + b
      /\ \A j \in 1 .. a + b : (s \o t)[j] = IF j <= a THEN s[j] ELSE t[j - a]
  BY ConcatProperties
<1> HIDE DEF a, b
<1>2. ASSUME NEW j \in 1 .. a PROVE (s \o t)[j] = s[j]
  <2>1. j \in 1 .. a + b /\ j <= a
    BY <1>0
  <2> QED BY <1>1, <2>1
<1>3. ASSUME NEW j \in 1 .. b PROVE (s \o t)[a + j] = t[j]
  <2>1. a + j \in 1 .. a + b /\ ~(a + j <= a) /\ (a + j) - a = j
    BY <1>0
  <2> QED BY <1>1, <2>1
<1> QED BY <1>1, <1>2, <1>3 DEF IsJoin, a, b

LEMMA PutBack ==
  ASSUME NEW T, NEW d \in Seq(T), NEW i \in 1 .. Len(d)
  PROVE  InsertAt(RemoveAt(d, i), i, d[i]) = d
<1> DEFINE n == Len(d)
           front == SubSeq(d, 1, i - 1)
           back == SubSeq(d, i + 1, n)
           r == front \o back
<1>1. n \in Nat /\ DOMAIN d = 1 .. n /\ i \in 1 .. n /\ \A j \in 1 .. n : d[j] \in T
  BY ElementOfSeq
<1> HIDE DEF n
<1>2. /\ front \in Seq(T) /\ Len(front) = i - 1
      /\ \A j \in 1 .. i - 1 : front[j] = d[j]
  <2>1. \A j \in 1 .. i - 1 : d[j] \in T
    BY <1>1
  <2>2. /\ front \in Seq(T) /\ Len(front) = IF 1 <= i - 1 THEN i - 1 - 1 + 1 ELSE 0
        /\ \A j \in 1 .. i - 1 - 1 + 1 : front[j] = d[1 + j - 1]
    BY <1>1, <2>1, SubSeqProperties
  <2> QED BY <1>1, <2>2
<1>3. /\ back \in Seq(T) /\ Len(back) = n - i
      /\ \A j \in 1 .. n - i : back[j] = d[i + j]
  <2>1. \A j \in i + 1 .. n : d[j] \in T
    BY <1>1
  <2>2. /\ back \in Seq(T) /\ Len(back) = IF i + 1 <= n THEN n - (i + 1) + 1 ELSE 0
        /\ \A j \in 1 .. n - (i + 1) + 1 : back[j] = d[i + 1 + j - 1]
    BY <1>1, <2>1, SubSeqProperties
  <2> QED BY <1>1, <2>2
<1>4. RemoveAt(d, i) = r
  BY DEF RemoveAt, n
<1> HIDE DEF front, back
<1>a. i - 1 \in Nat /\ n - i \in Nat /\ (i - 1) + (n - i) = n - 1
  BY <1>1
<1>5. /\ r \in Seq(T) /\ Len(r) = n - 1
      /\ \A j \in 1 .. i - 1 : r[j] = front[j]
      /\ \A j \in 1 .. n - i : r[(i - 1) + j] = back[j]
  <2> DEFINE p == i - 1
             q == n - i
  <2>1. p \in Nat /\ q \in Nat /\ Len(front) = p /\ Len(back) = q /\ p + q = n - 1
    BY <1>2, <1>3, <1>a
  <2> HIDE DEF p, q
  <2>2. /\ r \in Seq(T) /\ Len(r) = p + q
        /\ \A j \in 1 .. p : r[j] = front[j]
        /\ \A j \in 1 .. q : r[p + j] = back[j]
    <3>1. IsJoin(r, front, back, T)
      BY <1>2, <1>3, Joined
    <3> QED BY <2>1, <3>1 DEF IsJoin
  <2> QED BY <2>1, <2>2 DEF p, q
<1> HIDE DEF r
<1>6. SubSeq(r, 1, i - 1) = front
  <2>1. \A j \in 1 .. i - 1 : r[j] = front[j] /\ r[j] \in T
    BY <1>1, <1>2, <1>5, ElementOfSeq
  <2>2. /\ SubSeq(r, 1, i - 1) \in Seq(T)
        /\ Len(SubSeq(r, 1, i - 1)) = IF 1 <= i - 1 THEN i - 1 - 1 + 1 ELSE 0
        /\ \A j \in 1 .. i - 1 - 1 + 1 : SubSeq(r, 1, i - 1)[j] = r[1 + j - 1]
    BY <1>1, <2>1, SubSeqProperties
  <2>3. Len(SubSeq(r, 1, i - 1)) = i - 1 /\ \A j \in 1 .. i - 1 : SubSeq(r, 1, i - 1)[j] = front[j]
    BY <1>1, <2>1, <2>2
  <2> QED BY <1>2, <2>2, <2>3, SeqEqual
<1>7. SubSeq(r, i, n - 1) = back
  <2>1. \A j \in i .. n - 1 : r[j] = back[j - (i - 1)] /\ r[j] \in T
    <3> TAKE j \in i .. n - 1
    <3>1. j - (i - 1) \in 1 .. n - i /\ (i - 1) + (j - (i - 1)) = j /\ j \in 1 .. n - 1
      BY <1>1
    <3> QED BY <1>5, <3>1, ElementOfSeq
  <2>2. /\ SubSeq(r, i, n - 1) \in Seq(T)
        /\ Len(SubSeq(r, i, n - 1)) = IF i <= n - 1 THEN n - 1 - i + 1 ELSE 0
        /\ \A j \in 1 .. n - 1 - i + 1 : SubSeq(r, i, n - 1)[j] = r[i + j - 1]
    BY <1>1, <2>1, SubSeqProperties
  <2>3. Len(SubSeq(r, i, n - 1)) = n - i
    BY <1>1, <2>2
  <2>4. \A j \in 1 .. n - i : SubSeq(r, i, n - 1)[j] = back[j]
    <3> TAKE j \in 1 .. n - i
    <3>1. j \in 1 .. n - 1 - i + 1 /\ i + j - 1 \in i .. n - 1 /\ (i + j - 1) - (i - 1) = j
      BY <1>1
    <3> QED BY <2>1, <2>2, <3>1
  <2> QED BY <1>3, <2>2, <2>3, <2>4, SeqEqual
<1>8. InsertAt(r, i, d[i]) = front \o <<d[i]>> \o back
  BY <1>5, <1>6, <1>7 DEF InsertAt
<1>9. front \o <<d[i]>> \o back = d
  <2> DEFINE one == <<d[i]>>
             left == front \o one
             w == left \o back
  <2>1. one \in Seq(T) /\ Len(one) = 1 /\ one[1] = d[i]
    BY <1>1
  <2> HIDE DEF one
  <2>2. /\ left \in Seq(T) /\ Len(left) = (i - 1) + 1
        /\ \A j \in 1 .. i - 1 : left[j] = front[j]
        /\ \A j \in 1 .. 1 : left[(i - 1) + j] = one[j]
    <3> DEFINE p == i - 1
    <3>1. p \in Nat /\ Len(front) = p
      BY <1>2, <1>a
    <3> HIDE DEF p
    <3>2. /\ left \in Seq(T) /\ Len(left) = p + 1
          /\ \A j \in 1 .. p : left[j] = front[j]
          /\ \A j \in 1 .. 1 : left[p + j] = one[j]
      <4>1. IsJoin(left, front, one, T)
        BY <1>2, <2>1, Joined
      <4> QED BY <2>1, <3>1, <4>1 DEF IsJoin
    <3> QED BY <3>2 DEF p
  <2> HIDE DEF left
  <2>3. Len(left) = i /\ i \in Nat /\ \A j \in 1 .. i : left[j] = d[j]
    <3>1. (i - 1) + 1 = i /\ i \in Nat
      BY <1>1
    <3>2. left[i] = d[i]
      BY <2>1, <2>2, <3>1
    <3>3. \A j \in 1 .. i : j = i \/ j \in 1 .. i - 1
      BY <1>1
    <3> QED BY <1>2, <2>2, <3>1, <3>2, <3>3
  <2>4. /\ w \in Seq(T) /\ Len(w) = i + (n - i)
        /\ \A j \in 1 .. i : w[j] = left[j]
        /\ \A j \in 1 .. n - i : w[i + j] = back[j]
    <3> DEFINE q == n - i
    <3>1. q \in Nat /\ Len(back) = q
      BY <1>3, <1>a
    <3> HIDE DEF q
    <3>2. /\ w \in Seq(T) /\ Len(w) = i + q
          /\ \A j \in 1 .. i : w[j] = left[j]
          /\ \A j \in 1 .. q : w[i + j] = back[j]
      <4>1. IsJoin(w, left, back, T)
        BY <1>3, <2>2, Joined
      <4> QED BY <2>3, <3>1, <4>1 DEF IsJoin
    <3> QED BY <3>2 DEF q
  <2> HIDE DEF w
  <2>5. Len(w) = n /\ \A j \in 1 .. n : w[j] = d[j]
    <3>1. i + (n - i) = n
      BY <1>1
    <3>2. ASSUME NEW j \in 1 .. n PROVE w[j] = d[j]
      <4>1. CASE j <= i
        <5>1. j \in 1 .. i
          BY <1>1, <4>1
        <5> QED BY <2>3, <2>4, <5>1
      <4>2. CASE ~(j <= i)
        <5>1. j - i \in 1 .. n - i /\ i + (j - i) = j
          BY <1>1, <4>2
        <5> QED BY <1>3, <2>4, <5>1
      <4> QED BY <4>1, <4>2
    <3> QED BY <2>4, <3>1, <3>2
  <2> HIDE DEF w
  <2>6. w = d
    BY <2>4, <2>5, SeqEqual DEF n
  <2> QED BY <2>6 DEF w, left, one
<1> QED BY <1>4, <1>8, <1>9

LEMMA SlotInPlace ==
  ASSUME NEW T, NEW s, s = [ids |-> s.ids, data |-> s.data],
         s.ids \in Seq(Nat), Sorted(s.ids), s.data \in Seq(T), Len(s.data) = Len(s.ids),
         NEW i \in 2 .. Len(s.ids)
  PROVE  SortSlot(s, i) = s
<1> DEFINE smaller == {j \in 1 .. i - 1 : ~(s.ids[i] < s.ids[j])}
           last == CHOOSE j \in smaller : \A h \in smaller : h <= j
<1>1. /\ Len(s.ids) \in Nat /\ i \in Nat /\ i >= 2 /\ i <= Len(s.ids)
      /\ DOMAIN s.ids = 1 .. Len(s.ids) /\ \A j \in 1 .. Len(s.ids) : s.ids[j] \in Nat
  OBVIOUS
<1>2. ASSUME NEW j \in 1 .. i - 1 PROVE ~(s.ids[i] < s.ids[j])
  <2>1. j \in 1 .. Len(s.ids) /\ i \in 1 .. Len(s.ids) /\ j < i
    BY <1>1
  <2>2. s.ids[j] < s.ids[i]
    BY <1>1, <2>1 DEF Sorted
  <2>3. \A x, y \in Nat : x < y => ~(y < x)
    OBVIOUS
  <2> QED BY <1>1, <2>1, <2>2, <2>3
<1>3. smaller = 1 .. i - 1
  BY <1>2
<1>4. ~(s.ids[i] < s.ids[1])
  BY <1>1, <1>2
<1> HIDE DEF smaller
<1>5. last = i - 1
  <2>1. i - 1 \in smaller /\ \A h \in smaller : h <= i - 1
    BY <1>1, <1>3
  <2>2. last \in smaller /\ \A h \in smaller : h <= last
    BY <2>1
  <2> HIDE DEF last
  <2> QED BY <1>1, <1>3, <2>1, <2>2
<1>6. SortSlot(s, i) = [s EXCEPT !.data = InsertAt(RemoveAt(@, i), 1 + last, s.data[i])]
  BY <1>4 DEF SortSlot, smaller
<1> HIDE DEF last
<1>7. SortSlot(s, i) = [s EXCEPT !.data = InsertAt(RemoveAt(@, i), i, s.data[i])]
  BY <1>1, <1>5, <1>6
<1>8. InsertAt(RemoveAt(s.data, i), i, s.data[i]) = s.data
  BY <1>1, PutBack
<1> QED BY <1>7, <1>8

LEMMA SortedStays ==
  ASSUME NEW T, NEW s, s = [ids |-> s.ids, data |-> s.data],
         s.ids \in Seq(Nat), Sorted(s.ids), s.data \in Seq(T), Len(s.data) = Len(s.ids)
  PROVE  SortStore(s) = s
<1> DEFINE n == Len(s.ids) - 1
           slots == [i \in 1 .. n |-> i + 1]
           Code(f) == [u \in SUBSET (1 .. n) |->
                         IF u = {} THEN s ELSE SortSlot(f[u \ {Max(u)}], slots[Max(u)])]
           iter == CHOOSE f : f = Code(f)
<1>1. CASE s.ids = <<>>
  <2>1. 1 .. n = {}
    BY <1>1
  <2>2. SortStore(s) = iter[1 .. n]
    BY DEF SortStore, FoldLeft, MapThenFoldSet
  <2>3. \A f : Code(f) = [u \in {{}} |-> s]
    BY <2>1
  <2>4. iter = [u \in {{}} |-> s]
    BY <2>3
  <2> QED BY <2>1, <2>2, <2>4
<1>2. CASE s.ids # <<>>
  <2> DEFINE D == {s}
             G == [i \in 1 .. n |-> [d \in D |-> SortSlot(d, i + 1)]]
  <2>1. n \in Nat /\ \A i \in 1 .. n : i + 1 \in 2 .. Len(s.ids) /\ slots[i] = i + 1
    BY <1>2
  <2>2. SortStore(s) = iter[1 .. n]
    BY DEF SortStore, FoldLeft, MapThenFoldSet
  <2> HIDE DEF n, slots
  <2>3. ASSUME NEW i \in 1 .. n, NEW d \in D
        PROVE  G[i][d] = SortSlot(d, slots[i]) /\ G[i][d] \in D
    BY <2>1, SlotInPlace
  <2>4. s \in D
    OBVIOUS
  <2> HIDE DEF D, G
  <2>5. PICK f : IsLeftFold(f, n, D, s, G)
    BY <2>1, <2>3, <2>4, LeftFoldExists
  <2>6. f = Code(f)
    BY <2>3, <2>5 DEF IsLeftFold
  <2>7. iter = Code(iter)
    BY <2>6
  <2> HIDE DEF iter
  <2>8. iter[{}] = s
    BY <2>7
  <2>9. ASSUME NEW u \in SUBSET (1 .. n), u # {}, Max(u) \in 1 .. n, iter[u \ {Max(u)}] \in D
        PROVE  iter[u] = G[Max(u)][iter[u \ {Max(u)}]]
    BY <2>3, <2>7, <2>9
  <2>10. FoldsLeft(iter, n, D, s, G)
    BY <2>8, <2>9 DEF FoldsLeft
  <2>11. PICK made : StepsTo(made, n, D, s, G, iter[1 .. n])
    BY <2>1, <2>3, <2>4, <2>10, LeftFoldSteps
  <2>12. iter[1 .. n] \in D
    BY <2>1, <2>11 DEF StepsTo
  <2> QED BY <2>2, <2>12 DEF D
<1> QED BY <1>1, <1>2

(* A new component goes to the end of its pool and stays there.            *)
LEMMA AppendedStore ==
  ASSUME NEW lo \in Nat, NEW hi \in Nat, lo <= hi, NEW T, NEW s, IsStore(s, lo, hi, T),
         NEW v \in T
  PROVE  LET a == [ids |-> Append(s.ids, hi), data |-> Append(s.data, v)] IN
         SortStore(a) = a /\ IsStore(a, lo, hi + 1, T)
<1> DEFINE a == [ids |-> Append(s.ids, hi), data |-> Append(s.data, v)]
<1>1. /\ s.ids \in Seq(Nat) /\ Len(s.ids) = hi - lo
      /\ \A j \in 1 .. hi - lo : s.ids[j] = lo + j - 1
      /\ s.data \in Seq(T) /\ Len(s.data) = hi - lo
  BY SpanFacts DEF IsStore
<1>2. /\ a.ids \in Seq(Nat) /\ Len(a.ids) = hi + 1 - lo
      /\ a.data \in Seq(T) /\ Len(a.data) = hi + 1 - lo
  BY <1>1
<1>3. ASSUME NEW j \in 1 .. hi + 1 - lo PROVE a.ids[j] = lo + j - 1
  BY <1>1
<1>4. a = [ids |-> a.ids, data |-> a.data]
  OBVIOUS
<1> HIDE DEF a
<1>5. a.ids = Span(lo, hi + 1)
  BY <1>2, <1>3 DEF Span
<1>6. Sorted(a.ids)
  BY <1>2, <1>3 DEF Sorted
<1>7. SortStore(a) = a
  BY <1>2, <1>4, <1>6, SortedStays
<1>8. IsStore(a, lo, hi + 1, T)
  BY <1>2, <1>4, <1>5 DEF IsStore
<1> QED BY <1>7, <1>8 DEF a
-----------------------------------------------------------------------------
(* The factories with n units, of m entities ever made: the first n are in *)
(* use, the others wait in order.                                          *)
Datum(k) == IF k = "pos" THEN Cells ELSE IF k = "status" THEN {"alive", "dead"} ELSE Int
Lo(k) == IF k = "ai" THEN 1 ELSE 0
Hi(k, n) == IF k = "ai" THEN IF n = 0 THEN 1 ELSE n
            ELSE IF k = "userInput" THEN IF n = 0 THEN 0 ELSE 1 ELSE n

IsUsed(e, n, m) ==
  /\ e \in Seq(BOOLEAN) /\ Len(e) = m
  /\ \A i \in 1 .. m : (i <= n => e[i] = TRUE) /\ (~(i <= n) => e[i] = FALSE)
IsRecord(f) == f = [entity |-> f.entity, released |-> f.released, store |-> f.store]
Pools(store, n) ==
  /\ store = [k \in Kinds |-> store[k]]
  /\ \A k \in Kinds : IsStore(store[k], Lo(k), Hi(k, n), Datum(k))
IsFactory(f, n, m) ==
  /\ IsRecord(f) /\ IsUsed(f.entity, n, m) /\ f.released = Span(n, m) /\ Pools(f.store, n)

LEMMA Bounds ==
  ASSUME NEW n \in Nat, NEW k \in Kinds
  PROVE  Lo(k) \in Nat /\ Hi(k, n) \in Nat /\ Lo(k) <= Hi(k, n)
BY DEF Lo, Hi

LEMMA EmptySpan ==
  ASSUME NEW n \in Nat, NEW m \in Nat, n <= m
  PROVE  /\ Span(n, n) = <<>>
         /\ Span(n, m) = <<>> <=> n = m
<1>1. Span(n, n) = <<>>
  <2>1. Span(n, n) \in Seq(Nat) /\ Len(Span(n, n)) = n - n /\ n - n = 0
    BY SpanFacts
  <2> QED BY <2>1, EmptySeq, SeqEqual
<1>2. ASSUME n # m PROVE Span(n, m) # <<>>
  <2>1. Len(Span(n, m)) = m - n /\ m - n # 0
    BY <1>2, SpanFacts
  <2> QED BY <2>1, EmptySeq
<1> QED BY <1>1, <1>2

LEMMA EmptyStore ==
  ASSUME NEW x \in Nat, NEW y \in Nat, NEW T, NEW s, IsStore(s, x, x, T)
  PROVE  IsStore(s, y, y, T)
<1>1. Span(x, x) = <<>> /\ Span(y, y) = <<>> /\ x - x = 0 /\ y - y = 0
  BY EmptySpan
<1> QED BY <1>1 DEF IsStore

IsAppend(w, s, v, T) ==
  /\ w \in Seq(T) /\ Len(w) = Len(s) + 1
  /\ \A i \in 1 .. Len(s) : w[i] = s[i]
  /\ w[Len(s) + 1] = v

LEMMA Appended ==
  ASSUME NEW T, NEW s \in Seq(T), NEW v \in T
  PROVE  IsAppend(Append(s, v), s, v, T)
BY AppendProperties DEF IsAppend

(* The identifiers come in order.                                          *)
LEMMA GetNewNext ==
  ASSUME NEW n \in Nat, NEW m \in Nat, n <= m, NEW f, IsFactory(f, n, m)
  PROVE  /\ NewID(f) = n
         /\ IsRecord(GetNew(f)) /\ GetNew(f).store = f.store
         /\ \E p \in {m, n + 1} : /\ n + 1 <= p /\ (m # n => p = m)
                                  /\ IsUsed(GetNew(f).entity, n + 1, p)
                                  /\ GetNew(f).released = Span(n + 1, p)
<1> DEFINE e == f.entity
           r == f.released
           g == GetNew(f)
<1>1. /\ f = [entity |-> e, released |-> r, store |-> f.store]
      /\ r = Span(n, m) /\ e \in Seq(BOOLEAN) /\ Len(e) = m /\ DOMAIN e = 1 .. m
      /\ \A i \in 1 .. m : (i <= n => e[i] = TRUE) /\ (~(i <= n) => e[i] = FALSE)
  BY DEF IsFactory, IsRecord, IsUsed
<1>3. CASE n = m
  <2>1. r = <<>>
    BY <1>1, <1>3, EmptySpan
  <2>2. NewID(f) = n
    BY <1>1, <1>3, <2>1 DEF NewID
  <2>3. g = [f EXCEPT !.entity = Append(@, TRUE)]
    BY <2>1 DEF GetNew
  <2>4. g = [entity |-> Append(e, TRUE), released |-> r, store |-> f.store]
    BY <1>1, <2>3
  <2>5. r = Span(n + 1, m + 1)
    BY <1>3, <2>1, EmptySpan
  <2> HIDE DEF e, r
  <2>6. /\ Append(e, TRUE) \in Seq(BOOLEAN) /\ Len(Append(e, TRUE)) = m + 1
        /\ \A i \in 1 .. m : Append(e, TRUE)[i] = e[i]
        /\ Append(e, TRUE)[m + 1] = TRUE
    <3>1. IsAppend(Append(e, TRUE), e, TRUE, BOOLEAN)
      <4>1. TRUE \in BOOLEAN
        OBVIOUS
      <4> QED BY <1>1, <4>1, Appended, Zenon
    <3> QED BY <1>1, <3>1 DEF IsAppend
  <2>7. \A i \in 1 .. m + 1 : Append(e, TRUE)[i] = TRUE
    <3> TAKE i \in 1 .. m + 1
    <3>1. CASE i = m + 1
      BY <2>6, <3>1
    <3>2. CASE i # m + 1
      <4>1. i \in 1 .. m /\ i <= n
        BY <1>3, <3>2
      <4> QED BY <1>1, <2>6, <4>1
    <3> QED BY <3>1, <3>2
  <2>8. IsUsed(Append(e, TRUE), n + 1, m + 1)
    <3>1. \A i \in 1 .. m + 1 : i <= n + 1
      BY <1>3
    <3> QED BY <2>6, <2>7, <3>1 DEF IsUsed
  <2> HIDE DEF g
  <2>9. /\ IsRecord(g) /\ g.store = f.store
        /\ IsUsed(g.entity, n + 1, n + 1) /\ g.released = Span(n + 1, n + 1)
    BY <1>3, <2>4, <2>5, <2>8 DEF IsRecord
  <2>10. n + 1 <= n + 1
    OBVIOUS
  <2> QED BY <1>3, <2>2, <2>9, <2>10 DEF g
<1>4. CASE n # m
  <2>1. /\ r \in Seq(Nat) /\ Len(r) = m - n
        /\ \A i \in 1 .. m - n : r[i] = n + i - 1
    BY <1>1, SpanFacts
  <2>2. r # <<>> /\ n < m
    BY <1>1, <1>4, EmptySpan
  <2>3. Head(r) = n
    <3>1. 1 \in 1 .. m - n /\ n + 1 - 1 = n
      BY <2>2
    <3>2. r[1] = n
      BY <2>1, <3>1
    <3> HIDE DEF r
    <3> QED BY <2>1, <2>2, <3>2
  <2>4. NewID(f) = n
    BY <2>2, <2>3 DEF NewID
  <2>5. g = [f EXCEPT !.entity[n + 1] = TRUE, !.released = Tail(@)]
    BY <2>2, <2>3 DEF GetNew
  <2>6. g = [entity |-> [e EXCEPT ![n + 1] = TRUE], released |-> Tail(r), store |-> f.store]
    BY <1>1, <2>5
  <2> HIDE DEF e
  <2>7. IsUsed([e EXCEPT ![n + 1] = TRUE], n + 1, m)
    <3>1. n + 1 \in 1 .. Len(e)
      BY <1>1, <2>2
    <3>2. /\ [e EXCEPT ![n + 1] = TRUE] \in Seq(BOOLEAN)
          /\ Len([e EXCEPT ![n + 1] = TRUE]) = m
          /\ \A i \in 1 .. m : [e EXCEPT ![n + 1] = TRUE][i] = IF i = n + 1 THEN TRUE ELSE e[i]
      BY <1>1, <3>1, ExceptSeq
    <3>3. \A i \in 1 .. m : i <= n + 1 => i = n + 1 \/ i <= n
      OBVIOUS
    <3>4. \A i \in 1 .. m : ~(i <= n + 1) => i # n + 1 /\ ~(i <= n)
      OBVIOUS
    <3> QED BY <1>1, <3>2, <3>3, <3>4 DEF IsUsed
  <2>8. Tail(r) = Span(n + 1, m)
    <3> DEFINE up == n + 1
    <3> HIDE DEF r
    <3>2. Tail(r) \in Seq(Nat) /\ Len(Tail(r)) = m - n - 1
          /\ \A i \in 1 .. m - n - 1 : Tail(r)[i] = r[i + 1]
      BY <2>1, <2>2, HeadTailProperties
    <3>3. up \in Nat /\ up <= m /\ up = n + 1
      BY <2>2
    <3> HIDE DEF up
    <3>4. /\ Span(up, m) \in Seq(Nat) /\ Len(Span(up, m)) = m - up
          /\ \A i \in 1 .. m - up : Span(up, m)[i] = up + i - 1
      BY <3>3, SpanFacts
    <3>5. m - up = m - n - 1
      BY <3>3
    <3>6. \A i \in 1 .. m - n - 1 : Tail(r)[i] = Span(up, m)[i]
      <4> TAKE i \in 1 .. m - n - 1
      <4>1. i + 1 \in 1 .. m - n /\ n + (i + 1) - 1 = up + i - 1
        BY <3>3
      <4> QED BY <2>1, <3>2, <3>4, <3>5, <4>1
    <3> QED BY <3>2, <3>4, <3>5, <3>6, SeqEqual DEF up
  <2> HIDE DEF r, g
  <2>9. /\ IsRecord(g) /\ g.store = f.store
        /\ IsUsed(g.entity, n + 1, m) /\ g.released = Span(n + 1, m)
    BY <2>6, <2>7, <2>8 DEF IsRecord
  <2> QED BY <1>4, <2>2, <2>4, <2>9 DEF g
<1> QED BY <1>3, <1>4

-----------------------------------------------------------------------------
(* Clear releases the entities in order, so each pool loses its first      *)
(* identifier or none: after j of them, of a level with n.                 *)
First(k, j, n) == IF j <= Lo(k) THEN Lo(k) ELSE IF j <= Hi(k, n) THEN j ELSE Hi(k, n)

IsFreed(e, j, n) ==
  /\ e \in Seq(BOOLEAN) /\ Len(e) = n
  /\ \A i \in 1 .. n : (i <= j => e[i] = FALSE) /\ (~(i <= j) => e[i] = TRUE)
IsCleared(f, j, n) ==
  /\ IsRecord(f) /\ IsFreed(f.entity, j, n) /\ f.released = Span(0, j)
  /\ f.store = [k \in Kinds |-> f.store[k]]
  /\ \A k \in Kinds : IsStore(f.store[k], First(k, j, n), Hi(k, n), Datum(k))

LEMMA FirstMoves ==
  ASSUME NEW n \in Nat, NEW j \in Nat, j < n, NEW k \in Kinds
  PROVE  /\ First(k, j, n) \in Nat /\ Hi(k, n) \in Nat /\ First(k, j, n) <= Hi(k, n)
         /\ j <= First(k, j, n) \/ First(k, j, n) = Hi(k, n)
         /\ First(k, j + 1, n) = IF j = First(k, j, n) /\ First(k, j, n) < Hi(k, n)
                                 THEN First(k, j, n) + 1 ELSE First(k, j, n)
BY DEF First, Lo, Hi

LEMMA FirstEnds ==
  ASSUME NEW n \in Nat, NEW k \in Kinds
  PROVE  First(k, 0, n) = Lo(k) /\ First(k, n, n) = Hi(k, n)
BY DEF First, Lo, Hi

(* The next identifier joins those that wait.                              *)
LEMMA SpanGrows ==
  ASSUME NEW lo \in Nat, NEW hi \in Nat, lo <= hi
  PROVE  Append(Span(lo, hi), hi) = Span(lo, hi + 1)
<1> DEFINE s == Span(lo, hi)
           w == Append(s, hi)
           up == hi + 1
<1>1. /\ s \in Seq(Nat) /\ Len(s) = hi - lo /\ \A i \in 1 .. hi - lo : s[i] = lo + i - 1
  BY SpanFacts
<1>2. up \in Nat /\ lo <= up /\ up - lo = (hi - lo) + 1
  OBVIOUS
<1>3. IsAppend(w, s, hi, Nat)
  BY <1>1, Appended
<1> HIDE DEF up
<1>4. /\ Span(lo, up) \in Seq(Nat) /\ Len(Span(lo, up)) = up - lo
      /\ \A i \in 1 .. up - lo : Span(lo, up)[i] = lo + i - 1
  BY <1>2, SpanFacts
<1> HIDE DEF w, s
<1>5. /\ w \in Seq(Nat) /\ Len(w) = up - lo
      /\ \A i \in 1 .. hi - lo : w[i] = s[i]
      /\ w[up - lo] = hi
  BY <1>1, <1>2, <1>3 DEF IsAppend
<1>6. \A i \in 1 .. up - lo : w[i] = lo + i - 1
  <2> TAKE i \in 1 .. up - lo
  <2>1. CASE i = up - lo
    BY <1>2, <1>5, <2>1
  <2>2. CASE i # up - lo
    <3>1. i \in 1 .. hi - lo
      BY <1>2, <2>2
    <3> QED BY <1>1, <1>5, <3>1
  <2> QED BY <2>1, <2>2
<1>7. w = Span(lo, up)
  BY <1>4, <1>5, <1>6, SeqEqual
<1> QED BY <1>7 DEF w, s, up

LEMMA ReleaseNext ==
  ASSUME NEW n \in Nat, NEW j \in Nat, j < n, NEW f, IsCleared(f, j, n)
  PROVE  IsCleared(ReleaseUsed(f, j + 1), j + 1, n)
<1> DEFINE e == f.entity
           r == f.released
           s == f.store
           up == j + 1
           g == ReleaseUsed(f, up)
<1>1. /\ f = [entity |-> e, released |-> r, store |-> s]
      /\ e \in Seq(BOOLEAN) /\ Len(e) = n
      /\ \A i \in 1 .. n : (i <= j => e[i] = FALSE) /\ (~(i <= j) => e[i] = TRUE)
      /\ r = Span(0, j)
      /\ s = [k \in Kinds |-> s[k]]
      /\ \A k \in Kinds : IsStore(s[k], First(k, j, n), Hi(k, n), Datum(k))
  BY DEF IsCleared, IsRecord, IsFreed
<1>2. up \in 1 .. n /\ ~(up <= j) /\ up - 1 = j
  OBVIOUS
<1>3. e[up] = TRUE
  BY <1>1, <1>2
<1>4. g = [f EXCEPT !.entity[up] = FALSE, !.released = Append(@, j),
                    !.store = [k \in DOMAIN @ |-> OnEntityDelete(@[k], j)]]
  BY <1>2, <1>3 DEF ReleaseUsed, ReleaseNoLock
<1> DEFINE t == [k \in Kinds |-> OnEntityDelete(s[k], j)]
<1>5. DOMAIN s = Kinds
  BY <1>1
<1> HIDE DEF e, r, s, up
<1>6. g = [entity |-> [e EXCEPT ![up] = FALSE], released |-> Append(r, j), store |-> t]
  <2>1. f.entity = e /\ f.released = r /\ f.store = s
    BY DEF e, r, s
  <2>2. [k \in DOMAIN f.store |-> OnEntityDelete(f.store[k], j)] = t
    BY <1>5, <2>1
  <2> HIDE DEF t, g
  <2>3. g = [f EXCEPT !.entity = [e EXCEPT ![up] = FALSE], !.released = Append(r, j), !.store = t]
    BY <1>1, <1>4, <2>1, <2>2
  <2> QED BY <1>1, <2>3
<1>7. IsFreed([e EXCEPT ![up] = FALSE], up, n)
  <2>1. up \in 1 .. Len(e)
    BY <1>1, <1>2
  <2>2. /\ [e EXCEPT ![up] = FALSE] \in Seq(BOOLEAN)
        /\ Len([e EXCEPT ![up] = FALSE]) = n
        /\ \A i \in 1 .. n : [e EXCEPT ![up] = FALSE][i] = IF i = up THEN FALSE ELSE e[i]
    BY <1>1, <2>1, ExceptSeq
  <2>3. \A i \in 1 .. n : i <= up => i = up \/ i <= j
    BY DEF up
  <2>4. \A i \in 1 .. n : ~(i <= up) => i # up /\ ~(i <= j)
    BY DEF up
  <2> QED BY <1>1, <2>2, <2>3, <2>4 DEF IsFreed
<1>8. Append(r, j) = Span(0, up)
  <2>1. 0 \in Nat /\ 0 <= j
    OBVIOUS
  <2>2. Append(Span(0, j), j) = Span(0, j + 1)
    BY <2>1, SpanGrows
  <2> QED BY <1>1, <2>2 DEF up
<1>9. ASSUME NEW k \in Kinds PROVE IsStore(t[k], First(k, up, n), Hi(k, n), Datum(k))
  <2> DEFINE lo == First(k, j, n)
             hi == Hi(k, n)
  <2>1. /\ lo \in Nat /\ hi \in Nat /\ lo <= hi /\ (j <= lo \/ lo = hi)
        /\ First(k, up, n) = IF j = lo /\ lo < hi THEN lo + 1 ELSE lo
    BY FirstMoves DEF up
  <2>2. IsStore(s[k], lo, hi, Datum(k))
    BY <1>1
  <2> HIDE DEF lo, hi
  <2>3. IsStore(OnEntityDelete(s[k], j), IF j = lo /\ lo < hi THEN lo + 1 ELSE lo, hi, Datum(k))
    BY <2>1, <2>2, DeleteFirst
  <2> QED BY <2>1, <2>3 DEF hi
<1>10. t = [k \in Kinds |-> t[k]]
  OBVIOUS
<1> HIDE DEF t, g
<1>11. /\ IsRecord(g) /\ IsFreed(g.entity, up, n) /\ g.released = Span(0, up)
       /\ g.store = t
  BY <1>6, <1>7, <1>8 DEF IsRecord
<1>12. IsCleared(g, up, n)
  BY <1>9, <1>10, <1>11 DEF IsCleared
<1> QED BY <1>12 DEF g, up

LEMMA ClearAll ==
  ASSUME NEW n \in Nat, NEW f, IsFactory(f, n, n)
  PROVE  IsFactory(Clear(f), 0, n)
<1> DEFINE Code(c, j) == [i \in 0 .. j |-> IF i = 0 THEN f ELSE ReleaseUsed(c[i - 1], i)]
           T == {j \in Nat : \E c : c = Code(c, j)}
           cleared == CHOOSE c : c = Code(c, n)
<1>1. 0 \in T
  <2> DEFINE c == [i \in 0 .. 0 |-> f]
  <2>1. c = Code(c, 0)
    OBVIOUS
  <2> QED BY <2>1
<1>2. ASSUME NEW j \in Nat, j \in T PROVE j + 1 \in T
  <2>1. PICK c : c = Code(c, j)
    BY <1>2
  <2> DEFINE up == j + 1
             d == [i \in 0 .. up |-> IF i = up THEN ReleaseUsed(c[j], up) ELSE c[i]]
  <2>2. up \in Nat /\ up = j + 1
    OBVIOUS
  <2>3. ASSUME NEW i \in 0 .. up
        PROVE  d[i] = IF i = 0 THEN f ELSE ReleaseUsed(d[i - 1], i)
    <3>1. CASE i = up
      <4>1. i # 0 /\ i - 1 = j /\ j \in 0 .. up /\ j # up
        BY <3>1
      <4> HIDE DEF up
      <4>2. d[i - 1] = c[j] /\ d[i] = ReleaseUsed(c[j], up)
        BY <3>1, <4>1
      <4> QED BY <3>1, <4>1, <4>2
    <3>2. CASE i # up
      <4>1. i \in 0 .. j /\ (i # 0 => i - 1 \in 0 .. up /\ i - 1 # up)
        BY <3>2
      <4>2. c[i] = IF i = 0 THEN f ELSE ReleaseUsed(c[i - 1], i)
        BY <2>1, <4>1
      <4> HIDE DEF up
      <4> QED BY <3>2, <4>1, <4>2
    <3> QED BY <3>1, <3>2
  <2>4. d = [i \in 0 .. up |-> d[i]]
    OBVIOUS
  <2> HIDE DEF d
  <2>5. d = Code(d, up)
    BY <2>3, <2>4
  <2> HIDE DEF up
  <2> QED BY <2>2, <2>5
<1> HIDE DEF T
<1>3. n \in T
  BY <1>1, <1>2, AllNumbers
<1>4. \E c : c = Code(c, n)
  BY <1>3 DEF T
<1>5. cleared = Code(cleared, n)
  BY <1>4
<1>6. Len(f.entity) = n
  BY DEF IsFactory, IsUsed
<1>7. Clear(f) = cleared[n]
  BY <1>6 DEF Clear
<1> HIDE DEF cleared
<1>8. /\ cleared[0] = f
      /\ \A i \in 0 .. n : i # 0 => cleared[i] = ReleaseUsed(cleared[i - 1], i)
  BY <1>5
<1> HIDE DEF Code
<1> DEFINE U == {j \in Nat : j <= n => IsCleared(cleared[j], j, n)}
<1>9. 0 \in U
  <2>1. IsFreed(f.entity, 0, n)
    <3>1. \A i \in 1 .. n : i <= n /\ ~(i <= 0)
      OBVIOUS
    <3> QED BY <3>1 DEF IsFactory, IsUsed, IsFreed
  <2>2. f.released = Span(0, 0)
    BY EmptySpan DEF IsFactory
  <2>3. \A k \in Kinds : IsStore(f.store[k], First(k, 0, n), Hi(k, n), Datum(k))
    BY FirstEnds DEF IsFactory, Pools
  <2>4. IsCleared(f, 0, n)
    BY <2>1, <2>2, <2>3 DEF IsFactory, Pools, IsCleared
  <2> QED BY <1>8, <2>4
<1>10. ASSUME NEW j \in Nat, j \in U PROVE j + 1 \in U
  <2> SUFFICES ASSUME j + 1 <= n PROVE IsCleared(cleared[j + 1], j + 1, n)
    OBVIOUS
  <2>1. j < n /\ IsCleared(cleared[j], j, n)
    BY <1>10
  <2>2. cleared[j + 1] = ReleaseUsed(cleared[j], j + 1)
    <3>1. j + 1 \in 0 .. n /\ j + 1 # 0 /\ (j + 1) - 1 = j
      OBVIOUS
    <3> QED BY <1>8, <3>1
  <2> QED BY <2>1, <2>2, ReleaseNext
<1> HIDE DEF U
<1>11. IsCleared(cleared[n], n, n)
  <2>1. n \in U
    BY <1>9, <1>10, AllNumbers
  <2> QED BY <2>1 DEF U
<1> DEFINE g == cleared[n]
<1> HIDE DEF g
<1>12. IsCleared(g, n, n)
  BY <1>11 DEF g
<1>13. IsUsed(g.entity, 0, n)
  <2>1. \A i \in 1 .. n : i <= n /\ ~(i <= 0)
    OBVIOUS
  <2> QED BY <1>12, <2>1 DEF IsCleared, IsFreed, IsUsed
<1>14. ASSUME NEW k \in Kinds PROVE IsStore(g.store[k], Lo(k), Hi(k, 0), Datum(k))
  <2>1. IsStore(g.store[k], Hi(k, n), Hi(k, n), Datum(k))
    BY <1>12, FirstEnds DEF IsCleared
  <2>2. Lo(k) = Hi(k, 0)
    BY DEF Lo, Hi
  <2> QED BY <2>1, <2>2, Bounds, EmptyStore
<1>15. IsFactory(g, 0, n)
  BY <1>12, <1>13, <1>14 DEF IsCleared, IsFactory, Pools
<1> QED BY <1>7, <1>15 DEF g
-----------------------------------------------------------------------------
(* A new unit gets a component in each pool of its kind.                   *)
Grown(g, t, n, c) ==
  [entity |-> g.entity, released |-> g.released,
   store |-> [k \in Kinds |->
      IF k \in t THEN [ids |-> Append(g.store[k].ids, n), data |-> Append(g.store[k].data, c[k])]
                 ELSE g.store[k]]]

LEMMA OneComponent ==
  ASSUME NEW n \in Nat, NEW g, Pools(g.store, n), NEW t \in SUBSET Kinds, NEW c,
         NEW k \in Kinds, Hi(k, n) = n, c[k] \in Datum(k)
  PROVE  NewComponent(Grown(g, t, n, c), k, n, c[k]) = Grown(g, t \cup {k}, n, c)
<1> DEFINE s == g.store[k]
           a == [ids |-> Append(s.ids, n), data |-> Append(s.data, c[k])]
           lo == Lo(k)
           T == Datum(k)
           f == Grown(g, t, n, c)
<1>1. lo \in Nat /\ lo <= n /\ n \in Nat
  BY Bounds
<1>2. IsStore(s, lo, n, T)
  BY DEF Pools
<1>3. c[k] \in T
  OBVIOUS
<1> HIDE DEF lo, T, s
<1>4. SortStore(a) = a /\ IsStore(a, lo, n + 1, T)
  BY <1>1, <1>2, <1>3, AppendedStore
<1>5. f.store[k] = IF k \in t THEN a ELSE s
  BY DEF Grown, s
<1>6. CASE k \in t
  <2>1. Found(a, n)
    <3> DEFINE up == n + 1
    <3>1. up \in Nat /\ lo <= up /\ n < up
      BY <1>1
    <3> HIDE DEF up, a
    <3>2. IsStore(a, lo, up, T)
      BY <1>4 DEF up
    <3> QED BY <1>1, <3>1, <3>2, FoundInSpan
  <2>2. NewComponent(f, k, n, c[k]) = f
    BY <1>5, <1>6, <2>1 DEF NewComponent
  <2>3. t \cup {k} = t
    BY <1>6
  <2> QED BY <2>2, <2>3
<1>7. CASE k \notin t
  <2>1. ~Found(s, n)
    <3>1. ~(n < n)
      OBVIOUS
    <3> QED BY <1>1, <1>2, <3>1, FoundInSpan
  <2>2. f.store[k] = s
    BY <1>5, <1>7
  <2> DEFINE h == Grown(g, t \cup {k}, n, c)
             w == NewComponent(f, k, n, c[k])
  <2>3. w = [f EXCEPT !.store[k] = SortStore([ids |-> Append(@.ids, n), data |-> Append(@.data, c[k])])]
    BY <2>1, <2>2 DEF NewComponent
  <2>4. w = [f EXCEPT !.store[k] = a]
    BY <1>4, <2>2, <2>3
  <2>5. h.store[k] = a /\ \A x \in Kinds : x # k => h.store[x] = f.store[x]
    BY DEF Grown, s
  <2>6. /\ f = [entity |-> g.entity, released |-> g.released, store |-> f.store]
        /\ h = [entity |-> g.entity, released |-> g.released, store |-> h.store]
        /\ f.store = [x \in Kinds |-> f.store[x]] /\ h.store = [x \in Kinds |-> h.store[x]]
    BY DEF Grown
  <2> HIDE DEF f, h, w, a
  <2>7. w = [entity |-> g.entity, released |-> g.released, store |-> [f.store EXCEPT ![k] = a]]
    BY <2>4, <2>6
  <2>8. [f.store EXCEPT ![k] = a] = h.store
    BY <2>5, <2>6
  <2> QED BY <2>6, <2>7, <2>8 DEF f, h, w
<1> QED BY <1>6, <1>7

LEMMA NewUnitGrows ==
  ASSUME NEW n \in Nat, NEW g, IsRecord(g), Pools(g.store, n), NEW c, NEW S, S = DOMAIN c,
         S \subseteq Kinds, \A k \in S : Hi(k, n) = n /\ c[k] \in Datum(k)
  PROVE  NewUnit(g, n, c) = Grown(g, S, n, c)
<1> DEFINE One(t) == CHOOSE x \in t : TRUE
           Code(f) == [t \in SUBSET S |->
                         IF t = {} THEN g
                         ELSE NewComponent(f[t \ {One(t)}], One(t), n, c[One(t)])]
           iter == CHOOSE f : f = Code(f)
           D == {Grown(g, t, n, c) : t \in SUBSET S}
           pick == [t \in SUBSET S |-> One(t)]
           G == [k \in S |-> [d \in D |-> NewComponent(d, k, n, c[k])]]
<1>1. NewUnit(g, n, c) = iter[S]
  BY DEF NewUnit, FoldSet, MapThenFoldSet
<1>2. ASSUME NEW t \in SUBSET S, NEW k \in S
      PROVE  NewComponent(Grown(g, t, n, c), k, n, c[k]) = Grown(g, t \cup {k}, n, c)
  BY OneComponent
<1>3. \A k \in S, d \in D : G[k][d] = NewComponent(d, k, n, c[k]) /\ G[k][d] \in D
  <2> TAKE k \in S, d \in D
  <2>1. PICK t \in SUBSET S : d = Grown(g, t, n, c)
    OBVIOUS
  <2>2. t \cup {k} \in SUBSET S
    OBVIOUS
  <2>3. NewComponent(d, k, n, c[k]) = Grown(g, t \cup {k}, n, c)
    BY <1>2, <2>1
  <2> QED BY <2>2, <2>3
<1>4. g = Grown(g, {}, n, c)
  BY DEF Grown, IsRecord, Pools
<1>5. g \in D
  BY <1>4
<1>6. IsFiniteSet(S)
  <2>1. \A x : IsFiniteSet({x})
    BY FS_Singleton
  <2>2. IsFiniteSet({"pos"} \cup {"status"})
    BY <2>1, FS_Union
  <2>3. IsFiniteSet(({"pos"} \cup {"status"}) \cup {"update"})
    BY <2>1, <2>2, FS_Union
  <2>4. IsFiniteSet((({"pos"} \cup {"status"}) \cup {"update"}) \cup {"ai"})
    BY <2>1, <2>3, FS_Union
  <2>5. IsFiniteSet(((({"pos"} \cup {"status"}) \cup {"update"}) \cup {"ai"}) \cup {"userInput"})
    BY <2>1, <2>4, FS_Union
  <2>6. Kinds = ((({"pos"} \cup {"status"}) \cup {"update"}) \cup {"ai"}) \cup {"userInput"}
    BY DEF Kinds
  <2>7. IsFiniteSet(Kinds)
    BY <2>5, <2>6
  <2> QED BY <2>7, FS_Subset
<1>7. \A t \in SUBSET S : t # {} => One(t) \in t
  OBVIOUS
<1> HIDE DEF One
<1>8. /\ \A t \in SUBSET S : pick[t] = One(t)
      /\ \A t \in SUBSET S : t # {} => pick[t] \in t
  BY <1>7
<1> HIDE DEF G, D, pick
<1>9. PICK f : IsFold(f, S, D, g, pick, G)
  BY <1>3, <1>5, <1>6, <1>7, <1>8, FoldExists
<1>10. f = Code(f)
  <2>1. /\ f \in [SUBSET S -> D]
        /\ f = [t \in SUBSET S |-> IF t = {} THEN g ELSE G[pick[t]][f[t \ {pick[t]}]]]
    BY <1>9 DEF IsFold
  <2>2. ASSUME NEW t \in SUBSET S
        PROVE  f[t] = IF t = {} THEN g
                      ELSE NewComponent(f[t \ {One(t)}], One(t), n, c[One(t)])
    <3>1. CASE t = {}
      BY <2>1, <3>1
    <3>2. CASE t # {}
      <4> DEFINE x == One(t)
      <4>1. x \in t /\ pick[t] = x
        BY <1>7, <1>8, <3>2
      <4> HIDE DEF x
      <4>2. x \in S /\ f[t \ {x}] \in D
        BY <2>1, <4>1
      <4>3. f[t] = G[x][f[t \ {x}]]
        BY <2>1, <3>2, <4>1
      <4>4. f[t] = NewComponent(f[t \ {x}], x, n, c[x])
        BY <1>3, <4>2, <4>3
      <4> QED BY <3>2, <4>4 DEF x
    <3> QED BY <3>1, <3>2
  <2> QED BY <2>1, <2>2
<1>11. iter = Code(iter)
  BY <1>10
<1> HIDE DEF iter
<1> DEFINE P == {t \in SUBSET S : iter[t] = Grown(g, t, n, c)}
<1>12. {} \in P
  BY <1>4, <1>11
<1>13. ASSUME NEW t \in SUBSET S, t # {}
       PROVE  pick[t] \in t /\ (t \ {pick[t]} \in P => t \in P)
  <2> DEFINE x == One(t)
  <2>1. x \in t /\ pick[t] = x
    BY <1>7, <1>8, <1>13
  <2>2. iter[t] = NewComponent(iter[t \ {x}], x, n, c[x])
    BY <1>11, <1>13
  <2> HIDE DEF x
  <2>3. ASSUME t \ {x} \in P PROVE t \in P
    <3>1. iter[t \ {x}] = Grown(g, t \ {x}, n, c)
      BY <2>3
    <3>2. x \in S /\ t \ {x} \in SUBSET S /\ (t \ {x}) \cup {x} = t
      BY <2>1
    <3>3. iter[t] = Grown(g, (t \ {x}) \cup {x}, n, c)
      BY <1>2, <2>2, <3>1, <3>2
    <3> QED BY <3>2, <3>3
  <2> QED BY <2>1, <2>3
<1> HIDE DEF P
<1>14. SUBSET S \subseteq P
  BY <1>6, <1>12, <1>13, FoldedStays
<1>15. S \in SUBSET S
  OBVIOUS
<1> QED BY <1>1, <1>14, <1>15 DEF P

LEMMA GrownIsFactory ==
  ASSUME NEW n \in Nat, NEW p \in Nat, NEW g, IsRecord(g), Pools(g.store, n), NEW c,
         NEW S \in SUBSET Kinds,
         \A k \in S : Hi(k, n) = n /\ Hi(k, n + 1) = n + 1 /\ c[k] \in Datum(k),
         \A k \in Kinds \ S : Hi(k, n + 1) = Hi(k, n),
         IsUsed(g.entity, n + 1, p), g.released = Span(n + 1, p)
  PROVE  IsFactory(Grown(g, S, n, c), n + 1, p)
<1> DEFINE f == Grown(g, S, n, c)
<1>1. /\ IsRecord(f) /\ f.entity = g.entity /\ f.released = g.released
      /\ f.store = [k \in Kinds |-> f.store[k]]
  BY DEF Grown, IsRecord
<1>2. ASSUME NEW k \in Kinds PROVE IsStore(f.store[k], Lo(k), Hi(k, n + 1), Datum(k))
  <2> DEFINE s == g.store[k]
             a == [ids |-> Append(s.ids, n), data |-> Append(s.data, c[k])]
  <2>1. f.store[k] = IF k \in S THEN a ELSE s
    BY DEF Grown
  <2>2. IsStore(s, Lo(k), Hi(k, n), Datum(k))
    BY DEF Pools
  <2>3. Lo(k) \in Nat /\ Lo(k) <= Hi(k, n)
    BY Bounds
  <2> HIDE DEF s
  <2>4. CASE k \in S
    <3>1. Hi(k, n) = n /\ Hi(k, n + 1) = n + 1 /\ c[k] \in Datum(k)
      BY <2>4
    <3> DEFINE lo == Lo(k)
               T == Datum(k)
    <3>2. lo \in Nat /\ lo <= n /\ IsStore(s, lo, n, T) /\ c[k] \in T
      BY <2>2, <2>3, <3>1
    <3> HIDE DEF lo, T
    <3>3. IsStore(a, lo, n + 1, T)
      BY <3>2, AppendedStore
    <3> QED BY <2>1, <2>4, <3>1, <3>3 DEF lo, T
  <2>5. CASE k \notin S
    BY <2>1, <2>2, <2>5
  <2> QED BY <2>4, <2>5
<1> HIDE DEF f
<1>3. IsFactory(f, n + 1, p)
  BY <1>1, <1>2 DEF IsFactory, Pools
<1> QED BY <1>3 DEF f
-----------------------------------------------------------------------------
(* What a unit has in a pool, and what assigning it changes.               *)
InPool(u, k, n) == u \in Nat /\ Lo(k) <= u /\ u < Hi(k, n)

LEMMA ItemOfPools ==
  ASSUME NEW n \in Nat, NEW f, Pools(f.store, n),
         NEW k \in Kinds, NEW u, InPool(u, k, n)
  PROVE  /\ u - Lo(k) + 1 \in 1 .. Len(f.store[k].data)
         /\ LowerBound(f.store[k].ids, u) = u - Lo(k) + 1
         /\ Item(f, k, u) = f.store[k].data[u - Lo(k) + 1]
         /\ Item(f, k, u) \in Datum(k)
<1> DEFINE lo == Lo(k)
           hi == Hi(k, n)
           s == f.store[k]
           T == Datum(k)
<1>1. lo \in Nat /\ hi \in Nat /\ lo <= hi /\ u \in Nat /\ lo <= u /\ u < hi
  BY Bounds DEF InPool
<1>2. IsStore(s, lo, hi, T)
  BY DEF Pools
<1>3. Item(f, k, u) = s.data[LowerBound(s.ids, u)]
  BY DEF Item
<1> HIDE DEF lo, hi, s, T
<1>4. LowerBound(s.ids, u) = u - lo + 1
  BY <1>1, <1>2, FoundInSpan
<1>5. u - lo + 1 \in 1 .. Len(s.data) /\ s.data \in Seq(T)
  <2>1. s.data \in Seq(T) /\ Len(s.data) = hi - lo
    BY <1>2 DEF IsStore
  <2>2. u - lo + 1 \in 1 .. hi - lo
    BY <1>1
  <2> QED BY <2>1, <2>2
<1>6. s.data[u - lo + 1] \in T
  BY <1>5, ElementOfSeq
<1> QED BY <1>3, <1>4, <1>5, <1>6 DEF lo, s, T

LEMMA ItemInPool ==
  ASSUME NEW n \in Nat, NEW m \in Nat, NEW f, IsFactory(f, n, m),
         NEW k \in Kinds, NEW u, InPool(u, k, n)
  PROVE  /\ u - Lo(k) + 1 \in 1 .. Len(f.store[k].data)
         /\ LowerBound(f.store[k].ids, u) = u - Lo(k) + 1
         /\ Item(f, k, u) = f.store[k].data[u - Lo(k) + 1]
         /\ Item(f, k, u) \in Datum(k)
BY ItemOfPools DEF IsFactory

(* g is f with other places and clocks of the orks.                        *)
Kept(f, g, n, orks) ==
  \A k \in Kinds, u \in Nat :
    InPool(u, k, n) /\ (u \in orks => k \notin {"pos", "update"}) => Item(g, k, u) = Item(f, k, u)

IsSet(f, g, n, m, k, u, v) ==
  /\ IsFactory(g, n, m) /\ g.entity = f.entity /\ g.released = f.released
  /\ Item(g, k, u) = v
  /\ \A l \in Kinds, w \in Nat : InPool(w, l, n) /\ (l = k => w # u) => Item(g, l, w) = Item(f, l, w)
  /\ \A l \in Kinds : l # k => g.store[l] = f.store[l]

LEMMA SetItemInPool ==
  ASSUME NEW n \in Nat, NEW m \in Nat, NEW f, IsFactory(f, n, m),
         NEW k \in Kinds, NEW u, InPool(u, k, n), NEW v \in Datum(k)
  PROVE  IsSet(f, SetItem(f, k, u, v), n, m, k, u, v)
<1> DEFINE s == f.store[k]
           T == Datum(k)
           i == u - Lo(k) + 1
           d == [s.data EXCEPT ![i] = v]
           a == [ids |-> s.ids, data |-> d]
           g == SetItem(f, k, u, v)
<1>1. /\ IsRecord(f) /\ IsUsed(f.entity, n, m) /\ f.released = Span(n, m) /\ Pools(f.store, n)
      /\ f.store = [l \in Kinds |-> f.store[l]]
      /\ s = [ids |-> s.ids, data |-> s.data] /\ s.data \in Seq(T)
      /\ \A l \in Kinds : IsStore(f.store[l], Lo(l), Hi(l, n), Datum(l))
  BY DEF IsFactory, Pools, IsStore
<1>2. i \in 1 .. Len(s.data) /\ LowerBound(s.ids, u) = i
  BY ItemInPool
<1>3. g = [f EXCEPT !.store[k].data[i] = v]
  BY <1>2 DEF SetItem
<1>4. f = [entity |-> f.entity, released |-> f.released, store |-> f.store]
  BY <1>1 DEF IsRecord
<1> HIDE DEF i, T
<1>5. g = [f EXCEPT !.store[k] = [s EXCEPT !.data = d]]
  BY <1>3
<1>6. g = [f EXCEPT !.store[k] = a]
  <2> HIDE DEF d, s, g
  <2>1. [s EXCEPT !.data = d] = a
    BY <1>1
  <2> QED BY <1>5, <2>1
<1>7. /\ d \in Seq(T) /\ Len(d) = Len(s.data)
      /\ \A j \in 1 .. Len(s.data) : d[j] = IF j = i THEN v ELSE s.data[j]
  <2>1. v \in T
    BY DEF T
  <2> QED BY <1>1, <1>2, <2>1, ExceptSeq
<1> HIDE DEF d
<1>8. IsStore(a, Lo(k), Hi(k, n), T)
  BY <1>1, <1>7 DEF IsStore, T
<1> HIDE DEF a
<1>9. g = [entity |-> f.entity, released |-> f.released, store |-> [f.store EXCEPT ![k] = a]]
  BY <1>4, <1>6
<1> HIDE DEF g
<1>10. /\ IsRecord(g) /\ g.entity = f.entity /\ g.released = f.released
       /\ g.store = [l \in Kinds |-> g.store[l]]
       /\ g.store[k] = a /\ \A l \in Kinds : l # k => g.store[l] = f.store[l]
  BY <1>1, <1>9 DEF IsRecord
<1>11. \A l \in Kinds : IsStore(g.store[l], Lo(l), Hi(l, n), Datum(l))
  BY <1>1, <1>8, <1>10 DEF T
<1>12. IsFactory(g, n, m)
  BY <1>1, <1>10, <1>11 DEF IsFactory, Pools
<1>13. Item(g, k, u) = v
  <2>1. Item(g, k, u) = g.store[k].data[i]
    BY <1>12, ItemInPool DEF i
  <2> QED BY <1>2, <1>7, <1>10, <2>1 DEF a
<1>14. ASSUME NEW l \in Kinds, NEW w \in Nat, InPool(w, l, n), l = k => w # u
       PROVE  Item(g, l, w) = Item(f, l, w)
  <2> DEFINE j == w - Lo(l) + 1
  <2>1. /\ Item(g, l, w) = g.store[l].data[j] /\ Item(f, l, w) = f.store[l].data[j]
        /\ j \in 1 .. Len(f.store[l].data)
    BY <1>12, <1>14, ItemInPool
  <2>2. CASE l = k
    <3>1. j # i
      <4>1. Lo(l) \in Nat /\ u \in Nat
        BY Bounds DEF InPool
      <4> QED BY <1>14, <2>2, <4>1 DEF i
    <3> HIDE DEF j
    <3> QED BY <1>7, <1>10, <2>1, <2>2, <3>1 DEF a
  <2>3. CASE l # k
    BY <1>10, <2>1, <2>3
  <2> QED BY <2>2, <2>3
<1>15. IsSet(f, g, n, m, k, u, v)
  BY <1>10, <1>12, <1>13, <1>14 DEF IsSet
<1> QED BY <1>15 DEF g

(* A set that has all such factories.                                      *)
AnyDatum == Cells \cup {"alive", "dead"} \cup Int
Factories(e, r) ==
  [entity : {e}, released : {r}, store : [Kinds -> [ids : Seq(Nat), data : Seq(AnyDatum)]]]

LEMMA FactoryIn ==
  ASSUME NEW n \in Nat, NEW m \in Nat, NEW f, IsFactory(f, n, m)
  PROVE  f \in Factories(f.entity, f.released)
<1>1. ASSUME NEW k \in Kinds PROVE f.store[k] \in [ids : Seq(Nat), data : Seq(AnyDatum)]
  <2> DEFINE s == f.store[k]
  <2>1. /\ s = [ids |-> s.ids, data |-> s.data] /\ s.ids = Span(Lo(k), Hi(k, n))
        /\ s.data \in Seq(Datum(k))
    BY DEF IsFactory, Pools, IsStore
  <2>2. s.ids \in Seq(Nat)
    BY <2>1, Bounds, SpanFacts
  <2>3. Datum(k) \subseteq AnyDatum
    BY DEF Datum, AnyDatum
  <2>4. s.data \in Seq(AnyDatum)
    BY <2>1, <2>3
  <2> HIDE DEF s
  <2>5. s \in [ids : Seq(Nat), data : Seq(AnyDatum)]
    BY <2>1, <2>2, <2>4
  <2> QED BY <2>5 DEF s
<1>2. f.store = [k \in Kinds |-> f.store[k]]
  BY DEF IsFactory, Pools
<1>3. f.store \in [Kinds -> [ids : Seq(Nat), data : Seq(AnyDatum)]]
  BY <1>1, <1>2
<1> QED BY <1>3 DEF IsFactory, IsRecord, Factories

LEMMA OrkInPools ==
  ASSUME NEW n \in Nat, NEW u, InPool(u, "ai", n)
  PROVE  /\ InPool(u, "pos", n) /\ InPool(u, "update", n) /\ InPool(u, "status", n)
         /\ u # 0 /\ n # 0 /\ u < n
BY DEF InPool, Lo, Hi

LEMMA SetUnitKeeps ==
  ASSUME NEW n \in Nat, NEW m \in Nat, NEW f, IsFactory(f, n, m), NEW u, InPool(u, "ai", n),
         NEW time \in Int, NEW c \in Cells, NEW orks, u \in orks
  PROVE  /\ IsFactory(SetUnit(f, u, time, c), n, m)
         /\ SetUnit(f, u, time, c).entity = f.entity
         /\ SetUnit(f, u, time, c).released = f.released
         /\ Kept(f, SetUnit(f, u, time, c), n, orks)
<1> DEFINE g == SetItem(f, "pos", u, c)
           spent == IF Tick(f, u, time) > OrkMoveTime THEN OrkMoveTime ELSE 0
           v == Tick(f, u, time) - spent
           h == SetItem(g, "update", u, v)
<1>0. SetUnit(f, u, time, c) = h
  BY DEF SetUnit
<1>1. InPool(u, "pos", n) /\ InPool(u, "update", n) /\ u \in Nat
  BY OrkInPools DEF InPool
<1>2. "pos" \in Kinds /\ "update" \in Kinds /\ c \in Datum("pos")
  BY DEF Kinds, Datum
<1>3. v \in Datum("update")
  <2>1. Item(f, "update", u) \in Int
    BY <1>1, <1>2, ItemInPool DEF Datum
  <2>2. Tick(f, u, time) \in Int /\ OrkMoveTime \in Int
    BY <2>1, StarWorldAssumption DEF Tick
  <2>3. v \in Int
    BY <2>2
  <2> QED BY <2>3 DEF Datum
<1> HIDE DEF v, g
<1>4. IsSet(f, g, n, m, "pos", u, c)
  BY <1>1, <1>2, SetItemInPool DEF g
<1>5. IsFactory(g, n, m)
  BY <1>4 DEF IsSet
<1>6. IsSet(g, h, n, m, "update", u, v)
  BY <1>1, <1>2, <1>3, <1>5, SetItemInPool
<1> HIDE DEF h
<1>7. Kept(f, h, n, orks)
  <2> SUFFICES ASSUME NEW k \in Kinds, NEW w \in Nat, InPool(w, k, n),
                      w \in orks => k \notin {"pos", "update"}
               PROVE  Item(h, k, w) = Item(f, k, w)
    BY DEF Kept
  <2>1. (k = "pos" => w # u) /\ (k = "update" => w # u)
    OBVIOUS
  <2>2. Item(g, k, w) = Item(f, k, w)
    BY <1>4, <2>1 DEF IsSet
  <2>3. Item(h, k, w) = Item(g, k, w)
    BY <1>6, <2>1 DEF IsSet
  <2> QED BY <2>2, <2>3
<1> QED BY <1>0, <1>4, <1>6, <1>7 DEF IsSet

LEMMA OutcomesKeep ==
  ASSUME NEW n \in Nat, NEW m \in Nat, NEW f, IsFactory(f, n, m),
         NEW orks, IsFiniteSet(orks), \A u \in orks : InPool(u, "ai", n),
         NEW time \in Int, NEW h \in Outcomes(f, orks, time)
  PROVE  IsFactory(h, n, m) /\ h.entity = f.entity /\ Kept(f, h, n, orks)
<1> DEFINE places == [u \in orks |-> IF Tick(f, u, time) > OrkMoveTime THEN Wander(f, u)
                                                                     ELSE {Item(f, "pos", u)}]
           Chosen(e) == \A u \in orks : e[u] \in places[u]
<1>0. h \in {MoveAll(f, orks, time, e) : e \in {x \in [orks -> Cells] : Chosen(x)}}
  BY DEF Outcomes
<1>1. PICK d \in [orks -> Cells] : h = MoveAll(f, orks, time, d)
  <2> HIDE DEF Chosen
  <2> QED BY <1>0
<1> HIDE <1>0
<1> DEFINE One(t) == CHOOSE x \in t : TRUE
           Code(q) == [t \in SUBSET orks |->
                         IF t = {} THEN f ELSE SetUnit(q[t \ {One(t)}], One(t), time, d[One(t)])]
           iter == CHOOSE q : q = Code(q)
           D == {g \in Factories(f.entity, f.released) : IsFactory(g, n, m) /\ Kept(f, g, n, orks)}
           pick == [t \in SUBSET orks |-> One(t)]
           G == [u \in orks |-> [g \in D |-> SetUnit(g, u, time, d[u])]]
<1>2. h = iter[orks]
  BY <1>1 DEF MoveAll, FoldSet, MapThenFoldSet
<1>3. \A t \in SUBSET orks : t # {} => One(t) \in t
  OBVIOUS
<1> HIDE DEF One
<1>4. /\ \A t \in SUBSET orks : pick[t] = One(t)
      /\ \A t \in SUBSET orks : t # {} => pick[t] \in t
  BY <1>3
<1>5. ASSUME NEW u \in orks, NEW g \in D
      PROVE  G[u][g] = SetUnit(g, u, time, d[u]) /\ G[u][g] \in D
  <2> DEFINE w == SetUnit(g, u, time, d[u])
  <2>1. /\ IsFactory(g, n, m) /\ Kept(f, g, n, orks) /\ g.entity = f.entity /\ g.released = f.released
    BY DEF Factories
  <2>2. InPool(u, "ai", n) /\ d[u] \in Cells
    OBVIOUS
  <2>3. IsFactory(w, n, m) /\ w.entity = g.entity /\ w.released = g.released /\ Kept(g, w, n, orks)
    BY <2>1, <2>2, SetUnitKeeps
  <2> HIDE DEF w
  <2>4. w \in Factories(f.entity, f.released)
    BY <2>1, <2>3, FactoryIn
  <2>5. Kept(f, w, n, orks)
    BY <2>1, <2>3 DEF Kept
  <2>6. w \in D
    BY <2>3, <2>4, <2>5
  <2>7. G[u][g] = w
    BY DEF w
  <2> HIDE DEF G, D
  <2> QED BY <2>6, <2>7 DEF w
<1>6. f \in D
  <2>1. Kept(f, f, n, orks)
    BY DEF Kept
  <2> QED BY <2>1, FactoryIn
<1> HIDE DEF G, D, pick
<1>7. PICK q : IsFold(q, orks, D, f, pick, G)
  BY <1>4, <1>5, <1>6, FoldExists
<1>8. q = Code(q)
  <2>1. /\ q \in [SUBSET orks -> D]
        /\ q = [t \in SUBSET orks |-> IF t = {} THEN f ELSE G[pick[t]][q[t \ {pick[t]}]]]
    BY <1>7 DEF IsFold
  <2>2. ASSUME NEW t \in SUBSET orks
        PROVE  q[t] = IF t = {} THEN f ELSE SetUnit(q[t \ {One(t)}], One(t), time, d[One(t)])
    <3>1. CASE t = {}
      BY <2>1, <3>1
    <3>2. CASE t # {}
      <4> DEFINE x == One(t)
      <4>1. x \in t /\ pick[t] = x
        BY <1>3, <1>4, <3>2
      <4> HIDE DEF x
      <4>2. x \in orks /\ q[t \ {x}] \in D
        BY <2>1, <4>1
      <4>3. q[t] = G[x][q[t \ {x}]]
        BY <2>1, <3>2, <4>1
      <4>4. q[t] = SetUnit(q[t \ {x}], x, time, d[x])
        BY <1>5, <4>2, <4>3
      <4> QED BY <3>2, <4>4 DEF x
    <3> QED BY <3>1, <3>2
  <2> QED BY <2>1, <2>2
<1>9. iter = Code(iter)
  BY <1>8
<1> HIDE DEF iter
<1> DEFINE P == {t \in SUBSET orks : iter[t] \in D}
<1>10. {} \in P
  BY <1>6, <1>9
<1>11. ASSUME NEW t \in SUBSET orks, t # {}
       PROVE  pick[t] \in t /\ (t \ {pick[t]} \in P => t \in P)
  <2> DEFINE x == One(t)
  <2>1. x \in t /\ pick[t] = x
    BY <1>3, <1>4, <1>11
  <2>2. iter[t] = SetUnit(iter[t \ {x}], x, time, d[x])
    BY <1>9, <1>11
  <2> HIDE DEF x
  <2>3. ASSUME t \ {x} \in P PROVE t \in P
    <3>1. iter[t \ {x}] \in D /\ x \in orks
      BY <2>1, <2>3
    <3>2. iter[t] \in D
      BY <1>5, <2>2, <3>1
    <3> QED BY <3>2
  <2> QED BY <2>1, <2>3
<1> HIDE DEF P
<1>12. SUBSET orks \subseteq P
  BY <1>10, <1>11, FoldedStays
<1>13. orks \in SUBSET orks
  OBVIOUS
<1>14. h \in D
  BY <1>2, <1>12, <1>13 DEF P
<1> QED BY <1>14 DEF D, Factories

LEMMA GrownItems ==
  ASSUME NEW n \in Nat, NEW p \in Nat, NEW g, Pools(g.store, n), NEW c, NEW S \in SUBSET Kinds,
         IsFactory(Grown(g, S, n, c), n + 1, p),
         \A k \in S : Hi(k, n) = n /\ Hi(k, n + 1) = n + 1,
         NEW k \in Kinds
  PROVE  /\ k \in S => Item(Grown(g, S, n, c), k, n) = c[k]
         /\ \A u \in Nat : InPool(u, k, n) => Item(Grown(g, S, n, c), k, u) = Item(g, k, u)
<1> DEFINE f == Grown(g, S, n, c)
           s == g.store[k]
           up == n + 1
           lo == Lo(k)
<1>0. up \in Nat /\ n < up
  OBVIOUS
<1>1. f.store[k] = IF k \in S THEN [ids |-> Append(s.ids, n), data |-> Append(s.data, c[k])] ELSE s
  BY DEF Grown
<1>2. lo \in Nat /\ lo <= Hi(k, n) /\ Hi(k, n) \in Nat
  BY Bounds
<1>3. s.data \in Seq(Datum(k)) /\ Len(s.data) = Hi(k, n) - lo
  BY DEF Pools, IsStore
<1>4. IsFactory(f, up, p)
  OBVIOUS
<1>5. k \in S => Hi(k, n) = n /\ Hi(k, up) = up
  OBVIOUS
<1> HIDE DEF s, up, f
<1>6. ASSUME k \in S PROVE Item(f, k, n) = c[k]
  <2>1. InPool(n, k, up)
    BY <1>0, <1>2, <1>5, <1>6 DEF InPool, lo
  <2>2. Item(f, k, n) = f.store[k].data[n - Lo(k) + 1]
    BY <1>0, <1>4, <2>1, ItemInPool
  <2>3. f.store[k].data = Append(s.data, c[k])
    BY <1>1, <1>6
  <2>4. Len(s.data) + 1 = n - lo + 1
    BY <1>2, <1>3, <1>5, <1>6
  <2>5. Append(s.data, c[k])[Len(s.data) + 1] = c[k]
    BY <1>3
  <2> QED BY <2>2, <2>3, <2>4, <2>5 DEF lo
<1>7. ASSUME NEW u \in Nat, InPool(u, k, n) PROVE Item(f, k, u) = Item(g, k, u)
  <2>1. /\ Item(g, k, u) = s.data[u - Lo(k) + 1] /\ u - Lo(k) + 1 \in 1 .. Len(s.data)
    BY <1>7, ItemOfPools DEF s
  <2>2. CASE k \in S
    <3>1. InPool(u, k, up)
      BY <1>0, <1>2, <1>5, <1>7, <2>2 DEF InPool
    <3>2. Item(f, k, u) = f.store[k].data[u - Lo(k) + 1]
      BY <1>0, <1>4, <3>1, ItemInPool
    <3>3. f.store[k].data = Append(s.data, c[k])
      BY <1>1, <2>2
    <3>4. Append(s.data, c[k])[u - Lo(k) + 1] = s.data[u - Lo(k) + 1]
      <4> DEFINE i == u - Lo(k) + 1
      <4> HIDE DEF i
      <4>1. i \in 1 .. Len(s.data)
        BY <2>1 DEF i
      <4>2. Append(s.data, c[k])[i] = s.data[i]
        BY <1>3, <4>1
      <4> QED BY <4>2 DEF i
    <3> QED BY <2>1, <3>2, <3>3, <3>4
  <2>3. CASE k \notin S
    BY <1>1, <2>3 DEF Item, s
  <2> QED BY <2>2, <2>3
<1> QED BY <1>6, <1>7 DEF f

(* The two kinds of units: the player is the first of a level.             *)
LEMMA NewPlayer ==
  ASSUME NEW p \in Nat, NEW g, IsRecord(g), Pools(g.store, 0), NEW c \in Cells,
         IsUsed(g.entity, 1, p), g.released = Span(1, p)
  PROVE  /\ IsFactory(NewUnit(g, 0, PlayerParts(c)), 1, p)
         /\ NewUnit(g, 0, PlayerParts(c)).entity = g.entity
         /\ Item(NewUnit(g, 0, PlayerParts(c)), "status", 0) = "alive"
<1> DEFINE S == Kinds \ {"ai"}
           parts == PlayerParts(c)
<1>1. \A k \in S : Hi(k, 0) = 0 /\ Hi(k, 0 + 1) = 0 + 1 /\ parts[k] \in Datum(k)
  BY DEF Hi, PlayerParts, Datum, Kinds
<1>2. \A k \in Kinds \ S : Hi(k, 0 + 1) = Hi(k, 0)
  BY DEF Hi
<1>3. S = DOMAIN parts /\ S \in SUBSET Kinds /\ parts["status"] = "alive"
      /\ "status" \in S /\ "status" \in Kinds
  BY DEF PlayerParts, Kinds
<1> HIDE DEF S, parts
<1>4. NewUnit(g, 0, parts) = Grown(g, S, 0, parts)
  BY <1>1, <1>3, NewUnitGrows
<1>5. IsUsed(g.entity, 0 + 1, p) /\ g.released = Span(0 + 1, p) /\ 0 \in Nat
  OBVIOUS
<1>6. IsFactory(Grown(g, S, 0, parts), 0 + 1, p)
  BY <1>1, <1>2, <1>3, <1>5, GrownIsFactory
<1>7. Item(Grown(g, S, 0, parts), "status", 0) = "alive"
  BY <1>1, <1>3, <1>5, <1>6, GrownItems
<1>8. Grown(g, S, 0, parts).entity = g.entity
  BY DEF Grown
<1>9. IsFactory(Grown(g, S, 0, parts), 1, p)
  BY <1>6
<1> QED BY <1>4, <1>7, <1>8, <1>9 DEF parts

LEMMA NewOrk ==
  ASSUME NEW n \in Nat, n # 0, NEW p \in Nat, NEW g, IsRecord(g), Pools(g.store, n), NEW c \in Cells,
         IsUsed(g.entity, n + 1, p), g.released = Span(n + 1, p)
  PROVE  /\ IsFactory(NewUnit(g, n, OrkParts(c)), n + 1, p)
         /\ NewUnit(g, n, OrkParts(c)).entity = g.entity
         /\ Item(NewUnit(g, n, OrkParts(c)), "status", 0) = Item(g, "status", 0)
<1> DEFINE S == Kinds \ {"userInput"}
           parts == OrkParts(c)
<1>1. \A k \in S : Hi(k, n) = n /\ Hi(k, n + 1) = n + 1 /\ parts[k] \in Datum(k)
  BY DEF Hi, OrkParts, Datum, Kinds
<1>2. \A k \in Kinds \ S : Hi(k, n + 1) = Hi(k, n)
  BY DEF Hi
<1>3. S = DOMAIN parts /\ S \in SUBSET Kinds /\ "status" \in S /\ "status" \in Kinds
  BY DEF OrkParts, Kinds
<1> HIDE DEF S, parts
<1>4. NewUnit(g, n, parts) = Grown(g, S, n, parts)
  BY <1>1, <1>3, NewUnitGrows
<1>5. IsFactory(Grown(g, S, n, parts), n + 1, p)
  BY <1>1, <1>2, <1>3, GrownIsFactory
<1>6. InPool(0, "status", n)
  BY DEF InPool, Lo, Hi
<1>7. Item(Grown(g, S, n, parts), "status", 0) = Item(g, "status", 0)
  BY <1>1, <1>3, <1>5, <1>6, GrownItems
<1>8. Grown(g, S, n, parts).entity = g.entity
  BY DEF Grown
<1> QED BY <1>4, <1>5, <1>7, <1>8 DEF parts

(* The orks that use their time are those that are not dead.               *)
LEMMA SpanSet ==
  ASSUME NEW lo \in Nat, NEW hi \in Nat, lo <= hi
  PROVE  ToSet(Span(lo, hi)) = lo .. hi - 1
<1>1. ToSet(Span(lo, hi)) = {lo + i - 1 : i \in 1 .. hi - lo}
  BY DEF ToSet, Span
<1>2. ASSUME NEW x \in lo .. hi - 1 PROVE x \in {lo + i - 1 : i \in 1 .. hi - lo}
  <2>1. x - lo + 1 \in 1 .. hi - lo /\ x = lo + (x - lo + 1) - 1
    OBVIOUS
  <2> QED BY <2>1
<1>3. ASSUME NEW i \in 1 .. hi - lo PROVE lo + i - 1 \in lo .. hi - 1
  OBVIOUS
<1> QED BY <1>1, <1>2, <1>3

LEMMA ProcessAIKeeps ==
  ASSUME NEW n \in Nat, NEW m \in Nat, NEW f, IsFactory(f, n, m), NEW time \in Int,
         NEW h \in ProcessAI(f, time)
  PROVE  /\ IsFactory(h, n, m) /\ h.entity = f.entity
         /\ \A k \in Kinds, u \in Nat :
              /\ InPool(u, k, n)
              /\ k \in {"pos", "update"} => u = 0 \/ Item(f, "status", u) = "dead"
              => Item(h, k, u) = Item(f, k, u)
<1> DEFINE orks == {u \in ToSet(f.store["ai"].ids) : Item(f, "status", u) # "dead"}
<1>1. h \in Outcomes(f, orks, time)
  BY DEF ProcessAI
<1>2. "ai" \in Kinds
  BY DEF Kinds
<1>3. f.store["ai"].ids = Span(Lo("ai"), Hi("ai", n))
  BY <1>2 DEF IsFactory, Pools, IsStore
<1>4. ToSet(f.store["ai"].ids) = Lo("ai") .. Hi("ai", n) - 1
  BY <1>2, <1>3, Bounds, SpanSet
<1>5. Lo("ai") = 1 /\ Hi("ai", n) \in Nat
  BY DEF Lo, Hi
<1>6. \A u \in orks : InPool(u, "ai", n)
  BY <1>4, <1>5 DEF InPool
<1>7. IsFiniteSet(orks)
  <2>1. IsFiniteSet(Lo("ai") .. Hi("ai", n) - 1)
    BY <1>5, FS_Interval
  <2> QED BY <1>4, <2>1, FS_Subset
<1>8. \A u \in orks : u # 0 /\ Item(f, "status", u) # "dead"
  BY <1>6, OrkInPools
<1> HIDE DEF orks
<1>9. IsFactory(h, n, m) /\ h.entity = f.entity /\ Kept(f, h, n, orks)
  BY <1>1, <1>6, <1>7, OutcomesKeep
<1> QED BY <1>8, <1>9 DEF Kept

(* The map of units finds a unit where it is.                              *)
LEMMA MapFindsUnits ==
  ASSUME NEW n \in Nat, NEW m \in Nat, NEW f, IsFactory(f, n, m),
         NEW q \in MapUnits(f), NEW c \in Cells, q[c] # Nobody
  PROVE  InPool(q[c], "pos", n) /\ Item(f, "pos", q[c]) = c
<1> DEFINE s == f.store["pos"]
           here == [x \in Cells |-> UnitsAt(f, x)]
           crowded == {x \in Cells : Cardinality(here[x]) > 1}
           choices == [crowded -> ToSet(f.store["pos"].ids)]
<1>1. PICK p : /\ \A x \in crowded : p[x] \in here[x]
               /\ q = [x \in Cells |-> IF here[x] = {} THEN Nobody
                          ELSE IF x \in crowded THEN p[x] ELSE CHOOSE u \in here[x] : TRUE]
  BY DEF MapUnits
<1> HIDE DEF here, crowded
<1>2. q[c] \in here[c]
  BY <1>1
<1>3. q[c] \in UnitsAt(f, c)
  BY <1>2 DEF here
<1>4. PICK i \in DOMAIN s.ids : q[c] = s.ids[i] /\ s.data[i] = c
  BY <1>3 DEF UnitsAt
<1>5. "pos" \in Kinds /\ Lo("pos") = 0 /\ Hi("pos", n) = n
  BY DEF Kinds, Lo, Hi
<1>6. s.ids = Span(0, n) /\ DOMAIN s.ids = 1 .. n /\ \A j \in 1 .. n : s.ids[j] = j - 1
  <2>1. s.ids = Span(0, n)
    BY <1>5 DEF IsFactory, Pools, IsStore
  <2>2. 0 \in Nat /\ 0 <= n
    OBVIOUS
  <2>3. DOMAIN Span(0, n) = 1 .. n - 0 /\ \A j \in 1 .. n - 0 : Span(0, n)[j] = 0 + j - 1
    BY <2>2, SpanFacts
  <2> QED BY <2>1, <2>3
<1>7. q[c] = i - 1 /\ i \in 1 .. n
  BY <1>4, <1>6
<1>8. InPool(q[c], "pos", n)
  BY <1>5, <1>7 DEF InPool
<1>9. Item(f, "pos", q[c]) = s.data[q[c] - 0 + 1]
  BY <1>5, <1>8, ItemInPool
<1> QED BY <1>4, <1>7, <1>8, <1>9
-----------------------------------------------------------------------------
(* The inductive invariant: the units are numbered from zero and own the   *)
(* first places of every pool, the player lives while there is a level,    *)
(* and at rest the map of units is that of the pools.                      *)
Numbered ==
  /\ Len(units) \in 0 .. NumOrks + 1 /\ units = Span(0, Len(units))
  /\ Len(ecs.entity) \in {Len(units), NumOrks + 1}
  /\ IsFactory(ecs, Len(units), Len(ecs.entity))
Staged ==
  /\ cost \in Nat
  /\ pc = "level" => Len(units) = Len(ecs.entity) /\ Len(units) \in {0, NumOrks + 1}
  /\ pc = "orks" => Len(units) # 0
  /\ pc \in {"idle", "tail"} => Len(units) = NumOrks + 1
PlayerLives == pc \in {"orks", "idle", "tail"} => Item(ecs, "status", 0) = "alive"
UnitsMapped ==
  pc \in {"idle", "tail"} \/ (pc = "orks" /\ Len(units) > 1) => found \in MapUnits(ecs)
Ordered == Numbered /\ Staged /\ PlayerLives /\ UnitsMapped

LEMMA StartOrdered == Init => Ordered
<1> SUFFICES ASSUME Init PROVE Ordered
  OBVIOUS
<1>1. /\ pc = "level" /\ cost = 0 /\ units = <<>>
      /\ ecs = [entity |-> <<>>, released |-> <<>>, store |-> [k \in Kinds |-> NoStore]]
  BY DEF Init, NoEntities
<1>2. Span(0, 0) = <<>> /\ Len(<<>>) = 0
  BY EmptySpan
<1>3. ASSUME NEW k \in Kinds PROVE IsStore(NoStore, Lo(k), Hi(k, 0), Datum(k))
  <2>1. IsStore(NoStore, 0, 0, Datum(k))
    BY <1>2 DEF IsStore, NoStore
  <2>2. Lo(k) = Hi(k, 0) /\ Lo(k) \in Nat
    BY DEF Lo, Hi
  <2>3. IsStore(NoStore, Lo(k), Lo(k), Datum(k))
    BY <2>1, <2>2, EmptyStore
  <2> QED BY <2>2, <2>3
<1>4. IsUsed(<<>>, 0, 0)
  BY <1>2 DEF IsUsed
<1>5. IsFactory(ecs, 0, 0)
  BY <1>1, <1>2, <1>3, <1>4 DEF IsFactory, IsRecord, Pools
<1>6. NumOrks \in Nat
  BY StarWorldAssumption
<1>7. Numbered
  BY <1>1, <1>2, <1>5, <1>6 DEF Numbered
<1> QED BY <1>1, <1>2, <1>7 DEF Ordered, Staged, PlayerLives, UnitsMapped

(* What the invariant says of the numbers.                                 *)
LEMMA Numbers ==
  ASSUME Numbered
  PROVE  /\ Len(units) \in Nat /\ Len(ecs.entity) \in Nat /\ NumOrks \in Nat /\ NumOrks # 0
         /\ Len(units) <= Len(ecs.entity) /\ Len(units) <= NumOrks + 1
         /\ units = Span(0, Len(units)) /\ IsFactory(ecs, Len(units), Len(ecs.entity))
BY StarWorldAssumption DEF Numbered

LEMMA FactoryLength ==
  ASSUME NEW n, NEW m, NEW f, IsFactory(f, n, m)
  PROVE  Len(f.entity) = m
BY DEF IsFactory, IsUsed

LEMMA BeginOrdered ==
  ASSUME Ordered, BeginLevel
  PROVE  Ordered'
<1> DEFINE n == Len(units)
           cleared == Clear(ecs)
           g == GetNew(cleared)
<1>1. /\ n \in Nat /\ NumOrks \in Nat /\ n \in {0, NumOrks + 1} /\ IsFactory(ecs, n, n)
      /\ cost \in Nat
  BY Numbers DEF Ordered, Staged, BeginLevel
<1>2. PICK c \in Cells : /\ ecs' = NewUnit(g, NewID(cleared), PlayerParts(c))
                         /\ units' = <<NewID(cleared)>>
  BY DEF BeginLevel
<1>3. pc' = "orks" /\ cost' = cost
  BY DEF BeginLevel
<1> HIDE DEF n
<1>4. IsFactory(cleared, 0, n)
  BY <1>1, ClearAll
<1> HIDE DEF cleared
<1>5. 0 \in Nat /\ 0 <= n
  BY <1>1
<1>6. /\ NewID(cleared) = 0
      /\ IsRecord(g) /\ g.store = cleared.store
      /\ \E p \in {n, 0 + 1} : /\ 0 + 1 <= p /\ (n # 0 => p = n)
                               /\ IsUsed(g.entity, 0 + 1, p) /\ g.released = Span(0 + 1, p)
  BY <1>1, <1>4, <1>5, GetNewNext
<1> HIDE DEF g
<1>7. PICK p \in {n, 1} : 1 <= p /\ (n # 0 => p = n) /\ IsUsed(g.entity, 1, p) /\ g.released = Span(1, p)
  BY <1>6
<1>8. p \in Nat /\ p \in {1, NumOrks + 1}
  BY <1>1, <1>7
<1>9. Pools(g.store, 0)
  BY <1>4, <1>6 DEF IsFactory
<1>10. IsFactory(ecs', 1, p) /\ Item(ecs', "status", 0) = "alive"
  BY <1>2, <1>6, <1>7, <1>8, <1>9, NewPlayer
<1>11. units' = <<0>>
  BY <1>2, <1>6
<1>12. Span(0, 1) = <<0>>
  <2>1. 0 \in Nat /\ 1 \in Nat /\ 0 <= 1
    OBVIOUS
  <2>0. /\ Span(0, 1) \in Seq(Nat) /\ Len(Span(0, 1)) = 1 - 0
        /\ \A i \in 1 .. 1 - 0 : Span(0, 1)[i] = 0 + i - 1
    BY <2>1, SpanFacts
  <2>2. Span(0, 1) \in Seq(Nat) /\ Len(Span(0, 1)) = 1 /\ Span(0, 1)[1] = 0
    BY <2>0
  <2>3. <<0>> \in Seq(Nat) /\ Len(<<0>>) = 1 /\ <<0>>[1] = 0
    OBVIOUS
  <2>4. \A i \in 1 .. 1 : Span(0, 1)[i] = <<0>>[i]
    BY <2>2, <2>3
  <2> QED BY <2>2, <2>3, <2>4, SeqEqual
<1>13. Len(units') = 1
  BY <1>11
<1>14. Len(ecs'.entity) = p
  BY <1>10, FactoryLength
<1>15. Numbered'
  BY <1>1, <1>8, <1>10, <1>11, <1>12, <1>13, <1>14 DEF Numbered
<1>16. Staged'
  BY <1>1, <1>3, <1>13 DEF Staged
<1>17. PlayerLives' /\ UnitsMapped'
  BY <1>3, <1>10, <1>13 DEF PlayerLives, UnitsMapped
<1> QED BY <1>15, <1>16, <1>17 DEF Ordered

LEMMA SpawnOrdered ==
  ASSUME Ordered, SpawnOrk
  PROVE  Ordered'
<1> DEFINE n == Len(units)
           m == Len(ecs.entity)
           g == GetNew(ecs)
<1>1. /\ n \in Nat /\ m \in Nat /\ NumOrks \in Nat /\ n <= m /\ n # 0 /\ n <= NumOrks
      /\ m \in {n, NumOrks + 1} /\ units = Span(0, n) /\ IsFactory(ecs, n, m)
      /\ cost \in Nat /\ Item(ecs, "status", 0) = "alive"
  BY Numbers DEF Ordered, Numbered, Staged, PlayerLives, SpawnOrk
<1>2. PICK c \in Cells : /\ ecs' = NewUnit(g, NewID(ecs), OrkParts(c))
                         /\ units' = Append(units, NewID(ecs))
                         /\ found' \in MapUnits(ecs')
  BY DEF SpawnOrk, UpdateMapUnits
<1>3. pc' = "orks" /\ cost' = cost
  BY DEF SpawnOrk
<1> HIDE DEF n, m
<1>4. /\ NewID(ecs) = n
      /\ IsRecord(g) /\ g.store = ecs.store
      /\ \E p \in {m, n + 1} : /\ n + 1 <= p /\ (m # n => p = m)
                               /\ IsUsed(g.entity, n + 1, p) /\ g.released = Span(n + 1, p)
  BY <1>1, GetNewNext
<1> HIDE DEF g
<1>5. PICK p \in {m, n + 1} : /\ n + 1 <= p /\ (m # n => p = m)
                              /\ IsUsed(g.entity, n + 1, p) /\ g.released = Span(n + 1, p)
  BY <1>4
<1>6. p \in Nat /\ p \in {n + 1, NumOrks + 1}
  BY <1>1, <1>5
<1>7. Pools(g.store, n)
  BY <1>1, <1>4 DEF IsFactory
<1>8. IsFactory(ecs', n + 1, p) /\ Item(ecs', "status", 0) = Item(g, "status", 0)
  BY <1>1, <1>2, <1>4, <1>5, <1>6, <1>7, NewOrk
<1>9. Item(g, "status", 0) = "alive"
  BY <1>1, <1>4 DEF Item
<1>10. units' = Span(0, n + 1)
  <2>1. 0 \in Nat /\ 0 <= n
    BY <1>1
  <2>2. Append(Span(0, n), n) = Span(0, n + 1)
    BY <1>1, <2>1, SpanGrows
  <2> QED BY <1>1, <1>2, <1>4, <2>2
<1>11. Len(units') = n + 1
  <2> DEFINE up == n + 1
  <2>1. 0 \in Nat /\ up \in Nat /\ 0 <= up
    BY <1>1
  <2> HIDE DEF up
  <2>2. Len(Span(0, up)) = up - 0
    BY <2>1, SpanFacts
  <2> QED BY <1>10, <2>1, <2>2 DEF up
<1>12. Len(ecs'.entity) = p
  BY <1>8, FactoryLength
<1>13. Numbered'
  <2>1. n + 1 \in 0 .. NumOrks + 1
    BY <1>1
  <2> QED BY <1>6, <1>8, <1>10, <1>11, <1>12, <2>1 DEF Numbered
<1>14. n + 1 # 0
  BY <1>1
<1>15. Staged'
  BY <1>1, <1>3, <1>11, <1>14 DEF Staged
<1>16. PlayerLives' /\ UnitsMapped'
  BY <1>2, <1>3, <1>8, <1>9 DEF PlayerLives, UnitsMapped
<1> QED BY <1>13, <1>15, <1>16 DEF Ordered

(* A step that leaves the units as they are.                               *)
LEMMA SameUnits ==
  ASSUME Ordered, pc' \in {"level", "idle", "tail"}, cost' \in Nat, units' = units,
         Len(units) = NumOrks + 1,
         IsFactory(ecs', Len(units), Len(ecs.entity)), ecs'.entity = ecs.entity,
         pc' # "level" => found' \in MapUnits(ecs') /\ Item(ecs', "status", 0) = "alive"
  PROVE  Ordered'
<1>1. Numbered'
  BY DEF Ordered, Numbered
<1>2. Len(ecs.entity) = NumOrks + 1
  BY DEF Ordered, Numbered
<1>3. Staged'
  BY <1>2 DEF Staged
<1>4. PlayerLives' /\ UnitsMapped'
  BY DEF PlayerLives, UnitsMapped
<1> QED BY <1>1, <1>3, <1>4 DEF Ordered

(* The world at rest or in the tail of an action.                          *)
LEMMA AtRest ==
  ASSUME Ordered, pc \in {"idle", "tail"}
  PROVE  /\ Len(units) = NumOrks + 1 /\ Len(units) \in Nat /\ Len(ecs.entity) \in Nat
         /\ IsFactory(ecs, Len(units), Len(ecs.entity))
         /\ Item(ecs, "status", 0) = "alive" /\ found \in MapUnits(ecs) /\ cost \in Nat
         /\ Player = 0
         /\ InPool(0, "pos", Len(units)) /\ InPool(0, "status", Len(units))
         /\ {"pos", "status"} \subseteq Kinds
<1> DEFINE n == Len(units)
<1>1. /\ n = NumOrks + 1 /\ n \in Nat /\ n # 0 /\ Len(ecs.entity) \in Nat
      /\ IsFactory(ecs, n, Len(ecs.entity)) /\ units = Span(0, n)
  BY Numbers DEF Ordered, Staged
<1>2. Item(ecs, "status", 0) = "alive" /\ found \in MapUnits(ecs) /\ cost \in Nat
  BY DEF Ordered, Staged, PlayerLives, UnitsMapped
<1> HIDE DEF n
<1>3. Player = 0
  <2>0. 0 \in Nat /\ 0 <= n /\ 1 \in 1 .. n - 0
    BY <1>1
  <2>1. \A i \in 1 .. n - 0 : Span(0, n)[i] = 0 + i - 1
    BY <1>1, <2>0, SpanFacts
  <2>2. Span(0, n)[1] = 0 + 1 - 1
    BY <2>0, <2>1
  <2> QED BY <1>1, <2>2 DEF Player
<1>4. InPool(0, "pos", n) /\ InPool(0, "status", n) /\ {"pos", "status"} \subseteq Kinds
  BY <1>1 DEF InPool, Lo, Hi, Kinds
<1> QED BY <1>1, <1>2, <1>3, <1>4 DEF n

LEMMA PlayerKept ==
  ASSUME NEW n \in Nat, n # 0, NEW m \in Nat, NEW f, IsFactory(f, n, m), NEW time \in Int,
         NEW h \in ProcessAI(f, time)
  PROVE  /\ IsFactory(h, n, m) /\ h.entity = f.entity
         /\ \A k \in {"pos", "status"} : Item(h, k, 0) = Item(f, k, 0)
<1>1. {"pos", "status"} \subseteq Kinds /\ \A k \in {"pos", "status"} : InPool(0, k, n)
  BY DEF InPool, Lo, Hi, Kinds
<1> QED BY <1>1, ProcessAIKeeps

LEMMA WalkOrdered ==
  ASSUME Ordered, NEW side \in Sides, Walk(side)
  PROVE  Ordered'
<1> DEFINE n == Len(units)
           m == Len(ecs.entity)
           c == Go(Item(ecs, "pos", Player), side)
           f == SetItem(ecs, "pos", Player, c)
<1>0. pc = "idle"
  BY DEF Walk
<1>1. /\ n = NumOrks + 1 /\ n \in Nat /\ n # 0 /\ m \in Nat /\ IsFactory(ecs, n, m)
      /\ Item(ecs, "status", 0) = "alive" /\ Player = 0
      /\ InPool(0, "pos", n) /\ InPool(0, "status", n) /\ {"pos", "status"} \subseteq Kinds
  BY <1>0, AtRest, StarWorldAssumption
<1>2. c \in Cells
  BY DEF Walk, CanWalk, CanStand
<1>3. cost' \in Nat /\ units' = units
  BY StarWorldAssumption DEF Walk, CostOf
<1>4. \/ ecs' = f /\ pc' = "level"
      \/ ecs' \in ProcessAI(f, 0) /\ found' \in MapUnits(ecs') /\ pc' = "tail"
  BY DEF Walk, UpdateMapUnits
<1>5. c \in Datum("pos")
  BY <1>2 DEF Datum
<1> HIDE DEF n, m, c, f
<1>6. IsSet(ecs, f, n, m, "pos", 0, c)
  BY <1>1, <1>5, SetItemInPool DEF f
<1>7. IsFactory(f, n, m) /\ f.entity = ecs.entity /\ Item(f, "status", 0) = "alive"
  BY <1>1, <1>6 DEF IsSet
<1>8. CASE ecs' = f /\ pc' = "level"
  BY <1>1, <1>3, <1>7, <1>8, SameUnits DEF n, m
<1>9. CASE ecs' \in ProcessAI(f, 0) /\ found' \in MapUnits(ecs') /\ pc' = "tail"
  <2>1. /\ IsFactory(ecs', n, m) /\ ecs'.entity = f.entity /\ Item(ecs', "status", 0) = "alive"
    <3>1. 0 \in Int
      OBVIOUS
    <3> QED BY <1>1, <1>7, <1>9, <3>1, PlayerKept
  <2> QED BY <1>1, <1>3, <1>7, <1>9, <2>1, SameUnits DEF n, m
<1> QED BY <1>4, <1>8, <1>9

(* The player never fights with itself, which stands elsewhere.            *)
LEMMA FightsAnother ==
  ASSUME Ordered, pc = "idle", NEW side \in Sides,
         NEW target, target = Go(Item(ecs, "pos", Player), side), target \in Cells,
         found[target] # Nobody
  PROVE  found[target] # 0 /\ InPool(found[target], "status", Len(units))
<1> DEFINE n == Len(units)
           m == Len(ecs.entity)
<1>1. /\ n \in Nat /\ m \in Nat /\ IsFactory(ecs, n, m) /\ found \in MapUnits(ecs)
      /\ Player = 0 /\ InPool(0, "pos", n) /\ "pos" \in Kinds
  BY AtRest
<1> HIDE DEF n, m
<1>2. InPool(found[target], "pos", n) /\ Item(ecs, "pos", found[target]) = target
  BY <1>1, MapFindsUnits
<1>3. InPool(found[target], "status", n)
  BY <1>2 DEF InPool, Lo, Hi
<1> DEFINE c == Item(ecs, "pos", 0)
<1>4. c \in Int \X Int
  <2>1. c \in Datum("pos")
    BY <1>1, ItemInPool
  <2> QED BY <2>1, StarWorldAssumption DEF Datum
<1>5. target = Go(c, side)
  BY <1>1
<1> HIDE DEF c
<1>6. Go(c, side) # c
  <2>1. side[1] # 0 \/ side[2] # 0
    BY DEF Sides
  <2>2. side[1] \in Int /\ side[2] \in Int /\ c[1] \in Int /\ c[2] \in Int
    BY <1>4 DEF Sides
  <2>3. c[1] + side[1] # c[1] \/ c[2] + side[2] # c[2]
    BY <2>1, <2>2
  <2>4. Go(c, side)[1] = c[1] + side[1] /\ Go(c, side)[2] = c[2] + side[2]
    BY DEF Go
  <2> QED BY <2>3, <2>4
<1>7. found[target] # 0
  BY <1>2, <1>5, <1>6 DEF c
<1> QED BY <1>3, <1>7 DEF n

LEMMA FightOrdered ==
  ASSUME Ordered, NEW side \in Sides, Fight(side)
  PROVE  Ordered'
<1> DEFINE n == Len(units)
           m == Len(ecs.entity)
           target == Go(Item(ecs, "pos", Player), side)
           u == found[target]
           f == SetItem(ecs, "status", u, "dead")
<1>0. pc = "idle"
  BY DEF Fight
<1>1. /\ n = NumOrks + 1 /\ n \in Nat /\ n # 0 /\ m \in Nat /\ IsFactory(ecs, n, m)
      /\ Item(ecs, "status", 0) = "alive" /\ found \in MapUnits(ecs)
      /\ InPool(0, "status", n) /\ {"pos", "status"} \subseteq Kinds
  BY <1>0, AtRest, StarWorldAssumption
<1>2. pc' = "tail" /\ cost' \in Nat /\ units' = units /\ found' = found
  BY StarWorldAssumption DEF Fight, CostOf
<1>3. (target \in Cells /\ u # Nobody /\ ecs' = f) \/ ecs' = ecs
  BY DEF Fight
<1>4. ASSUME target \in Cells, u # Nobody, ecs' = f PROVE Ordered'
  <2>1. u # 0 /\ InPool(u, "status", n)
    BY <1>0, <1>4, FightsAnother
  <2>2. "dead" \in Datum("status")
    BY DEF Datum
  <2> HIDE DEF n, m, u, f, target
  <2>3. IsSet(ecs, f, n, m, "status", u, "dead")
    BY <1>1, <2>1, <2>2, SetItemInPool DEF f
  <2>4. /\ IsFactory(f, n, m) /\ f.entity = ecs.entity /\ f.store["pos"] = ecs.store["pos"]
    BY <1>1, <2>3 DEF IsSet
  <2>5. Item(f, "status", 0) = "alive"
    BY <1>1, <2>1, <2>3 DEF IsSet
  <2>6. MapUnits(f) = MapUnits(ecs)
    BY <2>4 DEF MapUnits, UnitsAt
  <2> QED BY <1>1, <1>2, <1>4, <2>4, <2>5, <2>6, SameUnits DEF n, m
<1>5. ASSUME ecs' = ecs PROVE Ordered'
  BY <1>1, <1>2, <1>5, SameUnits
<1> QED BY <1>3, <1>4, <1>5

LEMMA FinishOrdered ==
  ASSUME Ordered, FinishAction
  PROVE  Ordered'
<1> DEFINE n == Len(units)
           m == Len(ecs.entity)
<1>0. pc = "tail"
  BY DEF FinishAction
<1>1. /\ n = NumOrks + 1 /\ n \in Nat /\ n # 0 /\ m \in Nat /\ IsFactory(ecs, n, m)
      /\ Item(ecs, "status", 0) = "alive" /\ cost \in Nat
  BY <1>0, AtRest, StarWorldAssumption
<1>2. /\ pc' = "idle" /\ cost' = 0 /\ units' = units
      /\ ecs' \in ProcessAI(ecs, cost) /\ found' \in MapUnits(ecs')
  BY DEF FinishAction, UpdateMapUnits
<1> HIDE DEF n, m
<1>3. /\ IsFactory(ecs', n, m) /\ ecs'.entity = ecs.entity /\ Item(ecs', "status", 0) = "alive"
  <2>1. cost \in Int
    BY <1>1
  <2> QED BY <1>1, <1>2, <2>1, PlayerKept
<1> QED BY <1>1, <1>2, <1>3, SameUnits DEF n, m

LEMMA RestOrdered ==
  ASSUME Ordered, SpawnThrows \/ EndLevel \/ UNCHANGED world
  PROVE  Ordered'
<1>1. cost' = cost /\ ecs' = ecs /\ units' = units /\ found' = found
  BY DEF SpawnThrows, EndLevel, world
<1>2. Numbered'
  BY <1>1 DEF Ordered, Numbered
<1>3. CASE SpawnThrows
  BY <1>1, <1>2, <1>3 DEF Ordered, SpawnThrows, Staged, PlayerLives, UnitsMapped
<1>4. CASE EndLevel
  <2>1. pc = "orks" /\ Len(units) = NumOrks + 1 /\ pc' \in {"idle", "tail"} /\ Len(units) > 1
    BY StarWorldAssumption, <1>4 DEF EndLevel
  <2>2. Staged'
    BY <1>1, <2>1 DEF Ordered, Staged
  <2>3. PlayerLives'
    BY <1>1, <2>1 DEF Ordered, PlayerLives
  <2>4. UnitsMapped'
    BY <1>1, <2>1 DEF Ordered, UnitsMapped
  <2> QED BY <1>2, <2>2, <2>3, <2>4 DEF Ordered
<1>5. CASE UNCHANGED world
  BY <1>1, <1>2, <1>5 DEF Ordered, world, Staged, PlayerLives, UnitsMapped
<1> QED BY <1>3, <1>4, <1>5

LEMMA StepOrdered == Ordered /\ [Next]_vars => Ordered'
<1> SUFFICES ASSUME Ordered, [Next]_vars PROVE Ordered'
  OBVIOUS
<1>1. CASE BeginLevel
  BY <1>1, BeginOrdered
<1>2. CASE SpawnOrk
  BY <1>2, SpawnOrdered
<1>3. CASE SpawnThrows \/ EndLevel
  BY <1>3, RestOrdered
<1>4. ASSUME NEW side \in Sides, Walk(side) PROVE Ordered'
  BY <1>4, WalkOrdered
<1>5. ASSUME NEW side \in Sides, Fight(side) PROVE Ordered'
  BY <1>5, FightOrdered
<1>6. CASE FinishAction
  BY <1>6, FinishOrdered
<1>7. CASE Update \/ UNCHANGED vars
  <2>1. UNCHANGED world
    BY <1>7 DEF Update, vars, world
  <2> QED BY <2>1, RestOrdered
<1> QED BY <1>1, <1>2, <1>3, <1>4, <1>5, <1>6, <1>7 DEF Next, Act

(* The invariant holds, by induction on the steps.                         *)
THEOREM AlwaysOrdered == Spec => []Ordered
<1> QED BY StartOrdered, StepOrdered, PTL DEF Spec

LEMMA OrderedIsSorted == Ordered => PoolsSorted
<1> SUFFICES ASSUME Ordered, NEW k \in Kinds PROVE Sorted(ecs.store[k].ids)
  BY DEF PoolsSorted, Sorted
<1> DEFINE n == Len(units)
           lo == Lo(k)
           hi == Hi(k, n)
<1>1. n \in Nat /\ IsFactory(ecs, n, Len(ecs.entity))
  BY Numbers DEF Ordered
<1> HIDE DEF n
<1>2. lo \in Nat /\ hi \in Nat /\ lo <= hi /\ ecs.store[k].ids = Span(lo, hi)
  BY <1>1, Bounds DEF IsFactory, Pools, IsStore
<1> HIDE DEF lo, hi
<1>3. DOMAIN Span(lo, hi) = 1 .. hi - lo /\ \A i \in 1 .. hi - lo : Span(lo, hi)[i] = lo + i - 1
  BY <1>2, SpanFacts
<1>4. \A i, j \in 1 .. hi - lo : i < j => lo + i - 1 < lo + j - 1
  BY <1>2
<1> QED BY <1>2, <1>3, <1>4 DEF Sorted

(* Every pool of every level is sorted by identifier: the binary searches  *)
(* of NewComponent, Item and OnEntityDelete find what is there.            *)
THEOREM PoolsStaySorted == Spec => []PoolsSorted
<1> QED BY AlwaysOrdered, OrderedIsSorted, PTL

LEMMA OrderedOwnsEntities == Ordered => LevelOwnsEntities
<1> SUFFICES ASSUME Ordered, pc \in {"idle", "tail"}
             PROVE  /\ {id \in 0 .. Len(ecs.entity) : Valid(ecs, id)} = ToSet(units)
                    /\ \A k \in Kinds :
                          ToSet(ecs.store[k].ids) = CASE k = "ai" -> ToSet(Tail(units))
                                                       [] k = "userInput" -> {Player}
                                                       [] OTHER -> ToSet(units)
  BY DEF LevelOwnsEntities
<1> DEFINE n == Len(units)
<1>1. /\ n \in Nat /\ n = NumOrks + 1 /\ n # 0 /\ units = Span(0, n)
      /\ Len(ecs.entity) = n /\ IsFactory(ecs, n, n) /\ Player = 0
  BY AtRest, StarWorldAssumption DEF Ordered, Numbered
<1> HIDE DEF n
<1>2. n \in Nat /\ 0 \in Nat /\ 0 <= n /\ 1 \in Nat /\ 1 <= n
  BY <1>1
<1>3. ToSet(units) = 0 .. n - 1
  BY <1>1, <1>2, SpanSet
<1>4. ToSet(Tail(units)) = 1 .. n - 1
  <2>0. Span(0, n) \in Seq(Nat) /\ Len(Span(0, n)) = n - 0 /\ \A i \in 1 .. n - 0 : Span(0, n)[i] = 0 + i - 1
    BY <1>2, SpanFacts
  <2>1. units \in Seq(Nat) /\ Len(units) = n /\ \A i \in 1 .. n : units[i] = i - 1
    BY <1>1, <2>0
  <2>2. units # <<>>
    BY <1>1, <2>1, EmptySeq
  <2>3. /\ Tail(units) \in Seq(Nat) /\ Len(Tail(units)) = n - 1
        /\ \A i \in 1 .. n - 1 : Tail(units)[i] = units[i + 1]
    BY <1>1, <2>1, <2>2, HeadTailProperties
  <2>4. \A i \in 1 .. n - 1 : Tail(units)[i] = i
    <3> TAKE i \in 1 .. n - 1
    <3>1. i + 1 \in 1 .. n /\ (i + 1) - 1 = i
      BY <1>1
    <3> QED BY <2>1, <2>3, <3>1
  <2>5. DOMAIN Tail(units) = 1 .. n - 1
    BY <1>1, <2>3
  <2> QED BY <2>4, <2>5 DEF ToSet
<1>5. ASSUME NEW k \in Kinds PROVE ToSet(ecs.store[k].ids) = Lo(k) .. Hi(k, n) - 1
  <2>1. ecs.store[k].ids = Span(Lo(k), Hi(k, n))
    BY <1>1 DEF IsFactory, Pools, IsStore
  <2> QED BY <1>1, <2>1, Bounds, SpanSet
<1>6. ASSUME NEW k \in Kinds
      PROVE  ToSet(ecs.store[k].ids) = CASE k = "ai" -> ToSet(Tail(units))
                                          [] k = "userInput" -> {Player}
                                          [] OTHER -> ToSet(units)
  <2>1. CASE k = "ai"
    <3>1. Lo(k) = 1 /\ Hi(k, n) = n
      BY <1>1, <2>1 DEF Lo, Hi
    <3> QED BY <1>4, <1>5, <2>1, <3>1
  <2>2. CASE k = "userInput"
    <3>1. Lo(k) = 0 /\ Hi(k, n) = 1
      BY <1>1, <2>2 DEF Lo, Hi
    <3>2. 0 .. 1 - 1 = {0}
      OBVIOUS
    <3> QED BY <1>1, <1>5, <2>2, <3>1, <3>2
  <2>3. CASE k # "ai" /\ k # "userInput"
    <3>1. Lo(k) = 0 /\ Hi(k, n) = n
      BY <2>3 DEF Lo, Hi
    <3> QED BY <1>3, <1>5, <2>3, <3>1
  <2> QED BY <2>1, <2>2, <2>3
<1>7. {id \in 0 .. Len(ecs.entity) : Valid(ecs, id)} = ToSet(units)
  <2>1. \A i \in 1 .. n : ecs.entity[i] = TRUE
    <3>1. \A i \in 1 .. n : i <= n
      BY <1>1
    <3> QED BY <1>1, <3>1 DEF IsFactory, IsUsed
  <2>2. ASSUME NEW id \in 0 .. n PROVE Valid(ecs, id) <=> id \in 0 .. n - 1
    <3>1. CASE id = n
      BY <1>1, <3>1 DEF Valid
    <3>2. CASE id # n
      <4>1. id < n /\ id + 1 \in 1 .. n /\ id \in 0 .. n - 1
        BY <1>1, <3>2
      <4>2. ecs.entity[id + 1]
        BY <2>1, <4>1
      <4> QED BY <1>1, <4>1, <4>2 DEF Valid
    <3> QED BY <3>1, <3>2
  <2>3. 0 .. n - 1 \subseteq 0 .. n
    BY <1>1
  <2> QED BY <1>1, <1>3, <2>2, <2>3
<1> QED BY <1>6, <1>7

(* At rest the entities in use and the components in the pools are those   *)
(* of the level's units: none is missing and none is left of another.      *)
THEOREM LevelsOwnTheirEntities == Spec => []LevelOwnsEntities
<1> QED BY AlwaysOrdered, OrderedOwnsEntities, PTL

-----------------------------------------------------------------------------
(* A fallen ork is moved by no action: the walk of the orks leaves it out, *)
(* the player is not it, and only the player steps or strikes.             *)
FallenStay ==
  \A u \in ToSet(units) :
     (pc # "level" /\ pc' # "orks" /\ Item(ecs, "status", u) = "dead")
        => /\ Item(ecs', "status", u) = "dead"
           /\ Item(ecs', "pos", u) = Item(ecs, "pos", u)

LEMMA StepLeavesFallen == Ordered /\ [Next]_vars => FallenStay
<1> SUFFICES ASSUME Ordered, [Next]_vars, NEW u \in ToSet(units),
                    pc # "level", pc' # "orks", Item(ecs, "status", u) = "dead"
             PROVE  Item(ecs', "status", u) = "dead" /\ Item(ecs', "pos", u) = Item(ecs, "pos", u)
  BY DEF FallenStay
<1> DEFINE n == Len(units)
           m == Len(ecs.entity)
<1>1. n \in Nat /\ m \in Nat /\ IsFactory(ecs, n, m) /\ units = Span(0, n)
  BY Numbers DEF Ordered
<1> HIDE DEF n, m
<1>2. u \in Nat /\ u < n
  <2>1. 0 \in Nat /\ 0 <= n
    BY <1>1
  <2>2. ToSet(units) = 0 .. n - 1
    BY <1>1, <2>1, SpanSet
  <2> QED BY <1>1, <2>2
<1>3. InPool(u, "pos", n) /\ InPool(u, "status", n) /\ {"pos", "status"} \subseteq Kinds
  BY <1>2 DEF InPool, Lo, Hi, Kinds
<1>4. ASSUME NEW f, IsFactory(f, n, m), Item(f, "status", u) = "dead",
             NEW time \in Int, ecs' \in ProcessAI(f, time)
      PROVE  Item(ecs', "status", u) = "dead" /\ Item(ecs', "pos", u) = Item(f, "pos", u)
  BY <1>1, <1>2, <1>3, <1>4, ProcessAIKeeps
<1>5. ASSUME NEW side \in Sides, Walk(side)
      PROVE  Item(ecs', "status", u) = "dead" /\ Item(ecs', "pos", u) = Item(ecs, "pos", u)
  <2> DEFINE c == Go(Item(ecs, "pos", Player), side)
             f == SetItem(ecs, "pos", Player, c)
  <2>1. pc = "idle" /\ c \in Cells
    BY <1>5 DEF Walk, CanWalk, CanStand
  <2>2. Item(ecs, "status", 0) = "alive" /\ Player = 0 /\ InPool(0, "pos", n)
    BY <2>1, AtRest DEF n
  <2>3. u # 0
    BY <2>2
  <2>4. c \in Datum("pos")
    BY <2>1 DEF Datum
  <2>5. ecs' = f \/ ecs' \in ProcessAI(f, 0)
    BY <1>5 DEF Walk
  <2> HIDE DEF c, f
  <2>6. IsSet(ecs, f, n, m, "pos", 0, c)
    BY <1>1, <1>3, <2>2, <2>4, SetItemInPool DEF f
  <2>7. /\ IsFactory(f, n, m) /\ Item(f, "status", u) = "dead"
        /\ Item(f, "pos", u) = Item(ecs, "pos", u)
    BY <1>2, <1>3, <2>3, <2>6 DEF IsSet
  <2>8. 0 \in Int
    OBVIOUS
  <2> QED BY <1>4, <2>5, <2>7, <2>8
<1>6. ASSUME NEW side \in Sides, Fight(side)
      PROVE  Item(ecs', "status", u) = "dead" /\ Item(ecs', "pos", u) = Item(ecs, "pos", u)
  <2> DEFINE target == Go(Item(ecs, "pos", Player), side)
             w == found[target]
             f == SetItem(ecs, "status", w, "dead")
  <2>1. pc = "idle" /\ ((target \in Cells /\ w # Nobody /\ ecs' = f) \/ ecs' = ecs)
    BY <1>6 DEF Fight
  <2>2. ASSUME target \in Cells, w # Nobody, ecs' = f
        PROVE  Item(ecs', "status", u) = "dead" /\ Item(ecs', "pos", u) = Item(ecs, "pos", u)
    <3>1. InPool(w, "status", n)
      BY <2>1, <2>2, FightsAnother DEF n
    <3>2. "dead" \in Datum("status")
      BY DEF Datum
    <3> HIDE DEF w, f, target
    <3>3. IsSet(ecs, f, n, m, "status", w, "dead")
      BY <1>1, <1>3, <3>1, <3>2, SetItemInPool DEF f
    <3>4. Item(f, "pos", u) = Item(ecs, "pos", u)
      BY <1>2, <1>3, <3>3 DEF IsSet
    <3>5. Item(f, "status", u) = "dead"
      <4>1. CASE u = w
        BY <3>3, <4>1 DEF IsSet
      <4>2. CASE u # w
        <5>1. Item(f, "status", u) = Item(ecs, "status", u)
          BY <1>2, <1>3, <3>3, <4>2 DEF IsSet
        <5> QED BY <5>1
      <4> QED BY <4>1, <4>2
    <3> QED BY <2>2, <3>4, <3>5
  <2> QED BY <2>1, <2>2
<1>7. CASE FinishAction
  <2>1. cost \in Int /\ ecs' \in ProcessAI(ecs, cost)
    BY <1>7 DEF FinishAction, Ordered, Staged
  <2> QED BY <1>1, <1>4, <2>1
<1>8. CASE BeginLevel \/ SpawnOrk
  <2>1. (BeginLevel => pc = "level") /\ (SpawnOrk => pc = "orks" /\ pc' = pc)
    BY DEF BeginLevel, SpawnOrk
  <2> QED BY <1>8, <2>1
<1>9. CASE SpawnThrows \/ EndLevel \/ Update \/ UNCHANGED vars
  <2>1. ecs' = ecs
    BY <1>9 DEF SpawnThrows, EndLevel, Update, world, vars
  <2> QED BY <2>1
<1> QED BY <1>5, <1>6, <1>7, <1>8, <1>9 DEF Next, Act

(* An ork that has fallen stays dead and lies where it fell until the      *)
(* level ends.                                                             *)
THEOREM TheFallenLieStill == Spec => FallenLieStill
<1>1. Ordered /\ [Next]_vars => [FallenStay]_vars
  BY StepLeavesFallen
<1>2. Spec => [][FallenStay]_vars
  BY <1>1, AlwaysOrdered, PTL DEF Spec
<1> QED BY <1>2 DEF FallenLieStill, FallenStay

-----------------------------------------------------------------------------
(* What the view will draw of one type of messages when it has read its    *)
(* mail: the last of them, or what it draws already.                       *)
WillDraw(m, type, old, x) ==
  \/ /\ old = x
     /\ \A j \in 1 .. Len(m) : m[j].type # type
  \/ \E i \in 1 .. Len(m) : /\ m[i] = x /\ m[i].type = type
                            /\ \A j \in 1 .. Len(m) : j > i => m[j].type # type

LEMMA Sent ==
  ASSUME NEW S, NEW m \in Seq(S), NEW v \in S
  PROVE  /\ \A old : WillDraw(Append(m, v), v.type, old, v)
         /\ \A type, old, x : type # v.type /\ WillDraw(m, type, old, x)
                               => WillDraw(Append(m, v), type, old, x)
<1> DEFINE w == Append(m, v)
           n == Len(m)
<1>1. IsAppend(w, m, v, S)
  BY Appended
<1> HIDE DEF w
<1>2. /\ n \in Nat /\ Len(w) = n + 1 /\ w[n + 1] = v /\ \A i \in 1 .. n : w[i] = m[i]
  BY <1>1 DEF IsAppend
<1>3. ASSUME NEW old PROVE WillDraw(w, v.type, old, v)
  <2>1. n + 1 \in 1 .. Len(w) /\ \A j \in 1 .. Len(w) : ~(j > n + 1)
    BY <1>2
  <2> QED BY <1>2, <2>1 DEF WillDraw
<1>4. ASSUME NEW type, NEW old, NEW x, type # v.type, WillDraw(m, type, old, x)
      PROVE  WillDraw(w, type, old, x)
  <2>0. \A j \in 1 .. Len(w) : j = n + 1 \/ j \in 1 .. n
    BY <1>2
  <2> HIDE DEF n
  <2>1. ASSUME old = x, \A j \in 1 .. n : m[j].type # type PROVE WillDraw(w, type, old, x)
    <3>1. \A j \in 1 .. Len(w) : w[j].type # type
      BY <1>2, <1>4, <2>0, <2>1
    <3> QED BY <2>1, <3>1 DEF WillDraw
  <2>2. ASSUME NEW i \in 1 .. n, m[i] = x, m[i].type = type,
               \A j \in 1 .. n : j > i => m[j].type # type
        PROVE  WillDraw(w, type, old, x)
    <3>1. w[i] = x /\ w[i].type = type /\ i \in 1 .. Len(w)
      BY <1>2, <2>2
    <3>2. \A j \in 1 .. Len(w) : j > i => w[j].type # type
      BY <1>2, <1>4, <2>0, <2>2
    <3> QED BY <3>1, <3>2 DEF WillDraw
  <2> QED BY <1>4, <2>1, <2>2 DEF WillDraw, n
<1> QED BY <1>3, <1>4 DEF w

LEMMA ReadOne ==
  ASSUME NEW S, NEW m \in Seq(S), m # <<>>, NEW type, NEW old, NEW x, WillDraw(m, type, old, x)
  PROVE  WillDraw(Tail(m), type, IF Head(m).type = type THEN Head(m) ELSE old, x)
<1> DEFINE w == Tail(m)
           n == Len(m)
           new == IF Head(m).type = type THEN Head(m) ELSE old
<1>1. /\ n \in Nat /\ n # 0 /\ Len(w) = n - 1 /\ Head(m) = m[1]
      /\ \A j \in 1 .. n - 1 : w[j] = m[j + 1]
  <2>1. n # 0
    BY EmptySeq
  <2> QED BY <2>1, HeadTailProperties
<1>0. new = IF m[1].type = type THEN m[1] ELSE old
  BY <1>1
<1> HIDE DEF w, new
<1>2. \A j \in 1 .. Len(w) : j + 1 \in 1 .. n /\ j + 1 > 1 /\ w[j] = m[j + 1]
  BY <1>1
<1>3. ASSUME old = x, \A j \in 1 .. n : m[j].type # type PROVE WillDraw(w, type, new, x)
  <2>1. 1 \in 1 .. n
    BY <1>1
  <2>2. new = x
    BY <1>0, <1>3, <2>1
  <2>3. \A j \in 1 .. Len(w) : w[j].type # type
    BY <1>2, <1>3
  <2> QED BY <2>2, <2>3 DEF WillDraw
<1>4. ASSUME NEW i \in 1 .. n, m[i] = x, m[i].type = type,
             \A j \in 1 .. n : j > i => m[j].type # type
      PROVE  WillDraw(w, type, new, x)
  <2>1. CASE i = 1
    <3>1. new = x
      BY <1>0, <1>4, <2>1
    <3>2. \A j \in 1 .. Len(w) : w[j].type # type
      BY <1>2, <1>4, <2>1
    <3> QED BY <3>1, <3>2 DEF WillDraw
  <2>2. CASE i # 1
    <3>1. i - 1 \in 1 .. Len(w) /\ (i - 1) + 1 = i
      BY <1>1, <2>2
    <3>2. w[i - 1] = m[i]
      BY <1>2, <3>1
    <3>3. \A j \in 1 .. Len(w) : j > i - 1 => j + 1 > i
      BY <1>1
    <3>4. \A j \in 1 .. Len(w) : j > i - 1 => w[j].type # type
      BY <1>2, <1>4, <3>3
    <3> QED BY <1>4, <3>1, <3>2, <3>4 DEF WillDraw
  <2> QED BY <2>1, <2>2
<1>5. WillDraw(w, type, new, x)
  BY <1>3, <1>4 DEF WillDraw
<1> QED BY <1>5 DEF w, new

LEMMA TwoSent ==
  ASSUME NEW S, NEW m \in Seq(S), NEW a \in S, NEW b \in S
  PROVE  m \o <<a, b>> = Append(Append(m, a), b)
<1> DEFINE n == Len(m)
           left == m \o <<a, b>>
           one == Append(m, a)
           right == Append(one, b)
           two == <<a, b>>
<1>1. two \in Seq(S) /\ Len(two) = 2 /\ two[1] = a /\ two[2] = b
  OBVIOUS
<1> HIDE DEF two
<1>2. IsJoin(left, m, two, S)
  BY <1>1, Joined DEF two
<1>3. IsAppend(one, m, a, S)
  BY Appended
<1>4. one \in Seq(S)
  BY <1>3 DEF IsAppend
<1>5. IsAppend(right, one, b, S)
  BY <1>4, Appended
<1> HIDE DEF left, one, right
<1>6. /\ left \in Seq(S) /\ Len(left) = n + 2
      /\ \A i \in 1 .. n : left[i] = m[i]
      /\ left[n + 1] = a /\ left[n + 2] = b
  BY <1>1, <1>2 DEF IsJoin
<1>7. /\ right \in Seq(S) /\ Len(right) = n + 2
      /\ \A i \in 1 .. n : right[i] = m[i]
      /\ right[n + 1] = a /\ right[n + 2] = b
  <2>1. n \in Nat /\ Len(one) = n + 1 /\ one[n + 1] = a /\ \A i \in 1 .. n : one[i] = m[i]
    BY <1>3 DEF IsAppend
  <2>2. /\ right \in Seq(S) /\ Len(right) = Len(one) + 1 /\ right[Len(one) + 1] = b
        /\ \A i \in 1 .. Len(one) : right[i] = one[i]
    BY <1>5 DEF IsAppend
  <2> QED BY <2>1, <2>2
<1>8. \A i \in 1 .. n + 2 : left[i] = right[i]
  <2> TAKE i \in 1 .. n + 2
  <2>1. i = n + 2 \/ i = n + 1 \/ i \in 1 .. n
    OBVIOUS
  <2> QED BY <1>6, <1>7, <2>1
<1>9. left = right
  BY <1>6, <1>7, <1>8, SeqEqual
<1> QED BY <1>9 DEF left, right, one, two

(* The mail that is on its way to the view brings it up to date: with the  *)
(* ground whenever no level is being made, with the units at rest.         *)
MapMsg == BuildTileMap(ecs, layout, Player)
UnitMsg == BuildUnits(ecs, units)
ViewCatchesUp ==
  /\ \E S : mail \in Seq(S)
  /\ shown = [map |-> shown.map, unit |-> shown.unit]
  /\ \A i \in 1 .. Len(mail) : mail[i].type \in {"map", "unit"}
  /\ pc \in {"idle", "tail"} => WillDraw(mail, "map", shown.map, MapMsg)
  /\ pc = "idle" => WillDraw(mail, "unit", shown.unit, UnitMsg)

LEMMA StartView == Init => ViewCatchesUp
<1> SUFFICES ASSUME Init PROVE ViewCatchesUp
  OBVIOUS
<1>1. pc = "level" /\ mail = <<>> /\ shown = [map |-> <<>>, unit |-> <<>>]
  BY DEF Init
<1>2. <<>> \in Seq({}) /\ Len(<<>>) = 0
  BY EmptySeq
<1>3. mail \in Seq({}) /\ Len(mail) = 0
  BY <1>1, <1>2
<1>4. \E S : mail \in Seq(S)
  BY <1>3
<1> QED BY <1>1, <1>3, <1>4 DEF ViewCatchesUp

LEMMA MessageTypes ==
  ASSUME NEW f, NEW ground, NEW pl, NEW us
  PROVE  BuildTileMap(f, ground, pl).type = "map" /\ BuildUnits(f, us).type = "unit"
BY DEF BuildTileMap, BuildUnits

(* A message more.                                                         *)
IsMail(m) == (\E S : m \in Seq(S)) /\ \A i \in 1 .. Len(m) : m[i].type \in {"map", "unit"}

IsSent(w, m, v) ==
  /\ IsMail(w)
  /\ \A old : WillDraw(w, v.type, old, v)
  /\ \A type, old, x : type # v.type /\ WillDraw(m, type, old, x) => WillDraw(w, type, old, x)

LEMMA SentIsMail ==
  ASSUME NEW m, IsMail(m), NEW v, v.type \in {"map", "unit"}
  PROVE  IsSent(Append(m, v), m, v)
<1>1. PICK S : m \in Seq(S)
  BY DEF IsMail
<1> DEFINE T == S \cup {v}
<1>2. m \in Seq(T) /\ v \in T
  BY <1>1
<1> HIDE DEF T
<1>3. IsAppend(Append(m, v), m, v, T)
  BY <1>2, Appended
<1> DEFINE w == Append(m, v)
<1>4. w \in Seq(T) /\ \A i \in 1 .. Len(w) : w[i].type \in {"map", "unit"}
  <2> HIDE DEF w
  <2>0. IsAppend(w, m, v, T)
    BY <1>3 DEF w
  <2>1. /\ w \in Seq(T) /\ Len(w) = Len(m) + 1 /\ w[Len(m) + 1] = v
        /\ \A i \in 1 .. Len(m) : w[i] = m[i]
    BY <2>0 DEF IsAppend
  <2>2. \A i \in 1 .. Len(m) : m[i].type \in {"map", "unit"}
    BY DEF IsMail
  <2>3. Len(m) \in Nat
    BY <1>2
  <2>4. \A i \in 1 .. Len(w) : i = Len(m) + 1 \/ i \in 1 .. Len(m)
    BY <2>1, <2>3
  <2> QED BY <2>1, <2>2, <2>4
<1>5. IsMail(w)
  <2> HIDE DEF w
  <2> QED BY <1>4 DEF IsMail
<1>6. /\ \A old : WillDraw(Append(m, v), v.type, old, v)
      /\ \A type, old, x : type # v.type /\ WillDraw(m, type, old, x)
                            => WillDraw(Append(m, v), type, old, x)
  BY <1>2, Sent
<1> QED BY <1>5, <1>6 DEF IsSent

LEMMA BothSent ==
  ASSUME NEW m, IsMail(m), NEW a, a.type = "map", NEW b, b.type = "unit"
  PROVE  /\ IsMail(m \o <<a, b>>)
         /\ \A old : WillDraw(m \o <<a, b>>, "map", old, a)
         /\ \A old : WillDraw(m \o <<a, b>>, "unit", old, b)
<1>1. PICK S : m \in Seq(S)
  BY DEF IsMail
<1> DEFINE T == S \cup {a, b}
<1>2. m \in Seq(T) /\ a \in T /\ b \in T
  BY <1>1
<1> HIDE DEF T
<1>3. m \o <<a, b>> = Append(Append(m, a), b)
  BY <1>2, TwoSent
<1> DEFINE one == Append(m, a)
<1>4. IsMail(one) /\ \A old : WillDraw(one, "map", old, a)
  <2>1. a.type \in {"map", "unit"}
    OBVIOUS
  <2>2. IsSent(one, m, a)
    BY <2>1, SentIsMail
  <2> HIDE DEF one
  <2> QED BY <2>2 DEF IsSent
<1> HIDE DEF one
<1>5. /\ IsMail(Append(one, b))
      /\ \A old : WillDraw(Append(one, b), "unit", old, b)
      /\ \A type, old, x : type # "unit" /\ WillDraw(one, type, old, x)
                            => WillDraw(Append(one, b), type, old, x)
  <2>1. b.type \in {"map", "unit"}
    OBVIOUS
  <2>2. IsSent(Append(one, b), one, b)
    BY <1>4, <2>1, SentIsMail
  <2> QED BY <2>2 DEF IsSent
<1>6. \A old : WillDraw(Append(one, b), "map", old, a)
  BY <1>4, <1>5
<1> QED BY <1>3, <1>5, <1>6 DEF one

LEMMA ViewMail == ViewCatchesUp => IsMail(mail)
BY DEF ViewCatchesUp, IsMail

LEMMA UpdateView ==
  ASSUME ViewCatchesUp, Update
  PROVE  ViewCatchesUp'
<1> DEFINE h == Head(mail)
           s == Tail(mail)
<1>1. /\ mail # <<>> /\ mail' = s
      /\ shown' = IF h.type = "map" THEN [shown EXCEPT !.map = h] ELSE [shown EXCEPT !.unit = h]
      /\ pc' = pc /\ layout' = layout /\ ecs' = ecs /\ units' = units
  BY DEF Update, world
<1>2. PICK S : mail \in Seq(S)
  BY DEF ViewCatchesUp
<1>3. /\ h = mail[1] /\ 1 \in 1 .. Len(mail) /\ s \in Seq(S) /\ Len(s) = Len(mail) - 1
      /\ \A i \in 1 .. Len(mail) - 1 : s[i] = mail[i + 1]
  <2>1. Len(mail) # 0
    BY <1>1, <1>2, EmptySeq
  <2> QED BY <1>1, <1>2, <2>1, HeadTailProperties
<1>4. /\ shown = [map |-> shown.map, unit |-> shown.unit]
      /\ \A i \in 1 .. Len(mail) : mail[i].type \in {"map", "unit"}
  BY DEF ViewCatchesUp
<1>5. h.type \in {"map", "unit"}
  BY <1>3, <1>4
<1>9. \A type, old, x : WillDraw(mail, type, old, x) => WillDraw(s, type, IF h.type = type THEN h ELSE old, x)
  BY <1>1, <1>2, ReadOne
<1> HIDE DEF h, s
<1>6. /\ shown' = [map |-> shown'.map, unit |-> shown'.unit]
      /\ shown'.map = IF h.type = "map" THEN h ELSE shown.map
      /\ shown'.unit = IF h.type = "unit" THEN h ELSE shown.unit
  BY <1>1, <1>4, <1>5
<1>7. \A i \in 1 .. Len(s) : s[i].type \in {"map", "unit"}
  <2> TAKE i \in 1 .. Len(s)
  <2>1. Len(mail) \in Nat
    BY <1>2
  <2>2. i \in 1 .. Len(mail) - 1 /\ i + 1 \in 1 .. Len(mail)
    BY <1>3, <2>1
  <2> QED BY <1>3, <1>4, <2>2
<1>8. MapMsg' = MapMsg /\ UnitMsg' = UnitMsg
  BY <1>1 DEF MapMsg, UnitMsg, Player
<1>10. pc' \in {"idle", "tail"} => WillDraw(mail', "map", shown'.map, MapMsg')
  <2> HAVE pc' \in {"idle", "tail"}
  <2>1. WillDraw(mail, "map", shown.map, MapMsg)
    BY <1>1 DEF ViewCatchesUp
  <2> QED BY <1>1, <1>6, <1>8, <1>9, <2>1
<1>11. pc' = "idle" => WillDraw(mail', "unit", shown'.unit, UnitMsg')
  <2> HAVE pc' = "idle"
  <2>1. WillDraw(mail, "unit", shown.unit, UnitMsg)
    BY <1>1 DEF ViewCatchesUp
  <2> QED BY <1>1, <1>6, <1>8, <1>9, <2>1
<1>12. \E R : mail' \in Seq(R)
  BY <1>1, <1>3
<1> QED BY <1>1, <1>6, <1>7, <1>10, <1>11, <1>12 DEF ViewCatchesUp

LEMMA StepView == Ordered /\ ViewCatchesUp /\ [Next]_vars => ViewCatchesUp'
<1> SUFFICES ASSUME Ordered, ViewCatchesUp, [Next]_vars PROVE ViewCatchesUp'
  OBVIOUS
<1>1. IsMail(mail)
  BY ViewMail
<1> DEFINE n == Len(units)
           m == Len(ecs.entity)
<1>2. ASSUME BeginLevel \/ SpawnOrk \/ SpawnThrows PROVE ViewCatchesUp'
  <2>1. mail' = mail /\ shown' = shown /\ pc' \in {"orks", "thrown"}
    BY <1>2 DEF BeginLevel, SpawnOrk, SpawnThrows, outside
  <2> QED BY <2>1 DEF ViewCatchesUp
<1>3. ASSUME EndLevel PROVE ViewCatchesUp'
  <2>1. /\ mail' = mail \o <<MapMsg, UnitMsg>> /\ shown' = shown
        /\ ecs' = ecs /\ layout' = layout /\ units' = units
    BY <1>3 DEF EndLevel, MapMsg, UnitMsg
  <2>2. MapMsg' = MapMsg /\ UnitMsg' = UnitMsg
    BY <2>1 DEF MapMsg, UnitMsg, Player
  <2>3. MapMsg.type = "map" /\ UnitMsg.type = "unit"
    BY MessageTypes DEF MapMsg, UnitMsg
  <2>4. /\ IsMail(mail') /\ WillDraw(mail', "map", shown.map, MapMsg)
        /\ WillDraw(mail', "unit", shown.unit, UnitMsg)
    BY <1>1, <2>1, <2>3, BothSent
  <2> QED BY <2>1, <2>2, <2>4 DEF ViewCatchesUp, IsMail
<1>4. ASSUME NEW side \in Sides, Walk(side) PROVE ViewCatchesUp'
  <2>1. shown' = shown /\ layout' = layout /\ units' = units
    BY <1>4 DEF Walk
  <2>2. CASE pc' = "level" /\ mail' = mail
    BY <2>1, <2>2 DEF ViewCatchesUp
  <2>3. CASE mail' = mail \o <<BuildTileMap(ecs', layout, Player), BuildUnits(ecs', units)>>
    <3>1. MapMsg' = BuildTileMap(ecs', layout, Player) /\ UnitMsg' = BuildUnits(ecs', units)
      BY <2>1 DEF MapMsg, UnitMsg, Player
    <3> DEFINE a == BuildTileMap(ecs', layout, Player)
               b == BuildUnits(ecs', units)
    <3>2. a.type = "map" /\ b.type = "unit"
      BY MessageTypes
    <3> HIDE DEF a, b
    <3>3. IsMail(mail') /\ WillDraw(mail', "map", shown.map, a) /\ WillDraw(mail', "unit", shown.unit, b)
      BY <1>1, <2>3, <3>2, BothSent DEF a, b
    <3>4. WillDraw(mail', "map", shown'.map, MapMsg') /\ WillDraw(mail', "unit", shown'.unit, UnitMsg')
      BY <2>1, <3>1, <3>3 DEF a, b
    <3> QED BY <2>1, <3>3, <3>4 DEF ViewCatchesUp, IsMail
  <2> QED BY <1>4, <2>2, <2>3 DEF Walk
<1>5. ASSUME NEW side \in Sides, Fight(side) PROVE ViewCatchesUp'
  <2> DEFINE target == Go(Item(ecs, "pos", Player), side)
             u == found[target]
             f == SetItem(ecs, "status", u, "dead")
  <2>1. /\ pc = "idle" /\ pc' = "tail" /\ mail' = mail /\ shown' = shown
        /\ layout' = layout /\ units' = units
        /\ (target \in Cells /\ u # Nobody /\ ecs' = f) \/ ecs' = ecs
    BY <1>5 DEF Fight
  <2>2. /\ n \in Nat /\ m \in Nat /\ IsFactory(ecs, n, m) /\ Player = 0
        /\ InPool(0, "pos", n) /\ {"pos", "status"} \subseteq Kinds
    BY <2>1, AtRest
  <2>3. Item(ecs', "pos", 0) = Item(ecs, "pos", 0)
    <3>1. ASSUME target \in Cells, u # Nobody, ecs' = f PROVE Item(f, "pos", 0) = Item(ecs, "pos", 0)
      <4>1. InPool(u, "status", n)
        BY <2>1, <3>1, FightsAnother
      <4>2. "dead" \in Datum("status") /\ "status" # "pos" /\ 0 \in Nat
        BY DEF Datum
      <4> HIDE DEF f, u, n, m, target
      <4>3. IsSet(ecs, f, n, m, "status", u, "dead")
        BY <2>2, <4>1, <4>2, SetItemInPool DEF f
      <4> QED BY <2>2, <4>2, <4>3 DEF IsSet
    <3> HIDE DEF f, u, n, m, target
    <3> QED BY <2>1, <3>1
  <2>4. MapMsg' = MapMsg
    <3>1. units'[1] = 0
      BY <2>1, <2>2 DEF Player
    <3> QED BY <2>1, <2>2, <2>3, <3>1 DEF MapMsg, BuildTileMap, Player
  <2> QED BY <2>1, <2>4 DEF ViewCatchesUp
<1>6. ASSUME FinishAction PROVE ViewCatchesUp'
  <2>1. /\ pc = "tail" /\ pc' = "idle" /\ shown' = shown /\ layout' = layout /\ units' = units
        /\ mail' = Append(mail, BuildUnits(ecs', units)) /\ ecs' \in ProcessAI(ecs, cost)
    BY <1>6 DEF FinishAction
  <2>2. /\ n \in Nat /\ n # 0 /\ m \in Nat /\ IsFactory(ecs, n, m) /\ Player = 0 /\ cost \in Int
    BY <2>1, AtRest, StarWorldAssumption
  <2> HIDE DEF n, m
  <2>3. Item(ecs', "pos", 0) = Item(ecs, "pos", 0)
    BY <2>1, <2>2, PlayerKept
  <2>4. MapMsg' = MapMsg
    <3>1. units'[1] = 0
      BY <2>1, <2>2 DEF Player
    <3> QED BY <2>1, <2>2, <2>3, <3>1 DEF MapMsg, BuildTileMap, Player
  <2> DEFINE b == BuildUnits(ecs', units)
  <2>5. UnitMsg' = b /\ b.type = "unit"
    BY <2>1, MessageTypes DEF UnitMsg
  <2>6. WillDraw(mail, "map", shown.map, MapMsg)
    BY <2>1 DEF ViewCatchesUp
  <2>0. mail' = Append(mail, b)
    BY <2>1
  <2> HIDE DEF b
  <2>7. /\ IsMail(Append(mail, b)) /\ WillDraw(Append(mail, b), "unit", shown.unit, b)
        /\ WillDraw(Append(mail, b), "map", shown.map, MapMsg)
    <3>1. IsSent(Append(mail, b), mail, b)
      BY <1>1, <2>5, SentIsMail
    <3> QED BY <2>5, <2>6, <3>1 DEF IsSent
  <2>8. WillDraw(mail', "map", shown'.map, MapMsg') /\ WillDraw(mail', "unit", shown'.unit, UnitMsg')
    BY <2>0, <2>1, <2>4, <2>5, <2>7
  <2> QED BY <2>0, <2>1, <2>7, <2>8 DEF ViewCatchesUp, IsMail
<1>7. ASSUME Update PROVE ViewCatchesUp'
  BY <1>7, UpdateView
<1>8. ASSUME UNCHANGED vars PROVE ViewCatchesUp'
  BY <1>8 DEF vars, ViewCatchesUp, MapMsg, UnitMsg, Player
<1> QED BY <1>2, <1>3, <1>4, <1>5, <1>6, <1>7, <1>8 DEF Next, Act

LEMMA CaughtUp == Ordered /\ ViewCatchesUp => ViewShowsWorld
<1> SUFFICES ASSUME Ordered, ViewCatchesUp, pc = "idle", mail = <<>>
             PROVE  /\ shown = [map |-> MapMsg, unit |-> UnitMsg]
                    /\ found \in MapUnits(ecs)
  BY DEF ViewShowsWorld, MapMsg, UnitMsg
<1>1. Len(mail) = 0
  BY EmptySeq
<1>2. WillDraw(mail, "map", shown.map, MapMsg) /\ WillDraw(mail, "unit", shown.unit, UnitMsg)
  BY DEF ViewCatchesUp
<1>3. shown.map = MapMsg /\ shown.unit = UnitMsg
  BY <1>1, <1>2 DEF WillDraw
<1>4. shown = [map |-> shown.map, unit |-> shown.unit]
  BY DEF ViewCatchesUp
<1>5. found \in MapUnits(ecs)
  BY AtRest
<1> QED BY <1>3, <1>4, <1>5

(* At rest, once the view has read its mail, what is drawn is the ground   *)
(* and the units as they are, and the map of units agrees with the pools.  *)
THEOREM TheViewShowsTheWorld == Spec => []ViewShowsWorld
<1>1. Spec => [](Ordered /\ ViewCatchesUp)
  <2>1. Ordered /\ ViewCatchesUp /\ [Next]_vars => ViewCatchesUp'
    BY StepView
  <2> QED BY <2>1, StartView, AlwaysOrdered, PTL DEF Spec
<1> QED BY <1>1, CaughtUp, PTL
=============================================================================
