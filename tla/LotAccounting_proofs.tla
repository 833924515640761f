------------------------- MODULE LotAccounting_proofs -------------------------
(***************************************************************************)
(* Proofs about LotAccounting, for any purchases, sales, market rows and   *)
(* factors: the open lots are what selling first in, first out leaves, the *)
(* book is the broker's after every row it answers for, and every unit and *)
(* every cost is open, sold, written off or reported as a residual.        *)
(*                                                                         *)
(* The first half is about the recursive functions of the model: that they *)
(* exist on every queue (PrefixesExist, TakesExist), and what Units does   *)
(* to an appended, scaled or shortened queue.                              *)
(***************************************************************************)
EXTENDS LotAccounting, WellFoundedInduction, TLAPS

LEMMA EveryNumber ==
  ASSUME NEW S, 0 \in S, \A n \in Nat : n \in S => n + 1 \in S
  PROVE  Nat \subseteq S
<1> SUFFICES ASSUME Nat \ S # {} PROVE FALSE  OBVIOUS
<1> DEFINE Missing == Nat \ S
<1>1. PICK m \in Missing : \A n \in Missing : ~ (<<n, m>> \in OpToRel(<, Nat))
  <2>1. Missing \subseteq Nat /\ Missing # {}  OBVIOUS
  <2> HIDE DEF Missing
  <2> QED  BY <2>1, NatLessThanWellFounded, WFMin, Zenon
<1>2. m \in Nat /\ m # 0  BY <1>1
<1>3. m - 1 \in Nat /\ m - 1 < m  BY <1>2
<1>4. m - 1 \in S
  <2>1. m - 1 \notin Missing  BY <1>1, <1>3, <1>2 DEF OpToRel
  <2> QED  BY <2>1, <1>3
<1>5. (m - 1) + 1 = m  BY <1>2
<1>6. m \in S  BY <1>3, <1>4, <1>5
<1> QED  BY <1>1, <1>6

\* The sums of the prefixes of s.
Prefixes(s) ==
  CHOOSE f : f = [k \in 0..Len(s) |-> IF k = 0 THEN 0 ELSE f[k - 1] + s[k]]
Sum(s, k) == Prefixes(s)[k]

LEMMA PrefixesExist ==
  ASSUME NEW s, Len(s) \in Nat
  PROVE  Prefixes(s) = [k \in 0..Len(s) |-> IF k = 0 THEN 0 ELSE Prefixes(s)[k - 1] + s[k]]
<1> DEFINE S == {n \in Nat : \E f : f = [k \in 0..n |-> IF k = 0 THEN 0 ELSE f[k - 1] + s[k]]}
<1>1. 0 \in S
  <2> DEFINE f == [k \in 0..0 |-> 0]
  <2>1. f = [k \in 0..0 |-> IF k = 0 THEN 0 ELSE f[k - 1] + s[k]]  OBVIOUS
  <2> QED  BY <2>1
<1>2. ASSUME NEW n \in Nat, n \in S PROVE n + 1 \in S
  <2>1. PICK f : f = [k \in 0..n |-> IF k = 0 THEN 0 ELSE f[k - 1] + s[k]]  BY <1>2
  <2> DEFINE g == [k \in 0..n + 1 |-> IF k = 0 THEN 0 ELSE IF k = n + 1 THEN f[n] + s[n + 1] ELSE f[k]]
  <2>2. \A k \in 0..n : g[k] = f[k]  BY <2>1
  <2>3. ASSUME NEW k \in 0..n + 1 PROVE g[k] = IF k = 0 THEN 0 ELSE g[k - 1] + s[k]
    <3>1. CASE k = 0  BY <3>1
    <3>2. CASE k = n + 1
      <4>1. g[k] = f[n] + s[n + 1] /\ k # 0  BY <3>2
      <4>2. g[n] = f[n]  BY <2>2
      <4> HIDE DEF g
      <4> QED  BY <4>1, <4>2, <3>2
    <3>3. CASE k \in 1..n
      <4>1. g[k] = f[k] /\ g[k - 1] = f[k - 1] /\ k # 0  BY <3>3, <2>2
      <4>2. f[k] = f[k - 1] + s[k]  BY <2>1, <3>3
      <4> HIDE DEF g
      <4> QED  BY <4>1, <4>2
    <3> QED  BY <3>1, <3>2, <3>3
  <2>4. g = [k \in 0..n + 1 |-> IF k = 0 THEN 0 ELSE g[k - 1] + s[k]]  BY <2>3
  <2> HIDE DEF g
  <2> QED  BY <2>4
<1>3. Nat \subseteq S
  <2> HIDE DEF S
  <2> QED  BY <1>1, <1>2, EveryNumber
<1>4. \E f : f = [k \in 0..Len(s) |-> IF k = 0 THEN 0 ELSE f[k - 1] + s[k]]  BY <1>3
<1> QED  BY <1>4 DEF Prefixes

LEMMA UnitsAreSum == ASSUME NEW s PROVE Units(s) = Sum(s, Len(s))
  BY DEF Units, Sum, Prefixes


LEMMA SumStep ==
  ASSUME NEW s \in Seq(Int)
  PROVE  /\ Sum(s, 0) = 0
         /\ \A k \in 1..Len(s) : Sum(s, k) = Sum(s, k - 1) + s[k]
         /\ \A k \in 0..Len(s) : Sum(s, k) \in Int
<1>0. Len(s) \in Nat /\ \A k \in 1..Len(s) : s[k] \in Int  OBVIOUS
<1>1. Sum(s, 0) = 0  BY <1>0, PrefixesExist DEF Sum
<1>2. \A k \in 1..Len(s) : Sum(s, k) = Sum(s, k - 1) + s[k]
  <2> TAKE k \in 1..Len(s)
  <2>1. k \in 0..Len(s) /\ k # 0  BY <1>0
  <2> QED  BY <1>0, <2>1, PrefixesExist DEF Sum
<1>3. \A k \in 0..Len(s) : Sum(s, k) \in Int
  <2> DEFINE S == {n \in Nat : n <= Len(s) => Sum(s, n) \in Int}
  <2>1. 0 \in S  BY <1>1
  <2>2. ASSUME NEW n \in Nat, n \in S PROVE n + 1 \in S
    <3> SUFFICES ASSUME n + 1 <= Len(s) PROVE Sum(s, n + 1) \in Int  OBVIOUS
    <3>1. n + 1 \in 1..Len(s) /\ (n + 1) - 1 = n  BY <1>0
    <3>2. Sum(s, n + 1) = Sum(s, n) + s[n + 1]  BY <3>1, <1>2
    <3> QED  BY <2>2, <3>1, <3>2, <1>0
  <2>3. Nat \subseteq S
    <3> HIDE DEF S
    <3> QED  BY <2>1, <2>2, EveryNumber
  <2> QED  BY <2>3, <1>0
<1> QED  BY <1>1, <1>2, <1>3

LEMMA SumIs ==
  ASSUME NEW s \in Seq(Int), NEW G, G[0] = 0,
         \A k \in 1..Len(s) : G[k] = G[k - 1] + s[k]
  PROVE  Units(s) = G[Len(s)]
<1> DEFINE S == {n \in Nat : n <= Len(s) => Sum(s, n) = G[n]}
<1>0. Len(s) \in Nat  OBVIOUS
<1>1. 0 \in S  BY SumStep
<1>2. ASSUME NEW n \in Nat, n \in S PROVE n + 1 \in S
  <2> SUFFICES ASSUME n + 1 <= Len(s) PROVE Sum(s, n + 1) = G[n + 1]  OBVIOUS
  <2>1. n + 1 \in 1..Len(s) /\ (n + 1) - 1 = n /\ n <= Len(s)  BY <1>0
  <2>2. Sum(s, n + 1) = Sum(s, n) + s[n + 1]  BY <2>1, SumStep
  <2>3. G[n + 1] = G[n] + s[n + 1]  BY <2>1
  <2>4. Sum(s, n) = G[n]  BY <1>2, <2>1
  <2> QED  BY <2>2, <2>3, <2>4
<1>3. Nat \subseteq S
  <2> HIDE DEF S
  <2> QED  BY <1>1, <1>2, EveryNumber
<1>4. Sum(s, Len(s)) = G[Len(s)]  BY <1>3, <1>0
<1> QED  BY <1>4, UnitsAreSum

LEMMA UnitsInt == ASSUME NEW s \in Seq(Int) PROVE Units(s) \in Int
<1>1. Len(s) \in 0..Len(s)  OBVIOUS
<1> QED  BY <1>1, SumStep, UnitsAreSum

LEMMA UnitsNone == Units(<<>>) = 0
<1>1. <<>> \in Seq(Int) /\ Len(<<>>) = 0  OBVIOUS
<1> QED  BY <1>1, SumStep, UnitsAreSum

LEMMA UnitsAppend ==
  ASSUME NEW s \in Seq(Int), NEW x \in Int
  PROVE  Units(Append(s, x)) = Units(s) + x
<1> DEFINE n == Len(s)
           t == Append(s, x)
           G == [k \in 0..n + 1 |-> IF k = n + 1 THEN Sum(s, n) + x ELSE Sum(s, k)]
<1>0. n \in Nat /\ t \in Seq(Int) /\ Len(t) = n + 1 /\ t[n + 1] = x
      /\ \A k \in 1..n : t[k] = s[k]
  OBVIOUS
<1>1. G[0] = 0 /\ G[n + 1] = Sum(s, n) + x  BY <1>0, SumStep
<1>2. \A k \in 0..n : G[k] = Sum(s, k)  BY <1>0
<1>3. \A k \in 1..n + 1 : G[k] = G[k - 1] + t[k]
  <2> TAKE k \in 1..n + 1
  <2>1. CASE k = n + 1
    <3>1. k - 1 = n /\ n \in 0..n  BY <2>1, <1>0
    <3>2. G[k - 1] = Sum(s, n)  BY <3>1, <1>2
    <3>3. G[k] = Sum(s, n) + x  BY <2>1, <1>1
    <3>4. t[k] = x  BY <2>1, <1>0
    <3> QED  BY <3>2, <3>3, <3>4
  <2>2. CASE k \in 1..n
    <3>1. k \in 0..n /\ k - 1 \in 0..n  BY <2>2, <1>0
    <3>2. G[k - 1] = Sum(s, k - 1) /\ G[k] = Sum(s, k)  BY <3>1, <1>2
    <3>3. Sum(s, k) = Sum(s, k - 1) + s[k]  BY <2>2, SumStep
    <3> QED  BY <3>2, <3>3, <2>2, <1>0
  <2> QED  BY <2>1, <2>2, <1>0
<1> HIDE DEF G, t
<1>4. Units(t) = G[n + 1]  BY <1>0, <1>1, <1>3, SumIs
<1> QED  BY <1>4, <1>1, UnitsAreSum DEF t

LEMMA UnitsPlus ==
  ASSUME NEW s \in Seq(Int), NEW t \in Seq(Int), NEW u \in Seq(Int),
         Len(t) = Len(s), Len(u) = Len(s),
         \A i \in 1..Len(s) : u[i] = s[i] + t[i]
  PROVE  Units(u) = Units(s) + Units(t)
<1> DEFINE n == Len(s)
           G == [k \in 0..n |-> Sum(s, k) + Sum(t, k)]
<1>0. n \in Nat /\ \A k \in 1..n : s[k] \in Int /\ t[k] \in Int  OBVIOUS
<1>1. G[0] = 0  BY <1>0, SumStep
<1>2. ASSUME NEW k \in 1..Len(u) PROVE G[k] = G[k - 1] + u[k]
  <2>1. k \in 0..n /\ k - 1 \in 0..n /\ k \in 1..n  BY <1>0
  <2>2. G[k] = Sum(s, k) + Sum(t, k) /\ G[k - 1] = Sum(s, k - 1) + Sum(t, k - 1)  BY <2>1
  <2>3. Sum(s, k) = Sum(s, k - 1) + s[k] /\ Sum(t, k) = Sum(t, k - 1) + t[k]  BY <2>1, SumStep
  <2>4. Sum(s, k - 1) \in Int /\ Sum(t, k - 1) \in Int  BY <2>1, SumStep
  <2>5. u[k] = s[k] + t[k] /\ s[k] \in Int /\ t[k] \in Int  BY <2>1, <1>0
  <2> HIDE DEF G
  <2> QED  BY <2>2, <2>3, <2>4, <2>5
<1>3. G[n] = Sum(s, n) + Sum(t, n)  BY <1>0
<1> HIDE DEF G
<1>4. Units(u) = G[n]  BY <1>1, <1>2, SumIs
<1> QED  BY <1>4, <1>3, UnitsAreSum

LEMMA UnitsTimes ==
  ASSUME NEW s \in Seq(Int), NEW u \in Seq(Int), NEW c \in Int, Len(u) = Len(s),
         \A i \in 1..Len(s) : u[i] = s[i] * c
  PROVE  Units(u) = Units(s) * c
<1> DEFINE n == Len(s)
           G == [k \in 0..n |-> Sum(s, k) * c]
<1>0. n \in Nat /\ \A k \in 1..n : s[k] \in Int  OBVIOUS
<1>1. G[0] = 0  BY <1>0, SumStep
<1>2. ASSUME NEW k \in 1..Len(u) PROVE G[k] = G[k - 1] + u[k]
  <2>1. k \in 0..n /\ k - 1 \in 0..n /\ k \in 1..n  BY <1>0
  <2>2. G[k] = Sum(s, k) * c /\ G[k - 1] = Sum(s, k - 1) * c  BY <2>1
  <2>3. Sum(s, k) = Sum(s, k - 1) + s[k]  BY <2>1, SumStep
  <2>4. Sum(s, k - 1) \in Int  BY <2>1, SumStep
  <2>5. u[k] = s[k] * c /\ s[k] \in Int  BY <2>1, <1>0
  <2>6. (Sum(s, k - 1) + s[k]) * c = Sum(s, k - 1) * c + s[k] * c  BY <2>4, <2>5
  <2> HIDE DEF G
  <2> QED  BY <2>2, <2>3, <2>5, <2>6
<1>3. G[n] = Sum(s, n) * c  BY <1>0
<1> HIDE DEF G
<1>4. Units(u) = G[n]  BY <1>1, <1>2, SumIs
<1> QED  BY <1>4, <1>3, UnitsAreSum

\* t is s moved c places to the right and padded with zeros.
LEMMA UnitsShift ==
  ASSUME NEW s \in Seq(Int), NEW t \in Seq(Int), NEW c \in Nat,
         c + Len(s) <= Len(t),
         \A i \in 1..Len(s) : t[c + i] = s[i],
         \A i \in 1..Len(t) : (i <= c \/ i > c + Len(s)) => t[i] = 0
  PROVE  Units(t) = Units(s)
<1> DEFINE n == Len(s)
           m == Len(t)
           G == [k \in 0..m |-> IF k <= c THEN 0 ELSE IF k <= c + n THEN Sum(s, k - c) ELSE Sum(s, n)]
<1>0. n \in Nat /\ m \in Nat /\ c + n <= m  OBVIOUS
<1>1. G[0] = 0  BY <1>0
<1>2. ASSUME NEW k \in 1..m PROVE G[k] = G[k - 1] + t[k]
  <2>1. k \in 0..m /\ k - 1 \in 0..m /\ k \in Nat /\ k - 1 \in Nat  BY <1>0
  <2>2. CASE k <= c
    <3>1. t[k] = 0 /\ k - 1 <= c  BY <2>2, <2>1
    <3>2. G[k] = 0 /\ G[k - 1] = 0  BY <2>1, <2>2, <3>1
    <3> HIDE DEF G
    <3> QED  BY <3>1, <3>2
  <2>3. CASE k > c /\ k <= c + n
    <3>1. k - c \in 1..n /\ c + (k - c) = k /\ (k - c) - 1 = (k - 1) - c  BY <2>3, <2>1, <1>0
    <3>2. t[k] = s[k - c]  BY <3>1
    <3>3. Sum(s, k - c) = Sum(s, (k - 1) - c) + s[k - c]  BY <3>1, SumStep
    <3>4. G[k] = Sum(s, k - c)  BY <2>1, <2>3
    <3>5. G[k - 1] = Sum(s, (k - 1) - c)
      <4>1. CASE k - 1 <= c
        <5>1. (k - 1) - c = 0 /\ G[k - 1] = 0  BY <4>1, <2>1, <2>3
        <5> QED  BY <5>1, SumStep
      <4>2. CASE ~ (k - 1 <= c)
        <5>1. k - 1 <= c + n  BY <2>1, <2>3, <1>0
        <5> QED  BY <4>2, <5>1, <2>1
      <4> QED  BY <4>1, <4>2
    <3> HIDE DEF G
    <3> QED  BY <3>2, <3>3, <3>4, <3>5
  <2>4. CASE k > c + n
    <3>1. t[k] = 0 /\ ~ (k <= c) /\ ~ (k <= c + n)  BY <2>4, <2>1, <1>0
    <3>2. G[k] = Sum(s, n)  BY <3>1, <2>1
    <3>3. Sum(s, n) \in Int  BY <1>0, SumStep
    <3>4. G[k - 1] = Sum(s, n)
      <4>1. CASE k - 1 = c + n
        <5>1. CASE n = 0
          <6>1. k - 1 <= c  BY <4>1, <5>1, <1>0
          <6>2. G[k - 1] = 0  BY <6>1, <2>1
          <6> HIDE DEF G
          <6> QED  BY <6>2, <5>1, SumStep
        <5>2. CASE n # 0
          <6>1. ~ (k - 1 <= c) /\ k - 1 <= c + n /\ (k - 1) - c = n  BY <4>1, <5>2, <1>0
          <6> QED  BY <6>1, <2>1
        <5> QED  BY <5>1, <5>2
      <4>2. CASE k - 1 > c + n
        <5>1. ~ (k - 1 <= c) /\ ~ (k - 1 <= c + n)  BY <4>2, <2>1, <1>0
        <5> QED  BY <5>1, <2>1
      <4> QED  BY <4>1, <4>2, <2>4, <2>1, <1>0
    <3> HIDE DEF G
    <3> QED  BY <3>1, <3>2, <3>3, <3>4
  <2> QED  BY <2>2, <2>3, <2>4, <2>1, <1>0
<1>3. G[m] = Sum(s, n)
  <2>1. m \in 0..m  BY <1>0
  <2>2. CASE m <= c
    <3>1. n = 0  BY <2>2, <1>0
    <3> QED  BY <2>1, <2>2, <3>1, SumStep
  <2>3. CASE ~ (m <= c) /\ m <= c + n
    <3>1. m - c = n  BY <2>3, <1>0
    <3> QED  BY <2>1, <2>3, <3>1
  <2>4. CASE ~ (m <= c) /\ ~ (m <= c + n)  BY <2>1, <2>4
  <2> QED  BY <2>2, <2>3, <2>4
<1> HIDE DEF G
<1>4. Units(t) = G[m]  BY <1>1, <1>2, SumIs
<1> QED  BY <1>4, <1>3, UnitsAreSum

LEMMA UnitsNat ==
  ASSUME NEW s \in Seq(Nat)
  PROVE  Units(s) \in Nat
<1> DEFINE S == {n \in Nat : n <= Len(s) => Sum(s, n) \in Nat}
<1>0. Len(s) \in Nat /\ s \in Seq(Int) /\ \A k \in 1..Len(s) : s[k] \in Nat  OBVIOUS
<1>1. 0 \in S  BY <1>0, SumStep
<1>2. ASSUME NEW n \in Nat, n \in S PROVE n + 1 \in S
  <2> SUFFICES ASSUME n + 1 <= Len(s) PROVE Sum(s, n + 1) \in Nat  OBVIOUS
  <2>1. n + 1 \in 1..Len(s) /\ (n + 1) - 1 = n /\ n <= Len(s)  BY <1>0
  <2>2. Sum(s, n + 1) = Sum(s, n) + s[n + 1]  BY <2>1, <1>0, SumStep
  <2>3. Sum(s, n) \in Nat  BY <1>2, <2>1
  <2> QED  BY <2>1, <2>2, <2>3, <1>0
<1>3. Nat \subseteq S
  <2> HIDE DEF S
  <2> QED  BY <1>1, <1>2, EveryNumber
<1>4. Sum(s, Len(s)) \in Nat  BY <1>3, <1>0
<1> QED  BY <1>4, UnitsAreSum

----------------------------------------------------------------------------
\* What Consume has done after k lots.

Lot == [id : Nat, date : Nat, qty : Nat \ {0}, price : Nat]
Taken == [id : Nat, qty : Nat, cost : Nat]

Takes(q, qty, whole) ==
  CHOOSE f : f = [k \in 0..Len(q) |->
                    IF k = 0 THEN [due |-> qty, rest |-> <<>>, took |-> <<>>]
                    ELSE Reach(f[k - 1], q[k], whole)]

LEMMA TakesExist ==
  ASSUME NEW q, NEW qty, NEW whole, Len(q) \in Nat
  PROVE  Takes(q, qty, whole) =
           [k \in 0..Len(q) |-> IF k = 0 THEN [due |-> qty, rest |-> <<>>, took |-> <<>>]
                                ELSE Reach(Takes(q, qty, whole)[k - 1], q[k], whole)]
<1> DEFINE start == [due |-> qty, rest |-> <<>>, took |-> <<>>]
           S == {n \in Nat : \E f : f = [k \in 0..n |-> IF k = 0 THEN start ELSE Reach(f[k - 1], q[k], whole)]}
<1> HIDE DEF start
<1>1. 0 \in S
  <2> DEFINE f == [k \in 0..0 |-> start]
  <2>1. f = [k \in 0..0 |-> IF k = 0 THEN start ELSE Reach(f[k - 1], q[k], whole)]  OBVIOUS
  <2> QED  BY <2>1
<1>2. ASSUME NEW n \in Nat, n \in S PROVE n + 1 \in S
  <2>1. PICK f : f = [k \in 0..n |-> IF k = 0 THEN start ELSE Reach(f[k - 1], q[k], whole)]  BY <1>2
  <2> DEFINE g == [k \in 0..n + 1 |->
                     IF k = 0 THEN start
                     ELSE IF k = n + 1 THEN Reach(f[n], q[n + 1], whole) ELSE f[k]]
  <2>2. \A k \in 0..n : g[k] = f[k]  BY <2>1
  <2>3. ASSUME NEW k \in 0..n + 1
        PROVE  g[k] = IF k = 0 THEN start ELSE Reach(g[k - 1], q[k], whole)
    <3>1. CASE k = 0  BY <3>1
    <3>2. CASE k = n + 1
      <4>1. g[k] = Reach(f[n], q[n + 1], whole) /\ k # 0 /\ k - 1 = n  BY <3>2
      <4>2. g[n] = f[n]  BY <2>2
      <4> HIDE DEF g
      <4> QED  BY <4>1, <4>2, <3>2
    <3>3. CASE k \in 1..n
      <4>1. g[k] = f[k] /\ g[k - 1] = f[k - 1] /\ k # 0  BY <3>3, <2>2
      <4>2. f[k] = Reach(f[k - 1], q[k], whole)  BY <2>1, <3>3
      <4> HIDE DEF g
      <4> QED  BY <4>1, <4>2
    <3> QED  BY <3>1, <3>2, <3>3
  <2>4. g = [k \in 0..n + 1 |-> IF k = 0 THEN start ELSE Reach(g[k - 1], q[k], whole)]  BY <2>3
  <2> HIDE DEF g
  <2> QED  BY <2>4
<1>3. Nat \subseteq S
  <2> HIDE DEF S
  <2> QED  BY <1>1, <1>2, EveryNumber
<1>4. \E f : f = [k \in 0..Len(q) |-> IF k = 0 THEN start ELSE Reach(f[k - 1], q[k], whole)]  BY <1>3
<1> QED  BY <1>4 DEF Takes, start

LEMMA ConsumeIsTakes ==
  ASSUME NEW q, NEW qty, NEW whole
  PROVE  Consume(q, qty, whole) = Takes(q, qty, whole)[Len(q)]
  BY DEF Consume, Takes

LEMMA TakesStep ==
  ASSUME NEW q \in Seq(Lot), NEW qty, NEW whole
  PROVE  /\ Takes(q, qty, whole)[0] = [due |-> qty, rest |-> <<>>, took |-> <<>>]
         /\ \A k \in 1..Len(q) : Takes(q, qty, whole)[k] = Reach(Takes(q, qty, whole)[k - 1], q[k], whole)
<1>0. Len(q) \in Nat  OBVIOUS
<1>1. Takes(q, qty, whole)[0] = [due |-> qty, rest |-> <<>>, took |-> <<>>]  BY <1>0, TakesExist
<1>2. \A k \in 1..Len(q) : Takes(q, qty, whole)[k] = Reach(Takes(q, qty, whole)[k - 1], q[k], whole)
  <2> TAKE k \in 1..Len(q)
  <2>1. k \in 0..Len(q) /\ k # 0  BY <1>0
  <2> QED  BY <1>0, <2>1, TakesExist
<1> QED  BY <1>1, <1>2

LEMMA SameAsAppend ==
  ASSUME NEW s \in Seq(Int), NEW t \in Seq(Int), NEW x \in Int, Len(t) = Len(s) + 1,
         t[Len(s) + 1] = x, \A i \in 1..Len(s) : t[i] = s[i]
  PROVE  t = Append(s, x)
<1>1. Append(s, x) \in Seq(Int) /\ Len(Append(s, x)) = Len(s) + 1 /\ Append(s, x)[Len(s) + 1] = x
      /\ \A i \in 1..Len(s) : Append(s, x)[i] = s[i]
  OBVIOUS
<1> DEFINE u == Append(s, x)
<1> HIDE DEF u
<1>2. Len(s) \in Nat  OBVIOUS
<1>3. \A i \in 1..Len(s) + 1 : i \in 1..Len(s) \/ i = Len(s) + 1  BY <1>2
<1>4. \A i \in 1..Len(s) + 1 : t[i] = u[i]  BY <1>1, <1>3 DEF u
<1>5. u \in Seq(Int) /\ Len(u) = Len(s) + 1  BY <1>1 DEF u
<1> QED  BY <1>4, <1>5 DEF u

EventUnits(took) == [k \in DOMAIN took |-> took[k].qty]
EventCosts(took) == [k \in DOMAIN took |-> took[k].cost]

LEMMA LotMeasures ==
  ASSUME NEW q \in Seq(Lot)
  PROVE  /\ Quantities(q) \in Seq(Nat) /\ Quantities(q) \in Seq(Int) /\ Len(Quantities(q)) = Len(q)
         /\ Costs(q) \in Seq(Nat) /\ Costs(q) \in Seq(Int) /\ Len(Costs(q)) = Len(q)
         /\ \A i \in 1..Len(q) : Quantities(q)[i] = q[i].qty /\ Costs(q)[i] = q[i].qty * q[i].price
<1>1. DOMAIN q = 1..Len(q) /\ Len(q) \in Nat  OBVIOUS
<1>2. \A i \in 1..Len(q) : q[i] \in Lot  OBVIOUS
<1>3. \A i \in 1..Len(q) : q[i].qty \in Nat /\ q[i].price \in Nat  BY <1>2 DEF Lot
<1>4. \A i \in 1..Len(q) : q[i].qty * q[i].price \in Nat  BY <1>3
<1>5. Quantities(q) \in Seq(Nat) /\ Quantities(q) \in Seq(Int) /\ Len(Quantities(q)) = Len(q)
      /\ \A i \in 1..Len(q) : Quantities(q)[i] = q[i].qty
  BY <1>1, <1>3 DEF Quantities
<1>6. Costs(q) \in Seq(Nat) /\ Costs(q) \in Seq(Int) /\ Len(Costs(q)) = Len(q)
      /\ \A i \in 1..Len(q) : Costs(q)[i] = q[i].qty * q[i].price
  BY <1>1, <1>4 DEF Costs
<1> QED  BY <1>5, <1>6

LEMMA EventMeasures ==
  ASSUME NEW took \in Seq(Taken)
  PROVE  /\ EventUnits(took) \in Seq(Int) /\ Len(EventUnits(took)) = Len(took)
         /\ EventCosts(took) \in Seq(Int) /\ Len(EventCosts(took)) = Len(took)
         /\ \A i \in 1..Len(took) : EventUnits(took)[i] = took[i].qty /\ EventCosts(took)[i] = took[i].cost
<1>1. DOMAIN took = 1..Len(took) /\ Len(took) \in Nat  OBVIOUS
<1>2. \A i \in 1..Len(took) : took[i] \in Taken  OBVIOUS
<1>3. \A i \in 1..Len(took) : took[i].qty \in Int /\ took[i].cost \in Int  BY <1>2 DEF Taken
<1> QED  BY <1>1, <1>3 DEF EventUnits, EventCosts

\* A lot that joins the queue.
LEMMA QueueGrows ==
  ASSUME NEW q \in Seq(Lot), NEW lot \in Lot
  PROVE  /\ Append(q, lot) \in Seq(Lot) /\ Len(Append(q, lot)) = Len(q) + 1
         /\ Units(Quantities(Append(q, lot))) = Units(Quantities(q)) + lot.qty
         /\ Cost(Append(q, lot)) = Cost(q) + lot.qty * lot.price
<1> DEFINE r == Append(q, lot)
<1>1. r \in Seq(Lot) /\ Len(r) = Len(q) + 1 /\ r[Len(q) + 1] = lot /\ Len(q) \in Nat
      /\ \A i \in 1..Len(q) : r[i] = q[i]
  OBVIOUS
<1>2. lot.qty \in Int /\ lot.price \in Int /\ lot.qty * lot.price \in Int  BY DEF Lot
<1> HIDE DEF r
<1>3. Quantities(r) = Append(Quantities(q), lot.qty)
  <2>1. Quantities(q) \in Seq(Int) /\ Len(Quantities(q)) = Len(q)  BY LotMeasures
  <2>2. Quantities(r) \in Seq(Int) /\ Len(Quantities(r)) = Len(q) + 1  BY <1>1, LotMeasures
  <2>3. Quantities(r)[Len(q) + 1] = lot.qty
    <3>1. Len(q) + 1 \in 1..Len(r)  BY <1>1
    <3> QED  BY <3>1, <1>1, LotMeasures
  <2>4. ASSUME NEW i \in 1..Len(q) PROVE Quantities(r)[i] = Quantities(q)[i]
    <3>1. i \in 1..Len(r) /\ r[i] = q[i]  BY <1>1
    <3> QED  BY <3>1, <1>1, LotMeasures
  <2> QED  BY <1>2, <2>1, <2>2, <2>3, <2>4, SameAsAppend
<1>4. Costs(r) = Append(Costs(q), lot.qty * lot.price)
  <2>1. Costs(q) \in Seq(Int) /\ Len(Costs(q)) = Len(q)  BY LotMeasures
  <2>2. Costs(r) \in Seq(Int) /\ Len(Costs(r)) = Len(q) + 1  BY <1>1, LotMeasures
  <2>3. Costs(r)[Len(q) + 1] = lot.qty * lot.price
    <3>1. Len(q) + 1 \in 1..Len(r)  BY <1>1
    <3> QED  BY <3>1, <1>1, LotMeasures
  <2>4. ASSUME NEW i \in 1..Len(q) PROVE Costs(r)[i] = Costs(q)[i]
    <3>1. i \in 1..Len(r) /\ r[i] = q[i]  BY <1>1
    <3> QED  BY <3>1, <1>1, LotMeasures
  <2> QED  BY <1>2, <2>1, <2>2, <2>3, <2>4, SameAsAppend
<1>5. Units(Quantities(r)) = Units(Quantities(q)) + lot.qty  BY <1>2, <1>3, LotMeasures, UnitsAppend
<1>6. Cost(r) = Cost(q) + lot.qty * lot.price  BY <1>2, <1>4, LotMeasures, UnitsAppend DEF Cost
<1> QED  BY <1>1, <1>5, <1>6 DEF r

LEMMA EventsGrow ==
  ASSUME NEW took \in Seq(Taken), NEW e \in Taken
  PROVE  /\ Append(took, e) \in Seq(Taken) /\ Len(Append(took, e)) = Len(took) + 1
         /\ Units(EventUnits(Append(took, e))) = Units(EventUnits(took)) + e.qty
         /\ Units(EventCosts(Append(took, e))) = Units(EventCosts(took)) + e.cost
<1> DEFINE r == Append(took, e)
<1>1. r \in Seq(Taken) /\ Len(r) = Len(took) + 1 /\ r[Len(took) + 1] = e /\ Len(took) \in Nat
      /\ \A i \in 1..Len(took) : r[i] = took[i]
  OBVIOUS
<1>2. e.qty \in Int /\ e.cost \in Int  BY DEF Taken
<1> HIDE DEF r
<1>3. EventUnits(r) = Append(EventUnits(took), e.qty)
  <2>1. EventUnits(took) \in Seq(Int) /\ Len(EventUnits(took)) = Len(took)  BY EventMeasures
  <2>2. EventUnits(r) \in Seq(Int) /\ Len(EventUnits(r)) = Len(took) + 1  BY <1>1, EventMeasures
  <2>3. EventUnits(r)[Len(took) + 1] = e.qty
    <3>1. Len(took) + 1 \in 1..Len(r)  BY <1>1
    <3> QED  BY <3>1, <1>1, EventMeasures
  <2>4. ASSUME NEW i \in 1..Len(took) PROVE EventUnits(r)[i] = EventUnits(took)[i]
    <3>1. i \in 1..Len(r) /\ r[i] = took[i]  BY <1>1
    <3> QED  BY <3>1, <1>1, EventMeasures
  <2> QED  BY <1>2, <2>1, <2>2, <2>3, <2>4, SameAsAppend
<1>4. EventCosts(r) = Append(EventCosts(took), e.cost)
  <2>1. EventCosts(took) \in Seq(Int) /\ Len(EventCosts(took)) = Len(took)  BY EventMeasures
  <2>2. EventCosts(r) \in Seq(Int) /\ Len(EventCosts(r)) = Len(took) + 1  BY <1>1, EventMeasures
  <2>3. EventCosts(r)[Len(took) + 1] = e.cost
    <3>1. Len(took) + 1 \in 1..Len(r)  BY <1>1
    <3> QED  BY <3>1, <1>1, EventMeasures
  <2>4. ASSUME NEW i \in 1..Len(took) PROVE EventCosts(r)[i] = EventCosts(took)[i]
    <3>1. i \in 1..Len(r) /\ r[i] = took[i]  BY <1>1
    <3> QED  BY <3>1, <1>1, EventMeasures
  <2> QED  BY <1>2, <2>1, <2>2, <2>3, <2>4, SameAsAppend
<1>5. Units(EventUnits(r)) = Units(EventUnits(took)) + e.qty  BY <1>2, <1>3, EventMeasures, UnitsAppend
<1>6. Units(EventCosts(r)) = Units(EventCosts(took)) + e.cost  BY <1>2, <1>4, EventMeasures, UnitsAppend
<1> QED  BY <1>1, <1>5, <1>6 DEF r

----------------------------------------------------------------------------
\* The first k lots of q have been reached: rest is what is left of them and
\* took what was recorded for them.  Lots are closed from the front, only the
\* lot behind the closed ones is split, and the tolerance loses one grain once.

ReachedTypes(due, rest, took, k) ==
  /\ due \in Int /\ due >= -1
  /\ rest \in Seq(Lot) /\ took \in Seq(Taken)
  /\ Len(rest) <= k /\ (due > 0 => Len(rest) = 0)

FromTheFront(rest, q, c) ==
  \A i \in 1..Len(rest) :
    /\ rest[i].id = q[c + i].id /\ rest[i].date = q[c + i].date
    /\ i > 1 => rest[i].qty = q[c + i].qty

SplitOnce(rest, took, q, c) ==
  \/ Len(took) = c /\ (Len(rest) > 0 => rest[1].qty = q[c + 1].qty)
  \/ /\ Len(rest) > 0 /\ Len(took) = c + 1
     /\ took[c + 1].qty + rest[1].qty = q[c + 1].qty

EventsFit(took, q, c) ==
  \A i \in 1..Len(took) :
    /\ took[i].id = q[i].id
    /\ i <= c => took[i].qty \in (q[i].qty - 1)..q[i].qty

Balanced(due, rest, took, units, costs, qty, whole) ==
  LET left == Units(Quantities(rest))
      accounted == Units(EventUnits(took)) + left
  IN /\ left = units - (qty - due)
     /\ accounted = units \/ (accounted = units - 1 /\ due = -1 /\ ~whole)
     /\ Units(EventCosts(took)) + Cost(rest) <= costs
     /\ accounted = units => Units(EventCosts(took)) + Cost(rest) = costs

Reached(due, rest, took, q, qty, whole, k) ==
  /\ ReachedTypes(due, rest, took, k)
  /\ FromTheFront(rest, q, k - Len(rest))
  /\ SplitOnce(rest, took, q, k - Len(rest))
  /\ EventsFit(took, q, k - Len(rest))
  /\ Balanced(due, rest, took, Sum(Quantities(q), k), Sum(Costs(q), k), qty, whole)

LEMMA MeasureSteps ==
  ASSUME NEW q \in Seq(Lot), NEW k \in 1..Len(q)
  PROVE  /\ Sum(Quantities(q), k) = Sum(Quantities(q), k - 1) + q[k].qty
         /\ Sum(Costs(q), k) = Sum(Costs(q), k - 1) + q[k].qty * q[k].price
         /\ Sum(Quantities(q), k - 1) \in Int /\ Sum(Costs(q), k - 1) \in Int
<1>1. k - 1 \in 0..Len(q)  OBVIOUS
<1> QED  BY <1>1, LotMeasures, SumStep

\* Nothing is due any more: the lot stays in the queue.
LEMMA LotStays ==
  ASSUME NEW q \in Seq(Lot), NEW qty \in Nat, NEW whole \in BOOLEAN, NEW k \in 1..Len(q),
         NEW due, NEW rest, NEW took,
         Reached(due, rest, took, q, qty, whole, k - 1), due <= 0
  PROVE  Reached(due, Append(rest, q[k]), took, q, qty, whole, k)
<1> DEFINE r == Append(rest, q[k])
           c == (k - 1) - Len(rest)
<1>0. q[k] \in Lot  OBVIOUS
<1>1. q[k] \in Lot /\ q[k].qty \in Int /\ q[k].price \in Int  BY <1>0 DEF Lot
<1>2. /\ due \in Int /\ due >= -1 /\ rest \in Seq(Lot) /\ took \in Seq(Taken)
      /\ Len(rest) \in Nat /\ Len(took) \in Nat /\ Len(rest) <= k - 1 /\ k \in Nat
  BY DEF Reached, ReachedTypes
<1>3. r \in Seq(Lot) /\ Len(r) = Len(rest) + 1 /\ r[Len(rest) + 1] = q[k]
      /\ \A i \in 1..Len(rest) : r[i] = rest[i]
  BY <1>1, <1>2
<1>4. Units(Quantities(r)) = Units(Quantities(rest)) + q[k].qty
      /\ Cost(r) = Cost(rest) + q[k].qty * q[k].price
  BY <1>1, <1>2, QueueGrows
<1> HIDE DEF r
<1>5. c \in Nat /\ k - Len(r) = c /\ c + (Len(rest) + 1) = k  BY <1>2, <1>3
<1>6. ReachedTypes(due, r, took, k)  BY <1>2, <1>3 DEF ReachedTypes
<1> HIDE DEF c
<1>7. FromTheFront(rest, q, c) /\ SplitOnce(rest, took, q, c) /\ EventsFit(took, q, c)
  BY DEF Reached, c
<1>8. FromTheFront(r, q, c)
  <2> SUFFICES ASSUME NEW i \in 1..Len(r)
               PROVE  /\ r[i].id = q[c + i].id /\ r[i].date = q[c + i].date
                      /\ i > 1 => r[i].qty = q[c + i].qty
    BY DEF FromTheFront
  <2>1. CASE i \in 1..Len(rest)
    <3>1. r[i] = rest[i]  BY <2>1, <1>3
    <3> QED  BY <2>1, <3>1, <1>7 DEF FromTheFront
  <2>2. CASE i = Len(rest) + 1
    <3>1. r[i] = q[c + i]  BY <2>2, <1>3, <1>5
    <3> QED  BY <3>1
  <2> QED  BY <2>1, <2>2, <1>2, <1>3
<1>9. SplitOnce(r, took, q, c)
  <2>1. CASE Len(rest) = 0
    <3>1. r[1] = q[c + 1]  BY <2>1, <1>3, <1>5
    <3>2. Len(took) = c  BY <1>7, <2>1 DEF SplitOnce
    <3> QED  BY <3>1, <3>2 DEF SplitOnce
  <2>2. CASE Len(rest) > 0
    <3>1. r[1] = rest[1] /\ Len(r) > 0  BY <2>2, <1>2, <1>3
    <3> QED  BY <3>1, <2>2, <1>7 DEF SplitOnce
  <2> QED  BY <2>1, <2>2, <1>2
<1>10. Balanced(due, r, took, Sum(Quantities(q), k), Sum(Costs(q), k), qty, whole)
  <2> DEFINE u == Sum(Quantities(q), k - 1)
             v == Sum(Costs(q), k - 1)
             left == Units(Quantities(rest))
             ev == Units(EventUnits(took))
             evc == Units(EventCosts(took))
             co == Cost(rest)
             x == q[k].qty
             y == q[k].qty * q[k].price
  <2>1. u \in Int /\ v \in Int /\ Sum(Quantities(q), k) = u + x /\ Sum(Costs(q), k) = v + y
    BY MeasureSteps
  <2>2. left \in Int /\ co \in Int  BY <1>2, LotMeasures, UnitsInt DEF Cost
  <2>3. ev \in Int /\ evc \in Int  BY <1>2, EventMeasures, UnitsInt
  <2>4. x \in Int /\ y \in Int  BY <1>1
  <2>5. /\ left = u - (qty - due)
        /\ ev + left = u \/ (ev + left = u - 1 /\ due = -1 /\ ~whole)
        /\ evc + co <= v
        /\ ev + left = u => evc + co = v
    BY DEF Reached, Balanced
  <2>6. Units(Quantities(r)) = left + x /\ Cost(r) = co + y  BY <1>4
  <2> HIDE DEF u, v, left, ev, evc, co, x, y
  <2>7. left + x = (u + x) - (qty - due)  BY <2>1, <2>2, <2>4, <2>5, <1>2
  <2>8. ev + (left + x) = u + x <=> ev + left = u  BY <2>1, <2>2, <2>3, <2>4
  <2>9. ev + (left + x) = (u + x) - 1 <=> ev + left = u - 1  BY <2>1, <2>2, <2>3, <2>4
  <2>10. evc + (co + y) <= v + y /\ (evc + co = v => evc + (co + y) = v + y)
    BY <2>1, <2>2, <2>3, <2>4, <2>5
  <2>11. Balanced(due, r, took, u + x, v + y, qty, whole)
    BY <2>5, <2>6, <2>7, <2>8, <2>9, <2>10 DEF Balanced, ev, evc
  <2> QED  BY <2>1, <2>11
<1> QED  BY <1>5, <1>6, <1>7, <1>8, <1>9, <1>10 DEF Reached, r

LEMMA PieceOf ==
  ASSUME NEW lot \in Lot, NEW n \in Nat
  PROVE  /\ Piece(lot, n) \in Taken /\ Piece(lot, n).id = lot.id
         /\ Piece(lot, n).qty = n /\ Piece(lot, n).cost = n * lot.price
<1>1. lot.id \in Nat /\ lot.price \in Nat  BY DEF Lot
<1>2. n * lot.price \in Nat  BY <1>1
<1> QED  BY <1>1, <1>2 DEF Piece, Taken

\* The arithmetic of a lot that is closed: whole, or a grain too large.
LEMMA ClosingSum ==
  ASSUME NEW a \in Int, NEW b \in Int, NEW c \in Int, NEW x \in Int, a + b = c
  PROVE  /\ (a + x) + b = c + x
         /\ (a + (x - 1)) + b = (c + x) - 1 /\ (c + x) - 1 # c + x
  OBVIOUS

LEMMA ClosingCost ==
  ASSUME NEW a \in Int, NEW b \in Int, NEW c \in Int, NEW y \in Int, NEW p \in Nat, a + b = c
  PROVE  (a + (y - p)) + b <= c + y
  OBVIOUS

LEMMA ClosingDue ==
  ASSUME NEW left \in Int, NEW u \in Int, NEW x \in Int, NEW due \in Int, NEW qty \in Int,
         left = u - (qty - due)
  PROVE  /\ left = (u + x) - (qty - (due - x))
         /\ left + (x - due) = (u + x) - (qty - 0)
  OBVIOUS

\* The arithmetic of a lot that is split.
LEMMA SplittingSum ==
  ASSUME NEW a \in Int, NEW b \in Int, NEW c \in Int, NEW x \in Int, NEW z \in Int, a + b = c
  PROVE  (a + z) + (b + (x - z)) = c + x
  OBVIOUS

\* All lots before were closed and this one closes too.
LEMMA LotCloses ==
  ASSUME NEW q \in Seq(Lot), NEW qty \in Nat, NEW whole \in BOOLEAN, NEW k \in 1..Len(q),
         NEW due, NEW rest, NEW took,
         Reached(due, rest, took, q, qty, whole, k - 1), due > 0, q[k].qty <= due + 1
  PROVE  Reached(due - q[k].qty, rest, Append(took, Piece(q[k], Took(due, q[k], whole))),
                 q, qty, whole, k)
<1> DEFINE x == q[k].qty
           p == q[k].price
           n == Took(due, q[k], whole)
           e == Piece(q[k], n)
           t == Append(took, e)
<1>0. q[k] \in Lot  OBVIOUS
<1>1. x \in Nat /\ x > 0 /\ p \in Nat  BY <1>0 DEF Lot
<1>2. /\ due \in Int /\ rest \in Seq(Lot) /\ took \in Seq(Taken)
      /\ Len(took) \in Nat /\ Len(rest) = 0 /\ k \in Nat /\ k > 0
  BY DEF Reached, ReachedTypes
<1>3. rest = <<>>  BY <1>2
<1>4. n \in Nat /\ (n = x \/ (n = x - 1 /\ x = due + 1 /\ ~whole))  BY <1>1, <1>2 DEF Took
<1> HIDE DEF n
<1>5. e \in Taken /\ e.id = q[k].id /\ e.qty = n /\ e.cost = n * p  BY <1>0, <1>4, PieceOf
<1> HIDE DEF e
<1>6. t \in Seq(Taken) /\ Len(t) = Len(took) + 1 /\ t[Len(took) + 1] = e
      /\ \A i \in 1..Len(took) : t[i] = took[i]
  BY <1>2, <1>5
<1>7. Units(EventUnits(t)) = Units(EventUnits(took)) + n
      /\ Units(EventCosts(t)) = Units(EventCosts(took)) + n * p
  BY <1>2, <1>5, EventsGrow
<1> HIDE DEF t
<1>8. (k - 1) - Len(rest) = k - 1 /\ k - Len(rest) = k  BY <1>2
<1>9. Len(took) = k - 1
  <2>1. SplitOnce(rest, took, q, k - 1)  BY <1>8 DEF Reached
  <2> QED  BY <2>1, <1>2 DEF SplitOnce
<1>10. ReachedTypes(due - x, rest, t, k)  BY <1>1, <1>2, <1>6 DEF ReachedTypes
<1>11. FromTheFront(rest, q, k)  BY <1>2 DEF FromTheFront
<1>12. SplitOnce(rest, t, q, k)  BY <1>2, <1>6, <1>9 DEF SplitOnce
<1>13. EventsFit(t, q, k)
  <2>1. EventsFit(took, q, k - 1)  BY <1>8 DEF Reached
  <2> SUFFICES ASSUME NEW i \in 1..Len(t)
               PROVE  t[i].id = q[i].id /\ (i <= k => t[i].qty \in (q[i].qty - 1)..q[i].qty)
    BY DEF EventsFit
  <2>2. CASE i \in 1..Len(took)
    <3>1. t[i] = took[i] /\ i <= k - 1  BY <2>2, <1>6, <1>9
    <3> QED  BY <2>1, <2>2, <3>1 DEF EventsFit
  <2>3. CASE i = Len(took) + 1
    <3>1. i = k /\ t[i] = e  BY <2>3, <1>6, <1>9, <1>2
    <3>2. n \in (x - 1)..x  BY <1>1, <1>4
    <3> QED  BY <3>1, <3>2, <1>5
  <2> QED  BY <2>2, <2>3, <1>2, <1>6
<1>14. Balanced(due - x, rest, t, Sum(Quantities(q), k), Sum(Costs(q), k), qty, whole)
  <2> DEFINE u == Sum(Quantities(q), k - 1)
             v == Sum(Costs(q), k - 1)
             left == Units(Quantities(rest))
             ev == Units(EventUnits(took))
             evc == Units(EventCosts(took))
             co == Cost(rest)
  <2>1. u \in Int /\ v \in Int /\ Sum(Quantities(q), k) = u + x /\ Sum(Costs(q), k) = v + x * p
    BY MeasureSteps
  <2>2. left \in Int /\ co \in Int  BY <1>2, LotMeasures, UnitsInt DEF Cost
  <2>3. ev \in Int /\ evc \in Int  BY <1>2, EventMeasures, UnitsInt
  <2>4. x * p \in Int /\ n * p \in Int /\ (n = x - 1 => n * p = x * p - p)  BY <1>1, <1>4
  <2>5. /\ left = u - (qty - due)
        /\ ev + left = u \/ (ev + left = u - 1 /\ due = -1 /\ ~whole)
        /\ evc + co <= v
        /\ ev + left = u => evc + co = v
    BY DEF Reached, Balanced
  <2> DEFINE y == x * p
             z == n * p
  <2> HIDE DEF u, v, left, ev, evc, co, x, y, z, p
  <2>6. ev + left = u /\ evc + co = v  BY <2>5, <1>2
  <2>0. x \in Int /\ due \in Int /\ qty \in Int /\ p \in Nat  BY <1>1, <1>2
  <2>7. left = (u + x) - (qty - (due - x))  BY <2>0, <2>1, <2>2, <2>5, ClosingDue
  <2>10. v + y \in Int  BY <2>1, <2>4 DEF y
  <2>11. Sum(Quantities(q), k) = u + x /\ Sum(Costs(q), k) = v + y  BY <2>1 DEF y
  <2>12. Units(EventUnits(t)) = ev + n /\ Units(EventCosts(t)) = evc + z  BY <1>7 DEF ev, evc, z
  <2>13. ev \in Int /\ left \in Int /\ u \in Int /\ x \in Int  BY <2>0, <2>1, <2>2, <2>3
  <2>14. ev + left = u  BY <2>6
  <2>15. evc \in Int /\ co \in Int /\ v \in Int  BY <2>1, <2>2, <2>3
  <2>16. evc + co = v  BY <2>6
  <2>8. CASE n = x
    <3>0. y \in Int /\ z = y  BY <2>4, <2>8 DEF y, z
    <3>3. (ev + x) + left = u + x  BY <2>13, <2>14, ClosingSum
    <3>4. (evc + y) + co = v + y  BY <3>0, <2>15, <2>16, ClosingSum
    <3>1. (ev + n) + left = u + x /\ (evc + z) + co = v + y  BY <2>8, <3>0, <3>3, <3>4
    <3>2. (evc + z) + co <= v + y  BY <3>1, <2>10
    <3> QED  BY <2>7, <2>11, <2>12, <3>1, <3>2 DEF Balanced, left, co
  <2>9. CASE n = x - 1 /\ x = due + 1 /\ ~whole
    <3>4. (ev + (x - 1)) + left = (u + x) - 1 /\ (u + x) - 1 # u + x
      BY <2>13, <2>14, ClosingSum
    <3>5. due - x = -1  BY <2>0, <2>9
    <3>1. (ev + n) + left = (u + x) - 1 /\ due - x = -1  BY <2>9, <3>4, <3>5
    <3>2. (evc + z) + co <= v + y
      <4>1. z = y - p /\ y \in Int  BY <2>4, <2>9 DEF y, z
      <4>2. (evc + (y - p)) + co <= v + y  BY <4>1, <2>0, <2>15, <2>16, ClosingCost
      <4> QED  BY <4>1, <4>2
    <3>3. ~ ((ev + n) + left = u + x)  BY <3>1, <3>4
    <3> QED  BY <2>7, <2>9, <2>11, <2>12, <3>1, <3>2, <3>3 DEF Balanced, left, co
  <2> QED  BY <2>8, <2>9, <1>4
<1> QED  BY <1>8, <1>10, <1>11, <1>12, <1>13, <1>14 DEF Reached, t, e, n

\* All lots before were closed and this one is split.
LEMMA LotSplits ==
  ASSUME NEW q \in Seq(Lot), NEW qty \in Nat, NEW whole \in BOOLEAN, NEW k \in 1..Len(q),
         NEW due, NEW rest, NEW took,
         Reached(due, rest, took, q, qty, whole, k - 1), due > 0, q[k].qty > due + 1
  PROVE  Reached(0, Append(rest, [q[k] EXCEPT !.qty = @ - due]),
                 Append(took, Piece(q[k], Took(due, q[k], whole))), q, qty, whole, k)
<1> DEFINE x == q[k].qty
           p == q[k].price
           lot == [q[k] EXCEPT !.qty = @ - due]
           e == Piece(q[k], Took(due, q[k], whole))
           t == Append(took, e)
           r == Append(rest, lot)
<1>0. q[k] \in Lot  OBVIOUS
<1>1. x \in Nat /\ x > 0 /\ p \in Nat  BY <1>0 DEF Lot
<1>2. /\ due \in Nat /\ rest \in Seq(Lot) /\ took \in Seq(Taken)
      /\ Len(took) \in Nat /\ Len(rest) = 0 /\ k \in Nat /\ k > 0
  BY DEF Reached, ReachedTypes
<1>3. lot \in Lot /\ lot.id = q[k].id /\ lot.date = q[k].date /\ lot.qty = x - due /\ lot.price = p
  <2>1. x - due \in Nat \ {0}  BY <1>1, <1>2
  <2> QED  BY <1>0, <2>1 DEF Lot
<1>4. Took(due, q[k], whole) = due  BY <1>1, <1>2 DEF Took
<1>5. e \in Taken /\ e.id = q[k].id /\ e.qty = due /\ e.cost = due * p  BY <1>0, <1>2, <1>4, PieceOf
<1> HIDE DEF e, lot
<1>6. t \in Seq(Taken) /\ Len(t) = Len(took) + 1 /\ t[Len(took) + 1] = e
      /\ \A i \in 1..Len(took) : t[i] = took[i]
  BY <1>2, <1>5
<1>7. Units(EventUnits(t)) = Units(EventUnits(took)) + due
      /\ Units(EventCosts(t)) = Units(EventCosts(took)) + due * p
  BY <1>2, <1>5, EventsGrow
<1>8. r \in Seq(Lot) /\ Len(r) = 1 /\ r[1] = lot  BY <1>2, <1>3
<1>9. Units(Quantities(r)) = Units(Quantities(rest)) + (x - due)
      /\ Cost(r) = Cost(rest) + (x - due) * p
  BY <1>2, <1>3, QueueGrows
<1> HIDE DEF t, r
<1>10. (k - 1) - Len(rest) = k - 1 /\ k - Len(r) = k - 1 /\ (k - 1) + 1 = k  BY <1>2, <1>8
<1>11. Len(took) = k - 1
  <2>1. SplitOnce(rest, took, q, k - 1)  BY <1>10 DEF Reached
  <2> QED  BY <2>1, <1>2 DEF SplitOnce
<1>12. ReachedTypes(0, r, t, k)  BY <1>2, <1>6, <1>8 DEF ReachedTypes
<1>13. FromTheFront(r, q, k - 1)
  <2>1. \A i \in 1..Len(r) : i = 1  BY <1>8
  <2> QED  BY <2>1, <1>3, <1>8, <1>10 DEF FromTheFront
<1>14. SplitOnce(r, t, q, k - 1)
  <2>1. t[(k - 1) + 1] = e /\ Len(t) = (k - 1) + 1  BY <1>6, <1>11
  <2>2. due + (x - due) = x  BY <1>1, <1>2
  <2>3. t[(k - 1) + 1].qty + r[1].qty = q[(k - 1) + 1].qty  BY <2>1, <2>2, <1>3, <1>5, <1>8, <1>10
  <2> QED  BY <2>1, <2>3, <1>8 DEF SplitOnce
<1>15. EventsFit(t, q, k - 1)
  <2>1. EventsFit(took, q, k - 1)  BY <1>10 DEF Reached
  <2> SUFFICES ASSUME NEW i \in 1..Len(t)
               PROVE  t[i].id = q[i].id /\ (i <= k - 1 => t[i].qty \in (q[i].qty - 1)..q[i].qty)
    BY DEF EventsFit
  <2>2. CASE i \in 1..Len(took)
    <3>1. t[i] = took[i] /\ i <= k - 1  BY <2>2, <1>6, <1>11
    <3> QED  BY <2>1, <2>2, <3>1 DEF EventsFit
  <2>3. CASE i = Len(took) + 1
    <3>1. i = k /\ t[i] = e /\ ~ (i <= k - 1)  BY <2>3, <1>6, <1>11, <1>2
    <3> QED  BY <3>1, <1>5
  <2> QED  BY <2>2, <2>3, <1>2, <1>6
<1>16. Balanced(0, r, t, Sum(Quantities(q), k), Sum(Costs(q), k), qty, whole)
  <2> DEFINE u == Sum(Quantities(q), k - 1)
             v == Sum(Costs(q), k - 1)
             left == Units(Quantities(rest))
             ev == Units(EventUnits(took))
             evc == Units(EventCosts(took))
             co == Cost(rest)
  <2>1. u \in Int /\ v \in Int /\ Sum(Quantities(q), k) = u + x /\ Sum(Costs(q), k) = v + x * p
    BY MeasureSteps
  <2>2. left \in Int /\ co \in Int  BY <1>2, LotMeasures, UnitsInt DEF Cost
  <2>3. ev \in Int /\ evc \in Int  BY <1>2, EventMeasures, UnitsInt
  <2>4. x * p \in Int /\ due * p \in Int /\ (x - due) * p = x * p - due * p  BY <1>1, <1>2
  <2>5. /\ left = u - (qty - due)
        /\ ev + left = u \/ (ev + left = u - 1 /\ due = -1 /\ ~whole)
        /\ evc + co <= v
        /\ ev + left = u => evc + co = v
    BY DEF Reached, Balanced
  <2> DEFINE y == x * p
             z == due * p
             w == (x - due) * p
  <2> HIDE DEF u, v, left, ev, evc, co, x, y, z, w, p
  <2>6. ev + left = u /\ evc + co = v  BY <2>5, <1>2
  <2>0. x \in Int /\ due \in Int /\ qty \in Int  BY <1>1, <1>2
  <2>7. left + (x - due) = (u + x) - (qty - 0)  BY <2>0, <2>1, <2>2, <2>5, ClosingDue
  <2>13. ev \in Int /\ left \in Int /\ u \in Int /\ x \in Int /\ due \in Int
    BY <2>0, <2>1, <2>2, <2>3
  <2>14. ev + left = u  BY <2>6
  <2>15. evc \in Int /\ co \in Int /\ v \in Int  BY <2>1, <2>2, <2>3
  <2>16. evc + co = v  BY <2>6
  <2>8. (ev + due) + (left + (x - due)) = u + x  BY <2>13, <2>14, SplittingSum
  <2>9. (evc + z) + (co + w) = v + y /\ v + y \in Int
    <3>1. w = y - z /\ y \in Int /\ z \in Int  BY <2>4 DEF w, y, z
    <3>2. (evc + z) + (co + (y - z)) = v + y  BY <3>1, <2>15, <2>16, SplittingSum
    <3>3. v + y \in Int  BY <3>1, <2>1
    <3> QED  BY <3>1, <3>2, <3>3
  <2>10. (evc + z) + (co + w) <= v + y  BY <2>9
  <2> QED  BY <2>1, <2>7, <2>8, <2>9, <2>10, <1>7, <1>9 DEF Balanced, ev, evc, left, co, y, z, w
<1> QED  BY <1>10, <1>12, <1>13, <1>14, <1>15, <1>16 DEF Reached, t, r, lot, e

LEMMA NothingReached ==
  ASSUME NEW q \in Seq(Lot), NEW qty \in Nat, NEW whole \in BOOLEAN
  PROVE  Reached(qty, <<>>, <<>>, q, qty, whole, 0)
<1>0. <<>> \in Seq(Lot) /\ <<>> \in Seq(Taken) /\ Len(<<>>) = 0  OBVIOUS
<1>1. ReachedTypes(qty, <<>>, <<>>, 0)  BY <1>0 DEF ReachedTypes
<1>2. FromTheFront(<<>>, q, 0) /\ SplitOnce(<<>>, <<>>, q, 0) /\ EventsFit(<<>>, q, 0)
  BY <1>0 DEF FromTheFront, SplitOnce, EventsFit
<1>3. Units(Quantities(<<>>)) = 0 /\ Cost(<<>>) = 0
  <2> DEFINE none == <<>>
  <2> HIDE DEF none
  <2>0. none \in Seq(Lot) /\ Len(none) = 0  BY <1>0 DEF none
  <2>1. Quantities(none) \in Seq(Int) /\ Len(Quantities(none)) = 0
        /\ Costs(none) \in Seq(Int) /\ Len(Costs(none)) = 0
    BY <2>0, LotMeasures
  <2>2. Quantities(none) = <<>> /\ Costs(none) = <<>>  BY <2>1
  <2>3. Units(Quantities(none)) = 0 /\ Units(Costs(none)) = 0  BY <2>2, UnitsNone
  <2> QED  BY <2>3 DEF Cost, none
<1>4. Units(EventUnits(<<>>)) = 0 /\ Units(EventCosts(<<>>)) = 0
  <2> DEFINE none == <<>>
  <2> HIDE DEF none
  <2>0. none \in Seq(Taken) /\ Len(none) = 0  BY <1>0 DEF none
  <2>1. EventUnits(none) \in Seq(Int) /\ Len(EventUnits(none)) = 0
        /\ EventCosts(none) \in Seq(Int) /\ Len(EventCosts(none)) = 0
    BY <2>0, EventMeasures
  <2>2. EventUnits(none) = <<>> /\ EventCosts(none) = <<>>  BY <2>1
  <2>3. Units(EventUnits(none)) = 0 /\ Units(EventCosts(none)) = 0  BY <2>2, UnitsNone
  <2> QED  BY <2>3 DEF none
<1>5. Sum(Quantities(q), 0) = 0 /\ Sum(Costs(q), 0) = 0  BY LotMeasures, SumStep
<1>6. Balanced(qty, <<>>, <<>>, 0, 0, qty, whole)  BY <1>3, <1>4 DEF Balanced
<1>7. 0 - Len(<<>>) = 0
  <2> DEFINE n == Len(<<>>)
  <2>1. n = 0  BY <1>0
  <2> HIDE DEF n
  <2>2. 0 - n = 0  BY <2>1
  <2> QED  BY <2>2 DEF n
<1> QED  BY <1>1, <1>2, <1>5, <1>6, <1>7 DEF Reached

LEMMA ConsumeReached ==
  ASSUME NEW q \in Seq(Lot), NEW qty \in Nat, NEW whole \in BOOLEAN
  PROVE  Reached(Consume(q, qty, whole).due, Consume(q, qty, whole).rest,
                 Consume(q, qty, whole).took, q, qty, whole, Len(q))
<1> DEFINE f == Takes(q, qty, whole)
           Good(k) == /\ f[k] = [due |-> f[k].due, rest |-> f[k].rest, took |-> f[k].took]
                      /\ Reached(f[k].due, f[k].rest, f[k].took, q, qty, whole, k)
           S == {k \in Nat : k <= Len(q) => Good(k)}
<1>0. Len(q) \in Nat  OBVIOUS
<1>1. 0 \in S
  <2>1. f[0] = [due |-> qty, rest |-> <<>>, took |-> <<>>]  BY TakesStep
  <2> HIDE DEF f
  <2>2. f[0].due = qty /\ f[0].rest = <<>> /\ f[0].took = <<>>  BY <2>1
  <2>3. Good(0)  BY <2>1, <2>2, NothingReached
  <2> QED  BY <2>3
<1>2. ASSUME NEW n \in Nat, n \in S PROVE n + 1 \in S
  <2> SUFFICES ASSUME n + 1 <= Len(q) PROVE Good(n + 1)  OBVIOUS
  <2> DEFINE k == n + 1
             a == f[n]
             lot == q[k]
  <2>1. k \in 1..Len(q) /\ k - 1 = n /\ n <= Len(q)  BY <1>0
  <2>8. f[k] = Reach(f[k - 1], lot, whole)
    <3> HIDE DEF k
    <3> QED  BY <2>1, TakesStep
  <2>2. f[k] = Reach(a, lot, whole)  BY <2>8, <2>1
  <2>3. Reached(a.due, a.rest, a.took, q, qty, whole, k - 1)
        /\ a = [due |-> a.due, rest |-> a.rest, took |-> a.took]
    BY <1>2, <2>1
  <2>4. a.due \in Int /\ lot.qty \in Int
    <3>1. lot \in Lot  BY <2>1
    <3> QED  BY <2>3, <3>1 DEF Reached, ReachedTypes, Lot
  <2> HIDE DEF f, k, a, lot
  <2>5. CASE a.due <= 0
    <3>1. f[k] = [a EXCEPT !.rest = Append(@, lot)]  BY <2>2, <2>5 DEF Reach
    <3>2. Reached(a.due, Append(a.rest, lot), a.took, q, qty, whole, k)
      BY <2>1, <2>3, <2>5, LotStays DEF lot
    <3>3. f[k].due = a.due /\ f[k].rest = Append(a.rest, lot) /\ f[k].took = a.took
      BY <3>1, <2>3
    <3>4. f[k] = [due |-> f[k].due, rest |-> f[k].rest, took |-> f[k].took]  BY <3>1, <2>3
    <3> QED  BY <3>2, <3>3, <3>4 DEF k
  <2>6. CASE a.due > 0 /\ lot.qty <= a.due + 1
    <3>2. Reached(a.due - lot.qty, a.rest, Append(a.took, Piece(lot, Took(a.due, lot, whole))),
                  q, qty, whole, k)
      BY <2>1, <2>3, <2>6, LotCloses DEF lot
    <3>3. f[k] = [due |-> a.due - lot.qty, rest |-> a.rest,
                  took |-> Append(a.took, Piece(lot, Took(a.due, lot, whole)))]
      <4>1. lot.qty <= a.due + 1 /\ ~ (a.due <= 0)  BY <2>4, <2>6
      <4> QED  BY <2>2, <4>1, Zenon DEF Reach
    <3>1. f[k].due = a.due - lot.qty /\ f[k].rest = a.rest
          /\ f[k].took = Append(a.took, Piece(lot, Took(a.due, lot, whole)))
      BY <3>3
    <3>4. f[k] = [due |-> f[k].due, rest |-> f[k].rest, took |-> f[k].took]  BY <3>3
    <3> QED  BY <3>1, <3>2, <3>4 DEF k
  <2>7. CASE a.due > 0 /\ lot.qty > a.due + 1
    <3>2. Reached(0, Append(a.rest, [lot EXCEPT !.qty = @ - a.due]),
                  Append(a.took, Piece(lot, Took(a.due, lot, whole))), q, qty, whole, k)
      BY <2>1, <2>3, <2>7, LotSplits DEF lot
    <3>3. f[k] = [due |-> 0, rest |-> Append(a.rest, [lot EXCEPT !.qty = @ - a.due]),
                  took |-> Append(a.took, Piece(lot, Took(a.due, lot, whole)))]
      <4>1. ~ (lot.qty <= a.due + 1) /\ ~ (a.due <= 0)  BY <2>4, <2>7
      <4> QED  BY <2>2, <4>1, Zenon DEF Reach
    <3>1. f[k].due = 0 /\ f[k].rest = Append(a.rest, [lot EXCEPT !.qty = @ - a.due])
          /\ f[k].took = Append(a.took, Piece(lot, Took(a.due, lot, whole)))
      BY <3>3
    <3>4. f[k] = [due |-> f[k].due, rest |-> f[k].rest, took |-> f[k].took]  BY <3>3
    <3> QED  BY <3>1, <3>2, <3>4 DEF k
  <2> QED  BY <2>4, <2>5, <2>6, <2>7 DEF k
<1>3. Nat \subseteq S
  <2> HIDE DEF S
  <2> QED  BY <1>1, <1>2, EveryNumber
<1>4. Good(Len(q))  BY <1>3, <1>0
<1> QED  BY <1>4, ConsumeIsTakes

----------------------------------------------------------------------------
\* Consume over a whole queue: every lot of it was reached or is left.

LEMMA Consumed ==
  ASSUME NEW q \in Seq(Lot), NEW qty \in Nat, NEW whole \in BOOLEAN, NEW rest, NEW took,
         rest = Consume(q, qty, whole).rest, took = Consume(q, qty, whole).took
  PROVE  /\ rest \in Seq(Lot) /\ took \in Seq(Taken) /\ Len(rest) <= Len(q)
         /\ FromTheFront(rest, q, Len(q) - Len(rest))
         /\ SplitOnce(rest, took, q, Len(q) - Len(rest))
         /\ EventsFit(took, q, Len(q) - Len(rest))
         /\ \E due \in Int :
              /\ due >= -1 /\ (due > 0 => rest = <<>>)
              /\ Balanced(due, rest, took, Units(Quantities(q)), Cost(q), qty, whole)
<1> DEFINE due == Consume(q, qty, whole).due
<1>1. Reached(due, rest, took, q, qty, whole, Len(q))  BY ConsumeReached
<1>2. Sum(Quantities(q), Len(q)) = Units(Quantities(q)) /\ Sum(Costs(q), Len(q)) = Cost(q)
  BY LotMeasures, UnitsAreSum DEF Cost
<1> HIDE DEF due
<1>3. Balanced(due, rest, took, Units(Quantities(q)), Cost(q), qty, whole)  BY <1>1, <1>2 DEF Reached
<1>4. rest \in Seq(Lot) /\ took \in Seq(Taken) /\ Len(rest) <= Len(q)
      /\ due \in Int /\ due >= -1 /\ (due > 0 => Len(rest) = 0)
  BY <1>1 DEF Reached, ReachedTypes
<1>5. due > 0 => rest = <<>>  BY <1>4
<1> QED  BY <1>1, <1>3, <1>4, <1>5 DEF Reached

\* What events of consecutive lots add to the units gone.
UnitsOf(took, i) == [k \in DOMAIN took |-> IF took[k].id = i THEN took[k].qty ELSE 0]
Plus(g, took) == [i \in DOMAIN g |-> g[i] + Units(UnitsOf(took, i))]

LEMMA UnitsOfOne ==
  ASSUME NEW took \in Seq(Taken), NEW d \in Nat, NEW j \in Nat,
         \A i \in 1..Len(took) : took[i].id = d + i
  PROVE  /\ j - d \in 1..Len(took) => Units(UnitsOf(took, j)) = took[j - d].qty
         /\ j - d \notin 1..Len(took) => Units(UnitsOf(took, j)) = 0
<1> DEFINE u == UnitsOf(took, j)
           n == Len(took)
<1>0. n \in Nat /\ DOMAIN took = 1..n  OBVIOUS
<1>1. \A i \in 1..n : took[i].qty \in Nat
  <2>1. \A i \in 1..n : took[i] \in Taken  OBVIOUS
  <2> QED  BY <2>1 DEF Taken
<1>2. \A i \in 1..n : u[i] = IF d + i = j THEN took[i].qty ELSE 0  BY <1>0 DEF UnitsOf
<1>3. u \in Seq(Int) /\ Len(u) = n  BY <1>0, <1>1 DEF UnitsOf
<1> HIDE DEF u
<1>4. ASSUME j - d \in 1..n PROVE Units(u) = took[j - d].qty
  <2> DEFINE x == took[j - d].qty
             s == <<x>>
             c == (j - d) - 1
  <2>1. x \in Int /\ c \in Nat /\ c + 1 = j - d /\ c + 1 <= n  BY <1>0, <1>1, <1>4
  <2>2. u[c + 1] = x  BY <1>2, <1>4, <2>1
  <2>3. \A i \in 1..n : i # j - d => u[i] = 0  BY <1>0, <1>2
  <2> HIDE DEF x, c
  <2>4. s \in Seq(Int) /\ Len(s) = 1 /\ s[1] = x  BY <2>1
  <2> HIDE DEF s
  <2>5. \A i \in 1..Len(s) : u[c + i] = s[i]  BY <2>2, <2>4
  <2>6. \A i \in 1..Len(u) : (i <= c \/ i > c + Len(s)) => u[i] = 0
    <3> SUFFICES ASSUME NEW i \in 1..n, i <= c \/ i > c + 1 PROVE u[i] = 0  BY <1>3, <2>4
    <3>1. i # j - d  BY <2>1
    <3> QED  BY <2>3, <3>1
  <2>7. Units(u) = Units(s)
    <3>1. c + Len(s) <= Len(u)  BY <2>1, <2>4, <1>3
    <3> QED  BY <1>3, <2>1, <2>4, <2>5, <2>6, <3>1, UnitsShift
  <2>8. s = Append(<<>>, x)  BY DEF s
  <2>9. <<>> \in Seq(Int)  OBVIOUS
  <2>10. Units(s) = 0 + x  BY <2>1, <2>8, <2>9, UnitsAppend, UnitsNone
  <2> QED  BY <2>1, <2>7, <2>10 DEF x
<1>5. ASSUME j - d \notin 1..n PROVE Units(u) = 0
  <2>1. \A i \in 1..n : u[i] = 0
    <3> TAKE i \in 1..n
    <3>1. d + i # j  BY <1>5, <1>0
    <3> QED  BY <1>2, <3>1
  <2> DEFINE s == <<>>
  <2>2. s \in Seq(Int) /\ Len(s) = 0  OBVIOUS
  <2>3. Units(s) = 0  BY UnitsNone
  <2> HIDE DEF s
  <2>4. 0 + Len(s) <= Len(u) /\ \A i \in 1..Len(s) : u[0 + i] = s[i]  BY <2>2, <1>0, <1>3
  <2>5. \A i \in 1..Len(u) : (i <= 0 \/ i > 0 + Len(s)) => u[i] = 0  BY <2>1, <1>3
  <2> QED  BY <1>3, <2>2, <2>3, <2>4, <2>5, UnitsShift
<1> QED  BY <1>4, <1>5 DEF u

LEMMA EventsRecorded ==
  ASSUME NEW g \in Seq(Nat), NEW took \in Seq(Taken), NEW d \in Nat,
         d + Len(took) <= Len(g), \A i \in 1..Len(took) : took[i].id = d + i
  PROVE  /\ Plus(g, took) \in Seq(Nat) /\ Len(Plus(g, took)) = Len(g)
         /\ \A j \in 1..Len(g) : (j <= d \/ j > d + Len(took)) => Plus(g, took)[j] = g[j]
         /\ \A i \in 1..Len(took) : Plus(g, took)[d + i] = g[d + i] + took[i].qty
         /\ Units(Plus(g, took)) = Units(g) + Units(EventUnits(took))
<1> DEFINE n == Len(took)
           m == Len(g)
           t == [j \in 1..m |-> Units(UnitsOf(took, j))]
           p == Plus(g, took)
<1>0. n \in Nat /\ m \in Nat /\ DOMAIN g = 1..m /\ g \in Seq(Int) /\ \A j \in 1..m : g[j] \in Nat  OBVIOUS
<1>1. \A i \in 1..n : took[i].qty \in Nat
  <2>1. \A i \in 1..n : took[i] \in Taken  OBVIOUS
  <2> QED  BY <2>1 DEF Taken
<1>2. \A j \in 1..m : (j <= d \/ j > d + n) => t[j] = 0
  <2> SUFFICES ASSUME NEW j \in 1..m, j <= d \/ j > d + n PROVE Units(UnitsOf(took, j)) = 0  OBVIOUS
  <2>1. j \in Nat /\ j - d \notin 1..n  BY <1>0
  <2> QED  BY <2>1, UnitsOfOne
<1>3. \A i \in 1..n : t[d + i] = took[i].qty
  <2> TAKE i \in 1..n
  <2>1. d + i \in 1..m /\ d + i \in Nat /\ (d + i) - d = i  BY <1>0
  <2>2. Units(UnitsOf(took, d + i)) = took[i].qty  BY <2>1, UnitsOfOne
  <2> QED  BY <2>1, <2>2
<1>4. \A j \in 1..m : t[j] \in Nat
  <2> TAKE j \in 1..m
  <2>1. CASE j <= d \/ j > d + n  BY <2>1, <1>2
  <2>2. CASE ~ (j <= d \/ j > d + n)
    <3>1. j - d \in 1..n /\ d + (j - d) = j  BY <2>2, <1>0
    <3>2. t[d + (j - d)] = took[j - d].qty  BY <3>1, <1>3
    <3> HIDE DEF t
    <3> QED  BY <3>1, <3>2, <1>1
  <2> QED  BY <2>1, <2>2
<1>5. t \in Seq(Int) /\ Len(t) = m  BY <1>0, <1>4
<1>6. \A j \in 1..m : p[j] = g[j] + t[j]  BY <1>0 DEF Plus
<1>7. DOMAIN p = 1..m /\ p = [j \in 1..m |-> p[j]]  BY <1>0 DEF Plus
<1> HIDE DEF t, p
<1>8. p \in Seq(Nat) /\ p \in Seq(Int) /\ Len(p) = m
  <2>1. \A j \in 1..m : p[j] \in Nat
    <3> TAKE j \in 1..m
    <3>1. g[j] \in Nat /\ t[j] \in Nat /\ p[j] = g[j] + t[j]  BY <1>0, <1>4, <1>6
    <3> QED  BY <3>1
  <2> QED  BY <1>0, <1>7, <2>1
<1>9. Units(p) = Units(g) + Units(t)  BY <1>0, <1>5, <1>6, <1>8, UnitsPlus
<1>10. Units(t) = Units(EventUnits(took))
  <2>1. EventUnits(took) \in Seq(Int) /\ Len(EventUnits(took)) = n
        /\ \A i \in 1..n : EventUnits(took)[i] = took[i].qty
    BY EventMeasures
  <2>2. \A i \in 1..n : t[d + i] = EventUnits(took)[i]  BY <1>3, <2>1
  <2> QED  BY <1>2, <1>5, <2>1, <2>2, UnitsShift
<1>11. \A j \in 1..m : (j <= d \/ j > d + n) => p[j] = g[j]
  <2> TAKE j \in 1..m
  <2> HAVE j <= d \/ j > d + n
  <2>1. t[j] = 0 /\ g[j] \in Nat  BY <1>0, <1>2
  <2> QED  BY <2>1, <1>6
<1>12. \A i \in 1..n : p[d + i] = g[d + i] + took[i].qty
  <2> TAKE i \in 1..n
  <2>1. d + i \in 1..m  BY <1>0
  <2> QED  BY <2>1, <1>3, <1>6
<1> QED  BY <1>8, <1>9, <1>10, <1>11, <1>12 DEF p

----------------------------------------------------------------------------
\* The queue l of open lots, the units a of all lots opened and the units g that
\* left them, at the constant level.

Books(l, a, g) ==
  /\ l \in Seq(Lot) /\ a \in Seq(Nat) /\ g \in Seq(Nat)
  /\ Len(g) = Len(a) /\ Len(l) <= Len(a)

Queue(l, a, g) ==
  /\ \A i \in 1..Len(l) :
       /\ l[i].id = (Len(a) - Len(l)) + i
       /\ g[l[i].id] + l[i].qty = a[l[i].id]
  /\ \A k \in 1..(Len(a) - Len(l)) : g[k] \in (a[k] - 1)..a[k]

Dated(l, m) ==
  /\ \A i \in 1..Len(l) : l[i].date <= m
  /\ \A i \in 2..Len(l) : l[i - 1].date <= l[i].date

Lost(l, a, g) == Units(a) - Units(g) - Units(Quantities(l))

Explained(l, a, g, trail) ==
  /\ trail \in Int /\ Cost(l) <= trail
  /\ Lost(l, a, g) = 0 => trail = Cost(l)

LEMMA BooksNumbers ==
  ASSUME NEW l, NEW a, NEW g, Books(l, a, g)
  PROVE  /\ Units(a) \in Nat /\ Units(g) \in Nat /\ Units(Quantities(l)) \in Nat /\ Cost(l) \in Nat
         /\ a \in Seq(Int) /\ g \in Seq(Int)
<1>1. l \in Seq(Lot) /\ a \in Seq(Nat) /\ g \in Seq(Nat)  BY DEF Books
<1>2. Units(a) \in Nat /\ Units(g) \in Nat  BY <1>1, UnitsNat
<1>3. Quantities(l) \in Seq(Nat) /\ Costs(l) \in Seq(Nat)  BY <1>1, LotMeasures
<1>4. Units(Quantities(l)) \in Nat /\ Units(Costs(l)) \in Nat  BY <1>3, UnitsNat
<1>5. a \in Seq(Int) /\ g \in Seq(Int)  BY <1>1
<1> QED  BY <1>2, <1>4, <1>5 DEF Cost

\* A lot that joins the back of the queue.
Joined(l, a, g, date, qty, price, l2, a2, g2) ==
  /\ l2 = Append(l, [id |-> Len(a) + 1, date |-> date, qty |-> qty, price |-> price])
  /\ a2 = Append(a, qty) /\ g2 = Append(g, 0)

LEMMA LotOpened ==
  ASSUME NEW l, NEW a, NEW g, NEW trail, NEW m \in Nat, NEW date \in Nat, NEW qty \in Nat \ {0},
         NEW price \in Nat, Books(l, a, g), Queue(l, a, g), Dated(l, m), m <= date,
         Explained(l, a, g, trail),
         NEW l2, NEW a2, NEW g2, Joined(l, a, g, date, qty, price, l2, a2, g2)
  PROVE  /\ Books(l2, a2, g2) /\ Queue(l2, a2, g2) /\ Dated(l2, date)
         /\ Lost(l2, a2, g2) = Lost(l, a, g)
         /\ Explained(l2, a2, g2, trail + qty * price)
         /\ Units(Quantities(l2)) = Units(Quantities(l)) + qty
<1> DEFINE n == Len(l)
           h == Len(a)
<1>0. l \in Seq(Lot) /\ a \in Seq(Nat) /\ g \in Seq(Nat) /\ Len(g) = h /\ n <= h /\ n \in Nat /\ h \in Nat
  BY DEF Books
<1> DEFINE lot == [id |-> Len(a) + 1, date |-> date, qty |-> qty, price |-> price]
<1>1. lot \in Lot /\ lot.qty = qty /\ lot.price = price /\ lot.id = h + 1 /\ lot.date = date
  BY <1>0 DEF Lot
<1>11. l2 = Append(l, lot)  BY DEF Joined
<1> HIDE DEF lot
<1>2. l2 \in Seq(Lot) /\ Len(l2) = n + 1 /\ l2[n + 1] = lot /\ \A i \in 1..n : l2[i] = l[i]
  BY <1>0, <1>1, <1>11
<1>3. a2 \in Seq(Nat) /\ Len(a2) = h + 1 /\ a2[h + 1] = qty /\ \A i \in 1..h : a2[i] = a[i]
  BY <1>0 DEF Joined
<1>4. g2 \in Seq(Nat) /\ Len(g2) = h + 1 /\ g2[h + 1] = 0 /\ \A i \in 1..h : g2[i] = g[i]
  BY <1>0 DEF Joined
<1>5. Books(l2, a2, g2)  BY <1>0, <1>2, <1>3, <1>4 DEF Books
<1>6. Queue(l2, a2, g2)
  <2>0. Len(a2) - Len(l2) = h - n  BY <1>0, <1>2, <1>3
  <2>1. ASSUME NEW i \in 1..Len(l2)
        PROVE  l2[i].id = (h - n) + i /\ g2[l2[i].id] + l2[i].qty = a2[l2[i].id]
    <3>1. CASE i \in 1..n
      <4>1. l[i].id = (h - n) + i /\ g[l[i].id] + l[i].qty = a[l[i].id]  BY <3>1 DEF Queue
      <4>3. (h - n) + i \in 1..h
        <5> HIDE DEF n, h
        <5> QED  BY <3>1, <1>0
      <4>4. l2[i] = l[i]  BY <3>1, <1>2
      <4>2. l[i].id \in 1..h /\ l2[i] = l[i]  BY <4>1, <4>3, <4>4
      <4> QED  BY <4>1, <4>2, <1>3, <1>4
    <3>2. CASE i = n + 1
      <4>1. l2[i] = lot /\ (h - n) + i = h + 1  BY <3>2, <1>0, <1>2
      <4>2. 0 + qty = qty  OBVIOUS
      <4> QED  BY <4>1, <4>2, <1>1, <1>3, <1>4
    <3> QED  BY <3>1, <3>2, <1>0, <1>2
  <2>2. ASSUME NEW k \in 1..(h - n) PROVE g2[k] \in (a2[k] - 1)..a2[k]
    <3>1. k \in 1..h  BY <1>0
    <3>2. g2[k] = g[k] /\ a2[k] = a[k]  BY <3>1, <1>3, <1>4
    <3> QED  BY <3>2 DEF Queue
  <2> QED  BY <2>0, <2>1, <2>2 DEF Queue
<1>7. Dated(l2, date)
  <2>1. \A i \in 1..n : l[i] \in Lot  BY <1>0
  <2>2. \A i \in 1..n : l[i].date \in Nat /\ l[i].date <= m  BY <2>1 DEF Lot, Dated
  <2>3. \A i \in 1..n : l[i].date <= date  BY <2>2
  <2>4. ASSUME NEW i \in 1..Len(l2) PROVE l2[i].date <= date
    <3>1. CASE i \in 1..n  BY <3>1, <2>3, <1>2
    <3>2. CASE i = n + 1  BY <3>2, <1>1, <1>2
    <3> QED  BY <3>1, <3>2, <1>0, <1>2
  <2>5. ASSUME NEW i \in 2..Len(l2) PROVE l2[i - 1].date <= l2[i].date
    <3>1. CASE i \in 2..n
      <4>2. i \in 1..n /\ i - 1 \in 1..n
        <5> HIDE DEF n
        <5> QED  BY <3>1, <1>0
      <4>1. l2[i] = l[i] /\ l2[i - 1] = l[i - 1]  BY <4>2, <1>2
      <4> QED  BY <4>1, <3>1 DEF Dated
    <3>2. CASE i = n + 1
      <4>1. i - 1 \in 1..n /\ l2[i] = lot  BY <3>2, <1>0, <1>2
      <4>2. l2[i - 1] = l[i - 1]  BY <4>1, <1>2
      <4> QED  BY <4>1, <4>2, <2>3, <1>1
    <3> QED  BY <3>1, <3>2, <1>0, <1>2
  <2> QED  BY <2>4, <2>5 DEF Dated
<1>8. Units(Quantities(l2)) = Units(Quantities(l)) + qty /\ Cost(l2) = Cost(l) + qty * price
  BY <1>0, <1>1, <1>11, QueueGrows
<1>9. Units(a2) = Units(a) + qty /\ Units(g2) = Units(g) + 0
  <2>1. a \in Seq(Int) /\ g \in Seq(Int) /\ qty \in Int /\ 0 \in Int  BY <1>0
  <2> QED  BY <2>1, UnitsAppend DEF Joined
<1>10. Lost(l2, a2, g2) = Lost(l, a, g)
  <2>1. Units(a) \in Int /\ Units(g) \in Int /\ Units(Quantities(l)) \in Int  BY BooksNumbers
  <2> QED  BY <2>1, <1>8, <1>9 DEF Lost
<1>12. Explained(l2, a2, g2, trail + qty * price)
  <2>1. Cost(l) \in Int  BY BooksNumbers
  <2>2. qty * price \in Int  OBVIOUS
  <2> QED  BY <2>1, <2>2, <1>8, <1>10 DEF Explained
<1> QED  BY <1>5, <1>6, <1>7, <1>8, <1>10, <1>12

\* Lots taken from the front of the queue.
TakenOut(l, g, qty, whole, rest, took, g2) ==
  /\ rest = Consume(l, qty, whole).rest /\ took = Consume(l, qty, whole).took
  /\ g2 = Plus(g, took)

LEMMA FrontTaken ==
  ASSUME NEW l, NEW a, NEW g, NEW trail, NEW m \in Nat, NEW qty \in Nat, NEW whole \in BOOLEAN,
         Books(l, a, g), Queue(l, a, g), Dated(l, m), Explained(l, a, g, trail),
         Lost(l, a, g) \in Nat,
         NEW rest, NEW took, NEW g2, TakenOut(l, g, qty, whole, rest, took, g2)
  PROVE  /\ Books(rest, a, g2) /\ Queue(rest, a, g2) /\ Dated(rest, m)
         /\ Explained(rest, a, g2, trail - Units(EventCosts(took)))
         /\ Lost(rest, a, g2) \in Lost(l, a, g)..(Lost(l, a, g) + 1)
         /\ whole => Lost(rest, a, g2) = Lost(l, a, g)
         /\ qty <= Units(Quantities(l)) =>
              Units(Quantities(rest)) - (Units(Quantities(l)) - qty) \in {-1, 0}
<1> DEFINE n == Len(l)
           h == Len(a)
           c == n - Len(rest)
           d == h - n
<1>0. l \in Seq(Lot) /\ a \in Seq(Nat) /\ g \in Seq(Nat) /\ Len(g) = h /\ n <= h /\ n \in Nat /\ h \in Nat
  BY DEF Books
<1>1. /\ rest \in Seq(Lot) /\ took \in Seq(Taken) /\ Len(rest) <= n
      /\ FromTheFront(rest, l, c) /\ SplitOnce(rest, took, l, c) /\ EventsFit(took, l, c)
  BY <1>0, Consumed DEF TakenOut
<1>2. PICK due \in Int :
        /\ due >= -1 /\ (due > 0 => rest = <<>>)
        /\ Balanced(due, rest, took, Units(Quantities(l)), Cost(l), qty, whole)
  BY <1>0, Consumed DEF TakenOut
<1>3. c \in Nat /\ d \in Nat /\ Len(rest) \in Nat /\ Len(took) \in Nat /\ c + Len(rest) = n /\ d + n = h
  BY <1>0, <1>1
<1>4. Len(took) <= n /\ (Len(took) = c \/ Len(took) = c + 1)
  <2>1. Len(took) = c \/ (Len(took) = c + 1 /\ Len(rest) > 0)  BY <1>1 DEF SplitOnce
  <2> HIDE DEF c, n
  <2> QED  BY <2>1, <1>3, <1>0
<1> HIDE DEF c, d
<1>5. \A i \in 1..n : l[i].id = d + i /\ g[d + i] + l[i].qty = a[d + i]
  BY DEF Queue, d
<1>6. \A i \in 1..Len(took) : took[i].id = d + i
  <2> TAKE i \in 1..Len(took)
  <2>1. i \in 1..n  BY <1>3, <1>4, <1>0
  <2> QED  BY <2>1, <1>1, <1>5 DEF EventsFit
<1>7. /\ g2 \in Seq(Nat) /\ Len(g2) = h
      /\ \A j \in 1..h : (j <= d \/ j > d + Len(took)) => g2[j] = g[j]
      /\ \A i \in 1..Len(took) : g2[d + i] = g[d + i] + took[i].qty
      /\ Units(g2) = Units(g) + Units(EventUnits(took))
  <2>1. d + Len(took) <= Len(g)  BY <1>0, <1>3, <1>4
  <2>2. Len(g) = h /\ g2 = Plus(g, took)  BY <1>0 DEF TakenOut
  <2> HIDE DEF h
  <2>3. /\ Plus(g, took) \in Seq(Nat) /\ Len(Plus(g, took)) = Len(g)
        /\ \A j \in 1..Len(g) : (j <= d \/ j > d + Len(took)) => Plus(g, took)[j] = g[j]
        /\ \A i \in 1..Len(took) : Plus(g, took)[d + i] = g[d + i] + took[i].qty
        /\ Units(Plus(g, took)) = Units(g) + Units(EventUnits(took))
    BY <2>1, <1>0, <1>1, <1>3, <1>6, EventsRecorded
  <2> QED  BY <2>2, <2>3
<1>8. Books(rest, a, g2)  BY <1>0, <1>1, <1>3, <1>7 DEF Books
<1>20. \A i \in 1..n : l[i].qty \in Nat /\ l[i].date \in Nat /\ d + i \in 1..h /\ a[d + i] \in Nat /\ g[d + i] \in Nat
  <2> TAKE i \in 1..n
  <2>3. l[i] \in Lot  BY <1>0
  <2>4. d + i \in 1..h
    <3> HIDE DEF n, h
    <3> QED  BY <1>0, <1>3
  <2>1. l[i] \in Lot /\ d + i \in 1..h  BY <2>3, <2>4
  <2>2. a[d + i] \in Nat /\ g[d + i] \in Nat
    <3> DEFINE x == d + i
    <3>1. x \in 1..Len(a) /\ x \in 1..Len(g)  BY <2>4, <1>0
    <3> HIDE DEF x, h, n
    <3>2. a \in Seq(Nat) /\ g \in Seq(Nat)  BY <1>0
    <3>3. a[x] \in Nat /\ g[x] \in Nat  BY <3>1, <3>2
    <3> QED  BY <3>3 DEF x
  <2> QED  BY <2>1, <2>2 DEF Lot
<1>21. \A i \in 1..Len(took) : took[i].qty \in Nat
  <2>1. \A i \in 1..Len(took) : took[i] \in Taken  BY <1>1
  <2> QED  BY <2>1 DEF Taken
<1>9. Queue(rest, a, g2)
  <2>0. Len(a) - Len(rest) = d + c  BY <1>0, <1>3
  <2>1. ASSUME NEW i \in 1..Len(rest)
        PROVE  rest[i].id = (d + c) + i /\ g2[rest[i].id] + rest[i].qty = a[rest[i].id]
    <3> DEFINE j == c + i
    <3>1. j \in 1..n /\ j \in Nat /\ d + j = (d + c) + i  BY <1>3
    <3>2. rest[i].id = d + j  BY <3>1, <1>1, <1>5 DEF FromTheFront
    <3>3. g[d + j] + l[j].qty = a[d + j]  BY <3>1, <1>5
    <3>4. CASE j > Len(took)
      <4>1. g2[d + j] = g[d + j]
        <5>1. d + j \in 1..h /\ d + j > d + Len(took)  BY <3>1, <3>4, <1>3, <1>20
        <5> QED  BY <5>1, <1>7
      <4>2. rest[i].qty = l[j].qty
        <5>1. CASE i > 1  BY <5>1, <1>1 DEF FromTheFront
        <5>2. CASE i = 1
          <6>1. Len(took) = c /\ Len(rest) > 0  BY <5>2, <3>4, <1>3, <1>4
          <6> QED  BY <6>1, <5>2, <1>1, <1>3 DEF SplitOnce
        <5> QED  BY <5>1, <5>2, <1>3
      <4> QED  BY <3>1, <3>2, <3>3, <4>1, <4>2
    <3>5. CASE j <= Len(took)
      <4>1. i = 1 /\ j = c + 1 /\ Len(took) = c + 1 /\ j \in 1..Len(took)  BY <3>1, <3>5, <1>3, <1>4
      <4>2. took[j].qty + rest[i].qty = l[j].qty
        <5>1. Len(took) # c  BY <4>1, <1>3
        <5> QED  BY <5>1, <4>1, <1>1 DEF SplitOnce
      <4>3. g2[d + j] = g[d + j] + took[j].qty  BY <4>1, <1>7
      <4>4. rest[i] \in Lot  BY <1>1
      <4>5. rest[i].qty \in Nat /\ took[j].qty \in Nat /\ g[d + j] \in Nat
        BY <4>1, <4>4, <3>1, <1>20, <1>21 DEF Lot
      <4> HIDE DEF j
      <4>6. g2[d + j] + rest[i].qty = a[d + j]  BY <3>3, <4>2, <4>3, <4>5
      <4> QED  BY <3>1, <3>2, <4>6
    <3> QED  BY <3>1, <3>4, <3>5, <1>3
  <2>2. ASSUME NEW k \in 1..(d + c) PROVE g2[k] \in (a[k] - 1)..a[k]
    <3>0. k \in Nat /\ k \in 1..h  BY <1>3
    <3>1. CASE k <= d
      <4>1. g2[k] = g[k]  BY <3>0, <3>1, <1>7
      <4>2. k \in 1..(Len(a) - Len(l))  BY <3>0, <3>1, <1>3 DEF d
      <4> QED  BY <4>1, <4>2 DEF Queue
    <3>2. CASE k > d
      <4> DEFINE j == k - d
      <4>1. j \in 1..n /\ d + j = k /\ j <= c /\ j \in 1..Len(took) /\ j \in Nat  BY <3>0, <3>2, <1>3, <1>4
      <4> HIDE DEF j
      <4>2. took[j].qty \in (l[j].qty - 1)..l[j].qty  BY <4>1, <1>1 DEF EventsFit
      <4>3. g2[k] = g[k] + took[j].qty /\ g[k] + l[j].qty = a[k]  BY <4>1, <1>5, <1>7
      <4>4. l[j].qty \in Nat /\ g[k] \in Nat /\ took[j].qty \in Nat  BY <4>1, <1>20, <1>21
      <4> QED  BY <4>2, <4>3, <4>4
    <3> QED  BY <3>0, <3>1, <3>2, <1>3
  <2> QED  BY <2>0, <2>1, <2>2 DEF Queue
<1>10. Dated(rest, m)
  <2>1. \A i \in 1..Len(rest) : rest[i].date = l[c + i].date  BY <1>1 DEF FromTheFront
  <2>2. ASSUME NEW i \in 1..Len(rest) PROVE rest[i].date <= m
    <3>1. c + i \in 1..n  BY <1>3
    <3> QED  BY <2>1, <3>1 DEF Dated
  <2>3. ASSUME NEW i \in 2..Len(rest) PROVE rest[i - 1].date <= rest[i].date
    <3>1. i \in 1..Len(rest) /\ i - 1 \in 1..Len(rest) /\ c + i \in 2..n /\ c + (i - 1) = (c + i) - 1  BY <1>3
    <3> QED  BY <2>1, <3>1 DEF Dated
  <2> QED  BY <2>2, <2>3 DEF Dated
<1> DEFINE u == Units(Quantities(l))
           v == Cost(l)
           left == Units(Quantities(rest))
           ev == Units(EventUnits(took))
           evc == Units(EventCosts(took))
           co == Cost(rest)
           ua == Units(a)
           ug == Units(g)
           w == Lost(l, a, g)
           w2 == Lost(rest, a, g2)
<1>11. u \in Nat /\ v \in Nat /\ ua \in Nat /\ ug \in Nat /\ left \in Nat /\ co \in Nat
  <2>1. u \in Nat /\ v \in Nat /\ ua \in Nat /\ ug \in Nat  BY BooksNumbers
  <2>2. left \in Nat /\ co \in Nat  BY <1>8, BooksNumbers
  <2> QED  BY <2>1, <2>2
<1>12. ev \in Int /\ evc \in Int  BY <1>1, EventMeasures, UnitsInt
<1>13. /\ left = u - (qty - due)
       /\ ev + left = u \/ (ev + left = u - 1 /\ due = -1 /\ ~whole)
       /\ evc + co <= v
       /\ ev + left = u => evc + co = v
  BY <1>2 DEF Balanced
<1>14. w = (ua - ug) - u /\ w2 = (ua - (ug + ev)) - left
  BY <1>7 DEF Lost
<1>15. trail \in Int /\ v <= trail /\ (w = 0 => trail = v) /\ w \in Nat
  BY DEF Explained
<1>16. left = 0 \/ due <= 0
  <2>1. CASE due > 0
    <3>1. rest = <<>>  BY <2>1, <1>2
    <3>2. Quantities(rest) \in Seq(Int) /\ Len(Quantities(rest)) = 0  BY <1>1, <3>1, LotMeasures
    <3>3. Quantities(rest) = <<>>  BY <3>2
    <3> QED  BY <3>3, UnitsNone
  <2> QED  BY <2>1, <1>2
<1> HIDE DEF u, v, left, ev, evc, co, ua, ug, w, w2
<1>17. w2 = w \/ (w2 = w + 1 /\ ~whole)  BY <1>11, <1>12, <1>13, <1>14
<1>18. co <= trail - evc /\ (w2 = 0 => trail - evc = co) /\ trail - evc \in Int
  <2>1. co <= trail - evc /\ trail - evc \in Int  BY <1>11, <1>12, <1>13, <1>15
  <2>2. ASSUME w2 = 0 PROVE trail - evc = co
    <3>1. w = 0 /\ w2 = w  BY <2>2, <1>15, <1>17
    <3>2. ev + left = u  BY <3>1, <1>11, <1>12, <1>14
    <3> QED  BY <3>1, <3>2, <1>11, <1>12, <1>13, <1>15
  <2> QED  BY <2>1, <2>2
<1>19. qty <= u => left - (u - qty) \in {-1, 0}
  <2> SUFFICES ASSUME qty <= u PROVE left - (u - qty) \in {-1, 0}  OBVIOUS
  <2>1. left - (u - qty) = due  BY <1>11, <1>13
  <2>2. due <= 0  BY <1>11, <1>13, <1>16, <1>2
  <2>3. due = -1 \/ due = 0  BY <2>2, <1>2
  <2> QED  BY <2>1, <2>3
<1>22. Explained(rest, a, g2, trail - Units(EventCosts(took)))  BY <1>18 DEF Explained, w2, co, evc
<1>23. w2 \in w..(w + 1) /\ (whole => w2 = w)  BY <1>15, <1>17
<1>24. Lost(rest, a, g2) \in Lost(l, a, g)..(Lost(l, a, g) + 1) /\ (whole => Lost(rest, a, g2) = Lost(l, a, g))
  BY <1>23 DEF w, w2
<1>25. qty <= Units(Quantities(l)) => Units(Quantities(rest)) - (Units(Quantities(l)) - qty) \in {-1, 0}
  BY <1>19 DEF u, left
<1> QED  BY <1>8, <1>9, <1>10, <1>22, <1>24, <1>25

----------------------------------------------------------------------------
\* The inductive invariant: where the replay stands, and the books of its lots.

Replay ==
  /\ step \in {"market", "buy", "sell", "quantity", "basis", "done", "failed"}
  /\ upto \in 0..Beyond /\ firstBuy \in NoPurchase..Beyond
  /\ unread \in [buy : 1..Beyond + 1, sale : 1..Beyond + 1]
  /\ count \in [buys : Nat, sales : Nat, scalings : Nat]
  /\ den \in Nat \ {0} /\ reported \in Nat /\ valued \subseteq 1..MaxDay
  /\ step \in {"buy", "sell", "quantity", "basis"} => upto >= 1
  /\ step \in {"quantity", "basis"} => upto <= MaxDay
  /\ step \in {"sell", "quantity", "basis"} => unread.buy = upto + 1

LotBooks ==
  /\ Books(lots, acquired, gone) /\ Queue(lots, acquired, gone)
  /\ Dated(lots, upto) /\ Dated(lots, unread.buy)
  /\ Lost(lots, acquired, gone) \in 0..count.sales
  /\ Explained(lots, acquired, gone, costTrail)

LotInv == Replay /\ LotBooks /\ BrokerAgrees

LEMMA DatedLater ==
  ASSUME NEW l, NEW m \in Nat, NEW n \in Nat, l \in Seq(Lot), m <= n, Dated(l, m)
  PROVE  Dated(l, n)
<1>1. \A i \in 1..Len(l) : l[i] \in Lot  OBVIOUS
<1>2. \A i \in 1..Len(l) : l[i].date \in Nat /\ l[i].date <= m  BY <1>1 DEF Lot, Dated
<1>3. \A i \in 1..Len(l) : l[i].date <= n  BY <1>2
<1> QED  BY <1>3 DEF Dated

LEMMA Constants ==
  /\ MaxDay \in Nat /\ MaxDay >= 1 /\ Beyond \in Nat /\ Beyond = MaxDay + 1
  /\ BuyQtys \subseteq Nat \ {0} /\ SaleQtys \subseteq Nat \ {0}
  /\ BuyPrices \subseteq Nat \ {0} /\ Reports \subseteq Nat
  /\ \A b \in Bases : Summed(b) \in Nat
<1>1. \A b \in Bases : Summed(b) \in Nat  BY LotConstants DEF Summed
<1> QED  BY <1>1, LotConstants DEF Beyond

LEMMA OpenIsNat == ASSUME LotBooks PROVE Open \in Nat /\ Cost(lots) \in Nat
  BY BooksNumbers DEF LotBooks, Open

LEMMA ReplayKept ==
  ASSUME Replay, LotBooks, [Next]_vars
  PROVE  Replay'
<1> USE DEF NoPurchase
<1>0. UNCHANGED vars => Replay'  BY DEF vars, Replay
<1>1. ASSUME NEW d \in 1..MaxDay, MarketRow(d) PROVE Replay'
  BY <1>1, Constants DEF MarketRow, Replay
<1>2. ASSUME LastRow PROVE Replay'
  BY <1>2, Constants DEF LastRow, Replay
<1>3. ASSUME PurchasesDone PROVE Replay'
  BY <1>3, Constants DEF PurchasesDone, Replay
<1>4. ASSUME SalesDone PROVE Replay'
  BY <1>4, Constants DEF SalesDone, Replay
<1>5. ASSUME Refuse PROVE Replay'
  BY <1>5, Constants DEF Refuse, Replay
<1>6. ASSUME NEW d \in 1..Beyond, NEW q \in BuyQtys, NEW p \in BuyPrices, Purchase(d, q, p) PROVE Replay'
  BY <1>6, Constants DEF Purchase, Replay
<1>7. ASSUME NEW d \in 1..Beyond, NEW q \in SaleQtys, Sale(d, q) PROVE Replay'
  BY <1>7, Constants DEF Sale, Replay
<1>8. ASSUME NEW q \in Reports, ReconcileQuantity(q) PROVE Replay'
  BY <1>8, Constants DEF ReconcileQuantity, Replay
<1>9. ASSUME NEW b \in Bases, ReconcileBasis(b) PROVE Replay'
  <2>1. step = "basis" /\ step' = "market" /\ Snapshot
        /\ UNCHANGED <<upto, firstBuy, unread, acquired, gone, reported>>
    BY <1>9 DEF ReconcileBasis
  <2>2. valued' \subseteq 1..MaxDay
    BY <2>1, Constants DEF Snapshot, Replay
  <2>3. den' \in Nat \ {0} /\ count' \in [buys : Nat, sales : Nat, scalings : Nat]
    <3>1. CASE BasisStands(Summed(b)) /\ UNCHANGED <<lots, den, costTrail, count>>
      BY <3>1 DEF Replay
    <3>2. CASE /\ ~BasisStands(Summed(b)) /\ den' = den * Cost(lots)
               /\ count' = [count EXCEPT !.scalings = @ + 1]
      <4>1. Cost(lots) # 0  BY <3>2 DEF BasisStands
      <4>2. Cost(lots) \in Nat /\ den \in Nat \ {0}  BY OpenIsNat DEF Replay
      <4>3. den * Cost(lots) \in Nat \ {0}  BY <4>1, <4>2
      <4>4. count' \in [buys : Nat, sales : Nat, scalings : Nat]  BY <3>2 DEF Replay
      <4> QED  BY <3>2, <4>3, <4>4
    <3> QED  BY <1>9, <3>1, <3>2 DEF ReconcileBasis
  <2> QED  BY <2>1, <2>2, <2>3 DEF Replay
<1> QED  BY <1>0, <1>1, <1>2, <1>3, <1>4, <1>5, <1>6, <1>7, <1>8, <1>9 DEF Next

\* The books are left alone while the replay moves on to later records.
LEMMA BooksIdle ==
  ASSUME LotBooks, Replay, UNCHANGED <<lots, acquired, gone, costTrail>>,
         count'.sales = count.sales, upto' \in Nat, upto <= upto',
         unread'.buy \in Nat, unread.buy <= unread'.buy \/ upto <= unread'.buy
  PROVE  LotBooks'
<1>1. lots \in Seq(Lot) /\ upto \in Nat /\ unread.buy \in Nat
      /\ Dated(lots, upto) /\ Dated(lots, unread.buy)
  BY Constants DEF LotBooks, Books, Replay
<1>2. Dated(lots, upto') /\ Dated(lots, unread'.buy)  BY <1>1, DatedLater
<1>3. Books(lots, acquired, gone)' /\ Queue(lots, acquired, gone)'
      /\ Lost(lots, acquired, gone)' = Lost(lots, acquired, gone)
      /\ Explained(lots, acquired, gone, costTrail)'
  BY DEF LotBooks, Books, Queue, Lost, Explained
<1>4. Dated(lots, upto)' /\ Dated(lots, unread.buy)'  BY <1>2
<1>5. Lost(lots, acquired, gone)' \in 0..count'.sales  BY <1>3 DEF LotBooks
<1> QED  BY <1>3, <1>4, <1>5 DEF LotBooks

LEMMA BooksOpen ==
  ASSUME LotBooks, Replay, NEW m \in {upto, unread.buy}, NEW date \in Nat, NEW qty \in Nat \ {0},
         NEW price \in Nat, OpenLot(date, qty, price), m <= date, UNCHANGED <<upto>>,
         date <= upto, unread'.buy \in Nat, date <= unread'.buy, count'.sales = count.sales
  PROVE  LotBooks' /\ Open' = Open + qty
<1>1. m \in Nat /\ Dated(lots, m) /\ upto \in Nat  BY Constants DEF LotBooks, Replay
<1>2. Joined(lots, acquired, gone, date, qty, price, lots', acquired', gone')
      /\ costTrail' = costTrail + qty * price
  BY DEF OpenLot, Joined
<1>3. Books(lots, acquired, gone) /\ Queue(lots, acquired, gone)
      /\ Explained(lots, acquired, gone, costTrail)
  BY DEF LotBooks
<1>4. /\ Books(lots', acquired', gone') /\ Queue(lots', acquired', gone') /\ Dated(lots', date)
      /\ Lost(lots', acquired', gone') = Lost(lots, acquired, gone)
      /\ Explained(lots', acquired', gone', costTrail')
      /\ Units(Quantities(lots')) = Units(Quantities(lots)) + qty
  <2>1. Explained(lots', acquired', gone', costTrail + qty * price)
        /\ Books(lots', acquired', gone') /\ Queue(lots', acquired', gone') /\ Dated(lots', date)
        /\ Lost(lots', acquired', gone') = Lost(lots, acquired, gone)
        /\ Units(Quantities(lots')) = Units(Quantities(lots)) + qty
    BY <1>1, <1>2, <1>3, LotOpened
  <2> QED  BY <2>1, <1>2
<1>5. Dated(lots', upto) /\ Dated(lots', unread'.buy)
  <2>1. lots' \in Seq(Lot)  BY <1>4 DEF Books
  <2> QED  BY <2>1, <1>1, <1>4, DatedLater
<1>6. Lost(lots', acquired', gone') \in 0..count'.sales  BY <1>4 DEF LotBooks
<1> QED  BY <1>4, <1>5, <1>6 DEF LotBooks, Open

LEMMA BooksTaken ==
  ASSUME LotBooks, Replay, NEW qty \in Nat, NEW whole \in BOOLEAN,
         lots' = Consume(lots, qty, whole).rest, Record(Consume(lots, qty, whole).took),
         UNCHANGED <<acquired, upto>>, unread'.buy = unread.buy,
         count'.sales = IF whole THEN count.sales ELSE count.sales + 1
  PROVE  LotBooks' /\ (qty <= Open => Open' - (Open - qty) \in {-1, 0})
<1> DEFINE took == Consume(lots, qty, whole).took
<1>1. TakenOut(lots, gone, qty, whole, lots', took, gone')
      /\ costTrail' = costTrail - Units(EventCosts(took))
  BY DEF TakenOut, Record, Plus, UnitsOf, EventCosts
<1> HIDE DEF took
<1>2. Books(lots, acquired, gone) /\ Queue(lots, acquired, gone)
      /\ Explained(lots, acquired, gone, costTrail)
  BY DEF LotBooks
<1>3. upto \in Nat /\ unread.buy \in Nat /\ count.sales \in Nat  BY Constants DEF Replay
<1>4. Lost(lots, acquired, gone) \in Nat /\ Lost(lots, acquired, gone) <= count.sales
  BY <1>3 DEF LotBooks
<1>5. ASSUME NEW m \in Nat, Dated(lots, m)
      PROVE  /\ Books(lots', acquired, gone') /\ Queue(lots', acquired, gone') /\ Dated(lots', m)
             /\ Explained(lots', acquired, gone', costTrail - Units(EventCosts(took)))
             /\ Lost(lots', acquired, gone') \in Lost(lots, acquired, gone)..(Lost(lots, acquired, gone) + 1)
             /\ whole => Lost(lots', acquired, gone') = Lost(lots, acquired, gone)
             /\ qty <= Units(Quantities(lots)) =>
                  Units(Quantities(lots')) - (Units(Quantities(lots)) - qty) \in {-1, 0}
  BY <1>1, <1>2, <1>4, <1>5, FrontTaken
<1>6. Dated(lots, upto) /\ Dated(lots, unread.buy)  BY DEF LotBooks
<1>7. Dated(lots', upto') /\ Dated(lots', unread'.buy)  BY <1>3, <1>5, <1>6
<1>8. Explained(lots', acquired', gone', costTrail')  BY <1>1, <1>3, <1>5, <1>6
<1>9. Lost(lots', acquired', gone') \in 0..count'.sales
  <2> DEFINE w == Lost(lots, acquired, gone)
             w2 == Lost(lots', acquired', gone')
  <2>1. w2 \in w..(w + 1) /\ (whole => w2 = w)  BY <1>3, <1>5, <1>6
  <2>2. w \in Nat /\ w <= count.sales  BY <1>4
  <2> HIDE DEF w, w2
  <2>3. w2 \in 0..count'.sales
    <3>1. CASE whole  BY <3>1, <2>1, <2>2, <1>3
    <3>2. CASE ~whole  BY <3>2, <2>1, <2>2, <1>3
    <3> QED  BY <3>1, <3>2
  <2> QED  BY <2>3 DEF w2
<1>10. Books(lots', acquired', gone') /\ Queue(lots', acquired', gone')  BY <1>3, <1>5, <1>6
<1>11. qty <= Open => Open' - (Open - qty) \in {-1, 0}  BY <1>3, <1>5, <1>6 DEF Open
<1> QED  BY <1>7, <1>8, <1>9, <1>10, <1>11 DEF LotBooks

\* Multiplying every price by one factor multiplies the cost by it.
Scaled(l, f, den0) == [i \in DOMAIN l |-> [l[i] EXCEPT !.price = @ * f * den0]]

LEMMA PricesScaled ==
  ASSUME NEW l, NEW a, NEW g, NEW trail, NEW m \in Nat, NEW n \in Nat, NEW f \in Nat, NEW e \in Nat,
         Books(l, a, g), Queue(l, a, g), Dated(l, m), Dated(l, n), Explained(l, a, g, trail),
         NEW r, r = Scaled(l, f, e)
  PROVE  /\ Books(r, a, g) /\ Queue(r, a, g) /\ Dated(r, m) /\ Dated(r, n)
         /\ Lost(r, a, g) = Lost(l, a, g) /\ Units(Quantities(r)) = Units(Quantities(l))
         /\ Explained(r, a, g, trail * Cost(l) + (Cost(r) - Cost(l) * Cost(l)))
<1>0. l \in Seq(Lot) /\ Len(l) \in Nat /\ DOMAIN l = 1..Len(l)  BY DEF Books
<1>1. ASSUME NEW i \in 1..Len(l)
      PROVE  /\ r[i] \in Lot /\ r[i].id = l[i].id /\ r[i].date = l[i].date
             /\ r[i].qty = l[i].qty /\ r[i].price = l[i].price * f * e
             /\ l[i].qty \in Nat /\ l[i].price \in Nat
  <2>1. r[i] = [l[i] EXCEPT !.price = @ * f * e]  BY <1>0 DEF Scaled
  <2>2. l[i] \in Lot  BY <1>0
  <2>3. l[i].price \in Nat /\ l[i].qty \in Nat  BY <2>2 DEF Lot
  <2>4. l[i].price * f * e \in Nat  BY <2>3
  <2> QED  BY <2>1, <2>2, <2>3, <2>4 DEF Lot
<1>2. r \in Seq(Lot) /\ Len(r) = Len(l)
  <2>1. r = [i \in 1..Len(l) |-> r[i]]  BY <1>0 DEF Scaled
  <2> QED  BY <2>1, <1>0, <1>1
<1>3. Books(r, a, g)  BY <1>2 DEF Books
<1>4. Queue(r, a, g)  BY <1>1, <1>2 DEF Queue
<1>5. ASSUME NEW k, Dated(l, k) PROVE Dated(r, k)
  <2>1. \A i \in 2..Len(l) : i \in 1..Len(l) /\ i - 1 \in 1..Len(l)  BY <1>0
  <2> QED  BY <1>1, <1>2, <1>5, <2>1 DEF Dated
<1>6. Quantities(r) = Quantities(l)
  <2>1. DOMAIN r = DOMAIN l  BY <1>0 DEF Scaled
  <2> QED  BY <1>0, <1>1, <2>1 DEF Quantities
<1>7. Units(Quantities(r)) = Units(Quantities(l)) /\ Lost(r, a, g) = Lost(l, a, g)
  BY <1>6 DEF Lost
<1>8. Cost(r) = Cost(l) * (f * e)
  <2>1. Costs(l) \in Seq(Int) /\ Costs(r) \in Seq(Int) /\ Len(Costs(l)) = Len(l) /\ Len(Costs(r)) = Len(l)
    BY <1>0, <1>2, LotMeasures
  <2>2. f * e \in Int  OBVIOUS
  <2>3. ASSUME NEW i \in 1..Len(Costs(l)) PROVE Costs(r)[i] = Costs(l)[i] * (f * e)
    <3>1. i \in 1..Len(l)  BY <2>1
    <3>2. Costs(r)[i] = r[i].qty * r[i].price /\ Costs(l)[i] = l[i].qty * l[i].price
      BY <3>1, <1>0, <1>2, LotMeasures
    <3> DEFINE x == l[i].qty
               y == l[i].price
    <3>3. x \in Nat /\ y \in Nat /\ r[i].qty = x /\ r[i].price = y * f * e  BY <3>1, <1>1
    <3> HIDE DEF x, y
    <3>4. x * (y * f * e) = (x * y) * (f * e)  BY <3>3
    <3> QED  BY <3>2, <3>3, <3>4 DEF x, y
  <2>4. Units(Costs(r)) = Units(Costs(l)) * (f * e)  BY <2>1, <2>2, <2>3, UnitsTimes
  <2> QED  BY <2>4 DEF Cost
<1>9. Explained(r, a, g, trail * Cost(l) + (Cost(r) - Cost(l) * Cost(l)))
  <2> DEFINE t == Cost(l)
             z == Cost(r)
             w == Lost(l, a, g)
  <2>1. t \in Nat /\ z \in Nat  BY <1>3, BooksNumbers
  <2>2. trail \in Int /\ t <= trail /\ (w = 0 => trail = t)  BY DEF Explained
  <2> HIDE DEF t, z, w
  <2>3. (trail - t) * t \in Nat
    <3>1. trail - t \in Nat  BY <2>1, <2>2
    <3> DEFINE s == trail - t
    <3> HIDE DEF s
    <3>2. \A p, q \in Nat : p * q \in Nat  OBVIOUS
    <3> QED  BY <3>1, <3>2, <2>1
  <2>4. (trail - t) * t = trail * t - t * t /\ trail * t \in Int /\ t * t \in Int  BY <2>1, <2>2
  <2>5. trail * t + (z - t * t) \in Int /\ z <= trail * t + (z - t * t)
    <3> DEFINE p == trail * t
               q == t * t
    <3>1. p \in Int /\ q \in Int /\ p - q \in Nat  BY <2>3, <2>4
    <3> HIDE DEF p, q
    <3>2. p + (z - q) \in Int /\ z <= p + (z - q)  BY <3>1, <2>1
    <3> QED  BY <3>2 DEF p, q
  <2>6. w = 0 => trail * t + (z - t * t) = z  BY <2>1, <2>2
  <2> QED  BY <2>5, <2>6, <1>7 DEF Explained, t, z, w
<1> QED  BY <1>3, <1>4, <1>5, <1>7, <1>9

LEMMA QuantityReconciled ==
  ASSUME LotBooks, Replay, NEW qty \in Reports, ReconcileQuantity(qty)
  PROVE  LotBooks' /\ Open' \in (qty - 1)..(qty + 1)
<1>0. /\ qty \in Nat /\ Open \in Nat /\ upto \in Nat /\ upto >= 1 /\ unread.buy = upto + 1
      /\ unread' = unread /\ upto' = upto /\ count' = count
  BY Constants, OpenIsNat DEF ReconcileQuantity, Replay
<1>1. CASE qty > Open + 1 /\ OpenLot(upto, qty - Open, 0)
  <2>1. qty - Open \in Nat \ {0}  BY <1>0, <1>1
  <2>2. LotBooks' /\ Open' = Open + (qty - Open)
    <3>1. upto <= unread'.buy /\ unread'.buy \in Nat /\ upto <= upto /\ 0 \in Nat  BY <1>0
    <3> QED  BY <1>0, <1>1, <2>1, <3>1, BooksOpen
  <2> QED  BY <1>0, <2>2
<1>2. CASE /\ qty < Open - 1 /\ UNCHANGED acquired
           /\ lots' = Consume(lots, Open - qty, TRUE).rest
           /\ Record(Consume(lots, Open - qty, TRUE).took)
  <2>1. Open - qty \in Nat /\ Open - qty <= Open  BY <1>0, <1>2
  <2>2. LotBooks' /\ Open' - (Open - (Open - qty)) \in {-1, 0}
    BY <1>0, <1>2, <2>1, BooksTaken
  <2>3. Open' \in Nat  BY <2>2, BooksNumbers DEF LotBooks, Open
  <2>4. Open - (Open - qty) = qty  BY <1>0
  <2>5. Open' - qty \in {-1, 0}  BY <2>2, <2>4
  <2>6. Open' \in (qty - 1)..(qty + 1)
    <3> DEFINE x == Open'
    <3>1. x \in Nat /\ (x - qty = -1 \/ x - qty = 0)  BY <2>3, <2>5
    <3> HIDE DEF x
    <3>2. x \in (qty - 1)..(qty + 1)  BY <3>1, <1>0
    <3> QED  BY <3>2 DEF x
  <2> QED  BY <2>2, <2>6
<1>3. CASE qty \in (Open - 1)..(Open + 1) /\ UNCHANGED <<lots, acquired, gone, costTrail>>
  <2>1. LotBooks'
    <3>1. upto' \in Nat /\ upto <= upto' /\ unread'.buy \in Nat /\ unread.buy <= unread'.buy
          /\ count'.sales = count.sales
      BY <1>0
    <3> QED  BY <1>3, <3>1, BooksIdle
  <2>2. Open' = Open  BY <1>3 DEF Open
  <2> QED  BY <1>0, <1>3, <2>1, <2>2
<1> QED  BY <1>1, <1>2, <1>3 DEF ReconcileQuantity

LEMMA BasisReconciled ==
  ASSUME LotBooks, Replay, NEW b \in Bases, ReconcileBasis(b)
  PROVE  LotBooks'
<1>0. /\ upto \in Nat /\ unread.buy \in Nat /\ den \in Nat /\ Summed(b) \in Nat
      /\ unread' = unread /\ upto' = upto /\ acquired' = acquired /\ gone' = gone
  BY Constants DEF ReconcileBasis, Replay
<1>1. CASE UNCHANGED <<lots, den, costTrail, count>>
  <2>1. upto' \in Nat /\ upto <= upto' /\ unread'.buy \in Nat /\ unread.buy <= unread'.buy
        /\ count'.sales = count.sales
    BY <1>0, <1>1
  <2> QED  BY <1>0, <1>1, <2>1, BooksIdle
<1>2. CASE /\ lots' = [i \in DOMAIN lots |-> [lots[i] EXCEPT !.price = @ * Summed(b) * den]]
           /\ costTrail' = costTrail * Cost(lots) + (Cost(lots') - Cost(lots) * Cost(lots))
           /\ count' = [count EXCEPT !.scalings = @ + 1]
  <2>1. lots' = Scaled(lots, Summed(b), den)  BY <1>2 DEF Scaled
  <2>2. count'.sales = count.sales  BY <1>2 DEF Replay
  <2>3. Books(lots, acquired, gone) /\ Queue(lots, acquired, gone) /\ Dated(lots, upto)
        /\ Dated(lots, unread.buy) /\ Explained(lots, acquired, gone, costTrail)
        /\ Lost(lots, acquired, gone) \in 0..count.sales
    BY DEF LotBooks
  <2>4. /\ Books(lots', acquired, gone) /\ Queue(lots', acquired, gone)
        /\ Dated(lots', upto) /\ Dated(lots', unread.buy)
        /\ Lost(lots', acquired, gone) = Lost(lots, acquired, gone)
        /\ Explained(lots', acquired, gone,
                     costTrail * Cost(lots) + (Cost(lots') - Cost(lots) * Cost(lots)))
    BY <1>0, <2>1, <2>3, PricesScaled
  <2>5. Explained(lots', acquired', gone', costTrail')  BY <1>0, <1>2, <2>4
  <2> QED  BY <1>0, <2>2, <2>3, <2>4, <2>5 DEF LotBooks
<1> QED  BY <1>1, <1>2 DEF ReconcileBasis

LEMMA BooksKept ==
  ASSUME LotBooks, Replay, [Next]_vars
  PROVE  LotBooks'
<1>0. upto \in Nat /\ unread.buy \in Nat  BY Constants DEF Replay
<1>1. ASSUME UNCHANGED vars PROVE LotBooks'
  <2>1. UNCHANGED <<lots, acquired, gone, costTrail>> /\ count' = count /\ upto' = upto /\ unread' = unread
    BY <1>1 DEF vars
  <2>2. upto' \in Nat /\ upto <= upto' /\ unread'.buy \in Nat /\ unread.buy <= unread'.buy
        /\ count'.sales = count.sales
    BY <1>0, <2>1
  <2> QED  BY <2>1, <2>2, BooksIdle
<1>2. ASSUME NEW d \in 1..MaxDay, MarketRow(d) PROVE LotBooks'
  <2>1. UNCHANGED <<lots, acquired, gone, costTrail>> /\ count' = count /\ unread' = unread
        /\ upto' \in Nat /\ upto <= upto'
    BY <1>0, <1>2, Constants DEF MarketRow
  <2>2. unread'.buy \in Nat /\ unread.buy <= unread'.buy /\ count'.sales = count.sales  BY <1>0, <2>1
  <2> QED  BY <2>1, <2>2, BooksIdle
<1>3. ASSUME LastRow PROVE LotBooks'
  <2>1. UNCHANGED <<lots, acquired, gone, costTrail>> /\ count' = count /\ unread' = unread
        /\ upto' \in Nat /\ upto <= upto'
    BY <1>0, <1>3, Constants DEF LastRow, Replay
  <2>2. unread'.buy \in Nat /\ unread.buy <= unread'.buy /\ count'.sales = count.sales  BY <1>0, <2>1
  <2> QED  BY <2>1, <2>2, BooksIdle
<1>4. ASSUME PurchasesDone PROVE LotBooks'
  <2>1. UNCHANGED <<lots, acquired, gone, costTrail>> /\ count' = count /\ upto' = upto
        /\ unread'.buy = upto + 1
    BY <1>4 DEF PurchasesDone, Replay
  <2>2. upto' \in Nat /\ upto <= upto' /\ unread'.buy \in Nat /\ upto <= unread'.buy
        /\ count'.sales = count.sales
    BY <1>0, <2>1
  <2> QED  BY <2>1, <2>2, BooksIdle
<1>5. ASSUME SalesDone \/ Refuse PROVE LotBooks'
  <2>1. UNCHANGED <<lots, acquired, gone, costTrail>> /\ count' = count /\ upto' = upto
        /\ unread'.buy = unread.buy
    BY <1>5 DEF SalesDone, Refuse, Replay
  <2>2. upto' \in Nat /\ upto <= upto' /\ unread'.buy \in Nat /\ unread.buy <= unread'.buy
        /\ count'.sales = count.sales
    BY <1>0, <2>1
  <2> QED  BY <2>1, <2>2, BooksIdle
<1>6. ASSUME NEW d \in 1..Beyond, NEW q \in BuyQtys, NEW p \in BuyPrices, Purchase(d, q, p) PROVE LotBooks'
  <2>1. OpenLot(d, q, p * den) /\ upto' = upto /\ unread'.buy = d /\ count'.sales = count.sales
        /\ d \in unread.buy..upto
    BY <1>6 DEF Purchase, Replay
  <2>2. d \in Nat /\ q \in Nat \ {0} /\ p \in Nat /\ den \in Nat /\ unread.buy <= d /\ d <= upto
    BY <1>0, <2>1, Constants DEF Replay
  <2>3. p * den \in Nat  BY <2>2
  <2>4. d <= unread'.buy /\ unread'.buy \in Nat  BY <2>1, <2>2
  <2> QED  BY <2>1, <2>2, <2>3, <2>4, BooksOpen
<1>7. ASSUME NEW d \in 1..Beyond, NEW q \in SaleQtys, Sale(d, q) PROVE LotBooks'
  <2>1. lots' = Consume(lots, q, FALSE).rest /\ Record(Consume(lots, q, FALSE).took)
        /\ UNCHANGED <<acquired, upto>> /\ unread'.buy = unread.buy
        /\ count'.sales = count.sales + 1
    BY <1>7 DEF Sale, Replay
  <2>2. q \in Nat  BY Constants
  <2>3. FALSE \in BOOLEAN /\ count'.sales = IF FALSE THEN count.sales ELSE count.sales + 1  BY <2>1
  <2> QED  BY <2>1, <2>2, <2>3, BooksTaken
<1>8. ASSUME NEW q \in Reports, ReconcileQuantity(q) PROVE LotBooks'  BY <1>8, QuantityReconciled
<1>9. ASSUME NEW b \in Bases, ReconcileBasis(b) PROVE LotBooks'  BY <1>9, BasisReconciled
<1> QED  BY <1>1, <1>2, <1>3, <1>4, <1>5, <1>6, <1>7, <1>8, <1>9 DEF Next

LEMMA BrokerKept ==
  ASSUME LotBooks, Replay, BrokerAgrees, [Next]_vars
  PROVE  BrokerAgrees'
<1>1. ASSUME NEW q \in Reports, ReconcileQuantity(q) PROVE BrokerAgrees'
  <2>1. reported' = q  BY <1>1 DEF ReconcileQuantity
  <2> QED  BY <1>1, <2>1, QuantityReconciled DEF BrokerAgrees
<1>2. ASSUME UNCHANGED vars PROVE BrokerAgrees'  BY <1>2 DEF vars, BrokerAgrees, Open
<1>3. ASSUME Next, \A q \in Reports : ~ReconcileQuantity(q) PROVE step' # "basis"
  BY <1>3 DEF Next, MarketRow, LastRow, Purchase, PurchasesDone, Sale, SalesDone, Refuse, ReconcileBasis
<1> QED  BY <1>1, <1>2, <1>3 DEF BrokerAgrees

LEMMA LotInit == Init => LotInv
<1> SUFFICES ASSUME Init PROVE LotInv  OBVIOUS
<1>1. Replay  BY Constants DEF Init, Replay, NoPurchase
<1>2. lots = <<>> /\ acquired = <<>> /\ gone = <<>> /\ costTrail = 0 /\ count.sales = 0  BY DEF Init
<1>3. Len(lots) = 0 /\ Len(acquired) = 0 /\ Len(gone) = 0 /\ lots \in Seq(Lot) /\ acquired \in Seq(Nat)
      /\ gone \in Seq(Nat)
  BY <1>2
<1>4. Books(lots, acquired, gone)  BY <1>3 DEF Books
<1>5. Queue(lots, acquired, gone) /\ Dated(lots, upto) /\ Dated(lots, unread.buy)
  BY <1>3 DEF Queue, Dated
<1>6. Units(Quantities(lots)) = 0 /\ Cost(lots) = 0
  <2>1. Quantities(lots) \in Seq(Int) /\ Len(Quantities(lots)) = 0
        /\ Costs(lots) \in Seq(Int) /\ Len(Costs(lots)) = 0
    BY <1>3, LotMeasures
  <2>2. Quantities(lots) = <<>> /\ Costs(lots) = <<>>  BY <2>1
  <2> QED  BY <2>2, UnitsNone DEF Cost
<1>7. Lost(lots, acquired, gone) = 0
  <2>1. Units(acquired) = 0 /\ Units(gone) = 0  BY <1>2, UnitsNone
  <2> QED  BY <2>1, <1>6 DEF Lost
<1>8. Explained(lots, acquired, gone, costTrail)  BY <1>2, <1>6 DEF Explained
<1>9. LotBooks  BY <1>2, <1>4, <1>5, <1>7, <1>8 DEF LotBooks
<1>10. BrokerAgrees  BY DEF Init, BrokerAgrees
<1> QED  BY <1>1, <1>9, <1>10 DEF LotInv

\* The replay and its books keep their invariant, whatever the records are.
THEOREM LotInvariant == Spec => []LotInv
<1>1. LotInv /\ [Next]_vars => LotInv'  BY ReplayKept, BooksKept, BrokerKept DEF LotInv
<1> QED  BY <1>1, LotInit, PTL DEF Spec

\* FirstInFirstOut: lots close in opening order, by id and by date, and what a
\* lot's events took and what is open make up the lot, for every record.
THEOREM QueueIsFirstInFirstOut == Spec => []FirstInFirstOut
<1>1. ASSUME LotInv PROVE FirstInFirstOut
  <2>0. lots \in Seq(Lot) /\ DOMAIN lots = 1..Len(lots) /\ Len(lots) \in Nat
    BY <1>1 DEF LotInv, LotBooks, Books
  <2>1. Queue(lots, acquired, gone) /\ Dated(lots, upto)  BY <1>1 DEF LotInv, LotBooks
  <2>2. ASSUME NEW i \in DOMAIN lots, i > 1 PROVE lots[i - 1].date <= lots[i].date
    <3>1. i \in 2..Len(lots)  BY <2>0, <2>2
    <3> QED  BY <3>1, <2>1 DEF Dated
  <2> QED  BY <2>0, <2>1, <2>2 DEF FirstInFirstOut, Queue
<1> QED  BY <1>1, LotInvariant, PTL

\* BrokerAgrees: the open units are the broker's once a row is reconciled.
THEOREM ReconciledWithBroker == Spec => []BrokerAgrees
<1>1. LotInv => BrokerAgrees  BY DEF LotInv
<1> QED  BY <1>1, LotInvariant, PTL

\* NothingVanishes: the types, and units and cost are conserved but for the
\* grain a sale's tolerance loses.
THEOREM NothingEverVanishes == Spec => []NothingVanishes
<1>1. ASSUME LotInv PROVE NothingVanishes
  <2>0. Books(lots, acquired, gone) /\ Explained(lots, acquired, gone, costTrail) /\ Replay
        /\ Lost(lots, acquired, gone) \in 0..count.sales
    BY <1>1 DEF LotInv, LotBooks
  <2>1. TypeOK
    <3>1. costTrail \in Nat
      <4>1. Cost(lots) \in Nat  BY <2>0, BooksNumbers
      <4> QED  BY <4>1, <2>0 DEF Explained
    <3>2. \A i \in DOMAIN lots : lots[i].qty \in Nat \ {0} /\ lots[i].price \in Nat
      <4>1. \A i \in DOMAIN lots : lots[i] \in Lot  BY <2>0 DEF Books
      <4> QED  BY <4>1 DEF Lot
    <3>3. DOMAIN gone = DOMAIN acquired  BY <2>0 DEF Books
    <3> QED  BY <2>0, <3>1, <3>2, <3>3 DEF Replay, TypeOK
  <2>2. UnitsConserved  BY <2>0 DEF UnitsConserved, Lost, Open
  <2>3. CostExplained
    <3>1. Units(acquired) \in Nat /\ Units(gone) \in Nat /\ Open \in Nat /\ Cost(lots) \in Nat
      BY <2>0, BooksNumbers DEF Open
    <3>2. Lost(lots, acquired, gone) = (Units(acquired) - Units(gone)) - Open  BY DEF Lost, Open
    <3>3. costTrail \in Int /\ Cost(lots) <= costTrail
          /\ (Lost(lots, acquired, gone) = 0 => costTrail = Cost(lots))
      BY <2>0 DEF Explained
    <3> DEFINE u == Units(acquired)
               g == Units(gone)
               o == Open
               c == Cost(lots)
    <3> HIDE DEF u, g, o, c
    <3>4. u = g + o => (u - g) - o = 0  BY <3>1 DEF u, g, o
    <3> QED  BY <3>1, <3>2, <3>3, <3>4 DEF CostExplained, u, g, o, c
  <2> QED  BY <2>1, <2>2, <2>3 DEF NothingVanishes
<1> QED  BY <1>1, LotInvariant, PTL

=============================================================================
