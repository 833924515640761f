---------------------------- MODULE Analytics_proofs ---------------------------
(***************************************************************************)
(* Proofs about the analytics of a run, for any constants: IsinPool (the   *)
(* process pool of the instruments) and FinanceBooks (the tables of the    *)
(* household).  The two models share no state; their proofs share the      *)
(* facts about numbers, finite sets and sums that come first.              *)
(*                                                                         *)
(* Sums.  The library has no theorems about them: SumFunctionOnSet adds up *)
(* in the order of a CHOOSE, and any other order gives the same.           *)
(* Induction is over sets (EveryNumber, SubsetInduct): the hypothesis is a *)
(* set of numbers, or of subsets.                                          *)
(*                                                                         *)
(* The pool.  One failure publishes nothing and no worker is left behind;  *)
(* the accumulator depends on which instruments were collected and not on  *)
(* their order; the rows made of it and of the workers' files are worth    *)
(* what the book is.                                                       *)
(*                                                                         *)
(* The books.  The tables of each stage are those of the inputs it read    *)
(* (BooksIInv), so a published run can be judged by its definitions.  Then *)
(* table by table what the rows amount to: entries of the ledger and facts *)
(* are matched one by one, balances added up by month and account, the two *)
(* legs of a transfer cancel, categories and activities partition what     *)
(* they add up, and orders keep their worth on the way to the facts since  *)
(* the load demands unique keys.  From this BooksBalance; IncomeTaxedOnce  *)
(* from the filters of the tax tables.                                     *)
(***************************************************************************)
EXTENDS IsinPool, FinanceBooks, FiniteSetTheorems, WellFoundedInduction, TLAPS

-----------------------------------------------------------------------------
(* Induction.                                                               *)

LEMMA EveryNumber ==
  ASSUME NEW S, 0 \in S, \A n \in Nat : n \in S => n + 1 \in S
  PROVE  Nat \subseteq S
<1> SUFFICES ASSUME Nat \ S # {} PROVE FALSE  OBVIOUS
<1> DEFINE Missing == Nat \ S
<1>1. PICK m \in Missing : \A n \in Missing : ~ (<<n, m>> \in OpToRel(<, Nat))
  <2>1. Missing \subseteq Nat /\ Missing # {}  OBVIOUS
  <2> HIDE DEF Missing
  <2> QED  BY <2>1, NatLessThanWellFounded, WFMin, Zenon
<1>2. m \in Nat /\ m # 0  BY <1>1
<1>3. m - 1 \in Nat /\ m - 1 < m  BY <1>2
<1>4. m - 1 \in S
  <2>1. m - 1 \notin Missing  BY <1>1, <1>3, <1>2 DEF OpToRel
  <2> QED  BY <2>1, <1>3
<1>5. (m - 1) + 1 = m  BY <1>2
<1>6. m \in S  BY <1>3, <1>4, <1>5
<1> QED  BY <1>1, <1>6

\* The sums over the subsets of S.
Sums(f, S) ==
  CHOOSE it : it = [s \in SUBSET S |->
                      IF s = {} THEN 0
                      ELSE f[CHOOSE x \in s : TRUE] + it[s \ {CHOOSE x \in s : TRUE}]]

\* The library's sum over S is one value of the table of all sums over its subsets.
LEMMA SumIsOneOfThem ==
  ASSUME NEW f, NEW S PROVE SumFunctionOnSet(f, S) = Sums(f, S)[S]
  BY DEF SumFunctionOnSet, FoldFunctionOnSet, MapThenFoldSet, Sums

\* Induction over finite sets: what holds of {} and is kept by one more element.
LEMMA SubsetInduct ==
  ASSUME NEW S, IsFiniteSet(S), NEW F, {} \in F,
         \A T \in SUBSET S : T \in F => \A x \in S \ T : T \cup {x} \in F
  PROVE  S \in F
<1> DEFINE N == {n \in Nat : \A T \in SUBSET S : Cardinality(T) = n => T \in F}
<1>0. \A T \in SUBSET S : IsFiniteSet(T) /\ Cardinality(T) \in Nat  BY FS_Subset, FS_CardinalityType
<1>1. 0 \in N
  <2> SUFFICES ASSUME NEW T \in SUBSET S, Cardinality(T) = 0 PROVE T \in F  OBVIOUS
  <2>1. T = {}  BY <1>0, FS_EmptySet
  <2> QED  BY <2>1
<1>2. ASSUME NEW n \in Nat, n \in N PROVE n + 1 \in N
  <2> SUFFICES ASSUME NEW T \in SUBSET S, Cardinality(T) = n + 1 PROVE T \in F  OBVIOUS
  <2>1. T # {}  BY FS_EmptySet
  <2>2. PICK x \in T : TRUE  BY <2>1
  <2>6. Cardinality(T \ {x}) = Cardinality(T) - 1  BY <1>0, FS_RemoveElement
  <2>3. Cardinality(T \ {x}) = n  BY <2>6
  <2>4. T \ {x} \in SUBSET S /\ T \ {x} \in F  BY <2>3, <1>2
  <2>5. (T \ {x}) \cup {x} = T /\ x \in S \ (T \ {x})  OBVIOUS
  <2> QED  BY <2>4, <2>5
<1>3. Nat \subseteq N
  <2> HIDE DEF N
  <2> QED  BY <1>1, <1>2, EveryNumber
<1> QED  BY <1>0, <1>3

Pick(s) == CHOOSE x \in s : TRUE

\* The element a sum takes first is in the set.
LEMMA PickIn == ASSUME NEW s, s # {} PROVE Pick(s) \in s
  BY DEF Pick

\* The table satisfies its equation: it exists, so the CHOOSE has a value.
LEMMA SumsStep ==
  ASSUME NEW f, NEW S, IsFiniteSet(S), NEW T \in SUBSET S
  PROVE  /\ T = {} => Sums(f, S)[T] = 0
         /\ T # {} => Sums(f, S)[T] = f[Pick(T)] + Sums(f, S)[T \ {Pick(T)}]
<1> DEFINE D(n) == {s \in SUBSET S : Cardinality(s) <= n}
           N == {n \in Nat : \E it : it = [s \in D(n) |-> IF s = {} THEN 0 ELSE f[Pick(s)] + it[s \ {Pick(s)}]]}
<1>0. \A U \in SUBSET S : IsFiniteSet(U) /\ Cardinality(U) \in Nat /\ Cardinality(U) <= Cardinality(S)
  BY FS_Subset, FS_CardinalityType
<1>00. ASSUME NEW s \in SUBSET S, s # {}
       PROVE  s \ {Pick(s)} \in SUBSET S /\ Cardinality(s \ {Pick(s)}) = Cardinality(s) - 1
  <2>1. Pick(s) \in s /\ IsFiniteSet(s)  BY <1>0, <1>00, PickIn
  <2> QED  BY <2>1, FS_RemoveElement
<1>1. 0 \in N
  <2> DEFINE it == [s \in D(0) |-> 0]
  <2>1. \A s \in D(0) : s = {}
    <3> TAKE s \in D(0)
    <3>1. Cardinality(s) = 0  BY <1>0
    <3> QED  BY <3>1, <1>0, FS_EmptySet
  <2>2. it = [s \in D(0) |-> IF s = {} THEN 0 ELSE f[Pick(s)] + it[s \ {Pick(s)}]]
    <3> HIDE DEF D
    <3> QED  BY <2>1
  <2> HIDE DEF it, D
  <2> QED  BY <2>2
<1>2. ASSUME NEW n \in Nat, n \in N PROVE n + 1 \in N
  <2>1. PICK it : it = [s \in D(n) |-> IF s = {} THEN 0 ELSE f[Pick(s)] + it[s \ {Pick(s)}]]  BY <1>2
  <2> DEFINE g == [s \in D(n + 1) |-> IF s = {} THEN 0 ELSE IF Cardinality(s) = n + 1 THEN f[Pick(s)] + it[s \ {Pick(s)}] ELSE it[s]]
  <2>0. \A s \in D(n) : s \in D(n + 1) /\ Cardinality(s) # n + 1  BY <1>0
  <2>2. ASSUME NEW s \in D(n) PROVE g[s] = it[s]
    <3> HIDE DEF D
    <3>1. CASE s = {}
      <4>1. it[s] = 0  BY <2>1, <3>1
      <4>2. g[s] = 0  BY <2>0, <3>1
      <4> QED  BY <4>1, <4>2
    <3>2. CASE s # {}  BY <2>0, <3>2
    <3> QED  BY <3>1, <3>2
  <2>3. ASSUME NEW s \in D(n + 1)
        PROVE  g[s] = IF s = {} THEN 0 ELSE f[Pick(s)] + g[s \ {Pick(s)}]
    <3>1. CASE s = {}  BY <3>1
    <3>2. CASE s # {}
      <4>1. s \ {Pick(s)} \in D(n)
        <5>1. Cardinality(s) <= n + 1 /\ Cardinality(s) \in Nat  BY <1>0
        <5> QED  BY <5>1, <1>00, <3>2
      <4>2. g[s \ {Pick(s)}] = it[s \ {Pick(s)}]  BY <4>1, <2>2
      <4>3. CASE Cardinality(s) = n + 1
        <5>1. g[s] = f[Pick(s)] + it[s \ {Pick(s)}]  BY <4>3, <3>2
        <5> HIDE DEF g
        <5> QED  BY <5>1, <4>2, <3>2
      <4>4. CASE Cardinality(s) # n + 1
        <5>1. s \in D(n)  BY <4>4, <1>0
        <5>2. it[s] = f[Pick(s)] + it[s \ {Pick(s)}]
          <6> HIDE DEF D, g
          <6> QED  BY <5>1, <2>1, <3>2
        <5>3. g[s] = it[s]  BY <5>1, <2>2
        <5> HIDE DEF g
        <5> QED  BY <5>2, <5>3, <4>2, <3>2
      <4> QED  BY <4>3, <4>4
    <3> QED  BY <3>1, <3>2
  <2>4. g = [s \in D(n + 1) |-> IF s = {} THEN 0 ELSE f[Pick(s)] + g[s \ {Pick(s)}]]
    <3>1. g = [s \in D(n + 1) |-> g[s]]  OBVIOUS
    <3> HIDE DEF g, D
    <3> QED  BY <2>3, <3>1
  <2>5. \E h : h = [s \in D(n + 1) |-> IF s = {} THEN 0 ELSE f[Pick(s)] + h[s \ {Pick(s)}]]
    <3> HIDE DEF g
    <3> QED  BY <2>4
  <2> HIDE DEF g, D
  <2> QED  BY <2>5
<1>3. Nat \subseteq N
  <2> HIDE DEF N
  <2> QED  BY <1>1, <1>2, EveryNumber
<1>4. Cardinality(S) \in N  BY <1>0, <1>3
<1>5. D(Cardinality(S)) = SUBSET S  BY <1>0
<1>6. \E it : it = [s \in SUBSET S |-> IF s = {} THEN 0 ELSE f[Pick(s)] + it[s \ {Pick(s)}]]
  <2> HIDE DEF D
  <2> QED  BY <1>4, <1>5
<1> DEFINE sums == Sums(f, S)
<1>7. sums = [s \in SUBSET S |-> IF s = {} THEN 0 ELSE f[Pick(s)] + sums[s \ {Pick(s)}]]
  BY <1>6 DEF Sums, Pick
<1> HIDE DEF sums
<1>8. sums[T] = IF T = {} THEN 0 ELSE f[Pick(T)] + sums[T \ {Pick(T)}]  BY <1>7
<1>9. T = {} => sums[T] = 0  BY <1>8
<1>10. T # {} => sums[T] = f[Pick(T)] + sums[T \ {Pick(T)}]  BY <1>8
<1> QED  BY <1>9, <1>10 DEF sums

Sum(f, S) == SumFunctionOnSet(f, S)

\* The table over a larger set gives the same sums.
LEMMA SumsWithin ==
  ASSUME NEW f, NEW S, IsFiniteSet(S), NEW T \in SUBSET S
  PROVE  Sums(f, S)[T] = Sum(f, T)
<1> DEFINE N == {n \in Nat : \A U \in SUBSET S : \A V \in SUBSET U :
                               Cardinality(V) = n => Sums(f, U)[V] = Sum(f, V)}
<1>0. \A U \in SUBSET S : IsFiniteSet(U) /\ Cardinality(U) \in Nat  BY FS_Subset, FS_CardinalityType
<1>1. 0 \in N
  <2> SUFFICES ASSUME NEW U \in SUBSET S, NEW V \in SUBSET U, Cardinality(V) = 0
               PROVE  Sums(f, U)[V] = Sum(f, V)
    OBVIOUS
  <2>1. V = {} /\ V \in SUBSET V  BY <1>0, FS_EmptySet
  <2>2. Sums(f, U)[V] = 0  BY <1>0, <2>1, SumsStep
  <2>3. Sums(f, V)[V] = 0  BY <1>0, <2>1, SumsStep
  <2> QED  BY <2>2, <2>3, SumIsOneOfThem DEF Sum
<1>2. ASSUME NEW n \in Nat, n \in N PROVE n + 1 \in N
  <2> SUFFICES ASSUME NEW U \in SUBSET S, NEW V \in SUBSET U, Cardinality(V) = n + 1
               PROVE  Sums(f, U)[V] = Sum(f, V)
    OBVIOUS
  <2> DEFINE p == Pick(V)
             W == V \ {p}
  <2>1. V # {} /\ p \in V /\ V \in SUBSET S
    <3>1. V # {}  BY FS_EmptySet
    <3> QED  BY <3>1, PickIn
  <2>2. W \in SUBSET U /\ W \in SUBSET V /\ Cardinality(W) = n
    <3>1. Cardinality(W) = Cardinality(V) - 1  BY <1>0, <2>1, FS_RemoveElement
    <3> QED  BY <3>1
  <2>3. Sums(f, U)[V] = f[p] + Sums(f, U)[W]  BY <1>0, <2>1, SumsStep
  <2>4. Sums(f, V)[V] = f[p] + Sums(f, V)[W]
    <3>1. V \in SUBSET V /\ IsFiniteSet(V)  BY <1>0, <2>1
    <3> QED  BY <3>1, <2>1, SumsStep
  <2> HIDE DEF p, W
  <2>5. Sums(f, U)[W] = Sum(f, W) /\ Sums(f, V)[W] = Sum(f, W)  BY <1>2, <2>1, <2>2
  <2> QED  BY <2>3, <2>4, <2>5, SumIsOneOfThem DEF Sum
<1>3. Nat \subseteq N
  <2> HIDE DEF N
  <2> QED  BY <1>1, <1>2, EveryNumber
<1> QED  BY <1>0, <1>3

\* The sum over nothing.
LEMMA SumNone == ASSUME NEW f PROVE Sum(f, {}) = 0
<1>1. IsFiniteSet({}) /\ {} \in SUBSET {}  BY FS_EmptySet
<1>2. Sums(f, {})[{}] = 0  BY <1>1, SumsStep
<1> QED  BY <1>2, SumIsOneOfThem DEF Sum

\* The sum unfolded by the element that is taken first.
LEMMA SumPick ==
  ASSUME NEW f, NEW S, IsFiniteSet(S), S # {}
  PROVE  Sum(f, S) = f[Pick(S)] + Sum(f, S \ {Pick(S)})
<1>1. S \in SUBSET S /\ S \ {Pick(S)} \in SUBSET S  OBVIOUS
<1>2. Sums(f, S)[S] = f[Pick(S)] + Sums(f, S)[S \ {Pick(S)}]  BY <1>1, SumsStep
<1> QED  BY <1>1, <1>2, SumsWithin

\* Whole summands have a whole sum.
LEMMA SumInt ==
  ASSUME NEW f, NEW S, IsFiniteSet(S), \A x \in S : f[x] \in Int
  PROVE  Sum(f, S) \in Int
<1> DEFINE N == {n \in Nat : \A T \in SUBSET S : Cardinality(T) = n => Sum(f, T) \in Int}
<1>0. \A U \in SUBSET S : IsFiniteSet(U) /\ Cardinality(U) \in Nat  BY FS_Subset, FS_CardinalityType
<1>1. 0 \in N
  <2> SUFFICES ASSUME NEW T \in SUBSET S, Cardinality(T) = 0 PROVE Sum(f, T) \in Int  OBVIOUS
  <2>1. T = {}  BY <1>0, FS_EmptySet
  <2> QED  BY <2>1, SumNone
<1>2. ASSUME NEW n \in Nat, n \in N PROVE n + 1 \in N
  <2> SUFFICES ASSUME NEW T \in SUBSET S, Cardinality(T) = n + 1 PROVE Sum(f, T) \in Int  OBVIOUS
  <2> DEFINE p == Pick(T)
  <2>1. T # {} /\ p \in T /\ IsFiniteSet(T)
    <3>1. T # {}  BY FS_EmptySet
    <3> QED  BY <3>1, <1>0, PickIn
  <2>2. Sum(f, T) = f[p] + Sum(f, T \ {p})  BY <2>1, SumPick
  <2> HIDE DEF p
  <2>3. Cardinality(T \ {p}) = Cardinality(T) - 1  BY <2>1, FS_RemoveElement
  <2>4. T \ {p} \in SUBSET S /\ Cardinality(T \ {p}) = n  BY <2>3
  <2>5. Sum(f, T \ {p}) \in Int /\ f[p] \in Int  BY <1>2, <2>1, <2>4
  <2> QED  BY <2>2, <2>5
<1>3. Nat \subseteq N
  <2> HIDE DEF N
  <2> QED  BY <1>1, <1>2, EveryNumber
<1>4. S \in SUBSET S /\ Cardinality(S) \in N  BY <1>0, <1>3
<1> QED  BY <1>4

\* Any element may be taken first.
LEMMA SumRemove ==
  ASSUME NEW f, NEW S, IsFiniteSet(S), \A x \in S : f[x] \in Int
  PROVE  /\ Sum(f, S) \in Int
         /\ \A y \in S : Sum(f, S) = f[y] + Sum(f, S \ {y})
<1> DEFINE N == {n \in Nat : \A T \in SUBSET S : Cardinality(T) = n =>
                               /\ Sum(f, T) \in Int
                               /\ \A y \in T : Sum(f, T) = f[y] + Sum(f, T \ {y})}
<1>0. \A U \in SUBSET S : IsFiniteSet(U) /\ Cardinality(U) \in Nat  BY FS_Subset, FS_CardinalityType
<1>1. 0 \in N
  <2> SUFFICES ASSUME NEW T \in SUBSET S, Cardinality(T) = 0
               PROVE  Sum(f, T) \in Int /\ \A y \in T : Sum(f, T) = f[y] + Sum(f, T \ {y})
    OBVIOUS
  <2>1. T = {}  BY <1>0, FS_EmptySet
  <2> QED  BY <2>1, SumNone
<1>2. ASSUME NEW n \in Nat, n \in N PROVE n + 1 \in N
  <2> SUFFICES ASSUME NEW T \in SUBSET S, Cardinality(T) = n + 1
               PROVE  Sum(f, T) \in Int /\ \A y \in T : Sum(f, T) = f[y] + Sum(f, T \ {y})
    OBVIOUS
  <2> DEFINE p == Pick(T)
  <2>1. T # {} /\ p \in T /\ IsFiniteSet(T)
    <3>1. T # {}  BY FS_EmptySet
    <3> QED  BY <3>1, <1>0, PickIn
  <2>2. Sum(f, T) = f[p] + Sum(f, T \ {p})  BY <2>1, SumPick
  <2> HIDE DEF p
  <2>3. ASSUME NEW y \in T PROVE T \ {y} \in SUBSET S /\ Cardinality(T \ {y}) = n
    <3>1. Cardinality(T \ {y}) = Cardinality(T) - 1  BY <2>1, FS_RemoveElement
    <3> QED  BY <3>1
  <2>4. ASSUME NEW y \in T
        PROVE  /\ Sum(f, T \ {y}) \in Int
               /\ \A z \in T \ {y} : Sum(f, T \ {y}) = f[z] + Sum(f, (T \ {y}) \ {z})
    BY <1>2, <2>3
  <2>5. f[p] \in Int /\ Sum(f, T \ {p}) \in Int  BY <2>1, <2>4
  <2>6. ASSUME NEW y \in T, y # p PROVE Sum(f, T) = f[y] + Sum(f, T \ {y})
    <3> DEFINE R == (T \ {p}) \ {y}
    <3>1. (T \ {y}) \ {p} = R /\ y \in T \ {p} /\ p \in T \ {y}  BY <2>1, <2>6
    <3>2. Sum(f, T \ {p}) = f[y] + Sum(f, R)  BY <2>1, <2>4, <3>1
    <3>3. Sum(f, T \ {y}) = f[p] + Sum(f, R)  BY <2>4, <3>1
    <3>4. R \in SUBSET S /\ IsFiniteSet(R) /\ Sum(f, R) \in Int
      <4>1. R \in SUBSET S /\ IsFiniteSet(R)  BY <1>0
      <4>2. \A x \in R : f[x] \in Int  BY <4>1
      <4> HIDE DEF R
      <4> QED  BY <4>1, <4>2, SumInt
    <3>5. f[y] \in Int  OBVIOUS
    <3> HIDE DEF R
    <3> QED  BY <2>2, <2>5, <3>2, <3>3, <3>4, <3>5
  <2>7. Sum(f, T) \in Int  BY <2>2, <2>5
  <2> QED  BY <2>2, <2>6, <2>7
<1>3. Nat \subseteq N
  <2> HIDE DEF N
  <2> QED  BY <1>1, <1>2, EveryNumber
<1>4. S \in SUBSET S /\ Cardinality(S) \in N  BY <1>0, <1>3
<1> QED  BY <1>4

\* One summand more.
LEMMA SumAdd ==
  ASSUME NEW f, NEW S, IsFiniteSet(S), NEW y, y \notin S, f[y] \in Int, \A x \in S : f[x] \in Int
  PROVE  Sum(f, S \cup {y}) = Sum(f, S) + f[y]
<1> DEFINE T == S \cup {y}
<1>1. IsFiniteSet(T)  BY FS_AddElement
<1>2. y \in T /\ T \ {y} = S /\ \A x \in T : f[x] \in Int  OBVIOUS
<1> HIDE DEF T
<1>3. Sum(f, T) = f[y] + Sum(f, T \ {y})  BY <1>1, <1>2, SumRemove
<1>4. Sum(f, S) \in Int /\ f[y] \in Int  BY SumRemove
<1> DEFINE s == Sum(f, S)
           v == f[y]
<1>5. Sum(f, T) = v + s /\ s \in Int /\ v \in Int  BY <1>2, <1>3, <1>4
<1> HIDE DEF s, v
<1>6. Sum(f, T) = s + v  BY <1>5
<1> QED  BY <1>6 DEF T, s, v

\* Equal summands have an equal sum.
LEMMA SumSame ==
  ASSUME NEW f, NEW g, NEW S, IsFiniteSet(S), \A x \in S : f[x] \in Int /\ g[x] = f[x]
  PROVE  Sum(g, S) = Sum(f, S)
<1> DEFINE F == {T \in SUBSET S : Sum(g, T) = Sum(f, T)}
<1>1. {} \in F  BY SumNone
<1>2. ASSUME NEW T \in SUBSET S, T \in F, NEW x \in S \ T PROVE T \cup {x} \in F
  <2>1. IsFiniteSet(T)  BY FS_Subset
  <2>2. \A z \in T : f[z] \in Int /\ g[z] \in Int  OBVIOUS
  <2>3. f[x] \in Int /\ g[x] = f[x]  OBVIOUS
  <2>4. Sum(f, T \cup {x}) = Sum(f, T) + f[x]  BY <2>1, <2>2, <2>3, SumAdd
  <2>5. Sum(g, T \cup {x}) = Sum(g, T) + g[x]  BY <2>1, <2>2, <2>3, SumAdd
  <2>6. Sum(g, T) = Sum(f, T)  BY <1>2
  <2> QED  BY <2>3, <2>4, <2>5, <2>6
<1> HIDE DEF F
<1>3. S \in F  BY <1>1, <1>2, SubsetInduct
<1> QED  BY <1>3 DEF F

\* Changing one summand changes the sum by as much.
LEMMA SumChange ==
  ASSUME NEW f, NEW g, NEW S, IsFiniteSet(S), NEW y \in S,
         \A x \in S : f[x] \in Int /\ g[x] \in Int, \A x \in S : x # y => g[x] = f[x]
  PROVE  Sum(g, S) = Sum(f, S) + (g[y] - f[y])
<1> DEFINE R == S \ {y}
<1>1. IsFiniteSet(R)  BY FS_RemoveElement
<1>2. Sum(f, S) = f[y] + Sum(f, R) /\ Sum(g, S) = g[y] + Sum(g, R)  BY SumRemove
<1>3. Sum(g, R) = Sum(f, R)  BY <1>1, SumSame
<1>4. Sum(f, R) \in Int
  <2>1. \A x \in R : f[x] \in Int  OBVIOUS
  <2> HIDE DEF R
  <2> QED  BY <1>1, <2>1, SumRemove
<1> HIDE DEF R
<1>5. f[y] \in Int /\ g[y] \in Int  OBVIOUS
<1> QED  BY <1>2, <1>3, <1>4, <1>5

PartOf(S, lab, l) == {x \in S : lab[x] = l}

\* A sum over labels is the sum over what they label.
LEMMA SumOfParts ==
  ASSUME NEW w, NEW S, IsFiniteSet(S), \A x \in S : w[x] \in Int,
         NEW lab, NEW L, IsFiniteSet(L), \A x \in S : lab[x] \in L,
         NEW g, \A l \in L : g[l] = Sum(w, PartOf(S, lab, l))
  PROVE  Sum(g, L) = Sum(w, S)
<1> DEFINE Part(T, l) == {x \in T : lab[x] = l}
           h(T) == [l \in L |-> Sum(w, Part(T, l))]
           F == {T \in SUBSET S : Sum(h(T), L) = Sum(w, T)}
<1>0. \A T \in SUBSET S : IsFiniteSet(T) /\ \A l \in L : IsFiniteSet(Part(T, l)) /\ Part(T, l) \in SUBSET S
  BY FS_Subset
<1>1. \A T \in SUBSET S : \A l \in L : h(T)[l] = Sum(w, Part(T, l)) /\ h(T)[l] \in Int
  <2> TAKE T \in SUBSET S
  <2> TAKE l \in L
  <2> DEFINE P == Part(T, l)
  <2>1. IsFiniteSet(P) /\ \A x \in P : w[x] \in Int  BY <1>0
  <2>2. h(T)[l] = Sum(w, P)  OBVIOUS
  <2> HIDE DEF P
  <2>3. Sum(w, P) \in Int  BY <2>1, SumRemove
  <2> QED  BY <2>2, <2>3 DEF P
<1>2. {} \in F
  <2> DEFINE e == h({})
  <2>1. \A l \in L : e[l] = 0
    <3> TAKE l \in L
    <3>1. Part({}, l) = {}  OBVIOUS
    <3> QED  BY <3>1, <1>1, SumNone
  <2> HIDE DEF e
  <2> DEFINE Z == {U \in SUBSET L : Sum(e, U) = 0}
  <2>2. {} \in Z  BY SumNone
  <2>3. ASSUME NEW U \in SUBSET L, U \in Z, NEW x \in L \ U PROVE U \cup {x} \in Z
    <3>1. IsFiniteSet(U) /\ e[x] = 0 /\ \A z \in U : e[z] \in Int  BY <2>1, FS_Subset
    <3>2. Sum(e, U \cup {x}) = Sum(e, U) + e[x]  BY <3>1, SumAdd
    <3> QED  BY <3>1, <3>2, <2>3
  <2> HIDE DEF Z
  <2>4. L \in Z  BY <2>2, <2>3, SubsetInduct
  <2>5. Sum(e, L) = 0  BY <2>4 DEF Z
  <2>6. Sum(w, {}) = 0  BY SumNone
  <2> QED  BY <2>5, <2>6 DEF e
<1>3. ASSUME NEW T \in SUBSET S, T \in F, NEW x \in S \ T PROVE T \cup {x} \in F
  <2> DEFINE U == T \cup {x}
             l == lab[x]
             a == h(T)
             b == h(U)
  <2>0. U \in SUBSET S /\ l \in L  OBVIOUS
  <2>1. Part(U, l) = Part(T, l) \cup {x} /\ x \notin Part(T, l)  OBVIOUS
  <2>2. \A k \in L : k # l => Part(U, k) = Part(T, k)  OBVIOUS
  <2>3. IsFiniteSet(Part(T, l)) /\ \A z \in Part(T, l) : w[z] \in Int  BY <1>0, <2>0
  <2>4. Sum(w, Part(U, l)) = Sum(w, Part(T, l)) + w[x]
    <3> DEFINE P == Part(T, l)
    <3>1. w[x] \in Int  OBVIOUS
    <3>2. Sum(w, P \cup {x}) = Sum(w, P) + w[x]
      <4>1. x \notin P /\ IsFiniteSet(P) /\ \A z \in P : w[z] \in Int  BY <2>1, <2>3
      <4> HIDE DEF P
      <4> QED  BY <3>1, <4>1, SumAdd
    <3> QED  BY <3>2, <2>1
  <2>5. /\ \A k \in L : a[k] = Sum(w, Part(T, k)) /\ a[k] \in Int
        /\ \A k \in L : b[k] = Sum(w, Part(U, k)) /\ b[k] \in Int
    <3> HIDE DEF h, Part
    <3> QED  BY <1>1, <2>0
  <2>6. Sum(a, L) = Sum(w, T)  BY <1>3
  <2>7. Sum(w, U) = Sum(w, T) + w[x]
    <3>1. IsFiniteSet(T) /\ w[x] \in Int /\ \A z \in T : w[z] \in Int  BY <1>0
    <3> QED  BY <3>1, SumAdd
  <2> HIDE DEF a, b, U, l, Part, h
  <2>8. \A k \in L : k # l => b[k] = a[k]  BY <2>2, <2>5
  <2>9. Sum(b, L) = Sum(a, L) + (b[l] - a[l])  BY <2>0, <2>5, <2>8, SumChange
  <2>10. b[l] = a[l] + w[x] /\ a[l] \in Int /\ w[x] \in Int  BY <2>0, <2>4, <2>5
  <2>11. Sum(a, L) \in Int  BY <2>5, SumRemove
  <2>12. Sum(b, L) = Sum(w, U)  BY <2>6, <2>7, <2>9, <2>10, <2>11
  <2>13. Sum(h(U), L) = Sum(w, U)  BY <2>12 DEF b
  <2> QED  BY <2>0, <2>13 DEF U
<1>4. S \in F
  <2> HIDE DEF F
  <2> QED  BY <1>2, <1>3, SubsetInduct
<1>5. Sum(h(S), L) = Sum(w, S)  BY <1>4
<1>6. Sum(g, L) = Sum(h(S), L)
  <2>1. \A l \in L : h(S)[l] \in Int /\ g[l] = h(S)[l]
    <3> TAKE l \in L
    <3>1. S \in SUBSET S  OBVIOUS
    <3>2. h(S)[l] = Sum(w, Part(S, l)) /\ h(S)[l] \in Int
      <4> HIDE DEF h, Part
      <4> QED  BY <1>1, <3>1
    <3>3. PartOf(S, lab, l) = Part(S, l)  BY DEF PartOf
    <3> QED  BY <3>2, <3>3
  <2> HIDE DEF h
  <2> QED  BY <2>1, SumSame
<1> QED  BY <1>5, <1>6

\* A sum may run over the images of its elements.
LEMMA SumOfImages ==
  ASSUME NEW f, NEW S, IsFiniteSet(S), \A x \in S : f[x] \in Int,
         NEW h, \A x, y \in S : h[x] = h[y] => x = y,
         NEW R, R = {h[x] : x \in S}, NEW g, \A x \in S : g[h[x]] = f[x]
  PROVE  IsFiniteSet(R) /\ Sum(g, R) = Sum(f, S)
<1> DEFINE Img(T) == {h[x] : x \in T}
           F == {T \in SUBSET S : IsFiniteSet(Img(T)) /\ Sum(g, Img(T)) = Sum(f, T)}
<1>1. {} \in F
  <2>1. Img({}) = {}  OBVIOUS
  <2> QED  BY <2>1, SumNone, FS_EmptySet
<1>2. ASSUME NEW T \in SUBSET S, T \in F, NEW x \in S \ T PROVE T \cup {x} \in F
  <2>1. Img(T \cup {x}) = Img(T) \cup {h[x]}  OBVIOUS
  <2>2. h[x] \notin Img(T)  OBVIOUS
  <2>3. \A z \in Img(T) : g[z] \in Int  OBVIOUS
  <2>4. IsFiniteSet(T) /\ f[x] \in Int /\ g[h[x]] = f[x] /\ \A z \in T : f[z] \in Int  BY FS_Subset
  <2>5. IsFiniteSet(Img(T)) /\ Sum(g, Img(T)) = Sum(f, T)  BY <1>2
  <2> DEFINE Q == Img(T)
             y == h[x]
  <2>6. y \notin Q /\ g[y] \in Int /\ g[y] = f[x] /\ IsFiniteSet(Q) /\ \A z \in Q : g[z] \in Int
    BY <2>2, <2>3, <2>4, <2>5
  <2> HIDE DEF Q, y
  <2>7. Sum(g, Q \cup {y}) = Sum(g, Q) + g[y] /\ IsFiniteSet(Q \cup {y})
    BY <2>6, SumAdd, FS_AddElement
  <2>8. Sum(f, T \cup {x}) = Sum(f, T) + f[x]  BY <2>4, SumAdd
  <2>9. Img(T \cup {x}) = Q \cup {y} /\ Sum(g, Q) = Sum(f, T)  BY <2>1, <2>5 DEF Q, y
  <2> HIDE DEF Img
  <2>10. T \cup {x} \in SUBSET S  OBVIOUS
  <2> QED  BY <2>6, <2>7, <2>8, <2>9, <2>10
<1>3. S \in F
  <2> HIDE DEF F
  <2> QED  BY <1>1, <1>2, SubsetInduct
<1> QED  BY <1>3

\* The image of a finite set is finite.
LEMMA ImageFinite ==
  ASSUME NEW S, IsFiniteSet(S), NEW h PROVE IsFiniteSet({h[x] : x \in S})
<1> DEFINE Img(T) == {h[x] : x \in T}
           F == {T \in SUBSET S : IsFiniteSet(Img(T))}
<1>1. {} \in F
  <2>1. Img({}) = {}  OBVIOUS
  <2> QED  BY <2>1, FS_EmptySet
<1>2. ASSUME NEW T \in SUBSET S, T \in F, NEW x \in S \ T PROVE T \cup {x} \in F
  <2>1. Img(T \cup {x}) = Img(T) \cup {h[x]}  OBVIOUS
  <2>2. IsFiniteSet(Img(T))  BY <1>2
  <2>3. IsFiniteSet(Img(T) \cup {h[x]})
    <3> HIDE DEF Img
    <3> QED  BY <2>2, FS_AddElement
  <2> QED  BY <2>1, <2>3
<1> HIDE DEF F
<1>3. S \in F  BY <1>1, <1>2, SubsetInduct
<1> QED  BY <1>3 DEF F

-----------------------------------------------------------------------------
(* The process pool.                                                        *)

TaskStates == {"none", "queued", "running", "done", "lost"}

TypeInv ==
  /\ pc \in {"start", "collect", "raised", "failing", "process", "failed", "published", "empty"}
  /\ book \subseteq Isins /\ collected \subseteq book
  /\ task \in [Isins -> TaskStates]
  /\ result \in [Isins -> Results]
  /\ spilled \subseteq book \X Dates

\* Where the engine is, and what it has seen there.
FlowInv ==
  /\ pc = "start" => daemon /\ spilled = {} /\ \A i \in Isins : task[i] = "none"
  /\ daemon => Running = {} /\ Queued = {}
  /\ pc \in {"failing", "process", "failed", "published", "empty"} => daemon
  /\ \A i \in collected : task[i] \in {"done", "lost"}
  /\ pc \in {"collect", "process", "published"} =>
       \A i \in collected : task[i] = "done" /\ result[i].kind # "error"
  /\ pc \in {"process", "published"} => collected = book
  /\ Ended => spilled = {}
  /\ marts # {} => pc = "published"

\* A worker that has returned left the files of the dates it reports, and one
\* that has not left none.
FilesInv ==
  /\ \A i \in Isins : task[i] # "done" => result[i] = NoResult
  /\ ~ Ended => \A i \in book, d \in Dates :
       task[i] # "lost" => (<<i, d>> \in spilled <=> d \in result[i].dates)

Counted == {i \in collected : task[i] = "done" /\ result[i].kind \in {"held", "flat"}}

Keyed(C, dim, k) == {i \in C : KeyOf(dim, i) = k}
On(S, res, d) == {i \in S : d \in res[i].dates}

\* What the accumulator holds once it has counted the instruments of C.
EntryOf(C, res, dim, k) ==
  [cash |-> TotalWorth(Keyed(C, dim, k)),
   val  |-> [d \in Dates |-> TotalWorth(On(Keyed(C, dim, k), res, d))]]
LedgerOf(C, res, dim) == [k \in {KeyOf(dim, i) : i \in C} |-> EntryOf(C, res, dim, k)]
Ledger(C, res) == [dim \in Dims |-> LedgerOf(C, res, dim)]

LedgerInv == acc = Ledger(Counted, result)

Labels(B, dim) == {LabelOf(dim, i) : i \in B}
Labelled(B, dim, l) == {i \in B : LabelOf(dim, i) = l}

\* What is published of a book: no more and no less than its holdings.
PublishedRow(B, res, dim, l, d) ==
  [dim |-> dim, label |-> l, date |-> d,
   current |-> TotalWorth(On(Labelled(B, dim, l), res, d)),
   terminal |-> IF dim = "sector" /\ l = "Unknown" THEN NoSector
                ELSE TotalWorth(On(Labelled(B, dim, l), res, d))]
LabelsOn(B, res, dim, d) == {l \in Labels(B, dim) : On(Labelled(B, dim, l), res, d) # {}}

Publishes(M, B, res) ==
  \A row : row \in M <=>
    \E dim \in Dims, d \in Dates : \E l \in LabelsOn(B, res, dim, d) :
      row = PublishedRow(B, res, dim, l, d)

MartsInv == pc = "published" => Publishes(marts, book, result)

\* The two words that the program writes for a blank sector are not the names of
\* sectors.
SectorsAreNamed ==
  \A i \in Isins : Sector[i] \in {"None", "Unknown"} => Sector[i] = NoSector

PoolInv == TypeInv /\ FlowInv /\ FilesInv /\ LedgerInv /\ MartsInv

-----------------------------------------------------------------------------
\* The least element of a set of numbers is one of them.
LEMMA LeastNumber ==
  ASSUME NEW S \in SUBSET Nat, S # {} PROVE Min(S) \in S
<1>1. PICK m \in S : \A n \in S : ~ (<<n, m>> \in OpToRel(<, Nat))
  BY NatLessThanWellFounded, WFMin, Zenon
<1>2. \A n \in S : m <= n
  <2> TAKE n \in S
  <2>1. m \in Nat /\ n \in Nat  OBVIOUS
  <2>2. ~ (n < m)  BY <1>1, <2>1 DEF OpToRel
  <2> QED  BY <2>1, <2>2
<1>3. \E x \in S : \A y \in S : x <= y  BY <1>2
<1> QED  BY <1>3 DEF Min

\* The instrument that a worker takes next is queued.
LEMMA NextQueued ==
  ASSUME TypeInv, Queued # {} PROVE Min(Queued) \in Queued
<1>1. Queued \subseteq Nat  BY PoolConstants DEF Queued, TypeInv
<1> QED  BY <1>1, LeastNumber

\* Only a result with holdings has dates.
LEMMA ResultsHave ==
  ASSUME NEW r \in Results
  PROVE  /\ r.dates \subseteq Dates
         /\ r.kind \in {"none", "flat", "error", "held"}
         /\ r.dates # {} => r.kind = "held"
BY DEF Results

\* The types, initially.
LEMMA TypeInit == Init => TypeInv
<1> SUFFICES ASSUME Init PROVE TypeInv  OBVIOUS
<1>1. NoResult \in Results  BY DEF NoResult, Results
<1>2. result \in [Isins -> Results]  BY <1>1 DEF Init
<1>3. task \in [Isins -> TaskStates]  BY DEF Init, TaskStates
<1> QED  BY <1>2, <1>3 DEF Init, TypeInv

\* The types are kept.
LEMMA TypeStep ==
  ASSUME TypeInv, [Next]_vars PROVE TypeInv'
<1>1. CASE Submit
  <2>1. task' \in [Isins -> TaskStates]  BY <1>1 DEF Submit, TypeInv, TaskStates
  <2> QED  BY <1>1, <2>1 DEF Submit, TypeInv
<1>2. CASE StartTask
  <2>1. Min(Queued) \in Isins  BY <1>2, NextQueued DEF StartTask, Queued, TypeInv
  <2>2. task' \in [Isins -> TaskStates]
    <3>1. task' = [task EXCEPT ![Min(Queued)] = "running"]  BY <1>2 DEF StartTask
    <3> QED  BY <2>1, <3>1 DEF TypeInv, TaskStates
  <2> QED  BY <1>2, <2>2 DEF StartTask, TypeInv
<1>3. CASE LeavePool  BY <1>3 DEF LeavePool, TypeInv
<1>4. CASE Fail  BY <1>4 DEF Fail, TypeInv
<1>5. CASE Process  BY <1>5 DEF Process, TypeInv
<1>6. CASE ProcessRaises  BY <1>6 DEF ProcessRaises, TypeInv
<1>7. CASE Done \/ UNCHANGED vars  BY <1>7 DEF Done, vars, TypeInv
<1>8. ASSUME NEW i \in book, Collect(i) PROVE TypeInv'
  <2>1. pc' \in {"collect", "raised"}  BY <1>8 DEF Collect
  <2>2. collected' \subseteq book  BY <1>8 DEF Collect, TypeInv
  <2>3. UNCHANGED <<book, task, result, spilled>>  BY <1>8 DEF Collect
  <2> QED  BY <2>1, <2>2, <2>3 DEF TypeInv
<1>9. ASSUME NEW i \in book, WorkerDies(i) PROVE TypeInv'
  <2>1. task' \in [Isins -> TaskStates]  BY <1>9 DEF WorkerDies, TypeInv, TaskStates
  <2>2. spilled' \subseteq book \X Dates
    <3>1. PICK ds \in {{}, Dates} : spilled' = spilled \cup ({i} \X ds)  BY <1>9 DEF WorkerDies
    <3> QED  BY <3>1 DEF TypeInv
  <2> QED  BY <1>9, <2>1, <2>2 DEF WorkerDies, TypeInv
<1>10. ASSUME NEW i \in book, NEW r \in Results, EndTask(i, r) PROVE TypeInv'
  <2>1. task' \in [Isins -> TaskStates]  BY <1>10 DEF EndTask, TypeInv, TaskStates
  <2>2. result' \in [Isins -> Results]  BY <1>10 DEF EndTask, TypeInv
  <2>3. spilled' \subseteq book \X Dates
    <3>1. spilled' = spilled \cup ({i} \X r.dates)  BY <1>10 DEF EndTask
    <3>2. r.dates \subseteq Dates  BY ResultsHave
    <3> QED  BY <3>1, <3>2 DEF TypeInv
  <2> QED  BY <1>10, <2>1, <2>2, <2>3 DEF EndTask, TypeInv
<1> QED  BY <1>1, <1>2, <1>3, <1>4, <1>5, <1>6, <1>7, <1>8, <1>9, <1>10 DEF Next

-----------------------------------------------------------------------------
\* The stages of the engine and its futures, initially.
LEMMA FlowInit == Init => FlowInv
BY DEF Init, FlowInv, Running, Queued, Ended

\* The stages of the engine agree with its futures after every step.
LEMMA FlowStep ==
  ASSUME TypeInv, FlowInv, [Next]_vars PROVE FlowInv'
<1>1. CASE Submit
  <2>1. collected = {} /\ marts = {} /\ spilled = {} /\ daemon
    <3>1. \A i \in collected : task[i] = "none"  BY <1>1 DEF Submit, FlowInv, TypeInv
    <3>2. marts = {} /\ spilled = {} /\ daemon  BY <1>1 DEF Submit, FlowInv
    <3> QED  BY <3>1, <3>2 DEF FlowInv
  <2>2. UNCHANGED <<book, collected, marts, spilled, result>>  BY <1>1 DEF Submit
  <2>3. CASE book = {}
    <3>1. pc' = "empty" /\ UNCHANGED <<task, daemon>>  BY <1>1, <2>3 DEF Submit
    <3>2. Running' = {} /\ Queued' = {}  BY <2>2, <2>3 DEF Running, Queued
    <3> QED  BY <2>1, <2>2, <3>1, <3>2 DEF FlowInv, Ended
  <2>4. CASE book # {}
    <3>1. pc' = "collect" /\ daemon' = FALSE  BY <1>1, <2>4 DEF Submit
    <3> QED  BY <2>1, <2>2, <3>1 DEF FlowInv, Ended
  <2> QED  BY <2>3, <2>4
<1>2. CASE StartTask
  <2> DEFINE q == Min(Queued)
  <2>1. q \in Queued  BY <1>2, NextQueued DEF StartTask
  <2>2. /\ task' = [task EXCEPT ![q] = "running"]
        /\ UNCHANGED <<pc, book, result, spilled, collected, daemon, marts>>
    BY <1>2 DEF StartTask
  <2> HIDE DEF q
  <2>3. q \in book /\ q \in Isins /\ task[q] = "queued"  BY <2>1 DEF Queued, TypeInv
  <2>4. ~ daemon /\ pc # "start"  BY <2>1 DEF FlowInv
  <2>5. \A i \in collected : task'[i] = task[i]
    <3> TAKE i \in collected
    <3>1. i # q /\ i \in Isins  BY <2>3 DEF FlowInv, TypeInv
    <3> QED  BY <2>2, <3>1 DEF TypeInv
  <2> QED  BY <2>2, <2>4, <2>5 DEF FlowInv, Ended
<1>3. CASE LeavePool
  <2>1. /\ pc = "raised" \/ (pc = "collect" /\ collected = book)
        /\ Running = {} /\ Queued = {} /\ daemon' = TRUE
        /\ pc' = IF pc = "raised" THEN "failing" ELSE "process"
        /\ UNCHANGED <<book, task, result, spilled, collected, marts>>
    BY <1>3 DEF LeavePool
  <2>2. Running' = {} /\ Queued' = {}  BY <2>1 DEF Running, Queued
  <2>3. CASE pc = "raised"
    <3>1. pc' = "failing"  BY <2>1, <2>3
    <3> QED  BY <2>1, <2>2, <2>3, <3>1 DEF FlowInv, Ended
  <2>4. CASE pc = "collect" /\ collected = book
    <3>1. pc' = "process"  BY <2>1, <2>4
    <3> QED  BY <2>1, <2>2, <2>4, <3>1 DEF FlowInv, Ended
  <2> QED  BY <2>1, <2>3, <2>4
<1>4. CASE Fail
  <2>1. /\ pc = "failing" /\ pc' = "failed" /\ spilled' = {}
        /\ UNCHANGED <<book, task, result, collected, daemon, marts>>
    BY <1>4 DEF Fail
  <2>2. Running' = Running /\ Queued' = Queued  BY <2>1 DEF Running, Queued
  <2> QED  BY <2>1, <2>2 DEF FlowInv
<1>5. CASE Process
  <2>1. /\ pc = "process" /\ pc' \in {"published", "empty"} /\ spilled' = {}
        /\ pc' = "empty" => marts' = marts
        /\ UNCHANGED <<book, task, result, collected, daemon>>
    BY <1>5 DEF Process
  <2>2. Running' = Running /\ Queued' = Queued  BY <2>1 DEF Running, Queued
  <2> QED  BY <2>1, <2>2 DEF FlowInv
<1>6. CASE ProcessRaises
  <2>1. /\ pc = "process" /\ pc' = "failing"
        /\ UNCHANGED <<book, task, result, spilled, collected, daemon, marts>>
    BY <1>6 DEF ProcessRaises
  <2>2. Running' = Running /\ Queued' = Queued  BY <2>1 DEF Running, Queued
  <2> QED  BY <2>1, <2>2 DEF FlowInv, Ended
<1>7. CASE Done \/ UNCHANGED vars
  BY <1>7 DEF Done, vars, FlowInv, Running, Queued, Ended
<1>8. ASSUME NEW i \in book, Collect(i) PROVE FlowInv'
  <2>1. /\ pc = "collect" /\ task[i] \in {"done", "lost"} /\ collected' = collected \cup {i}
        /\ UNCHANGED <<book, task, result, spilled, daemon, marts>>
    BY <1>8 DEF Collect
  <2>2. Running' = Running /\ Queued' = Queued  BY <2>1 DEF Running, Queued
  <2>3. CASE task[i] = "lost" \/ result[i].kind = "error"
    <3>1. pc' = "raised"  BY <1>8, <2>3 DEF Collect
    <3> QED  BY <2>1, <2>2, <3>1 DEF FlowInv, Ended
  <2>4. CASE ~ (task[i] = "lost" \/ result[i].kind = "error")
    <3>1. pc' = "collect"  BY <1>8, <2>1, <2>4 DEF Collect
    <3>2. \A j \in collected' : task[j] = "done" /\ result[j].kind # "error"
      BY <2>1, <2>4 DEF FlowInv
    <3> QED  BY <2>1, <2>2, <3>1, <3>2 DEF FlowInv, Ended
  <2> QED  BY <2>3, <2>4
<1>9. ASSUME NEW i \in book, WorkerDies(i) PROVE FlowInv'
  <2>1. /\ task[i] = "running"
        /\ task' = [j \in Isins |-> IF task[j] \in {"queued", "running"} THEN "lost" ELSE task[j]]
        /\ UNCHANGED <<pc, book, result, collected, daemon, marts>>
    BY <1>9 DEF WorkerDies
  <2>2. ~ daemon /\ pc # "start"  BY <2>1 DEF FlowInv, Running
  <2>3. \A j \in collected : task'[j] = task[j]  BY <2>1 DEF FlowInv, TypeInv
  <2> QED  BY <2>1, <2>2, <2>3 DEF FlowInv, Ended
<1>10. ASSUME NEW i \in book, NEW r \in Results, EndTask(i, r) PROVE FlowInv'
  <2>1. /\ task[i] = "running" /\ task' = [task EXCEPT ![i] = "done"]
        /\ result' = [result EXCEPT ![i] = r]
        /\ UNCHANGED <<pc, book, collected, daemon, marts>>
    BY <1>10 DEF EndTask
  <2>2. ~ daemon /\ pc # "start"  BY <2>1 DEF FlowInv, Running
  <2>3. i \notin collected  BY <2>1 DEF FlowInv
  <2>4. \A j \in collected : task'[j] = task[j] /\ result'[j] = result[j]
    BY <2>1, <2>3 DEF TypeInv
  <2> QED  BY <2>1, <2>2, <2>4 DEF FlowInv, Ended
<1> QED  BY <1>1, <1>2, <1>3, <1>4, <1>5, <1>6, <1>7, <1>8, <1>9, <1>10 DEF Next

\* The engine's state is of its type, and its stage fits its futures: while the
\* daemon flag is up no task is queued or running, a stage behind the loop over
\* as_completed has seen every future, and an ended engine has no files left.
THEOREM EngineFlow == Spec => [](TypeInv /\ FlowInv)
<1>1. Init => TypeInv /\ FlowInv  BY TypeInit, FlowInit
<1>2. TypeInv /\ FlowInv /\ [Next]_vars => (TypeInv /\ FlowInv)'  BY TypeStep, FlowStep
<1> QED  BY <1>1, <1>2, PTL DEF Spec

\* One instrument that fails, in its worker or with it, fails the engine: the
\* first future without a result is raised out of the loop over as_completed, the
\* pool is left only when no task is queued or running, and only then are the
\* rows published, the daemon flag raised and the directory removed.
THEOREM OneFailureFailsAll == Spec => []FailureIsTotal
<1>1. TypeInv /\ FlowInv => FailureIsTotal
  BY DEF TypeInv, FlowInv, FailureIsTotal, Ended
<1> QED  BY <1>1, EngineFlow, PTL

-----------------------------------------------------------------------------
\* The spilled files, initially.
LEMMA FilesInit == Init => FilesInv
BY DEF Init, FilesInv, NoResult

\* The files are those of the finished workers after every step.
LEMMA FilesStep ==
  ASSUME TypeInv, FlowInv, FilesInv, [Next]_vars PROVE FilesInv'
<1>1. CASE Submit
  <2>1. UNCHANGED <<book, result, spilled>>  BY <1>1 DEF Submit
  <2>2. \A i \in Isins : task'[i] # "done" /\ task[i] = "none"
    BY <1>1 DEF Submit, FlowInv, TypeInv
  <2>3. ~ Ended  BY <1>1 DEF Submit, Ended
  <2>4. \A i \in book : i \in Isins  BY DEF TypeInv
  <2> QED  BY <2>1, <2>2, <2>3, <2>4 DEF FilesInv
<1>2. CASE StartTask
  <2> DEFINE q == Min(Queued)
  <2>1. q \in Queued  BY <1>2, NextQueued DEF StartTask
  <2>2. task' = [task EXCEPT ![q] = "running"] /\ UNCHANGED <<pc, book, result, spilled>>
    BY <1>2 DEF StartTask
  <2> HIDE DEF q
  <2>3. task[q] = "queued"  BY <2>1 DEF Queued
  <2>4. \A i \in Isins : task'[i] = task[i] \/ (i = q /\ task'[i] = "running")  BY <2>2 DEF TypeInv
  <2>5. \A i \in Isins : /\ task'[i] # "done" => task[i] # "done"
                         /\ task'[i] # "lost" => task[i] # "lost"
    BY <2>3, <2>4
  <2>6. Ended' = Ended  BY <2>2 DEF Ended
  <2>7. \A i \in book : i \in Isins  BY DEF TypeInv
  <2> QED  BY <2>2, <2>5, <2>6, <2>7 DEF FilesInv
<1>3. CASE LeavePool
  <2>1. UNCHANGED <<book, task, result, spilled>> /\ ~ Ended  BY <1>3 DEF LeavePool, Ended
  <2> QED  BY <2>1 DEF FilesInv
<1>4. CASE Fail
  <2>1. UNCHANGED <<book, task, result>> /\ Ended'  BY <1>4 DEF Fail, Ended
  <2> QED  BY <2>1 DEF FilesInv
<1>5. CASE Process
  <2>1. UNCHANGED <<book, task, result>> /\ Ended'  BY <1>5 DEF Process, Ended
  <2> QED  BY <2>1 DEF FilesInv
<1>6. CASE ProcessRaises
  <2>1. UNCHANGED <<book, task, result, spilled>> /\ ~ Ended  BY <1>6 DEF ProcessRaises, Ended
  <2> QED  BY <2>1 DEF FilesInv
<1>7. CASE Done \/ UNCHANGED vars
  BY <1>7 DEF Done, vars, FilesInv, Ended
<1>8. ASSUME NEW i \in book, Collect(i) PROVE FilesInv'
  <2>1. UNCHANGED <<book, task, result, spilled>> /\ ~ Ended  BY <1>8 DEF Collect, Ended
  <2> QED  BY <2>1 DEF FilesInv
<1>9. ASSUME NEW i \in book, WorkerDies(i) PROVE FilesInv'
  <2>1. /\ task[i] = "running" /\ UNCHANGED <<pc, book, result>>
        /\ task' = [j \in Isins |-> IF task[j] \in {"queued", "running"} THEN "lost" ELSE task[j]]
    BY <1>9 DEF WorkerDies
  <2>2. PICK ds \in {{}, Dates} : spilled' = spilled \cup ({i} \X ds)  BY <1>9 DEF WorkerDies
  <2>3. \A j \in Isins : /\ task'[j] # "done" => task[j] # "done"
                         /\ task'[j] # "lost" => task[j] # "lost" /\ j # i
    BY <2>1
  <2>4. \A j \in book, d \in Dates : j # i => (<<j, d>> \in spilled' <=> <<j, d>> \in spilled)  BY <2>2
  <2>5. \A j \in book : j \in Isins  BY DEF TypeInv
  <2>6. Ended' = Ended  BY <2>1 DEF Ended
  <2>7. \A j \in Isins : task'[j] # "done" => result'[j] = NoResult  BY <2>1, <2>3 DEF FilesInv
  <2>8. ASSUME ~ Ended, NEW j \in book, NEW d \in Dates, task'[j] # "lost"
        PROVE  <<j, d>> \in spilled' <=> d \in result'[j].dates
    BY <2>1, <2>3, <2>4, <2>5, <2>8 DEF FilesInv
  <2> QED  BY <2>1, <2>6, <2>7, <2>8 DEF FilesInv
<1>10. ASSUME NEW i \in book, NEW r \in Results, EndTask(i, r) PROVE FilesInv'
  <2>1. /\ task[i] = "running" /\ task' = [task EXCEPT ![i] = "done"]
        /\ result' = [result EXCEPT ![i] = r] /\ spilled' = spilled \cup ({i} \X r.dates)
        /\ UNCHANGED <<pc, book>>
    BY <1>10 DEF EndTask
  <2>2. i \in Isins /\ task'[i] = "done" /\ result'[i] = r  BY <2>1 DEF TypeInv
  <2>3. \A j \in Isins : j # i => task'[j] = task[j] /\ result'[j] = result[j]  BY <2>1 DEF TypeInv
  <2>4. \A j \in book : j \in Isins  BY DEF TypeInv
  <2>5. Ended' = Ended  BY <2>1 DEF Ended
  <2>6. \A j \in Isins : task'[j] # "done" => result'[j] = NoResult
    BY <2>2, <2>3 DEF FilesInv
  <2>7. ASSUME ~ Ended, NEW j \in book, NEW d \in Dates, task'[j] # "lost"
        PROVE  <<j, d>> \in spilled' <=> d \in result'[j].dates
    <3>1. CASE j = i
      <4>1. <<i, d>> \notin spilled
        <5>1. result[i] = NoResult /\ task[i] # "lost"  BY <2>1, <2>2 DEF FilesInv
        <5>2. d \notin result[i].dates  BY <5>1 DEF NoResult
        <5> QED  BY <5>1, <5>2, <2>7 DEF FilesInv
      <4> QED  BY <2>1, <2>2, <3>1, <4>1
    <3>2. CASE j # i
      <4>1. <<j, d>> \in spilled' <=> <<j, d>> \in spilled  BY <2>1, <3>2
      <4> QED  BY <4>1, <2>3, <2>4, <2>7, <3>2 DEF FilesInv
    <3> QED  BY <3>1, <3>2
  <2> QED  BY <2>1, <2>5, <2>6, <2>7 DEF FilesInv
<1> QED  BY <1>1, <1>2, <1>3, <1>4, <1>5, <1>6, <1>7, <1>8, <1>9, <1>10 DEF Next

-----------------------------------------------------------------------------
\* The accumulator: what an instrument adds, in whatever order it comes.
LEMMA TotalNone == TotalWorth({}) = 0
BY SumNone DEF TotalWorth, Sum

\* One instrument more is worth its worth more.
LEMMA TotalAdd ==
  ASSUME NEW S \in SUBSET Isins, NEW i \in Isins \ S
  PROVE  TotalWorth(S \cup {i}) = TotalWorth(S) + Worth[i]
<1>1. IsFiniteSet(S)  BY PoolConstants, FS_Subset
<1>2. Worth[i] \in Int /\ \A x \in S : Worth[x] \in Int  BY PoolConstants
<1>3. Sum(Worth, S \cup {i}) = Sum(Worth, S) + Worth[i]  BY <1>1, <1>2, SumAdd
<1> QED  BY <1>3 DEF TotalWorth, Sum

\* The accumulator's closed form looks at the results of those it counts only.
LEMMA LedgerDepends ==
  ASSUME NEW C, NEW r, NEW s, \A i \in C : r[i] = s[i]
  PROVE  Ledger(C, r) = Ledger(C, s)
<1>1. \A dim, k, d : On(Keyed(C, dim, k), r, d) = On(Keyed(C, dim, k), s, d)  BY DEF On, Keyed
<1>2. \A dim, k : EntryOf(C, r, dim, k) = EntryOf(C, s, dim, k)  BY <1>1 DEF EntryOf
<1>3. \A dim : LedgerOf(C, r, dim) = LedgerOf(C, s, dim)  BY <1>2 DEF LedgerOf
<1> QED  BY <1>3 DEF Ledger

\* One instrument more changes the entry of its own key and no other.
LEMMA EntryGains ==
  ASSUME NEW C \in SUBSET Isins, NEW i \in Isins \ C, NEW res, NEW dim, NEW k
  PROVE  /\ k # KeyOf(dim, i) => EntryOf(C \cup {i}, res, dim, k) = EntryOf(C, res, dim, k)
         /\ k = KeyOf(dim, i) =>
              EntryOf(C \cup {i}, res, dim, k) = AddedTo(EntryOf(C, res, dim, k), i, res[i])
<1> DEFINE P == Keyed(C, dim, k)
           Q == Keyed(C \cup {i}, dim, k)
<1>1. ASSUME k # KeyOf(dim, i)
      PROVE  EntryOf(C \cup {i}, res, dim, k) = EntryOf(C, res, dim, k)
  <2>1. Q = P  BY <1>1 DEF Keyed
  <2> QED  BY <2>1 DEF EntryOf
<1>2. ASSUME k = KeyOf(dim, i)
      PROVE  EntryOf(C \cup {i}, res, dim, k) = AddedTo(EntryOf(C, res, dim, k), i, res[i])
  <2>1. Q = P \cup {i} /\ P \in SUBSET Isins /\ i \notin P  BY <1>2 DEF Keyed
  <2> HIDE DEF P, Q
  <2>2. TotalWorth(Q) = TotalWorth(P) + Worth[i]  BY <2>1, TotalAdd
  <2>3. ASSUME NEW d \in Dates
        PROVE  TotalWorth(On(Q, res, d)) = TotalWorth(On(P, res, d)) + IF d \in res[i].dates THEN Worth[i] ELSE 0
    <3> DEFINE X == On(P, res, d)
               Y == On(Q, res, d)
    <3>1. X \in SUBSET Isins /\ i \notin X  BY <2>1 DEF On
    <3>2. TotalWorth(X) \in Int
      <4>1. X \in SUBSET Isins  BY <3>1
      <4> HIDE DEF X
      <4>2. IsFiniteSet(X)  BY <4>1, PoolConstants, FS_Subset
      <4>3. \A x \in X : Worth[x] \in Int  BY <4>1, PoolConstants
      <4> QED  BY <4>2, <4>3, SumRemove DEF TotalWorth, Sum
    <3>3. CASE d \in res[i].dates
      <4>1. Y = X \cup {i}  BY <2>1, <3>3 DEF On
      <4> HIDE DEF X, Y
      <4>2. TotalWorth(Y) = TotalWorth(X) + Worth[i]  BY <3>1, <4>1, TotalAdd
      <4> QED  BY <4>2, <3>3 DEF X, Y
    <3>4. CASE d \notin res[i].dates
      <4>1. Y = X  BY <2>1, <3>4 DEF On
      <4> HIDE DEF X
      <4>2. TotalWorth(Y) = TotalWorth(X) + 0  BY <3>2, <4>1
      <4> QED  BY <4>2, <3>4 DEF X
    <3> QED  BY <3>3, <3>4
  <2>4. EntryOf(C, res, dim, k) = [cash |-> TotalWorth(P), val |-> [d \in Dates |-> TotalWorth(On(P, res, d))]]
    BY DEF EntryOf, P
  <2>5. EntryOf(C \cup {i}, res, dim, k) = [cash |-> TotalWorth(Q), val |-> [d \in Dates |-> TotalWorth(On(Q, res, d))]]
    BY DEF EntryOf, Q
  <2> QED  BY <2>2, <2>3, <2>4, <2>5 DEF AddedTo
<1> QED  BY <1>1, <1>2

\* A key that no counted instrument has stands at its initial entry.
LEMMA EntryNew ==
  ASSUME NEW C, NEW res, NEW dim, NEW k, \A j \in C : k # KeyOf(dim, j)
  PROVE  EntryOf(C, res, dim, k) = NewEntry
<1>1. Keyed(C, dim, k) = {}  BY DEF Keyed
<1>2. \A d : On(Keyed(C, dim, k), res, d) = {}  BY <1>1 DEF On
<1> QED  BY <1>1, <1>2, TotalNone DEF EntryOf, NewEntry

\* Collecting one more result is the closed form of the larger set, in any order.
LEMMA LedgerGains ==
  ASSUME NEW C \in SUBSET Isins, NEW i \in Isins \ C, NEW res
  PROVE  Accumulate(Ledger(C, res), i, res[i]) = Ledger(C \cup {i}, res)
<1> DEFINE D == C \cup {i}
           K(S, dim) == {KeyOf(dim, j) : j \in S}
<1>1. ASSUME NEW dim \in Dims, NEW a, a = LedgerOf(C, res, dim),
             NEW k, k = KeyOf(dim, i), NEW entry,
             entry = IF k \in DOMAIN a THEN a[k] ELSE NewEntry
      PROVE  With(a, k, AddedTo(entry, i, res[i])) = LedgerOf(D, res, dim)
  <2>1. DOMAIN a = K(C, dim) /\ \A l \in K(C, dim) : a[l] = EntryOf(C, res, dim, l)
    BY <1>1 DEF LedgerOf
  <2>2. entry = EntryOf(C, res, dim, k)
    <3>1. CASE k \in K(C, dim)  BY <3>1, <2>1, <1>1
    <3>2. CASE k \notin K(C, dim)
      <4>1. \A j \in C : k # KeyOf(dim, j)  BY <3>2
      <4> QED  BY <3>2, <4>1, <2>1, <1>1, EntryNew
    <3> QED  BY <3>1, <3>2
  <2>3. AddedTo(entry, i, res[i]) = EntryOf(D, res, dim, k)  BY <1>1, <2>2, EntryGains
  <2>4. \A l \in K(C, dim) : l # k => a[l] = EntryOf(D, res, dim, l)  BY <1>1, <2>1, EntryGains
  <2>5. K(D, dim) = {k} \cup K(C, dim)  BY <1>1
  <2> DEFINE b == With(a, k, AddedTo(entry, i, res[i]))
             c == LedgerOf(D, res, dim)
  <2>6. b = [l \in {k} \cup K(C, dim) |-> IF l = k THEN AddedTo(entry, i, res[i]) ELSE a[l]]
    <3> HIDE DEF K
    <3> QED  BY <2>1 DEF With
  <2>7. c = [l \in K(D, dim) |-> EntryOf(D, res, dim, l)]  BY DEF LedgerOf
  <2> HIDE DEF b, c, D, K
  <2>8. \A l \in {k} \cup K(C, dim) : b[l] = EntryOf(D, res, dim, l)  BY <2>3, <2>4, <2>6
  <2>9. b = c  BY <2>5, <2>6, <2>7, <2>8
  <2> QED  BY <2>9 DEF b, c
<1>2. \A dim \in Dims : Ledger(C, res)[dim] = LedgerOf(C, res, dim)  BY DEF Ledger
<1>3. \A dim \in Dims : Accumulate(Ledger(C, res), i, res[i])[dim] = LedgerOf(D, res, dim)
  <2> TAKE dim \in Dims
  <2> DEFINE a == Ledger(C, res)[dim]
             k == KeyOf(dim, i)
             entry == IF k \in DOMAIN a THEN a[k] ELSE NewEntry
  <2>1. Accumulate(Ledger(C, res), i, res[i])[dim] = With(a, k, AddedTo(entry, i, res[i]))
    BY DEF Accumulate
  <2>2. a = LedgerOf(C, res, dim)  BY <1>2
  <2> HIDE DEF a
  <2> QED  BY <1>1, <2>1, <2>2
<1>4. Accumulate(Ledger(C, res), i, res[i])
        = [dim \in Dims |-> Accumulate(Ledger(C, res), i, res[i])[dim]]  BY DEF Accumulate
<1> HIDE DEF D
<1>5. Accumulate(Ledger(C, res), i, res[i]) = [dim \in Dims |-> LedgerOf(D, res, dim)]  BY <1>3, <1>4
<1> QED  BY <1>5 DEF Ledger, D

-----------------------------------------------------------------------------
\* The accumulator, initially.
LEMMA LedgerInit == Init => LedgerInv
<1> SUFFICES ASSUME Init PROVE LedgerInv  OBVIOUS
<1>1. Counted = {}  BY DEF Init, Counted
<1>2. \A dim \in Dims : LedgerOf({}, result, dim) = Empty  BY DEF LedgerOf, Empty
<1>3. acc = [dim \in Dims |-> Empty]  BY DEF Init
<1> QED  BY <1>1, <1>2, <1>3 DEF LedgerInv, Ledger

\* A step that collects nothing neither counts nor forgets an instrument.
LEMMA LedgerKept ==
  ASSUME LedgerInv, UNCHANGED <<acc, collected>>,
         \A i \in collected : task'[i] = task[i] /\ result'[i] = result[i]
  PROVE  LedgerInv'
<1>1. Counted' = Counted  BY DEF Counted
<1>2. \A i \in Counted : result[i] = result'[i]  BY DEF Counted
<1>3. Ledger(Counted, result) = Ledger(Counted, result')  BY <1>2, LedgerDepends
<1> QED  BY <1>1, <1>3 DEF LedgerInv

\* The accumulator keeps its closed form.
LEMMA LedgerStep ==
  ASSUME TypeInv, FlowInv, LedgerInv, [Next]_vars PROVE LedgerInv'
<1>1. CASE Submit
  <2>1. \A i \in collected : FALSE
    <3>1. \A i \in collected : task[i] = "none"  BY <1>1 DEF Submit, FlowInv, TypeInv
    <3> QED  BY <3>1 DEF FlowInv
  <2> QED  BY <1>1, <2>1, LedgerKept DEF Submit
<1>2. CASE StartTask
  <2> DEFINE q == Min(Queued)
  <2>1. q \in Queued  BY <1>2, NextQueued DEF StartTask
  <2>2. task' = [task EXCEPT ![q] = "running"] /\ UNCHANGED <<acc, collected, result>>
    BY <1>2 DEF StartTask
  <2> HIDE DEF q
  <2>3. \A i \in collected : task'[i] = task[i]
    <3> TAKE i \in collected
    <3>1. i # q /\ i \in Isins  BY <2>1 DEF FlowInv, TypeInv, Queued
    <3> QED  BY <2>2, <3>1 DEF TypeInv
  <2> QED  BY <2>2, <2>3, LedgerKept
<1>3. CASE LeavePool  BY <1>3, LedgerKept DEF LeavePool
<1>4. CASE Fail  BY <1>4, LedgerKept DEF Fail
<1>5. CASE Process  BY <1>5, LedgerKept DEF Process
<1>6. CASE ProcessRaises  BY <1>6, LedgerKept DEF ProcessRaises
<1>7. CASE Done \/ UNCHANGED vars  BY <1>7, LedgerKept DEF Done, vars
<1>8. ASSUME NEW i \in book, Collect(i) PROVE LedgerInv'
  <2>1. /\ i \notin collected /\ task[i] \in {"done", "lost"} /\ collected' = collected \cup {i}
        /\ UNCHANGED <<task, result>>
    BY <1>8 DEF Collect
  <2>2. result[i].kind \in {"none", "flat", "error", "held"} /\ i \in Isins
    <3>1. i \in Isins /\ result[i] \in Results  BY DEF TypeInv
    <3> QED  BY <3>1, ResultsHave
  <2>3. CASE task[i] = "lost" \/ result[i].kind = "error"
    <3>1. UNCHANGED acc  BY <1>8, <2>3 DEF Collect
    <3>2. Counted' = Counted  BY <2>1, <2>3 DEF Counted
    <3> QED  BY <2>1, <3>1, <3>2 DEF LedgerInv
  <2>4. CASE task[i] = "done" /\ result[i].kind = "none"
    <3>1. UNCHANGED acc  BY <1>8, <2>4 DEF Collect
    <3>2. Counted' = Counted  BY <2>1, <2>4 DEF Counted
    <3> QED  BY <2>1, <3>1, <3>2 DEF LedgerInv
  <2>5. CASE task[i] = "done" /\ result[i].kind \in {"flat", "held"}
    <3>1. acc' = Accumulate(acc, i, result[i])  BY <1>8, <2>5 DEF Collect
    <3>2. Counted' = Counted \cup {i}  BY <2>1, <2>5 DEF Counted
    <3>3. Counted \in SUBSET Isins /\ i \in Isins \ Counted  BY <2>1, <2>2 DEF Counted, TypeInv
    <3>4. Accumulate(Ledger(Counted, result), i, result[i]) = Ledger(Counted \cup {i}, result)
      BY <3>3, LedgerGains
    <3> QED  BY <2>1, <3>1, <3>2, <3>4 DEF LedgerInv
  <2> QED  BY <2>1, <2>2, <2>3, <2>4, <2>5
<1>9. ASSUME NEW i \in book, WorkerDies(i) PROVE LedgerInv'
  <2>1. /\ task' = [j \in Isins |-> IF task[j] \in {"queued", "running"} THEN "lost" ELSE task[j]]
        /\ UNCHANGED <<acc, collected, result>>
    BY <1>9 DEF WorkerDies
  <2>2. \A j \in collected : task'[j] = task[j]  BY <2>1 DEF FlowInv, TypeInv
  <2> QED  BY <2>1, <2>2, LedgerKept
<1>10. ASSUME NEW i \in book, NEW r \in Results, EndTask(i, r) PROVE LedgerInv'
  <2>1. /\ task[i] = "running" /\ task' = [task EXCEPT ![i] = "done"]
        /\ result' = [result EXCEPT ![i] = r] /\ UNCHANGED <<acc, collected>>
    BY <1>10 DEF EndTask
  <2>2. i \notin collected  BY <2>1 DEF FlowInv
  <2>3. \A j \in collected : task'[j] = task[j] /\ result'[j] = result[j]
    BY <2>1, <2>2 DEF TypeInv
  <2> QED  BY <2>1, <2>3, LedgerKept
<1> QED  BY <1>1, <1>2, <1>3, <1>4, <1>5, <1>6, <1>7, <1>8, <1>9, <1>10 DEF Next
-----------------------------------------------------------------------------
\* The slices: what the entries of a dimension add up to.
LEMMA TotalOfParts ==
  ASSUME NEW S \in SUBSET Isins, NEW lab, NEW L, IsFiniteSet(L), \A i \in S : lab[i] \in L,
         NEW g, \A l \in L : g[l] = TotalWorth(PartOf(S, lab, l))
  PROVE  Sum(g, L) = TotalWorth(S)
<1>1. IsFiniteSet(S)  BY PoolConstants, FS_Subset
<1>2. \A i \in S : Worth[i] \in Int  BY PoolConstants
<1>3. \A l \in L : g[l] = Sum(Worth, PartOf(S, lab, l))  BY DEF TotalWorth, Sum
<1>4. Sum(g, L) = Sum(Worth, S)  BY <1>1, <1>2, <1>3, SumOfParts
<1> QED  BY <1>4 DEF TotalWorth, Sum

\* The sum of a function is that over its domain.
LEMMA FunctionTotal ==
  ASSUME NEW f PROVE SumFunction(f) = Sum(f, DOMAIN f)
BY DEF Sum, SumFunction, SumFunctionOnSet, FoldFunction

\* The entries of a dimension add up to the instruments of C.
SumsTo(a, C, res) ==
  /\ SumFunction([k \in DOMAIN a |-> a[k].cash]) = TotalWorth(C)
  /\ \A d \in Dates : SumFunction([k \in DOMAIN a |-> a[k].val[d]]) = TotalWorth(On(C, res, d))

\* Each dimension of the closed form adds up to the instruments counted.
LEMMA LedgerSums ==
  ASSUME NEW C \in SUBSET Isins, NEW res, NEW dim \in Dims, NEW a, a = LedgerOf(C, res, dim)
  PROVE  SumsTo(a, C, res)
<1> DEFINE K == {KeyOf(dim, i) : i \in C}
           lab == [i \in C |-> KeyOf(dim, i)]
<1>1. IsFiniteSet(K)
  <2>1. IsFiniteSet(C)  BY PoolConstants, FS_Subset
  <2>2. K = {lab[i] : i \in C}  OBVIOUS
  <2> HIDE DEF K, lab
  <2>3. IsFiniteSet({lab[i] : i \in C})  BY <2>1, ImageFinite
  <2> QED  BY <2>2, <2>3
<1>2. DOMAIN a = K /\ \A k \in K : a[k] = EntryOf(C, res, dim, k)  BY DEF LedgerOf
<1>3. \A i \in C : lab[i] \in K /\ lab[i] = KeyOf(dim, i)  OBVIOUS
<1> HIDE DEF K, lab
<1>4. SumFunction([k \in DOMAIN a |-> a[k].cash]) = TotalWorth(C)
  <2> DEFINE g == [k \in K |-> a[k].cash]
  <2>1. \A k \in K : g[k] = TotalWorth(PartOf(C, lab, k))
    <3> TAKE k \in K
    <3>1. PartOf(C, lab, k) = Keyed(C, dim, k)  BY <1>3 DEF Keyed, PartOf
    <3> QED  BY <1>2, <3>1 DEF EntryOf
  <2>2. DOMAIN g = K  OBVIOUS
  <2> HIDE DEF g
  <2>3. Sum(g, K) = TotalWorth(C)  BY <1>1, <1>3, <2>1, TotalOfParts
  <2>4. SumFunction(g) = TotalWorth(C)  BY <2>2, <2>3, FunctionTotal
  <2> QED  BY <1>2, <2>4 DEF g
<1>5. ASSUME NEW d \in Dates
      PROVE  SumFunction([k \in DOMAIN a |-> a[k].val[d]]) = TotalWorth(On(C, res, d))
  <2> DEFINE g == [k \in K |-> a[k].val[d]]
             S == On(C, res, d)
  <2>0. S \in SUBSET C  BY DEF On
  <2>1. \A k \in K : g[k] = TotalWorth(PartOf(S, lab, k))
    <3> TAKE k \in K
    <3>1. PartOf(S, lab, k) = On(Keyed(C, dim, k), res, d)  BY <1>3 DEF Keyed, On, PartOf
    <3> QED  BY <1>2, <3>1 DEF EntryOf
  <2>2. DOMAIN g = K  OBVIOUS
  <2> HIDE DEF g, S
  <2>5. S \in SUBSET Isins /\ \A i \in S : lab[i] \in K  BY <1>3, <2>0
  <2>3. Sum(g, K) = TotalWorth(S)  BY <1>1, <2>1, <2>5, TotalOfParts
  <2>4. SumFunction(g) = TotalWorth(S)  BY <2>2, <2>3, FunctionTotal
  <2> QED  BY <1>2, <2>4 DEF g, S
<1> QED  BY <1>4, <1>5 DEF SumsTo

\* The accumulator's entries add up to what was collected.
LEMMA SlicesFollow ==
  ASSUME TypeInv, LedgerInv PROVE SlicesAddUp
<1>1. Counted \in SUBSET Isins  BY DEF Counted, TypeInv
<1>2. \A dim \in Dims : acc[dim] = LedgerOf(Counted, result, dim)  BY DEF LedgerInv, Ledger
<1>3. \A d \in Dates : On(Counted, result, d) = {i \in Counted : d \in result[i].dates}  BY DEF On
<1>4. ASSUME NEW dim \in Dims
      PROVE  /\ SumFunction([k \in DOMAIN acc[dim] |-> acc[dim][k].cash]) = TotalWorth(Counted)
             /\ \A d \in Dates :
                  SumFunction([k \in DOMAIN acc[dim] |-> acc[dim][k].val[d]])
                    = TotalWorth({i \in Counted : d \in result[i].dates})
  <2>1. SumsTo(acc[dim], Counted, result)  BY <1>1, <1>2, LedgerSums
  <2> QED  BY <1>3, <2>1 DEF SumsTo
<1> QED  BY <1>4 DEF SlicesAddUp, Counted

-----------------------------------------------------------------------------
\* The marts: the key of the accumulator and the label of the rows are the same
\* word, but for a blank sector.
LEMMA KeysAreLabels ==
  ASSUME SectorsAreNamed, NEW dim \in Dims, NEW j \in Isins, NEW l, l = LabelOf(dim, j),
         ~ (dim = "sector" /\ l = "Unknown"), NEW i \in Isins
  PROVE  KeyOf(dim, i) = l <=> LabelOf(dim, i) = l
<1>1. CASE dim = "portfolio"  BY <1>1 DEF KeyOf, LabelOf
<1>2. CASE dim = "class"  BY <1>2 DEF KeyOf, LabelOf
<1>3. CASE dim = "sector"
  <2>1. l = Sector[j] /\ Sector[j] # NoSector  BY <1>3 DEF LabelOf
  <2>2. l \notin {"None", "Unknown"}  BY <2>1 DEF SectorsAreNamed
  <2> QED  BY <1>3, <2>2 DEF KeyOf, LabelOf
<1> QED  BY <1>1, <1>2, <1>3 DEF Dims

\* The mart's word for a blank sector is the key of no instrument.
LEMMA UnknownIsNoKey ==
  ASSUME SectorsAreNamed, NEW i \in Isins PROVE KeyOf("sector", i) # "Unknown"
BY DEF SectorsAreNamed, KeyOf

\* At publication the files and the accumulator are of the same instruments.
LEMMA ProcessIsWhole ==
  ASSUME TypeInv, FlowInv, FilesInv, pc = "process"
  PROVE  /\ \A l : \A dim \in Dims, d \in Dates : Held(dim, l, d) = On(Labelled(book, dim, l), result, d)
         /\ \A i \in book : (\E d \in Dates : d \in result[i].dates) => i \in Counted
         /\ Counted \subseteq book
<1>1. collected = book /\ ~ Ended /\ \A i \in book : task[i] = "done"  BY DEF FlowInv, Ended
<1>2. \A i \in book, d \in Dates : <<i, d>> \in spilled <=> d \in result[i].dates
  BY <1>1 DEF FilesInv
<1>3. ASSUME NEW i \in book, NEW d \in Dates, d \in result[i].dates PROVE i \in Counted
  <2>1. result[i] \in Results  BY DEF TypeInv
  <2>2. result[i].kind = "held"  BY <1>3, <2>1, ResultsHave
  <2> QED  BY <1>1, <2>2 DEF Counted
<1>4. \A l : \A dim \in Dims, d \in Dates : Held(dim, l, d) = On(Labelled(book, dim, l), result, d)
  BY <1>2 DEF Held, On, Labelled
<1> QED  BY <1>1, <1>3, <1>4 DEF Counted

\* The row the code makes is the one that the book and the results determine.
LEMMA RowIsPublished ==
  ASSUME SectorsAreNamed, TypeInv, FlowInv, FilesInv, LedgerInv, pc = "process",
         NEW dim \in Dims, NEW d \in Dates, NEW l \in LabelsOn(book, result, dim, d)
  PROVE  Row(dim, l, d) = PublishedRow(book, result, dim, l, d)
<1> DEFINE H == On(Labelled(book, dim, l), result, d)
<1>0. book \subseteq Isins  BY DEF TypeInv
<1>1. Held(dim, l, d) = H  BY ProcessIsWhole
<1>2. acc[dim] = LedgerOf(Counted, result, dim)  BY DEF LedgerInv, Ledger
<1>3. PICK j \in book : LabelOf(dim, j) = l /\ d \in result[j].dates
  BY DEF LabelsOn, On, Labelled
<1>4. j \in Counted  BY <1>3, ProcessIsWhole
<1>5. CASE dim = "sector" /\ l = "Unknown"
  <2>1. \A i \in Counted : KeyOf(dim, i) # l  BY <1>0, <1>5, ProcessIsWhole, UnknownIsNoKey
  <2>2. l \notin DOMAIN acc[dim]  BY <1>2, <2>1 DEF LedgerOf
  <2> QED  BY <1>1, <1>5, <2>2 DEF Row, PublishedRow, TotalWorth
<1>6. CASE ~ (dim = "sector" /\ l = "Unknown")
  <2>1. \A i \in Isins : KeyOf(dim, i) = l <=> LabelOf(dim, i) = l
    <3>1. j \in Isins  BY <1>0
    <3> QED  BY <1>3, <1>6, <3>1, KeysAreLabels
  <2>2. l \in DOMAIN acc[dim] /\ acc[dim][l] = EntryOf(Counted, result, dim, l)
    <3>1. KeyOf(dim, j) = l  BY <1>0, <1>3, <2>1
    <3> QED  BY <1>2, <1>4, <3>1 DEF LedgerOf
  <2>3. On(Keyed(Counted, dim, l), result, d) = H
    <3>1. ASSUME NEW i \in On(Keyed(Counted, dim, l), result, d) PROVE i \in H
      <4>1. i \in book /\ KeyOf(dim, i) = l /\ d \in result[i].dates
        BY ProcessIsWhole DEF On, Keyed
      <4> QED  BY <1>0, <2>1, <4>1 DEF On, Labelled
    <3>2. ASSUME NEW i \in H PROVE i \in On(Keyed(Counted, dim, l), result, d)
      <4>1. i \in book /\ LabelOf(dim, i) = l /\ d \in result[i].dates  BY DEF On, Labelled
      <4>2. i \in Counted  BY <4>1, ProcessIsWhole
      <4> QED  BY <1>0, <2>1, <4>1, <4>2 DEF On, Keyed
    <3> QED  BY <3>1, <3>2
  <2>4. acc[dim][l].val[d] = TotalWorth(H)  BY <2>2, <2>3 DEF EntryOf
  <2> HIDE DEF H
  <2>5. Row(dim, l, d) = [dim |-> dim, label |-> l, date |-> d, current |-> TotalWorth(H), terminal |-> TotalWorth(H)]
    BY <1>1, <2>2, <2>4 DEF Row, TotalWorth
  <2> QED  BY <1>6, <2>5 DEF PublishedRow, H
<1> QED  BY <1>5, <1>6

\* Exactly those rows are made.
LEMMA RowsArePublished ==
  ASSUME SectorsAreNamed, TypeInv, FlowInv, FilesInv, LedgerInv, pc = "process", NEW row
  PROVE  row \in UNION {Rows(dim) : dim \in Dims} <=>
           \E dim \in Dims, d \in Dates : \E l \in LabelsOn(book, result, dim, d) :
             row = PublishedRow(book, result, dim, l, d)
<1>1. \A l : \A dim \in Dims, d \in Dates :
        l \in LabelsOn(book, result, dim, d) <=> l \in {LabelOf(dim, i) : i \in book} /\ Held(dim, l, d) # {}
  BY ProcessIsWhole DEF LabelsOn, Labels
<1>2. row \in UNION {Rows(dim) : dim \in Dims} <=>
        \E dim \in Dims, d \in Dates : \E l \in {LabelOf(dim, i) : i \in book} :
          Held(dim, l, d) # {} /\ row = Row(dim, l, d)
  BY DEF Rows
<1>3. row \in UNION {Rows(dim) : dim \in Dims} <=>
        \E dim \in Dims, d \in Dates : \E l \in LabelsOn(book, result, dim, d) : row = Row(dim, l, d)
  BY <1>1, <1>2
<1> QED  BY <1>3, RowIsPublished

\* Nothing is published, initially.
LEMMA MartsInit == Init => MartsInv
BY DEF Init, MartsInv

\* What is published stays what the book and the results determine.
LEMMA MartsStep ==
  ASSUME SectorsAreNamed, TypeInv, FlowInv, FilesInv, LedgerInv, MartsInv, [Next]_vars
  PROVE  MartsInv'
<1> SUFFICES ASSUME pc' = "published" PROVE MartsInv'  BY DEF MartsInv
<1>1. CASE pc = "published" /\ UNCHANGED <<pc, book, result, marts>>  BY <1>1 DEF MartsInv
<1>2. CASE Process
  <2>1. pc = "process" /\ UNCHANGED <<book, result>> /\ marts' = UNION {Rows(dim) : dim \in Dims}
    BY <1>2 DEF Process
  <2>2. \A row : row \in marts' <=>
          \E dim \in Dims, d \in Dates : \E l \in LabelsOn(book, result, dim, d) :
            row = PublishedRow(book, result, dim, l, d)
    BY <2>1, RowsArePublished
  <2> QED  BY <2>1, <2>2 DEF MartsInv, Publishes
<1>3. CASE Submit  BY <1>3 DEF Submit
<1>4. CASE LeavePool  BY <1>4 DEF LeavePool
<1>5. CASE Fail  BY <1>5 DEF Fail
<1>6. CASE ProcessRaises  BY <1>6 DEF ProcessRaises
<1>7. ASSUME NEW i \in book, Collect(i) PROVE FALSE  BY <1>7 DEF Collect
<1>8. CASE StartTask
  <2>1. pc = "published" /\ Queued # {}  BY <1>8 DEF StartTask
  <2> QED  BY <2>1 DEF FlowInv
<1>9. ASSUME NEW i \in book, WorkerDies(i) PROVE FALSE
  <2>1. pc = "published" /\ i \in Running  BY <1>9 DEF WorkerDies, Running
  <2> QED  BY <2>1 DEF FlowInv
<1>10. ASSUME NEW i \in book, NEW r \in Results, EndTask(i, r) PROVE FALSE
  <2>1. pc = "published" /\ i \in Running  BY <1>10 DEF EndTask, Running
  <2> QED  BY <2>1 DEF FlowInv
<1>11. CASE Done \/ UNCHANGED vars
  <2>1. UNCHANGED <<pc, book, result, marts>>  BY <1>11 DEF Done, vars
  <2> QED  BY <1>1, <2>1
<1> QED  BY <1>2, <1>3, <1>4, <1>5, <1>6, <1>7, <1>8, <1>9, <1>10, <1>11 DEF Next

-----------------------------------------------------------------------------
RowsOn(M, dim, d) == {r \in M : r.dim = dim /\ r.date = d}
ValueOf(R) == SumFunction([row \in R |-> row.current])

\* The rows of a dimension on a date, one for each label, hold what the book holds.
LEMMA RowsSum ==
  ASSUME NEW B \in SUBSET Isins, NEW res, NEW M, Publishes(M, B, res),
         NEW dm \in Dims, NEW dt \in Dates,
         NEW R, R = RowsOn(M, dm, dt)
  PROVE  ValueOf(R) = TotalWorth(On(B, res, dt))
<1> DEFINE S == On(B, res, dt)
           L == LabelsOn(B, res, dm, dt)
           lab == [i \in S |-> LabelOf(dm, i)]
           f == [l \in L |-> TotalWorth(On(Labelled(B, dm, l), res, dt))]
           h == [l \in L |-> PublishedRow(B, res, dm, l, dt)]
           g == [row \in R |-> row.current]
<1>1. \A row : row \in R <=> \E l \in L : row = PublishedRow(B, res, dm, l, dt)
  <2> TAKE row
  <2>1. ASSUME row \in R PROVE \E l \in L : row = PublishedRow(B, res, dm, l, dt)
    <3>1. row \in M /\ row.dim = dm /\ row.date = dt  BY <2>1 DEF RowsOn
    <3>2. PICK dim \in Dims, d \in Dates : \E l \in LabelsOn(B, res, dim, d) :
            row = PublishedRow(B, res, dim, l, d)
      BY <3>1 DEF Publishes
    <3>3. PICK l \in LabelsOn(B, res, dim, d) : row = PublishedRow(B, res, dim, l, d)  BY <3>2
    <3>4. dim = dm /\ d = dt  BY <3>1, <3>3 DEF PublishedRow
    <3> QED  BY <3>3, <3>4
  <2>2. ASSUME NEW l \in L, row = PublishedRow(B, res, dm, l, dt) PROVE row \in R
    <3>1. row.dim = dm /\ row.date = dt  BY <2>2 DEF PublishedRow
    <3>2. row \in M  BY <2>2 DEF Publishes
    <3> QED  BY <3>1, <3>2 DEF RowsOn
  <2> QED  BY <2>1, <2>2
<1>2. /\ \A l \in L : h[l] = PublishedRow(B, res, dm, l, dt) /\ f[l] = TotalWorth(On(Labelled(B, dm, l), res, dt))
      /\ \A row \in R : g[row] = row.current
      /\ DOMAIN g = R
      /\ \A i \in S : lab[i] = LabelOf(dm, i)
  OBVIOUS
<1>3. S \in SUBSET Isins /\ S \in SUBSET B  BY DEF On
<1>4. L = {lab[i] : i \in S}
  <2>1. ASSUME NEW l \in L PROVE \E i \in S : l = LabelOf(dm, i)
    <3>1. PICK i : i \in On(Labelled(B, dm, l), res, dt)  BY DEF LabelsOn
    <3>2. i \in B /\ dt \in res[i].dates /\ LabelOf(dm, i) = l  BY <3>1 DEF On, Labelled
    <3> QED  BY <3>2 DEF On
  <2>2. ASSUME NEW i \in S PROVE LabelOf(dm, i) \in L
    <3>1. i \in B /\ dt \in res[i].dates  BY DEF On
    <3>2. i \in On(Labelled(B, dm, LabelOf(dm, i)), res, dt)  BY <3>1 DEF On, Labelled
    <3> QED  BY <3>1, <3>2 DEF LabelsOn, Labels
  <2> HIDE DEF S, L, lab
  <2> QED  BY <1>2, <2>1, <2>2
<1>5. \A i \in S : lab[i] \in L
  <2> HIDE DEF S, L, lab
  <2> QED  BY <1>4
<1>6. \A l \in L : f[l] = TotalWorth(PartOf(S, lab, l))
  <2> TAKE l \in L
  <2>1. PartOf(S, lab, l) = On(Labelled(B, dm, l), res, dt)  BY <1>2 DEF PartOf, On, Labelled
  <2> QED  BY <1>2, <2>1
<1>7. \A l \in L : f[l] \in Int
  <2> TAKE l \in L
  <2> DEFINE P == On(Labelled(B, dm, l), res, dt)
  <2>1. P \in SUBSET Isins  BY DEF On, Labelled
  <2>2. f[l] = TotalWorth(P)  BY <1>2
  <2> HIDE DEF P, f, L
  <2>3. IsFiniteSet(P)  BY <2>1, PoolConstants, FS_Subset
  <2>4. \A x \in P : Worth[x] \in Int  BY <2>1, PoolConstants
  <2>5. TotalWorth(P) \in Int  BY <2>3, <2>4, SumRemove DEF TotalWorth, Sum
  <2> QED  BY <2>2, <2>5
<1>8. \A l \in L : g[h[l]] = f[l]
  <2> TAKE l \in L
  <2>1. h[l] \in R  BY <1>1, <1>2
  <2>2. h[l].current = f[l]  BY <1>2 DEF PublishedRow
  <2> QED  BY <1>2, <2>1, <2>2
<1>9. \A l, m \in L : h[l] = h[m] => l = m
  <2> TAKE l, m \in L
  <2>1. h[l].label = l /\ h[m].label = m  BY <1>2 DEF PublishedRow
  <2> QED  BY <2>1
<1>10. R = {h[l] : l \in L}  BY <1>1, <1>2
<1> HIDE DEF S, L, lab, f, h, g
<1>11. IsFiniteSet(S)  BY <1>3, PoolConstants, FS_Subset
<1>12. IsFiniteSet(L)  BY <1>4, <1>11, ImageFinite
<1>13. Sum(f, L) = TotalWorth(S)  BY <1>3, <1>5, <1>6, <1>12, TotalOfParts
<1>14. Sum(g, R) = Sum(f, L)  BY <1>7, <1>8, <1>9, <1>10, <1>12, SumOfImages
<1>15. SumFunction(g) = TotalWorth(S)  BY <1>2, <1>13, <1>14, FunctionTotal
<1> QED  BY <1>15 DEF g, S, ValueOf

\* The engine's inductive invariant.
LEMMA PoolStep ==
  ASSUME SectorsAreNamed, PoolInv, [Next]_vars PROVE PoolInv'
BY TypeStep, FlowStep, FilesStep, LedgerStep, MartsStep DEF PoolInv

\* The invariants of the pool together say that value is whole.
LEMMA PoolIsWhole ==
  ASSUME PoolInv PROVE ValueIsWhole
<1> USE DEF PoolInv
<1>1. TypeOK
  <2>1. \A i \in Isins : result[i] \in Results  BY DEF TypeInv
  <2>2. DOMAIN acc = Dims  BY DEF LedgerInv, Ledger
  <2> QED  BY <2>1, <2>2 DEF TypeInv, TypeOK, TaskStates
<1>2. SlicesAddUp  BY SlicesFollow
<1>3. MartsAgree
  <2> SUFFICES ASSUME NEW row \in marts
               PROVE  row.terminal = IF row.dim = "sector" /\ row.label = "Unknown" THEN NoSector
                                     ELSE row.current
    BY DEF MartsAgree
  <2>1. pc = "published"  BY DEF FlowInv
  <2>2. PICK dim \in Dims, d \in Dates : \E l \in LabelsOn(book, result, dim, d) :
          row = PublishedRow(book, result, dim, l, d)
    BY <2>1 DEF MartsInv, Publishes
  <2>3. PICK l \in LabelsOn(book, result, dim, d) : row = PublishedRow(book, result, dim, l, d)
    BY <2>2
  <2> QED  BY <2>3 DEF PublishedRow
<1>4. ASSUME pc = "published", NEW dim \in Dims, NEW d \in Dates
      PROVE  SumFunction([row \in {r \in marts : r.dim = dim /\ r.date = d} |-> row.current])
               = TotalWorth({i \in book : d \in result[i].dates})
  <2>1. book \in SUBSET Isins  BY DEF TypeInv
  <2>2. Publishes(marts, book, result)  BY <1>4 DEF MartsInv
  <2>3. ValueOf(RowsOn(marts, dim, d)) = TotalWorth(On(book, result, d))
    BY <2>1, <2>2, RowsSum
  <2> QED  BY <2>3 DEF On, ValueOf, RowsOn
<1> QED  BY <1>1, <1>2, <1>3, <1>4 DEF ValueIsWhole

\* SlicesAddUp: in whatever order the futures come, the entries of every dimension
\* of the accumulator add up to the instruments collected so far, date by date.
THEOREM SlicesAlwaysAddUp == Spec => [](TypeOK /\ SlicesAddUp)
<1> DEFINE SumInv == TypeInv /\ FlowInv /\ LedgerInv
<1>1. Init => SumInv  BY TypeInit, FlowInit, LedgerInit
<1>2. SumInv /\ [Next]_vars => SumInv'  BY TypeStep, FlowStep, LedgerStep
<1>3. SumInv => TypeOK /\ SlicesAddUp
  <2> SUFFICES ASSUME SumInv PROVE TypeOK /\ SlicesAddUp  OBVIOUS
  <2>1. \A i \in Isins : result[i] \in Results  BY DEF TypeInv
  <2>2. DOMAIN acc = Dims  BY DEF LedgerInv, Ledger
  <2> QED  BY <2>1, <2>2, SlicesFollow DEF TypeInv, TypeOK, TaskStates
<1> QED  BY <1>1, <1>2, <1>3, PTL DEF Spec

\* ValueIsWhole: in whatever order the futures come, the entries of every
\* dimension of the accumulator add up to the instruments collected, and the rows
\* that are published, summed from the workers' files, say of every slice what the
\* accumulator says and are worth, on every date, what the book is worth.
THEOREM NothingLostBetweenWorkers ==
  ASSUME SectorsAreNamed PROVE Spec => []ValueIsWhole
<1>1. Init => PoolInv
  BY TypeInit, FlowInit, FilesInit, LedgerInit, MartsInit DEF PoolInv
<1>2. PoolInv /\ [Next]_vars => PoolInv'  BY PoolStep
<1>3. PoolInv => ValueIsWhole  BY PoolIsWhole
<1> QED  BY <1>1, <1>2, <1>3, PTL DEF Spec

-----------------------------------------------------------------------------
(* The books: amounts.                                                      *)

\* A sum of amounts is one of the function that gives each row its amount.
AmtOf(S) == [r \in S |-> r.amt]

\* An amount is a sum, and whole.
LEMMA AmountIs ==
  ASSUME NEW S, IsFiniteSet(S), \A r \in S : r.amt \in Int, NEW T \in SUBSET S
  PROVE  Amount(T) = Sum(AmtOf(S), T) /\ Amount(T) \in Int
<1> DEFINE f == AmtOf(S)
           g == AmtOf(T)
<1>1. Amount(T) = Sum(g, T)  BY DEF Amount, Total, Sum, AmtOf
<1>2. IsFiniteSet(T) /\ \A x \in T : f[x] \in Int /\ g[x] = f[x]
  <2>1. IsFiniteSet(T)  BY FS_Subset
  <2> QED  BY <2>1 DEF AmtOf
<1> HIDE DEF f, g
<1>3. Sum(g, T) = Sum(f, T)  BY <1>2, SumSame
<1>4. Sum(f, T) \in Int  BY <1>2, SumInt
<1> QED  BY <1>1, <1>3, <1>4 DEF f

\* Parts of a set of rows, added up.
LEMMA AmountOfParts ==
  ASSUME NEW S, IsFiniteSet(S), \A r \in S : r.amt \in Int,
         NEW lab, NEW L, IsFiniteSet(L), \A x \in S : lab[x] \in L,
         NEW g, \A l \in L : g[l] = Amount(PartOf(S, lab, l))
  PROVE  Sum(g, L) = Amount(S)
<1> DEFINE w == AmtOf(S)
<1>1. \A x \in S : w[x] \in Int  BY DEF AmtOf
<1>2. \A l \in L : g[l] = Sum(w, PartOf(S, lab, l))
  <2> TAKE l \in L
  <2>1. PartOf(S, lab, l) \in SUBSET S  BY DEF PartOf
  <2> HIDE DEF w
  <2>2. Amount(PartOf(S, lab, l)) = Sum(AmtOf(S), PartOf(S, lab, l))  BY <2>1, AmountIs
  <2> QED  BY <2>2 DEF w
<1>3. Amount(S) = Sum(w, S)  BY AmountIs
<1> HIDE DEF w
<1>4. Sum(g, L) = Sum(w, S)  BY <1>1, <1>2, SumOfParts
<1> QED  BY <1>3, <1>4

-----------------------------------------------------------------------------
(* Tax events.                                                              *)

\* What becomes of a row, one source at a time.
LedgerEvent(r, rs, gone) ==
  LET map == TaxMapOf(r.cat, rs, gone)
      rate == OrdinaryRate(MacroRate, r.m)
      incomplete == map.head = Check \/ map.sub = Check
                      \/ map.taxability # "taxable" \/ rate = Null IN
  IF incomplete
    THEN TaxEvent("LEDGER", r.id, r.m, map.head, map.sub, r.amt, Null, Check)
    ELSE TaxEvent("LEDGER", r.id, r.m, map.head, map.sub, r.amt,
                  IF r.amt > 0 THEN r.amt * rate ELSE 0, "READY")

CreditEvent(r, rs, gone) ==
  TaxEvent("TAX_CREDIT", r.id, r.m, "TAX_CREDIT", TaxMapOf(r.cat, rs, gone).sub, r.amt, Null, "READY")

QuantEvent(e) ==
  TaxEvent("QUANT", e.id, e.m, "Capital Gains", QuantSubHead(e), e.gain,
           IF e.reconciled \/ ~ValidEstimate(e) THEN Null ELSE e.tax, QuantStatus(e))

Sourced(inc, rs, gone, s) == {x \in inc : SourceOf(x.cat, rs, gone) = s}

\* The tax events are those of the rows' own sources and of the gains.
LEMMA EventsOfRows ==
  ASSUME NEW inc, NEW gains, NEW rs, NEW gone
  PROVE  TaxEvents(inc, gains, rs, gone, MacroRate) =
           {LedgerEvent(r, rs, gone) : r \in Sourced(inc, rs, gone, "LEDGER")}
             \cup {CreditEvent(r, rs, gone) : r \in Sourced(inc, rs, gone, "TAX_CREDIT")}
             \cup {QuantEvent(e) : e \in gains}
<1>1. LedgerEvents(inc, rs, gone, MacroRate) =
        {LedgerEvent(r, rs, gone) : r \in Sourced(inc, rs, gone, "LEDGER")}
  BY DEF LedgerEvents, LedgerEvent, Sourced
<1>2. CreditEvents(inc, rs, gone) =
        {CreditEvent(r, rs, gone) : r \in Sourced(inc, rs, gone, "TAX_CREDIT")}
  BY DEF CreditEvents, CreditEvent, Sourced
<1>3. QuantEvents(gains) = {QuantEvent(e) : e \in gains}
  BY DEF QuantEvents, QuantEvent
<1> QED  BY <1>1, <1>2, <1>3 DEF TaxEvents

\* An event carries its row's id and amount; a ledger event that is ready has an
\* estimate, and the others have none.
LEMMA LedgerEventIs ==
  ASSUME NEW r, NEW rs, NEW gone, NEW e, e = LedgerEvent(r, rs, gone), r.amt \in Int
  PROVE  /\ e.source = "LEDGER" /\ e.id = r.id /\ e.amt = r.amt
         /\ e.tax # Null <=> e.status = "READY"
<1> DEFINE map == TaxMapOf(r.cat, rs, gone)
           rate == OrdinaryRate(MacroRate, r.m)
           incomplete == map.head = Check \/ map.sub = Check
                           \/ map.taxability # "taxable" \/ rate = Null
           low == TaxEvent("LEDGER", r.id, r.m, map.head, map.sub, r.amt, Null, Check)
           due == IF r.amt > 0 THEN r.amt * rate ELSE 0
           high == TaxEvent("LEDGER", r.id, r.m, map.head, map.sub, r.amt, due, "READY")
<1>1. e = IF incomplete THEN low ELSE high  BY DEF LedgerEvent
<1>2. /\ low.source = "LEDGER" /\ low.id = r.id /\ low.amt = r.amt
      /\ low.tax = Null /\ low.status = Check
  <2> HIDE DEF map
  <2> QED  BY DEF TaxEvent
<1>3. /\ high.source = "LEDGER" /\ high.id = r.id /\ high.amt = r.amt
      /\ high.tax = due /\ high.status = "READY"
  <2> HIDE DEF map, due
  <2> QED  BY DEF TaxEvent
<1>4. ~incomplete => due # Null
  <2>1. rate \in 0..1 \/ rate = Null  BY DEF OrdinaryRate
  <2> HIDE DEF rate, map
  <2> SUFFICES ASSUME ~incomplete PROVE due # Null  OBVIOUS
  <2>2. rate \in Int  BY <2>1
  <2>3. due \in Int
    <3>1. r.amt * rate \in Int  BY <2>2
    <3> QED  BY <3>1
  <2> QED  BY <2>3, TaxConstants
<1>5. Check # "READY"  BY DEF Check
<1> HIDE DEF low, high, incomplete, due
<1> QED  BY <1>1, <1>2, <1>3, <1>4, <1>5

\* A credit's event carries its row.
LEMMA CreditEventIs ==
  ASSUME NEW r, NEW rs, NEW gone, NEW e, e = CreditEvent(r, rs, gone)
  PROVE  e.source = "TAX_CREDIT" /\ e.id = r.id /\ e.amt = r.amt
BY DEF CreditEvent, TaxEvent

\* A gain's event carries the gain.
LEMMA QuantEventIs ==
  ASSUME NEW g, NEW e, e = QuantEvent(g)
  PROVE  e.source = "QUANT" /\ e.id = g.id /\ e.amt = g.gain
<1>1. /\ QuantEvent(g).source = "QUANT" /\ QuantEvent(g).id = g.id
      /\ QuantEvent(g).amt = g.gain
  BY Zenon DEF QuantEvent, TaxEvent
<1> QED  BY <1>1

\* Finitely many events, and their amounts are numbers.
Countable(rows) == IsFiniteSet(rows) /\ \A r \in rows : r.amt \in Int

\* The events of countable rows are countable.
LEMMA EventsFinite ==
  ASSUME NEW inc, Countable(inc), NEW gains, IsFiniteSet(gains), \A g \in gains : g.gain \in Int,
         NEW rs, NEW gone
  PROVE  Countable(TaxEvents(inc, gains, rs, gone, MacroRate))
<1> DEFINE led == Sourced(inc, rs, gone, "LEDGER")
           cred == Sourced(inc, rs, gone, "TAX_CREDIT")
           A == {LedgerEvent(r, rs, gone) : r \in led}
           B == {CreditEvent(r, rs, gone) : r \in cred}
           C == {QuantEvent(g) : g \in gains}
<1>1. IsFiniteSet(led) /\ IsFiniteSet(cred)
  <2>1. led \in SUBSET inc /\ cred \in SUBSET inc  BY DEF Sourced
  <2> HIDE DEF led, cred
  <2> QED  BY <2>1, FS_Subset DEF Countable
<1>2. IsFiniteSet(A)
  <2> DEFINE h == [r \in led |-> LedgerEvent(r, rs, gone)]
  <2>1. A = {h[r] : r \in led}  OBVIOUS
  <2> HIDE DEF h, A, led
  <2> QED  BY <1>1, <2>1, ImageFinite
<1>3. IsFiniteSet(B)
  <2> DEFINE h == [r \in cred |-> CreditEvent(r, rs, gone)]
  <2>1. B = {h[r] : r \in cred}  OBVIOUS
  <2> HIDE DEF h, B, cred
  <2> QED  BY <1>1, <2>1, ImageFinite
<1>4. IsFiniteSet(C)
  <2> DEFINE h == [g \in gains |-> QuantEvent(g)]
  <2>1. C = {h[g] : g \in gains}  OBVIOUS
  <2> HIDE DEF h, C
  <2> QED  BY <2>1, ImageFinite
<1>5. \A e \in A : e.amt \in Int
  <2> SUFFICES ASSUME NEW r \in led PROVE LedgerEvent(r, rs, gone).amt \in Int  OBVIOUS
  <2>1. r.amt \in Int  BY DEF Sourced, Countable
  <2> QED  BY <2>1, LedgerEventIs
<1>6. \A e \in B : e.amt \in Int
  <2> SUFFICES ASSUME NEW r \in cred PROVE CreditEvent(r, rs, gone).amt \in Int  OBVIOUS
  <2>1. r.amt \in Int  BY DEF Sourced, Countable
  <2> QED  BY <2>1, CreditEventIs
<1>7. \A e \in C : e.amt \in Int
  <2> SUFFICES ASSUME NEW g \in gains PROVE QuantEvent(g).amt \in Int  OBVIOUS
  <2> QED  BY QuantEventIs
<1>8. TaxEvents(inc, gains, rs, gone, MacroRate) = A \cup B \cup C  BY EventsOfRows
<1> HIDE DEF A, B, C
<1>9. IsFiniteSet(A \cup B \cup C)  BY <1>2, <1>3, <1>4, FS_Union
<1> QED  BY <1>5, <1>6, <1>7, <1>8, <1>9 DEF Countable

-----------------------------------------------------------------------------
(* The presentation tables.                                                 *)

\* The events of a year and a source.
Share(events, fy, s) == {e \in events : e.fy = fy /\ e.source = s}

\* The yearly summary has the totals of the year's events.
LEMMA YearIs ==
  ASSUME NEW E, NEW fy \in DOMAIN TaxYearSummary(E), NEW s \in Sources
  PROVE  TaxYearSummary(E)[fy].of[s] = SourceTotals({e \in E : e.fy = fy}, s)
<1> DEFINE Y(y) == [ of |-> [t \in Sources |-> SourceTotals({e \in E : e.fy = y}, t)],
       Ready |-> Cardinality({e \in {e \in E : e.fy = y} : e.status = "READY"}),
       Check_Required |-> Cardinality({e \in {e \in E : e.fy = y} : e.status = Check}),
       count |-> Cardinality({e \in E : e.fy = y}) ]
           D == {e.fy : e \in E}
<1>1. TaxYearSummary(E) = [y \in D |-> Y(y)]  BY DEF TaxYearSummary
<1>2. fy \in D
  <2>1. DOMAIN [y \in D |-> Y(y)] = D  OBVIOUS
  <2> HIDE DEF D, Y
  <2> QED  BY <1>1, <2>1
<1>3. TaxYearSummary(E)[fy] = Y(fy)
  <2> HIDE DEF D, Y
  <2> QED  BY <1>1, <1>2
<1>4. Y(fy).of = [t \in Sources |-> SourceTotals({e \in E : e.fy = fy}, t)]  BY Zenon
<1> QED  BY <1>3, <1>4, Zenon

\* The yearly summary of a source adds up its events of the year.
LEMMA YearAmount ==
  ASSUME NEW E, NEW fy \in DOMAIN TaxYearSummary(E), NEW s \in Sources
  PROVE  TaxYearSummary(E)[fy].of[s].amount = Amount(Share(E, fy, s))
<1> DEFINE rows == {e \in E : e.fy = fy}
<1>1. From(rows, s) = Share(E, fy, s)  BY DEF From, Share
<1>2. SourceTotals(rows, s).amount = Amount(From(rows, s))
  <2> HIDE DEF rows
  <2> QED  BY Zenon DEF SourceTotals
<1> QED  BY <1>1, <1>2, YearIs

\* Complete: every event of the source has an estimate.
LEMMA YearComplete ==
  ASSUME NEW E, NEW fy \in DOMAIN TaxYearSummary(E), Share(E, fy, "LEDGER") # {}
  PROVE  TaxYearSummary(E)[fy].of["LEDGER"].complete
           = ({e \in Share(E, fy, "LEDGER") : e.tax # Null} = Share(E, fy, "LEDGER"))
<1> DEFINE rows == {e \in E : e.fy = fy}
           known(S) == {e \in S : e.tax # Null}
<1>1. From(rows, "LEDGER") = Share(E, fy, "LEDGER")  BY DEF From, Share
<1>2. SourceTotals(rows, "LEDGER").complete
        = IF From(rows, "LEDGER") = {} THEN Null
            ELSE known(From(rows, "LEDGER")) = From(rows, "LEDGER")
  <2> HIDE DEF rows
  <2> QED  BY Zenon DEF SourceTotals
<1>3. "LEDGER" \in Sources  BY DEF Sources
<1>4. TaxYearSummary(E)[fy].of["LEDGER"] = SourceTotals(rows, "LEDGER")  BY <1>3, YearIs
<1> HIDE DEF rows, known
<1>5. SourceTotals(rows, "LEDGER").complete = (known(Share(E, fy, "LEDGER")) = Share(E, fy, "LEDGER"))
  BY <1>1, <1>2, Zenon
<1> QED  BY <1>4, <1>5 DEF known

IncomeKey(e) == [fy |-> e.fy, head |-> e.head, sub |-> e.sub, source |-> e.source]

Likes(E, k) == {e \in E : /\ e.fy = k.fy /\ e.head = k.head
                          /\ e.sub = k.sub /\ e.source = k.source}

\* The breakdown adds up the events of each key.
LEMMA BreakdownIs ==
  ASSUME NEW E
  PROVE  /\ DOMAIN TaxIncomeBreakdown(E) = {IncomeKey(e) : e \in E}
         /\ \A k \in {IncomeKey(e) : e \in E} :
              TaxIncomeBreakdown(E)[k].amount = Amount(Likes(E, k))
<1> DEFINE D == {IncomeKey(e) : e \in E}
           t(k) == SourceTotals(Likes(E, k), k.source)
           B(k) == [ amount |-> t(k).amount, count |-> t(k).count, tax |-> t(k).tax,
                     complete |-> IF k.source = "TAX_CREDIT" THEN Null ELSE t(k).complete ]
<1>1. TaxIncomeBreakdown(E) = [k \in D |-> B(k)]  BY DEF TaxIncomeBreakdown, IncomeKey, Likes
<1>2. DOMAIN [k \in D |-> B(k)] = D /\ \A k \in D : [j \in D |-> B(j)][k] = B(k)
  <2> HIDE DEF D, B
  <2> QED  OBVIOUS
<1>3. \A k \in D : B(k).amount = Amount(Likes(E, k))
  <2> TAKE k \in D
  <2>1. From(Likes(E, k), k.source) = Likes(E, k)  BY DEF From, Likes
  <2>2. t(k).amount = Amount(From(Likes(E, k), k.source))  BY Zenon DEF SourceTotals
  <2>3. B(k).amount = t(k).amount  BY Zenon
  <2> HIDE DEF B, t
  <2> QED  BY <2>1, <2>2, <2>3
<1> HIDE DEF D, B
<1>4. DOMAIN TaxIncomeBreakdown(E) = D  BY <1>1, <1>2
<1>5. \A k \in D : TaxIncomeBreakdown(E)[k].amount = Amount(Likes(E, k))
  <2> TAKE k \in D
  <2>1. TaxIncomeBreakdown(E)[k] = B(k)  BY <1>1, <1>2
  <2> QED  BY <2>1, <1>3
<1> QED  BY <1>4, <1>5 DEF D

\* The evidence of a row, and what of it becomes no event.
EvidenceOf(r, rs, gone) ==
  [id |-> r.id, cat |-> r.cat, amt |-> r.amt, fy |-> FYOf(r.m), map |-> TaxMapOf(r.cat, rs, gone)]

Filed(rows, k) == {r \in rows : r.fy = k[1] /\ r.map.sub = k[2]}

At(E, k) == {e \in E : e.fy = k[1] /\ e.sub = k[2]}

ReconIs(x, E, exempt, gains) ==
  /\ DOMAIN x = ReconciliationKeys(E, exempt \cup gains)
  /\ \A k \in DOMAIN x :
       /\ x[k].Ledger.amount = Amount(From(At(E, k), "LEDGER"))
       /\ x[k].Quant.amount = Amount(From(At(E, k), "QUANT"))
       /\ x[k].Tax_Credit.amount = Amount(From(At(E, k), "TAX_CREDIT"))
       /\ x[k].Non_Taxable = Filed(exempt, k) /\ x[k].Excluded_Investment = Filed(gains, k)

\* The reconciliation adds up the events of each key, and has all keys.
LEMMA ReconciliationIs ==
  ASSUME NEW E, NEW V, NEW rs
  PROVE  ReconIs(TaxReconciliation(E, V, rs), E, ExcludedNonTaxable(V, rs), ExcludedInvestment(V, rs))
<1> DEFINE exempt == ExcludedNonTaxable(V, rs)
           gains == ExcludedInvestment(V, rs)
           D == ReconciliationKeys(E, exempt \cup gains)
           q(k) == SourceTotals(At(E, k), "QUANT")
           R(k) == [ Ledger |-> SourceTotals(At(E, k), "LEDGER"), Quant |-> q(k),
                     Tax_Credit |-> SourceTotals(At(E, k), "TAX_CREDIT"),
                     Non_Taxable |-> Filed(exempt, k), Excluded_Investment |-> Filed(gains, k),
                     Source_Difference |-> IF q(k).count > 0 /\ Filed(gains, k) # {}
                                             THEN q(k).amount - Amount(Filed(gains, k)) ELSE Null,
                     Check_Required |-> Cardinality({e \in At(E, k) : e.status = Check}) ]
           x == TaxReconciliation(E, V, rs)
<1>1. x = [k \in D |-> R(k)]  BY DEF TaxReconciliation, At, Filed
<1>2. DOMAIN [k \in D |-> R(k)] = D /\ \A k \in D : [j \in D |-> R(j)][k] = R(k)
  <2> HIDE DEF D, R
  <2> QED  OBVIOUS
<1>3. ASSUME NEW k
      PROVE  /\ R(k).Ledger = SourceTotals(At(E, k), "LEDGER") /\ R(k).Quant = q(k)
             /\ R(k).Tax_Credit = SourceTotals(At(E, k), "TAX_CREDIT")
             /\ R(k).Non_Taxable = Filed(exempt, k) /\ R(k).Excluded_Investment = Filed(gains, k)
  BY Zenon
<1>4. ASSUME NEW k, NEW s PROVE SourceTotals(At(E, k), s).amount = Amount(From(At(E, k), s))
  BY Zenon DEF SourceTotals
<1>5. DOMAIN x = D
  <2> HIDE DEF D, R, x
  <2> QED  BY <1>1, <1>2
<1>6. \A k \in D : x[k] = R(k)
  <2> HIDE DEF D, R, x
  <2> QED  BY <1>1, <1>2
<1> HIDE DEF x, D, R, exempt, gains
<1>7. ReconIs(x, E, exempt, gains)
  <2> SUFFICES ASSUME NEW k \in D
               PROVE  /\ x[k].Ledger.amount = Amount(From(At(E, k), "LEDGER"))
                      /\ x[k].Quant.amount = Amount(From(At(E, k), "QUANT"))
                      /\ x[k].Tax_Credit.amount = Amount(From(At(E, k), "TAX_CREDIT"))
                      /\ x[k].Non_Taxable = Filed(exempt, k)
                      /\ x[k].Excluded_Investment = Filed(gains, k)
    BY <1>5 DEF ReconIs, D
  <2>1. x[k] = R(k)  BY <1>6
  <2>2. x[k].Ledger.amount = Amount(From(At(E, k), "LEDGER"))  BY <2>1, <1>3, <1>4, Zenon
  <2>3. x[k].Quant.amount = Amount(From(At(E, k), "QUANT"))  BY <2>1, <1>3, <1>4, Zenon DEF q
  <2>4. x[k].Tax_Credit.amount = Amount(From(At(E, k), "TAX_CREDIT"))  BY <2>1, <1>3, <1>4, Zenon
  <2>5. x[k].Non_Taxable = Filed(exempt, k)  BY <2>1, <1>3, Zenon
  <2>6. x[k].Excluded_Investment = Filed(gains, k)  BY <2>1, <1>3, Zenon
  <2> QED  BY <2>2, <2>3, <2>4, <2>5, <2>6
<1> QED  BY <1>7 DEF x, exempt, gains
-----------------------------------------------------------------------------
(* The yearly summary, the breakdown and the reconciliation agree.          *)

\* What a breakdown shows of a source in a year.
BreakdownOf(x, fy, s) ==
  Total(LAMBDA k : x[k].amount, {k \in DOMAIN x : k.fy = fy /\ k.source = s})

\* The breakdown, added up by year and source, is the sum of those events.
LEMMA BreakdownAddsUp ==
  ASSUME NEW E, Countable(E), NEW fy, NEW s, NEW x, x = TaxIncomeBreakdown(E)
  PROVE  BreakdownOf(x, fy, s) = Amount(Share(E, fy, s))
<1> DEFINE L == {k \in DOMAIN x : k.fy = fy /\ k.source = s}
           S == Share(E, fy, s)
           lab == [e \in S |-> IncomeKey(e)]
           g == [k \in L |-> x[k].amount]
<1>1. BreakdownOf(x, fy, s) = Sum(g, L)  BY DEF BreakdownOf, Total, Sum
<1>2. Countable(S)
  <2>1. S \in SUBSET E  BY DEF Share
  <2> HIDE DEF S
  <2> QED  BY <2>1, FS_Subset DEF Countable
<1>3. DOMAIN x = {IncomeKey(e) : e \in E}  BY BreakdownIs
<1>4. IsFiniteSet(L)
  <2> DEFINE h == [e \in E |-> IncomeKey(e)]
             D == {IncomeKey(e) : e \in E}
  <2>1. D = {h[e] : e \in E}  OBVIOUS
  <2>2. L \in SUBSET D  BY <1>3
  <2> HIDE DEF h, D, L
  <2>3. IsFiniteSet(D)  BY <2>1, ImageFinite DEF Countable
  <2> QED  BY <2>2, <2>3, FS_Subset
<1>5. \A e \in S : lab[e] \in L
  <2> TAKE e \in S
  <2>1. e \in E /\ e.fy = fy /\ e.source = s  BY DEF Share
  <2>2. IncomeKey(e) \in DOMAIN x  BY <1>3, <2>1
  <2>3. IncomeKey(e).fy = fy /\ IncomeKey(e).source = s  BY <2>1 DEF IncomeKey
  <2>4. IncomeKey(e) \in L  BY <2>2, <2>3
  <2> QED  BY <2>4
<1>6. \A k \in L : g[k] = Amount({e \in S : lab[e] = k})
  <2> TAKE k \in L
  <2>1. k.fy = fy /\ k.source = s /\ k \in DOMAIN x  OBVIOUS
  <2>2. PICK d \in E : k = IncomeKey(d)  BY <1>3, <2>1
  <2>3. {e \in S : lab[e] = k} = Likes(E, k)
    <3>1. ASSUME NEW e \in S PROVE lab[e] = k <=> e \in Likes(E, k)
      <4>1. lab[e] = IncomeKey(e)  OBVIOUS
      <4>2. e \in E  BY DEF Share
      <4>3. IncomeKey(e) = IncomeKey(d) <=> (e.fy = k.fy /\ e.head = k.head /\ e.sub = k.sub /\ e.source = k.source)
        BY <2>2 DEF IncomeKey
      <4> HIDE DEF lab
      <4> QED  BY <2>2, <4>1, <4>2, <4>3 DEF Likes
    <3>2. Likes(E, k) \subseteq S  BY <2>1 DEF Likes, Share
    <3> HIDE DEF S, lab
    <3> QED  BY <3>1, <3>2
  <2>4. g[k] = x[k].amount  OBVIOUS
  <2>5. x[k].amount = Amount(Likes(E, k))  BY <1>3, <2>1, BreakdownIs
  <2> HIDE DEF g, S, lab
  <2> QED  BY <2>3, <2>4, <2>5
<1> HIDE DEF L, S, lab, g
<1>7. Sum(g, L) = Amount(S)
  <2>1. IsFiniteSet(S) /\ \A r \in S : r.amt \in Int  BY <1>2 DEF Countable
  <2>2. \A k \in L : g[k] = Amount(PartOf(S, lab, k))  BY <1>6 DEF PartOf
  <2> QED  BY <1>4, <1>5, <2>1, <2>2, AmountOfParts
<1> QED  BY <1>1, <1>7 DEF S

\* The keys of a reconciliation are pairs, finitely many.
LEMMA KeysFinite ==
  ASSUME NEW E, IsFiniteSet(E), NEW X, IsFiniteSet(X)
  PROVE  IsFiniteSet(ReconciliationKeys(E, X))
<1> DEFINE A == {<<e.fy, e.sub>> : e \in E}
           B == {<<r.fy, r.map.sub>> : r \in X}
<1>1. IsFiniteSet(A)
  <2> DEFINE h == [e \in E |-> <<e.fy, e.sub>>]
  <2>1. A = {h[e] : e \in E}  OBVIOUS
  <2> HIDE DEF A, h
  <2> QED  BY <2>1, ImageFinite
<1>2. IsFiniteSet(B)
  <2> DEFINE h == [r \in X |-> <<r.fy, r.map.sub>>]
  <2>1. B = {h[r] : r \in X}  OBVIOUS
  <2> HIDE DEF B, h
  <2> QED  BY <2>1, ImageFinite
<1>3. ReconciliationKeys(E, X) = A \cup B  BY DEF ReconciliationKeys
<1> HIDE DEF A, B
<1> QED  BY <1>1, <1>2, <1>3, FS_Union

\* What a reconciliation shows of a source in a year.
ReconciledOf(x, fy, s) ==
  Total(LAMBDA k : CASE s = "LEDGER" -> x[k].Ledger.amount
                     [] s = "QUANT" -> x[k].Quant.amount
                     [] OTHER -> x[k].Tax_Credit.amount,
        {k \in DOMAIN x : k[1] = fy})

\* The reconciliation, added up by year and source, is the sum of those events.
LEMMA ReconciliationAddsUp ==
  ASSUME NEW E, Countable(E), NEW V, IsFiniteSet(V), NEW rs, NEW fy, NEW s \in Sources,
         NEW x, x = TaxReconciliation(E, V, rs)
  PROVE  ReconciledOf(x, fy, s) = Amount(Share(E, fy, s))
<1> DEFINE L == {k \in DOMAIN x : k[1] = fy}
           S == Share(E, fy, s)
           lab == [e \in S |-> <<e.fy, e.sub>>]
           v(k) == CASE s = "LEDGER" -> x[k].Ledger.amount
                     [] s = "QUANT" -> x[k].Quant.amount
                     [] OTHER -> x[k].Tax_Credit.amount
           g == [k \in L |-> v(k)]
           exempt == ExcludedNonTaxable(V, rs)
           gains == ExcludedInvestment(V, rs)
<1>1. ReconciledOf(x, fy, s) = Sum(g, L)  BY DEF ReconciledOf, Total, Sum
<1>2. Countable(S)
  <2>1. S \in SUBSET E  BY DEF Share
  <2> HIDE DEF S
  <2> QED  BY <2>1, FS_Subset DEF Countable
<1>3. ReconIs(x, E, exempt, gains)  BY ReconciliationIs
<1>4. DOMAIN x = ReconciliationKeys(E, exempt \cup gains)  BY <1>3, Zenon DEF ReconIs
<1>5. IsFiniteSet(L)
  <2>1. exempt \cup gains \in SUBSET V  BY DEF ExcludedNonTaxable, ExcludedInvestment
  <2> HIDE DEF exempt, gains
  <2>2. IsFiniteSet(exempt \cup gains)  BY <2>1, FS_Subset
  <2>3. IsFiniteSet(DOMAIN x)  BY <2>2, <1>4, KeysFinite DEF Countable
  <2>4. L \in SUBSET DOMAIN x  OBVIOUS
  <2> HIDE DEF L
  <2> QED  BY <2>3, <2>4, FS_Subset
<1>6. \A e \in S : lab[e] \in L
  <2> TAKE e \in S
  <2>1. e \in E /\ e.fy = fy  BY DEF Share
  <2>2. <<e.fy, e.sub>> \in DOMAIN x  BY <1>4, <2>1 DEF ReconciliationKeys
  <2>3. <<e.fy, e.sub>> \in L  BY <2>1, <2>2
  <2> QED  BY <2>3
<1>7. \A k \in DOMAIN x : v(k) = Amount(From(At(E, k), s))
  <2> TAKE k \in DOMAIN x
  <2>0. /\ x[k].Ledger.amount = Amount(From(At(E, k), "LEDGER"))
        /\ x[k].Quant.amount = Amount(From(At(E, k), "QUANT"))
        /\ x[k].Tax_Credit.amount = Amount(From(At(E, k), "TAX_CREDIT"))
    BY <1>3, Zenon DEF ReconIs
  <2>1. s \in {"LEDGER", "TAX_CREDIT", "QUANT"}  BY DEF Sources
  <2>2. CASE s = "LEDGER"  BY <2>0, <2>2
  <2>3. CASE s = "QUANT"  BY <2>0, <2>3
  <2>4. CASE s = "TAX_CREDIT"  BY <2>0, <2>4
  <2> QED  BY <2>1, <2>2, <2>3, <2>4
<1>8. \A k \in L : g[k] = Amount({e \in S : lab[e] = k})
  <2> TAKE k \in L
  <2>1. k[1] = fy /\ k \in DOMAIN x  OBVIOUS
  <2>2. PICK a, b : k = <<a, b>>  BY <1>4, <2>1 DEF ReconciliationKeys
  <2>3. {e \in S : lab[e] = k} = From(At(E, k), s)
    <3>1. ASSUME NEW e \in S PROVE lab[e] = k <=> e \in From(At(E, k), s)
      <4>1. lab[e] = <<e.fy, e.sub>>  OBVIOUS
      <4>2. e \in E /\ e.source = s  BY DEF Share
      <4>3. <<e.fy, e.sub>> = k <=> (e.fy = k[1] /\ e.sub = k[2])  BY <2>2
      <4> HIDE DEF lab
      <4> QED  BY <4>1, <4>2, <4>3 DEF From, At
    <3>2. From(At(E, k), s) \subseteq S  BY <2>1 DEF From, At, Share
    <3> HIDE DEF S, lab
    <3> QED  BY <3>1, <3>2
  <2>4. g[k] = v(k)
    <3> HIDE DEF v, L
    <3> QED  OBVIOUS
  <2>5. v(k) = Amount(From(At(E, k), s))  BY <1>7, <2>1
  <2> HIDE DEF g, S, lab, v
  <2> QED  BY <2>3, <2>4, <2>5
<1> HIDE DEF L, S, lab, g, v
<1>9. Sum(g, L) = Amount(S)
  <2>1. IsFiniteSet(S) /\ \A r \in S : r.amt \in Int  BY <1>2 DEF Countable
  <2>2. \A k \in L : g[k] = Amount(PartOf(S, lab, k))  BY <1>8 DEF PartOf
  <2> QED  BY <1>5, <1>6, <2>1, <2>2, AmountOfParts
<1> QED  BY <1>1, <1>9 DEF S

\* A ledger estimate of a year is complete when all its ledger events are ready.
LEMMA CompleteIsReady ==
  ASSUME NEW inc, Countable(inc), NEW gains, NEW rs, NEW gone,
         NEW E, E = TaxEvents(inc, gains, rs, gone, MacroRate),
         NEW fy \in DOMAIN TaxYearSummary(E), Share(E, fy, "LEDGER") # {}
  PROVE  TaxYearSummary(E)[fy].of["LEDGER"].complete
           <=> \A e \in Share(E, fy, "LEDGER") : e.status = "READY"
<1> DEFINE S == Share(E, fy, "LEDGER")
<1>1. TaxYearSummary(E)[fy].of["LEDGER"].complete = ({e \in S : e.tax # Null} = S)
  BY YearComplete
<1>2. ASSUME NEW e \in S PROVE e.tax # Null <=> e.status = "READY"
  <2>1. e \in E /\ e.source = "LEDGER"  BY DEF Share
  <2>2. \/ e \in {LedgerEvent(r, rs, gone) : r \in Sourced(inc, rs, gone, "LEDGER")}
        \/ e \in {CreditEvent(r, rs, gone) : r \in Sourced(inc, rs, gone, "TAX_CREDIT")}
        \/ e \in {QuantEvent(g) : g \in gains}
    BY <2>1, EventsOfRows
  <2>3. ASSUME NEW r \in Sourced(inc, rs, gone, "TAX_CREDIT"), e = CreditEvent(r, rs, gone) PROVE FALSE
    BY <2>1, <2>3, CreditEventIs
  <2>4. ASSUME NEW g \in gains, e = QuantEvent(g) PROVE FALSE
    BY <2>1, <2>4, QuantEventIs
  <2>5. PICK r \in Sourced(inc, rs, gone, "LEDGER") : e = LedgerEvent(r, rs, gone)
    BY <2>2, <2>3, <2>4
  <2>6. r.amt \in Int  BY DEF Sourced, Countable
  <2> QED  BY <2>5, <2>6, LedgerEventIs
<1> HIDE DEF S
<1>3. {e \in S : e.tax # Null} = S <=> \A e \in S : e.status = "READY"  BY <1>2
<1> QED  BY <1>1, <1>3 DEF S

-----------------------------------------------------------------------------
(* Where an income row is shown.                                            *)

IdsUnique(facts) == \A a, b \in facts : a.id = b.id => a = b

EventsShown(E, r) == {e \in E : e.source \in {"LEDGER", "TAX_CREDIT"} /\ e.id = r.id}

KeysShown(x, r) ==
  {k \in DOMAIN x : \E e \in x[k].Non_Taxable \cup x[k].Excluded_Investment : e.id = r.id}

\* As one event when it is taxed or a credit, as none otherwise.
LEMMA RowsEvents ==
  ASSUME NEW inc, Countable(inc), IdsUnique(inc), NEW gains, NEW rs, NEW gone,
         NEW E, E = TaxEvents(inc, gains, rs, gone, MacroRate), NEW r \in inc
  PROVE  Cardinality(EventsShown(E, r))
           = IF SourceOf(r.cat, rs, gone) \in {"LEDGER", "TAX_CREDIT"} THEN 1 ELSE 0
<1> DEFINE led == Sourced(inc, rs, gone, "LEDGER")
           cred == Sourced(inc, rs, gone, "TAX_CREDIT")
           src == SourceOf(r.cat, rs, gone)
<1>1. ASSUME NEW e \in EventsShown(E, r)
      PROVE  \/ r \in led /\ e = LedgerEvent(r, rs, gone)
             \/ r \in cred /\ e = CreditEvent(r, rs, gone)
  <2>1. e \in E /\ e.source \in {"LEDGER", "TAX_CREDIT"} /\ e.id = r.id  BY DEF EventsShown
  <2>2. \/ e \in {LedgerEvent(y, rs, gone) : y \in led}
        \/ e \in {CreditEvent(y, rs, gone) : y \in cred}
        \/ e \in {QuantEvent(g) : g \in gains}
    BY <2>1, EventsOfRows
  <2>3. ASSUME NEW y \in led, e = LedgerEvent(y, rs, gone) PROVE y = r
    <3>1. y \in inc  BY DEF Sourced
    <3>2. y.amt \in Int  BY <3>1 DEF Countable
    <3>3. e.id = y.id  BY <2>3, <3>2, LedgerEventIs
    <3> QED  BY <2>1, <3>1, <3>3 DEF IdsUnique
  <2>4. ASSUME NEW y \in cred, e = CreditEvent(y, rs, gone) PROVE y = r
    <3>1. y \in inc  BY DEF Sourced
    <3>2. e.id = y.id  BY <2>4, CreditEventIs
    <3> QED  BY <2>1, <3>1, <3>2 DEF IdsUnique
  <2>5. ASSUME NEW g \in gains, e = QuantEvent(g) PROVE FALSE
    <3>1. e.source = "QUANT"  BY <2>5, QuantEventIs
    <3> QED  BY <2>1, <3>1
  <2> QED  BY <2>2, <2>3, <2>4, <2>5
<1>2. r.amt \in Int  BY DEF Countable
<1>3. CASE src = "LEDGER"
  <2>1. r \in led /\ r \notin cred  BY <1>3 DEF Sourced
  <2>2. LedgerEvent(r, rs, gone) \in EventsShown(E, r)
    <3>1. LedgerEvent(r, rs, gone) \in E  BY <2>1, EventsOfRows
    <3>2. LedgerEvent(r, rs, gone).source = "LEDGER" /\ LedgerEvent(r, rs, gone).id = r.id
      BY <1>2, LedgerEventIs
    <3> QED  BY <3>1, <3>2 DEF EventsShown
  <2>3. EventsShown(E, r) = {LedgerEvent(r, rs, gone)}  BY <1>1, <2>1, <2>2
  <2> QED  BY <2>3, <1>3, FS_Singleton
<1>4. CASE src = "TAX_CREDIT"
  <2>1. r \in cred /\ r \notin led  BY <1>4 DEF Sourced
  <2>2. CreditEvent(r, rs, gone) \in EventsShown(E, r)
    <3>1. CreditEvent(r, rs, gone) \in E  BY <2>1, EventsOfRows
    <3>2. CreditEvent(r, rs, gone).source = "TAX_CREDIT" /\ CreditEvent(r, rs, gone).id = r.id
      BY CreditEventIs
    <3> QED  BY <3>1, <3>2 DEF EventsShown
  <2>3. EventsShown(E, r) = {CreditEvent(r, rs, gone)}  BY <1>1, <2>1, <2>2
  <2> QED  BY <2>3, <1>4, FS_Singleton
<1>5. CASE src \notin {"LEDGER", "TAX_CREDIT"}
  <2>1. r \notin led /\ r \notin cred  BY <1>5 DEF Sourced
  <2>2. EventsShown(E, r) = {}  BY <1>1, <2>1
  <2> QED  BY <2>2, <1>5, FS_EmptySet
<1> QED  BY <1>3, <1>4, <1>5

\* Beside the events under one key when it is exempt or an excluded gain.
Beside(r, rs, gone) ==
  \/ TaxMapOf(r.cat, rs, gone).taxability = "non_taxable" /\ r.cat \notin Exclusions(rs)
  \/ r.cat \in Exclusions(rs)

\* A row is shown beside the events under one key, or under none.
LEMMA RowsEvidence ==
  ASSUME NEW inc, IdsUnique(inc), NEW E, NEW rs, NEW gone, NEW r \in inc,
         NEW x, x = TaxReconciliation(E, LedgerEvidence(inc, rs, gone), rs)
  PROVE  Cardinality(KeysShown(x, r)) = IF Beside(r, rs, gone) THEN 1 ELSE 0
<1> DEFINE V == LedgerEvidence(inc, rs, gone)
           v == EvidenceOf(r, rs, gone)
           key == <<v.fy, v.map.sub>>
           exempt == ExcludedNonTaxable(V, rs)
           gains == ExcludedInvestment(V, rs)
<1>1. V = {EvidenceOf(y, rs, gone) : y \in inc}  BY DEF LedgerEvidence, EvidenceOf
<1>2. ReconIs(x, E, exempt, gains)  BY ReconciliationIs
<1>3. DOMAIN x = ReconciliationKeys(E, exempt \cup gains)  BY <1>2, Zenon DEF ReconIs
<1>4. \A k \in DOMAIN x : x[k].Non_Taxable = Filed(exempt, k) /\ x[k].Excluded_Investment = Filed(gains, k)
  BY <1>2, Zenon DEF ReconIs
<1>5. v \in V  BY <1>1
<1>6. /\ v.cat = r.cat /\ v.id = r.id
      /\ v.map.taxability = TaxMapOf(r.cat, rs, gone).taxability
  BY DEF EvidenceOf
<1>7. v \in exempt \cup gains <=> Beside(r, rs, gone)
  <2> HIDE DEF v, V
  <2> QED  BY <1>5, <1>6 DEF ExcludedNonTaxable, ExcludedInvestment, Beside
<1>8. ASSUME NEW w \in exempt \cup gains, w.id = r.id PROVE w = v
  <2>1. w \in V  BY DEF ExcludedNonTaxable, ExcludedInvestment
  <2>2. PICK y \in inc : w = EvidenceOf(y, rs, gone)  BY <1>1, <2>1
  <2>3. y.id = r.id  BY <1>8, <2>2 DEF EvidenceOf
  <2> QED  BY <2>2, <2>3 DEF IdsUnique
<1>9. ASSUME NEW k \in KeysShown(x, r) PROVE k = key /\ v \in exempt \cup gains
  <2>1. k \in DOMAIN x  BY DEF KeysShown
  <2>2. PICK w \in x[k].Non_Taxable \cup x[k].Excluded_Investment : w.id = r.id  BY DEF KeysShown
  <2>3. w \in Filed(exempt, k) \cup Filed(gains, k)  BY <1>4, <2>1
  <2>4. w \in exempt \cup gains /\ w.fy = k[1] /\ w.map.sub = k[2]  BY <2>3 DEF Filed
  <2>5. w = v  BY <1>8, <2>2, <2>4
  <2>6. PICK a, b : k = <<a, b>>  BY <1>3, <2>1 DEF ReconciliationKeys
  <2> HIDE DEF v
  <2>7. k = <<w.fy, w.map.sub>>  BY <2>4, <2>6
  <2> QED  BY <2>4, <2>5, <2>7
<1>10. ASSUME v \in exempt \cup gains PROVE key \in KeysShown(x, r)
  <2>1. key \in DOMAIN x  BY <1>3, <1>10 DEF ReconciliationKeys
  <2> HIDE DEF v
  <2>2. v \in Filed(exempt, key) \cup Filed(gains, key)  BY <1>10 DEF Filed
  <2> HIDE DEF key
  <2>3. v \in x[key].Non_Taxable \cup x[key].Excluded_Investment  BY <1>4, <2>1, <2>2
  <2> QED  BY <1>6, <2>1, <2>3 DEF KeysShown
<1> HIDE DEF v, key, V, exempt, gains
<1>11. CASE Beside(r, rs, gone)
  <2>1. KeysShown(x, r) = {key}  BY <1>7, <1>9, <1>10, <1>11
  <2> QED  BY <2>1, <1>11, FS_Singleton
<1>12. CASE ~Beside(r, rs, gone)
  <2>1. KeysShown(x, r) = {}  BY <1>7, <1>9, <1>12
  <2> QED  BY <2>1, <1>12, FS_EmptySet
<1> QED  BY <1>11, <1>12

\* Once in all; a credit that is exempt twice.
LEMMA ShownOnce ==
  ASSUME NEW inc, Countable(inc), IdsUnique(inc), NEW gains, NEW rs, ExclusionsApart(rs), NEW gone,
         NEW E, E = TaxEvents(inc, gains, rs, gone, MacroRate), NEW r \in inc,
         NEW x, x = TaxReconciliation(E, LedgerEvidence(inc, rs, gone), rs)
  PROVE  Cardinality(EventsShown(E, r)) + Cardinality(KeysShown(x, r))
           = IF /\ r.cat \in CreditCats(rs)
                /\ TaxMapOf(r.cat, rs, gone).taxability = "non_taxable" THEN 2 ELSE 1
<1> DEFINE src == SourceOf(r.cat, rs, gone)
           exempt == TaxMapOf(r.cat, rs, gone).taxability = "non_taxable"
<1>1. Cardinality(EventsShown(E, r)) = IF src \in {"LEDGER", "TAX_CREDIT"} THEN 1 ELSE 0
  BY RowsEvents
<1>2. Cardinality(KeysShown(x, r)) = IF Beside(r, rs, gone) THEN 1 ELSE 0
  BY RowsEvidence
<1>3. r.cat \in CreditCats(rs) => r.cat \notin Exclusions(rs)
  <2> SUFFICES ASSUME r.cat \in CreditCats(rs) PROVE r.cat \notin Exclusions(rs)  OBVIOUS
  <2>1. PICK h \in rs.subHeads : r.cat \in h.credits  BY DEF CreditCats
  <2>2. (h.cats \cup h.credits) \cap Exclusions(rs) = {}  BY DEF ExclusionsApart
  <2> QED  BY <2>1, <2>2
<1>4. r.cat \in CreditCats(rs) => src = "TAX_CREDIT"  BY <1>3 DEF SourceOf
<1>5. r.cat \notin CreditCats(rs) /\ r.cat \in Exclusions(rs) => src = "EXCLUDED"  BY DEF SourceOf
<1>6. r.cat \notin CreditCats(rs) /\ r.cat \notin Exclusions(rs)
        => src = IF exempt THEN "NON_TAXABLE" ELSE "LEDGER"
  BY DEF SourceOf
<1> HIDE DEF src
<1>7. Beside(r, rs, gone) <=> exempt \/ r.cat \in Exclusions(rs)  BY DEF Beside
<1> HIDE DEF exempt
<1>8. CASE r.cat \in CreditCats(rs)
  <2>1. src = "TAX_CREDIT" /\ r.cat \notin Exclusions(rs)  BY <1>3, <1>4, <1>8
  <2>2. Cardinality(EventsShown(E, r)) = 1  BY <1>1, <2>1
  <2>3. Cardinality(KeysShown(x, r)) = IF exempt THEN 1 ELSE 0  BY <1>2, <1>7, <2>1
  <2>4. Cardinality(EventsShown(E, r)) + Cardinality(KeysShown(x, r)) = IF exempt THEN 2 ELSE 1
    BY <2>2, <2>3
  <2> QED  BY <1>8, <2>4 DEF exempt
<1>9. CASE r.cat \notin CreditCats(rs)
  <2>1. Cardinality(EventsShown(E, r)) + Cardinality(KeysShown(x, r)) = 1
    <3>1. CASE r.cat \in Exclusions(rs)  BY <1>1, <1>2, <1>5, <1>7, <1>9, <3>1
    <3>2. CASE r.cat \notin Exclusions(rs) /\ exempt  BY <1>1, <1>2, <1>6, <1>7, <1>9, <3>2
    <3>3. CASE r.cat \notin Exclusions(rs) /\ ~exempt  BY <1>1, <1>2, <1>6, <1>7, <1>9, <3>3
    <3> QED  BY <3>1, <3>2, <3>3
  <2> QED  BY <1>9, <2>1
<1> QED  BY <1>8, <1>9

-----------------------------------------------------------------------------
(* More about sums.                                                         *)

LEMMA SumUnion ==
  ASSUME NEW f, NEW S, NEW T, IsFiniteSet(S) /\ T \in SUBSET S, \A x \in S : f[x] \in Int
  PROVE  /\ Sum(f, S) = Sum(f, T) + Sum(f, S \ T)
         /\ Sum(f, S) \in Int /\ Sum(f, T) \in Int /\ Sum(f, S \ T) \in Int
<1> DEFINE F == {U \in SUBSET T : Sum(f, S) = Sum(f, U) + Sum(f, S \ U)}
<1>0. \A U \in SUBSET S : IsFiniteSet(U) /\ Sum(f, U) \in Int
  <2> SUFFICES ASSUME NEW U \in SUBSET S PROVE IsFiniteSet(U) /\ Sum(f, U) \in Int  OBVIOUS
  <2>1. IsFiniteSet(U) /\ \A x \in U : f[x] \in Int  BY FS_Subset
  <2> QED  BY <2>1, SumInt
<1>1. {} \in F
  <2>1. S \ {} = S /\ S \in SUBSET S  OBVIOUS
  <2>2. Sum(f, {}) = 0  BY SumNone
  <2>3. Sum(f, S) \in Int  BY <1>0, <2>1
  <2> QED  BY <2>1, <2>2, <2>3
<1>2. ASSUME NEW U \in SUBSET T, U \in F, NEW x \in T \ U PROVE U \cup {x} \in F
  <2> DEFINE R == S \ U
  <2>1. U \in SUBSET S /\ R \in SUBSET S /\ x \in R /\ x \notin U /\ S \ (U \cup {x}) = R \ {x}
    OBVIOUS
  <2>2. IsFiniteSet(U) /\ IsFiniteSet(R) /\ Sum(f, U) \in Int /\ Sum(f, R) \in Int  BY <1>0, <2>1
  <2>3. Sum(f, S) = Sum(f, U) + Sum(f, R)  BY <1>2
  <2>4. \A y \in R : f[y] \in Int  BY <2>1
  <2> HIDE DEF R
  <2>5. Sum(f, R) = f[x] + Sum(f, R \ {x})  BY <2>1, <2>2, <2>4, SumRemove
  <2>6. R \ {x} \in SUBSET S  BY <2>1
  <2>7. Sum(f, R \ {x}) \in Int  BY <1>0, <2>6
  <2>8. \A y \in U : f[y] \in Int  OBVIOUS
  <2>9. f[x] \in Int  OBVIOUS
  <2>10. Sum(f, U \cup {x}) = Sum(f, U) + f[x]  BY <2>1, <2>2, <2>8, <2>9, SumAdd
  <2>11. Sum(f, S) = Sum(f, U \cup {x}) + Sum(f, R \ {x})
    BY <2>2, <2>3, <2>5, <2>7, <2>9, <2>10
  <2>12. S \ (U \cup {x}) = R \ {x}  BY <2>1
  <2> QED  BY <2>1, <2>11, <2>12
<1> HIDE DEF F
<1>3. IsFiniteSet(T)  BY FS_Subset
<1>4. T \in F  BY <1>1, <1>2, <1>3, SubsetInduct
<1>5. S \in SUBSET S /\ T \in SUBSET S /\ S \ T \in SUBSET S  OBVIOUS
<1> QED  BY <1>0, <1>4, <1>5 DEF F

\* A sum of sums.
LEMMA SumPlus ==
  ASSUME NEW f, NEW g, NEW h, NEW S, IsFiniteSet(S),
         \A x \in S : f[x] \in Int /\ g[x] \in Int /\ h[x] = f[x] + g[x]
  PROVE  Sum(h, S) = Sum(f, S) + Sum(g, S)
<1> DEFINE F == {T \in SUBSET S : Sum(h, T) = Sum(f, T) + Sum(g, T)}
<1>1. {} \in F  BY SumNone
<1>2. ASSUME NEW T \in SUBSET S, T \in F, NEW x \in S \ T PROVE T \cup {x} \in F
  <2>1. IsFiniteSet(T)  BY FS_Subset
  <2>2. \A z \in T : f[z] \in Int /\ g[z] \in Int /\ h[z] \in Int  OBVIOUS
  <2>3. f[x] \in Int /\ g[x] \in Int /\ h[x] \in Int /\ h[x] = f[x] + g[x]  OBVIOUS
  <2>4. x \notin T  OBVIOUS
  <2>5. Sum(f, T \cup {x}) = Sum(f, T) + f[x]  BY <2>1, <2>2, <2>3, <2>4, SumAdd
  <2>6. Sum(g, T \cup {x}) = Sum(g, T) + g[x]  BY <2>1, <2>2, <2>3, <2>4, SumAdd
  <2>7. Sum(h, T \cup {x}) = Sum(h, T) + h[x]  BY <2>1, <2>2, <2>3, <2>4, SumAdd
  <2>8. Sum(f, T) \in Int /\ Sum(g, T) \in Int  BY <2>1, <2>2, SumInt
  <2>9. Sum(h, T) = Sum(f, T) + Sum(g, T)  BY <1>2
  <2> QED  BY <2>3, <2>5, <2>6, <2>7, <2>8, <2>9
<1> HIDE DEF F
<1>3. S \in F  BY <1>1, <1>2, SubsetInduct
<1> QED  BY <1>3 DEF F

\* A sum of negatives.
LEMMA SumNegated ==
  ASSUME NEW f, NEW h, NEW S, IsFiniteSet(S), \A x \in S : f[x] \in Int /\ h[x] = -f[x]
  PROVE  Sum(h, S) = -Sum(f, S)
<1> DEFINE F == {T \in SUBSET S : Sum(h, T) = -Sum(f, T)}
<1>1. {} \in F
  <2>1. Sum(h, {}) = 0 /\ Sum(f, {}) = 0  BY SumNone
  <2> QED  BY <2>1
<1>2. ASSUME NEW T \in SUBSET S, T \in F, NEW x \in S \ T PROVE T \cup {x} \in F
  <2>1. IsFiniteSet(T)  BY FS_Subset
  <2>2. \A z \in T : f[z] \in Int /\ h[z] \in Int  OBVIOUS
  <2>3. f[x] \in Int /\ h[x] \in Int /\ h[x] = -f[x] /\ x \notin T  OBVIOUS
  <2>4. Sum(f, T \cup {x}) = Sum(f, T) + f[x]  BY <2>1, <2>2, <2>3, SumAdd
  <2>5. Sum(h, T \cup {x}) = Sum(h, T) + h[x]  BY <2>1, <2>2, <2>3, SumAdd
  <2>6. Sum(f, T) \in Int  BY <2>1, <2>2, SumInt
  <2>7. Sum(h, T) = -Sum(f, T)  BY <1>2
  <2> QED  BY <2>3, <2>4, <2>5, <2>6, <2>7
<1> HIDE DEF F
<1>3. S \in F  BY <1>1, <1>2, SubsetInduct
<1> QED  BY <1>3 DEF F

\* A sum of differences.
LEMMA SumMinus ==
  ASSUME NEW f, NEW g, NEW h, NEW S, IsFiniteSet(S),
         \A x \in S : f[x] \in Int /\ g[x] \in Int /\ h[x] = f[x] - g[x]
  PROVE  Sum(h, S) = Sum(f, S) - Sum(g, S)
<1>1. \A x \in S : g[x] \in Int /\ h[x] \in Int /\ f[x] = g[x] + h[x]  OBVIOUS
<1>2. Sum(f, S) = Sum(g, S) + Sum(h, S)  BY <1>1, SumPlus
<1>3. Sum(g, S) \in Int /\ Sum(h, S) \in Int  BY <1>1, SumInt
<1> QED  BY <1>2, <1>3

\* Equal amounts are as many times the amount.
LEMMA SumConst ==
  ASSUME NEW f, NEW S, NEW c, IsFiniteSet(S) /\ c \in Int, \A x \in S : f[x] = c
  PROVE  Sum(f, S) = c * Cardinality(S)
<1> DEFINE F == {T \in SUBSET S : Sum(f, T) = c * Cardinality(T)}
<1>1. {} \in F
  <2>1. Sum(f, {}) = 0 /\ Cardinality({}) = 0  BY SumNone, FS_EmptySet
  <2> QED  BY <2>1
<1>2. ASSUME NEW T \in SUBSET S, T \in F, NEW x \in S \ T PROVE T \cup {x} \in F
  <2>1. IsFiniteSet(T)  BY FS_Subset
  <2>2. (\A z \in T : f[z] \in Int) /\ f[x] \in Int /\ f[x] = c /\ x \notin T  OBVIOUS
  <2>3. Sum(f, T \cup {x}) = Sum(f, T) + f[x]  BY <2>1, <2>2, SumAdd
  <2>4. Cardinality(T \cup {x}) = Cardinality(T) + 1 /\ Cardinality(T) \in Nat
    BY <2>1, <2>2, FS_AddElement, FS_CardinalityType
  <2>5. Sum(f, T) = c * Cardinality(T)  BY <1>2
  <2> DEFINE n == Cardinality(T)
  <2>6. \A k \in Nat : c * k + c = c * (k + 1)  OBVIOUS
  <2>7. Sum(f, T \cup {x}) = c * (n + 1)  BY <2>2, <2>3, <2>4, <2>5, <2>6
  <2> QED  BY <2>4, <2>7
<1> HIDE DEF F
<1>3. S \in F  BY <1>1, <1>2, SubsetInduct
<1> QED  BY <1>3 DEF F

-----------------------------------------------------------------------------
(* Amounts booked.                                                          *)

LEMMA CountableParts ==
  ASSUME NEW S, NEW T, Countable(S) /\ T \in SUBSET S
  PROVE  Countable(T) /\ Amount(T) \in Int
<1>1. IsFiniteSet(T) /\ \A r \in T : r.amt \in Int  BY FS_Subset DEF Countable
<1> QED  BY <1>1, AmountIs DEF Countable

\* An amount splits into that of a part and that of the rest.
LEMMA AmountSplit ==
  ASSUME NEW S, NEW T, Countable(S) /\ T \in SUBSET S
  PROVE  /\ Amount(S) = Amount(T) + Amount(S \ T)
         /\ Amount(S) \in Int /\ Amount(T) \in Int /\ Amount(S \ T) \in Int
<1> DEFINE w == AmtOf(S)
<1>1. IsFiniteSet(S) /\ \A r \in S : r.amt \in Int /\ w[r] \in Int  BY DEF Countable, AmtOf
<1>2. T \in SUBSET S /\ S \ T \in SUBSET S /\ S \in SUBSET S  OBVIOUS
<1>3. Amount(S) = Sum(w, S) /\ Amount(T) = Sum(w, T) /\ Amount(S \ T) = Sum(w, S \ T)
  BY <1>1, <1>2, AmountIs
<1> HIDE DEF w
<1>4. /\ Sum(w, S) = Sum(w, T) + Sum(w, S \ T)
      /\ Sum(w, S) \in Int /\ Sum(w, T) \in Int /\ Sum(w, S \ T) \in Int
  BY <1>1, SumUnion
<1> QED  BY <1>3, <1>4

ImageOf(h, S) == {h[x] : x \in S}

\* A sum does not change when its terms are renamed one to one.
LEMMA SumOfImage ==
  ASSUME NEW f, NEW S, IsFiniteSet(S), \A x \in S : f[x] \in Int,
         NEW h, \A x, y \in S : h[x] = h[y] => x = y,
         NEW R, R = ImageOf(h, S), NEW g, \A x \in S : g[h[x]] = f[x]
  PROVE  IsFiniteSet(R) /\ Sum(g, R) = Sum(f, S)
<1> DEFINE I == {h[x] : x \in S}
<1>1. R = {h[x] : x \in S}  BY DEF ImageOf
<1> QED  BY <1>1, SumOfImages

\* Nor does an amount when its rows are.
LEMMA AmountImages ==
  ASSUME NEW S, Countable(S), NEW h, \A x, y \in S : h[x] = h[y] => x = y,
         NEW R, R = ImageOf(h, S), \A x \in S : h[x].amt = x.amt
  PROVE  Countable(R) /\ Amount(R) = Amount(S)
<1> DEFINE w == AmtOf(S)
           v == AmtOf(R)
<1>1. IsFiniteSet(S) /\ \A x \in S : w[x] \in Int /\ x.amt \in Int /\ w[x] = x.amt
  BY DEF Countable, AmtOf
<1>2. \A x \in S : v[h[x]] = w[x]  BY DEF AmtOf, ImageOf
<1>3. \A r \in R : r.amt \in Int  BY <1>1 DEF ImageOf
<1>4. IsFiniteSet(R) /\ Sum(v, R) = Sum(w, S)
  <2> HIDE DEF w, v
  <2>1. \A x \in S : w[x] \in Int  BY <1>1
  <2> QED  BY <1>1, <1>2, <2>1, SumOfImage
<1>5. Countable(R)  BY <1>3, <1>4 DEF Countable
<1>6. Amount(R) = Sum(v, R) /\ Amount(S) = Sum(w, S)  BY <1>1, <1>3, <1>4, AmountIs
<1> QED  BY <1>4, <1>5, <1>6

\* What the rows book on some accounts in some months.
Of(S, A, K) == {r \in S : r.acct \in A /\ r.m \in K}
Booked(S, A, K) == Amount(Of(S, A, K))

\* What is booked, month by month, adds up to what is booked in all of them.
LEMMA BookedByMonth ==
  ASSUME NEW S, NEW A, NEW K, NEW g, Countable(S) /\ IsFiniteSet(K),
         \A k \in K : g[k] = Booked(S, A, {k})
  PROVE  Sum(g, K) = Booked(S, A, K)
<1> DEFINE T == Of(S, A, K)
           lab == [r \in T |-> r.m]
<1>1. T \in SUBSET S  BY DEF Of
<1>2. Countable(T)  BY <1>1, CountableParts
<1>3. \A r \in T : lab[r] \in K  BY DEF Of
<1>4. \A k \in K : g[k] = Amount(PartOf(T, lab, k))
  <2> TAKE k \in K
  <2>1. PartOf(T, lab, k) = Of(S, A, {k})  BY DEF PartOf, Of
  <2> QED  BY <2>1 DEF Booked
<1> HIDE DEF T, lab
<1>5. Sum(g, K) = Amount(T)  BY <1>2, <1>3, <1>4, AmountOfParts DEF Countable
<1> QED  BY <1>5 DEF T, Booked

\* What is booked, account by account, adds up to what is booked on all of them.
LEMMA BookedByAccount ==
  ASSUME NEW S, NEW A, NEW K, NEW g, Countable(S) /\ IsFiniteSet(A),
         \A a \in A : g[a] = Booked(S, {a}, K)
  PROVE  Sum(g, A) = Booked(S, A, K)
<1> DEFINE T == Of(S, A, K)
           lab == [r \in T |-> r.acct]
<1>1. T \in SUBSET S  BY DEF Of
<1>2. Countable(T)  BY <1>1, CountableParts
<1>3. \A r \in T : lab[r] \in A  BY DEF Of
<1>4. \A a \in A : g[a] = Amount(PartOf(T, lab, a))
  <2> TAKE a \in A
  <2>1. PartOf(T, lab, a) = Of(S, {a}, K)  BY DEF PartOf, Of
  <2> QED  BY <2>1 DEF Booked
<1> HIDE DEF T, lab
<1>5. Sum(g, A) = Amount(T)  BY <1>2, <1>3, <1>4, AmountOfParts DEF Countable
<1> QED  BY <1>5 DEF T, Booked

\* What is booked is whole.
LEMMA BookedIsInt ==
  ASSUME NEW S, NEW A, NEW K, Countable(S) PROVE Booked(S, A, K) \in Int
<1>1. Of(S, A, K) \in SUBSET S  BY DEF Of
<1> QED  BY <1>1, CountableParts DEF Booked

\* One month more books that month's rows more.
LEMMA BookedGrows ==
  ASSUME NEW S, NEW A, NEW K, NEW k, Countable(S) /\ k \notin K
  PROVE  Booked(S, A, K \cup {k}) = Booked(S, A, K) + Booked(S, A, {k})
<1> DEFINE T == Of(S, A, K \cup {k})
<1>1. T \in SUBSET S  BY DEF Of
<1>2. Countable(T)  BY <1>1, CountableParts
<1>3. Of(S, A, K) \in SUBSET T /\ T \ Of(S, A, K) = Of(S, A, {k})  BY DEF Of
<1> HIDE DEF T
<1>4. Amount(T) = Amount(Of(S, A, K)) + Amount(T \ Of(S, A, K))  BY <1>2, <1>3, AmountSplit
<1> QED  BY <1>3, <1>4 DEF Booked, T

-----------------------------------------------------------------------------
(* The unified ledger.                                                      *)

OpeningEntry(o) == LedgerRow("OPENING", o, FALSE, FALSE)
IncomeEntry(r) == LedgerRow("INCOME", r, r.cat \in NonCash, FALSE)
ExpenseEntry(r, gone) == LedgerRow("EXPENSE", r, IsNonCashPnl(r.acct, gone), r.cat \in Core)
TransferEntry(r) == LedgerRow("TRANSFER", r, FALSE, FALSE)

\* An entry is the fact it stands for.
Stands(e, r, kind) ==
  e.kind = kind /\ e.acct = r.acct /\ e.m = r.m /\ e.amt = r.amt /\ e.id = r.id

\* The ledger entry of an opening balance stands for it.
LEMMA OpeningEntryIs == ASSUME NEW r PROVE Stands(OpeningEntry(r), r, "OPENING")
  BY Zenon DEF OpeningEntry, LedgerRow, Stands
\* The ledger entry of an income row stands for it, and says whether it is cash.
LEMMA IncomeEntryIs ==
  ASSUME NEW r
  PROVE  Stands(IncomeEntry(r), r, "INCOME") /\ (IncomeEntry(r).nonCash <=> r.cat \in NonCash)
<1>1. Stands(IncomeEntry(r), r, "INCOME")  BY Zenon DEF IncomeEntry, LedgerRow, Stands
<1>2. IncomeEntry(r).nonCash = (r.cat \in NonCash)  BY Zenon DEF IncomeEntry, LedgerRow
<1> QED  BY <1>1, <1>2
\* The ledger entry of an expense stands for it, and says whether it is cash, or core.
LEMMA ExpenseEntryIs ==
  ASSUME NEW r, NEW gone
  PROVE  /\ Stands(ExpenseEntry(r, gone), r, "EXPENSE")
         /\ ExpenseEntry(r, gone).nonCash <=> IsNonCashPnl(r.acct, gone)
         /\ ExpenseEntry(r, gone).core <=> r.cat \in Core
<1>1. Stands(ExpenseEntry(r, gone), r, "EXPENSE")  BY Zenon DEF ExpenseEntry, LedgerRow, Stands
<1>2. ExpenseEntry(r, gone).nonCash = IsNonCashPnl(r.acct, gone)  BY Zenon DEF ExpenseEntry, LedgerRow
<1>3. ExpenseEntry(r, gone).core = (r.cat \in Core)  BY Zenon DEF ExpenseEntry, LedgerRow
<1> QED  BY <1>1, <1>2, <1>3
\* The ledger entry of a transfer leg stands for it.
LEMMA TransferEntryIs == ASSUME NEW r PROVE Stands(TransferEntry(r), r, "TRANSFER")
  BY Zenon DEF TransferEntry, LedgerRow, Stands

\* The unified ledger consists of the entries of the facts.
LEMMA LedgerEntries ==
  ASSUME NEW ops, NEW inc, NEW exp, NEW trn, NEW gone
  PROVE  UnifiedLedger(ops, inc, exp, trn, gone) =
           {OpeningEntry(o) : o \in LastOpenings(ops)} \cup {IncomeEntry(r) : r \in inc}
             \cup {ExpenseEntry(r, gone) : r \in exp} \cup {TransferEntry(r) : r \in trn}
  BY DEF UnifiedLedger, OpeningEntry, IncomeEntry, ExpenseEntry, TransferEntry

\* The entries of some facts amount to what they do.
LEMMA EntriesAmount ==
  ASSUME NEW S, Countable(S), IdsUnique(S), NEW kind, NEW h, \A r \in S : Stands(h[r], r, kind)
  PROVE  \A T \in SUBSET S : Countable(ImageOf(h, T)) /\ Amount(ImageOf(h, T)) = Amount(T)
<1> TAKE T \in SUBSET S
<1>1. Countable(T)  BY CountableParts
<1>2. \A x, y \in T : h[x] = h[y] => x = y  BY DEF IdsUnique, Stands
<1>3. \A x \in T : h[x].amt = x.amt  BY DEF Stands
<1> QED  BY <1>1, <1>2, <1>3, AmountImages

RowsKept(ops, inc, exp, trn) ==
  /\ Countable(LastOpenings(ops)) /\ Countable(inc) /\ Countable(exp) /\ Countable(trn)
  /\ IdsUnique(LastOpenings(ops)) /\ IdsUnique(inc) /\ IdsUnique(exp) /\ IdsUnique(trn)

NonCashIncome(S) == {r \in S : r.cat \in NonCash}
NonCashExpense(S, gone) == {r \in S : IsNonCashPnl(r.acct, gone)}
CoreExpense(S) == {r \in S : r.cat \in Core}

NonCashEntries(S) == {e \in S : e.nonCash}
CoreEntries(S) == {e \in S : e.core}

\* The entries on an account in a month, and those of a kind.
EntriesOn(ledger, a, m) == {r \in ledger : r.acct = a /\ r.m = m}
OfKind(ledger, kind, a, m) == {r \in ledger : r.kind = kind /\ r.acct = a /\ r.m = m}

EntriesAgree(ops, inc, exp, trn, gone, a, m) ==
  LET L == UnifiedLedger(ops, inc, exp, trn, gone) IN
  /\ Amount(OfKind(L, "OPENING", a, m)) = Booked(LastOpenings(ops), {a}, {m})
  /\ Amount(OfKind(L, "INCOME", a, m)) = Booked(inc, {a}, {m})
  /\ Amount(OfKind(L, "EXPENSE", a, m)) = Booked(exp, {a}, {m})
  /\ Amount(OfKind(L, "TRANSFER", a, m)) = Booked(trn, {a}, {m})
  /\ Amount(NonCashEntries(OfKind(L, "INCOME", a, m))) =
       Booked(NonCashIncome(inc), {a}, {m})
  /\ Amount(CoreEntries(OfKind(L, "EXPENSE", a, m))) = Booked(CoreExpense(exp), {a}, {m})
  /\ Amount(NonCashEntries(OfKind(L, "EXPENSE", a, m))) =
       Booked(NonCashExpense(exp, gone), {a}, {m})
  /\ Countable(EntriesOn(L, a, m))

\* The entries of a kind, account and month are worth what those facts are.
LEMMA EntriesOfKind ==
  ASSUME NEW ops, NEW inc, NEW exp, NEW trn, NEW gone, NEW a, NEW m,
         RowsKept(ops, inc, exp, trn)
  PROVE  EntriesAgree(ops, inc, exp, trn, gone, a, m)
<1> DEFINE L == UnifiedLedger(ops, inc, exp, trn, gone)
           open == LastOpenings(ops)
           ho == [r \in open |-> OpeningEntry(r)]
           hi == [r \in inc |-> IncomeEntry(r)]
           he == [r \in exp |-> ExpenseEntry(r, gone)]
           ht == [r \in trn |-> TransferEntry(r)]
<1>1. L = ImageOf(ho, open) \cup ImageOf(hi, inc) \cup ImageOf(he, exp) \cup ImageOf(ht, trn)
  <2>1. /\ ImageOf(ho, open) = {OpeningEntry(r) : r \in open}
        /\ ImageOf(hi, inc) = {IncomeEntry(r) : r \in inc}
        /\ ImageOf(he, exp) = {ExpenseEntry(r, gone) : r \in exp}
        /\ ImageOf(ht, trn) = {TransferEntry(r) : r \in trn}
    BY DEF ImageOf
  <2> QED  BY <2>1, LedgerEntries
<1>2. /\ \A r \in open : Stands(ho[r], r, "OPENING")
      /\ \A r \in inc : Stands(hi[r], r, "INCOME") /\ (hi[r].nonCash <=> r.cat \in NonCash)
      /\ \A r \in exp : /\ Stands(he[r], r, "EXPENSE")
                        /\ he[r].nonCash <=> IsNonCashPnl(r.acct, gone)
                        /\ he[r].core <=> r.cat \in Core
      /\ \A r \in trn : Stands(ht[r], r, "TRANSFER")
  BY OpeningEntryIs, IncomeEntryIs, ExpenseEntryIs, TransferEntryIs
<1> HIDE DEF ho, hi, he, ht, open, L
<1>3. /\ OfKind(L, "OPENING", a, m) = ImageOf(ho, Of(open, {a}, {m}))
      /\ OfKind(L, "INCOME", a, m) = ImageOf(hi, Of(inc, {a}, {m}))
      /\ OfKind(L, "EXPENSE", a, m) = ImageOf(he, Of(exp, {a}, {m}))
      /\ OfKind(L, "TRANSFER", a, m) = ImageOf(ht, Of(trn, {a}, {m}))
  <2>1. OfKind(L, "OPENING", a, m) = ImageOf(ho, Of(open, {a}, {m}))
    BY <1>1, <1>2 DEF OfKind, ImageOf, Of, Stands
  <2>2. OfKind(L, "INCOME", a, m) = ImageOf(hi, Of(inc, {a}, {m}))
    BY <1>1, <1>2 DEF OfKind, ImageOf, Of, Stands
  <2>3. OfKind(L, "EXPENSE", a, m) = ImageOf(he, Of(exp, {a}, {m}))
    BY <1>1, <1>2 DEF OfKind, ImageOf, Of, Stands
  <2>4. OfKind(L, "TRANSFER", a, m) = ImageOf(ht, Of(trn, {a}, {m}))
    BY <1>1, <1>2 DEF OfKind, ImageOf, Of, Stands
  <2> QED  BY <2>1, <2>2, <2>3, <2>4
<1>4. /\ NonCashEntries(OfKind(L, "INCOME", a, m)) = ImageOf(hi, Of(NonCashIncome(inc), {a}, {m}))
      /\ CoreEntries(OfKind(L, "EXPENSE", a, m)) = ImageOf(he, Of(CoreExpense(exp), {a}, {m}))
      /\ NonCashEntries(OfKind(L, "EXPENSE", a, m)) =
           ImageOf(he, Of(NonCashExpense(exp, gone), {a}, {m}))
  <2>1. NonCashEntries(OfKind(L, "INCOME", a, m)) = ImageOf(hi, Of(NonCashIncome(inc), {a}, {m}))
    BY <1>2, <1>3 DEF ImageOf, Of, NonCashIncome, NonCashEntries
  <2>2. CoreEntries(OfKind(L, "EXPENSE", a, m)) = ImageOf(he, Of(CoreExpense(exp), {a}, {m}))
    BY <1>2, <1>3 DEF ImageOf, Of, CoreExpense, CoreEntries
  <2>3. NonCashEntries(OfKind(L, "EXPENSE", a, m)) =
          ImageOf(he, Of(NonCashExpense(exp, gone), {a}, {m}))
    BY <1>2, <1>3 DEF ImageOf, Of, NonCashExpense, NonCashEntries
  <2> QED  BY <2>1, <2>2, <2>3
<1>5. /\ Of(open, {a}, {m}) \in SUBSET open /\ Of(inc, {a}, {m}) \in SUBSET inc
      /\ Of(exp, {a}, {m}) \in SUBSET exp /\ Of(trn, {a}, {m}) \in SUBSET trn
      /\ Of(NonCashIncome(inc), {a}, {m}) \in SUBSET inc
      /\ Of(CoreExpense(exp), {a}, {m}) \in SUBSET exp
      /\ Of(NonCashExpense(exp, gone), {a}, {m}) \in SUBSET exp
  BY DEF Of, NonCashIncome, CoreExpense, NonCashExpense
<1>6. /\ Countable(open) /\ Countable(inc) /\ Countable(exp) /\ Countable(trn)
      /\ IdsUnique(open) /\ IdsUnique(inc) /\ IdsUnique(exp) /\ IdsUnique(trn)
  BY DEF RowsKept, open
<1>7. \A T \in SUBSET open : Countable(ImageOf(ho, T)) /\ Amount(ImageOf(ho, T)) = Amount(T)
  <2>1. \A r \in open : Stands(ho[r], r, "OPENING")  BY <1>2
  <2>2. Countable(open) /\ IdsUnique(open)  BY <1>6
  <2> QED  BY <2>1, <2>2, EntriesAmount
<1>8. \A T \in SUBSET inc : Countable(ImageOf(hi, T)) /\ Amount(ImageOf(hi, T)) = Amount(T)
  <2>1. \A r \in inc : Stands(hi[r], r, "INCOME")  BY <1>2
  <2>2. Countable(inc) /\ IdsUnique(inc)  BY <1>6
  <2> QED  BY <2>1, <2>2, EntriesAmount
<1>9. \A T \in SUBSET exp : Countable(ImageOf(he, T)) /\ Amount(ImageOf(he, T)) = Amount(T)
  <2>1. \A r \in exp : Stands(he[r], r, "EXPENSE")  BY <1>2
  <2>2. Countable(exp) /\ IdsUnique(exp)  BY <1>6
  <2> QED  BY <2>1, <2>2, EntriesAmount
<1>10. \A T \in SUBSET trn : Countable(ImageOf(ht, T)) /\ Amount(ImageOf(ht, T)) = Amount(T)
  <2>1. \A r \in trn : Stands(ht[r], r, "TRANSFER")  BY <1>2
  <2>2. Countable(trn) /\ IdsUnique(trn)  BY <1>6
  <2> QED  BY <2>1, <2>2, EntriesAmount
<1>11. Countable(EntriesOn(L, a, m))
  <2> DEFINE R == EntriesOn(L, a, m)
  <2>1. open \in SUBSET open /\ inc \in SUBSET inc /\ exp \in SUBSET exp /\ trn \in SUBSET trn  OBVIOUS
  <2>2. /\ Countable(ImageOf(ho, open)) /\ Countable(ImageOf(hi, inc))
        /\ Countable(ImageOf(he, exp)) /\ Countable(ImageOf(ht, trn))
    BY <1>7, <1>8, <1>9, <1>10, <2>1
  <2>3. IsFiniteSet(L)
    <3>1. IsFiniteSet(ImageOf(ho, open) \cup ImageOf(hi, inc))  BY <2>2, FS_Union DEF Countable
    <3>2. IsFiniteSet(ImageOf(he, exp)) /\ IsFiniteSet(ImageOf(ht, trn))  BY <2>2 DEF Countable
    <3>3. IsFiniteSet((ImageOf(ho, open) \cup ImageOf(hi, inc)) \cup ImageOf(he, exp))
      BY <3>1, <3>2, FS_Union
    <3> QED  BY <1>1, <3>2, <3>3, FS_Union
  <2>4. \A r \in L : r.amt \in Int
    <3> SUFFICES ASSUME NEW r \in L PROVE r.amt \in Int  OBVIOUS
    <3>1. CASE r \in ImageOf(ho, open)  BY <3>1, <2>2 DEF Countable
    <3>2. CASE r \in ImageOf(hi, inc)  BY <3>2, <2>2 DEF Countable
    <3>3. CASE r \in ImageOf(he, exp)  BY <3>3, <2>2 DEF Countable
    <3>4. CASE r \in ImageOf(ht, trn)  BY <3>4, <2>2 DEF Countable
    <3> QED  BY <1>1, <3>1, <3>2, <3>3, <3>4
  <2>5. Countable(L)  BY <2>3, <2>4 DEF Countable
  <2>6. R \in SUBSET L  BY DEF EntriesOn
  <2> HIDE DEF R
  <2>7. Countable(R)  BY <2>5, <2>6, CountableParts
  <2> QED  BY <2>7 DEF R
<1>12. /\ Amount(OfKind(L, "OPENING", a, m)) = Booked(open, {a}, {m})
       /\ Amount(OfKind(L, "INCOME", a, m)) = Booked(inc, {a}, {m})
       /\ Amount(OfKind(L, "EXPENSE", a, m)) = Booked(exp, {a}, {m})
       /\ Amount(OfKind(L, "TRANSFER", a, m)) = Booked(trn, {a}, {m})
  BY <1>3, <1>5, <1>7, <1>8, <1>9, <1>10 DEF Booked
<1>13. /\ Amount(NonCashEntries(OfKind(L, "INCOME", a, m))) = Booked(NonCashIncome(inc), {a}, {m})
       /\ Amount(CoreEntries(OfKind(L, "EXPENSE", a, m))) = Booked(CoreExpense(exp), {a}, {m})
       /\ Amount(NonCashEntries(OfKind(L, "EXPENSE", a, m))) =
            Booked(NonCashExpense(exp, gone), {a}, {m})
  BY <1>4, <1>5, <1>8, <1>9 DEF Booked
<1> QED  BY <1>11, <1>12, <1>13 DEF open, L, EntriesAgree

-----------------------------------------------------------------------------
(* Balances.                                                                *)

\* What the rows of all kinds come to.
NetBooked(open, inc, exp, trn, A, K) ==
  Booked(open, A, K) + Booked(inc, A, K) - Booked(exp, A, K) + Booked(trn, A, K)

AllCountable(open, inc, exp, trn) ==
  Countable(open) /\ Countable(inc) /\ Countable(exp) /\ Countable(trn)

\* The net of what is booked is whole.
LEMMA NetBookedIsInt ==
  ASSUME NEW open, NEW inc, NEW exp, NEW trn, NEW A, NEW K, AllCountable(open, inc, exp, trn)
  PROVE  NetBooked(open, inc, exp, trn, A, K) \in Int
<1>1. /\ Booked(open, A, K) \in Int /\ Booked(inc, A, K) \in Int
      /\ Booked(exp, A, K) \in Int /\ Booked(trn, A, K) \in Int
  BY BookedIsInt DEF AllCountable
<1> QED  BY <1>1 DEF NetBooked

\* The net of sums is the sum of nets.
LEMMA NetOfSums ==
  ASSUME NEW S, NEW o, NEW i, NEW e, NEW t, NEW g, IsFiniteSet(S),
         \A x \in S : /\ o[x] \in Int /\ i[x] \in Int /\ e[x] \in Int /\ t[x] \in Int
                      /\ g[x] = o[x] + i[x] - e[x] + t[x]
  PROVE  Sum(g, S) = Sum(o, S) + Sum(i, S) - Sum(e, S) + Sum(t, S)
<1> DEFINE oi == [x \in S |-> o[x] + i[x]]
           oie == [x \in S |-> oi[x] - e[x]]
<1>1. \A x \in S : /\ o[x] \in Int /\ i[x] \in Int /\ e[x] \in Int /\ t[x] \in Int
                   /\ oi[x] \in Int /\ oi[x] = o[x] + i[x]
                   /\ oie[x] \in Int /\ oie[x] = oi[x] - e[x] /\ g[x] = oie[x] + t[x]
  OBVIOUS
<1> HIDE DEF oi, oie
<1>2. Sum(oi, S) = Sum(o, S) + Sum(i, S)  BY <1>1, SumPlus
<1>3. Sum(oie, S) = Sum(oi, S) - Sum(e, S)  BY <1>1, SumMinus
<1>4. Sum(g, S) = Sum(oie, S) + Sum(t, S)  BY <1>1, SumPlus
<1>5. \A x \in S : o[x] \in Int /\ i[x] \in Int /\ e[x] \in Int /\ t[x] \in Int  BY <1>1
<1>6. Sum(o, S) \in Int /\ Sum(i, S) \in Int /\ Sum(e, S) \in Int /\ Sum(t, S) \in Int
  BY <1>5, SumInt
<1> QED  BY <1>2, <1>3, <1>4, <1>6

\* The net, month by month, adds up.
LEMMA NetByMonth ==
  ASSUME NEW open, NEW inc, NEW exp, NEW trn, NEW A, NEW K, NEW g,
         AllCountable(open, inc, exp, trn) /\ IsFiniteSet(K),
         \A k \in K : g[k] = NetBooked(open, inc, exp, trn, A, {k})
  PROVE  Sum(g, K) = NetBooked(open, inc, exp, trn, A, K)
<1> DEFINE o == [k \in K |-> Booked(open, A, {k})]
           i == [k \in K |-> Booked(inc, A, {k})]
           e == [k \in K |-> Booked(exp, A, {k})]
           t == [k \in K |-> Booked(trn, A, {k})]
<1>1. /\ \A k \in K : o[k] = Booked(open, A, {k}) /\ i[k] = Booked(inc, A, {k})
      /\ \A k \in K : e[k] = Booked(exp, A, {k}) /\ t[k] = Booked(trn, A, {k})
  OBVIOUS
<1> HIDE DEF o, i, e, t
<1>0. Countable(open) /\ Countable(inc) /\ Countable(exp) /\ Countable(trn)  BY DEF AllCountable
<1>2. /\ Sum(o, K) = Booked(open, A, K) /\ Sum(i, K) = Booked(inc, A, K)
      /\ Sum(e, K) = Booked(exp, A, K) /\ Sum(t, K) = Booked(trn, A, K)
  <2>1. Sum(o, K) = Booked(open, A, K)
    <3>1. \A k \in K : o[k] = Booked(open, A, {k})  BY <1>1
    <3>2. Countable(open)  BY <1>0
    <3> QED  BY <3>1, <3>2, BookedByMonth
  <2>2. Sum(i, K) = Booked(inc, A, K)
    <3>1. \A k \in K : i[k] = Booked(inc, A, {k})  BY <1>1
    <3>2. Countable(inc)  BY <1>0
    <3> QED  BY <3>1, <3>2, BookedByMonth
  <2>3. Sum(e, K) = Booked(exp, A, K)
    <3>1. \A k \in K : e[k] = Booked(exp, A, {k})  BY <1>1
    <3>2. Countable(exp)  BY <1>0
    <3> QED  BY <3>1, <3>2, BookedByMonth
  <2>4. Sum(t, K) = Booked(trn, A, K)
    <3>1. \A k \in K : t[k] = Booked(trn, A, {k})  BY <1>1
    <3>2. Countable(trn)  BY <1>0
    <3> QED  BY <3>1, <3>2, BookedByMonth
  <2> QED  BY <2>1, <2>2, <2>3, <2>4
<1>3. \A k \in K : /\ o[k] \in Int /\ i[k] \in Int /\ e[k] \in Int /\ t[k] \in Int
                   /\ g[k] = o[k] + i[k] - e[k] + t[k]
  <2>1. \A k \in K : /\ Booked(open, A, {k}) \in Int /\ Booked(inc, A, {k}) \in Int
                     /\ Booked(exp, A, {k}) \in Int /\ Booked(trn, A, {k}) \in Int
    BY <1>0, BookedIsInt
  <2> QED  BY <1>1, <2>1 DEF NetBooked
<1>4. Sum(g, K) = Sum(o, K) + Sum(i, K) - Sum(e, K) + Sum(t, K)  BY <1>3, NetOfSums
<1> QED  BY <1>2, <1>4 DEF NetBooked

\* The net, account by account, adds up.
LEMMA NetByAccount ==
  ASSUME NEW open, NEW inc, NEW exp, NEW trn, NEW A, NEW K, NEW g,
         AllCountable(open, inc, exp, trn) /\ IsFiniteSet(A),
         \A a \in A : g[a] = NetBooked(open, inc, exp, trn, {a}, K)
  PROVE  Sum(g, A) = NetBooked(open, inc, exp, trn, A, K)
<1> DEFINE o == [a \in A |-> Booked(open, {a}, K)]
           i == [a \in A |-> Booked(inc, {a}, K)]
           e == [a \in A |-> Booked(exp, {a}, K)]
           t == [a \in A |-> Booked(trn, {a}, K)]
<1>1. /\ \A a \in A : o[a] = Booked(open, {a}, K) /\ i[a] = Booked(inc, {a}, K)
      /\ \A a \in A : e[a] = Booked(exp, {a}, K) /\ t[a] = Booked(trn, {a}, K)
  OBVIOUS
<1> HIDE DEF o, i, e, t
<1>0. Countable(open) /\ Countable(inc) /\ Countable(exp) /\ Countable(trn)  BY DEF AllCountable
<1>2. /\ Sum(o, A) = Booked(open, A, K) /\ Sum(i, A) = Booked(inc, A, K)
      /\ Sum(e, A) = Booked(exp, A, K) /\ Sum(t, A) = Booked(trn, A, K)
  <2>1. Sum(o, A) = Booked(open, A, K)
    <3>1. \A a \in A : o[a] = Booked(open, {a}, K)  BY <1>1
    <3>2. Countable(open)  BY <1>0
    <3> QED  BY <3>1, <3>2, BookedByAccount
  <2>2. Sum(i, A) = Booked(inc, A, K)
    <3>1. \A a \in A : i[a] = Booked(inc, {a}, K)  BY <1>1
    <3>2. Countable(inc)  BY <1>0
    <3> QED  BY <3>1, <3>2, BookedByAccount
  <2>3. Sum(e, A) = Booked(exp, A, K)
    <3>1. \A a \in A : e[a] = Booked(exp, {a}, K)  BY <1>1
    <3>2. Countable(exp)  BY <1>0
    <3> QED  BY <3>1, <3>2, BookedByAccount
  <2>4. Sum(t, A) = Booked(trn, A, K)
    <3>1. \A a \in A : t[a] = Booked(trn, {a}, K)  BY <1>1
    <3>2. Countable(trn)  BY <1>0
    <3> QED  BY <3>1, <3>2, BookedByAccount
  <2> QED  BY <2>1, <2>2, <2>3, <2>4
<1>3. \A a \in A : /\ o[a] \in Int /\ i[a] \in Int /\ e[a] \in Int /\ t[a] \in Int
                   /\ g[a] = o[a] + i[a] - e[a] + t[a]
  <2>1. \A a \in A : /\ Booked(open, {a}, K) \in Int /\ Booked(inc, {a}, K) \in Int
                     /\ Booked(exp, {a}, K) \in Int /\ Booked(trn, {a}, K) \in Int
    BY <1>0, BookedIsInt
  <2> QED  BY <1>1, <2>1 DEF NetBooked
<1>4. Sum(g, A) = Sum(o, A) + Sum(i, A) - Sum(e, A) + Sum(t, A)  BY <1>3, NetOfSums
<1> QED  BY <1>2, <1>4 DEF NetBooked

\* One month more adds the net of that month.
LEMMA NetGrows ==
  ASSUME NEW open, NEW inc, NEW exp, NEW trn, NEW A, NEW K, NEW k,
         AllCountable(open, inc, exp, trn) /\ k \notin K
  PROVE  NetBooked(open, inc, exp, trn, A, K \cup {k}) =
           NetBooked(open, inc, exp, trn, A, K) + NetBooked(open, inc, exp, trn, A, {k})
<1>0. Countable(open) /\ Countable(inc) /\ Countable(exp) /\ Countable(trn)  BY DEF AllCountable
<1>1. /\ Booked(open, A, K \cup {k}) = Booked(open, A, K) + Booked(open, A, {k})
      /\ Booked(inc, A, K \cup {k}) = Booked(inc, A, K) + Booked(inc, A, {k})
  BY <1>0, BookedGrows
<1>2. /\ Booked(exp, A, K \cup {k}) = Booked(exp, A, K) + Booked(exp, A, {k})
      /\ Booked(trn, A, K \cup {k}) = Booked(trn, A, K) + Booked(trn, A, {k})
  BY <1>0, BookedGrows
<1>3. \A M : /\ Booked(open, A, M) \in Int /\ Booked(inc, A, M) \in Int
             /\ Booked(exp, A, M) \in Int /\ Booked(trn, A, M) \in Int
  BY <1>0, BookedIsInt
<1>4. /\ Booked(open, A, K) \in Int /\ Booked(inc, A, K) \in Int
      /\ Booked(exp, A, K) \in Int /\ Booked(trn, A, K) \in Int
      /\ Booked(open, A, {k}) \in Int /\ Booked(inc, A, {k}) \in Int
      /\ Booked(exp, A, {k}) \in Int /\ Booked(trn, A, {k}) \in Int
  BY <1>3
<1> QED  BY <1>1, <1>2, <1>4 DEF NetBooked

ActivityAgrees(ops, inc, exp, trn, gone, a, m) ==
  LET act == MonthlyActivity(UnifiedLedger(ops, inc, exp, trn, gone), a, m) IN
  /\ act.DB_Opening = Booked(LastOpenings(ops), {a}, {m})
  /\ act.Income = Booked(inc, {a}, {m}) /\ act.Expense = Booked(exp, {a}, {m})
  /\ act.Net_Transfers = Booked(trn, {a}, {m})
  /\ act.Non_Cash_Income = Booked(NonCashIncome(inc), {a}, {m})
  /\ act.Core_Expense = Booked(CoreExpense(exp), {a}, {m})
  /\ act.Non_Cash_Expense = Booked(NonCashExpense(exp, gone), {a}, {m})

\* The monthly activity of an account is what its facts of the month are worth.
LEMMA ActivityIs ==
  ASSUME NEW ops, NEW inc, NEW exp, NEW trn, NEW gone, NEW a, NEW m, RowsKept(ops, inc, exp, trn)
  PROVE  ActivityAgrees(ops, inc, exp, trn, gone, a, m)
<1> DEFINE L == UnifiedLedger(ops, inc, exp, trn, gone)
           act == MonthlyActivity(L, a, m)
<1>1. /\ act.DB_Opening = Amount(OfKind(L, "OPENING", a, m))
      /\ act.Income = Amount(OfKind(L, "INCOME", a, m))
      /\ act.Expense = Amount(OfKind(L, "EXPENSE", a, m))
      /\ act.Net_Transfers = Amount(OfKind(L, "TRANSFER", a, m))
      /\ act.Non_Cash_Income = Amount(NonCashEntries(OfKind(L, "INCOME", a, m)))
      /\ act.Core_Expense = Amount(CoreEntries(OfKind(L, "EXPENSE", a, m)))
      /\ act.Non_Cash_Expense = Amount(NonCashEntries(OfKind(L, "EXPENSE", a, m)))
  BY Zenon DEF MonthlyActivity, OfKind, NonCashEntries, CoreEntries
<1>2. /\ Amount(OfKind(L, "OPENING", a, m)) = Booked(LastOpenings(ops), {a}, {m})
      /\ Amount(OfKind(L, "INCOME", a, m)) = Booked(inc, {a}, {m})
      /\ Amount(OfKind(L, "EXPENSE", a, m)) = Booked(exp, {a}, {m})
      /\ Amount(OfKind(L, "TRANSFER", a, m)) = Booked(trn, {a}, {m})
      /\ Amount(NonCashEntries(OfKind(L, "INCOME", a, m))) = Booked(NonCashIncome(inc), {a}, {m})
      /\ Amount(CoreEntries(OfKind(L, "EXPENSE", a, m))) = Booked(CoreExpense(exp), {a}, {m})
      /\ Amount(NonCashEntries(OfKind(L, "EXPENSE", a, m))) =
           Booked(NonCashExpense(exp, gone), {a}, {m})
  <2>1. EntriesAgree(ops, inc, exp, trn, gone, a, m)  BY EntriesOfKind
  <2> QED  BY <2>1 DEF EntriesAgree
<1> QED  BY <1>1, <1>2 DEF ActivityAgrees

\* The change of a month is what the rows of all kinds come to.
LEMMA ChangeIs ==
  ASSUME NEW ops, NEW inc, NEW exp, NEW trn, NEW gone, NEW a, NEW m, RowsKept(ops, inc, exp, trn)
  PROVE  MonthlyNetChange(UnifiedLedger(ops, inc, exp, trn, gone), a, m) =
           NetBooked(LastOpenings(ops), inc, exp, trn, {a}, {m})
<1> DEFINE L == UnifiedLedger(ops, inc, exp, trn, gone)
           R == EntriesOn(L, a, m)
           f == [r \in R |-> IF r.kind = "EXPENSE" THEN -r.amt ELSE r.amt]
           w == AmtOf(R)
           O == OfKind(L, "OPENING", a, m)
           I == OfKind(L, "INCOME", a, m)
           E == OfKind(L, "EXPENSE", a, m)
           T == OfKind(L, "TRANSFER", a, m)
<1>1. MonthlyNetChange(L, a, m) = Sum(f, R)  BY DEF MonthlyNetChange, Total, Sum, EntriesOn
<1>2. /\ Countable(R) /\ Amount(O) = Booked(LastOpenings(ops), {a}, {m})
      /\ Amount(I) = Booked(inc, {a}, {m}) /\ Amount(E) = Booked(exp, {a}, {m})
      /\ Amount(T) = Booked(trn, {a}, {m})
  <2>1. EntriesAgree(ops, inc, exp, trn, gone, a, m)  BY EntriesOfKind
  <2> QED  BY <2>1 DEF EntriesAgree
<1>3. \A r \in L : r.kind \in {"OPENING", "INCOME", "EXPENSE", "TRANSFER"}
  BY OpeningEntryIs, IncomeEntryIs, ExpenseEntryIs, TransferEntryIs, LedgerEntries DEF Stands
<1>4. /\ O \in SUBSET R /\ I \in SUBSET R \ O /\ E \in SUBSET ((R \ O) \ I)
      /\ ((R \ O) \ I) \ E = T
      /\ I \in SUBSET R /\ E \in SUBSET R /\ T \in SUBSET R /\ R \ O \in SUBSET R
      /\ (R \ O) \ I \in SUBSET R
  BY <1>3 DEF OfKind, EntriesOn
<1>5. IsFiniteSet(R) /\ \A r \in R : f[r] \in Int /\ w[r] \in Int  BY <1>2 DEF Countable, AmtOf
<1>6. /\ \A r \in R : r \in E => f[r] = -w[r]
      /\ \A r \in R : r \notin E => f[r] = w[r]
  BY DEF AmtOf, OfKind, EntriesOn
<1>7. O \cap E = {} /\ I \cap E = {} /\ T \cap E = {}  BY DEF OfKind
<1>8. /\ Amount(O) = Sum(w, O) /\ Amount(I) = Sum(w, I) /\ Amount(E) = Sum(w, E)
      /\ Amount(T) = Sum(w, T)
  BY <1>2, <1>4, AmountIs DEF Countable
<1> HIDE DEF f, w, L, R, O, I, E, T
<1>9. \A U \in SUBSET R : IsFiniteSet(U) /\ \A r \in U : f[r] \in Int /\ w[r] \in Int
  BY <1>5, FS_Subset
<1>10. Sum(f, O) = Amount(O)
  <2>1. IsFiniteSet(O) /\ \A r \in O : w[r] \in Int /\ f[r] = w[r]  BY <1>4, <1>6, <1>7, <1>9
  <2>2. Sum(f, O) = Sum(w, O)  BY <2>1, SumSame
  <2> QED  BY <2>2, <1>8
<1>11. Sum(f, I) = Amount(I)
  <2>1. IsFiniteSet(I) /\ \A r \in I : w[r] \in Int /\ f[r] = w[r]  BY <1>4, <1>6, <1>7, <1>9
  <2>2. Sum(f, I) = Sum(w, I)  BY <2>1, SumSame
  <2> QED  BY <2>2, <1>8
<1>12. Sum(f, T) = Amount(T)
  <2>1. IsFiniteSet(T) /\ \A r \in T : w[r] \in Int /\ f[r] = w[r]  BY <1>4, <1>6, <1>7, <1>9
  <2>2. Sum(f, T) = Sum(w, T)  BY <2>1, SumSame
  <2> QED  BY <2>2, <1>8
<1>13. Sum(f, E) = -Amount(E)
  <2>1. IsFiniteSet(E) /\ \A r \in E : w[r] \in Int /\ f[r] = -w[r]  BY <1>4, <1>6, <1>9
  <2>2. Sum(f, E) = -Sum(w, E)  BY <2>1, SumNegated
  <2> QED  BY <2>2, <1>8
<1>14. /\ Sum(f, R) = Sum(f, O) + Sum(f, R \ O) /\ Sum(f, O) \in Int  BY <1>4, <1>5, SumUnion
<1>15. /\ Sum(f, R \ O) = Sum(f, I) + Sum(f, (R \ O) \ I) /\ Sum(f, I) \in Int
  <2>1. IsFiniteSet(R \ O) /\ \A r \in R \ O : f[r] \in Int  BY <1>4, <1>9
  <2> DEFINE Q == R \ O
  <2>2. I \in SUBSET Q  BY <1>4
  <2> HIDE DEF Q
  <2>3. IsFiniteSet(Q) /\ \A r \in Q : f[r] \in Int  BY <2>1 DEF Q
  <2>4. Sum(f, Q) = Sum(f, I) + Sum(f, Q \ I) /\ Sum(f, I) \in Int  BY <2>2, <2>3, SumUnion
  <2> QED  BY <2>4 DEF Q
<1>16. /\ Sum(f, (R \ O) \ I) = Sum(f, E) + Sum(f, T)
       /\ Sum(f, E) \in Int /\ Sum(f, T) \in Int
  <2> DEFINE Q == (R \ O) \ I
  <2>1. E \in SUBSET Q /\ Q \ E = T /\ IsFiniteSet(Q) /\ \A r \in Q : f[r] \in Int  BY <1>4, <1>9
  <2> HIDE DEF Q
  <2>2. IsFiniteSet(Q) /\ E \in SUBSET Q  BY <2>1
  <2>3. \A r \in Q : f[r] \in Int  BY <2>1
  <2>4. /\ Sum(f, Q) = Sum(f, E) + Sum(f, Q \ E) /\ Sum(f, E) \in Int /\ Sum(f, Q \ E) \in Int
    BY <2>2, <2>3, SumUnion
  <2> QED  BY <2>1, <2>4 DEF Q
<1>17. /\ Amount(O) \in Int /\ Amount(I) \in Int /\ Amount(E) \in Int /\ Amount(T) \in Int
  BY <1>2, <1>4, CountableParts
<1>18. Sum(f, R) = Amount(O) + Amount(I) - Amount(E) + Amount(T)
  BY <1>10, <1>11, <1>12, <1>13, <1>14, <1>15, <1>16, <1>17
<1> QED  BY <1>1, <1>2, <1>18 DEF NetBooked, L

\* Months of the grid until m.
Until(grid, m) == {k \in grid : k <= m}

\* A balance carries on what was booked until then; nothing of it is unexplained.
BalanceAgrees(ops, inc, exp, trn, gone, grid, a, m) ==
  LET L == UnifiedLedger(ops, inc, exp, trn, gone)
      b == Balance(L, grid, a, m) IN
  /\ b.act = MonthlyActivity(L, a, m)
  /\ b.Closing_Balance = NetBooked(LastOpenings(ops), inc, exp, trn, {a}, Until(grid, m))
  /\ b.Opening_Balance =
       NetBooked(LastOpenings(ops), inc, exp, trn, {a}, Until(grid, m - 1))
         + Booked(LastOpenings(ops), {a}, {m})
  /\ b.Net_Cashflow_Month =
       Booked(inc, {a}, {m}) - Booked(exp, {a}, {m}) + Booked(trn, {a}, {m})
  /\ b.Closing_Balance = b.Opening_Balance + b.Net_Cashflow_Month
  /\ b.Organic_Growth = 0

\* A balance is the net of everything booked up to its month: it carries forward.
LEMMA BalanceIs ==
  ASSUME NEW ops, NEW inc, NEW exp, NEW trn, NEW gone, NEW grid, NEW a, NEW m,
         RowsKept(ops, inc, exp, trn) /\ IsFiniteSet(grid) /\ grid \subseteq Int /\ m \in grid
  PROVE  BalanceAgrees(ops, inc, exp, trn, gone, grid, a, m)
<1> DEFINE open == LastOpenings(ops)
           L == UnifiedLedger(ops, inc, exp, trn, gone)
           b == Balance(L, grid, a, m)
           closing(n) == Total(LAMBDA k : MonthlyNetChange(L, a, k), {k \in grid : k <= n})
           act == MonthlyActivity(L, a, m)
           opening == closing(m - 1) + act.DB_Opening
           net == act.Income - act.Expense + act.Net_Transfers
           bal == [ act |-> act, Opening_Balance |-> opening, Closing_Balance |-> closing(m),
                    Net_Cashflow_Month |-> net, Organic_Growth |-> closing(m) - (opening + net),
                    All_Time_High |->
                      LET past == {closing(k) : k \in {k \in grid : k <= m}} IN Latest(past) ]
           N(K) == NetBooked(open, inc, exp, trn, {a}, K)
<1>1. b = bal  BY DEF Balance
<1>2. /\ b.act = act /\ b.Opening_Balance = opening /\ b.Closing_Balance = closing(m)
      /\ b.Net_Cashflow_Month = net /\ b.Organic_Growth = closing(m) - (opening + net)
  <2> HIDE DEF closing, opening, net, act
  <2>1. /\ bal.act = act /\ bal.Opening_Balance = opening /\ bal.Closing_Balance = closing(m)
        /\ bal.Net_Cashflow_Month = net /\ bal.Organic_Growth = closing(m) - (opening + net)
    BY Zenon
  <2> HIDE DEF bal
  <2> QED  BY <1>1, <2>1
<1>3. AllCountable(open, inc, exp, trn)  BY DEF RowsKept, AllCountable
<1>4. \A n : closing(n) = N(Until(grid, n))
  <2> TAKE n
  <2> DEFINE K == Until(grid, n)
             g == [k \in K |-> MonthlyNetChange(L, a, k)]
  <2>1. closing(n) = Sum(g, K)  BY DEF Total, Sum, Until
  <2>2. K \in SUBSET grid  BY DEF Until
  <2> HIDE DEF K
  <2>3. IsFiniteSet(K)  BY <2>2, FS_Subset
  <2>4. \A k \in K : g[k] = N({k})
    <3> TAKE k \in K
    <3>1. MonthlyNetChange(L, a, k) = N({k})  BY ChangeIs
    <3> QED  BY <3>1
  <2> HIDE DEF g, open, closing
  <2>5. Sum(g, K) = N(K)  BY <1>3, <2>3, <2>4, NetByMonth
  <2> QED  BY <2>1, <2>5 DEF K
<1>5. Until(grid, m) = Until(grid, m - 1) \cup {m} /\ m \notin Until(grid, m - 1)
  <2>1. m \in Int /\ \A k \in grid : k \in Int  OBVIOUS
  <2>2. \A k \in Int : k <= m <=> (k <= m - 1 \/ k = m)  BY <2>1
  <2>3. ~(m <= m - 1)  BY <2>1
  <2>4. m \notin Until(grid, m - 1)  BY <2>3 DEF Until
  <2>5. \A k : k \in Until(grid, m) <=> k \in Until(grid, m - 1) \cup {m}  BY <2>1, <2>2 DEF Until
  <2> QED  BY <2>4, <2>5
<1>6. N(Until(grid, m)) = N(Until(grid, m - 1)) + N({m})
  <2> DEFINE K == Until(grid, m - 1)
  <2>1. m \notin K /\ Until(grid, m) = K \cup {m}  BY <1>5
  <2> HIDE DEF K, open
  <2>2. N(K \cup {m}) = N(K) + N({m})  BY <1>3, <2>1, NetGrows
  <2> QED  BY <2>1, <2>2 DEF K
<1>7. /\ act.DB_Opening = Booked(open, {a}, {m}) /\ act.Income = Booked(inc, {a}, {m})
      /\ act.Expense = Booked(exp, {a}, {m}) /\ act.Net_Transfers = Booked(trn, {a}, {m})
  <2>1. ActivityAgrees(ops, inc, exp, trn, gone, a, m)  BY ActivityIs
  <2> QED  BY <2>1 DEF ActivityAgrees
<1>8. /\ Booked(open, {a}, {m}) \in Int /\ Booked(inc, {a}, {m}) \in Int
      /\ Booked(exp, {a}, {m}) \in Int /\ Booked(trn, {a}, {m}) \in Int
  BY <1>3, BookedIsInt DEF AllCountable
<1>9. N(Until(grid, m - 1)) \in Int  BY <1>3, NetBookedIsInt
<1>10. N({m}) = Booked(open, {a}, {m}) + Booked(inc, {a}, {m}) - Booked(exp, {a}, {m})
                  + Booked(trn, {a}, {m})
  BY DEF NetBooked
<1>11. closing(m) = N(Until(grid, m)) /\ closing(m - 1) = N(Until(grid, m - 1))  BY <1>4
<1>12. /\ opening = N(Until(grid, m - 1)) + Booked(open, {a}, {m})
       /\ net = Booked(inc, {a}, {m}) - Booked(exp, {a}, {m}) + Booked(trn, {a}, {m})
  BY <1>7, <1>11
<1> HIDE DEF N, open, closing, act, b, L, opening, net
<1>13. closing(m) = opening + net /\ closing(m) - (opening + net) = 0
  BY <1>6, <1>8, <1>9, <1>10, <1>11, <1>12
<1> QED  BY <1>2, <1>11, <1>12, <1>13 DEF N, open, act, b, L, BalanceAgrees

-----------------------------------------------------------------------------
(* Net worth and the totals of a month.                                     *)

LEMMA RevaluedKeeps ==
  ASSUME NEW balance, NEW a, NEW v, NEW b, b = WithMarketValue(balance, a, v)
  PROVE  /\ b.act = balance.act /\ b.Opening_Balance = balance.Opening_Balance
         /\ b.Closing_Balance = balance.Closing_Balance
         /\ b.Organic_Growth = balance.Organic_Growth
         /\ b.Net_Cashflow_Month = balance.Net_Cashflow_Month
  BY Zenon DEF WithMarketValue

\* A row of the net worth summary has the account's activity and balance.
LEMMA SummaryIs ==
  ASSUME NEW L, NEW grid, NEW gone, NEW lots,
         NEW s, s = NetWorthSummary(L, grid, gone, lots), NEW m \in grid
  PROVE  /\ DOMAIN s = grid /\ DOMAIN s[m] = LiveAccounts(gone)
         /\ \A a \in LiveAccounts(gone) :
              LET b == Balance(L, grid, a, m) IN
              /\ s[m][a].act = b.act /\ s[m][a].Opening_Balance = b.Opening_Balance
              /\ s[m][a].Closing_Balance = b.Closing_Balance
              /\ s[m][a].Organic_Growth = b.Organic_Growth
              /\ s[m][a].Net_Cashflow_Month = b.Net_Cashflow_Month
<1>1. /\ DOMAIN s = grid /\ DOMAIN s[m] = LiveAccounts(gone)
      /\ \A a \in LiveAccounts(gone) :
           s[m][a] = WithMarketValue(Balance(L, grid, a, m), a, AssetValuation(lots, a, m))
  BY DEF NetWorthSummary
<1>2. ASSUME NEW a \in LiveAccounts(gone)
      PROVE  LET b == Balance(L, grid, a, m) IN
              /\ s[m][a].act = b.act /\ s[m][a].Opening_Balance = b.Opening_Balance
              /\ s[m][a].Closing_Balance = b.Closing_Balance
              /\ s[m][a].Organic_Growth = b.Organic_Growth
              /\ s[m][a].Net_Cashflow_Month = b.Net_Cashflow_Month
  <2> DEFINE x == s[m][a]
             b == Balance(L, grid, a, m)
  <2>1. x = WithMarketValue(b, a, AssetValuation(lots, a, m))  BY <1>1
  <2> HIDE DEF x, b
  <2>2. /\ x.act = b.act /\ x.Opening_Balance = b.Opening_Balance
        /\ x.Closing_Balance = b.Closing_Balance /\ x.Organic_Growth = b.Organic_Growth
        /\ x.Net_Cashflow_Month = b.Net_Cashflow_Month
    BY <2>1, RevaluedKeeps
  <2> QED  BY <2>2 DEF x, b
<1> QED  BY <1>1, <1>2

\* The totals of a month are those of its balances; valuations leave them alone.
LEMMA MonthlyTotalsAre ==
  ASSUME NEW s, NEW lots, NEW x, x = MonthlyTotals(s, lots)
  PROVE  DOMAIN x = DOMAIN s /\ \A m \in DOMAIN s : x[m].t = BalanceTotals(s, m)
<1>1. DOMAIN x = DOMAIN s  BY DEF MonthlyTotals
<1>2. \A m \in DOMAIN s : x[m].t = BalanceTotals(s, m)
  <2> TAKE m \in DOMAIN s
  <2> DEFINE t == BalanceTotals(s, m)
             p == PortfolioOf(lots, m)
             opening == IF m - 1 \in DOMAIN s THEN BalanceTotals(s, m - 1).Net_Worth ELSE 0
  <2> DEFINE rec == [ t |-> t, portfolio |-> p, Assets_Market |-> Revalued(t.Assets, p),
                      Net_Worth_Market |-> Revalued(t.Net_Worth, p),
                      Liquid_Assets_Market |-> Revalued(t.Liquid_Assets, p),
                      Opening_Balance_Asset |-> opening, Asset_Delta |-> t.Net_Worth - opening ]
  <2>1. x[m] = rec  BY DEF MonthlyTotals
  <2> HIDE DEF t, p, opening
  <2>2. rec.t = t  BY Zenon
  <2> HIDE DEF rec
  <2> QED  BY <2>1, <2>2 DEF t
<1> QED  BY <1>1, <1>2

\* The sums over the accounts, each as a sum of a function.
IncomeOver(s, m, A) == Sum([a \in A |-> s[m][a].act.Income], A)
CashIncomeOver(s, m, A) == Sum([a \in A |-> s[m][a].act.Income - s[m][a].act.Non_Cash_Income], A)
ExpenseOver(s, m, A) == Sum([a \in A |-> s[m][a].act.Expense], A)
CoreExpenseOver(s, m, A) == Sum([a \in A |-> s[m][a].act.Core_Expense], A)
CashExpenseOver(s, m, A) == Sum([a \in A |-> s[m][a].act.Expense - s[m][a].act.Non_Cash_Expense], A)
AboveOver(s, m, A) ==
  Sum([a \in A |-> IF s[m][a].Closing_Balance >= 0 THEN s[m][a].Closing_Balance ELSE 0], A)
BelowOver(s, m, A) ==
  Sum([a \in A |-> IF s[m][a].Closing_Balance < 0 THEN s[m][a].Closing_Balance ELSE 0], A)

\* The totals of a month are sums over the accounts.
LEMMA BalanceTotalsAre ==
  ASSUME NEW s, NEW m
  PROVE  LET A == DOMAIN s[m]
             t == BalanceTotals(s, m) IN
         /\ t.Income = IncomeOver(s, m, A)
         /\ t.Cash_Income = CashIncomeOver(s, m, A)
         /\ t.Expense = ExpenseOver(s, m, A)
         /\ t.Core_Expense = CoreExpenseOver(s, m, A)
         /\ t.Cash_Expense = CashExpenseOver(s, m, A)
         /\ t.Assets = AboveOver(s, m, A) /\ t.Liabilities = -BelowOver(s, m, A)
         /\ t.Net_Worth = AboveOver(s, m, A) + BelowOver(s, m, A)
  BY Zenon DEF BalanceTotals, Total, Sum, IncomeOver, CashIncomeOver, ExpenseOver, CoreExpenseOver,
               CashExpenseOver, AboveOver, BelowOver

\* The row of an account: what was booked on it.
RowAgrees(ops, inc, exp, trn, gone, grid, m, lots, a) ==
  LET x == NetWorthSummary(UnifiedLedger(ops, inc, exp, trn, gone), grid, gone, lots)[m][a]
  IN
  /\ x.act.DB_Opening = Booked(LastOpenings(ops), {a}, {m})
  /\ x.act.Income = Booked(inc, {a}, {m})
  /\ x.act.Non_Cash_Income = Booked(NonCashIncome(inc), {a}, {m})
  /\ x.act.Expense = Booked(exp, {a}, {m})
  /\ x.act.Core_Expense = Booked(CoreExpense(exp), {a}, {m})
  /\ x.act.Non_Cash_Expense = Booked(NonCashExpense(exp, gone), {a}, {m})
  /\ x.Closing_Balance = NetBooked(LastOpenings(ops), inc, exp, trn, {a}, Until(grid, m))
  /\ x.Opening_Balance =
       NetBooked(LastOpenings(ops), inc, exp, trn, {a}, Until(grid, m - 1))
         + Booked(LastOpenings(ops), {a}, {m})
  /\ x.Organic_Growth = 0
  /\ x.Closing_Balance = x.Opening_Balance
       + (Booked(inc, {a}, {m}) - Booked(exp, {a}, {m}) + Booked(trn, {a}, {m}))

\* A row of the summary in terms of the facts booked on the account.
LEMMA AccountRow ==
  ASSUME NEW ops, NEW inc, NEW exp, NEW trn, NEW gone, NEW grid, NEW m, NEW lots, NEW a,
         RowsKept(ops, inc, exp, trn) /\ IsFiniteSet(grid) /\ grid \subseteq Int /\ m \in grid,
         a \in LiveAccounts(gone)
  PROVE  RowAgrees(ops, inc, exp, trn, gone, grid, m, lots, a)
<1> DEFINE L == UnifiedLedger(ops, inc, exp, trn, gone)
           s == NetWorthSummary(L, grid, gone, lots)
           x == s[m][a]
           b == Balance(L, grid, a, m)
           act == MonthlyActivity(L, a, m)
<1>1. /\ x.act = b.act /\ x.Closing_Balance = b.Closing_Balance
      /\ x.Opening_Balance = b.Opening_Balance /\ x.Organic_Growth = b.Organic_Growth
  BY SummaryIs
<1>2. /\ b.act = act
      /\ b.Closing_Balance = NetBooked(LastOpenings(ops), inc, exp, trn, {a}, Until(grid, m))
      /\ b.Opening_Balance =
           NetBooked(LastOpenings(ops), inc, exp, trn, {a}, Until(grid, m - 1))
             + Booked(LastOpenings(ops), {a}, {m})
      /\ b.Net_Cashflow_Month =
           Booked(inc, {a}, {m}) - Booked(exp, {a}, {m}) + Booked(trn, {a}, {m})
      /\ b.Closing_Balance = b.Opening_Balance + b.Net_Cashflow_Month
      /\ b.Organic_Growth = 0
  <2>1. BalanceAgrees(ops, inc, exp, trn, gone, grid, a, m)  BY BalanceIs
  <2> QED  BY <2>1 DEF BalanceAgrees
<1>3. /\ act.DB_Opening = Booked(LastOpenings(ops), {a}, {m})
      /\ act.Income = Booked(inc, {a}, {m})
      /\ act.Non_Cash_Income = Booked(NonCashIncome(inc), {a}, {m})
      /\ act.Expense = Booked(exp, {a}, {m})
      /\ act.Core_Expense = Booked(CoreExpense(exp), {a}, {m})
      /\ act.Non_Cash_Expense = Booked(NonCashExpense(exp, gone), {a}, {m})
  <2>1. ActivityAgrees(ops, inc, exp, trn, gone, a, m)  BY ActivityIs
  <2> QED  BY <2>1 DEF ActivityAgrees
<1> HIDE DEF x, b, act
<1>4. x.act = act /\ x.Organic_Growth = 0  BY <1>1, <1>2
<1>5. /\ x.Closing_Balance = NetBooked(LastOpenings(ops), inc, exp, trn, {a}, Until(grid, m))
      /\ x.Opening_Balance =
           NetBooked(LastOpenings(ops), inc, exp, trn, {a}, Until(grid, m - 1))
             + Booked(LastOpenings(ops), {a}, {m})
      /\ x.Closing_Balance = x.Opening_Balance
           + (Booked(inc, {a}, {m}) - Booked(exp, {a}, {m}) + Booked(trn, {a}, {m}))
  BY <1>1, <1>2
<1> QED  BY <1>3, <1>4, <1>5 DEF x, RowAgrees

\* What a month's totals come to.
TotalsAgree(ops, inc, exp, trn, gone, grid, m, lots) ==
  LET live == LiveAccounts(gone)
      s == NetWorthSummary(UnifiedLedger(ops, inc, exp, trn, gone), grid, gone, lots)
      t == BalanceTotals(s, m) IN
  /\ t.Income = Booked(inc, live, {m})
  /\ t.Cash_Income = Booked(inc, live, {m}) - Booked(NonCashIncome(inc), live, {m})
  /\ t.Expense = Booked(exp, live, {m})
  /\ t.Core_Expense = Booked(CoreExpense(exp), live, {m})
  /\ t.Cash_Expense = Booked(exp, live, {m}) - Booked(NonCashExpense(exp, gone), live, {m})
  /\ t.Net_Worth = NetBooked(LastOpenings(ops), inc, exp, trn, live, Until(grid, m))
  /\ t.Assets - t.Liabilities = t.Net_Worth

\* The totals of a month in terms of all the facts.
LEMMA TotalsOfMonth ==
  ASSUME NEW ops, NEW inc, NEW exp, NEW trn, NEW gone, NEW grid, NEW m, NEW lots,
         RowsKept(ops, inc, exp, trn) /\ IsFiniteSet(grid) /\ grid \subseteq Int /\ m \in grid,
         IsFiniteSet(LiveAccounts(gone))
  PROVE  TotalsAgree(ops, inc, exp, trn, gone, grid, m, lots)
<1> DEFINE s == NetWorthSummary(UnifiedLedger(ops, inc, exp, trn, gone), grid, gone, lots)
           t == BalanceTotals(s, m)
           A == LiveAccounts(gone)
           open == LastOpenings(ops)
           x(a) == s[m][a]
           income == [a \in A |-> x(a).act.Income]
           cashIn == [a \in A |-> x(a).act.Income - x(a).act.Non_Cash_Income]
           expense == [a \in A |-> x(a).act.Expense]
           core == [a \in A |-> x(a).act.Core_Expense]
           cashOut == [a \in A |-> x(a).act.Expense - x(a).act.Non_Cash_Expense]
           above == [a \in A |-> IF x(a).Closing_Balance >= 0 THEN x(a).Closing_Balance ELSE 0]
           below == [a \in A |-> IF x(a).Closing_Balance < 0 THEN x(a).Closing_Balance ELSE 0]
           nonCashIn == [a \in A |-> Booked(NonCashIncome(inc), {a}, {m})]
           nonCashOut == [a \in A |-> Booked(NonCashExpense(exp, gone), {a}, {m})]
           closing == [a \in A |-> NetBooked(open, inc, exp, trn, {a}, Until(grid, m))]
<1>0. A = DOMAIN s[m]  BY SummaryIs
<1>1. /\ t.Income = Sum(income, A) /\ t.Cash_Income = Sum(cashIn, A)
      /\ t.Expense = Sum(expense, A) /\ t.Core_Expense = Sum(core, A)
      /\ t.Cash_Expense = Sum(cashOut, A)
      /\ t.Assets = Sum(above, A) /\ t.Liabilities = -Sum(below, A)
      /\ t.Net_Worth = Sum(above, A) + Sum(below, A)
  <2> HIDE DEF A, s
  <2>1. /\ t.Income = IncomeOver(s, m, A) /\ t.Cash_Income = CashIncomeOver(s, m, A)
        /\ t.Expense = ExpenseOver(s, m, A) /\ t.Core_Expense = CoreExpenseOver(s, m, A)
        /\ t.Cash_Expense = CashExpenseOver(s, m, A)
        /\ t.Assets = AboveOver(s, m, A) /\ t.Liabilities = -BelowOver(s, m, A)
        /\ t.Net_Worth = AboveOver(s, m, A) + BelowOver(s, m, A)
    BY <1>0, BalanceTotalsAre
  <2>2. /\ IncomeOver(s, m, A) = Sum(income, A) /\ CashIncomeOver(s, m, A) = Sum(cashIn, A)
        /\ ExpenseOver(s, m, A) = Sum(expense, A) /\ CoreExpenseOver(s, m, A) = Sum(core, A)
        /\ CashExpenseOver(s, m, A) = Sum(cashOut, A)
        /\ AboveOver(s, m, A) = Sum(above, A) /\ BelowOver(s, m, A) = Sum(below, A)
    BY DEF IncomeOver, CashIncomeOver, ExpenseOver, CoreExpenseOver, CashExpenseOver,
           AboveOver, BelowOver
  <2> HIDE DEF x, income, cashIn, expense, core, cashOut, above, below
  <2> QED  BY <2>1, <2>2
<1>2. \A a \in A :
        /\ x(a).act.Income = Booked(inc, {a}, {m})
        /\ x(a).act.Non_Cash_Income = Booked(NonCashIncome(inc), {a}, {m})
        /\ x(a).act.Expense = Booked(exp, {a}, {m})
        /\ x(a).act.Core_Expense = Booked(CoreExpense(exp), {a}, {m})
        /\ x(a).act.Non_Cash_Expense = Booked(NonCashExpense(exp, gone), {a}, {m})
        /\ x(a).Closing_Balance = NetBooked(open, inc, exp, trn, {a}, Until(grid, m))
  <2> TAKE a \in A
  <2>1. RowAgrees(ops, inc, exp, trn, gone, grid, m, lots, a)  BY AccountRow
  <2> QED  BY <2>1 DEF RowAgrees
<1>3. /\ Countable(open) /\ Countable(inc) /\ Countable(exp) /\ Countable(trn)
      /\ AllCountable(open, inc, exp, trn)
  BY DEF RowsKept, AllCountable
<1>4. /\ Countable(NonCashIncome(inc)) /\ Countable(CoreExpense(exp))
      /\ Countable(NonCashExpense(exp, gone))
  <2>1. /\ NonCashIncome(inc) \in SUBSET inc /\ CoreExpense(exp) \in SUBSET exp
        /\ NonCashExpense(exp, gone) \in SUBSET exp
    BY DEF NonCashIncome, CoreExpense, NonCashExpense
  <2> QED  BY <1>3, <2>1, CountableParts
<1>5. /\ \A a \in A : income[a] = Booked(inc, {a}, {m})
      /\ \A a \in A : expense[a] = Booked(exp, {a}, {m})
      /\ \A a \in A : core[a] = Booked(CoreExpense(exp), {a}, {m})
      /\ \A a \in A : cashIn[a] = income[a] - nonCashIn[a]
      /\ \A a \in A : cashOut[a] = expense[a] - nonCashOut[a]
      /\ \A a \in A : nonCashIn[a] = Booked(NonCashIncome(inc), {a}, {m})
      /\ \A a \in A : nonCashOut[a] = Booked(NonCashExpense(exp, gone), {a}, {m})
  <2> HIDE DEF x
  <2> QED  BY <1>2
<1>6. /\ \A a \in A : closing[a] = NetBooked(open, inc, exp, trn, {a}, Until(grid, m))
      /\ \A a \in A : closing[a] \in Int
      /\ \A a \in A : above[a] = IF closing[a] >= 0 THEN closing[a] ELSE 0
      /\ \A a \in A : below[a] = IF closing[a] < 0 THEN closing[a] ELSE 0
  <2>1. \A a \in A : NetBooked(open, inc, exp, trn, {a}, Until(grid, m)) \in Int
    BY <1>3, NetBookedIsInt
  <2> HIDE DEF x, open
  <2> QED  BY <1>2, <2>1
<1> HIDE DEF x, income, cashIn, expense, core, cashOut, above, below, nonCashIn, nonCashOut, closing, A, open, s, t
<1>7. IsFiniteSet(A)  BY DEF A
<1>8. Sum(income, A) = Booked(inc, A, {m})
  <2>1. \A a \in A : income[a] = Booked(inc, {a}, {m})  BY <1>5
  <2> QED  BY <2>1, <1>3, <1>7, BookedByAccount
<1>9. Sum(expense, A) = Booked(exp, A, {m})
  <2>1. \A a \in A : expense[a] = Booked(exp, {a}, {m})  BY <1>5
  <2> QED  BY <2>1, <1>3, <1>7, BookedByAccount
<1>10. Sum(core, A) = Booked(CoreExpense(exp), A, {m})
  <2>1. \A a \in A : core[a] = Booked(CoreExpense(exp), {a}, {m})  BY <1>5
  <2> QED  BY <2>1, <1>4, <1>7, BookedByAccount
<1>11. Sum(nonCashIn, A) = Booked(NonCashIncome(inc), A, {m})
  <2>1. \A a \in A : nonCashIn[a] = Booked(NonCashIncome(inc), {a}, {m})  BY <1>5
  <2> QED  BY <2>1, <1>4, <1>7, BookedByAccount
<1>12. Sum(nonCashOut, A) = Booked(NonCashExpense(exp, gone), A, {m})
  <2>1. \A a \in A : nonCashOut[a] = Booked(NonCashExpense(exp, gone), {a}, {m})  BY <1>5
  <2> QED  BY <2>1, <1>4, <1>7, BookedByAccount
<1>13. Sum(cashIn, A) = Booked(inc, A, {m}) - Booked(NonCashIncome(inc), A, {m})
  <2>1. \A a \in A : income[a] \in Int /\ nonCashIn[a] \in Int /\ cashIn[a] = income[a] - nonCashIn[a]
    <3>1. \A a \in A : Booked(inc, {a}, {m}) \in Int /\ Booked(NonCashIncome(inc), {a}, {m}) \in Int
      BY <1>3, <1>4, BookedIsInt
    <3> QED  BY <1>5, <3>1
  <2>2. Sum(cashIn, A) = Sum(income, A) - Sum(nonCashIn, A)  BY <1>7, <2>1, SumMinus
  <2> QED  BY <2>2, <1>8, <1>11
<1>14. Sum(cashOut, A) = Booked(exp, A, {m}) - Booked(NonCashExpense(exp, gone), A, {m})
  <2>1. \A a \in A : expense[a] \in Int /\ nonCashOut[a] \in Int /\ cashOut[a] = expense[a] - nonCashOut[a]
    <3>1. \A a \in A : /\ Booked(exp, {a}, {m}) \in Int
                      /\ Booked(NonCashExpense(exp, gone), {a}, {m}) \in Int
      BY <1>3, <1>4, BookedIsInt
    <3> QED  BY <1>5, <3>1
  <2>2. Sum(cashOut, A) = Sum(expense, A) - Sum(nonCashOut, A)  BY <1>7, <2>1, SumMinus
  <2> QED  BY <2>2, <1>9, <1>12
<1>15. \A a \in A : above[a] \in Int /\ below[a] \in Int /\ closing[a] = above[a] + below[a]
  <2> TAKE a \in A
  <2>1. /\ closing[a] \in Int /\ above[a] = IF closing[a] >= 0 THEN closing[a] ELSE 0
        /\ below[a] = IF closing[a] < 0 THEN closing[a] ELSE 0
    BY <1>6
  <2> QED  BY <2>1
<1>16. Sum(closing, A) = Sum(above, A) + Sum(below, A)  BY <1>7, <1>15, SumPlus
<1>17. Sum(closing, A) = NetBooked(open, inc, exp, trn, A, Until(grid, m))
  <2>1. \A a \in A : closing[a] = NetBooked(open, inc, exp, trn, {a}, Until(grid, m))  BY <1>6
  <2>2. AllCountable(open, inc, exp, trn)  BY <1>3
  <2> DEFINE K == Until(grid, m)
  <2> HIDE DEF K
  <2>3. \A a \in A : closing[a] = NetBooked(open, inc, exp, trn, {a}, K)  BY <2>1 DEF K
  <2>4. Sum(closing, A) = NetBooked(open, inc, exp, trn, A, K)  BY <2>2, <2>3, <1>7, NetByAccount
  <2> QED  BY <2>4 DEF K
<1>18. Sum(above, A) \in Int /\ Sum(below, A) \in Int
  <2>1. \A a \in A : above[a] \in Int /\ below[a] \in Int  BY <1>15
  <2> QED  BY <2>1, <1>7, SumInt
<1>19. t.Assets - t.Liabilities = t.Net_Worth  BY <1>1, <1>18
<1> QED
  BY <1>1, <1>8, <1>9, <1>10, <1>13, <1>14, <1>16, <1>17, <1>19 DEF A, open, s, t, TotalsAgree

-----------------------------------------------------------------------------
(* Transfers: what leaves one account reaches another, but for loose legs.  *)

AllLegs == Legs(LEG_OUT) \cup Legs(LEG_IN)
Signed(r) == IF r.type = LEG_IN THEN r.amt ELSE -r.amt
SignedLegs == [r \in AllLegs |-> Signed(r)]

LegsClean ==
  /\ IsFiniteSet(AllLegs) /\ \A r \in AllLegs : r.amt \in Int
  /\ \A x, y \in AllLegs : x.id = y.id => x = y

\* Whole movements only.
WholeMovements(W) == \A r \in W : \A x \in AllLegs : Movement(x) = Movement(r) => x \in W
LooseOf(W) == {r \in W : ~Paired(r)}
HalvesOf(v, type) == {x \in Legs(type) : Movement(x) = v}

\* A leg in terms of its movement.
LEMMA LegIs ==
  ASSUME NEW r \in AllLegs
  PROVE  /\ r.type \in {LEG_OUT, LEG_IN}
         /\ Movement(r).m = r.m /\ Movement(r).amt = r.amt
         /\ r.type = LEG_OUT => Movement(r).from = r.acct /\ Movement(r).to = r.to
         /\ r.type = LEG_IN => Movement(r).from = r.to /\ Movement(r).to = r.acct
<1>1. r.type = LEG_OUT \/ r.type = LEG_IN  BY DEF AllLegs, Legs
<1>2. LEG_OUT # LEG_IN  BY DEF LEG_OUT, LEG_IN
<1> HIDE DEF LEG_OUT, LEG_IN
<1>3. Movement(r).m = r.m /\ Movement(r).amt = r.amt  BY DEF Movement
<1>4. CASE r.type = LEG_OUT
  <2>1. Movement(r).from = r.acct /\ Movement(r).to = r.to  BY <1>4 DEF Movement
  <2> QED  BY <1>1, <1>2, <1>3, <1>4, <2>1
<1>5. CASE r.type = LEG_IN
  <2>1. r.type # LEG_OUT  BY <1>2, <1>5
  <2>2. Movement(r).from = r.to /\ Movement(r).to = r.acct  BY <2>1 DEF Movement
  <2> QED  BY <1>1, <1>2, <1>3, <1>5, <2>2
<1> QED  BY <1>1, <1>4, <1>5

\* The legs of a paired movement come to nothing.
LEMMA PairCancels ==
  ASSUME NEW r \in AllLegs, LegsClean, Paired(r)
  PROVE  Sum(SignedLegs, {x \in AllLegs : Movement(x) = Movement(r)}) = 0
<1> DEFINE v == Movement(r)
           O == HalvesOf(v, LEG_OUT)
           I == HalvesOf(v, LEG_IN)
           B == {x \in AllLegs : Movement(x) = v}
           n == Cardinality(O)
           c == r.amt
<1>1. Cardinality(I) = n  BY DEF Paired, HalvesOf
<1>2. O \in SUBSET AllLegs /\ I \in SUBSET AllLegs /\ B \in SUBSET AllLegs  BY DEF HalvesOf, AllLegs
<1>3. O \in SUBSET B /\ B \ O = I
  <2>1. LEG_OUT # LEG_IN  BY DEF LEG_OUT, LEG_IN
  <2> QED  BY <2>1 DEF HalvesOf, AllLegs, Legs
<1>4. /\ \A x \in O : SignedLegs[x] = -c
      /\ \A x \in I : SignedLegs[x] = c
  <2>0. LEG_OUT # LEG_IN  BY DEF LEG_OUT, LEG_IN
  <2>1. v.amt = c  BY LegIs
  <2>2. ASSUME NEW x \in O PROVE SignedLegs[x] = -c
    <3>1. x \in AllLegs /\ Movement(x) = v /\ x.type = LEG_OUT  BY DEF HalvesOf, AllLegs, Legs
    <3>2. Movement(x).amt = x.amt  BY <3>1, LegIs
    <3> QED  BY <2>0, <2>1, <3>1, <3>2 DEF SignedLegs, Signed
  <2>3. ASSUME NEW x \in I PROVE SignedLegs[x] = c
    <3>1. x \in AllLegs /\ Movement(x) = v /\ x.type = LEG_IN  BY DEF HalvesOf, AllLegs, Legs
    <3>2. Movement(x).amt = x.amt  BY <3>1, LegIs
    <3> QED  BY <2>1, <3>1, <3>2 DEF SignedLegs, Signed
  <2> QED  BY <2>2, <2>3
<1>5. IsFiniteSet(AllLegs) /\ c \in Int  BY DEF LegsClean
<1> HIDE DEF O, I, B, v, c
<1>6. IsFiniteSet(O) /\ IsFiniteSet(I) /\ IsFiniteSet(B)  BY <1>2, <1>5, FS_Subset
<1>7. \A x \in B : SignedLegs[x] \in Int
  <2>1. \A x \in B : x \in O \/ x \in I  BY <1>3
  <2>2. c \in Int /\ -c \in Int  BY <1>5
  <2> QED  BY <1>4, <2>1, <2>2
<1>8. Sum(SignedLegs, B) = Sum(SignedLegs, O) + Sum(SignedLegs, I)
  <2>1. IsFiniteSet(B) /\ O \in SUBSET B  BY <1>3, <1>6
  <2>2. Sum(SignedLegs, B) = Sum(SignedLegs, O) + Sum(SignedLegs, B \ O)  BY <1>7, <2>1, SumUnion
  <2> QED  BY <1>3, <2>2
<1>9. Sum(SignedLegs, O) = (-c) * Cardinality(O)
  <2>1. IsFiniteSet(O) /\ -c \in Int  BY <1>5, <1>6
  <2>2. \A x \in O : SignedLegs[x] = -c  BY <1>4
  <2> DEFINE d == -c
  <2> HIDE DEF d
  <2>3. IsFiniteSet(O) /\ d \in Int /\ \A x \in O : SignedLegs[x] = d  BY <2>1, <2>2 DEF d
  <2>4. Sum(SignedLegs, O) = d * Cardinality(O)  BY <2>3, SumConst
  <2> QED  BY <2>4 DEF d
<1>10. Sum(SignedLegs, I) = c * Cardinality(I)
  <2>1. IsFiniteSet(I) /\ c \in Int  BY <1>5, <1>6
  <2>2. \A x \in I : SignedLegs[x] = c  BY <1>4
  <2> QED  BY <2>1, <2>2, SumConst
<1>11. n \in Nat
  <2> HIDE DEF n
  <2> QED  BY <1>6, FS_CardinalityType DEF n
<1> HIDE DEF n
<1>12. \A k \in Nat : (-c) * k + c * k = 0  BY <1>5
<1>13. Sum(SignedLegs, B) = (-c) * n + c * n  BY <1>1, <1>8, <1>9, <1>10 DEF n
<1>14. Sum(SignedLegs, B) = 0  BY <1>11, <1>12, <1>13
<1> QED  BY <1>14 DEF B, v

\* Over whole movements, paired legs cancel and the loose ones remain.
LEMMA LegsCancel ==
  ASSUME NEW W, LegsClean /\ W \in SUBSET AllLegs /\ WholeMovements(W)
  PROVE  Sum(SignedLegs, W) = Sum(SignedLegs, LooseOf(W))
<1> DEFINE T == {r \in W : Paired(r)}
           lab == [r \in T |-> Movement(r)]
           M == ImageOf(lab, T)
           z == [l \in M |-> 0]
           f == SignedLegs
<1>1. T \in SUBSET W /\ W \ T = LooseOf(W) /\ T \in SUBSET AllLegs /\ W \in SUBSET AllLegs
  BY DEF LooseOf
<1>2. IsFiniteSet(AllLegs) /\ \A r \in AllLegs : f[r] \in Int
  <2>1. \A r \in AllLegs : r.amt \in Int /\ -r.amt \in Int  BY DEF LegsClean
  <2> QED  BY <2>1 DEF LegsClean, SignedLegs, Signed
<1>3. \A l \in M : 0 = Sum(f, PartOf(T, lab, l))
  <2> TAKE l \in M
  <2>1. PICK r \in T : l = Movement(r)  BY DEF ImageOf
  <2>2. PartOf(T, lab, l) = {x \in AllLegs : Movement(x) = Movement(r)}
    <3>1. \A x \in AllLegs : Movement(x) = Movement(r) => x \in W  BY DEF WholeMovements
    <3>2. \A x \in AllLegs : Movement(x) = Movement(r) => Paired(x)  BY DEF Paired
    <3>3. \A x \in AllLegs : Movement(x) = Movement(r) => x \in T  BY <3>1, <3>2
    <3> QED  BY <1>1, <2>1, <3>3 DEF PartOf
  <2>3. r \in AllLegs /\ Paired(r)  BY <1>1
  <2>4. Sum(f, {x \in AllLegs : Movement(x) = Movement(r)}) = 0  BY <2>3, PairCancels
  <2> QED  BY <2>2, <2>4
<1>4. \A x \in T : lab[x] \in M  BY DEF ImageOf
<1> HIDE DEF T, lab, f
<1>5. IsFiniteSet(T) /\ IsFiniteSet(W) /\ \A x \in T : f[x] \in Int  BY <1>1, <1>2, FS_Subset
<1>6. IsFiniteSet(M)
  <2>1. M = {lab[x] : x \in T}  BY DEF ImageOf
  <2> HIDE DEF M
  <2> QED  BY <1>5, <2>1, ImageFinite
<1>7. Sum(f, T) = 0
  <2>1. \A l \in M : z[l] = Sum(f, PartOf(T, lab, l))  BY <1>3
  <2>2. \A l \in M : z[l] = 0  OBVIOUS
  <2> HIDE DEF M, z
  <2>3. Sum(z, M) = Sum(f, T)  BY <1>4, <1>5, <1>6, <2>1, SumOfParts
  <2>4. IsFiniteSet(M) /\ 0 \in Int  BY <1>6
  <2>5. Sum(z, M) = 0 * Cardinality(M)  BY <2>2, <2>4, SumConst
  <2>6. Cardinality(M) \in Nat  BY <1>6, FS_CardinalityType
  <2>7. \A k \in Nat : 0 * k = 0  OBVIOUS
  <2> QED  BY <2>3, <2>5, <2>6, <2>7
<1>8. Sum(f, W) = Sum(f, T) + Sum(f, W \ T) /\ Sum(f, W \ T) \in Int
  <2>1. IsFiniteSet(W) /\ T \in SUBSET W  BY <1>1, <1>5
  <2>2. \A x \in W : f[x] \in Int  BY <1>1, <1>2
  <2> QED  BY <2>1, <2>2, SumUnion
<1>9. Sum(f, W) = Sum(f, W \ T)
  <2>1. \A k \in Int : 0 + k = k  OBVIOUS
  <2> QED  BY <1>7, <1>8, <2>1
<1>10. Sum(f, W \ T) = Sum(f, LooseOf(W))
  <2>1. W \ T = LooseOf(W)  BY <1>1
  <2> QED  BY <2>1
<1> QED  BY <1>9, <1>10 DEF f

\* An amount of rows made one to one from terms is the sum of the terms.
LEMMA AmountOfImage ==
  ASSUME NEW f, NEW S, NEW h, IsFiniteSet(S) /\ (\A x \in S : f[x] \in Int),
         \A x, y \in S : h[x] = h[y] => x = y, \A x \in S : h[x].amt = f[x]
  PROVE  Countable(ImageOf(h, S)) /\ Amount(ImageOf(h, S)) = Sum(f, S)
<1> DEFINE R == ImageOf(h, S)
           g == AmtOf(R)
<1>1. \A x \in S : h[x] \in R  BY DEF ImageOf
<1>2. \A x \in S : g[h[x]] = f[x]  BY <1>1 DEF AmtOf
<1>3. \A y \in R : \E x \in S : y = h[x]  BY DEF ImageOf
<1>4. \A y \in R : y.amt \in Int  BY <1>3
<1> HIDE DEF g
<1>5. IsFiniteSet(R) /\ Sum(g, R) = Sum(f, S)
  <2>1. IsFiniteSet(S) /\ \A x \in S : f[x] \in Int  OBVIOUS
  <2> DEFINE Q == R
  <2>2. Q = ImageOf(h, S)  OBVIOUS
  <2> HIDE DEF Q
  <2>3. IsFiniteSet(Q) /\ Sum(g, Q) = Sum(f, S)  BY <1>2, <2>1, <2>2, SumOfImage
  <2> QED  BY <2>3 DEF Q
<1> HIDE DEF R
<1>6. R \in SUBSET R  OBVIOUS
<1>7. Amount(R) = Sum(AmtOf(R), R)  BY <1>4, <1>5, <1>6, AmountIs
<1> QED  BY <1>4, <1>5, <1>7 DEF Countable, R, g

\* The fact a leg becomes, and the row of a loose leg.
FactOfLeg(r, gone) ==
  [acct |-> r.acct, to |-> r.to, m |-> r.m, id |-> r.id,
   amt |-> IF r.type = LEG_OUT THEN -r.amt ELSE r.amt,
   analysed |-> IF r.acct \in InvestmentGroup \ gone THEN r.m - 1 ELSE r.m]
LooseRow(r) ==
  [m |-> r.m, acct |-> r.acct, to |-> r.to, id |-> r.id,
   amt |-> IF r.type = LEG_IN THEN r.amt ELSE -r.amt]
LegFacts(W, gone) == ImageOf([r \in AllLegs |-> FactOfLeg(r, gone)], W)
LooseRows(W) == ImageOf([r \in AllLegs |-> LooseRow(r)], W)

\* The transfer fact of a leg has its accounts, its month and its sign.
LEMMA FactOfLegIs ==
  ASSUME NEW r \in AllLegs, NEW gone
  PROVE  LET f == FactOfLeg(r, gone) IN
         /\ f.acct = r.acct /\ f.to = r.to /\ f.m = r.m /\ f.id = r.id /\ f.amt = Signed(r)
<1>1. r.type \in {LEG_OUT, LEG_IN}  BY LegIs
<1>2. LEG_OUT # LEG_IN  BY DEF LEG_OUT, LEG_IN
<1>3. (IF r.type = LEG_OUT THEN -r.amt ELSE r.amt) = Signed(r)  BY <1>1, <1>2 DEF Signed
<1> QED  BY <1>3, Zenon DEF FactOfLeg

\* So has the row of a loose leg.
LEMMA LooseRowIs ==
  ASSUME NEW r
  PROVE  LET f == LooseRow(r) IN
         /\ f.acct = r.acct /\ f.to = r.to /\ f.m = r.m /\ f.id = r.id /\ f.amt = Signed(r)
BY Zenon DEF LooseRow, Signed

\* A signed amount is whole.
LEMMA SignedIsInt ==
  ASSUME LegsClean PROVE \A r \in AllLegs : SignedLegs[r] \in Int /\ SignedLegs[r] = Signed(r)
<1>1. \A r \in AllLegs : r.amt \in Int /\ -r.amt \in Int  BY DEF LegsClean
<1> QED  BY <1>1 DEF LegsClean, SignedLegs, Signed

\* The facts of a set of legs are worth its signed sum.
LEMMA LegFactsAmount ==
  ASSUME NEW gone, LegsClean
  PROVE  \A W \in SUBSET AllLegs :
           Countable(LegFacts(W, gone)) /\ Amount(LegFacts(W, gone)) = Sum(SignedLegs, W)
<1> SUFFICES ASSUME NEW W \in SUBSET AllLegs
             PROVE  Countable(LegFacts(W, gone)) /\ Amount(LegFacts(W, gone)) = Sum(SignedLegs, W)
  OBVIOUS
<1> DEFINE h == [r \in AllLegs |-> FactOfLeg(r, gone)]
<1>1. \A r \in AllLegs : h[r].id = r.id /\ h[r].amt = Signed(r)  BY FactOfLegIs
<1>2. IsFiniteSet(W) /\ \A r \in W : SignedLegs[r] \in Int
  BY SignedIsInt, FS_Subset DEF LegsClean
<1> HIDE DEF h
<1>3. \A x, y \in W : h[x] = h[y] => x = y  BY <1>1 DEF LegsClean
<1>4. \A x \in W : h[x].amt = SignedLegs[x]  BY <1>1, SignedIsInt
<1>5. Countable(ImageOf(h, W)) /\ Amount(ImageOf(h, W)) = Sum(SignedLegs, W)
  BY <1>2, <1>3, <1>4, AmountOfImage
<1> QED  BY <1>5 DEF h, LegFacts

\* So are the rows of a set of loose legs.
LEMMA LooseRowsAmount ==
  ASSUME LegsClean
  PROVE  \A W \in SUBSET AllLegs :
           Countable(LooseRows(W)) /\ Amount(LooseRows(W)) = Sum(SignedLegs, W)
<1> SUFFICES ASSUME NEW W \in SUBSET AllLegs
             PROVE  Countable(LooseRows(W)) /\ Amount(LooseRows(W)) = Sum(SignedLegs, W)
  OBVIOUS
<1> DEFINE h == [r \in AllLegs |-> LooseRow(r)]
<1>1. \A r \in AllLegs : h[r].id = r.id /\ h[r].amt = Signed(r)  BY LooseRowIs
<1>2. IsFiniteSet(W) /\ \A r \in W : SignedLegs[r] \in Int
  BY SignedIsInt, FS_Subset DEF LegsClean
<1> HIDE DEF h
<1>3. \A x, y \in W : h[x] = h[y] => x = y  BY <1>1 DEF LegsClean
<1>4. \A x \in W : h[x].amt = SignedLegs[x]  BY <1>1, SignedIsInt
<1>5. Countable(ImageOf(h, W)) /\ Amount(ImageOf(h, W)) = Sum(SignedLegs, W)
  BY <1>2, <1>3, <1>4, AmountOfImage
<1> QED  BY <1>5 DEF h, LooseRows

\* The transfer facts are those of all legs, and the loose rows of the loose ones.
LEMMA TransfersAreLegs ==
  ASSUME NEW gone
  PROVE  TransferFacts(journal, gone) = LegFacts(AllLegs, gone) /\ LooseLegs = LooseRows(LooseOf(AllLegs))
<1>1. {x \in ActiveRows(journal) : x.type \in {LEG_OUT, LEG_IN}} = AllLegs  BY DEF AllLegs, Legs
<1>2. TransferFacts(journal, gone) = {FactOfLeg(r, gone) : r \in AllLegs}
  BY <1>1, Zenon DEF TransferFacts, FactOfLeg
<1>3. \A W \in SUBSET AllLegs : LegFacts(W, gone) = {FactOfLeg(r, gone) : r \in W}
  BY DEF LegFacts, ImageOf
<1>4. \A W \in SUBSET AllLegs : LooseRows(W) = {LooseRow(r) : r \in W}
  BY DEF LooseRows, ImageOf
<1>5. LooseOf(AllLegs) = {x \in Legs(LEG_OUT) \cup Legs(LEG_IN) : ~Paired(x)}  BY DEF LooseOf, AllLegs
<1>6. LooseLegs = {LooseRow(r) : r \in LooseOf(AllLegs)}  BY <1>5, Zenon DEF LooseLegs, LooseRow
<1>7. LooseOf(AllLegs) \in SUBSET AllLegs /\ AllLegs \in SUBSET AllLegs  BY DEF LooseOf
<1>8. LegFacts(AllLegs, gone) = {FactOfLeg(r, gone) : r \in AllLegs}  BY <1>3, <1>7
<1>9. LooseRows(LooseOf(AllLegs)) = {LooseRow(r) : r \in LooseOf(AllLegs)}  BY <1>4, <1>7
<1> QED  BY <1>2, <1>6, <1>8, <1>9

\* The facts of whole movements amount to their loose legs.
LEMMA WholeIsLoose ==
  ASSUME NEW W, NEW gone, LegsClean /\ W \in SUBSET AllLegs /\ WholeMovements(W)
  PROVE  /\ Countable(LegFacts(W, gone))
         /\ Amount(LegFacts(W, gone)) = Amount(LooseRows(LooseOf(W)))
<1>1. LooseOf(W) \in SUBSET AllLegs /\ W \in SUBSET AllLegs  BY DEF LooseOf
<1>2. Countable(LegFacts(W, gone)) /\ Amount(LegFacts(W, gone)) = Sum(SignedLegs, W)
  BY <1>1, LegFactsAmount
<1>3. Amount(LooseRows(LooseOf(W))) = Sum(SignedLegs, LooseOf(W))  BY <1>1, LooseRowsAmount
<1>4. Sum(SignedLegs, W) = Sum(SignedLegs, LooseOf(W))  BY LegsCancel
<1> QED  BY <1>2, <1>3, <1>4

\* The transfers of some months, whole accounts, and those between some accounts.
LEMMA TransfersAreLoose ==
  ASSUME NEW gone, NEW K, LegsClean
  PROVE  LET moved == {r \in TransferFacts(journal, gone) : r.m \in K} IN
         Countable(moved) /\ Amount(moved) = Amount({r \in LooseLegs : r.m \in K})
<1> DEFINE W == {r \in AllLegs : r.m \in K}
<1>1. W \in SUBSET AllLegs  OBVIOUS
<1>2. WholeMovements(W)
  <2>1. \A r, x \in AllLegs : Movement(x) = Movement(r) => x.m = r.m  BY LegIs
  <2> QED  BY <2>1 DEF WholeMovements
<1>3. LegFacts(W, gone) = {r \in TransferFacts(journal, gone) : r.m \in K}
  <2>1. \A r \in AllLegs : FactOfLeg(r, gone).m = r.m  BY FactOfLegIs
  <2>2. LegFacts(W, gone) = {FactOfLeg(r, gone) : r \in W}  BY DEF LegFacts, ImageOf
  <2>3. TransferFacts(journal, gone) = {FactOfLeg(r, gone) : r \in AllLegs}
    <3>1. LegFacts(AllLegs, gone) = {FactOfLeg(r, gone) : r \in AllLegs}  BY DEF LegFacts, ImageOf
    <3> QED  BY <3>1, TransfersAreLegs
  <2> QED  BY <2>1, <2>2, <2>3
<1>4. LooseRows(LooseOf(W)) = {r \in LooseLegs : r.m \in K}
  <2>1. \A r \in AllLegs : LooseRow(r).m = r.m  BY LooseRowIs
  <2>2. LooseOf(W) = {r \in LooseOf(AllLegs) : r.m \in K} /\ LooseOf(AllLegs) \in SUBSET AllLegs
    BY DEF LooseOf
  <2>3. LooseRows(LooseOf(W)) = {LooseRow(r) : r \in LooseOf(W)}  BY <2>2 DEF LooseRows, ImageOf
  <2>4. LooseLegs = {LooseRow(r) : r \in LooseOf(AllLegs)}
    <3>1. LooseRows(LooseOf(AllLegs)) = {LooseRow(r) : r \in LooseOf(AllLegs)}
      BY <2>2 DEF LooseRows, ImageOf
    <3> QED  BY <3>1, TransfersAreLegs
  <2> QED  BY <2>1, <2>2, <2>3, <2>4
<1> HIDE DEF W
<1> QED  BY <1>1, <1>2, <1>3, <1>4, WholeIsLoose

Within(S, m, C) == {r \in S : r.m = m /\ r.acct \in C /\ r.to \in C}

\* Between accounts of one pool, a month's transfers amount to the loose legs.
LEMMA TransfersWithin ==
  ASSUME NEW gone, NEW m, NEW C, LegsClean
  PROVE  Amount(Within(TransferFacts(journal, gone), m, C)) = Amount(Within(LooseLegs, m, C))
<1> DEFINE W == {r \in AllLegs : r.m = m /\ r.acct \in C /\ r.to \in C}
<1>1. W \in SUBSET AllLegs  OBVIOUS
<1>2. WholeMovements(W)
  <2> SUFFICES ASSUME NEW r \in W, NEW x \in AllLegs, Movement(x) = Movement(r) PROVE x \in W
    BY DEF WholeMovements
  <2>1. r \in AllLegs /\ r.m = m /\ r.acct \in C /\ r.to \in C  OBVIOUS
  <2>2. Movement(r).m = m /\ Movement(r).from \in C /\ Movement(r).to \in C  BY <2>1, LegIs
  <2>3. x.m = m /\ x.acct \in C /\ x.to \in C  BY <2>2, LegIs
  <2> QED  BY <2>3
<1>3. LegFacts(W, gone) = {r \in TransferFacts(journal, gone) : r.m = m /\ r.acct \in C /\ r.to \in C}
  <2>1. \A r \in AllLegs : LET f == FactOfLeg(r, gone) IN f.m = r.m /\ f.acct = r.acct /\ f.to = r.to
    BY FactOfLegIs
  <2>2. LegFacts(W, gone) = {FactOfLeg(r, gone) : r \in W}  BY DEF LegFacts, ImageOf
  <2>3. TransferFacts(journal, gone) = {FactOfLeg(r, gone) : r \in AllLegs}
    <3>1. LegFacts(AllLegs, gone) = {FactOfLeg(r, gone) : r \in AllLegs}  BY DEF LegFacts, ImageOf
    <3> QED  BY <3>1, TransfersAreLegs
  <2> QED  BY <2>1, <2>2, <2>3
<1>4. LooseRows(LooseOf(W)) = {r \in LooseLegs : r.m = m /\ r.acct \in C /\ r.to \in C}
  <2>1. \A r \in AllLegs : LET f == LooseRow(r) IN f.m = r.m /\ f.acct = r.acct /\ f.to = r.to
    BY LooseRowIs
  <2>2. /\ LooseOf(W) = {r \in LooseOf(AllLegs) : r.m = m /\ r.acct \in C /\ r.to \in C}
        /\ LooseOf(AllLegs) \in SUBSET AllLegs
    BY DEF LooseOf
  <2>3. LooseRows(LooseOf(W)) = {LooseRow(r) : r \in LooseOf(W)}  BY <2>2 DEF LooseRows, ImageOf
  <2>4. LooseLegs = {LooseRow(r) : r \in LooseOf(AllLegs)}
    <3>1. LooseRows(LooseOf(AllLegs)) = {LooseRow(r) : r \in LooseOf(AllLegs)}
      BY <2>2 DEF LooseRows, ImageOf
    <3> QED  BY <3>1, TransfersAreLegs
  <2> QED  BY <2>1, <2>2, <2>3, <2>4
<1>5. LegsClean /\ W \in SUBSET AllLegs /\ WholeMovements(W)  BY <1>1, <1>2
<1> HIDE DEF W
<1>6. Amount(LegFacts(W, gone)) = Amount(LooseRows(LooseOf(W)))  BY <1>5, WholeIsLoose
<1>7. LegFacts(W, gone) = Within(TransferFacts(journal, gone), m, C)  BY <1>3 DEF Within
<1>8. LooseRows(LooseOf(W)) = Within(LooseLegs, m, C)  BY <1>4 DEF Within
<1> QED  BY <1>6, <1>7, <1>8

-----------------------------------------------------------------------------
(* Dates.                                                                   *)

\* Of finitely many numbers one is the greatest, and one the least.
LEMMA HasLatest ==
  ASSUME NEW S, NEW v, IsFiniteSet(S) /\ S # {}, \A x \in S : v[x] \in Int
  PROVE  \E x \in S : \A y \in S : v[y] <= v[x]
<1> DEFINE F == {T \in SUBSET S : T = {} \/ \E x \in T : \A y \in T : v[y] <= v[x]}
<1>1. {} \in F  OBVIOUS
<1>2. ASSUME NEW T \in SUBSET S, T \in F, NEW z \in S \ T PROVE T \cup {z} \in F
  <2>1. CASE T = {}
    <3>1. v[z] \in Int  OBVIOUS
    <3>2. \A y \in T \cup {z} : v[y] <= v[z]  BY <2>1, <3>1
    <3> QED  BY <3>2
  <2>2. CASE T # {}
    <3>1. PICK x \in T : \A y \in T : v[y] <= v[x]  BY <1>2, <2>2
    <3>2. v[x] \in Int /\ v[z] \in Int /\ \A y \in T : v[y] \in Int  OBVIOUS
    <3>3. CASE v[z] <= v[x]
      <4>1. \A y \in T \cup {z} : v[y] <= v[x]  BY <3>1, <3>3
      <4> QED  BY <4>1
    <3>4. CASE ~(v[z] <= v[x])
      <4>1. \A y \in T \cup {z} : v[y] <= v[z]
        <5> TAKE y \in T \cup {z}
        <5>1. CASE y = z  BY <3>2, <5>1
        <5>2. CASE y \in T
          <6>1. v[y] <= v[x] /\ v[y] \in Int  BY <3>1, <3>2, <5>2
          <6> QED  BY <3>2, <3>4, <6>1
        <5> QED  BY <5>1, <5>2
      <4> QED  BY <4>1
    <3> QED  BY <3>3, <3>4
  <2> QED  BY <2>1, <2>2
<1> HIDE DEF F
<1>3. S \in F  BY <1>1, <1>2, SubsetInduct
<1> QED  BY <1>3 DEF F

\* The latest of finitely many dates is one of them.
LEMMA LatestIs ==
  ASSUME NEW S, IsFiniteSet(S) /\ S # {}, S \subseteq Int
  PROVE  Latest(S) \in S /\ \A y \in S : y <= Latest(S)
<1> DEFINE v == [x \in S |-> x]
<1>1. \A x \in S : v[x] \in Int /\ v[x] = x  OBVIOUS
<1> HIDE DEF v
<1>2. \E x \in S : \A y \in S : v[y] <= v[x]  BY <1>1, HasLatest
<1>3. \E x \in S : \A y \in S : y <= x  BY <1>1, <1>2
<1> QED  BY <1>3 DEF Latest

\* So is the earliest.
LEMMA EarliestIs ==
  ASSUME NEW S, IsFiniteSet(S) /\ S # {}, S \subseteq Int
  PROVE  Earliest(S) \in S /\ \A y \in S : Earliest(S) <= y
<1> DEFINE v == [x \in S |-> -x]
<1>1. \A x \in S : v[x] \in Int /\ v[x] = -x  OBVIOUS
<1> HIDE DEF v
<1>2. PICK x \in S : \A y \in S : v[y] <= v[x]  BY <1>1, HasLatest
<1>3. \A y \in S : x <= y
  <2> TAKE y \in S
  <2>1. x \in Int /\ y \in Int /\ -y <= -x  BY <1>1, <1>2
  <2> QED  BY <2>1
<1>4. \E z \in S : \A y \in S : z <= y  BY <1>3
<1> QED  BY <1>4 DEF Earliest

\* The calendar has every date it is made of, and the month of analysis before it.
LEMMA SpineCovers ==
  ASSUME NEW S, IsFiniteSet(S) /\ S \subseteq Int
  PROVE  /\ IsFiniteSet(CalendarSpine(S)) /\ CalendarSpine(S) \subseteq Int
         /\ \A m \in S : m \in CalendarSpine(S) /\ m - 1 \in CalendarSpine(S)
<1>1. CASE S = {}  BY <1>1, FS_EmptySet DEF CalendarSpine
<1>2. CASE S # {}
  <2>1. Latest(S) \in Int /\ \A y \in S : y <= Latest(S)  BY <1>2, LatestIs
  <2>2. Earliest(S) \in Int /\ \A y \in S : Earliest(S) <= y  BY <1>2, EarliestIs
  <2>3. CalendarSpine(S) = (Earliest(S) - 1) .. Latest(S)  BY <1>2 DEF CalendarSpine
  <2> DEFINE a == Earliest(S) - 1
             b == Latest(S)
  <2>4. a \in Int /\ b \in Int /\ \A y \in S : a + 1 <= y /\ y <= b  BY <2>1, <2>2
  <2>5. CalendarSpine(S) = a .. b  BY <2>3
  <2> HIDE DEF a, b
  <2>6. IsFiniteSet(a .. b)  BY <2>4, FS_Interval
  <2>7. \A m \in S : m \in a .. b /\ m - 1 \in a .. b
    <3> TAKE m \in S
    <3>1. m \in Int /\ a + 1 <= m /\ m <= b  BY <2>4
    <3> QED  BY <2>4, <3>1
  <2> QED  BY <2>5, <2>6, <2>7
<1> QED  BY <1>1, <1>2
-----------------------------------------------------------------------------
(* Opening balances.                                                        *)

OpeningsKept ==
  /\ IsFiniteSet(openings) /\ \A o \in openings : o.m \in Nat /\ o.acct \in Accounts
  /\ \A o, p \in openings : o.acct = p.acct /\ o.m = p.m => o = p

\* The opening balance the ledger takes is the latest one.
LEMMA LastIsOpened ==
  ASSUME OpeningsKept
  PROVE  \A a : {o \in LastOpenings(openings) : o.acct = a} = Opened(a)
<1> SUFFICES ASSUME NEW a PROVE {o \in LastOpenings(openings) : o.acct = a} = Opened(a)  OBVIOUS
<1> DEFINE own == {o \in openings : o.acct = a}
           last == CHOOSE o \in own : \A p \in own : o.m >= p.m
           T == {o \in LastOpenings(openings) : o.acct = a}
<1>1. T = {o \in own : \A p \in own : p.m <= o.m}  BY DEF LastOpenings
<1>2. CASE own = {}
  <2>1. Opened(a) = {}  BY <1>2 DEF Opened
  <2> QED  BY <1>1, <1>2, <2>1
<1>3. CASE own # {}
  <2>1. Opened(a) = {last}  BY <1>3 DEF Opened
  <2>2. IsFiniteSet(own) /\ \A o \in own : o.m \in Int  BY FS_Subset DEF OpeningsKept
  <2>3. \A o, p \in own : o.m = p.m => o = p  BY DEF OpeningsKept
  <2> HIDE DEF own
  <2>4. \E o \in own : \A p \in own : o.m >= p.m
    <3> DEFINE v == [o \in own |-> o.m]
    <3>1. \A o \in own : v[o] = o.m /\ v[o] \in Int  BY <2>2
    <3> HIDE DEF v
    <3>2. PICK x \in own : \A y \in own : v[y] <= v[x]  BY <1>3, <2>2, <3>1, HasLatest
    <3>3. \A p \in own : x.m >= p.m
      <4> TAKE p \in own
      <4>1. v[p] <= v[x] /\ v[p] = p.m /\ v[x] = x.m /\ p.m \in Int /\ x.m \in Int  BY <2>2, <3>1, <3>2
      <4> QED  BY <4>1
    <3> QED  BY <3>3
  <2>5. last \in own /\ \A p \in own : last.m >= p.m  BY <2>4
  <2> HIDE DEF last
  <2>6. \A o \in own : (\A p \in own : p.m <= o.m) => o = last
    <3> SUFFICES ASSUME NEW o \in own, \A p \in own : p.m <= o.m PROVE o = last  OBVIOUS
    <3>1. last.m <= o.m /\ last.m >= o.m /\ last.m \in Int /\ o.m \in Int  BY <2>2, <2>5
    <3>2. last.m = o.m  BY <3>1
    <3> QED  BY <2>3, <2>5, <3>2
  <2>7. \A p \in own : p.m <= last.m
    <3> TAKE p \in own
    <3>1. last.m >= p.m /\ last.m \in Int /\ p.m \in Int  BY <2>2, <2>5
    <3> QED  BY <3>1
  <2>8. {o \in own : \A p \in own : p.m <= o.m} = {last}  BY <2>5, <2>6, <2>7
  <2> HIDE DEF T
  <2>9. T = Opened(a)  BY <1>1, <2>1, <2>8
  <2> QED  BY <2>9 DEF T
<1> QED  BY <1>2, <1>3

\* The opening balances of a set of accounts are those the ledger takes.
LEMMA OpenedRows ==
  ASSUME OpeningsKept, NEW C
  PROVE  UNION {Opened(a) : a \in C} = {o \in LastOpenings(openings) : o.acct \in C}
<1> DEFINE T(a) == {o \in LastOpenings(openings) : o.acct = a}
<1>1. \A a : T(a) = Opened(a)  BY LastIsOpened
<1> HIDE DEF T
<1>2. UNION {Opened(a) : a \in C} = UNION {T(a) : a \in C}  BY <1>1
<1>3. UNION {T(a) : a \in C} = {o \in LastOpenings(openings) : o.acct \in C}  BY DEF T
<1> QED  BY <1>2, <1>3

-----------------------------------------------------------------------------
(* Trades and what they are added up to.                                    *)

LEMMA SumScaled ==
  ASSUME NEW f, NEW g, NEW S, NEW c, IsFiniteSet(S) /\ c \in Int,
         \A x \in S : f[x] \in Int /\ g[x] = f[x] * c
  PROVE  Sum(g, S) = Sum(f, S) * c
<1> DEFINE F == {T \in SUBSET S : Sum(g, T) = Sum(f, T) * c}
<1>0. \A a, b \in Int : a * b \in Int  OBVIOUS
<1>1. {} \in F
  <2>1. Sum(f, {}) = 0 /\ Sum(g, {}) = 0  BY SumNone
  <2>2. 0 * c = 0  OBVIOUS
  <2> QED  BY <2>1, <2>2
<1>2. ASSUME NEW T \in SUBSET S, T \in F, NEW x \in S \ T PROVE T \cup {x} \in F
  <2>1. IsFiniteSet(T)  BY FS_Subset
  <2>2. \A y \in T : f[y] \in Int /\ g[y] \in Int  BY <1>0
  <2>3. f[x] \in Int /\ g[x] \in Int /\ g[x] = f[x] * c /\ x \notin T  BY <1>0
  <2>4. \A y \in T : f[y] \in Int  BY <2>2
  <2>5. \A y \in T : g[y] \in Int  BY <2>2
  <2>6. f[x] \in Int  BY <2>3
  <2>7. g[x] \in Int  BY <2>3
  <2>8. Sum(f, T \cup {x}) = Sum(f, T) + f[x]  BY <2>1, <2>3, <2>4, <2>6, SumAdd
  <2>9. Sum(g, T \cup {x}) = Sum(g, T) + g[x]  BY <2>1, <2>3, <2>5, <2>7, SumAdd
  <2>10. Sum(f, T) \in Int  BY <2>1, <2>4, SumInt
  <2>11. Sum(g, T) = Sum(f, T) * c  BY <1>2
  <2>12. \A a, b \in Int : (a + b) * c = a * c + b * c  OBVIOUS
  <2>13. (Sum(f, T) + f[x]) * c = Sum(f, T) * c + f[x] * c  BY <2>6, <2>10, <2>12
  <2>14. Sum(g, T \cup {x}) = Sum(f, T \cup {x}) * c  BY <2>3, <2>8, <2>9, <2>11, <2>13
  <2> QED  BY <2>14
<1> HIDE DEF F
<1>3. IsFiniteSet(S)  OBVIOUS
<1>4. S \in F  BY <1>1, <1>2, <1>3, SubsetInduct
<1> QED  BY <1>4 DEF F

\* The fields of a trade.
TradeShape(t) ==
  t = [isin |-> t.isin, name |-> t.name, m |-> t.m, units |-> t.units, price |-> t.price,
       local |-> t.local, rate |-> t.rate, ccy |-> t.ccy, art |-> t.art, id |-> t.id]

\* Trades of one kind: all but the units and the place in the file.
TradeKind(t) == [t EXCEPT !.units = 0, !.id = 0]
WithUnits(t, u) == [t EXCEPT !.units = u]
Alike(s, t) ==
  /\ s.isin = t.isin /\ s.name = t.name /\ s.m = t.m /\ s.price = t.price /\ s.local = t.local
  /\ s.rate = t.rate /\ s.ccy = t.ccy /\ s.art = t.art

\* The kind of a trade is the trade without units and place.
LEMMA TradeKindIs ==
  ASSUME NEW t, TradeShape(t)
  PROVE  LET k == TradeKind(t) IN TradeShape(k) /\ Alike(k, t) /\ k.units = 0 /\ k.id = 0
<1> DEFINE e == [isin |-> t.isin, name |-> t.name, m |-> t.m, units |-> 0, price |-> t.price,
       local |-> t.local, rate |-> t.rate, ccy |-> t.ccy, art |-> t.art, id |-> 0]
<1> DEFINE d == [t EXCEPT !.units = 0]
           c == [isin |-> t.isin, name |-> t.name, m |-> t.m, units |-> 0, price |-> t.price,
                 local |-> t.local, rate |-> t.rate, ccy |-> t.ccy, art |-> t.art, id |-> t.id]
<1>0. d = c  BY DEF TradeShape
<1>1. TradeKind(t) = e
  <2>1. TradeKind(t) = [d EXCEPT !.id = 0]  BY Zenon DEF TradeKind
  <2>2. [c EXCEPT !.id = 0] = e  OBVIOUS
  <2> QED  BY <1>0, <2>1, <2>2, Zenon
<1>2. TradeShape(e)  BY DEF TradeShape
<1>3. Alike(e, t) /\ e.units = 0 /\ e.id = 0  BY DEF Alike
<1> QED  BY <1>1, <1>2, <1>3

\* A kind with units is a trade like it.
LEMMA WithUnitsIs ==
  ASSUME NEW t, NEW u, TradeShape(t)
  PROVE  LET k == WithUnits(t, u) IN TradeShape(k) /\ Alike(k, t) /\ k.units = u /\ k.id = t.id
<1> DEFINE e == [isin |-> t.isin, name |-> t.name, m |-> t.m, units |-> u, price |-> t.price,
       local |-> t.local, rate |-> t.rate, ccy |-> t.ccy, art |-> t.art, id |-> t.id]
<1>1. WithUnits(t, u) = e  BY DEF WithUnits, TradeShape
<1>2. TradeShape(e)  BY DEF TradeShape
<1>3. Alike(e, t) /\ e.units = u /\ e.id = t.id  BY DEF Alike
<1> QED  BY <1>1, <1>2, <1>3

\* Trades that agree in every column are equal.
LEMMA SameTrade ==
  ASSUME NEW s, NEW t, TradeShape(s) /\ TradeShape(t), Alike(s, t) /\ s.units = t.units /\ s.id = t.id
  PROVE  s = t
BY Zenon DEF TradeShape, Alike

TradesKept(T) ==
  /\ IsFiniteSet(T)
  /\ \A t \in T : TradeShape(t) /\ t.units \in Int /\ t.price \in Int /\ t.m \in Int

\* What the trades of a month come to.
Worths(T) == [t \in T |-> t.units * t.price]
WorthIn(T, m) == Sum(Worths(T), In(T, m))

\* A trade is worth units times price, which is whole.
LEMMA WorthsAre ==
  ASSUME NEW T, TradesKept(T)
  PROVE  \A t \in T : Worths(T)[t] \in Int /\ Worths(T)[t] = t.units * t.price
<1>1. \A a, b \in Int : a * b \in Int  OBVIOUS
<1> QED  BY <1>1 DEF Worths, TradesKept

KindsOf(T) == {TradeKind(t) : t \in T}
OfTheKind(T, k) == {t \in T : TradeKind(t) = k}
UnitsOf(T, k) == Sum([t \in OfTheKind(T, k) |-> t.units], OfTheKind(T, k))
Together(T, k) == WithUnits(k, UnitsOf(T, k))

\* The reference has one row for each kind of trade.
LEMMA RefRows ==
  ASSUME NEW T PROVE PurchaseRef(T) = {Together(T, k) : k \in KindsOf(T)}
BY Zenon DEF PurchaseRef, Together, WithUnits, UnitsOf, OfTheKind, KindsOf, TradeKind, Total, Sum

\* The trades of a kind come to their units at their price.
LEMMA KindWorth ==
  ASSUME NEW T, NEW s, TradesKept(T) /\ s \in T
  PROVE  LET k == TradeKind(s) IN
         /\ UnitsOf(T, k) \in Int /\ k.price = s.price
         /\ Sum(Worths(T), OfTheKind(T, k)) = UnitsOf(T, k) * k.price
<1> DEFINE k == TradeKind(s)
           P == OfTheKind(T, k)
           u == [t \in P |-> t.units]
           c == s.price
<1>1. \A t \in T : TradeShape(t) /\ t.units \in Int /\ t.price \in Int  BY DEF TradesKept
<1>2. P \in SUBSET T  BY DEF OfTheKind
<1>3. \A t \in P : TradeKind(t) = k  BY DEF OfTheKind
<1>4. \A t \in T : TradeKind(t).price = t.price  BY <1>1, TradeKindIs DEF Alike
<1>5. k.price = c /\ \A t \in P : t.price = c
  <2>1. k.price = c  BY <1>4
  <2> HIDE DEF P, k, c
  <2>2. \A t \in P : t.price = c  BY <1>2, <1>3, <1>4, <2>1
  <2> QED  BY <2>1, <2>2
<1>6. c \in Int  BY <1>1
<1> HIDE DEF P, k, c
<1>7. IsFiniteSet(P)  BY <1>2, FS_Subset DEF TradesKept
<1>8. \A t \in P : u[t] = t.units /\ u[t] \in Int  BY <1>1, <1>2
<1> HIDE DEF u
<1>9. \A t \in P : Worths(T)[t] = u[t] * c  BY <1>2, <1>5, <1>8 DEF Worths
<1>10. \A t \in P : u[t] \in Int /\ Worths(T)[t] = u[t] * c  BY <1>8, <1>9
<1>11. IsFiniteSet(P) /\ c \in Int  BY <1>6, <1>7
<1>12. Sum(Worths(T), P) = Sum(u, P) * c  BY <1>10, <1>11, SumScaled
<1>13. \A t \in P : u[t] \in Int  BY <1>8
<1>14. Sum(u, P) \in Int  BY <1>7, <1>13, SumInt
<1>15. UnitsOf(T, k) = Sum(u, P)  BY DEF UnitsOf, u, P
<1>16. Sum(Worths(T), P) = UnitsOf(T, k) * k.price  BY <1>5, <1>12, <1>15
<1> QED  BY <1>5, <1>14, <1>15, <1>16 DEF P, k, c

RefAgrees(T) ==
  /\ TradesKept(PurchaseRef(T))
  /\ \A r \in PurchaseRef(T) : r.id = 0 /\ \E t \in T : Alike(r, t)
  /\ \A m : WorthIn(PurchaseRef(T), m) = WorthIn(T, m)

\* A reference is worth, month by month, what its trades are.
LEMMA RefIs ==
  ASSUME NEW T, TradesKept(T) PROVE RefAgrees(T)
<1> DEFINE R == PurchaseRef(T)
<1>1. R = {Together(T, k) : k \in KindsOf(T)}  BY RefRows
<1>2. \A t \in T : TradeShape(t) /\ t.units \in Int /\ t.price \in Int /\ t.m \in Int  BY DEF TradesKept
<1>3. \A t \in T : LET k == TradeKind(t) IN TradeShape(k) /\ Alike(k, t) /\ k.units = 0 /\ k.id = 0
  BY <1>2, TradeKindIs
<1>4. \A t \in T : LET r == Together(T, TradeKind(t)) IN
                   TradeShape(r) /\ Alike(r, TradeKind(t)) /\ r.units = UnitsOf(T, TradeKind(t)) /\ r.id = 0
  BY <1>3, WithUnitsIs DEF Together
<1>5. \A t \in T : Alike(Together(T, TradeKind(t)), t)  BY <1>3, <1>4 DEF Alike
<1>6. \A t \in T : UnitsOf(T, TradeKind(t)) \in Int  BY KindWorth
<1>7. \A r \in R : \E t \in T : r = Together(T, TradeKind(t))  BY <1>1 DEF KindsOf
<1>8. \A t \in T : Together(T, TradeKind(t)) \in R  BY <1>1 DEF KindsOf
<1>9. IsFiniteSet(R)
  <2> DEFINE h == [t \in T |-> Together(T, TradeKind(t))]
  <2>1. R = {h[t] : t \in T}  BY <1>7, <1>8
  <2>2. IsFiniteSet(T)  BY DEF TradesKept
  <2> HIDE DEF R, h
  <2> QED  BY <2>1, <2>2, ImageFinite
<1> HIDE DEF R
<1>10. \A r \in R : TradeShape(r) /\ r.units \in Int /\ r.price \in Int /\ r.m \in Int /\ r.id = 0
                    /\ \E t \in T : Alike(r, t)
  <2> TAKE r \in R
  <2>1. PICK t \in T : r = Together(T, TradeKind(t))  BY <1>7
  <2>2. TradeShape(r) /\ r.units = UnitsOf(T, TradeKind(t)) /\ r.id = 0  BY <1>4, <2>1
  <2>3. Alike(r, t)  BY <1>5, <2>1
  <2>4. r.price = t.price /\ r.m = t.m  BY <2>3 DEF Alike
  <2> QED  BY <1>2, <1>6, <2>2, <2>3, <2>4
<1>11. TradesKept(R)  BY <1>9, <1>10 DEF TradesKept
<1>12. ASSUME NEW m PROVE WorthIn(R, m) = WorthIn(T, m)
  <2> DEFINE Tm == In(T, m)
             lab == [t \in Tm |-> TradeKind(t)]
             L == ImageOf(lab, Tm)
             p == [k \in L |-> Together(T, k)]
             g == [k \in L |-> Sum(Worths(T), PartOf(Tm, lab, k))]
  <2>1. Tm \in SUBSET T /\ \A t \in T : t \in Tm <=> t.m = m  BY DEF In
  <2>2. IsFiniteSet(Tm)  BY <2>1, FS_Subset DEF TradesKept
  <2>3. \A t \in Tm : Worths(T)[t] \in Int  BY <2>1, WorthsAre
  <2>4. \A t \in Tm : lab[t] = TradeKind(t) /\ lab[t] \in L  BY DEF ImageOf
  <2>5. \A k \in L : \E t \in Tm : k = TradeKind(t)  BY DEF ImageOf
  <2>6. IsFiniteSet(L)
    <3>1. L = {lab[t] : t \in Tm}  BY DEF ImageOf
    <3> HIDE DEF L, lab, Tm
    <3> QED  BY <2>2, <3>1, ImageFinite
  <2>7. \A k \in L : g[k] = Sum(Worths(T), PartOf(Tm, lab, k)) /\ p[k] = Together(T, k)  OBVIOUS
  <2>8. \A k \in L : PartOf(Tm, lab, k) = OfTheKind(T, k)
    <3> SUFFICES ASSUME NEW t \in Tm, NEW k \in L, k = TradeKind(t)
                 PROVE  PartOf(Tm, lab, k) = OfTheKind(T, k)
      BY <2>5
    <3>1. \A x \in T : TradeKind(x).m = x.m  BY <1>3 DEF Alike
    <3>2. \A x \in T : TradeKind(x) = k => x \in Tm  BY <2>1, <3>1
    <3> HIDE DEF Tm, lab, L, p, g
    <3> QED  BY <2>1, <2>4, <3>2 DEF PartOf, OfTheKind
  <2> HIDE DEF Tm, lab, L, p, g
  <2>9. Sum(g, L) = Sum(Worths(T), Tm)
    <3>1. \A k \in L : g[k] = Sum(Worths(T), PartOf(Tm, lab, k))  BY <2>7
    <3>2. \A t \in Tm : lab[t] \in L  BY <2>4
    <3> QED  BY <2>2, <2>3, <2>6, <3>1, <3>2, SumOfParts
  <2>10. \A k \in L : /\ TradeShape(p[k]) /\ Alike(p[k], k) /\ p[k] \in R /\ p[k].m = m
                      /\ TradeShape(k) /\ k.units = 0 /\ k.id = 0
                      /\ g[k] = p[k].units * p[k].price
    <3> TAKE k \in L
    <3>1. PICK t \in Tm : k = TradeKind(t)  BY <2>5
    <3>2. t \in T /\ t.m = m  BY <2>1
    <3>3. p[k] = Together(T, TradeKind(t))  BY <2>7, <3>1
    <3>4. TradeShape(k) /\ Alike(k, t) /\ k.units = 0 /\ k.id = 0  BY <1>3, <3>1, <3>2
    <3>5. TradeShape(p[k]) /\ Alike(p[k], k) /\ p[k].units = UnitsOf(T, k)  BY <1>4, <3>1, <3>2, <3>3
    <3>6. p[k] \in R  BY <1>8, <3>2, <3>3
    <3>7. p[k].m = m /\ p[k].price = k.price  BY <3>2, <3>4, <3>5 DEF Alike
    <3>8. g[k] = UnitsOf(T, k) * k.price
      <4>1. g[k] = Sum(Worths(T), OfTheKind(T, k))  BY <2>7, <2>8
      <4>2. TradesKept(T) /\ t \in T  BY <3>2
      <4>3. Sum(Worths(T), OfTheKind(T, k)) = UnitsOf(T, k) * k.price  BY <3>1, <4>2, KindWorth
      <4> QED  BY <4>1, <4>3
    <3> QED  BY <3>4, <3>5, <3>6, <3>7, <3>8
  <2>11. \A k, l \in L : p[k] = p[l] => k = l
    <3> SUFFICES ASSUME NEW k \in L, NEW l \in L, p[k] = p[l] PROVE k = l  OBVIOUS
    <3>1. Alike(k, l)  BY <2>10 DEF Alike
    <3>2. TradeShape(k) /\ TradeShape(l)  BY <2>10
    <3>3. Alike(k, l) /\ k.units = l.units /\ k.id = l.id  BY <2>10, <3>1
    <3> QED  BY <3>2, <3>3, SameTrade
  <2> DEFINE Rm == In(R, m)
  <2>12. Rm = ImageOf(p, L)
    <3>1. \A k \in L : p[k] \in Rm  BY <2>10 DEF In
    <3>2. \A r \in Rm : \E k \in L : r = p[k]
      <4> TAKE r \in Rm
      <4>1. r \in R /\ r.m = m  BY DEF In
      <4>2. PICK t \in T : r = Together(T, TradeKind(t))  BY <1>7, <4>1
      <4>3. r.m = t.m  BY <1>5, <4>2 DEF Alike
      <4>4. t \in Tm  BY <2>1, <4>1, <4>3
      <4>5. TradeKind(t) \in L  BY <2>4, <4>4
      <4>6. p[TradeKind(t)] = Together(T, TradeKind(t))  BY <2>7, <4>5
      <4> QED  BY <4>2, <4>5, <4>6
    <3> HIDE DEF Rm
    <3> QED  BY <3>1, <3>2 DEF ImageOf
  <2>13. \A k \in L : Worths(R)[p[k]] = g[k] /\ g[k] \in Int
    <3> TAKE k \in L
    <3>1. p[k] \in R /\ g[k] = p[k].units * p[k].price  BY <2>10
    <3>2. Worths(R)[p[k]] = p[k].units * p[k].price /\ Worths(R)[p[k]] \in Int  BY <1>11, <3>1, WorthsAre
    <3> QED  BY <3>1, <3>2
  <2> HIDE DEF Rm
  <2>14. \A k \in L : g[k] \in Int  BY <2>13
  <2>15. \A k \in L : Worths(R)[p[k]] = g[k]  BY <2>13
  <2>16. Sum(Worths(R), Rm) = Sum(g, L)  BY <2>6, <2>11, <2>12, <2>14, <2>15, SumOfImage
  <2> QED  BY <2>9, <2>16 DEF WorthIn, Rm, Tm
<1> QED  BY <1>10, <1>11, <1>12 DEF RefAgrees, R

-----------------------------------------------------------------------------
(* From the orders of a broker to its trades.                               *)

Chosen(rows, type) == {x \in Listed(rows) : x.type = type}
FundName(r) == Lookup(SchemeMap, r.name, r.name)
FundTrade(r) == Trade(Lookup(FundIsin, FundName(r), Blank), FundName(r), r, r.nav)
StockTrade(r) == Trade(r.isin, r.name, r, PerUnit(r.value, r.units))
UsTrade(r) ==
  [StockTrade(r) EXCEPT !.local = PerUnit(r.amount, r.units), !.rate = r.rate, !.ccy = r.ccy]

\* What was paid, or came in, by the orders of a type and month.
FundPaid(rows, type, m) == Total(LAMBDA r : r.units * r.nav, {r \in Listed(rows) : r.m = m /\ r.type = type})
ValuePaid(rows, type, m) == Total(LAMBDA r : r.value, {r \in Listed(rows) : r.m = m /\ r.type = type})

\* The trades of a broker are made order by order.
LEMMA TradesOfOrders ==
  ASSUME NEW rows, NEW type
  PROVE  /\ FundTrades(rows, type) = {FundTrade(r) : r \in Chosen(rows, type)}
         /\ StockTrades(rows, type) = {StockTrade(r) : r \in Chosen(rows, type)}
         /\ UsTrades(rows, type) = {UsTrade(r) : r \in Chosen(rows, type)}
<1>1. FundTrades(rows, type) = {FundTrade(r) : r \in Chosen(rows, type)}
  BY Zenon DEF FundTrades, FundTrade, FundName, FundOrders, Chosen
<1>2. StockTrades(rows, type) = {StockTrade(r) : r \in Chosen(rows, type)}
  BY Zenon DEF StockTrades, StockTrade, StockOrders, Chosen
<1>3. UsTrades(rows, type) = {UsTrade(r) : r \in Chosen(rows, type)}
  BY Zenon DEF UsTrades, UsTrade, StockTrade, UsOrders, Chosen
<1> QED  BY <1>1, <1>2, <1>3

\* A trade carries the order it is made of.
Carries(t, r) ==
  TradeShape(t) /\ t.m = r.m /\ t.units = r.units /\ t.art = r.art /\ t.id = r.id

\* The columns of a trade.
LEMMA TradeIs ==
  ASSUME NEW isin, NEW name, NEW r, NEW price
  PROVE  LET t == Trade(isin, name, r, price) IN
         /\ Carries(t, r) /\ t.isin = isin /\ t.name = name /\ t.price = price
         /\ t.local = Blank /\ t.rate = Blank /\ t.ccy = Blank
BY DEF Trade, Carries, TradeShape

\* The columns of a fund's trade: its price is the NAV.
LEMMA FundTradeIs ==
  ASSUME NEW r
  PROVE  LET t == FundTrade(r) IN
         /\ Carries(t, r) /\ t.name = FundName(r) /\ t.isin = Lookup(FundIsin, t.name, Blank)
         /\ t.price = r.nav /\ t.local = Blank /\ t.rate = Blank /\ t.ccy = Blank
BY TradeIs DEF FundTrade

\* The columns of a stock's trade: its price is the value per unit.
LEMMA StockTradeIs ==
  ASSUME NEW r
  PROVE  LET t == StockTrade(r) IN
         /\ Carries(t, r) /\ t.name = r.name /\ t.isin = r.isin
         /\ t.price = PerUnit(r.value, r.units)
         /\ t.local = Blank /\ t.rate = Blank /\ t.ccy = Blank
BY TradeIs DEF StockTrade

\* The columns of a US stock's trade, which has a local price as well.
LEMMA UsTradeIs ==
  ASSUME NEW r
  PROVE  LET t == UsTrade(r) IN
         /\ Carries(t, r) /\ t.name = r.name /\ t.isin = r.isin
         /\ t.price = PerUnit(r.value, r.units)
         /\ t.local = PerUnit(r.amount, r.units) /\ t.rate = r.rate /\ t.ccy = r.ccy
<1> DEFINE price == PerUnit(r.value, r.units)
           local == PerUnit(r.amount, r.units)
           a == [isin |-> r.isin, name |-> r.name, m |-> r.m, units |-> r.units, price |-> price,
                 local |-> Blank, rate |-> Blank, ccy |-> Blank, art |-> r.art, id |-> r.id]
           b == [isin |-> r.isin, name |-> r.name, m |-> r.m, units |-> r.units, price |-> price,
                 local |-> local, rate |-> Blank, ccy |-> Blank, art |-> r.art, id |-> r.id]
           c == [isin |-> r.isin, name |-> r.name, m |-> r.m, units |-> r.units, price |-> price,
                 local |-> local, rate |-> r.rate, ccy |-> Blank, art |-> r.art, id |-> r.id]
           d == [isin |-> r.isin, name |-> r.name, m |-> r.m, units |-> r.units, price |-> price,
                 local |-> local, rate |-> r.rate, ccy |-> r.ccy, art |-> r.art, id |-> r.id]
<1>1. StockTrade(r) = a  BY DEF StockTrade, Trade
<1> HIDE DEF price, local
<1>2. [a EXCEPT !.local = local] = b  OBVIOUS
<1>3. [b EXCEPT !.rate = r.rate] = c  OBVIOUS
<1>4. [c EXCEPT !.ccy = r.ccy] = d  OBVIOUS
<1> DEFINE e == [StockTrade(r) EXCEPT !.local = local]
           f == [e EXCEPT !.rate = r.rate]
<1>5. UsTrade(r) = [f EXCEPT !.ccy = r.ccy]  BY Zenon DEF UsTrade, local
<1>6. e = b  BY <1>1, <1>2, Zenon
<1>7. f = c  BY <1>3, <1>6, Zenon
<1>8. UsTrade(r) = d  BY <1>4, <1>5, <1>7, Zenon
<1>9. /\ Carries(d, r) /\ d.name = r.name /\ d.isin = r.isin /\ d.price = price
      /\ d.local = local /\ d.rate = r.rate /\ d.ccy = r.ccy
  BY DEF Carries, TradeShape
<1> HIDE DEF d
<1>10. /\ Carries(UsTrade(r), r) /\ UsTrade(r).name = r.name /\ UsTrade(r).isin = r.isin
       /\ UsTrade(r).price = price
       /\ UsTrade(r).local = local /\ UsTrade(r).rate = r.rate /\ UsTrade(r).ccy = r.ccy
  BY <1>8, <1>9, Zenon
<1> QED  BY <1>10 DEF price, local

\* Trades carry their orders, and come to what the orders come to.
LEMMA TradesCarry ==
  ASSUME NEW O, NEW h, NEW w, OrdersKept(O),
         \A r \in O : /\ Carries(h[r], r) /\ h[r].price \in Int /\ r.m \in Int /\ r.units \in Int
                      /\ w[r] \in Int /\ w[r] = r.units * h[r].price
  PROVE  /\ TradesKept(ImageOf(h, O))
         /\ \A m : WorthIn(ImageOf(h, O), m) = Sum(w, In(O, m))
<1> DEFINE T == ImageOf(h, O)
<1>1. IsFiniteSet(O) /\ \A r, s \in O : r.art = s.art /\ r.id = s.id => r = s  BY DEF OrdersKept
<1>2. \A r, s \in O : h[r] = h[s] => r = s
  <2> SUFFICES ASSUME NEW r \in O, NEW s \in O, h[r] = h[s] PROVE r = s  OBVIOUS
  <2>1. h[r].art = r.art /\ h[r].id = r.id /\ h[s].art = s.art /\ h[s].id = s.id  BY DEF Carries
  <2> QED  BY <1>1, <2>1
<1>3. \A t \in T : \E r \in O : t = h[r]  BY DEF ImageOf
<1>4. \A r \in O : h[r] \in T  BY DEF ImageOf
<1>5. IsFiniteSet(T)
  <2>1. T = {h[r] : r \in O}  BY DEF ImageOf
  <2> HIDE DEF T
  <2> QED  BY <1>1, <2>1, ImageFinite
<1> HIDE DEF T
<1>6. \A t \in T : TradeShape(t) /\ t.units \in Int /\ t.price \in Int /\ t.m \in Int
  <2> TAKE t \in T
  <2>1. PICK r \in O : t = h[r]  BY <1>3
  <2>2. Carries(t, r) /\ t.price \in Int /\ r.m \in Int /\ r.units \in Int  BY <2>1
  <2> QED  BY <2>2 DEF Carries
<1>7. TradesKept(T)  BY <1>5, <1>6 DEF TradesKept
<1>8. ASSUME NEW m PROVE WorthIn(T, m) = Sum(w, In(O, m))
  <2> DEFINE S == In(O, m)
             R == In(T, m)
  <2>1. S \in SUBSET O /\ \A r \in O : r \in S <=> r.m = m  BY DEF In
  <2>2. IsFiniteSet(S)  BY <1>1, <2>1, FS_Subset
  <2>3. \A r \in S : w[r] \in Int  BY <2>1
  <2>4. \A r, s \in S : h[r] = h[s] => r = s  BY <1>2, <2>1
  <2>5. \A r \in O : h[r].m = r.m  BY DEF Carries
  <2>6. R = ImageOf(h, S)
    <3>1. \A r \in S : h[r] \in R  BY <1>4, <2>1, <2>5 DEF In
    <3>2. \A t \in R : \E r \in S : t = h[r]  BY <1>3, <2>1, <2>5 DEF In
    <3> HIDE DEF R, S
    <3> QED  BY <3>1, <3>2 DEF ImageOf
  <2>7. \A r \in S : Worths(T)[h[r]] = w[r]
    <3> TAKE r \in S
    <3>1. r \in O /\ h[r] \in T  BY <1>4, <2>1
    <3>2. Worths(T)[h[r]] = h[r].units * h[r].price  BY <1>7, <3>1, WorthsAre
    <3>3. h[r].units = r.units /\ w[r] = r.units * h[r].price  BY <3>1 DEF Carries
    <3> QED  BY <3>2, <3>3
  <2> HIDE DEF S, R
  <2>8. Sum(Worths(T), R) = Sum(w, S)  BY <2>2, <2>3, <2>4, <2>6, <2>7, SumOfImage
  <2> QED  BY <2>8 DEF S, R, WorthIn
<1> QED  BY <1>7, <1>8 DEF T

\* A value per unit is whole.
LEMMA PerUnitIsInt ==
  ASSUME NEW v \in Int, NEW u \in Nat PROVE PerUnit(v, u) \in Int
<1>1. CASE u = 0  BY <1>1 DEF PerUnit
<1>2. CASE u # 0  BY <1>2 DEF PerUnit
<1> QED  BY <1>1, <1>2

\* What tells where a row comes from.
FundRow(t, orders) ==
  /\ t.local = Blank /\ t.rate = Blank /\ t.ccy = Blank
  /\ t.isin = Lookup(FundIsin, t.name, Blank) /\ \E r \in orders : t.art = r.art
StockRow(t, orders) ==
  /\ t.local = Blank /\ t.rate = Blank /\ t.ccy = Blank
  /\ \E r \in orders : t.art = r.art /\ t.isin = r.isin /\ t.name = r.name
UsRow(t, orders) ==
  /\ t.local # Blank /\ t.rate # Blank
  /\ \E r \in orders : t.art = r.art /\ t.isin = r.isin /\ t.name = r.name /\ t.ccy = r.ccy

\* The orders of one type are orders as they came, and no others.
LEMMA ChosenKept ==
  ASSUME NEW rows, NEW type, OrdersKept(rows)
  PROVE  /\ Chosen(rows, type) \in SUBSET Listed(rows) /\ Listed(rows) \in SUBSET rows
         /\ OrdersKept(Chosen(rows, type))
         /\ \A m : {r \in Listed(rows) : r.m = m /\ r.type = type} = In(Chosen(rows, type), m)
<1>1. Chosen(rows, type) \in SUBSET Listed(rows) /\ Listed(rows) \in SUBSET rows
  BY DEF Chosen, Listed
<1>2. IsFiniteSet(Chosen(rows, type))  BY <1>1, FS_Subset DEF OrdersKept
<1>3. OrdersKept(Chosen(rows, type))  BY <1>1, <1>2 DEF OrdersKept
<1>4. \A m : {r \in Listed(rows) : r.m = m /\ r.type = type} = In(Chosen(rows, type), m)
  BY DEF In, Chosen
<1> QED  BY <1>1, <1>3, <1>4

FundSide(p, type) ==
  LET T == FundTrades(p.fundOrders, type) IN
  /\ TradesKept(T) /\ \A t \in T : FundRow(t, p.fundOrders)
  /\ \A m : WorthIn(T, m) = FundPaid(p.fundOrders, type, m)

\* Fund orders of one type and their reference: worth and columns.
LEMMA FundSideIs ==
  ASSUME NEW p, NEW type, PositionKept(p) /\ StatementsValid(p) PROVE FundSide(p, type)
<1> DEFINE rows == p.fundOrders
           O == Chosen(rows, type)
           h == [r \in O |-> FundTrade(r)]
           w == [r \in O |-> r.units * r.nav]
           T == FundTrades(rows, type)
<1>1. OrdersKept(rows) /\ \A r \in rows : r.nav \in Int \cup {Bad}  BY DEF PositionKept
<1>2. Numeric(Listed(rows), {"units", "nav", "amount"}) /\ Dated(Listed(rows))
  BY DEF StatementsValid, FundOrdersValid, FundOrders
<1>3. /\ O \in SUBSET Listed(rows) /\ Listed(rows) \in SUBSET rows /\ OrdersKept(O)
      /\ \A m : {r \in Listed(rows) : r.m = m /\ r.type = type} = In(O, m)
  BY <1>1, ChosenKept
<1>4. T = {FundTrade(r) : r \in O}  BY TradesOfOrders
<1> HIDE DEF O, T, rows
<1>5. \A r \in O : h[r] = FundTrade(r) /\ w[r] = r.units * r.nav  OBVIOUS
<1>6. T = ImageOf(h, O)  BY <1>4 DEF ImageOf
<1>7. \A r \in O : r.m # Bad /\ r.units # Bad /\ r.nav # Bad
  <2> TAKE r \in O
  <2>1. r \in Listed(rows)  BY <1>3
  <2>2. r.m # Bad  BY <1>2, <2>1 DEF Dated
  <2>3. r["units"] # Bad /\ r["nav"] # Bad  BY <1>2, <2>1 DEF Numeric
  <2> QED  BY <2>2, <2>3
<1>8. \A r \in O : r.m \in Int /\ r.units \in Int /\ r.nav \in Int
  BY <1>1, <1>3, <1>7 DEF OrdersKept
<1>9. \A a, b \in Int : a * b \in Int  OBVIOUS
<1>10. \A r \in O : /\ Carries(h[r], r) /\ h[r].price \in Int /\ r.m \in Int /\ r.units \in Int
                    /\ w[r] \in Int /\ w[r] = r.units * h[r].price
  <2> TAKE r \in O
  <2>1. Carries(h[r], r) /\ h[r].price = r.nav  BY <1>5, FundTradeIs
  <2> QED  BY <1>5, <1>8, <1>9, <2>1
<1>11. \A t \in T : FundRow(t, rows)
  <2> TAKE t \in T
  <2>1. PICK r \in O : t = FundTrade(r)  BY <1>4
  <2>2. r \in rows  BY <1>3
  <2>3. Carries(t, r) /\ t.isin = Lookup(FundIsin, t.name, Blank)  BY <2>1, FundTradeIs
  <2>4. t.local = Blank /\ t.rate = Blank /\ t.ccy = Blank  BY <2>1, FundTradeIs
  <2> QED  BY <2>2, <2>3, <2>4 DEF FundRow, Carries
<1>12. \A m : FundPaid(rows, type, m) = Sum(w, In(O, m))
  <2> TAKE m
  <2> DEFINE S == In(O, m)
             f == [r \in S |-> r.units * r.nav]
  <2>1. FundPaid(rows, type, m) = Sum(f, S)  BY <1>3 DEF FundPaid, Total, Sum
  <2>2. S \in SUBSET O  BY DEF In
  <2>3. IsFiniteSet(S)  BY <1>3, <2>2, FS_Subset DEF OrdersKept
  <2>4. \A r \in S : w[r] \in Int /\ f[r] = w[r]  BY <1>5, <1>10, <2>2
  <2> HIDE DEF S, f, w
  <2>5. Sum(f, S) = Sum(w, S)  BY <2>3, <2>4, SumSame
  <2> QED  BY <2>1, <2>5 DEF S
<1> HIDE DEF h, w
<1>13. TradesKept(T) /\ \A m : WorthIn(T, m) = Sum(w, In(O, m))  BY <1>3, <1>6, <1>10, TradesCarry
<1> QED  BY <1>11, <1>12, <1>13 DEF FundSide, T, rows

\* The orders that give a value: what their trades come to.
LEMMA ValuedOrders ==
  ASSUME NEW rows, NEW type, NEW h, OrdersKept(rows) /\ ValuesKept(rows),
         Dated(Listed(rows)) /\ (\A r \in Listed(rows) : r.units # Bad /\ r.value # Bad),
         \A r \in Chosen(rows, type) :
           Carries(h[r], r) /\ h[r].price = PerUnit(r.value, r.units)
  PROVE  LET T == ImageOf(h, Chosen(rows, type)) IN
         TradesKept(T) /\ \A m : WorthIn(T, m) = ValuePaid(rows, type, m)
<1> DEFINE O == Chosen(rows, type)
           w == [r \in O |-> r.value]
<1>3. /\ O \in SUBSET Listed(rows) /\ Listed(rows) \in SUBSET rows /\ OrdersKept(O)
      /\ \A m : {r \in Listed(rows) : r.m = m /\ r.type = type} = In(O, m)
  BY ChosenKept
<1> HIDE DEF O
<1>5. \A r \in O : w[r] = r.value  OBVIOUS
<1>7. \A r \in O : r.m # Bad /\ r.units # Bad /\ r.value # Bad  BY <1>3 DEF Dated
<1>8. \A r \in O : r.m \in Int /\ r.units \in Nat /\ r.value \in Int
  BY <1>3, <1>7 DEF OrdersKept, ValuesKept
<1>9. \A r \in O : PerUnit(r.value, r.units) \in Int /\ r.value = r.units * PerUnit(r.value, r.units)
  <2> TAKE r \in O
  <2>1. r \in rows /\ r.units \in Nat /\ r.value \in Int  BY <1>3, <1>8
  <2>2. {r.units, r.value} \subseteq Int  BY <2>1
  <2>3. r.value = r.units * PerUnit(r.value, r.units)  BY <2>1, <2>2 DEF ValuesKept
  <2> QED  BY <2>1, <2>3, PerUnitIsInt
<1>10. \A r \in O : /\ Carries(h[r], r) /\ h[r].price \in Int /\ r.m \in Int /\ r.units \in Int
                    /\ w[r] \in Int /\ w[r] = r.units * h[r].price
  <2> TAKE r \in O
  <2>1. Carries(h[r], r) /\ h[r].price = PerUnit(r.value, r.units)  BY DEF O
  <2>2. r.value = r.units * h[r].price /\ h[r].price \in Int  BY <1>9, <2>1
  <2>3. r.m \in Int /\ r.units \in Int /\ r.value \in Int  BY <1>8
  <2> QED  BY <1>5, <2>1, <2>2, <2>3
<1>12. \A m : ValuePaid(rows, type, m) = Sum(w, In(O, m))
  <2> TAKE m
  <2> DEFINE S == In(O, m)
             f == [r \in S |-> r.value]
  <2>1. ValuePaid(rows, type, m) = Sum(f, S)  BY <1>3 DEF ValuePaid, Total, Sum
  <2>2. S \in SUBSET O  BY DEF In
  <2>3. IsFiniteSet(S)  BY <1>3, <2>2, FS_Subset DEF OrdersKept
  <2>4. \A r \in S : w[r] \in Int /\ f[r] = w[r]  BY <1>5, <1>8, <2>2
  <2> HIDE DEF S, f, w
  <2>5. Sum(f, S) = Sum(w, S)  BY <2>3, <2>4, SumSame
  <2> QED  BY <2>1, <2>5 DEF S
<1> HIDE DEF w
<1>13. TradesKept(ImageOf(h, O)) /\ \A m : WorthIn(ImageOf(h, O), m) = Sum(w, In(O, m))
  BY <1>3, <1>10, TradesCarry
<1> QED  BY <1>12, <1>13 DEF O

StockSide(p, type) ==
  LET T == StockTrades(p.stockOrders, type) IN
  /\ TradesKept(T) /\ \A t \in T : StockRow(t, p.stockOrders)
  /\ \A m : WorthIn(T, m) = ValuePaid(p.stockOrders, type, m)

\* Stock orders of one type and their reference.
LEMMA StockSideIs ==
  ASSUME NEW p, NEW type, PositionKept(p) /\ StatementsValid(p) PROVE StockSide(p, type)
<1> DEFINE rows == p.stockOrders
           O == Chosen(rows, type)
           h == [r \in O |-> StockTrade(r)]
           T == StockTrades(rows, type)
<1>1. OrdersKept(rows) /\ ValuesKept(rows)  BY DEF PositionKept
<1>2. Numeric(Listed(rows), {"units", "value"}) /\ Dated(Listed(rows))
  BY DEF StatementsValid, StockOrdersValid, StockOrders
<1>3. O \in SUBSET Listed(rows) /\ Listed(rows) \in SUBSET rows  BY <1>1, ChosenKept
<1>4. T = {StockTrade(r) : r \in O}  BY TradesOfOrders
<1>5. \A r \in Listed(rows) : r.units # Bad /\ r.value # Bad
  <2> TAKE r \in Listed(rows)
  <2>1. r["units"] # Bad /\ r["value"] # Bad  BY <1>2 DEF Numeric
  <2> QED  BY <2>1
<1>6. Dated(Listed(rows)) /\ \A r \in Listed(rows) : r.units # Bad /\ r.value # Bad  BY <1>2, <1>5
<1> HIDE DEF T, rows
<1>7. T = ImageOf(h, O)  BY <1>4 DEF ImageOf
<1>8. \A r \in O : h[r] = StockTrade(r)  OBVIOUS
<1>9. \A r \in O : Carries(h[r], r) /\ h[r].price = PerUnit(r.value, r.units)  BY <1>8, StockTradeIs
<1>10. \A t \in T : StockRow(t, rows)
  <2> TAKE t \in T
  <2>1. PICK r \in O : t = StockTrade(r)  BY <1>4
  <2>2. r \in rows  BY <1>3
  <2>3. Carries(t, r) /\ t.isin = r.isin /\ t.name = r.name  BY <2>1, StockTradeIs
  <2>4. t.local = Blank /\ t.rate = Blank /\ t.ccy = Blank  BY <2>1, StockTradeIs
  <2> QED  BY <2>2, <2>3, <2>4 DEF StockRow, Carries
<1> HIDE DEF h
<1>11. TradesKept(ImageOf(h, O)) /\ \A m : WorthIn(ImageOf(h, O), m) = ValuePaid(rows, type, m)
  BY <1>1, <1>6, <1>9, ValuedOrders
<1> QED  BY <1>7, <1>10, <1>11 DEF StockSide, T, rows

UsSide(p, type) ==
  LET T == UsTrades(p.usOrders, type) IN
  /\ TradesKept(T) /\ \A t \in T : UsRow(t, p.usOrders)
  /\ \A m : WorthIn(T, m) = ValuePaid(p.usOrders, type, m)

\* US orders of one type and their reference.
LEMMA UsSideIs ==
  ASSUME NEW p, NEW type, PositionKept(p) /\ StatementsValid(p) PROVE UsSide(p, type)
<1> DEFINE rows == p.usOrders
           O == Chosen(rows, type)
           h == [r \in O |-> UsTrade(r)]
           T == UsTrades(rows, type)
<1>1. OrdersKept(rows) /\ ValuesKept(rows)  BY DEF PositionKept
<1>2. Numeric(Listed(rows), {"units", "amount", "rate", "value"}) /\ Dated(Listed(rows))
  BY DEF StatementsValid, UsOrdersValid, UsOrders
<1>3. O \in SUBSET Listed(rows) /\ Listed(rows) \in SUBSET rows  BY <1>1, ChosenKept
<1>4. T = {UsTrade(r) : r \in O}  BY TradesOfOrders
<1>5. \A r \in Listed(rows) : r.units # Bad /\ r.value # Bad /\ r.amount # Bad /\ r.rate # Bad
  <2> TAKE r \in Listed(rows)
  <2>1. r["units"] # Bad /\ r["value"] # Bad /\ r["amount"] # Bad /\ r["rate"] # Bad  BY <1>2 DEF Numeric
  <2> QED  BY <2>1
<1>6. Dated(Listed(rows)) /\ \A r \in Listed(rows) : r.units # Bad /\ r.value # Bad  BY <1>2, <1>5
<1>7. \A r \in rows : r.amount \in Int \cup {Bad} /\ r.rate \in Int \cup {Bad}  BY DEF PositionKept
<1> HIDE DEF T, rows
<1>8. T = ImageOf(h, O)  BY <1>4 DEF ImageOf
<1>9. \A r \in O : h[r] = UsTrade(r)  OBVIOUS
<1>10. \A r \in O : Carries(h[r], r) /\ h[r].price = PerUnit(r.value, r.units)  BY <1>9, UsTradeIs
<1>11. \A r \in O : r.units \in Nat /\ r.amount \in Int /\ r.rate \in Int
  BY <1>1, <1>3, <1>5, <1>7 DEF OrdersKept
<1>12. \A t \in T : UsRow(t, rows)
  <2> TAKE t \in T
  <2>1. PICK r \in O : t = UsTrade(r)  BY <1>4
  <2>2. r \in rows  BY <1>3
  <2>3. Carries(t, r) /\ t.isin = r.isin /\ t.name = r.name  BY <2>1, UsTradeIs
  <2>4. t.local = PerUnit(r.amount, r.units) /\ t.rate = r.rate /\ t.ccy = r.ccy  BY <2>1, UsTradeIs
  <2>5. t.local \in Int /\ t.rate \in Int  BY <1>11, <2>4, PerUnitIsInt
  <2>6. t.local # Blank /\ t.rate # Blank  BY <2>5, FactConstants
  <2> QED  BY <2>2, <2>3, <2>4, <2>6 DEF UsRow, Carries
<1> HIDE DEF h
<1>13. TradesKept(ImageOf(h, O)) /\ \A m : WorthIn(ImageOf(h, O), m) = ValuePaid(rows, type, m)
  BY <1>1, <1>6, <1>10, ValuedOrders
<1> QED  BY <1>8, <1>12, <1>13 DEF UsSide, T, rows

FundRef(p, type) == PurchaseRef(FundTrades(p.fundOrders, type))
StockRef(p, type) == PurchaseRef(StockTrades(p.stockOrders, type))
UsRef(p, type) == PurchaseRef(UsTrades(p.usOrders, type))

\* What the statements give to the facts of one direction, and what it comes to.
RefsAgree(p, fundType, type) ==
  LET F == FundRef(p, fundType)
      S == StockRef(p, type)
      U == UsRef(p, type) IN
  /\ TradesKept(F) /\ TradesKept(S) /\ TradesKept(U)
  /\ \A t \in F : FundRow(t, p.fundOrders) /\ t.id = 0
  /\ \A t \in S : StockRow(t, p.stockOrders) /\ t.id = 0
  /\ \A t \in U : UsRow(t, p.usOrders) /\ t.id = 0
  /\ \A m : /\ WorthIn(F, m) = FundPaid(p.fundOrders, fundType, m)
            /\ WorthIn(S, m) = ValuePaid(p.stockOrders, type, m)
            /\ WorthIn(U, m) = ValuePaid(p.usOrders, type, m)

\* The references of the three brokers are worth what their orders are.
LEMMA RefsAre ==
  ASSUME NEW p, NEW fundType, NEW type, PositionKept(p) /\ StatementsValid(p)
  PROVE  RefsAgree(p, fundType, type)
<1> DEFINE TF == FundTrades(p.fundOrders, fundType)
           TS == StockTrades(p.stockOrders, type)
           TU == UsTrades(p.usOrders, type)
<1>1. /\ TradesKept(TF) /\ \A t \in TF : FundRow(t, p.fundOrders)
      /\ \A m : WorthIn(TF, m) = FundPaid(p.fundOrders, fundType, m)
  BY FundSideIs DEF FundSide
<1>2. /\ TradesKept(TS) /\ \A t \in TS : StockRow(t, p.stockOrders)
      /\ \A m : WorthIn(TS, m) = ValuePaid(p.stockOrders, type, m)
  BY StockSideIs DEF StockSide
<1>3. /\ TradesKept(TU) /\ \A t \in TU : UsRow(t, p.usOrders)
      /\ \A m : WorthIn(TU, m) = ValuePaid(p.usOrders, type, m)
  BY UsSideIs DEF UsSide
<1>4. RefAgrees(TF) /\ RefAgrees(TS) /\ RefAgrees(TU)  BY <1>1, <1>2, <1>3, RefIs
<1>5. FundRef(p, fundType) = PurchaseRef(TF) /\ StockRef(p, type) = PurchaseRef(TS)
        /\ UsRef(p, type) = PurchaseRef(TU)
  BY DEF FundRef, StockRef, UsRef
<1> HIDE DEF TF, TS, TU
<1>6. \A t \in PurchaseRef(TF) : FundRow(t, p.fundOrders) /\ t.id = 0
  <2> TAKE t \in PurchaseRef(TF)
  <2>1. t.id = 0 /\ \E x \in TF : Alike(t, x)  BY <1>4 DEF RefAgrees
  <2>2. PICK x \in TF : Alike(t, x)  BY <2>1
  <2>3. FundRow(x, p.fundOrders)  BY <1>1
  <2> QED  BY <2>1, <2>2, <2>3 DEF FundRow, Alike
<1>7. \A t \in PurchaseRef(TS) : StockRow(t, p.stockOrders) /\ t.id = 0
  <2> TAKE t \in PurchaseRef(TS)
  <2>1. t.id = 0 /\ \E x \in TS : Alike(t, x)  BY <1>4 DEF RefAgrees
  <2>2. PICK x \in TS : Alike(t, x)  BY <2>1
  <2>3. StockRow(x, p.stockOrders)  BY <1>2
  <2> QED  BY <2>1, <2>2, <2>3 DEF StockRow, Alike
<1>8. \A t \in PurchaseRef(TU) : UsRow(t, p.usOrders) /\ t.id = 0
  <2> TAKE t \in PurchaseRef(TU)
  <2>1. t.id = 0 /\ \E x \in TU : Alike(t, x)  BY <1>4 DEF RefAgrees
  <2>2. PICK x \in TU : Alike(t, x)  BY <2>1
  <2>3. UsRow(x, p.usOrders)  BY <1>3
  <2> QED  BY <2>1, <2>2, <2>3 DEF UsRow, Alike
<1>9. /\ TradesKept(PurchaseRef(TF)) /\ TradesKept(PurchaseRef(TS)) /\ TradesKept(PurchaseRef(TU))
      /\ \A m : /\ WorthIn(PurchaseRef(TF), m) = WorthIn(TF, m)
                /\ WorthIn(PurchaseRef(TS), m) = WorthIn(TS, m)
                /\ WorthIn(PurchaseRef(TU), m) = WorthIn(TU, m)
  BY <1>4 DEF RefAgrees
<1> QED  BY <1>1, <1>2, <1>3, <1>5, <1>6, <1>7, <1>8, <1>9 DEF RefsAgree

\* What two sets of trades without a common one are worth together.
LEMMA WorthOfUnion ==
  ASSUME NEW A, NEW B, TradesKept(A) /\ TradesKept(B), A \cap B = {}
  PROVE  /\ TradesKept(A \cup B)
         /\ \A m : WorthIn(A \cup B, m) = WorthIn(A, m) + WorthIn(B, m)
<1> DEFINE C == A \cup B
<1>1. IsFiniteSet(C)  BY FS_Union DEF TradesKept
<1>2. TradesKept(C)  BY <1>1 DEF TradesKept
<1>3. ASSUME NEW m PROVE WorthIn(C, m) = WorthIn(A, m) + WorthIn(B, m)
  <2> DEFINE X == In(C, m)
             Y == In(A, m)
             Z == In(B, m)
  <2>1. X \in SUBSET C /\ Y \in SUBSET X /\ X \ Y = Z /\ Y \in SUBSET A /\ Z \in SUBSET B
        /\ Z \in SUBSET C /\ Y \in SUBSET C
    BY DEF In
  <2>2. IsFiniteSet(X) /\ IsFiniteSet(Y) /\ IsFiniteSet(Z)  BY <1>1, <2>1, FS_Subset
  <2>3. \A t \in X : Worths(C)[t] \in Int  BY <1>2, <2>1, WorthsAre
  <2> HIDE DEF X, Y, Z
  <2>4. Sum(Worths(C), X) = Sum(Worths(C), Y) + Sum(Worths(C), Z)
    <3> DEFINE w == Worths(C)
    <3>1. IsFiniteSet(X) /\ Y \in SUBSET X  BY <2>1, <2>2
    <3>2. \A t \in X : w[t] \in Int  BY <2>3
    <3>3. X \ Y = Z  BY <2>1
    <3> HIDE DEF w, C
    <3>4. Sum(w, X) = Sum(w, Y) + Sum(w, X \ Y)  BY <3>1, <3>2, SumUnion
    <3> QED  BY <3>3, <3>4 DEF w
  <2>5. \A t \in Y : Worths(A)[t] \in Int /\ Worths(C)[t] = Worths(A)[t]
    <3> TAKE t \in Y
    <3>1. t \in A /\ t \in C  BY <2>1
    <3> QED  BY <1>2, <3>1, WorthsAre
  <2>6. \A t \in Z : Worths(B)[t] \in Int /\ Worths(C)[t] = Worths(B)[t]
    <3> TAKE t \in Z
    <3>1. t \in B /\ t \in C  BY <2>1
    <3> QED  BY <1>2, <3>1, WorthsAre
  <2>7. Sum(Worths(C), Y) = Sum(Worths(A), Y)  BY <2>2, <2>5, SumSame
  <2>8. Sum(Worths(C), Z) = Sum(Worths(B), Z)  BY <2>2, <2>6, SumSame
  <2> QED  BY <2>4, <2>7, <2>8 DEF WorthIn, X, Y, Z
<1> QED  BY <1>2, <1>3

\* A trade as the facts have it.
Settled(f) == WithLocalPrice(WithCurrency([f EXCEPT !.name = Blank]))
SettledAs(x, f) ==
  /\ x.isin = f.isin /\ x.m = f.m /\ x.units = f.units /\ x.price = f.price /\ x.art = f.art
  /\ x.id = f.id
  /\ x.local = IF f.local = Blank THEN f.price ELSE f.local
  /\ x.ccy = IF f.ccy = Blank THEN BaseCurrency ELSE f.ccy
  /\ f.rate # Blank => x.rate = f.rate

\* The columns a fact keeps of a reference.
LEMMA SettledIs ==
  ASSUME NEW f, TradeShape(f) PROVE SettledAs(Settled(f), f)
<1> DEFINE ccy == IF f.ccy = Blank THEN BaseCurrency ELSE f.ccy
           rate == IF f.rate = Blank /\ ccy = BaseCurrency THEN 1 ELSE f.rate
           local == IF f.local = Blank THEN f.price ELSE f.local
           a == [isin |-> f.isin, name |-> Blank, m |-> f.m, units |-> f.units, price |-> f.price,
                 local |-> f.local, rate |-> f.rate, ccy |-> f.ccy, art |-> f.art, id |-> f.id]
           b == [isin |-> f.isin, name |-> Blank, m |-> f.m, units |-> f.units, price |-> f.price,
                 local |-> f.local, rate |-> f.rate, ccy |-> ccy, art |-> f.art, id |-> f.id]
           c == [isin |-> f.isin, name |-> Blank, m |-> f.m, units |-> f.units, price |-> f.price,
                 local |-> f.local, rate |-> rate, ccy |-> ccy, art |-> f.art, id |-> f.id]
           d == [isin |-> f.isin, name |-> Blank, m |-> f.m, units |-> f.units, price |-> f.price,
                 local |-> local, rate |-> rate, ccy |-> ccy, art |-> f.art, id |-> f.id]
           e == [f EXCEPT !.name = Blank]
<1>1. e = a  BY DEF TradeShape
<1>2. [a EXCEPT !.ccy = ccy] = b
  <2> HIDE DEF ccy
  <2> QED  OBVIOUS
<1>3. [b EXCEPT !.rate = rate] = c
  <2> HIDE DEF ccy, rate
  <2> QED  OBVIOUS
<1>4. [c EXCEPT !.local = local] = d
  <2> HIDE DEF ccy, rate, local
  <2> QED  OBVIOUS
<1>5. WithCurrency(a) = c
  <2>1. a.ccy = f.ccy /\ a.rate = f.rate  OBVIOUS
  <2>2. b.rate = f.rate
    <3> HIDE DEF ccy
    <3> QED  OBVIOUS
  <2> DEFINE cy == IF a.ccy = Blank THEN BaseCurrency ELSE a.ccy
             x == [a EXCEPT !.ccy = cy]
  <2>3. cy = ccy  BY <2>1
  <2>4. x = b  BY <1>2, <2>3, Zenon
  <2>5. WithCurrency(a) = [x EXCEPT !.rate = IF x.rate = Blank /\ cy = BaseCurrency THEN 1 ELSE x.rate]
    BY Zenon DEF WithCurrency
  <2> HIDE DEF x, cy, a, b, c, ccy
  <2>6. WithCurrency(a) = [b EXCEPT !.rate = rate]  BY <2>2, <2>3, <2>4, <2>5 DEF rate
  <2> QED  BY <1>3, <2>6
<1>6. WithLocalPrice(c) = d
  <2>1. c.local = f.local /\ c.price = f.price
    <3> HIDE DEF ccy, rate
    <3> QED  OBVIOUS
  <2> HIDE DEF c, d
  <2>2. WithLocalPrice(c) = [c EXCEPT !.local = IF c.local = Blank THEN c.price ELSE c.local]
    BY Zenon DEF WithLocalPrice
  <2>3. WithLocalPrice(c) = [c EXCEPT !.local = local]  BY <2>1, <2>2
  <2> QED  BY <1>4, <2>3
<1>7. Settled(f) = d
  <2> HIDE DEF a, c, d
  <2>1. Settled(f) = WithLocalPrice(WithCurrency(e))  BY Zenon DEF Settled
  <2> HIDE DEF e
  <2> QED  BY <1>1, <1>5, <1>6, <2>1, Zenon
<1>8. SettledAs(d, f)
  <2>1. /\ d.isin = f.isin /\ d.m = f.m /\ d.units = f.units /\ d.price = f.price /\ d.art = f.art
        /\ d.id = f.id /\ d.local = local /\ d.ccy = ccy /\ d.rate = rate
    <3> HIDE DEF ccy, rate, local
    <3> QED  OBVIOUS
  <2> HIDE DEF d
  <2> QED  BY <2>1 DEF SettledAs
<1> HIDE DEF d
<1> QED  BY <1>7, <1>8

\* Trades of one broker that the facts cannot tell apart are one.
LEMMA FundPair ==
  ASSUME NEW f, NEW g, NEW x, NEW orders, FundRow(f, orders) /\ FundRow(g, orders),
         TradeShape(f) /\ TradeShape(g), SettledAs(x, f) /\ SettledAs(x, g),
         f.id = 0 /\ g.id = 0 /\ f.isin # Blank
  PROVE  f = g
<1>1. f.isin = g.isin /\ f.m = g.m /\ f.units = g.units /\ f.price = g.price /\ f.art = g.art
  BY DEF SettledAs
<1>2. f.local = g.local /\ f.rate = g.rate /\ f.ccy = g.ccy  BY DEF FundRow
<1>3. f.isin = Lookup(FundIsin, f.name, Blank) /\ g.isin = Lookup(FundIsin, g.name, Blank)
  BY DEF FundRow
<1>4. f.name \in DOMAIN FundIsin /\ FundIsin[f.name] = f.isin  BY <1>3 DEF Lookup
<1>5. g.name \in DOMAIN FundIsin /\ FundIsin[g.name] = g.isin  BY <1>1, <1>3 DEF Lookup
<1>6. f.name = g.name  BY <1>1, <1>4, <1>5, FactConstants
<1>7. Alike(f, g) /\ f.units = g.units /\ f.id = g.id  BY <1>1, <1>2, <1>6 DEF Alike
<1> QED  BY <1>7, SameTrade

\* Two stock references that become one fact are one.
LEMMA StockPair ==
  ASSUME NEW f, NEW g, NEW x, NEW orders, StockRow(f, orders) /\ StockRow(g, orders),
         TradeShape(f) /\ TradeShape(g), SettledAs(x, f) /\ SettledAs(x, g),
         f.id = 0 /\ g.id = 0, ValuesKept(orders)
  PROVE  f = g
<1>1. f.isin = g.isin /\ f.m = g.m /\ f.units = g.units /\ f.price = g.price /\ f.art = g.art
  BY DEF SettledAs
<1>2. f.local = g.local /\ f.rate = g.rate /\ f.ccy = g.ccy  BY DEF StockRow
<1>3. PICK r \in orders : f.art = r.art /\ f.isin = r.isin /\ f.name = r.name  BY DEF StockRow
<1>4. PICK s \in orders : g.art = s.art /\ g.isin = s.isin /\ g.name = s.name  BY DEF StockRow
<1>5. r.art = s.art /\ r.isin = s.isin  BY <1>1, <1>3, <1>4
<1>6. f.name = g.name  BY <1>3, <1>4, <1>5 DEF ValuesKept
<1>7. Alike(f, g) /\ f.units = g.units /\ f.id = g.id  BY <1>1, <1>2, <1>6 DEF Alike
<1> QED  BY <1>7, SameTrade

\* Two US references that become one fact are one.
LEMMA UsPair ==
  ASSUME NEW f, NEW g, NEW x, NEW orders, UsRow(f, orders) /\ UsRow(g, orders),
         TradeShape(f) /\ TradeShape(g), SettledAs(x, f) /\ SettledAs(x, g),
         f.id = 0 /\ g.id = 0,
         ValuesKept(orders) /\ \A r, s \in orders : r.art = s.art /\ r.isin = s.isin => r.ccy = s.ccy
  PROVE  f = g
<1>1. f.isin = g.isin /\ f.m = g.m /\ f.units = g.units /\ f.price = g.price /\ f.art = g.art
  BY DEF SettledAs
<1>2. f.local # Blank /\ f.rate # Blank /\ g.local # Blank /\ g.rate # Blank  BY DEF UsRow
<1>3. f.local = g.local /\ f.rate = g.rate  BY <1>2 DEF SettledAs
<1>4. PICK r \in orders : f.art = r.art /\ f.isin = r.isin /\ f.name = r.name /\ f.ccy = r.ccy  BY DEF UsRow
<1>5. PICK s \in orders : g.art = s.art /\ g.isin = s.isin /\ g.name = s.name /\ g.ccy = s.ccy  BY DEF UsRow
<1>6. r.art = s.art /\ r.isin = s.isin  BY <1>1, <1>4, <1>5
<1>7. f.name = g.name  BY <1>4, <1>5, <1>6 DEF ValuesKept
<1>8. f.ccy = g.ccy  BY <1>4, <1>5, <1>6
<1>9. Alike(f, g) /\ f.units = g.units /\ f.id = g.id  BY <1>1, <1>3, <1>7, <1>8 DEF Alike
<1> QED  BY <1>9, SameTrade

AllRefs(p, fundType, type) == FundRef(p, fundType) \cup StockRef(p, type) \cup UsRef(p, type)

\* The parts come from different files.
LEMMA RefsApart ==
  ASSUME NEW p, NEW fundType, NEW type, PositionKept(p) /\ RefsAgree(p, fundType, type)
  PROVE  /\ \A f \in FundRef(p, fundType), g \in StockRef(p, type) : f.art # g.art
         /\ \A f \in FundRef(p, fundType), g \in UsRef(p, type) : f.art # g.art
         /\ \A f \in StockRef(p, type), g \in UsRef(p, type) : f.art # g.art
<1>1. \A f \in FundRef(p, fundType) : \E r \in p.fundOrders : f.art = r.art  BY DEF RefsAgree, FundRow
<1>2. \A f \in StockRef(p, type) : \E r \in p.stockOrders : f.art = r.art  BY DEF RefsAgree, StockRow
<1>3. \A f \in UsRef(p, type) : \E r \in p.usOrders : f.art = r.art  BY DEF RefsAgree, UsRow
<1>4. /\ \A r \in p.fundOrders, s \in p.stockOrders : r.art # s.art
      /\ \A r \in p.fundOrders, s \in p.usOrders : r.art # s.art
      /\ \A r \in p.stockOrders, s \in p.usOrders : r.art # s.art
  BY DEF PositionKept, FilesApart
<1> QED  BY <1>1, <1>2, <1>3, <1>4

\* References that have an ISIN do not merge when they become facts.
LEMMA SettledApart ==
  ASSUME NEW p, NEW fundType, NEW type, PositionKept(p) /\ RefsAgree(p, fundType, type),
         NEW f \in AllRefs(p, fundType, type), NEW g \in AllRefs(p, fundType, type),
         Settled(f) = Settled(g), f.isin # Blank
  PROVE  f = g
<1> DEFINE F == FundRef(p, fundType)
           S == StockRef(p, type)
           U == UsRef(p, type)
           x == Settled(f)
<1>1. TradesKept(F) /\ TradesKept(S) /\ TradesKept(U)  BY DEF RefsAgree
<1>2. f \in F \/ f \in S \/ f \in U  BY DEF AllRefs
<1>3. g \in F \/ g \in S \/ g \in U  BY DEF AllRefs
<1>4. TradeShape(f) /\ TradeShape(g)  BY <1>1, <1>2, <1>3 DEF TradesKept
<1>5. SettledAs(x, f)  BY <1>4, SettledIs
<1>6. SettledAs(x, g)
  <2>1. SettledAs(Settled(g), g)  BY <1>4, SettledIs
  <2> QED  BY <2>1
<1> HIDE DEF x
<1>7. f.art = g.art  BY <1>5, <1>6 DEF SettledAs
<1>8. /\ \A a \in F, b \in S : a.art # b.art
      /\ \A a \in F, b \in U : a.art # b.art
      /\ \A a \in S, b \in U : a.art # b.art
  BY RefsApart
<1>9. f.id = 0 /\ g.id = 0  BY <1>2, <1>3 DEF RefsAgree
<1>10. (f \in F /\ g \in F) \/ (f \in S /\ g \in S) \/ (f \in U /\ g \in U)
  <2> HIDE DEF F, S, U
  <2>1. ~(f \in F /\ g \in S) /\ ~(f \in F /\ g \in U) /\ ~(f \in S /\ g \in U)  BY <1>7, <1>8
  <2>2. ~(g \in F /\ f \in S) /\ ~(g \in F /\ f \in U) /\ ~(g \in S /\ f \in U)  BY <1>7, <1>8
  <2> QED  BY <1>2, <1>3, <2>1, <2>2
<1>11. CASE f \in F /\ g \in F
  <2>1. FundRow(f, p.fundOrders) /\ FundRow(g, p.fundOrders)  BY <1>11 DEF RefsAgree
  <2>2. f.id = 0 /\ g.id = 0 /\ f.isin # Blank  BY <1>9
  <2>3. SettledAs(x, f) /\ SettledAs(x, g)  BY <1>5, <1>6
  <2> QED  BY <1>4, <2>1, <2>2, <2>3, FundPair
<1>12. CASE f \in S /\ g \in S
  <2>1. StockRow(f, p.stockOrders) /\ StockRow(g, p.stockOrders)  BY <1>12 DEF RefsAgree
  <2>2. ValuesKept(p.stockOrders)  BY DEF PositionKept
  <2>3. SettledAs(x, f) /\ SettledAs(x, g)  BY <1>5, <1>6
  <2> QED  BY <1>4, <1>9, <2>1, <2>2, <2>3, StockPair
<1>13. CASE f \in U /\ g \in U
  <2>1. UsRow(f, p.usOrders) /\ UsRow(g, p.usOrders)  BY <1>13 DEF RefsAgree
  <2>2. /\ ValuesKept(p.usOrders)
        /\ \A r, s \in p.usOrders : r.art = s.art /\ r.isin = s.isin => r.ccy = s.ccy
    BY DEF PositionKept
  <2>3. SettledAs(x, f) /\ SettledAs(x, g)  BY <1>5, <1>6
  <2> QED  BY <1>4, <1>9, <2>1, <2>2, <2>3, UsPair
<1> QED  BY <1>10, <1>11, <1>12, <1>13

AllPaid(p, fundType, type, m) ==
  FundPaid(p.fundOrders, fundType, m) + ValuePaid(p.stockOrders, type, m)
    + ValuePaid(p.usOrders, type, m)

\* The references of all brokers are worth what all orders are.
LEMMA AllRefsWorth ==
  ASSUME NEW p, NEW fundType, NEW type, PositionKept(p) /\ RefsAgree(p, fundType, type)
  PROVE  /\ TradesKept(AllRefs(p, fundType, type))
         /\ \A m : WorthIn(AllRefs(p, fundType, type), m) = AllPaid(p, fundType, type, m)
<1> DEFINE F == FundRef(p, fundType)
           S == StockRef(p, type)
           U == UsRef(p, type)
<1>1. TradesKept(F) /\ TradesKept(S) /\ TradesKept(U)  BY DEF RefsAgree
<1>2. \A m : /\ WorthIn(F, m) = FundPaid(p.fundOrders, fundType, m)
             /\ WorthIn(S, m) = ValuePaid(p.stockOrders, type, m)
             /\ WorthIn(U, m) = ValuePaid(p.usOrders, type, m)
  BY DEF RefsAgree
<1>3. /\ \A a \in F, b \in S : a.art # b.art
      /\ \A a \in F, b \in U : a.art # b.art
      /\ \A a \in S, b \in U : a.art # b.art
  BY RefsApart
<1>4. AllRefs(p, fundType, type) = F \cup S \cup U  BY DEF AllRefs
<1> HIDE DEF F, S, U
<1>5. F \cap S = {} /\ (F \cup S) \cap U = {}  BY <1>3
<1> DEFINE G == F \cup S
<1>6. TradesKept(F) /\ TradesKept(S)  BY <1>1
<1>7. TradesKept(G) /\ \A m : WorthIn(G, m) = WorthIn(F, m) + WorthIn(S, m)
  BY <1>5, <1>6, WorthOfUnion
<1>8. G \cap U = {}  BY <1>5
<1> HIDE DEF G
<1>9. TradesKept(G) /\ TradesKept(U)  BY <1>1, <1>7
<1>10. TradesKept(G \cup U) /\ \A m : WorthIn(G \cup U, m) = WorthIn(G, m) + WorthIn(U, m)
  BY <1>8, <1>9, WorthOfUnion
<1>11. AllRefs(p, fundType, type) = G \cup U  BY <1>4 DEF G
<1> QED  BY <1>2, <1>7, <1>10, <1>11 DEF AllPaid

-----------------------------------------------------------------------------
(* The facts of the investments.                                            *)

Purchased(p) == AllRefs(p, "PURCHASE", "BUY")
Disposed(p) == AllRefs(p, "REDEEM", "SELL")

\* The investment facts are made of the three pipelines.
LEMMA BrokersAre ==
  ASSUME NEW p, NEW gone
  PROVE  LET inv == InvestmentFactsOf(p, gone) IN
         /\ inv.purchases = PurchaseFacts({FundPipeline(p, gone).purchases,
                              StockPipeline(p, gone).purchases, UsPipeline(p, gone).purchases})
         /\ inv.sales = SaleFacts({FundPipeline(p, gone).sales, StockPipeline(p, gone).sales,
                                   UsPipeline(p, gone).sales})
         /\ inv.market = MarketFacts({FundPipeline(p, gone).market, StockPipeline(p, gone).market,
                                      UsPipeline(p, gone).market})
<1> DEFINE brokers == {FundPipeline(p, gone), StockPipeline(p, gone), UsPipeline(p, gone)}
           inv == InvestmentFactsOf(p, gone)
<1>1. /\ inv.purchases = PurchaseFacts({b.purchases : b \in brokers})
      /\ inv.sales = SaleFacts({b.sales : b \in brokers})
      /\ inv.market = MarketFacts({b.market : b \in brokers})
  BY Zenon DEF InvestmentFactsOf
<1>2. /\ {b.purchases : b \in brokers} =
           {FundPipeline(p, gone).purchases, StockPipeline(p, gone).purchases, UsPipeline(p, gone).purchases}
      /\ {b.sales : b \in brokers} =
           {FundPipeline(p, gone).sales, StockPipeline(p, gone).sales, UsPipeline(p, gone).sales}
      /\ {b.market : b \in brokers} =
           {FundPipeline(p, gone).market, StockPipeline(p, gone).market, UsPipeline(p, gone).market}
  OBVIOUS
<1> QED  BY <1>1, <1>2

\* Each pipeline has its broker's references.
LEMMA PipelinesAre ==
  ASSUME NEW p, NEW gone
  PROVE  /\ FundPipeline(p, gone).purchases = FundRef(p, "PURCHASE")
         /\ StockPipeline(p, gone).purchases = StockRef(p, "BUY")
         /\ UsPipeline(p, gone).purchases = UsRef(p, "BUY")
         /\ FundPipeline(p, gone).sales =
              SaleRef(FundTrades(p.fundOrders, "REDEEM"), FundRef(p, "PURCHASE"))
         /\ StockPipeline(p, gone).sales =
              SaleRef(StockTrades(p.stockOrders, "SELL"), StockRef(p, "BUY"))
         /\ UsPipeline(p, gone).sales = SaleRef(UsTrades(p.usOrders, "SELL"), UsRef(p, "BUY"))
         /\ FundPipeline(p, gone).market = FundMarketRef(p.fundHoldings)
         /\ StockPipeline(p, gone).market = StockMarketRef(p.stockHoldings)
         /\ UsPipeline(p, gone).market = {}
<1>1. /\ FundPipeline(p, gone).purchases = FundRef(p, "PURCHASE")
      /\ FundPipeline(p, gone).sales =
           SaleRef(FundTrades(p.fundOrders, "REDEEM"), FundRef(p, "PURCHASE"))
      /\ FundPipeline(p, gone).market = FundMarketRef(p.fundHoldings)
  BY Zenon DEF FundPipeline, FundRef
<1>2. /\ StockPipeline(p, gone).purchases = StockRef(p, "BUY")
      /\ StockPipeline(p, gone).sales =
           SaleRef(StockTrades(p.stockOrders, "SELL"), StockRef(p, "BUY"))
      /\ StockPipeline(p, gone).market = StockMarketRef(p.stockHoldings)
  BY Zenon DEF StockPipeline, StockRef
<1>3. /\ UsPipeline(p, gone).purchases = UsRef(p, "BUY")
      /\ UsPipeline(p, gone).sales = SaleRef(UsTrades(p.usOrders, "SELL"), UsRef(p, "BUY"))
      /\ UsPipeline(p, gone).market = {}
  BY Zenon DEF UsPipeline, UsRef
<1> QED  BY <1>1, <1>2, <1>3

\* The purchases are those of the three brokers.
LEMMA PurchasesAre ==
  ASSUME NEW p, NEW gone
  PROVE  InvestmentFactsOf(p, gone).purchases = {Settled(f) : f \in Purchased(p)}
<1> DEFINE A == FundRef(p, "PURCHASE")
           B == StockRef(p, "BUY")
           C == UsRef(p, "BUY")
<1>1. InvestmentFactsOf(p, gone).purchases = PurchaseFacts({A, B, C})
  <2>1. InvestmentFactsOf(p, gone).purchases
          = PurchaseFacts({FundPipeline(p, gone).purchases, StockPipeline(p, gone).purchases,
                           UsPipeline(p, gone).purchases})
    BY BrokersAre
  <2>2. /\ FundPipeline(p, gone).purchases = A /\ StockPipeline(p, gone).purchases = B
        /\ UsPipeline(p, gone).purchases = C
    BY PipelinesAre
  <2> HIDE DEF A, B, C
  <2> QED  BY <2>1, <2>2
<1>2. PurchaseFacts({A, B, C}) = {Settled(f) : f \in UNION {A, B, C}}
  BY Zenon DEF PurchaseFacts, Settled
<1> HIDE DEF A, B, C
<1>3. UNION {A, B, C} = A \cup B \cup C  OBVIOUS
<1>4. Purchased(p) = A \cup B \cup C  BY DEF Purchased, AllRefs, A, B, C
<1> QED  BY <1>1, <1>2, <1>3, <1>4

\* A sale fact is the sale of a broker, settled.
SaleFact(s) == [s EXCEPT !.sale = Settled(@)]

\* The sales of a broker are its references of sales, with a profit each.
LEMMA SaleOfRef ==
  ASSUME NEW trades, NEW bought
  PROVE  {SaleFact(s).sale : s \in SaleRef(trades, bought)} = {Settled(q) : q \in PurchaseRef(trades)}
<1> DEFINE c(q) == AverageCost(bought, q.isin, q.m)
           row(q) == [sale |-> q, cost |-> c(q)]
<1>1. SaleRef(trades, bought) = {row(q) : q \in PurchaseRef(trades)}  BY Zenon DEF SaleRef
<1> HIDE DEF c
<1>2. \A q : row(q).sale = q  OBVIOUS
<1>3. \A q : SaleFact(row(q)).sale = Settled(q)
  <2> TAKE q
  <2> DEFINE k == c(q)
             y == Settled(q)
  <2>1. SaleFact(row(q)) = [ [sale |-> q, cost |-> k] EXCEPT !.sale = y ]
    BY <1>2, Zenon DEF SaleFact
  <2> HIDE DEF k, y
  <2>2. [ [sale |-> q, cost |-> k] EXCEPT !.sale = y ] = [sale |-> y, cost |-> k]  OBVIOUS
  <2>3. [sale |-> y, cost |-> k].sale = y  OBVIOUS
  <2>4. SaleFact(row(q)).sale = y  BY <2>1, <2>2, <2>3, Zenon
  <2> QED  BY <2>4 DEF y
<1> HIDE DEF row
<1> QED  BY <1>1, <1>3

\* The sales among the facts are the references of all brokers, settled.
LEMMA SalesAre ==
  ASSUME NEW p, NEW gone
  PROVE  {x.sale : x \in InvestmentFactsOf(p, gone).sales} = {Settled(f) : f \in Disposed(p)}
<1> DEFINE A == SaleRef(FundTrades(p.fundOrders, "REDEEM"), FundRef(p, "PURCHASE"))
           B == SaleRef(StockTrades(p.stockOrders, "SELL"), StockRef(p, "BUY"))
           C == SaleRef(UsTrades(p.usOrders, "SELL"), UsRef(p, "BUY"))
<1>1. InvestmentFactsOf(p, gone).sales = SaleFacts({A, B, C})
  <2>1. InvestmentFactsOf(p, gone).sales
          = SaleFacts({FundPipeline(p, gone).sales, StockPipeline(p, gone).sales,
                       UsPipeline(p, gone).sales})
    BY BrokersAre
  <2>2. /\ FundPipeline(p, gone).sales = A /\ StockPipeline(p, gone).sales = B
        /\ UsPipeline(p, gone).sales = C
    BY PipelinesAre
  <2> HIDE DEF A, B, C
  <2> QED  BY <2>1, <2>2
<1>2. SaleFacts({A, B, C}) = {SaleFact(s) : s \in UNION {A, B, C}}
  BY Zenon DEF SaleFacts, SaleFact, Settled
<1>3. {SaleFact(s).sale : s \in A} = {Settled(q) : q \in FundRef(p, "REDEEM")}  BY SaleOfRef DEF FundRef
<1>4. {SaleFact(s).sale : s \in B} = {Settled(q) : q \in StockRef(p, "SELL")}  BY SaleOfRef DEF StockRef
<1>5. {SaleFact(s).sale : s \in C} = {Settled(q) : q \in UsRef(p, "SELL")}  BY SaleOfRef DEF UsRef
<1> DEFINE X == FundRef(p, "REDEEM")
           Y == StockRef(p, "SELL")
           Z == UsRef(p, "SELL")
<1> HIDE DEF A, B, C
<1>6. UNION {A, B, C} = A \cup B \cup C  OBVIOUS
<1>7. {x.sale : x \in InvestmentFactsOf(p, gone).sales}
        = {SaleFact(s).sale : s \in A} \cup {SaleFact(s).sale : s \in B} \cup {SaleFact(s).sale : s \in C}
  BY <1>1, <1>2, <1>6
<1>8. Disposed(p) = X \cup Y \cup Z  BY DEF Disposed, AllRefs
<1> HIDE DEF X, Y, Z
<1>9. {Settled(f) : f \in Disposed(p)}
        = {Settled(f) : f \in X} \cup {Settled(f) : f \in Y} \cup {Settled(f) : f \in Z}
  BY <1>8
<1> QED  BY <1>3, <1>4, <1>5, <1>7, <1>9 DEF X, Y, Z

TradeOf(f, buy) ==
  [m |-> f.m, buy |-> buy, value |-> f.units * f.price, id |-> <<f.art, PurchaseId(f)>>]
FlowOf(Y, buy, m) == {TradeOf(y, buy) : y \in In(Y, m)}
Sold(inv) == {x.sale : x \in inv.sales}

\* The columns of a trade as the tables of the household see it.
LEMMA TradeOfIs ==
  ASSUME NEW f
  PROVE  /\ TradeOf(f, TRUE).buy /\ ~TradeOf(f, FALSE).buy
         /\ TradeOf(f, TRUE).m = f.m /\ TradeOf(f, FALSE).m = f.m
         /\ TradeOf(f, TRUE).value = f.units * f.price
         /\ TradeOf(f, FALSE).value = f.units * f.price
         /\ TradeOf(f, TRUE).id = <<f.art, PurchaseId(f)>>
         /\ TradeOf(f, FALSE).id = <<f.art, PurchaseId(f)>>
BY Zenon DEF TradeOf

\* Those trades are made fact by fact.
LEMMA TradesOfFacts ==
  ASSUME NEW inv
  PROVE  Trades(inv) = {TradeOf(f, TRUE) : f \in inv.purchases} \cup {TradeOf(f, FALSE) : f \in Sold(inv)}
<1>1. \A s : SaleId(s) = PurchaseId(s.sale)  BY DEF SaleId, PurchaseId
<1> DEFINE row(s) == [m |-> s.sale.m, buy |-> FALSE, value |-> s.sale.units * s.sale.price,
                      id |-> <<s.sale.art, SaleId(s)>>]
           A == {TradeOf(f, TRUE) : f \in inv.purchases}
           B == {row(s) : s \in inv.sales}
<1>2. Trades(inv) = A \cup B  BY Zenon DEF Trades, TradeOf
<1>3. \A s : row(s) = TradeOf(s.sale, FALSE)  BY <1>1, Zenon DEF TradeOf
<1> HIDE DEF row, A
<1>4. B = {TradeOf(f, FALSE) : f \in Sold(inv)}  BY <1>3 DEF Sold
<1> QED  BY <1>2, <1>4 DEF A

\* The purchases of a month, and its sales, come from those facts.
LEMMA FlowsAre ==
  ASSUME NEW inv, NEW m
  PROVE  /\ {t \in In(Trades(inv), m) : t.buy} = FlowOf(inv.purchases, TRUE, m)
         /\ {t \in In(Trades(inv), m) : ~t.buy} = FlowOf(Sold(inv), FALSE, m)
<1> DEFINE A == {TradeOf(f, TRUE) : f \in inv.purchases}
           B == {TradeOf(f, FALSE) : f \in Sold(inv)}
<1>1. Trades(inv) = A \cup B  BY TradesOfFacts
<1>2. \A t \in A : t.buy
  <2> SUFFICES ASSUME NEW f \in inv.purchases PROVE TradeOf(f, TRUE).buy  BY Zenon
  <2> QED  BY TradeOfIs
<1>3. \A t \in B : ~t.buy
  <2> SUFFICES ASSUME NEW f \in Sold(inv) PROVE ~TradeOf(f, FALSE).buy  BY Zenon
  <2> QED  BY TradeOfIs
<1>4. {t \in A : t.m = m} = FlowOf(inv.purchases, TRUE, m)
  <2>1. \A f : TradeOf(f, TRUE).m = f.m  BY TradeOfIs
  <2> QED  BY <2>1 DEF FlowOf, In
<1>5. {t \in B : t.m = m} = FlowOf(Sold(inv), FALSE, m)
  <2>1. \A f : TradeOf(f, FALSE).m = f.m  BY TradeOfIs
  <2> QED  BY <2>1 DEF FlowOf, In
<1> HIDE DEF A, B
<1>6. {t \in In(Trades(inv), m) : t.buy} = {t \in A : t.m = m}  BY <1>1, <1>2, <1>3, Zenon DEF In
<1>7. {t \in In(Trades(inv), m) : ~t.buy} = {t \in B : t.m = m}  BY <1>1, <1>2, <1>3, Zenon DEF In
<1> QED  BY <1>4, <1>5, <1>6, <1>7

\* What a flow comes to, when its facts have keys of their own.
FlowValue(R) == Sum([t \in R |-> t.value], R)

\* The flow of a month is worth its references, if their ids are unique.
LEMMA FlowWorth ==
  ASSUME NEW X, NEW Y, NEW buy \in BOOLEAN, NEW m, TradesKept(X), Y = {Settled(f) : f \in X},
         \A f, g \in X : Settled(f) = Settled(g) => f = g,
         \A a, b \in Y : PurchaseId(a) = PurchaseId(b) => a = b
  PROVE  FlowValue(FlowOf(Y, buy, m)) = WorthIn(X, m)
<1> DEFINE S == In(X, m)
           h == [f \in S |-> TradeOf(Settled(f), buy)]
           R == FlowOf(Y, buy, m)
           v == [t \in R |-> t.value]
<1>1. S \in SUBSET X /\ \A f \in X : f \in S <=> f.m = m  BY DEF In
<1>2. IsFiniteSet(S)  BY <1>1, FS_Subset DEF TradesKept
<1>3. \A f \in X : SettledAs(Settled(f), f)  BY SettledIs DEF TradesKept
<1>4. \A f \in S : h[f] = TradeOf(Settled(f), buy)  OBVIOUS
<1>5. \A y : TradeOf(y, buy).value = y.units * y.price /\ TradeOf(y, buy).id = <<y.art, PurchaseId(y)>>
  <2> TAKE y
  <2>1. CASE buy = TRUE  BY <2>1, TradeOfIs
  <2>2. CASE buy = FALSE  BY <2>2, TradeOfIs
  <2> QED  BY <2>1, <2>2
<1>6. R = ImageOf(h, S)
  <2>1. \A f \in X : Settled(f).m = f.m  BY <1>3 DEF SettledAs
  <2>2. In(Y, m) = {Settled(f) : f \in S}
    <3> HIDE DEF S
    <3> QED  BY <1>1, <2>1 DEF In
  <2>3. R = {TradeOf(Settled(f), buy) : f \in S}
    <3> DEFINE Ym == In(Y, m)
    <3>1. R = {TradeOf(y, buy) : y \in Ym}  BY DEF FlowOf
    <3>2. Ym = {Settled(f) : f \in S}  BY <2>2
    <3> HIDE DEF S, R, h, v, Ym
    <3> QED  BY <3>1, <3>2
  <2> HIDE DEF R, S
  <2> QED  BY <2>3 DEF ImageOf
<1>7. \A f \in S : h[f] \in R /\ v[h[f]] = h[f].value  BY <1>6 DEF ImageOf
<1> HIDE DEF S, h, R, v
<1>8. \A f, g \in S : h[f] = h[g] => f = g
  <2> SUFFICES ASSUME NEW f \in S, NEW g \in S, h[f] = h[g] PROVE f = g  OBVIOUS
  <2> DEFINE a == Settled(f)
             b == Settled(g)
  <2>1. TradeOf(a, buy).id = TradeOf(b, buy).id  BY <1>4
  <2>2. f \in X /\ g \in X /\ a \in Y /\ b \in Y  BY <1>1
  <2> HIDE DEF a, b
  <2>3. <<a.art, PurchaseId(a)>> = <<b.art, PurchaseId(b)>>  BY <1>5, <2>1
  <2>4. PurchaseId(a) = PurchaseId(b)
    <3> DEFINE k == PurchaseId(a)
               l == PurchaseId(b)
    <3>1. <<a.art, k>> = <<b.art, l>>  BY <2>3
    <3> HIDE DEF k, l
    <3>2. k = l  BY <3>1
    <3> QED  BY <3>2 DEF k, l
  <2>5. a = b  BY <2>2, <2>4
  <2> QED  BY <2>2, <2>5 DEF a, b
<1>9. \A f \in S : Worths(X)[f] \in Int /\ v[h[f]] = Worths(X)[f]
  <2> TAKE f \in S
  <2>1. f \in X  BY <1>1
  <2>2. Worths(X)[f] \in Int /\ Worths(X)[f] = f.units * f.price  BY <2>1, WorthsAre
  <2>3. Settled(f).units = f.units /\ Settled(f).price = f.price  BY <1>3, <2>1 DEF SettledAs
  <2>4. v[h[f]] = Settled(f).units * Settled(f).price
    <3>1. v[h[f]] = TradeOf(Settled(f), buy).value  BY <1>4, <1>7
    <3> QED  BY <1>5, <3>1
  <2> QED  BY <2>2, <2>3, <2>4
<1>10. \A f \in S : Worths(X)[f] \in Int  BY <1>9
<1>11. \A f \in S : v[h[f]] = Worths(X)[f]  BY <1>9
<1>12. Sum(v, R) = Sum(Worths(X), S)  BY <1>2, <1>6, <1>8, <1>10, <1>11, SumOfImage
<1> QED  BY <1>12 DEF v, R, S, FlowValue, WorthIn

\* What the load demands of the facts: an ISIN, and ids that are unique.
LEMMA LoadableFacts ==
  ASSUME NEW inv, FactsLoadable(inv)
  PROVE  /\ \A f \in inv.purchases : f.isin # Blank
         /\ \A y \in Sold(inv) : y.isin # Blank
         /\ \A a, b \in inv.purchases : PurchaseId(a) = PurchaseId(b) => a = b
         /\ \A a, b \in Sold(inv) : PurchaseId(a) = PurchaseId(b) => a = b
<1> DEFINE known == {i.isin : i \in inv.master}
<1>1. /\ MasterComplete(inv.master)
      /\ {f.isin : f \in inv.purchases \cup inv.market} \cup {s.sale.isin : s \in inv.sales} \subseteq known
  BY DEF FactsLoadable
<1>2. /\ \A a, b \in inv.purchases : PurchaseId(a) = PurchaseId(b) => a = b
      /\ \A a, b \in inv.sales : SaleId(a) = SaleId(b) => a = b
  BY Zenon DEF FactsLoadable
<1>3. Blank \notin known  BY <1>1 DEF MasterComplete
<1> HIDE DEF known
<1>4. \A f \in inv.purchases : f.isin # Blank  BY <1>1, <1>3
<1>5. \A s \in inv.sales : s.sale.isin # Blank  BY <1>1, <1>3
<1>6. \A s : SaleId(s) = PurchaseId(s.sale)  BY DEF SaleId, PurchaseId
<1>7. \A a, b \in Sold(inv) : PurchaseId(a) = PurchaseId(b) => a = b  BY <1>2, <1>6, Zenon DEF Sold
<1> QED  BY <1>2, <1>4, <1>5, <1>7 DEF Sold

\* The facts of one direction, and what they are worth.
SettledTrades(Y, p, fundType, type) ==
  /\ Y = {Settled(f) : f \in AllRefs(p, fundType, type)}
  /\ \A y \in Y : y.isin # Blank
  /\ \A a, b \in Y : PurchaseId(a) = PurchaseId(b) => a = b

WorthAgrees(worth, p, fundType, type, m) ==
  /\ worth = AllPaid(p, fundType, type, m)
  /\ FundPaid(p.fundOrders, fundType, m) \in Int
  /\ ValuePaid(p.stockOrders, type, m) \in Int
  /\ ValuePaid(p.usOrders, type, m) \in Int

\* What the facts of one direction come to is what the orders do.
LEMMA DirectionAgrees ==
  ASSUME NEW p, NEW fundType, NEW type, NEW Y, NEW buy \in BOOLEAN,
         PositionKept(p) /\ StatementsValid(p),
         SettledTrades(Y, p, fundType, type)
  PROVE  \A m : WorthAgrees(FlowValue(FlowOf(Y, buy, m)), p, fundType, type, m)
<1> TAKE m
<1>0. /\ Y = {Settled(f) : f \in AllRefs(p, fundType, type)}
      /\ \A y \in Y : y.isin # Blank
      /\ \A a, b \in Y : PurchaseId(a) = PurchaseId(b) => a = b
  BY DEF SettledTrades
<1> DEFINE X == AllRefs(p, fundType, type)
<1>1. RefsAgree(p, fundType, type)  BY RefsAre
<1>2. PositionKept(p) /\ RefsAgree(p, fundType, type)  BY <1>1
<1>3. TradesKept(X) /\ WorthIn(X, m) = AllPaid(p, fundType, type, m)  BY <1>2, AllRefsWorth
<1>4. \A f \in X : SettledAs(Settled(f), f)  BY <1>3, SettledIs DEF TradesKept
<1>5. \A f \in X : f.isin # Blank
  <2> TAKE f \in X
  <2>1. Settled(f) \in Y /\ Settled(f).isin = f.isin  BY <1>0, <1>4 DEF SettledAs
  <2> QED  BY <2>1, <1>0
<1>6. \A f, g \in X : Settled(f) = Settled(g) => f = g  BY <1>0, <1>2, <1>5, SettledApart
<1>7. Y = {Settled(f) : f \in X}  BY <1>0
<1> HIDE DEF X
<1>11. \A a, b \in Y : PurchaseId(a) = PurchaseId(b) => a = b  BY <1>0
<1>12. TradesKept(X)  BY <1>3
<1>8. FlowValue(FlowOf(Y, buy, m)) = WorthIn(X, m)  BY <1>6, <1>7, <1>11, <1>12, FlowWorth
<1>9. \A T : TradesKept(T) => WorthIn(T, m) \in Int
  <2> SUFFICES ASSUME NEW T, TradesKept(T) PROVE WorthIn(T, m) \in Int  OBVIOUS
  <2>1. In(T, m) \in SUBSET T  BY DEF In
  <2>2. IsFiniteSet(In(T, m))  BY <2>1, FS_Subset DEF TradesKept
  <2>3. \A t \in In(T, m) : Worths(T)[t] \in Int  BY <2>1, WorthsAre
  <2> QED  BY <2>2, <2>3, SumInt DEF WorthIn
<1>10. /\ FundPaid(p.fundOrders, fundType, m) \in Int
       /\ ValuePaid(p.stockOrders, type, m) \in Int
       /\ ValuePaid(p.usOrders, type, m) \in Int
  BY <1>1, <1>9 DEF RefsAgree
<1> QED  BY <1>3, <1>8, <1>10 DEF WorthAgrees

\* In a load that succeeds, the flow of a month is what its orders come to.
LEMMA FlowAgrees ==
  ASSUME NEW p, NEW gone, NEW m, PositionKept(p) /\ StatementsValid(p),
         FactsLoadable(InvestmentFactsOf(p, gone))
  PROVE  LET trades == Trades(InvestmentFactsOf(p, gone)) IN
         /\ Deployed(trades, m) \in Int /\ Redeemed(trades, m) \in Int
         /\ Deployed(trades, m) - Redeemed(trades, m) =
              (FundPaid(p.fundOrders, "PURCHASE", m) - FundPaid(p.fundOrders, "REDEEM", m))
              + (ValuePaid(p.stockOrders, "BUY", m) - ValuePaid(p.stockOrders, "SELL", m))
              + (ValuePaid(p.usOrders, "BUY", m) - ValuePaid(p.usOrders, "SELL", m))
<1> DEFINE inv == InvestmentFactsOf(p, gone)
           P == inv.purchases
           Q == Sold(inv)
<1>1. P = {Settled(f) : f \in AllRefs(p, "PURCHASE", "BUY")}  BY PurchasesAre DEF Purchased
<1>2. Q = {Settled(f) : f \in AllRefs(p, "REDEEM", "SELL")}  BY SalesAre DEF Disposed, Sold
<1>3. /\ \A f \in P : f.isin # Blank
      /\ \A y \in Q : y.isin # Blank
      /\ \A a, b \in P : PurchaseId(a) = PurchaseId(b) => a = b
      /\ \A a, b \in Q : PurchaseId(a) = PurchaseId(b) => a = b
  BY LoadableFacts
<1>4. /\ {t \in In(Trades(inv), m) : t.buy} = FlowOf(P, TRUE, m)
      /\ {t \in In(Trades(inv), m) : ~t.buy} = FlowOf(Q, FALSE, m)
  BY FlowsAre
<1>5. Deployed(Trades(inv), m) = FlowValue(FlowOf(P, TRUE, m))
  BY <1>4, Zenon DEF Deployed, Total, FlowValue, Sum
<1>6. Redeemed(Trades(inv), m) = FlowValue(FlowOf(Q, FALSE, m))
  BY <1>4, Zenon DEF Redeemed, Total, FlowValue, Sum
<1> HIDE DEF P, Q, inv
<1>7. SettledTrades(P, p, "PURCHASE", "BUY")  BY <1>1, <1>3 DEF SettledTrades
<1>8. SettledTrades(Q, p, "REDEEM", "SELL")  BY <1>2, <1>3 DEF SettledTrades
<1>9. PositionKept(p) /\ StatementsValid(p)  OBVIOUS
<1>10. WorthAgrees(FlowValue(FlowOf(P, TRUE, m)), p, "PURCHASE", "BUY", m)
  BY <1>7, <1>9, DirectionAgrees
<1>13. WorthAgrees(FlowValue(FlowOf(Q, FALSE, m)), p, "REDEEM", "SELL", m)
  BY <1>8, <1>9, DirectionAgrees
<1> DEFINE a1 == FundPaid(p.fundOrders, "PURCHASE", m)
           a2 == ValuePaid(p.stockOrders, "BUY", m)
           a3 == ValuePaid(p.usOrders, "BUY", m)
           b1 == FundPaid(p.fundOrders, "REDEEM", m)
           b2 == ValuePaid(p.stockOrders, "SELL", m)
           b3 == ValuePaid(p.usOrders, "SELL", m)
           d == Deployed(Trades(inv), m)
           e == Redeemed(Trades(inv), m)
<1>14. a1 \in Int /\ a2 \in Int /\ a3 \in Int /\ d = a1 + a2 + a3  BY <1>5, <1>10 DEF AllPaid, WorthAgrees
<1>15. b1 \in Int /\ b2 \in Int /\ b3 \in Int /\ e = b1 + b2 + b3  BY <1>6, <1>13 DEF AllPaid, WorthAgrees
<1> HIDE DEF a1, a2, a3, b1, b2, b3, d, e
<1>16. d \in Int /\ e \in Int /\ d - e = (a1 - b1) + (a2 - b2) + (a3 - b3)  BY <1>14, <1>15
<1> QED  BY <1>16 DEF a1, a2, a3, b1, b2, b3, d, e, inv

\* What the statements say was invested, broker by broker.
LEMMA InvestedIs ==
  ASSUME NEW m
  PROVE  Invested(m) =
           (FundPaid(position.fundOrders, "PURCHASE", m) - FundPaid(position.fundOrders, "REDEEM", m))
           + (ValuePaid(position.stockOrders, "BUY", m) - ValuePaid(position.stockOrders, "SELL", m))
           + (ValuePaid(position.usOrders, "BUY", m) - ValuePaid(position.usOrders, "SELL", m))
BY Zenon DEF Invested, FundPaid, ValuePaid

-----------------------------------------------------------------------------
(* Days of the facts.                                                       *)

\* Finitely many numbers.
Months(S) == IsFiniteSet(S) /\ S \subseteq Int

\* The months of finitely many rows are finitely many numbers.
LEMMA MonthsOf ==
  ASSUME NEW S, IsFiniteSet(S) /\ \A x \in S : x.m \in Int
  PROVE  Months({x.m : x \in S})
<1> DEFINE h == [x \in S |-> x.m]
<1>1. {x.m : x \in S} = {h[x] : x \in S}  OBVIOUS
<1> HIDE DEF h
<1>2. IsFiniteSet({h[x] : x \in S})  BY ImageFinite
<1> QED  BY <1>1, <1>2 DEF Months

\* So are those of two sets.
LEMMA MonthsTogether ==
  ASSUME NEW S, NEW T, Months(S) /\ Months(T) PROVE Months(S \cup T)
BY FS_Union DEF Months

\* The holdings a statement shows.
LEMMA FundMarketIs ==
  ASSUME NEW rows, HoldingsKept(rows)
  PROVE  IsFiniteSet(FundMarketRef(rows)) /\ \A h \in FundMarketRef(rows) : [h EXCEPT !.name = Blank].m \in Int
<1> DEFINE of(r) == {x \in FundHoldings(rows) : x.m = r.m /\ x.name = r.name}
           held(r) == Holding(Lookup(FundIsin, r.name, Blank), r, Total(LAMBDA x : x.units, of(r)),
                              Total(LAMBDA x : x.current, of(r)))
           S == FundHoldings(rows)
           h == [r \in S |-> held(r)]
<1>1. FundMarketRef(rows) = {held(r) : r \in S}  BY DEF FundMarketRef
<1>2. S \in SUBSET rows  BY DEF FundHoldings, Listed
<1>3. IsFiniteSet(S) /\ \A r \in S : r.m \in Nat  BY <1>2, FS_Subset DEF HoldingsKept
<1>4. \A r : [held(r) EXCEPT !.name = Blank].m = r.m  BY DEF Holding
<1> HIDE DEF held, S
<1>5. {held(r) : r \in S} = {h[r] : r \in S}  OBVIOUS
<1>6. IsFiniteSet({h[r] : r \in S})
  <2> HIDE DEF h
  <2> QED  BY <1>3, ImageFinite
<1>7. \A x \in {held(r) : r \in S} : [x EXCEPT !.name = Blank].m \in Int
  <2> SUFFICES ASSUME NEW r \in S PROVE [held(r) EXCEPT !.name = Blank].m \in Int  OBVIOUS
  <2>1. [held(r) EXCEPT !.name = Blank].m = r.m  BY <1>4
  <2> QED  BY <1>3, <2>1
<1> HIDE DEF h
<1> QED  BY <1>1, <1>5, <1>6, <1>7

\* Market days of the stocks have their months.
LEMMA StockMarketIs ==
  ASSUME NEW rows, HoldingsKept(rows)
  PROVE  IsFiniteSet(StockMarketRef(rows)) /\ \A h \in StockMarketRef(rows) : [h EXCEPT !.name = Blank].m \in Int
<1> DEFINE of(r) == {x \in StockHoldings(rows) : \A f \in {"m", "isin", "name", "price", "cost"} : x[f] = r[f]}
           units(r) == Total(LAMBDA x : x.units, of(r))
           held(r) == Holding(r.isin, r, units(r), units(r) * r.price)
           S == StockHoldings(rows)
           h == [r \in S |-> held(r)]
<1>1. StockMarketRef(rows) = {held(r) : r \in S}  BY DEF StockMarketRef
<1>2. S \in SUBSET rows  BY DEF StockHoldings, Listed
<1>3. IsFiniteSet(S) /\ \A r \in S : r.m \in Nat  BY <1>2, FS_Subset DEF HoldingsKept
<1>4. \A r : [held(r) EXCEPT !.name = Blank].m = r.m  BY DEF Holding
<1> HIDE DEF held, S
<1>5. {held(r) : r \in S} = {h[r] : r \in S}  OBVIOUS
<1>6. IsFiniteSet({h[r] : r \in S})
  <2> HIDE DEF h
  <2> QED  BY <1>3, ImageFinite
<1>7. \A x \in {held(r) : r \in S} : [x EXCEPT !.name = Blank].m \in Int
  <2> SUFFICES ASSUME NEW r \in S PROVE [held(r) EXCEPT !.name = Blank].m \in Int  OBVIOUS
  <2>1. [held(r) EXCEPT !.name = Blank].m = r.m  BY <1>4
  <2> QED  BY <1>3, <2>1
<1> HIDE DEF h
<1> QED  BY <1>1, <1>5, <1>6, <1>7

\* Market days of the facts have their months.
LEMMA MarketDays ==
  ASSUME NEW p, NEW gone, PositionKept(p)
  PROVE  Months({f.m : f \in InvestmentFactsOf(p, gone).market})
<1> DEFINE A == FundMarketRef(p.fundHoldings)
           B == StockMarketRef(p.stockHoldings)
           S == A \cup B
           g == [h \in S |-> [h EXCEPT !.name = Blank].m]
           M == InvestmentFactsOf(p, gone).market
<1>0. HoldingsKept(p.fundHoldings) /\ HoldingsKept(p.stockHoldings)  BY DEF PositionKept
<1>1. /\ IsFiniteSet(A) /\ \A h \in A : [h EXCEPT !.name = Blank].m \in Int
  BY <1>0, FundMarketIs
<1>2. IsFiniteSet(B) /\ \A h \in B : [h EXCEPT !.name = Blank].m \in Int
  BY <1>0, StockMarketIs
<1>3. M = {[h EXCEPT !.name = Blank] : h \in S}
  <2>1. M = MarketFacts({FundPipeline(p, gone).market, StockPipeline(p, gone).market,
                         UsPipeline(p, gone).market})
    BY BrokersAre
  <2>2. M = MarketFacts({A, B, {}})  BY <2>1, PipelinesAre
  <2>3. UNION {A, B, {}} = S  OBVIOUS
  <2> HIDE DEF A, B, S, M
  <2> QED  BY <2>2, <2>3 DEF MarketFacts
<1> HIDE DEF A, B, M
<1>4. IsFiniteSet(S)  BY <1>1, <1>2, FS_Union
<1>5. \A h \in S : g[h] \in Int  BY <1>1, <1>2
<1>6. {f.m : f \in M} = {g[h] : h \in S}  BY <1>3
<1> HIDE DEF g, S
<1>7. IsFiniteSet({g[h] : h \in S})  BY <1>4, ImageFinite
<1> QED  BY <1>5, <1>6, <1>7 DEF Months, M

\* Settled trades have their months.
LEMMA SettledDays ==
  ASSUME NEW X, TradesKept(X) PROVE Months({f.m : f \in {Settled(x) : x \in X}})
<1> DEFINE h == [x \in X |-> Settled(x).m]
<1>1. \A x \in X : Settled(x).m = x.m
  <2> TAKE x \in X
  <2>1. TradeShape(x)  BY DEF TradesKept
  <2> QED  BY <2>1, SettledIs DEF SettledAs
<1>2. {f.m : f \in {Settled(x) : x \in X}} = {h[x] : x \in X}  OBVIOUS
<1>3. \A x \in X : h[x] \in Int  BY <1>1 DEF TradesKept
<1> HIDE DEF h
<1>4. IsFiniteSet({h[x] : x \in X})  BY ImageFinite DEF TradesKept
<1> QED  BY <1>2, <1>3, <1>4 DEF Months

\* Purchases and sales have their months.
LEMMA TradeDays ==
  ASSUME NEW p, NEW gone, PositionKept(p) /\ StatementsValid(p)
  PROVE  /\ Months({f.m : f \in InvestmentFactsOf(p, gone).purchases})
         /\ Months({s.sale.m : s \in InvestmentFactsOf(p, gone).sales})
<1> DEFINE inv == InvestmentFactsOf(p, gone)
<1>0. PositionKept(p) /\ StatementsValid(p)  OBVIOUS
<1>1. PositionKept(p) /\ RefsAgree(p, "PURCHASE", "BUY")  BY <1>0, RefsAre
<1>2. PositionKept(p) /\ RefsAgree(p, "REDEEM", "SELL")  BY <1>0, RefsAre
<1>3. TradesKept(Purchased(p))  BY <1>1, AllRefsWorth DEF Purchased
<1>4. TradesKept(Disposed(p))  BY <1>2, AllRefsWorth DEF Disposed
<1>5. inv.purchases = {Settled(f) : f \in Purchased(p)}  BY PurchasesAre
<1>6. {x.sale : x \in inv.sales} = {Settled(f) : f \in Disposed(p)}  BY SalesAre
<1> HIDE DEF inv
<1>7. {s.sale.m : s \in inv.sales} = {f.m : f \in {x.sale : x \in inv.sales}}  OBVIOUS
<1>8. Months({f.m : f \in {Settled(x) : x \in Purchased(p)}})  BY <1>3, SettledDays
<1>9. Months({f.m : f \in {Settled(x) : x \in Disposed(p)}})  BY <1>4, SettledDays
<1> QED  BY <1>5, <1>6, <1>7, <1>8, <1>9 DEF inv

-----------------------------------------------------------------------------
(* What a run finds, and the facts it makes of it.                          *)

\* Legs of the journal, deleted ones too.
LegRows == {r \in journal : r.type \in {LEG_OUT, LEG_IN}}

DataKept ==
  /\ IsFiniteSet(journal)
  /\ \A r \in journal : r.amt \in Int \cup {Bad} /\ r.m \in Nat /\ r.acct \in Accounts
  /\ \A a, b \in LegRows : a.id = b.id => a = b
  /\ IsFiniteSet(openings)
  /\ \A o \in openings : o.amt \in Int \cup {Bad} /\ o.m \in Nat /\ o.acct \in Accounts
  /\ \A o, p \in openings : o.acct = p.acct /\ o.m = p.m => o = p
  /\ PositionKept(position)

FactsKept ==
  /\ Countable(IncomeFacts(journal)) /\ Countable(ExpenseFacts(journal))
  /\ Countable(TransferFacts(journal, dropped)) /\ Countable(LastOpenings(openings))
  /\ LegsClean /\ OpeningsKept
  /\ \A r \in IncomeFacts(journal) \cup ExpenseFacts(journal) : r.m \in Nat
  /\ \A r \in TransferFacts(journal, dropped) :
       r.m \in Nat /\ (r.analysed = r.m \/ r.analysed = r.m - 1)

\* The facts of valid inputs are finite, whole and on accounts.
LEMMA FactsAre ==
  ASSUME DataKept, InputsValid PROVE FactsKept
<1> DEFINE A == ActiveRows(journal)
<1>1. A \in SUBSET journal  BY DEF ActiveRows
<1>2. Countable(A) /\ \A r \in A : r.m \in Nat
  <2>1. IsFiniteSet(A)  BY <1>1, FS_Subset DEF DataKept
  <2>2. \A r \in A : r.amt # Bad  BY DEF InputsValid, AmountsValid
  <2> QED  BY <1>1, <2>1, <2>2 DEF DataKept, Countable
<1>3. IncomeFacts(journal) \in SUBSET A /\ ExpenseFacts(journal) \in SUBSET A
  BY DEF IncomeFacts, ExpenseFacts
<1>4. AllLegs \in SUBSET A /\ AllLegs \in SUBSET LegRows
  BY DEF AllLegs, Legs, LegRows, ActiveRows
<1> HIDE DEF A
<1>5. Countable(IncomeFacts(journal)) /\ Countable(ExpenseFacts(journal))
  <2>1. Countable(A) /\ IncomeFacts(journal) \in SUBSET A  BY <1>2, <1>3
  <2>2. Countable(A) /\ ExpenseFacts(journal) \in SUBSET A  BY <1>2, <1>3
  <2> QED  BY <2>1, <2>2, CountableParts
<1>6. \A r \in IncomeFacts(journal) \cup ExpenseFacts(journal) : r.m \in Nat  BY <1>2, <1>3
<1>7. LegsClean
  <2>1. Countable(A) /\ AllLegs \in SUBSET A  BY <1>2, <1>4
  <2>2. Countable(AllLegs)  BY <2>1, CountableParts
  <2>3. \A x, y \in AllLegs : x.id = y.id => x = y  BY <1>4 DEF DataKept
  <2> QED  BY <2>2, <2>3 DEF LegsClean, Countable
<1>8. TransferFacts(journal, dropped) = LegFacts(AllLegs, dropped)  BY TransfersAreLegs
<1>9. Countable(TransferFacts(journal, dropped))  BY <1>7, <1>8, LegFactsAmount
<1>10. \A r \in TransferFacts(journal, dropped) :
         r.m \in Nat /\ (r.analysed = r.m \/ r.analysed = r.m - 1)
  <2> SUFFICES ASSUME NEW r \in AllLegs
               PROVE  LET f == FactOfLeg(r, dropped) IN
                      f.m \in Nat /\ (f.analysed = f.m \/ f.analysed = f.m - 1)
    BY <1>8 DEF LegFacts, ImageOf
  <2>1. r.m \in Nat  BY <1>2, <1>4
  <2>2. FactOfLeg(r, dropped).m = r.m  BY DEF FactOfLeg
  <2>3. FactOfLeg(r, dropped).analysed =
          IF r.acct \in InvestmentGroup \ dropped THEN r.m - 1 ELSE r.m
    BY DEF FactOfLeg
  <2> QED  BY <2>1, <2>2, <2>3
<1>11. OpeningsKept  BY DEF DataKept, OpeningsKept
<1>12. Countable(LastOpenings(openings))
  <2>1. LastOpenings(openings) \in SUBSET openings  BY DEF LastOpenings
  <2>2. IsFiniteSet(LastOpenings(openings))  BY <2>1, FS_Subset DEF DataKept
  <2>3. \A o \in openings : o.amt \in Int  BY DEF DataKept, InputsValid
  <2> QED  BY <2>1, <2>2, <2>3 DEF Countable
<1> QED  BY <1>5, <1>6, <1>7, <1>9, <1>10, <1>11, <1>12 DEF FactsKept
-----------------------------------------------------------------------------
(* The calendar.                                                            *)

LEMMA SilverIs ==
  LET s == SilverTables IN
  /\ s.inc = IncomeFacts(journal) /\ s.exp = ExpenseFacts(journal)
  /\ s.trn = TransferFacts(journal, dropped) /\ s.inv = InvestmentFactsOf(position, dropped)
  /\ s.calendar = CalendarSpine(DatesOf(s.inc, s.exp, s.trn, s.inv))
<1> DEFINE inc == IncomeFacts(journal)
           exp == ExpenseFacts(journal)
           trn == TransferFacts(journal, dropped)
           inv == InvestmentFactsOf(position, dropped)
           cal == CalendarSpine(DatesOf(inc, exp, trn, inv))
<1>1. SilverTables = [inc |-> inc, exp |-> exp, trn |-> trn, inv |-> inv, calendar |-> cal]
  BY DEF SilverTables
<1>2. cal = CalendarSpine(DatesOf(inc, exp, trn, inv))  OBVIOUS
<1> HIDE DEF inc, exp, trn, inv, cal
<1> QED  BY <1>1, <1>2 DEF inc, exp, trn, inv

\* The dates of the facts are months, and every fact has its own.
LEMMA DatesAre ==
  ASSUME DataKept, InputsValid, NEW s, s = SilverTables
  PROVE  /\ Months(DatesOf(s.inc, s.exp, s.trn, s.inv))
         /\ \A r \in s.inc \cup s.exp \cup s.trn : r.m \in DatesOf(s.inc, s.exp, s.trn, s.inv)
<1>0. FactsKept  BY FactsAre
<1>1. /\ s.inc = IncomeFacts(journal) /\ s.exp = ExpenseFacts(journal)
      /\ s.trn = TransferFacts(journal, dropped) /\ s.inv = InvestmentFactsOf(position, dropped)
  BY SilverIs
<1> DEFINE R == s.inc \cup s.exp \cup s.trn
           A == {r.m : r \in R}
           B == {o.m : o \in openings}
           C == {f.m : f \in s.inv.market}
           D == {f.m : f \in s.inv.purchases}
           E == {x.sale.m : x \in s.inv.sales}
<1>2. IsFiniteSet(R) /\ \A r \in R : r.m \in Int
  <2>1. IsFiniteSet(s.inc) /\ IsFiniteSet(s.exp) /\ IsFiniteSet(s.trn)
    BY <1>0, <1>1 DEF FactsKept, Countable
  <2>2. IsFiniteSet(s.inc \cup s.exp)  BY <2>1, FS_Union
  <2>3. IsFiniteSet(R)  BY <2>1, <2>2, FS_Union
  <2>4. \A r \in s.inc \cup s.exp : r.m \in Nat  BY <1>0, <1>1 DEF FactsKept
  <2>5. \A r \in s.trn : r.m \in Nat  BY <1>0, <1>1 DEF FactsKept
  <2> QED  BY <2>3, <2>4, <2>5
<1>3. Months(A)
  <2> HIDE DEF R
  <2> QED  BY <1>2, MonthsOf
<1>4. Months(B)
  <2>1. IsFiniteSet(openings) /\ \A x \in openings : x.m \in Int  BY DEF DataKept
  <2> QED  BY <2>1, MonthsOf
<1>5. Months(B \ {NoDate})
  <2>1. B \ {NoDate} \in SUBSET B  OBVIOUS
  <2> QED  BY <1>4, <2>1, FS_Subset DEF Months
<1>6. PositionKept(position) /\ StatementsValid(position)  BY DEF DataKept, InputsValid
<1>7. Months(C)  BY <1>1, <1>6, MarketDays
<1>8. Months(D) /\ Months(E)  BY <1>1, <1>6, TradeDays
<1>9. DatesOf(s.inc, s.exp, s.trn, s.inv) = ((A \cup (B \ {NoDate})) \cup (C \cup D)) \cup E
  BY DEF DatesOf
<1>10. \A r \in R : r.m \in A  OBVIOUS
<1> HIDE DEF A, B, C, D, E
<1>11. Months(A \cup (B \ {NoDate})) /\ Months(C \cup D)
  BY <1>3, <1>5, <1>7, <1>8, MonthsTogether
<1>12. Months((A \cup (B \ {NoDate})) \cup (C \cup D))  BY <1>11, MonthsTogether
<1>13. Months(DatesOf(s.inc, s.exp, s.trn, s.inv))  BY <1>8, <1>9, <1>12, MonthsTogether
<1> QED  BY <1>9, <1>10, <1>13

\* Every fact, and every month it is analysed in, has its day.
LEMMA CalendarIs ==
  ASSUME DataKept, InputsValid, NEW s, s = SilverTables
  PROVE  /\ IsFiniteSet(s.calendar) /\ s.calendar \subseteq Int
         /\ \A r \in s.inc \cup s.exp \cup s.trn :
              r.m \in s.calendar /\ (r \in s.trn => r.analysed \in s.calendar)
<1> DEFINE D == DatesOf(s.inc, s.exp, s.trn, s.inv)
<1>1. Months(D) /\ \A r \in s.inc \cup s.exp \cup s.trn : r.m \in D  BY DatesAre
<1>2. s.calendar = CalendarSpine(D) /\ s.trn = TransferFacts(journal, dropped)  BY SilverIs
<1>3. FactsKept  BY FactsAre
<1> HIDE DEF D
<1>6. IsFiniteSet(D) /\ D \subseteq Int  BY <1>1 DEF Months
<1>4. /\ IsFiniteSet(s.calendar) /\ s.calendar \subseteq Int
      /\ \A m \in D : m \in s.calendar /\ m - 1 \in s.calendar
  <2>1. /\ IsFiniteSet(CalendarSpine(D)) /\ CalendarSpine(D) \subseteq Int
        /\ \A m \in D : m \in CalendarSpine(D) /\ m - 1 \in CalendarSpine(D)
    BY <1>6, SpineCovers
  <2> QED  BY <1>2, <2>1
<1>5. \A r \in s.trn : r.analysed = r.m \/ r.analysed = r.m - 1  BY <1>2, <1>3 DEF FactsKept
<1> QED  BY <1>1, <1>4, <1>5

-----------------------------------------------------------------------------
(* The tables of a run that was loaded.                                     *)

RunIncome == IncomeFacts(journal)
RunExpenses == ExpenseFacts(journal)
RunTransfers == TransferFacts(journal, dropped)
RunGrid == MonthGrid(openings, SilverTables.calendar)
RunLedger == UnifiedLedger(openings, RunIncome, RunExpenses, RunTransfers, dropped)
RunSummary == NetWorthSummary(RunLedger, RunGrid, dropped, position.lots)
RunTotals == MonthlyTotals(RunSummary, position.lots)
RunTrades == Trades(InvestmentFactsOf(position, dropped))

\* What a load has found.
RunSound == DataKept /\ InputsValid /\ Loadable(SilverTables)

\* The wealth tables of a run, by name.
LEMMA WealthIs ==
  LET w == WealthTables(SilverTables) IN w.summary = RunSummary /\ w.totals = RunTotals
<1> DEFINE s == SilverTables
           grid == MonthGrid(openings, s.calendar)
           ledger == UnifiedLedger(openings, s.inc, s.exp, s.trn, dropped)
           summary == NetWorthSummary(ledger, grid, dropped, position.lots)
           totals == MonthlyTotals(summary, position.lots)
           inflation == [m \in grid |-> InflationOf(m, Inflation, Fallback)]
<1>1. WealthTables(s) = [summary |-> summary, totals |-> totals, inflation |-> inflation]
  BY DEF WealthTables
<1>2. ledger = RunLedger  BY SilverIs DEF RunLedger, RunIncome, RunExpenses, RunTransfers
<1>3. grid = RunGrid  BY DEF RunGrid
<1> HIDE DEF ledger, grid
<1>4. summary = RunSummary  BY <1>2, <1>3 DEF RunSummary
<1> HIDE DEF summary
<1>5. totals = RunTotals  BY <1>4 DEF RunTotals
<1> HIDE DEF totals, inflation
<1> QED  BY <1>1, <1>4, <1>5

\* The presentation tables of a run, by name.
LEMMA MartsAre ==
  LET x == PresentationTables(SilverTables, WealthTables(SilverTables)) IN
  /\ x.statement = CashflowStatement(RunSummary, RunTotals, RunIncome, RunExpenses, RunTransfers, dropped)
  /\ x.summary = MonthlySummary(RunTotals, RunIncome, RunTrades)
  /\ x.spend = SpendAnalytics(RunExpenses, DOMAIN RunTotals, dropped)
  /\ x.streams = IncomeStreams(RunIncome, DOMAIN RunTotals)
  /\ x.budget = Budget(RunTotals, RunTrades, BudgetPct, 6)
<1> DEFINE s == SilverTables
           w == WealthTables(s)
           trades == Trades(s.inv)
           months == DOMAIN w.totals
           statement == CashflowStatement(w.summary, w.totals, s.inc, s.exp, s.trn, dropped)
           summary == MonthlySummary(w.totals, s.inc, trades)
           spend == SpendAnalytics(s.exp, months, dropped)
           streams == IncomeStreams(s.inc, months)
           budget == Budget(w.totals, trades, BudgetPct, 6)
           holdings == [m \in months |-> InvestmentAnalytics(position.lots, m, Target, Tolerance)]
<1>1. PresentationTables(s, w) =
        [statement |-> statement, summary |-> summary, spend |-> spend, streams |-> streams,
         budget |-> budget, holdings |-> holdings]
  BY DEF PresentationTables
<1>2. w.summary = RunSummary /\ w.totals = RunTotals  BY WealthIs
<1>3. /\ s.inc = RunIncome /\ s.exp = RunExpenses /\ s.trn = RunTransfers
      /\ trades = RunTrades
  BY SilverIs DEF RunIncome, RunExpenses, RunTransfers, RunTrades
<1> HIDE DEF trades, s, w
<1>4. statement = CashflowStatement(RunSummary, RunTotals, RunIncome, RunExpenses, RunTransfers, dropped)
  BY <1>2, <1>3
<1>5. summary = MonthlySummary(RunTotals, RunIncome, RunTrades)  BY <1>2, <1>3
<1>6. spend = SpendAnalytics(RunExpenses, DOMAIN RunTotals, dropped)  BY <1>2, <1>3
<1>7. streams = IncomeStreams(RunIncome, DOMAIN RunTotals)  BY <1>2, <1>3
<1>8. budget = Budget(RunTotals, RunTrades, BudgetPct, 6)  BY <1>2, <1>3
<1> HIDE DEF statement, summary, spend, streams, budget, holdings
<1> QED  BY <1>1, <1>4, <1>5, <1>6, <1>7, <1>8 DEF s, w

\* The months of the tables are finitely many numbers, with a total each.
LEMMA GridIs ==
  ASSUME DataKept, InputsValid
  PROVE  /\ IsFiniteSet(RunGrid) /\ RunGrid \subseteq Int
         /\ DOMAIN RunTotals = RunGrid
         /\ \A m \in RunGrid : RunTotals[m].t = BalanceTotals(RunSummary, m)
<1>1. RunGrid \in SUBSET SilverTables.calendar  BY DEF RunGrid, MonthGrid
<1>2. IsFiniteSet(SilverTables.calendar) /\ SilverTables.calendar \subseteq Int
  BY CalendarIs
<1>3. DOMAIN RunSummary = RunGrid  BY DEF RunSummary, NetWorthSummary
<1>4. /\ DOMAIN RunTotals = DOMAIN RunSummary
      /\ \A m \in DOMAIN RunSummary : RunTotals[m].t = BalanceTotals(RunSummary, m)
  BY MonthlyTotalsAre DEF RunTotals
<1> QED  BY <1>1, <1>2, <1>3, <1>4, FS_Subset

\* There are finitely many accounts.
LEMMA LiveFinite == IsFiniteSet(LiveAccounts(dropped))
<1>1. LiveAccounts(dropped) \in SUBSET Accounts  BY DEF LiveAccounts
<1> QED  BY <1>1, BooksData, FS_Subset

\* What is loaded names live accounts, and its keys are unique.
LEMMA LoadedFacts ==
  ASSUME RunSound
  PROVE  /\ FactsKept /\ RowsKept(openings, RunIncome, RunExpenses, RunTransfers)
         /\ \A r \in RunIncome \cup RunExpenses \cup RunTransfers \cup openings :
              r.acct \in LiveAccounts(dropped)
         /\ FactsLoadable(InvestmentFactsOf(position, dropped))
<1> DEFINE s == SilverTables
<1>0. FactsKept  BY FactsAre DEF RunSound
<1>1. Loadable(s)  BY DEF RunSound
<1>2. /\ s.inc = RunIncome /\ s.exp = RunExpenses /\ s.trn = RunTransfers
      /\ s.inv = InvestmentFactsOf(position, dropped)
  BY SilverIs DEF RunIncome, RunExpenses, RunTransfers
<1> HIDE DEF s
<1>3. /\ \A r \in s.inc \cup s.exp : r.acct \notin dropped
      /\ \A r \in s.trn : r.acct \notin dropped /\ r.to \notin dropped
      /\ \A o \in openings : o.acct \notin dropped
      /\ FactsLoadable(s.inv)
  BY <1>1 DEF Loadable
<1>4. /\ \A a, b \in s.inc : a.id = b.id => a = b
      /\ \A a, b \in s.exp : a.id = b.id => a = b
      /\ \A a, b \in s.trn : a.id = b.id => a = b
      /\ \A a, b \in openings : a.id = b.id => a = b
  BY <1>1 DEF Loadable
<1>5. LastOpenings(openings) \in SUBSET openings  BY DEF LastOpenings
<1>6. RowsKept(openings, RunIncome, RunExpenses, RunTransfers)
  BY <1>0, <1>2, <1>4, <1>5
     DEF RowsKept, IdsUnique, FactsKept, RunIncome, RunExpenses, RunTransfers
<1>7. \A r \in RunIncome \cup RunExpenses \cup RunTransfers \cup openings : r.acct \in Accounts
  <2>1. \A r \in RunIncome \cup RunExpenses : r.acct \in Accounts
    BY DEF RunSound, DataKept, RunIncome, RunExpenses, IncomeFacts, ExpenseFacts, ActiveRows
  <2>2. \A o \in openings : o.acct \in Accounts  BY DEF RunSound, DataKept
  <2>3. \A r \in RunTransfers : r.acct \in Accounts
    <3>1. RunTransfers = LegFacts(AllLegs, dropped)  BY TransfersAreLegs DEF RunTransfers
    <3> SUFFICES ASSUME NEW r \in AllLegs PROVE FactOfLeg(r, dropped).acct \in Accounts
      BY <3>1 DEF LegFacts, ImageOf
    <3>2. r.acct \in Accounts  BY DEF RunSound, DataKept, AllLegs, Legs, ActiveRows
    <3> QED  BY <3>2, FactOfLegIs
  <2> QED  BY <2>1, <2>2, <2>3
<1> QED  BY <1>0, <1>2, <1>3, <1>6, <1>7 DEF LiveAccounts

-----------------------------------------------------------------------------
(* Net worth.                                                               *)

Loaded ==
  /\ RunSound /\ published.silver = SilverTables
  /\ published.books = WealthTables(SilverTables)
  /\ published.marts = PresentationTables(SilverTables, WealthTables(SilverTables))

RunRow(a, m) == RowAgrees(openings, RunIncome, RunExpenses, RunTransfers, dropped, RunGrid, m, position.lots, a)
RunMonth(m) == TotalsAgree(openings, RunIncome, RunExpenses, RunTransfers, dropped, RunGrid, m, position.lots)

\* The totals and the rows of a run's month in terms of its facts.
LEMMA RunAgrees ==
  ASSUME RunSound, NEW m \in RunGrid
  PROVE  RunMonth(m) /\ \A a \in LiveAccounts(dropped) : RunRow(a, m)
<1>1. /\ RowsKept(openings, RunIncome, RunExpenses, RunTransfers)
      /\ IsFiniteSet(RunGrid) /\ RunGrid \subseteq Int /\ m \in RunGrid
  BY LoadedFacts, GridIs DEF RunSound
<1>2. RunMonth(m)  BY <1>1, LiveFinite, TotalsOfMonth DEF RunMonth
<1>3. ASSUME NEW a \in LiveAccounts(dropped) PROVE RunRow(a, m)
  BY <1>1, AccountRow DEF RunRow
<1> QED  BY <1>2, <1>3

\* What is published are the tables of the run.
LEMMA LoadedTables ==
  ASSUME Loaded
  PROVE  /\ Grid = RunGrid /\ Facts.inc = RunIncome /\ Facts.exp = RunExpenses
         /\ Facts.trn = RunTransfers /\ published.books.summary = RunSummary
         /\ published.books.totals = RunTotals
<1>1. published.books.summary = RunSummary /\ published.books.totals = RunTotals
  BY WealthIs DEF Loaded
<1>2. DOMAIN RunTotals = RunGrid  BY GridIs DEF Loaded, RunSound
<1>3. /\ Facts.inc = RunIncome /\ Facts.exp = RunExpenses /\ Facts.trn = RunTransfers
  BY SilverIs DEF Loaded, Facts, RunIncome, RunExpenses, RunTransfers
<1> QED  BY <1>1, <1>2, <1>3 DEF Grid

\* What the accounts have booked until m is what the household owns.
LEMMA OwnWorthIs ==
  ASSUME Loaded, NEW m
  PROVE  OwnWorth(m) =
           NetBooked(LastOpenings(openings), RunIncome, RunExpenses, RunTransfers,
                     LiveAccounts(dropped), Until(RunGrid, m))
<1> DEFINE live == LiveAccounts(dropped)
           K == Until(RunGrid, m)
           counted(rows) == {r \in rows : r.m \in Grid /\ r.m <= m}
           O == UNION {Opened(a) : a \in live}
<1>1. /\ FactsKept
      /\ \A r \in RunIncome \cup RunExpenses \cup RunTransfers \cup openings : r.acct \in live
  BY LoadedFacts DEF Loaded
<1>2. /\ Grid = RunGrid /\ Facts.inc = RunIncome /\ Facts.exp = RunExpenses
  BY LoadedTables
<1>3. OwnWorth(m) = Amount(counted(O)) + Amount(counted(RunIncome))
                      - Amount(counted(RunExpenses)) + Amount(counted(LooseLegs))
  BY <1>2, Zenon DEF OwnWorth
<1>4. \A rows : counted(rows) = {r \in rows : r.m \in K}  BY <1>2 DEF Until
<1>5. O = {o \in LastOpenings(openings) : o.acct \in live}
  BY <1>1, OpenedRows DEF FactsKept
<1> HIDE DEF live, K, O, counted
<1>6. counted(O) = Of(LastOpenings(openings), live, K)  BY <1>4, <1>5 DEF Of
<1>7. counted(RunIncome) = Of(RunIncome, live, K)  BY <1>1, <1>4 DEF Of
<1>8. counted(RunExpenses) = Of(RunExpenses, live, K)  BY <1>1, <1>4 DEF Of
<1>9. Amount(counted(LooseLegs)) = Amount(Of(RunTransfers, live, K))
  <2>1. LegsClean  BY <1>1 DEF FactsKept
  <2>2. Amount({r \in RunTransfers : r.m \in K}) = Amount({r \in LooseLegs : r.m \in K})
    BY <2>1, TransfersAreLoose DEF RunTransfers
  <2>3. {r \in RunTransfers : r.m \in K} = Of(RunTransfers, live, K)  BY <1>1 DEF Of
  <2> QED  BY <1>4, <2>2, <2>3
<1> QED  BY <1>3, <1>6, <1>7, <1>8, <1>9 DEF NetBooked, Booked, live, K

\* Net worth is explained.
LEMMA NetWorthIs ==
  ASSUME Loaded, NEW m \in RunGrid PROVE NetWorthExplained(m)
<1> DEFINE t == published.books.totals[m].t
<1>1. RunMonth(m) /\ \A a \in LiveAccounts(dropped) : RunRow(a, m)  BY RunAgrees DEF Loaded
<1>2. t = BalanceTotals(RunSummary, m)  BY GridIs, LoadedTables DEF Loaded, RunSound
<1>3. published.books.summary = RunSummary  BY LoadedTables
<1> HIDE DEF t
<1>4. /\ t.Net_Worth = NetBooked(LastOpenings(openings), RunIncome, RunExpenses, RunTransfers,
                                 LiveAccounts(dropped), Until(RunGrid, m))
      /\ t.Assets - t.Liabilities = t.Net_Worth
  BY <1>1, <1>2 DEF RunMonth, TotalsAgree, RunSummary, RunLedger
<1>5. \A a \in LiveAccounts(dropped) : published.books.summary[m][a].Organic_Growth = 0
  <2> TAKE a \in LiveAccounts(dropped)
  <2>1. RunRow(a, m)  BY <1>1
  <2>2. RunSummary[m][a].Organic_Growth = 0  BY <2>1 DEF RunRow, RowAgrees, RunSummary, RunLedger
  <2> QED  BY <1>3, <2>2
<1>6. OwnWorth(m) = t.Net_Worth  BY <1>4, OwnWorthIs
<1> QED  BY <1>4, <1>5, <1>6 DEF NetWorthExplained, t

-----------------------------------------------------------------------------
(* Tables by category.                                                      *)

LEMMA CategorySum ==
  ASSUME NEW X, NEW S, NEW g, Countable(X) /\ S \in SUBSET X,
         \A c \in Categories(X) : g[c] = Amount({r \in S : r.cat = c})
  PROVE  Sum(g, Categories(X)) = Amount(S)
<1> DEFINE lab == [r \in S |-> r.cat]
           h == [r \in X |-> r.cat]
           L == Categories(X)
<1>1. Countable(S)  BY CountableParts
<1>2. IsFiniteSet(L)
  <2>1. L = {h[r] : r \in X}  BY DEF Categories
  <2> HIDE DEF h, L
  <2> QED  BY <2>1, ImageFinite DEF Countable
<1>3. \A x \in S : lab[x] \in L  BY DEF Categories
<1>4. \A l \in L : g[l] = Amount(PartOf(S, lab, l))
  <2> TAKE l \in L
  <2>1. PartOf(S, lab, l) = {r \in S : r.cat = l}  BY DEF PartOf
  <2> QED  BY <2>1
<1>5. IsFiniteSet(S) /\ \A r \in S : r.amt \in Int  BY <1>1 DEF Countable
<1> HIDE DEF lab, L
<1> QED  BY <1>2, <1>3, <1>4, <1>5, AmountOfParts DEF L

SpendOf(exp, m, c) == {r \in In(exp, m) : r.cat = c}
CashSpendOf(exp, m, c, gone) == {r \in SpendOf(exp, m, c) : ~IsNonCashPnl(r.acct, gone)}

\* The spending table adds up the expenses of a category.
LEMMA SpendIs ==
  ASSUME NEW exp, NEW months, NEW gone, NEW m \in months,
         NEW x, x = SpendAnalytics(exp, months, gone)[m]
  PROVE  /\ DOMAIN x = Categories(exp)
         /\ \A c \in Categories(exp) : /\ x[c].Spend = Amount(SpendOf(exp, m, c))
                                       /\ x[c].Cash_Spend = Amount(CashSpendOf(exp, m, c, gone))
<1> DEFINE of(c, k) == {r \in In(exp, k) : r.cat = c}
           spend(c) == [k \in months |-> Amount(of(c, k))]
           avg(c) == Trailing(spend(c), months, m, 3)
           row(c) == [ Spend |-> spend(c)[m],
                       Cash_Spend |-> Amount({r \in of(c, m) : ~IsNonCashPnl(r.acct, gone)}),
                       Count |-> Cardinality(of(c, m)),
                       YTD |-> Total(LAMBDA k : spend(c)[k], {k \in months : YearOf(k) = YearOf(m) /\ k <= m}),
                       Trailing_3M |-> IF avg(c).over = 3 THEN avg(c).sum ELSE Bad,
                       Is_Core |-> c \in Core ]
<1>1. x = [c \in Categories(exp) |-> row(c)]  BY DEF SpendAnalytics
<1>2. \A c : row(c).Spend = Amount(of(c, m))
  <2> TAKE c
  <2>1. row(c).Spend = spend(c)[m]  OBVIOUS
  <2>2. spend(c)[m] = Amount(of(c, m))  OBVIOUS
  <2> HIDE DEF row, spend
  <2> QED  BY <2>1, <2>2
<1>3. \A c : row(c).Cash_Spend = Amount({r \in of(c, m) : ~IsNonCashPnl(r.acct, gone)})  OBVIOUS
<1>4. \A c : of(c, m) = SpendOf(exp, m, c)  BY DEF SpendOf
<1> HIDE DEF row, of
<1> QED  BY <1>1, <1>2, <1>3, <1>4 DEF CashSpendOf

\* The income table adds up the income of a category.
LEMMA StreamsAre ==
  ASSUME NEW inc, NEW months, NEW m \in months, NEW x, x = IncomeStreams(inc, months)[m]
  PROVE  /\ DOMAIN x = Categories(inc)
         /\ \A c \in Categories(inc) : x[c].Income = Amount(SpendOf(inc, m, c))
<1> DEFINE of(c, k) == {r \in In(inc, k) : r.cat = c}
           income(c) == [k \in months |-> Amount(of(c, k))]
           avg(c) == Trailing(income(c), months, m, 3)
           row(c) == [ Income |-> income(c)[m],
                       YTD |-> Total(LAMBDA k : income(c)[k], {k \in months : YearOf(k) = YearOf(m) /\ k <= m}),
                       Trailing_3M |-> IF avg(c).over = 3 THEN avg(c).sum ELSE Bad,
                       Is_Passive |-> c \in Dividend \cup Interest, Is_Non_Cash |-> c \in NonCash ]
<1>1. x = [c \in Categories(inc) |-> row(c)]  BY DEF IncomeStreams
<1>2. \A c : row(c).Income = Amount(of(c, m))
  <2> TAKE c
  <2>1. row(c).Income = income(c)[m]  OBVIOUS
  <2>2. income(c)[m] = Amount(of(c, m))  OBVIOUS
  <2> HIDE DEF row, income
  <2> QED  BY <2>1, <2>2
<1>4. \A c : of(c, m) = SpendOf(inc, m, c)  BY DEF SpendOf
<1> HIDE DEF row, of
<1> QED  BY <1>1, <1>2, <1>4

\* The tables by category add up to the totals.
LEMMA CategoriesAre ==
  ASSUME Loaded, NEW m \in RunGrid PROVE CategoriesAddUp(m)
<1> DEFINE t == published.books.totals[m].t
           spend == published.marts.spend[m]
           streams == published.marts.streams[m]
           live == LiveAccounts(dropped)
<1>1. /\ FactsKept
      /\ \A r \in RunIncome \cup RunExpenses \cup RunTransfers \cup openings : r.acct \in live
  BY LoadedFacts DEF Loaded
<1>2. /\ published.marts.spend = SpendAnalytics(RunExpenses, RunGrid, dropped)
      /\ published.marts.streams = IncomeStreams(RunIncome, RunGrid)
  BY MartsAre, GridIs DEF Loaded, RunSound
<1>3. t = BalanceTotals(RunSummary, m)  BY GridIs, LoadedTables DEF Loaded, RunSound
<1>4. RunMonth(m)  BY RunAgrees DEF Loaded
<1>5. Countable(RunIncome) /\ Countable(RunExpenses)
  BY <1>1 DEF FactsKept, RunIncome, RunExpenses
<1> HIDE DEF t
<1>6. /\ t.Income = Booked(RunIncome, live, {m}) /\ t.Expense = Booked(RunExpenses, live, {m})
      /\ t.Cash_Expense = Booked(RunExpenses, live, {m})
                            - Booked(NonCashExpense(RunExpenses, dropped), live, {m})
  BY <1>3, <1>4 DEF RunMonth, TotalsAgree, RunSummary, RunLedger
<1>7. /\ In(RunIncome, m) = Of(RunIncome, live, {m})
      /\ In(RunExpenses, m) = Of(RunExpenses, live, {m})
  BY <1>1 DEF In, Of
<1>8. /\ DOMAIN spend = Categories(RunExpenses)
      /\ \A c \in Categories(RunExpenses) :
           /\ spend[c].Spend = Amount(SpendOf(RunExpenses, m, c))
           /\ spend[c].Cash_Spend = Amount(CashSpendOf(RunExpenses, m, c, dropped))
  BY <1>2, SpendIs
<1>9. /\ DOMAIN streams = Categories(RunIncome)
      /\ \A c \in Categories(RunIncome) : streams[c].Income = Amount(SpendOf(RunIncome, m, c))
  BY <1>2, StreamsAre
<1> HIDE DEF spend, streams, live
<1>10. Total(LAMBDA c : spend[c].Spend, DOMAIN spend) = t.Expense
  <2> DEFINE D == Categories(RunExpenses)
             g == [c \in D |-> spend[c].Spend]
  <2>1. Total(LAMBDA c : spend[c].Spend, DOMAIN spend) = Sum(g, D)  BY <1>8 DEF Total, Sum
  <2>2. \A c \in D : g[c] = Amount({r \in In(RunExpenses, m) : r.cat = c})  BY <1>8 DEF SpendOf
  <2>3. Countable(RunExpenses) /\ In(RunExpenses, m) \in SUBSET RunExpenses  BY <1>5 DEF In
  <2> HIDE DEF g
  <2>4. Sum(g, D) = Amount(In(RunExpenses, m))  BY <2>2, <2>3, CategorySum
  <2> QED  BY <1>6, <1>7, <2>1, <2>4 DEF Booked
<1>11. Total(LAMBDA c : streams[c].Income, DOMAIN streams) = t.Income
  <2> DEFINE D == Categories(RunIncome)
             g == [c \in D |-> streams[c].Income]
  <2>1. Total(LAMBDA c : streams[c].Income, DOMAIN streams) = Sum(g, D)  BY <1>9 DEF Total, Sum
  <2>2. \A c \in D : g[c] = Amount({r \in In(RunIncome, m) : r.cat = c})  BY <1>9 DEF SpendOf
  <2>3. Countable(RunIncome) /\ In(RunIncome, m) \in SUBSET RunIncome  BY <1>5 DEF In
  <2> HIDE DEF g
  <2>4. Sum(g, D) = Amount(In(RunIncome, m))  BY <2>2, <2>3, CategorySum
  <2> QED  BY <1>6, <1>7, <2>1, <2>4 DEF Booked
<1>12. Total(LAMBDA c : spend[c].Cash_Spend, DOMAIN spend) = t.Cash_Expense
  <2> DEFINE D == Categories(RunExpenses)
             g == [c \in D |-> spend[c].Cash_Spend]
             E == In(RunExpenses, m)
             C == {r \in E : ~IsNonCashPnl(r.acct, dropped)}
             N == {r \in E : IsNonCashPnl(r.acct, dropped)}
  <2>1. Total(LAMBDA c : spend[c].Cash_Spend, DOMAIN spend) = Sum(g, D)  BY <1>8 DEF Total, Sum
  <2>2. \A c \in D : g[c] = Amount({r \in C : r.cat = c})
    <3> TAKE c \in D
    <3>1. CashSpendOf(RunExpenses, m, c, dropped) = {r \in C : r.cat = c}  BY DEF CashSpendOf, SpendOf
    <3> QED  BY <1>8, <3>1
  <2>3. Countable(RunExpenses) /\ C \in SUBSET RunExpenses  BY <1>5 DEF In
  <2>4. Countable(RunExpenses) /\ E \in SUBSET RunExpenses  BY <1>5 DEF In
  <2>5. Countable(E)  BY <2>4, CountableParts
  <2>6. E \ N = C /\ N \in SUBSET E  OBVIOUS
  <2>7. N = Of(NonCashExpense(RunExpenses, dropped), live, {m})
    BY <1>7 DEF Of, NonCashExpense
  <2> HIDE DEF g, E, C, N
  <2>8. Sum(g, D) = Amount(C)  BY <2>2, <2>3, CategorySum
  <2>9. Countable(E) /\ N \in SUBSET E  BY <2>5, <2>6
  <2>10. /\ Amount(E) = Amount(N) + Amount(E \ N)
         /\ Amount(E) \in Int /\ Amount(N) \in Int /\ Amount(E \ N) \in Int
    BY <2>9, AmountSplit
  <2>11. Amount(C) = Amount(E) - Amount(N)
    <3>1. Amount(E) = Amount(N) + Amount(C) /\ Amount(C) \in Int  BY <2>6, <2>10, Zenon
    <3>2. Amount(N) \in Int  BY <2>10
    <3>3. \A a, b, c \in Int : a = b + c => c = a - b  OBVIOUS
    <3>4. Amount(E) \in Int  BY <2>10
    <3> QED  BY <3>1, <3>2, <3>3, <3>4
  <2>12. t.Cash_Expense = Amount(E) - Amount(N)  BY <1>6, <1>7, <2>7 DEF Booked, E
  <2> QED  BY <2>1, <2>8, <2>11, <2>12
<1> QED  BY <1>10, <1>11, <1>12, Zenon DEF CategoriesAddUp, t, spend, streams

-----------------------------------------------------------------------------
(* The summary, the budget and the investments.                             *)

LEMMA SavingsAre ==
  ASSUME NEW totals, NEW trades, NEW inc, NEW m \in DOMAIN totals,
         NEW b, b = Budget(totals, trades, BudgetPct, 6)[m].actual,
         NEW s, s = MonthlySummary(totals, inc, trades)[m]
  PROVE  LET t == totals[m].t
             flow == Deployed(trades, m) - Redeemed(trades, m) IN
         /\ b.savings = t.Cash_Income - t.Core_Expense - (t.Expense - t.Core_Expense) - flow
         /\ s.Net_Investment_Flow = flow
         /\ s.Net_Surplus_After_Invest = (t.Cash_Income - t.Expense) - flow
<1> DEFINE t == totals[m].t
           flow == Deployed(trades, m) - Redeemed(trades, m)
           surplus == t.Cash_Income - t.Expense
<1>1. b = InvestmentActuals(totals, trades, m)  BY DEF Budget
<1>2. b.savings = t.Cash_Income - t.Core_Expense - (t.Expense - t.Core_Expense) - flow
  BY <1>1 DEF InvestmentActuals
<1>3. s.Net_Investment_Flow = flow /\ s.Net_Surplus_After_Invest = surplus - flow
  BY DEF MonthlySummary
<1> QED  BY <1>2, <1>3

\* The budget agrees with the summary, and the summary with the statements.
LEMMA BudgetIs ==
  ASSUME Loaded, NEW m \in RunGrid PROVE BudgetAgrees(m) /\ InvestmentsAgree(m)
<1> DEFINE t == RunTotals[m].t
           live == LiveAccounts(dropped)
           d == Deployed(RunTrades, m)
           r == Redeemed(RunTrades, m)
           savings == published.marts.budget[m].actual.savings
           summary == published.marts.summary[m]
<1>1. /\ FactsKept /\ FactsLoadable(InvestmentFactsOf(position, dropped))
  BY LoadedFacts DEF Loaded
<1>2. PositionKept(position) /\ StatementsValid(position)
  BY DEF Loaded, RunSound, DataKept, InputsValid
<1>3. /\ d \in Int /\ r \in Int /\ d - r = Invested(m)
  <2> HIDE DEF d, r
  <2>1. /\ d \in Int /\ r \in Int
        /\ d - r =
              (FundPaid(position.fundOrders, "PURCHASE", m) - FundPaid(position.fundOrders, "REDEEM", m))
              + (ValuePaid(position.stockOrders, "BUY", m) - ValuePaid(position.stockOrders, "SELL", m))
              + (ValuePaid(position.usOrders, "BUY", m) - ValuePaid(position.usOrders, "SELL", m))
    BY <1>1, <1>2, FlowAgrees DEF d, r, RunTrades
  <2>2. Invested(m) =
              (FundPaid(position.fundOrders, "PURCHASE", m) - FundPaid(position.fundOrders, "REDEEM", m))
              + (ValuePaid(position.stockOrders, "BUY", m) - ValuePaid(position.stockOrders, "SELL", m))
              + (ValuePaid(position.usOrders, "BUY", m) - ValuePaid(position.usOrders, "SELL", m))
    BY InvestedIs
  <2> QED  BY <2>1, <2>2
<1>4. t = BalanceTotals(RunSummary, m) /\ DOMAIN RunTotals = RunGrid
  BY GridIs DEF Loaded, RunSound
<1>5. RunMonth(m)  BY RunAgrees DEF Loaded
<1>6. Countable(RunIncome) /\ Countable(RunExpenses)
  BY <1>1 DEF FactsKept, RunIncome, RunExpenses
<1>7. t.Cash_Income \in Int /\ t.Expense \in Int /\ t.Core_Expense \in Int
  <2>1. NonCashIncome(RunIncome) \in SUBSET RunIncome /\ CoreExpense(RunExpenses) \in SUBSET RunExpenses
    BY DEF NonCashIncome, CoreExpense
  <2>2. Countable(NonCashIncome(RunIncome)) /\ Countable(CoreExpense(RunExpenses))
    BY <1>6, <2>1, CountableParts
  <2>3. Booked(RunIncome, live, {m}) \in Int /\ Booked(RunExpenses, live, {m}) \in Int
    BY <1>6, BookedIsInt
  <2>4. /\ Booked(NonCashIncome(RunIncome), live, {m}) \in Int
        /\ Booked(CoreExpense(RunExpenses), live, {m}) \in Int
    BY <2>2, BookedIsInt
  <2> HIDE DEF t
  <2>5. /\ t.Cash_Income = Booked(RunIncome, live, {m}) - Booked(NonCashIncome(RunIncome), live, {m})
        /\ t.Expense = Booked(RunExpenses, live, {m})
        /\ t.Core_Expense = Booked(CoreExpense(RunExpenses), live, {m})
    BY <1>4, <1>5 DEF RunMonth, TotalsAgree, RunSummary, RunLedger
  <2> QED  BY <2>3, <2>4, <2>5
<1>8. /\ published.marts.budget = Budget(RunTotals, RunTrades, BudgetPct, 6)
      /\ published.marts.summary = MonthlySummary(RunTotals, RunIncome, RunTrades)
  BY MartsAre DEF Loaded
<1>9. m \in DOMAIN RunTotals  BY <1>4
<1>10. /\ savings = t.Cash_Income - t.Core_Expense - (t.Expense - t.Core_Expense) - (d - r)
       /\ summary.Net_Investment_Flow = d - r
       /\ summary.Net_Surplus_After_Invest = (t.Cash_Income - t.Expense) - (d - r)
  BY <1>8, <1>9, SavingsAre
<1> DEFINE i == t.Cash_Income
           e == t.Expense
           c == t.Core_Expense
<1>11. i \in Int /\ e \in Int /\ c \in Int  BY <1>7
<1>12. /\ savings = i - c - (e - c) - (d - r) /\ summary.Net_Investment_Flow = d - r
       /\ summary.Net_Surplus_After_Invest = (i - e) - (d - r)
  BY <1>10
<1> HIDE DEF i, e, c, d, r, savings, summary
<1>13. savings = summary.Net_Surplus_After_Invest  BY <1>3, <1>11, <1>12
<1>14. BudgetAgrees(m)  BY <1>13 DEF BudgetAgrees, savings, summary
<1>15. InvestmentsAgree(m)  BY <1>3, <1>12 DEF InvestmentsAgree, summary
<1> QED  BY <1>14, <1>15

-----------------------------------------------------------------------------
(* The cash statement.                                                      *)

Activities == {"INTERNAL_TRANSFER", "OPERATING", "INVESTING", "FINANCING", "UNCLASSIFIED"}

\* The legs whose counterparty gives an activity.
LegsTo(T, gone, x) == {r \in T : CounterpartyType(r.to, gone) = x}

\* A counterparty has one of the activities, and cash is the internal one.
LEMMA CounterpartyIs ==
  ASSUME NEW a, NEW gone
  PROVE  /\ CounterpartyType(a, gone) \in Activities
         /\ CounterpartyType(a, gone) = "INTERNAL_TRANSFER" <=> a \in CashPool(gone)
<1>1. CASE a \notin LiveAccounts(gone)
  BY <1>1 DEF CounterpartyType, CashPool, Activities
<1>2. CASE a \in LiveAccounts(gone)
  <2>1. CounterpartyType(a, gone) = ActivityType(a)  BY <1>2 DEF CounterpartyType
  <2>2. /\ Role[a] = "CASH_POOL" => ActivityType(a) = "INTERNAL_TRANSFER"
        /\ Role[a] # "CASH_POOL" => ActivityType(a) \in Activities \ {"INTERNAL_TRANSFER"}
    BY DEF ActivityType, Activities
  <2> QED  BY <1>2, <2>1, <2>2 DEF CashPool, Activities
<1> QED  BY <1>1, <1>2

\* The five activities share the legs out.
LEMMA LegsByActivity ==
  ASSUME NEW T, NEW gone, Countable(T)
  PROVE  /\ \A x : Amount(LegsTo(T, gone, x)) \in Int
         /\ Amount(T) = Amount(LegsTo(T, gone, "OPERATING")) + Amount(LegsTo(T, gone, "INVESTING"))
              + Amount(LegsTo(T, gone, "FINANCING")) + Amount(LegsTo(T, gone, "INTERNAL_TRANSFER"))
              + Amount(LegsTo(T, gone, "UNCLASSIFIED"))
<1> DEFINE P(x) == LegsTo(T, gone, x)
           A == T \ P("OPERATING")
           B == A \ P("INVESTING")
           C == B \ P("FINANCING")
           D == C \ P("INTERNAL_TRANSFER")
<1>1. \A r \in T : CounterpartyType(r.to, gone) \in Activities  BY CounterpartyIs
<1>2. /\ P("OPERATING") \in SUBSET T /\ P("INVESTING") \in SUBSET A
      /\ P("FINANCING") \in SUBSET B /\ P("INTERNAL_TRANSFER") \in SUBSET C
  BY DEF LegsTo
<1>3. D = P("UNCLASSIFIED")  BY <1>1 DEF LegsTo, Activities
<1>4. \A x : P(x) \in SUBSET T  BY DEF LegsTo
<1>5. \A x : Amount(P(x)) \in Int
  <2> TAKE x
  <2>1. Countable(T) /\ P(x) \in SUBSET T  BY <1>4
  <2> HIDE DEF P
  <2> QED  BY <2>1, CountableParts
<1>6. A \in SUBSET T /\ B \in SUBSET T /\ C \in SUBSET T  OBVIOUS
<1> HIDE DEF P, A, B, C, D
<1>7. Countable(A) /\ Countable(B) /\ Countable(C)  BY <1>6, CountableParts
<1>8. Countable(T) /\ P("OPERATING") \in SUBSET T  BY <1>2
<1>9. Countable(A) /\ P("INVESTING") \in SUBSET A  BY <1>2, <1>7
<1>10. Countable(B) /\ P("FINANCING") \in SUBSET B  BY <1>2, <1>7
<1>11. Countable(C) /\ P("INTERNAL_TRANSFER") \in SUBSET C  BY <1>2, <1>7
<1>12. Amount(T) = Amount(P("OPERATING")) + Amount(A)  BY <1>8, AmountSplit DEF A
<1>13. Amount(A) = Amount(P("INVESTING")) + Amount(B)  BY <1>9, AmountSplit DEF B
<1>14. Amount(B) = Amount(P("FINANCING")) + Amount(C)  BY <1>10, AmountSplit DEF C
<1>15. Amount(C) = Amount(P("INTERNAL_TRANSFER")) + Amount(D)  BY <1>11, AmountSplit DEF D
<1>16. \A a, b, c, d, e \in Int : a + (b + (c + (d + e))) = a + b + c + d + e  OBVIOUS
<1>17. Amount(T) = Amount(P("OPERATING")) + Amount(P("INVESTING")) + Amount(P("FINANCING"))
                     + Amount(P("INTERNAL_TRANSFER")) + Amount(P("UNCLASSIFIED"))
  BY <1>3, <1>5, <1>12, <1>13, <1>14, <1>15, <1>16
<1> QED  BY <1>5, <1>17 DEF P

\* What comes in by an activity and what goes out of it are its legs.
LEMMA FlowsNet ==
  ASSUME NEW trn, NEW m, NEW gone, NEW x, Countable(trn)
  PROVE  LET in == TransferFlow(trn, m, gone, x, TRUE)
             out == TransferFlow(trn, m, gone, x, FALSE) IN
         /\ in \in Int /\ out \in Int
         /\ in + out = Amount(LegsTo(OnCash(trn, m, gone), gone, x))
<1> DEFINE T == LegsTo(OnCash(trn, m, gone), gone, x)
           I == {r \in T : r.amt > 0}
           O == {r \in T : r.amt < 0}
           Z == (T \ I) \ O
<1>1. TransferFlow(trn, m, gone, x, TRUE) = Amount(I)
  <2>1. {r \in OnCash(trn, m, gone) : /\ CounterpartyType(r.to, gone) = x
                                      /\ IF TRUE THEN r.amt > 0 ELSE r.amt < 0} = I
    BY DEF LegsTo
  <2> HIDE DEF I
  <2> QED  BY <2>1 DEF TransferFlow
<1>2. TransferFlow(trn, m, gone, x, FALSE) = Amount(O)
  <2>1. {r \in OnCash(trn, m, gone) : /\ CounterpartyType(r.to, gone) = x
                                      /\ IF FALSE THEN r.amt > 0 ELSE r.amt < 0} = O
    BY DEF LegsTo
  <2> HIDE DEF O
  <2> QED  BY <2>1 DEF TransferFlow
<1>3. Countable(trn) /\ T \in SUBSET trn  BY DEF LegsTo, OnCash, In
<1> HIDE DEF T
<1>4. Countable(T)  BY <1>3, CountableParts
<1>5. Countable(T) /\ I \in SUBSET T  BY <1>4
<1>6. Countable(T) /\ T \ I \in SUBSET T  BY <1>4
<1>7. Countable(T \ I)  BY <1>6, CountableParts
<1>8. Countable(T \ I) /\ O \in SUBSET T \ I  BY <1>4, <1>7 DEF Countable
<1>9. Countable(T \ I) /\ Z \in SUBSET T \ I  BY <1>7
<1>10. Countable(Z)  BY <1>9, CountableParts
<1>11. \A r \in Z : r.amt = 0  BY <1>4 DEF Countable
<1>12. Amount(Z) = 0
  <2>1. IsFiniteSet(Z) /\ \A r \in Z : r.amt \in Int  BY <1>10 DEF Countable
  <2> HIDE DEF Z
  <2>2. Z \in SUBSET Z  OBVIOUS
  <2>3. Amount(Z) = Sum(AmtOf(Z), Z)  BY <2>1, <2>2, AmountIs
  <2>4. \A r \in Z : AmtOf(Z)[r] = 0  BY <1>11 DEF AmtOf
  <2>5. IsFiniteSet(Z) /\ 0 \in Int  BY <2>1
  <2>6. Sum(AmtOf(Z), Z) = 0 * Cardinality(Z)  BY <2>4, <2>5, SumConst
  <2>7. Cardinality(Z) \in Nat  BY <2>1, FS_CardinalityType
  <2> QED  BY <2>3, <2>6, <2>7
<1> HIDE DEF I, O, Z
<1>13. /\ Amount(T) = Amount(I) + Amount(T \ I)
       /\ Amount(I) \in Int /\ Amount(T \ I) \in Int
  BY <1>5, AmountSplit
<1>14. /\ Amount(T \ I) = Amount(O) + Amount(Z) /\ Amount(O) \in Int
  BY <1>8, AmountSplit DEF Z
<1>15. \A a, b, c, d \in Int : a = b + c /\ c = d + 0 => b + d = a  OBVIOUS
<1>16. Amount(T) \in Int  BY <1>5, AmountSplit
<1>17. Amount(T \ I) = Amount(O) + 0  BY <1>12, <1>14
<1>18. Amount(I) + Amount(O) = Amount(T)  BY <1>13, <1>14, <1>15, <1>16, <1>17
<1> DEFINE in == TransferFlow(trn, m, gone, x, TRUE)
           out == TransferFlow(trn, m, gone, x, FALSE)
<1> HIDE DEF in, out
<1>19. in = Amount(I) /\ out = Amount(O)  BY <1>1, <1>2 DEF in, out
<1>20. in \in Int /\ out \in Int /\ in + out = Amount(T)  BY <1>13, <1>14, <1>18, <1>19
<1> QED  BY <1>20 DEF T, in, out

CashOpening(s, m, gone) == Sum([a \in CashPool(gone) |-> s[m][a].Opening_Balance], CashPool(gone))
CashClosing(s, m, gone) == Sum([a \in CashPool(gone) |-> s[m][a].Closing_Balance], CashPool(gone))

\* Opening and closing cash are sums over the cash accounts.
LEMMA CashBalancesAre ==
  ASSUME NEW s, NEW m, NEW gone
  PROVE  LET c == CashBalances(s, m, gone) IN
         c.opening = CashOpening(s, m, gone) /\ c.closing = CashClosing(s, m, gone)
<1> DEFINE o == Total(LAMBDA a : s[m][a].Opening_Balance, CashPool(gone))
           c == Total(LAMBDA a : s[m][a].Closing_Balance, CashPool(gone))
<1>1. CashBalances(s, m, gone) = [opening |-> o, closing |-> c]  BY DEF CashBalances
<1>2. o = CashOpening(s, m, gone)  BY DEF Total, Sum, CashOpening
<1>3. c = CashClosing(s, m, gone)  BY DEF Total, Sum, CashClosing
<1> HIDE DEF o, c
<1> QED  BY <1>1, <1>2, <1>3

\* A row of the statement, its flows signed as the legs are.
CalculatedNet(inc, exp, trn, gone, m) ==
  LET flow(y, inward) == TransferFlow(trn, m, gone, y, inward) IN
  ((Amount(OnCash(inc, m, gone)) + flow("OPERATING", TRUE))
     - (Amount(OnCash(exp, m, gone)) + (-flow("OPERATING", FALSE))))
    + (flow("INVESTING", TRUE) - (-flow("INVESTING", FALSE)))
    + (flow("FINANCING", TRUE) - (-flow("FINANCING", FALSE)))
    + (flow("INTERNAL_TRANSFER", TRUE) - (-flow("INTERNAL_TRANSFER", FALSE)))

StatementAgrees(x, s, inc, exp, trn, gone, m) ==
  /\ x.Opening_Cash = CashOpening(s, m, gone) /\ x.Closing_Cash = CashClosing(s, m, gone)
  /\ x.Net_Internal_Transfers =
       TransferFlow(trn, m, gone, "INTERNAL_TRANSFER", TRUE)
         - (-TransferFlow(trn, m, gone, "INTERNAL_TRANSFER", FALSE))
  /\ x.Unreconciled_Difference =
       (CashClosing(s, m, gone) - CashOpening(s, m, gone)) - CalculatedNet(inc, exp, trn, gone, m)

\* The cash statement in terms of the flows of its month.
LEMMA StatementIs ==
  ASSUME NEW s, NEW totals, NEW inc, NEW exp, NEW trn, NEW gone, NEW m \in DOMAIN totals
  PROVE  StatementAgrees(CashflowStatement(s, totals, inc, exp, trn, gone)[m], s, inc, exp, trn, gone, m)
<1> DEFINE x == CashflowStatement(s, totals, inc, exp, trn, gone)[m]
<1> DEFINE in(activity) == TransferFlow(trn, m, gone, activity, TRUE)
           out(activity) == -TransferFlow(trn, m, gone, activity, FALSE)
           cash == CashBalances(s, m, gone)
           operatingIn == Amount(OnCash(inc, m, gone)) + in("OPERATING")
           operatingOut == Amount(OnCash(exp, m, gone)) + out("OPERATING")
           net == (operatingIn - operatingOut) + (in("INVESTING") - out("INVESTING"))
                  + (in("FINANCING") - out("FINANCING"))
                  + (in("INTERNAL_TRANSFER") - out("INTERNAL_TRANSFER"))
           movement == cash.closing - cash.opening
           inflow == operatingIn + in("INVESTING") + in("FINANCING") + in("INTERNAL_TRANSFER")
           outflow == operatingOut + out("INVESTING") + out("FINANCING") + out("INTERNAL_TRANSFER")
           row == [ Opening_Cash |-> cash.opening, Closing_Cash |-> cash.closing,
                    Net_Cash_Movement |-> movement,
                    Net_Operating |-> operatingIn - operatingOut,
                    Net_Internal_Transfers |-> in("INTERNAL_TRANSFER") - out("INTERNAL_TRANSFER"),
                    Cash_Expenses |-> totals[m].t.Cash_Expense,
                    Non_Cash_Expenses |-> totals[m].t.Non_Cash_Expense,
                    Inflow |-> inflow, Outflow |-> outflow,
                    Calculated_Net_Cashflow |-> net,
                    Unreconciled_Difference |-> movement - net ]
<1>1. x = row  BY DEF CashflowStatement
<1>2. cash.opening = CashOpening(s, m, gone) /\ cash.closing = CashClosing(s, m, gone)
  BY CashBalancesAre
<1>3. /\ row.Opening_Cash = cash.opening /\ row.Closing_Cash = cash.closing
      /\ row.Net_Internal_Transfers = in("INTERNAL_TRANSFER") - out("INTERNAL_TRANSFER")
      /\ row.Unreconciled_Difference = movement - net
  <2> HIDE DEF movement, net, in, out, operatingIn, operatingOut, inflow, outflow, cash
  <2> QED  OBVIOUS
<1> HIDE DEF row
<1>4. /\ x.Opening_Cash = CashOpening(s, m, gone) /\ x.Closing_Cash = CashClosing(s, m, gone)
      /\ x.Net_Internal_Transfers = in("INTERNAL_TRANSFER") - out("INTERNAL_TRANSFER")
      /\ x.Unreconciled_Difference = (CashClosing(s, m, gone) - CashOpening(s, m, gone)) - net
  <2> HIDE DEF net, in, out, cash
  <2> QED  BY <1>1, <1>2, <1>3 DEF movement
<1>5. net = CalculatedNet(inc, exp, trn, gone, m)  BY Zenon DEF CalculatedNet
<1> HIDE DEF net, x
<1>6. StatementAgrees(x, s, inc, exp, trn, gone, m)  BY <1>4, <1>5, Zenon DEF StatementAgrees
<1> QED  BY <1>6 DEF x

RunCash == CashPool(dropped)
OpeningOn(m) == [a \in RunCash |-> RunSummary[m][a].Opening_Balance]
ClosingOn(m) == [a \in RunCash |-> RunSummary[m][a].Closing_Balance]

\* What the rows of all kinds but the opening balances come to.
MovedOn(A, m) == NetBooked({}, RunIncome, RunExpenses, RunTransfers, A, {m})

\* There are finitely many cash accounts.
LEMMA CashFinite == IsFiniteSet(RunCash) /\ RunCash \subseteq LiveAccounts(dropped)
<1>1. RunCash \in SUBSET LiveAccounts(dropped)  BY DEF RunCash, CashPool
<1> QED  BY <1>1, LiveFinite, FS_Subset

\* The facts of a run are countable.
LEMMA RunCountable ==
  ASSUME RunSound
  PROVE  /\ AllCountable({}, RunIncome, RunExpenses, RunTransfers)
         /\ AllCountable(LastOpenings(openings), RunIncome, RunExpenses, RunTransfers)
<1>1. FactsKept  BY LoadedFacts
<1>2. Countable({})  BY FS_EmptySet DEF Countable
<1> QED  BY <1>1, <1>2 DEF AllCountable, FactsKept, RunIncome, RunExpenses, RunTransfers

\* What moves on accounts in a month: income less spending and transfers.
LEMMA MovedIs ==
  ASSUME RunSound, NEW A, NEW m
  PROVE  /\ MovedOn(A, m) \in Int
         /\ MovedOn(A, m) = Booked(RunIncome, A, {m}) - Booked(RunExpenses, A, {m})
                              + Booked(RunTransfers, A, {m})
<1>1. Booked({}, A, {m}) = 0
  <2>1. Of({}, A, {m}) = {}  BY DEF Of
  <2>2. IsFiniteSet({}) /\ \A r \in {} : r.amt \in Int  BY FS_EmptySet
  <2>3. {} \in SUBSET {}  OBVIOUS
  <2>4. Amount({}) = Sum(AmtOf({}), {})  BY <2>2, <2>3, AmountIs
  <2> QED  BY <2>1, <2>4, SumNone DEF Booked
<1>2. AllCountable({}, RunIncome, RunExpenses, RunTransfers)  BY RunCountable
<1>3. /\ Booked(RunIncome, A, {m}) \in Int /\ Booked(RunExpenses, A, {m}) \in Int
      /\ Booked(RunTransfers, A, {m}) \in Int
  BY <1>2, BookedIsInt DEF AllCountable
<1>4. \A i, e, t \in Int : 0 + i - e + t \in Int /\ 0 + i - e + t = i - e + t  OBVIOUS
<1>5. MovedOn(A, m) = 0 + Booked(RunIncome, A, {m}) - Booked(RunExpenses, A, {m})
                              + Booked(RunTransfers, A, {m})
  BY <1>1 DEF MovedOn, NetBooked
<1> QED  BY <1>3, <1>4, <1>5

\* A cash account closes with its opening and what moved, and opens as it closed.
LEMMA CashRows ==
  ASSUME RunSound, NEW m \in RunGrid, NEW a \in RunCash
  PROVE  /\ OpeningOn(m)[a] \in Int /\ ClosingOn(m)[a] \in Int
         /\ ClosingOn(m)[a] = OpeningOn(m)[a] + MovedOn({a}, m)
         /\ ClosingOn(m)[a] = NetBooked(LastOpenings(openings), RunIncome, RunExpenses, RunTransfers,
                                        {a}, Until(RunGrid, m))
         /\ OpeningOn(m)[a] = NetBooked(LastOpenings(openings), RunIncome, RunExpenses, RunTransfers,
                                        {a}, Until(RunGrid, m - 1))
                                + Booked(LastOpenings(openings), {a}, {m})
<1> DEFINE before == NetBooked(LastOpenings(openings), RunIncome, RunExpenses, RunTransfers,
                               {a}, Until(RunGrid, m - 1))
           until == NetBooked(LastOpenings(openings), RunIncome, RunExpenses, RunTransfers,
                              {a}, Until(RunGrid, m))
           opened == Booked(LastOpenings(openings), {a}, {m})
           o == RunSummary[m][a].Opening_Balance
           c == RunSummary[m][a].Closing_Balance
<1>1. a \in LiveAccounts(dropped)  BY CashFinite
<1>2. RunRow(a, m)  BY <1>1, RunAgrees
<1>3. /\ c = until /\ o = before + opened
      /\ c = o + (Booked(RunIncome, {a}, {m}) - Booked(RunExpenses, {a}, {m})
                   + Booked(RunTransfers, {a}, {m}))
  BY <1>2 DEF RunRow, RowAgrees, RunSummary, RunLedger
<1>4. before \in Int /\ until \in Int  BY RunCountable, NetBookedIsInt
<1>5. opened \in Int  BY RunCountable, BookedIsInt DEF AllCountable
<1>6. MovedOn({a}, m) = Booked(RunIncome, {a}, {m}) - Booked(RunExpenses, {a}, {m})
                          + Booked(RunTransfers, {a}, {m})
  BY MovedIs
<1>7. OpeningOn(m)[a] = o /\ ClosingOn(m)[a] = c  BY DEF OpeningOn, ClosingOn
<1> HIDE DEF before, until, opened, o, c
<1>8. o \in Int /\ c \in Int /\ c = o + MovedOn({a}, m)  BY <1>3, <1>4, <1>5, <1>6
<1> QED  BY <1>3, <1>7, <1>8 DEF before, until, opened

\* The cash moves by what is booked on it, and goes on in the next month.
LEMMA CashMoves ==
  ASSUME RunSound, NEW m \in RunGrid
  PROVE  /\ CashOpening(RunSummary, m, dropped) \in Int
         /\ CashClosing(RunSummary, m, dropped) \in Int
         /\ CashClosing(RunSummary, m, dropped) =
              CashOpening(RunSummary, m, dropped) + MovedOn(RunCash, m)
<1> DEFINE f == OpeningOn(m)
           h == ClosingOn(m)
           g == [a \in RunCash |-> MovedOn({a}, m)]
<1>1. \A a \in RunCash : f[a] \in Int /\ h[a] \in Int /\ h[a] = f[a] + MovedOn({a}, m)
  BY CashRows
<1>2. \A a \in RunCash : g[a] = MovedOn({a}, m) /\ g[a] \in Int  BY MovedIs
<1>3. IsFiniteSet(RunCash)  BY CashFinite
<1>4. \A a \in RunCash : g[a] = NetBooked({}, RunIncome, RunExpenses, RunTransfers, {a}, {m})
  BY <1>2 DEF MovedOn
<1>5. CashOpening(RunSummary, m, dropped) = Sum(f, RunCash)
  BY DEF CashOpening, OpeningOn, RunCash
<1>6. CashClosing(RunSummary, m, dropped) = Sum(h, RunCash)
  BY DEF CashClosing, ClosingOn, RunCash
<1> HIDE DEF f, g, h
<1>7. AllCountable({}, RunIncome, RunExpenses, RunTransfers) /\ IsFiniteSet(RunCash)
  BY <1>3, RunCountable
<1>8. Sum(g, RunCash) = MovedOn(RunCash, m)  BY <1>4, <1>7, NetByAccount DEF MovedOn
<1>9. \A a \in RunCash : f[a] \in Int /\ g[a] \in Int /\ h[a] = f[a] + g[a]  BY <1>1, <1>2
<1>10. Sum(h, RunCash) = Sum(f, RunCash) + Sum(g, RunCash)  BY <1>3, <1>9, SumPlus
<1>11. Sum(f, RunCash) \in Int  BY <1>1, <1>3, SumInt
<1>12. Sum(h, RunCash) \in Int  BY <1>1, <1>3, SumInt
<1> QED  BY <1>5, <1>6, <1>8, <1>10, <1>11, <1>12

\* A month opens with the cash of the last one and the balances booked in it.
LEMMA CashGoesOn ==
  ASSUME RunSound, NEW m \in RunGrid, m + 1 \in RunGrid
  PROVE  CashOpening(RunSummary, m + 1, dropped) =
           CashClosing(RunSummary, m, dropped) + Booked(LastOpenings(openings), RunCash, {m + 1})
<1> DEFINE n == m + 1
           f == ClosingOn(m)
           h == OpeningOn(n)
           g == [a \in RunCash |-> Booked(LastOpenings(openings), {a}, {n})]
<1>0. m \in Int  BY GridIs DEF RunSound
<1>1. \A a \in RunCash : g[a] = Booked(LastOpenings(openings), {a}, {n})  OBVIOUS
<1>2. \A a \in RunCash : g[a] \in Int
  BY <1>1, RunCountable, BookedIsInt DEF AllCountable
<1>3. CashOpening(RunSummary, n, dropped) = Sum(h, RunCash)
  BY DEF CashOpening, OpeningOn, RunCash
<1>4. CashClosing(RunSummary, m, dropped) = Sum(f, RunCash)
  BY DEF CashClosing, ClosingOn, RunCash
<1>5. n - 1 = m /\ n \in RunGrid  BY <1>0
<1> HIDE DEF n
<1>6. \A a \in RunCash : f[a] \in Int /\ h[a] = f[a] + g[a]
  <2> TAKE a \in RunCash
  <2>1. /\ OpeningOn(n)[a] = NetBooked(LastOpenings(openings), RunIncome, RunExpenses, RunTransfers,
                                       {a}, Until(RunGrid, n - 1))
                               + Booked(LastOpenings(openings), {a}, {n})
    BY <1>5, CashRows
  <2>2. /\ ClosingOn(m)[a] \in Int
        /\ ClosingOn(m)[a] = NetBooked(LastOpenings(openings), RunIncome, RunExpenses, RunTransfers,
                                       {a}, Until(RunGrid, m))
    BY CashRows
  <2> HIDE DEF f, g, h
  <2> QED  BY <1>1, <1>5, <2>1, <2>2 DEF f, h
<1> HIDE DEF f, g, h
<1>7. IsFiniteSet(RunCash)  BY CashFinite
<1>8. \A a \in RunCash : f[a] \in Int /\ g[a] \in Int /\ h[a] = f[a] + g[a]  BY <1>2, <1>6
<1>9. Sum(h, RunCash) = Sum(f, RunCash) + Sum(g, RunCash)  BY <1>7, <1>8, SumPlus
<1>10. Countable(LastOpenings(openings)) /\ IsFiniteSet(RunCash)  BY <1>7, RunCountable DEF AllCountable
<1>11. Sum(g, RunCash) = Booked(LastOpenings(openings), RunCash, {n})
  BY <1>1, <1>10, BookedByAccount
<1> QED  BY <1>3, <1>4, <1>9, <1>11 DEF n

OnCashTo(m, x) == LegsTo(OnCash(RunTransfers, m, dropped), dropped, x)

\* The statement leaves unexplained what the unclassified counterparties moved.
LEMMA StatementExplains ==
  ASSUME RunSound, NEW m \in RunGrid,
         NEW x, x = CashflowStatement(RunSummary, RunTotals, RunIncome, RunExpenses, RunTransfers, dropped)[m]
  PROVE  /\ x.Opening_Cash = CashOpening(RunSummary, m, dropped)
         /\ x.Closing_Cash = CashClosing(RunSummary, m, dropped)
         /\ x.Net_Internal_Transfers = Amount(OnCashTo(m, "INTERNAL_TRANSFER"))
         /\ x.Unreconciled_Difference = Amount(OnCashTo(m, "UNCLASSIFIED"))
<1> DEFINE flow(y, inward) == TransferFlow(RunTransfers, m, dropped, y, inward)
           inc == Amount(OnCash(RunIncome, m, dropped))
           exp == Amount(OnCash(RunExpenses, m, dropped))
           net == ((inc + flow("OPERATING", TRUE)) - (exp + (-flow("OPERATING", FALSE))))
                    + (flow("INVESTING", TRUE) - (-flow("INVESTING", FALSE)))
                    + (flow("FINANCING", TRUE) - (-flow("FINANCING", FALSE)))
                    + (flow("INTERNAL_TRANSFER", TRUE) - (-flow("INTERNAL_TRANSFER", FALSE)))
           movement == CashClosing(RunSummary, m, dropped) - CashOpening(RunSummary, m, dropped)
           T == OnCash(RunTransfers, m, dropped)
           of(y) == Amount(OnCashTo(m, y))
<1>1. DOMAIN RunTotals = RunGrid  BY GridIs DEF RunSound
<1>2. /\ x.Opening_Cash = CashOpening(RunSummary, m, dropped)
      /\ x.Closing_Cash = CashClosing(RunSummary, m, dropped)
      /\ x.Net_Internal_Transfers =
           flow("INTERNAL_TRANSFER", TRUE) - (-flow("INTERNAL_TRANSFER", FALSE))
      /\ x.Unreconciled_Difference = movement - net
  <2>1. m \in DOMAIN RunTotals  BY <1>1
  <2>2. StatementAgrees(x, RunSummary, RunIncome, RunExpenses, RunTransfers, dropped, m)
    BY <2>1, StatementIs
  <2>3. CalculatedNet(RunIncome, RunExpenses, RunTransfers, dropped, m) = net
    BY Zenon DEF CalculatedNet
  <2> HIDE DEF net
  <2> QED  BY <2>2, <2>3 DEF StatementAgrees
<1>3. AllCountable({}, RunIncome, RunExpenses, RunTransfers)  BY RunCountable
<1>4. Countable(RunTransfers)  BY <1>3 DEF AllCountable
<1>5. \A y : /\ flow(y, TRUE) \in Int /\ flow(y, FALSE) \in Int
             /\ flow(y, TRUE) + flow(y, FALSE) = of(y)
  <2> TAKE y
  <2> QED  BY <1>4, FlowsNet DEF OnCashTo
<1>6. /\ T = Of(RunTransfers, RunCash, {m})
      /\ OnCash(RunIncome, m, dropped) = Of(RunIncome, RunCash, {m})
      /\ OnCash(RunExpenses, m, dropped) = Of(RunExpenses, RunCash, {m})
  BY DEF OnCash, In, Of, RunCash
<1>7. Countable(T)
  <2>1. Countable(RunTransfers) /\ T \in SUBSET RunTransfers  BY <1>4 DEF OnCash, In
  <2> HIDE DEF T
  <2> QED  BY <2>1, CountableParts
<1>8. movement = MovedOn(RunCash, m) /\ MovedOn(RunCash, m) \in Int
  <2>1. /\ CashOpening(RunSummary, m, dropped) \in Int
        /\ CashClosing(RunSummary, m, dropped) =
             CashOpening(RunSummary, m, dropped) + MovedOn(RunCash, m)
    BY CashMoves
  <2>2. MovedOn(RunCash, m) \in Int  BY MovedIs
  <2> QED  BY <2>1, <2>2
<1>9. MovedOn(RunCash, m) = inc - exp + Amount(T)
  BY <1>6, MovedIs DEF Booked
<1>10. inc \in Int /\ exp \in Int
  BY <1>3, <1>6, BookedIsInt DEF AllCountable, Booked
<1>11. /\ Amount(T) = of("OPERATING") + of("INVESTING") + of("FINANCING")
                        + of("INTERNAL_TRANSFER") + of("UNCLASSIFIED")
       /\ of("UNCLASSIFIED") \in Int
  BY <1>7, LegsByActivity DEF OnCashTo
<1> DEFINE i1 == flow("OPERATING", TRUE)
           o1 == flow("OPERATING", FALSE)
           i2 == flow("INVESTING", TRUE)
           o2 == flow("INVESTING", FALSE)
           i3 == flow("FINANCING", TRUE)
           o3 == flow("FINANCING", FALSE)
           i4 == flow("INTERNAL_TRANSFER", TRUE)
           o4 == flow("INTERNAL_TRANSFER", FALSE)
           u == of("UNCLASSIFIED")
           f1 == of("OPERATING")
           f2 == of("INVESTING")
           f3 == of("FINANCING")
           f4 == of("INTERNAL_TRANSFER")
<1>12. /\ i1 \in Int /\ o1 \in Int /\ i1 + o1 = f1 /\ i2 \in Int /\ o2 \in Int /\ i2 + o2 = f2
       /\ i3 \in Int /\ o3 \in Int /\ i3 + o3 = f3 /\ i4 \in Int /\ o4 \in Int /\ i4 + o4 = f4
  BY <1>5
<1>13. net = ((inc + i1) - (exp + (-o1))) + (i2 - (-o2)) + (i3 - (-o3)) + (i4 - (-o4))  OBVIOUS
<1>14. Amount(T) = f1 + f2 + f3 + f4 + u /\ u \in Int  BY <1>11
<1>15. x.Net_Internal_Transfers = i4 - (-o4)  BY <1>2
<1> HIDE DEF flow, inc, exp, net, movement, T, of, i1, o1, i2, o2, i3, o3, i4, o4, u, f1, f2, f3, f4
<1>16. movement = inc - exp + (f1 + f2 + f3 + f4 + u)  BY <1>8, <1>9, <1>14
<1>17. net = inc - exp + f1 + f2 + f3 + f4  BY <1>10, <1>12, <1>13
<1>18. f1 \in Int /\ f2 \in Int /\ f3 \in Int /\ f4 \in Int /\ f4 = i4 - (-o4)  BY <1>12
<1>19. movement - net = u  BY <1>10, <1>14, <1>16, <1>17, <1>18
<1>20. x.Unreconciled_Difference = u  BY <1>2, <1>19
<1>21. x.Net_Internal_Transfers = f4  BY <1>15, <1>18
<1> QED  BY <1>2, <1>20, <1>21 DEF u, f4, of

\* The cash is explained.
LEMMA CashIs ==
  ASSUME Loaded, NEW m \in RunGrid PROVE CashExplained(m)
<1> DEFINE statement == published.marts.statement
           x == statement[m]
           cash == CashPool(dropped)
           opened == In(UNION {Opened(a) : a \in cash}, m + 1)
<1>1. /\ statement = CashflowStatement(RunSummary, RunTotals, RunIncome, RunExpenses, RunTransfers, dropped)
  BY MartsAre DEF Loaded
<1>2. RunSound  BY DEF Loaded
<1>3. /\ x.Closing_Cash = CashClosing(RunSummary, m, dropped)
      /\ x.Net_Internal_Transfers = Amount(OnCashTo(m, "INTERNAL_TRANSFER"))
      /\ x.Unreconciled_Difference = Amount(OnCashTo(m, "UNCLASSIFIED"))
  BY <1>1, <1>2, StatementExplains
<1>4. Facts.trn = RunTransfers /\ Grid = RunGrid  BY LoadedTables
<1>5. FactsKept  BY <1>2, LoadedFacts
<1>6. OnCashTo(m, "UNCLASSIFIED") =
        {r \in In(Facts.trn, m) : r.acct \in cash /\ CounterpartyType(r.to, dropped) = "UNCLASSIFIED"}
  BY <1>4 DEF OnCashTo, LegsTo, OnCash
<1>7. Amount(OnCashTo(m, "INTERNAL_TRANSFER"))
        = Amount({r \in In(LooseLegs, m) : r.acct \in cash /\ r.to \in cash})
  <2>1. OnCashTo(m, "INTERNAL_TRANSFER") = Within(RunTransfers, m, cash)
    BY CounterpartyIs DEF OnCashTo, LegsTo, OnCash, In, Within
  <2>2. {r \in In(LooseLegs, m) : r.acct \in cash /\ r.to \in cash} = Within(LooseLegs, m, cash)
    BY DEF In, Within
  <2> HIDE DEF cash
  <2>3. LegsClean  BY <1>5 DEF FactsKept
  <2>4. Amount(Within(RunTransfers, m, cash)) = Amount(Within(LooseLegs, m, cash))
    BY <2>3, TransfersWithin DEF RunTransfers
  <2> QED  BY <2>1, <2>2, <2>4
<1>8. ASSUME m + 1 \in RunGrid
      PROVE  statement[m + 1].Opening_Cash = x.Closing_Cash + Amount(opened)
  <2>1. statement[m + 1].Opening_Cash = CashOpening(RunSummary, m + 1, dropped)
    BY <1>1, <1>2, <1>8, StatementExplains
  <2>2. CashOpening(RunSummary, m + 1, dropped) =
          CashClosing(RunSummary, m, dropped) + Booked(LastOpenings(openings), RunCash, {m + 1})
    BY <1>2, <1>8, CashGoesOn
  <2>3. OpeningsKept  BY <1>5 DEF FactsKept
  <2>4. UNION {Opened(a) : a \in cash} = {o \in LastOpenings(openings) : o.acct \in cash}
    BY <2>3, OpenedRows
  <2>5. opened = Of(LastOpenings(openings), RunCash, {m + 1})  BY <2>4 DEF In, Of, RunCash
  <2> HIDE DEF statement, x, opened
  <2> QED  BY <1>3, <2>1, <2>2, <2>5 DEF Booked
<1> HIDE DEF statement, x, opened
<1>9. /\ x.Unreconciled_Difference =
           Amount({r \in In(Facts.trn, m) :
                     r.acct \in cash /\ CounterpartyType(r.to, dropped) = "UNCLASSIFIED"})
      /\ x.Net_Internal_Transfers =
           Amount({r \in In(LooseLegs, m) : r.acct \in cash /\ r.to \in cash})
  BY <1>3, <1>6, <1>7
<1>10. m + 1 \in Grid => statement[m + 1].Opening_Cash = x.Closing_Cash + Amount(opened)
  BY <1>4, <1>8
<1> QED  BY <1>9, <1>10, Zenon DEF CashExplained, statement, x, opened

-----------------------------------------------------------------------------
(* The run.                                                                 *)

EventsOf(jnl, gains, rs, gone) == TaxEvents(IncomeFacts(jnl), gains, rs, gone, MacroRate)

TablesOf(jnl, gains, rs, gone) ==
  LET E == EventsOf(jnl, gains, rs, gone) IN
  [events |-> E, year |-> TaxYearSummary(E), breakdown |-> TaxIncomeBreakdown(E),
   recon |-> TaxReconciliation(E, LedgerEvidence(IncomeFacts(jnl), rs, gone), rs)]

\* The tables of what the household entered.
RunTables == TablesOf(journal, position.realized, rules, dropped)
RunWealth == WealthTables(SilverTables)
RunMarts == PresentationTables(SilverTables, RunWealth)

DataFinite == IsFiniteSet(journal) /\ IsFiniteSet(openings)

AtStage(stages) == stage \in stages

\* A run keeps the rules and inputs it began with; each stage has found sound what
\* it looked at, and the tables so far are those of the inputs.
BooksIInv ==
  /\ BooksTypeOK /\ DataFinite
  /\ AtStage({"transforming", "taxing", "wealth", "presenting", "loading"}) => RulesValid(rules)
  /\ AtStage({"taxing", "wealth", "presenting", "loading"}) => InputsValid /\ silver = SilverTables
  /\ AtStage({"wealth", "presenting", "loading"}) => tax = RunTables
  /\ AtStage({"presenting", "loading"}) => books = RunWealth
  /\ AtStage({"loading"}) => presented = RunMarts
  /\ published # NoTable =>
       /\ RulesValid(rules) /\ InputsValid /\ Loadable(SilverTables)
       /\ published = [silver |-> SilverTables, tax |-> RunTables, books |-> RunWealth,
                       marts |-> RunMarts]

\* Who has no investments has no wrong ones.
LEMMA NothingHeld == PositionKept(NoPosition)
<1>1. \A orders : orders = {} => OrdersKept(orders) /\ ValuesKept(orders)
  BY FS_EmptySet DEF OrdersKept, ValuesKept
<1>2. \A holdings : holdings = {} => HoldingsKept(holdings)  BY FS_EmptySet DEF HoldingsKept
<1>3. /\ NoPosition.fundOrders = {} /\ NoPosition.fundHoldings = {} /\ NoPosition.stockOrders = {}
      /\ NoPosition.stockHoldings = {} /\ NoPosition.usOrders = {} /\ NoPosition.realized = {}
  BY DEF NoPosition
<1>4. IsFiniteSet({})  BY FS_EmptySet
<1> HIDE DEF NoPosition
<1> QED  BY <1>1, <1>2, <1>3, <1>4 DEF PositionKept, FilesApart

\* What the household entered is data of the kind it may enter.
LEMMA DataIs ==
  ASSUME BooksTypeOK, DataFinite PROVE DataKept
<1>1. journal \subseteq UNION Batches /\ openings \subseteq OpeningRows
  BY DEF BooksTypeOK
<1>2. PositionKept(position)  BY NothingHeld, BooksData DEF BooksTypeOK
<1>3. \A r \in journal : r.amt \in Int \cup {Bad} /\ r.m \in Nat /\ r.acct \in Accounts
  BY <1>1, BooksData
<1>4. \A a, b \in LegRows : a.id = b.id => a = b
  <2>1. LegRows \subseteq {r \in UNION Batches : r.type \in {LEG_OUT, LEG_IN}}  BY <1>1 DEF LegRows
  <2> QED  BY <2>1, BooksData
<1>5. /\ \A o \in openings : o.amt \in Int \cup {Bad} /\ o.m \in Nat /\ o.acct \in Accounts
      /\ \A o, p \in openings : o.acct = p.acct /\ o.m = p.m => o = p
  BY <1>1, BooksData
<1> QED  BY <1>2, <1>3, <1>4, <1>5 DEF DataKept, DataFinite

\* Nothing that the tables come from changes.
LEMMA SameInputs ==
  ASSUME UNCHANGED inputs
  PROVE  /\ SilverTables' = SilverTables /\ RunTables' = RunTables
         /\ RunWealth' = RunWealth /\ RunMarts' = RunMarts
         /\ RulesValid(rules)' = RulesValid(rules) /\ InputsValid' = InputsValid
         /\ Loadable(SilverTables)' = Loadable(SilverTables) /\ DataFinite' = DataFinite
<1>1. UNCHANGED <<journal, openings, dropped, rules, position>>  BY DEF inputs
<1>2. SilverTables' = SilverTables  BY <1>1 DEF SilverTables, DatesOf
<1>3. RunTables' = RunTables  BY <1>1 DEF RunTables
<1>4. RunWealth' = RunWealth  BY <1>1, <1>2 DEF RunWealth, WealthTables
<1>5. RunMarts' = RunMarts  BY <1>1, <1>2, <1>4 DEF RunMarts, PresentationTables
<1>6. InputsValid' = InputsValid  BY <1>1 DEF InputsValid
<1>7. Loadable(SilverTables)' = Loadable(SilverTables)  BY <1>1, <1>2 DEF Loadable
<1>8. RulesValid(rules)' = RulesValid(rules) /\ DataFinite' = DataFinite  BY <1>1 DEF DataFinite
<1> QED  BY <1>2, <1>3, <1>4, <1>5, <1>6, <1>7, <1>8

\* The invariant, initially.
LEMMA BooksStart == BooksInit => BooksIInv
<1> SUFFICES ASSUME BooksInit PROVE BooksIInv  OBVIOUS
<1>1. /\ journal = {} /\ openings = {} /\ stage = "idle" /\ published = NoTable
      /\ dropped = {} /\ rules = FirstRules /\ position = NoPosition /\ entries = 0
  BY DEF BooksInit
<1>2. DataFinite  BY <1>1, FS_EmptySet DEF DataFinite
<1>3. BooksTypeOK  BY <1>1, BooksConstants DEF BooksTypeOK, Stages
<1> QED  BY <1>1, <1>2, <1>3 DEF BooksIInv, AtStage

\* Where the household enters something, no run has begun.
LEMMA EntryKeeps ==
  ASSUME Entry, BooksTypeOK', DataFinite' PROVE BooksIInv'
<1>1. stage' = "idle" /\ published' = NoTable  BY DEF Entry
<1> QED  BY <1>1 DEF BooksIInv, AtStage

\* What an entry does to the bound and the stage.
LEMMA EntryTyped ==
  ASSUME Entry, BooksTypeOK
  PROVE  entries' \in 0..MaxEntries /\ stage' \in Stages
<1>1. entries' = entries + 1 /\ entries < MaxEntries /\ stage' = stage  BY DEF Entry
<1>2. entries \in 0..MaxEntries /\ stage \in Stages  BY DEF BooksTypeOK
<1> QED  BY <1>1, <1>2, BooksConstants

\* A step of the run leaves the inputs typed.
LEMMA InputsTyped ==
  ASSUME UNCHANGED inputs, BooksTypeOK, stage' \in Stages PROVE BooksTypeOK'
<1>1. UNCHANGED <<journal, openings, dropped, rules, position, entries>>  BY DEF inputs
<1> QED  BY <1>1 DEF BooksTypeOK

\* A refused run keeps the invariant.
LEMMA RefuseKeeps ==
  ASSUME BooksIInv, Refuse PROVE BooksIInv'
<1>1. stage' = "refused" /\ UNCHANGED inputs /\ published' = published  BY DEF Refuse
<1>2. BooksTypeOK /\ DataFinite  BY DEF BooksIInv
<1>3. BooksTypeOK'  BY <1>1, <1>2, InputsTyped DEF Stages
<1> QED  BY <1>1, <1>2, <1>3, SameInputs DEF BooksIInv, AtStage

\* The invariant is kept.
LEMMA BooksStep == BooksIInv /\ [BooksNext]_booksVars => BooksIInv'
<1> SUFFICES ASSUME BooksIInv, [BooksNext]_booksVars PROVE BooksIInv'  OBVIOUS
<1>0. BooksTypeOK /\ DataFinite  BY DEF BooksIInv
<1>1. ASSUME NEW b \in Batches, Enter(b) PROVE BooksIInv'
  <2>1. /\ Entry /\ journal' = journal \cup b
        /\ UNCHANGED <<openings, dropped, rules, position>>
    BY <1>1 DEF Enter
  <2>2. IsFiniteSet(journal \cup b)  BY <1>0, BooksData, FS_Union DEF DataFinite
  <2>3. DataFinite'  BY <1>0, <2>1, <2>2 DEF DataFinite
  <2>4. BooksTypeOK'
    <3>1. entries' \in 0..MaxEntries /\ stage' \in Stages  BY <1>0, <2>1, EntryTyped
    <3>2. journal' \subseteq UNION Batches  BY <1>0, <2>1 DEF BooksTypeOK
    <3> QED  BY <1>0, <2>1, <3>1, <3>2 DEF BooksTypeOK
  <2> QED  BY <2>1, <2>3, <2>4, EntryKeeps
<1>2. ASSUME NEW o \in OpeningRows, EnterOpening(o) PROVE BooksIInv'
  <2>1. /\ Entry /\ openings' = openings \cup {o}
        /\ UNCHANGED <<journal, dropped, rules, position>>
    BY <1>2 DEF EnterOpening
  <2>2. IsFiniteSet(openings \cup {o})  BY <1>0, FS_AddElement DEF DataFinite
  <2>3. DataFinite'  BY <1>0, <2>1, <2>2 DEF DataFinite
  <2>4. BooksTypeOK'
    <3>1. entries' \in 0..MaxEntries /\ stage' \in Stages  BY <1>0, <2>1, EntryTyped
    <3> QED  BY <1>0, <2>1, <3>1 DEF BooksTypeOK
  <2> QED  BY <2>1, <2>3, <2>4, EntryKeeps
<1>3. ASSUME NEW x \in Deletable, Delete(x) PROVE BooksIInv'
  <2>1. /\ Entry /\ dropped' = dropped \cup {x}
        /\ UNCHANGED <<journal, openings, rules, position>>
    BY <1>3 DEF Delete
  <2>3. DataFinite'  BY <1>0, <2>1 DEF DataFinite
  <2>4. BooksTypeOK'
    <3>1. entries' \in 0..MaxEntries /\ stage' \in Stages  BY <1>0, <2>1, EntryTyped
    <3> QED  BY <1>0, <2>1, <3>1 DEF BooksTypeOK
  <2> QED  BY <2>1, <2>3, <2>4, EntryKeeps
<1>4. ASSUME NEW p \in Positions, Invest(p) PROVE BooksIInv'
  <2>1. /\ Entry /\ position' = p /\ UNCHANGED <<journal, openings, dropped, rules>>
    BY <1>4 DEF Invest
  <2>3. DataFinite'  BY <1>0, <2>1 DEF DataFinite
  <2>4. BooksTypeOK'
    <3>1. entries' \in 0..MaxEntries /\ stage' \in Stages  BY <1>0, <2>1, EntryTyped
    <3> QED  BY <1>0, <2>1, <3>1 DEF BooksTypeOK
  <2> QED  BY <2>1, <2>3, <2>4, EntryKeeps
<1>5. ASSUME NEW rs \in RuleSets, WriteRules(rs) PROVE BooksIInv'
  <2>1. /\ Entry /\ rules' = rs /\ UNCHANGED <<journal, openings, dropped, position>>
    BY <1>5 DEF WriteRules
  <2>3. DataFinite'  BY <1>0, <2>1 DEF DataFinite
  <2>4. BooksTypeOK'
    <3>1. entries' \in 0..MaxEntries /\ stage' \in Stages  BY <1>0, <2>1, EntryTyped
    <3> QED  BY <1>0, <2>1, <3>1 DEF BooksTypeOK
  <2> QED  BY <2>1, <2>3, <2>4, EntryKeeps
<1>6. ASSUME ReadRules PROVE BooksIInv'
  <2>1. CASE RulesValid(rules)
    <3>1. stage' = "transforming" /\ published' = NoTable /\ UNCHANGED inputs
      BY <1>6, <2>1 DEF ReadRules
    <3>2. BooksTypeOK'  BY <1>0, <3>1, InputsTyped DEF Stages
    <3>3. DataFinite' /\ RulesValid(rules)'  BY <1>0, <2>1, <3>1, SameInputs
    <3> QED  BY <3>1, <3>2, <3>3 DEF BooksIInv, AtStage
  <2>2. CASE ~RulesValid(rules)
    <3>1. Refuse  BY <1>6, <2>2 DEF ReadRules
    <3> QED  BY <3>1, RefuseKeeps
  <2> QED  BY <2>1, <2>2
<1>7. ASSUME BuildFacts PROVE BooksIInv'
  <2>1. CASE InputsValid
    <3>1. /\ silver' = SilverTables /\ stage' = "taxing" /\ UNCHANGED inputs
          /\ published' = published /\ stage = "transforming"
      BY <1>7, <2>1 DEF BuildFacts
    <3>2. BooksTypeOK'  BY <1>0, <3>1, InputsTyped DEF Stages
    <3>3. RulesValid(rules)  BY <3>1 DEF BooksIInv, AtStage
    <3> QED  BY <1>0, <2>1, <3>1, <3>2, <3>3, SameInputs DEF BooksIInv, AtStage
  <2>2. CASE ~InputsValid
    <3>1. Refuse  BY <1>7, <2>2 DEF BuildFacts
    <3> QED  BY <3>1, RefuseKeeps
  <2> QED  BY <2>1, <2>2
<1>8. ASSUME RunTax PROVE BooksIInv'
  <2> DEFINE sound == /\ RulesKnown(rules, dropped)
                     /\ EventKeysUnique(silver.inc, position.realized, rules, dropped)
  <2>0. stage = "taxing" /\ silver = SilverTables /\ InputsValid /\ RulesValid(rules)
    BY <1>8 DEF RunTax, BooksIInv, AtStage
  <2>1. CASE sound
    <3>0. silver.inc = IncomeFacts(journal)  BY <2>0, SilverIs
    <3>1. /\ tax' = RunTables /\ stage' = "wealth" /\ UNCHANGED inputs
          /\ silver' = silver /\ published' = published
      BY <1>8, <2>1, <3>0 DEF RunTax, RunTables, TablesOf, EventsOf
    <3>2. BooksTypeOK'  BY <1>0, <3>1, InputsTyped DEF Stages
    <3> QED  BY <1>0, <2>0, <3>1, <3>2, SameInputs DEF BooksIInv, AtStage
  <2>2. CASE ~sound
    <3>1. Refuse  BY <1>8, <2>2 DEF RunTax
    <3> QED  BY <3>1, RefuseKeeps
  <2> QED  BY <2>1, <2>2
<1>9. ASSUME BuildWealth PROVE BooksIInv'
  <2>0. /\ stage = "wealth" /\ silver = SilverTables /\ InputsValid /\ RulesValid(rules)
        /\ tax = RunTables
    BY <1>9 DEF BuildWealth, BooksIInv, AtStage
  <2>1. /\ books' = RunWealth /\ stage' = "presenting" /\ UNCHANGED inputs
        /\ silver' = silver /\ tax' = tax /\ published' = published
    BY <1>9, <2>0 DEF BuildWealth, RunWealth
  <2>2. BooksTypeOK'  BY <1>0, <2>1, InputsTyped DEF Stages
  <2> QED  BY <1>0, <2>0, <2>1, <2>2, SameInputs DEF BooksIInv, AtStage
<1>10. ASSUME Present PROVE BooksIInv'
  <2>0. /\ stage = "presenting" /\ silver = SilverTables /\ InputsValid /\ RulesValid(rules)
        /\ tax = RunTables /\ books = RunWealth
    BY <1>10 DEF Present, BooksIInv, AtStage
  <2>1. /\ presented' = RunMarts /\ stage' = "loading" /\ UNCHANGED inputs
        /\ silver' = silver /\ tax' = tax /\ books' = books /\ published' = published
    BY <1>10, <2>0 DEF Present, RunMarts
  <2>2. BooksTypeOK'  BY <1>0, <2>1, InputsTyped DEF Stages
  <2> QED  BY <1>0, <2>0, <2>1, <2>2, SameInputs DEF BooksIInv, AtStage
<1>11. ASSUME LoadTables PROVE BooksIInv'
  <2>0. /\ stage = "loading" /\ silver = SilverTables /\ InputsValid /\ RulesValid(rules)
        /\ tax = RunTables /\ books = RunWealth /\ presented = RunMarts
    BY <1>11 DEF LoadTables, BooksIInv, AtStage
  <2>1. CASE Loadable(silver)
    <3>1. /\ published' = [silver |-> SilverTables, tax |-> RunTables, books |-> RunWealth,
                           marts |-> RunMarts]
          /\ stage' = "idle" /\ UNCHANGED inputs
      BY <1>11, <2>0, <2>1 DEF LoadTables
    <3>2. BooksTypeOK'  BY <1>0, <3>1, InputsTyped DEF Stages
    <3>3. Loadable(SilverTables)  BY <2>0, <2>1
    <3> QED  BY <1>0, <2>0, <3>1, <3>2, <3>3, SameInputs DEF BooksIInv, AtStage
  <2>2. CASE ~Loadable(silver)
    <3>1. Refuse  BY <1>11, <2>2 DEF LoadTables
    <3> QED  BY <3>1, RefuseKeeps
  <2> QED  BY <2>1, <2>2
<1>12. ASSUME UNCHANGED booksVars PROVE BooksIInv'
  <2>1. /\ UNCHANGED inputs /\ published' = published /\ stage' = stage /\ silver' = silver
        /\ tax' = tax /\ books' = books /\ presented' = presented
    BY <1>12 DEF booksVars
  <2>2. BooksTypeOK'  BY <1>0, <2>1, InputsTyped DEF BooksTypeOK
  <2> QED  BY <1>0, <2>1, <2>2, SameInputs DEF BooksIInv, AtStage
<1> QED
  BY <1>1, <1>2, <1>3, <1>4, <1>5, <1>6, <1>7, <1>8, <1>9, <1>10, <1>11, <1>12 DEF BooksNext
-----------------------------------------------------------------------------
(* The theorems.                                                            *)

LEMMA RunLoaded ==
  ASSUME BooksIInv, published # NoTable
  PROVE  Loaded /\ published.tax = RunTables /\ RulesValid(rules)
<1> DEFINE P == [silver |-> SilverTables, tax |-> RunTables, books |-> RunWealth, marts |-> RunMarts]
<1>1. published = P /\ RulesValid(rules) /\ InputsValid /\ Loadable(SilverTables)
  BY DEF BooksIInv
<1>2. DataKept  BY DataIs DEF BooksIInv
<1>3. P.silver = SilverTables /\ P.tax = RunTables /\ P.books = RunWealth /\ P.marts = RunMarts
  OBVIOUS
<1> HIDE DEF P
<1> QED  BY <1>1, <1>2, <1>3 DEF Loaded, RunSound, RunWealth, RunMarts

\* The calendar covers the facts before the load.
LEMMA CalendarFits == ASSUME BooksIInv PROVE CalendarCovers
<1> SUFFICES ASSUME stage = "loading"
             PROVE  \A r \in silver.inc \cup silver.exp \cup silver.trn :
                      r.m \in silver.calendar /\ (r \in silver.trn => r.analysed \in silver.calendar)
  BY DEF CalendarCovers
<1>1. silver = SilverTables /\ InputsValid  BY DEF BooksIInv, AtStage
<1>2. DataKept  BY DataIs DEF BooksIInv
<1> QED  BY <1>1, <1>2, CalendarIs

\* BooksBalance: whatever the household enters, deletes and invests, and whatever its
\* rules, the tables of a run that was loaded agree with the journal, the statements
\* and each other, and the calendar covers the facts before the load.
THEOREM PublishedBooksBalance == BooksSpec => []BooksBalance
<1>1. BooksIInv => BooksBalance
  <2> SUFFICES ASSUME BooksIInv PROVE BooksBalance  OBVIOUS
  <2>1. BooksTypeOK /\ CalendarCovers  BY CalendarFits DEF BooksIInv
  <2>2. ASSUME published # NoTable, NEW m \in Grid
        PROVE  /\ NetWorthExplained(m) /\ CashExplained(m) /\ CategoriesAddUp(m)
               /\ BudgetAgrees(m) /\ InvestmentsAgree(m)
    <3>1. Loaded  BY <2>2, RunLoaded
    <3>2. m \in RunGrid  BY <2>2, <3>1, LoadedTables
    <3> QED  BY <3>1, <3>2, NetWorthIs, CashIs, CategoriesAre, BudgetIs
  <2> QED  BY <2>1, <2>2 DEF BooksBalance
<1> QED  BY BooksStart, BooksStep, <1>1, PTL DEF BooksSpec

\* The tax tables of a published run agree.
LEMMA TablesAgree ==
  ASSUME BooksIInv, published # NoTable PROVE IncomeTaxedOnce
<1> DEFINE inc == IncomeFacts(journal)
           gains == position.realized
           E == EventsOf(journal, gains, rules, dropped)
           V == LedgerEvidence(inc, rules, dropped)
           x == published.tax
<1>0. Loaded /\ x = RunTables /\ RulesValid(rules)  BY RunLoaded
<1>1. /\ RulesValid(rules) /\ Facts.inc = inc /\ IdsUnique(inc) /\ x = RunTables /\ FactsKept
  BY <1>0, LoadedFacts, LoadedTables DEF Loaded, RowsKept, RunIncome
<1>2. Countable(inc)  BY <1>1 DEF FactsKept
<1>3. /\ x.events = E /\ x.year = TaxYearSummary(E) /\ x.breakdown = TaxIncomeBreakdown(E)
      /\ x.recon = TaxReconciliation(E, V, rules)
  <2> HIDE DEF E
  <2> DEFINE T == [events |-> E, year |-> TaxYearSummary(E), breakdown |-> TaxIncomeBreakdown(E),
                   recon |-> TaxReconciliation(E, V, rules)]
  <2>1. x = T  BY <1>1 DEF RunTables, TablesOf, E
  <2>2. /\ T.events = E /\ T.year = TaxYearSummary(E) /\ T.breakdown = TaxIncomeBreakdown(E)
        /\ T.recon = TaxReconciliation(E, V, rules)
    OBVIOUS
  <2> HIDE DEF T, x
  <2> QED  BY <2>1, <2>2
<1>4. E = TaxEvents(inc, gains, rules, dropped, MacroRate)  BY DEF EventsOf
<1>5. Countable(E)
  <2>1. IsFiniteSet(gains) /\ \A g \in gains : g.gain \in Int
    BY <1>0 DEF Loaded, RunSound, DataKept, PositionKept
  <2> HIDE DEF inc, gains, E
  <2> QED  BY <1>2, <1>4, <2>1, EventsFinite
<1>6. IsFiniteSet(V)
  <2> DEFINE h == [r \in inc |-> EvidenceOf(r, rules, dropped)]
  <2>1. V = {h[r] : r \in inc}  BY DEF LedgerEvidence, EvidenceOf
  <2> HIDE DEF h, inc, V
  <2> QED  BY <1>2, <2>1, ImageFinite DEF Countable
<1>7. ExclusionsApart(rules)  BY <1>1 DEF RulesValid
<1>8. Facts.inc = inc  BY <1>1
<1> DEFINE twice(c) == /\ c \in CreditCats(rules)
                       /\ TaxMapOf(c, rules, dropped).taxability = "non_taxable"
           shown(r) ==
             Cardinality({e \in x.events : e.source \in {"LEDGER", "TAX_CREDIT"} /\ e.id = r.id})
             + Cardinality({k \in DOMAIN x.recon :
                  \E e \in x.recon[k].Non_Taxable \cup x.recon[k].Excluded_Investment : e.id = r.id})
<1>9. \A r \in Facts.inc : shown(r) = IF twice(r.cat) THEN 2 ELSE 1
  <2> SUFFICES ASSUME NEW r \in inc PROVE shown(r) = IF twice(r.cat) THEN 2 ELSE 1  BY <1>8
  <2>1. shown(r) = Cardinality(EventsShown(x.events, r)) + Cardinality(KeysShown(x.recon, r))
    BY DEF EventsShown, KeysShown
  <2> HIDE DEF inc, gains, E, x
  <2>2. Cardinality(EventsShown(x.events, r)) + Cardinality(KeysShown(x.recon, r))
          = IF twice(r.cat) THEN 2 ELSE 1
    BY <1>1, <1>2, <1>3, <1>4, <1>7, ShownOnce
  <2> QED  BY <2>1, <2>2
<1>10. \A fy \in DOMAIN x.year, s \in Sources :
         LET amount == x.year[fy].of[s].amount IN
         /\ amount = Total(LAMBDA k : x.breakdown[k].amount,
                           {k \in DOMAIN x.breakdown : k.fy = fy /\ k.source = s})
         /\ amount = Total(LAMBDA k : CASE s = "LEDGER" -> x.recon[k].Ledger.amount
                                        [] s = "QUANT" -> x.recon[k].Quant.amount
                                        [] OTHER -> x.recon[k].Tax_Credit.amount,
                           {k \in DOMAIN x.recon : k[1] = fy})
  <2> HIDE DEF inc, gains, E, V, x
  <2> SUFFICES ASSUME NEW fy \in DOMAIN x.year, NEW s \in Sources
               PROVE  LET amount == x.year[fy].of[s].amount IN
         /\ amount = Total(LAMBDA k : x.breakdown[k].amount,
                           {k \in DOMAIN x.breakdown : k.fy = fy /\ k.source = s})
         /\ amount = Total(LAMBDA k : CASE s = "LEDGER" -> x.recon[k].Ledger.amount
                                        [] s = "QUANT" -> x.recon[k].Quant.amount
                                        [] OTHER -> x.recon[k].Tax_Credit.amount,
                           {k \in DOMAIN x.recon : k[1] = fy})
    OBVIOUS
  <2>1. x.year[fy].of[s].amount = Amount(Share(E, fy, s))  BY <1>3, YearAmount
  <2> DEFINE B == x.breakdown
             R == x.recon
  <2>2. B = TaxIncomeBreakdown(E) /\ R = TaxReconciliation(E, V, rules)  BY <1>3
  <2> HIDE DEF B, R
  <2>3. BreakdownOf(B, fy, s) = Amount(Share(E, fy, s))  BY <1>5, <2>2, BreakdownAddsUp
  <2>4. ReconciledOf(R, fy, s) = Amount(Share(E, fy, s))  BY <1>5, <1>6, <2>2, ReconciliationAddsUp
  <2> QED  BY <2>1, <2>3, <2>4 DEF B, R, BreakdownOf, ReconciledOf
<1>11. \A fy \in DOMAIN x.year :
         LET ledger == {e \in From(x.events, "LEDGER") : e.fy = fy} IN
         ledger # {} => (x.year[fy].of["LEDGER"].complete
                           <=> \A e \in ledger : e.status = "READY")
  <2> HIDE DEF inc, gains, E, V, x
  <2> SUFFICES ASSUME NEW fy \in DOMAIN x.year, {e \in From(x.events, "LEDGER") : e.fy = fy} # {}
               PROVE  x.year[fy].of["LEDGER"].complete
                        <=> \A e \in {e \in From(x.events, "LEDGER") : e.fy = fy} : e.status = "READY"
    OBVIOUS
  <2>1. {e \in From(x.events, "LEDGER") : e.fy = fy} = Share(E, fy, "LEDGER")
    BY <1>3 DEF From, Share
  <2>2. TaxYearSummary(E)[fy].of["LEDGER"].complete
          <=> \A e \in Share(E, fy, "LEDGER") : e.status = "READY"
    BY <1>2, <1>3, <1>4, <2>1, CompleteIsReady
  <2> QED  BY <1>3, <2>1, <2>2
<1> HIDE DEF x, inc, shown, twice
<1> QED  BY <1>9, <1>10, <1>11 DEF IncomeTaxedOnce, x, shown, twice

\* IncomeTaxedOnce: whatever the journal, the deletions and the rules a run found,
\* the tax tables it publishes show every active income row once, a credit claimed
\* under a non-taxable sub-head twice, and the yearly summary, the breakdown and
\* the reconciliation add up to the same amounts.
THEOREM EveryIncomeTaxedOnce == BooksSpec => []IncomeTaxedOnce
<1>1. BooksIInv => IncomeTaxedOnce
  <2>1. CASE published = NoTable  BY <2>1 DEF IncomeTaxedOnce
  <2>2. CASE published # NoTable  BY <2>2, TablesAgree
  <2> QED  BY <2>1, <2>2
<1> QED  BY BooksStart, BooksStep, <1>1, PTL DEF BooksSpec
=============================================================================
