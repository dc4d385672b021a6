--------------------------- MODULE InductionFacts ---------------------------
(***************************************************************************)
(* Facts about numbers, finite sets and functions defined by recursion     *)
(* that the proofs of several modules cite.  Each of them is an induction, *)
(* written as the absurdity of a least counterexample.                     *)
(***************************************************************************)
EXTENDS FiniteSetsExt, FiniteSetTheorems, WellFoundedInduction, TLAPS

\* A set of natural numbers that is not empty has a least element: the induction that the
\* proofs about loops over operations, rungs or jobs rest on.
LEMMA Least ==
    ASSUME NEW S \in SUBSET Nat, S # {}
    PROVE  \E x \in S : \A y \in S : x <= y
<1>1. PICK x \in S : \A y \in S : ~(<<y, x>> \in OpToRel(<, Nat))
    BY NatLessThanWellFounded, WFMin, Zenon
<1>2. \A y \in S : ~(y < x)
    BY <1>1 DEF OpToRel
<1> QED  BY <1>2

\* The values of a function on a finite domain are finitely many.
LEMMA ImageFinite ==
    ASSUME NEW f, IsFiniteSet(DOMAIN f)
    PROVE  IsFiniteSet({f[x] : x \in DOMAIN f})
<1> DEFINE T == {f[x] : x \in DOMAIN f}
           g == [x \in DOMAIN f |-> f[x]]
<1>1. g \in Surjection(DOMAIN f, T)  BY DEF Surjection
<1>2. \A S, U, h : IsFiniteSet(S) /\ h \in Surjection(S, U) => IsFiniteSet(U)
    BY FS_Surjection
<1> HIDE DEF g, T
<1>3. IsFiniteSet(T)  BY <1>1, <1>2
<1> QED  BY <1>3 DEF T

\* Max of FiniteSetsExt yields the greatest element of a finite set of integers: what the
\* longest path, the last step and the latest constraint are computed with.
LEMMA Greatest ==
    ASSUME NEW S \in SUBSET Int, IsFiniteSet(S), S # {}
    PROVE  Max(S) \in S /\ Max(S) \in Int /\ \A y \in S : y <= Max(S)
<1>0. PICK n \in Nat : ExistsBijection(1 .. n, S)  BY FS_NatBijection
<1>1. PICK f : f \in Bijection(1 .. n, S)  BY <1>0 DEF ExistsBijection
<1>2. f \in [1 .. n -> S] /\ \A y \in S : \E k \in 1 .. n : f[k] = y
    BY <1>1 DEF Bijection, Injection, Surjection
<1>3. n >= 1
    <2>1. PICK y \in S : TRUE  OBVIOUS
    <2>2. PICK k \in 1 .. n : f[k] = y  BY <1>2, <2>1
    <2> QED  BY <2>2
<1> DEFINE Topped(k) == \E m \in S : \A i \in 1 .. k : f[i] <= m
           Bad == {k \in 1 .. n : ~Topped(k)}
<1>4. Bad = {}
    <2>0. \A k : k \in Bad <=> k \in 1 .. n /\ ~Topped(k)  OBVIOUS
    <2> HIDE DEF Bad
    <2> SUFFICES ASSUME Bad # {} PROVE FALSE  OBVIOUS
    <2>a. Bad \in SUBSET Nat  BY <2>0
    <2>1. PICK k \in Bad : \A j \in Bad : k <= j  BY <2>a, Least
    <2>b. k \in 1 .. n /\ ~Topped(k)  BY <2>0
    <2>2. CASE k = 1
        <3>1. f[1] \in S  BY <1>2, <1>3
        <3>2. f[1] \in Int  BY <3>1
        <3>3. \A i \in 1 .. 1 : i = 1  OBVIOUS
        <3>4. \A i \in 1 .. 1 : f[i] <= f[1]  BY <3>2, <3>3
        <3> QED  BY <2>b, <2>2, <3>1, <3>4
    <2>3. CASE k > 1
        <3>1. k - 1 \in 1 .. n /\ k - 1 \notin Bad  BY <2>1, <2>b, <2>3
        <3>2. PICK m \in S : \A i \in 1 .. k - 1 : f[i] <= m  BY <2>0, <3>1
        <3>3. f[k] \in S /\ f[k] \in Int /\ m \in Int  BY <1>2, <2>b
        <3>4. \A i \in 1 .. k : i = k \/ i \in 1 .. k - 1  BY <2>b
        <3>5. \A i \in 1 .. k - 1 : f[i] \in Int
            <4> TAKE i \in 1 .. k - 1
            <4>1. i \in 1 .. n  BY <2>b
            <4> QED  BY <1>2, <4>1
        <3>6. CASE f[k] <= m  BY <2>b, <3>2, <3>4, <3>6
        <3>7. CASE f[k] > m
            <4>1. \A i \in 1 .. k : f[i] <= f[k]  BY <3>2, <3>3, <3>4, <3>5, <3>7
            <4> QED  BY <2>b, <3>3, <4>1
        <3> QED  BY <3>3, <3>6, <3>7
    <2> QED  BY <2>b, <2>2, <2>3
<1>5. Topped(n)  BY <1>3, <1>4
<1>6. PICK m \in S : \A i \in 1 .. n : f[i] <= m  BY <1>5
<1>7. \A y \in S : m >= y  BY <1>2, <1>6
<1>8. Max(S) \in S /\ \A y \in S : Max(S) >= y
    BY <1>7 DEF Max
<1> QED  BY <1>8

\* The same for what an operator makes of the elements of a finite set, given as a function.
LEMMA GreatestValue ==
    ASSUME NEW D, IsFiniteSet(D), NEW f \in [D -> Int], NEW a \in Int
    PROVE  LET T == {a} \cup {f[x] : x \in D} IN
           Max(T) \in T /\ Max(T) \in Int /\ \A y \in T : y <= Max(T)
<1> DEFINE T == {a} \cup {f[x] : x \in D}
<1>1. IsFiniteSet({f[x] : x \in D})  BY ImageFinite
<1>2. IsFiniteSet(T)  BY <1>1, FS_Singleton, FS_Union
<1>3. T \in SUBSET Int /\ T # {}  OBVIOUS
<1> HIDE DEF T
<1>4. Max(T) \in T /\ Max(T) \in Int /\ \A y \in T : y <= Max(T)  BY <1>2, <1>3, Greatest
<1> QED  BY <1>4 DEF T

\* What F makes of a function at i depends only on the values below i.
Recursive(n, V, F) ==
    /\ F \in [1 .. n -> [[1 .. n -> V] -> V]]
    /\ \A i \in 1 .. n : \A g, h \in [1 .. n -> V] :
           (\A j \in 1 .. i - 1 : g[j] = h[j]) => F[i][g] = F[i][h]

Solves(f, n, V, F) == f \in [1 .. n -> V] /\ \A i \in 1 .. n : f[i] = F[i][f]

\* A function on 1 .. n can be defined by recursion: some f is what F makes of it.
LEMMA Recursion ==
    ASSUME NEW n \in Nat, NEW V, NEW F, V # {}, Recursive(n, V, F)
    PROVE  \E f : Solves(f, n, V, F)
<1>0. /\ F \in [1 .. n -> [[1 .. n -> V] -> V]]
      /\ \A i \in 1 .. n : \A g, h \in [1 .. n -> V] :
             (\A j \in 1 .. i - 1 : g[j] = h[j]) => F[i][g] = F[i][h]
    BY DEF Recursive
<1> DEFINE Upto(f, k) == \A i \in 1 .. k : f[i] = F[i][f]
           Bad == {k \in 0 .. n : ~(\E f \in [1 .. n -> V] : Upto(f, k))}
<1>1. Bad = {}
    <2>0. \A k : k \in Bad <=> k \in 0 .. n /\ ~(\E f \in [1 .. n -> V] : Upto(f, k))  OBVIOUS
    <2> HIDE DEF Bad
    <2> SUFFICES ASSUME Bad # {} PROVE FALSE  OBVIOUS
    <2>a. Bad \in SUBSET Nat  BY <2>0
    <2>1. PICK k \in Bad : \A j \in Bad : k <= j  BY <2>a, Least
    <2>b. k \in 0 .. n /\ ~(\E f \in [1 .. n -> V] : Upto(f, k))  BY <2>0
    <2>2. CASE k = 0
        <3>1. PICK v \in V : TRUE  OBVIOUS
        <3>2. [i \in 1 .. n |-> v] \in [1 .. n -> V]  OBVIOUS
        <3>3. \A f : Upto(f, 0)  OBVIOUS
        <3> QED  BY <2>b, <2>2, <3>2, <3>3
    <2>3. CASE k > 0
        <3>1. k - 1 \in 0 .. n /\ k - 1 \notin Bad /\ k \in 1 .. n  BY <2>1, <2>b, <2>3
        <3>2. PICK f \in [1 .. n -> V] : Upto(f, k - 1)  BY <2>0, <3>1
        <3> DEFINE g == [f EXCEPT ![k] = F[k][f]]
        <3>3. F[k][f] \in V  BY <1>0, <3>1
        <3>4. g \in [1 .. n -> V] /\ g[k] = F[k][f] /\ \A j \in 1 .. n : j # k => g[j] = f[j]
            BY <3>1, <3>3
        <3> HIDE DEF g
        <3>5. F[k][g] = F[k][f]
            <4>1. \A j \in 1 .. k - 1 : g[j] = f[j]  BY <3>1, <3>4
            <4> QED  BY <1>0, <3>1, <3>4, <4>1
        <3>6. ASSUME NEW i \in 1 .. k - 1  PROVE g[i] = F[i][g]
            <4>1. i \in 1 .. n /\ i # k  BY <3>1
            <4>2. \A j \in 1 .. i - 1 : g[j] = f[j]  BY <3>1, <3>4, <4>1
            <4>3. F[i][g] = F[i][f]  BY <1>0, <3>4, <4>1, <4>2
            <4> QED  BY <3>2, <3>4, <4>1, <4>3
        <3>7. \A i \in 1 .. k : i = k \/ i \in 1 .. k - 1  BY <3>1
        <3>8. Upto(g, k)  BY <3>4, <3>5, <3>6, <3>7
        <3> QED  BY <2>b, <3>4, <3>8
    <2> QED  BY <2>b, <2>2, <2>3
<1>2. n \in 0 .. n  OBVIOUS
<1>3. PICK f \in [1 .. n -> V] : Upto(f, n)  BY <1>1, <1>2
<1>4. Solves(f, n, V, F)  BY <1>3 DEF Solves
<1> QED  BY <1>4
=============================================================================
