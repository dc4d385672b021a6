------------------------ MODULE SdcScheduling_proofs ------------------------
(***************************************************************************)
(* Proofs about SdcScheduling, for every loop: the constraints go forward, *)
(* the solver therefore always finds the steps, the restarts are bounded,  *)
(* the chains of operations meet the clock, no path needs more units than  *)
(* there are, and the code motion leaves every value where it is needed.   *)
(***************************************************************************)
EXTENDS SdcScheduling, InductionFacts

------------------------------------------------------------------------------
(* The loop and its operations *)

\* What the scheduler derives from the loop alone does not change with its own state.
LEMMA SameLoop ==
    ASSUME loop' = loop
    PROVE  /\ Ops' = Ops /\ Blocks' = Blocks /\ Exclusive' = Exclusive
           /\ \A i : (Delays(i))' = Delays(i) /\ (Timed(i))' = Timed(i)
           /\ \A i, j : (LocalDelay(i, j))' = LocalDelay(i, j)
           /\ \A e : (Constrained(e))' = Constrained(e) /\ (DependenceWeight(e))' = DependenceWeight(e)
<1>1. Ops' = Ops /\ Blocks' = Blocks /\ Exclusive' = Exclusive
    BY DEF Ops, Blocks, Exclusive, Incompatible, Has
<1>2. ASSUME NEW i PROVE (Delays(i))' = Delays(i)
    BY <1>1 DEF Delays, Prolonged, ChainedTo, EdgeDelay, CanBeChained, Has
<1>3. ASSUME NEW i PROVE (Timed(i))' = Timed(i)
    BY <1>1, <1>2 DEF Timed
<1>4. ASSUME NEW i, NEW j PROVE (LocalDelay(i, j))' = LocalDelay(i, j)
    BY <1>2 DEF LocalDelay
<1>5. ASSUME NEW e PROVE (Constrained(e))' = Constrained(e)
    BY DEF Constrained, CanBeChained, Has
<1>6. ASSUME NEW e PROVE (DependenceWeight(e))' = DependenceWeight(e)
    BY DEF DependenceWeight, CanBeChained, Has
<1> QED  BY <1>1, <1>2, <1>3, <1>4, <1>5, <1>6

\* The operations of a loop are 1 .. n, with n > 0.
LEMMA OpsFinite ==
    ASSUME WellFormed(loop)
    PROVE  /\ loop.n \in Nat \ {0} /\ Ops = 1 .. loop.n
           /\ IsFiniteSet(Ops) /\ IsFiniteSet(Ops \X Ops)
           /\ \A S \in SUBSET Ops : IsFiniteSet(S)
           /\ \A S \in SUBSET (Ops \X Ops) : IsFiniteSet(S)
<1>1. loop.n \in Nat \ {0} /\ Ops = 1 .. loop.n  BY DEF WellFormed, Ops, Operations
<1>2. IsFiniteSet(Ops)  BY <1>1, FS_Interval
<1>3. IsFiniteSet(Ops \X Ops)  BY <1>2, FS_Product
<1> QED  BY <1>1, <1>2, <1>3, FS_Subset

\* The numbers of an operation.
LEMMA OpTyped ==
    ASSUME WellFormed(loop), NEW i \in Ops
    PROVE  /\ loop.op[i].time \in Nat /\ loop.op[i].cycles \in Nat \ {0} /\ loop.op[i].ii \in Nat
           /\ loop.op[i].unit \in Units \cup {NoUnit}
           /\ EdgeDelay(i) \in Nat /\ Occupation(i) \in Nat
           /\ loop.block[i] \in Blocks
<1>1. loop.op[i] \in [unit : Units \cup {NoUnit}, cycles : Nat \ {0}, ii : Nat, time : Nat, flags : SUBSET Flags]
    BY DEF WellFormed, Ops
<1>2. /\ loop.op[i].time \in Nat /\ loop.op[i].cycles \in Nat \ {0} /\ loop.op[i].ii \in Nat
      /\ loop.op[i].unit \in Units \cup {NoUnit}
    BY <1>1
<1>3. Occupation(i) \in Nat  BY <1>2 DEF Occupation
<1>4. EdgeDelay(i) \in Nat
    <2> DEFINE c == loop.op[i].cycles - 1
    <2>1. c \in Nat  BY <1>2
    <2>2. c * Clock \in Nat  BY <2>1, SchedulingAssumption
    <2> HIDE DEF c
    <2> QED  BY <1>2, <2>1, <2>2 DEF EdgeDelay, c
<1>5. loop.block[i] \in Blocks  BY DEF Blocks
<1> QED  BY <1>2, <1>3, <1>4, <1>5

------------------------------------------------------------------------------
(* The delays of chains *)

\* Delays satisfies the equation it is defined by, and its values are integers.
LEMMA DelaysEquation ==
    ASSUME WellFormed(loop), NEW i
    PROVE  LET Chain(g, j) == {-1} \cup {Prolonged(g[h], h) : h \in ChainedTo(j)} IN
           /\ Delays(i) \in [Ops -> Int]
           /\ \A j \in Ops : Delays(i)[j] = IF j = i THEN 0 ELSE Max(Chain(Delays(i), j))
           /\ \A j \in Ops \ {i} : \A h \in ChainedTo(j) : Prolonged(Delays(i)[h], h) <= Delays(i)[j]
<1> DEFINE Chain(g, j) == {-1} \cup {Prolonged(g[h], h) : h \in ChainedTo(j)}
           Value(g, j) == IF j = i THEN 0 ELSE Max(Chain(g, j))
<1>1. loop.n \in Nat /\ Ops = 1 .. loop.n  BY OpsFinite
<1>2. \A j \in Ops : ChainedTo(j) \in SUBSET Ops /\ IsFiniteSet(ChainedTo(j)) /\ \A h \in ChainedTo(j) : h \in 1 .. j - 1
    <2> TAKE j \in Ops
    <2>1. ChainedTo(j) \in SUBSET (1 .. j - 1)  BY DEF ChainedTo
    <2>2. ChainedTo(j) \in SUBSET Ops  BY <1>1, <2>1
    <2> QED  BY <2>1, <2>2, OpsFinite
<1>3. ASSUME NEW g, NEW j \in Ops, \A h \in ChainedTo(j) : g[h] \in Int
      PROVE  /\ Max(Chain(g, j)) \in Int
             /\ \A h \in ChainedTo(j) : Prolonged(g[h], h) <= Max(Chain(g, j))
    <2> DEFINE f == [h \in ChainedTo(j) |-> Prolonged(g[h], h)]
    <2>1. ASSUME NEW h \in ChainedTo(j) PROVE Prolonged(g[h], h) \in Int
        <3>1. EdgeDelay(h) \in Nat  BY <1>2, OpTyped
        <3> QED  BY <1>3, <3>1 DEF Prolonged
    <2>2. f \in [ChainedTo(j) -> Int]  BY <2>1
    <2>3. Chain(g, j) = {-1} \cup {f[h] : h \in ChainedTo(j)}  OBVIOUS
    <2>a. IsFiniteSet(ChainedTo(j)) /\ -1 \in Int  BY <1>2
    <2>4. LET T == {-1} \cup {f[h] : h \in ChainedTo(j)} IN Max(T) \in Int /\ \A y \in T : y <= Max(T)
        <3> HIDE DEF f
        <3> QED  BY <2>a, <2>2, GreatestValue
    <2>5. Max(Chain(g, j)) \in Int /\ \A y \in Chain(g, j) : y <= Max(Chain(g, j))
        <3> HIDE DEF f
        <3> QED  BY <2>3, <2>4
    <2> QED  BY <2>5
<1>4. \E f \in [Ops -> Int] : \A j \in Ops : f[j] = Value(f, j)
    <2> DEFINE F == [j \in 1 .. loop.n |-> [g \in [1 .. loop.n -> Int] |-> Value(g, j)]]
    <2>1. ASSUME NEW j \in 1 .. loop.n, NEW g \in [1 .. loop.n -> Int] PROVE Value(g, j) \in Int
        <3>1. \A h \in ChainedTo(j) : g[h] \in Int  BY <1>1, <1>2
        <3>2. Max(Chain(g, j)) \in Int  BY <1>1, <1>3, <3>1
        <3> HIDE DEF Chain
        <3> QED  BY <3>2
    <2>2. ASSUME NEW j \in 1 .. loop.n, NEW g \in [1 .. loop.n -> Int], NEW h \in [1 .. loop.n -> Int],
                 \A k \in 1 .. j - 1 : g[k] = h[k]
          PROVE  Value(g, j) = Value(h, j)
        <3>1. \A k \in ChainedTo(j) : g[k] = h[k]  BY <1>1, <1>2, <2>2
        <3>2. Chain(g, j) = Chain(h, j)  BY <3>1
        <3> HIDE DEF Chain
        <3> QED  BY <3>2
    <2> HIDE DEF Value
    <2>3. F \in [1 .. loop.n -> [[1 .. loop.n -> Int] -> Int]]  BY <2>1
    <2>4. \A j \in 1 .. loop.n : \A g, h \in [1 .. loop.n -> Int] :
              (\A k \in 1 .. j - 1 : g[k] = h[k]) => F[j][g] = F[j][h]
        BY <2>2
    <2>5. Int # {}  OBVIOUS
    <2>6. Recursive(loop.n, Int, F)  BY <2>3, <2>4 DEF Recursive
    <2>7. PICK f : Solves(f, loop.n, Int, F)
        <3> HIDE DEF F
        <3> QED  BY <1>1, <2>5, <2>6, Recursion
    <2>8. f \in [Ops -> Int]  BY <1>1, <2>7 DEF Solves
    <2>9. \A j \in Ops : f[j] = Value(f, j)  BY <1>1, <2>7, <2>8 DEF Solves
    <2> QED  BY <2>8, <2>9
<1>5. Delays(i) = [j \in Ops |-> Value(Delays(i), j)]
    <2>1. PICK f \in [Ops -> Int] : \A j \in Ops : f[j] = Value(f, j)  BY <1>4
    <2> DEFINE P(g) == g = [j \in Ops |-> Value(g, j)]
    <2>2. P(f)  BY <2>1
    <2>3. Delays(i) = CHOOSE g : P(g)  BY DEF Delays
    <2>4. P(CHOOSE g : P(g))
        <3> HIDE DEF P
        <3> QED  BY <2>2
    <2> QED  BY <2>3, <2>4
<1>6. \A j \in Ops : Delays(i)[j] \in Int
    <2> DEFINE Bad == {j \in Ops : Delays(i)[j] \notin Int}
    <2>0. \A j : j \in Bad <=> j \in Ops /\ Delays(i)[j] \notin Int  OBVIOUS
    <2> HIDE DEF Bad
    <2> SUFFICES ASSUME Bad # {} PROVE FALSE  BY <2>0
    <2>1. Bad \in SUBSET Nat  BY <1>1, <2>0
    <2>2. PICK j \in Bad : \A k \in Bad : j <= k  BY <2>1, Least
    <2>3. j \in Ops /\ Delays(i)[j] \notin Int  BY <2>0
    <2>4. \A h \in ChainedTo(j) : Delays(i)[h] \in Int
        <3> TAKE h \in ChainedTo(j)
        <3>1. h \in Ops /\ h \in 1 .. j - 1  BY <1>2, <2>3
        <3>2. ~(j <= h)  BY <1>1, <2>3, <3>1
        <3> QED  BY <2>0, <2>2, <3>1, <3>2
    <2>5. Max(Chain(Delays(i), j)) \in Int  BY <1>3, <2>3, <2>4
    <2>6. Delays(i)[j] = Value(Delays(i), j)
        <3> HIDE DEF Value
        <3> QED BY <1>5, <2>3
    <2>7. Value(Delays(i), j) \in Int
        <3> HIDE DEF Chain
        <3> QED  BY <2>5
    <2> QED  BY <2>3, <2>6, <2>7
<1>7. \A j \in Ops : Delays(i)[j] = Value(Delays(i), j)
    <2> HIDE DEF Value
    <2> QED  BY <1>5
<1>8. ASSUME NEW j \in Ops \ {i}, NEW h \in ChainedTo(j)
      PROVE  Prolonged(Delays(i)[h], h) <= Delays(i)[j]
    <2>1. \A k \in ChainedTo(j) : Delays(i)[k] \in Int  BY <1>2, <1>6
    <2>2. Prolonged(Delays(i)[h], h) <= Max(Chain(Delays(i), j))  BY <1>3, <2>1
    <2>3. Delays(i)[j] = Max(Chain(Delays(i), j))
        <3> HIDE DEF Chain
        <3> QED  BY <1>7
    <2> QED  BY <2>2, <2>3
<1>9. Delays(i) \in [Ops -> Int]
    <2> HIDE DEF Value
    <2> QED  BY <1>5, <1>6
<1> QED  BY <1>7, <1>8, <1>9

------------------------------------------------------------------------------
(* Constraints *)

\* Constraints between operations, from lower to higher positions and with weights <= 0.
Forward(c) ==
    /\ DOMAIN c \subseteq Ops \X Ops
    /\ \A e \in DOMAIN c : c[e] \in Int /\ c[e] <= 0 /\ e[1] < e[2]

\* Adding constraints keeps all this, and never weakens one that is there or is added.
LEMMA TightenedForward ==
    ASSUME NEW c, NEW new, Forward(c), Forward(new)
    PROVE  /\ Forward(Tightened(c, new))
           /\ \A e \in DOMAIN c : e \in DOMAIN Tightened(c, new) /\ Tightened(c, new)[e] <= c[e]
           /\ \A e \in DOMAIN new : e \in DOMAIN Tightened(c, new) /\ Tightened(c, new)[e] <= new[e]
<1>1. DOMAIN Tightened(c, new) = DOMAIN c \cup DOMAIN new  BY DEF Tightened
<1>2. \A e \in DOMAIN Tightened(c, new) :
          Tightened(c, new)[e] = IF e \in DOMAIN c /\ (e \in DOMAIN new => c[e] <= new[e]) THEN c[e] ELSE new[e]
    BY DEF Tightened
<1>3. \A e \in DOMAIN c : e \in Ops \X Ops /\ c[e] \in Int /\ c[e] <= 0 /\ e[1] < e[2]  BY DEF Forward
<1>4. \A e \in DOMAIN new : e \in Ops \X Ops /\ new[e] \in Int /\ new[e] <= 0 /\ e[1] < e[2]  BY DEF Forward
<1>5. DOMAIN Tightened(c, new) \subseteq Ops \X Ops  BY <1>1, <1>3, <1>4
<1>6. ASSUME NEW e \in DOMAIN Tightened(c, new)
      PROVE  Tightened(c, new)[e] \in Int /\ Tightened(c, new)[e] <= 0 /\ e[1] < e[2]
    BY <1>1, <1>2, <1>3, <1>4
<1>7. ASSUME NEW e \in DOMAIN c
      PROVE  e \in DOMAIN Tightened(c, new) /\ Tightened(c, new)[e] <= c[e]
    BY <1>1, <1>2, <1>3, <1>4
<1>8. ASSUME NEW e \in DOMAIN new
      PROVE  e \in DOMAIN Tightened(c, new) /\ Tightened(c, new)[e] <= new[e]
    BY <1>1, <1>2, <1>3, <1>4
<1> QED  BY <1>5, <1>6, <1>7, <1>8 DEF Forward

\* The constraints of the dependences.
LEMMA DependencesForward ==
    ASSUME WellFormed(loop)
    PROVE  Forward(Dependences)
<1>1. DOMAIN loop.deps \subseteq {e \in Ops \X Ops : e[1] < e[2]}  BY DEF WellFormed, Ops
<1>2. DOMAIN Dependences \subseteq DOMAIN loop.deps  BY DEF Dependences
<1>3. ASSUME NEW e \in DOMAIN Dependences PROVE Dependences[e] \in Int /\ Dependences[e] <= 0
    BY DEF Dependences, DependenceWeight
<1> QED  BY <1>1, <1>2, <1>3 DEF Forward

\* The number of steps is not negative where there is a delay.
LEMMA StepsNat ==
    ASSUME NEW d \in Int, d > 0
    PROVE  StepsFor(d) \in Nat /\ (StepsFor(d) + 1) * Clock >= d
<1>1. Clock \in Nat \ {0}  BY SchedulingAssumption
<1> DEFINE q == (d + Clock - 1) \div Clock
<1>2. q \in Int  BY <1>1
<1>3. q * Clock >= d  BY <1>1
<1>4. q >= 1  BY <1>1
<1> QED  BY <1>1, <1>2, <1>3, <1>4 DEF StepsFor

\* The delays that give constraints are positive numbers.
LEMMA LocalDelayPositive ==
    ASSUME WellFormed(loop), NEW i, NEW j \in Timed(i)
    PROVE  /\ j \in Ops /\ i < j /\ Delays(i)[j] \in Int /\ Delays(i)[j] > 0
           /\ LocalDelay(i, j) \in Int /\ LocalDelay(i, j) > 0
           /\ StepsFor(LocalDelay(i, j)) \in Nat
<1>1. j \in Ops /\ i < j /\ Delays(i)[j] > 0  BY DEF Timed
<1>2. Delays(i)[j] \in Int  BY <1>1, DelaysEquation
<1>3. loop.op[j].time \in Nat  BY <1>1, OpTyped
<1>4. LocalDelay(i, j) \in Int /\ LocalDelay(i, j) > 0  BY <1>1, <1>2, <1>3, SchedulingAssumption DEF LocalDelay
<1> QED  BY <1>1, <1>2, <1>4, StepsNat

\* The constraints of the delays.
LEMMA TimingForward ==
    ASSUME WellFormed(loop), next \in Ops
    PROVE  Forward(TimingWeights)
<1>1. DOMAIN TimingWeights = {<<next, j>> : j \in Timed(next)}  BY DEF TimingWeights
<1>2. ASSUME NEW j \in Timed(next)
      PROVE  /\ j \in Ops /\ next < j
             /\ TimingWeights[<<next, j>>] \in Int /\ TimingWeights[<<next, j>>] <= 0
    <2>1. j \in Ops /\ next < j /\ StepsFor(LocalDelay(next, j)) \in Nat  BY LocalDelayPositive
    <2>2. TimingWeights[<<next, j>>] = -StepsFor(LocalDelay(next, j))  BY DEF TimingWeights
    <2> QED  BY <2>1, <2>2
<1> QED  BY <1>1, <1>2 DEF Forward

\* The constraint of the branch.
LEMMA BranchForward ==
    ASSUME WellFormed(loop), next \in Ops
    PROVE  Forward(BranchWeights)
<1> DEFINE f == [j \in Timed(next) |-> StepsFor(LocalDelay(next, j))]
           T == {0} \cup {f[j] : j \in Timed(next)}
<1>1. T = {0} \cup {StepsFor(LocalDelay(next, j)) : j \in Timed(next)}  OBVIOUS
<1>2. f \in [Timed(next) -> Int]  BY LocalDelayPositive
<1>3. Timed(next) \in SUBSET Ops  BY DEF Timed
<1>4. IsFiniteSet(Timed(next))  BY <1>3, OpsFinite
<1>5. Max(T) \in Int /\ 0 <= Max(T)
    <2>1. LET U == {0} \cup {f[j] : j \in Timed(next)} IN Max(U) \in Int /\ \A y \in U : y <= Max(U)
        <3> HIDE DEF f
        <3> QED  BY <1>2, <1>4, GreatestValue
    <2> HIDE DEF f
    <2> QED  BY <2>1
<1> DEFINE last == {j \in {LastStatement(next)} : next < j /\ Has(j, "branch")}
<1> HIDE DEF f, T
<1>6. BranchWeights = [e \in {<<next, j>> : j \in last} |-> -Max(T)]
    BY <1>1 DEF BranchWeights
<1>7. \A j \in last : j \in Ops /\ next < j
    <2>1. {j \in Ops : loop.block[j] = loop.block[next]} \in SUBSET Int
        BY OpsFinite
    <2>2. IsFiniteSet({j \in Ops : loop.block[j] = loop.block[next]})
        BY OpsFinite
    <2>3. {j \in Ops : loop.block[j] = loop.block[next]} # {}  OBVIOUS
    <2>4. LastStatement(next) \in Ops  BY <2>1, <2>2, <2>3, Greatest DEF LastStatement
    <2> QED  BY <2>4
<1> HIDE DEF last
<1> QED  BY <1>5, <1>6, <1>7 DEF Forward

\* The constraints of the units: a full window is not empty and starts with an operation
\* before the next one.
LEMMA ResourcesForward ==
    ASSUME WellFormed(loop), next \in Ops, NEW u \in Units,
           \A w \in Windows(u) : w \in Seq(1 .. next - 1)
    PROVE  Forward(ResourceWeights(u))
<1>1. loop.number[u] \in Nat \ {0}  BY DEF WellFormed
<1>2. ASSUME NEW w \in Full(u) PROVE Head(w) \in Ops /\ Head(w) < next
    <2>1. w \in Seq(1 .. next - 1) /\ Len(w) >= loop.number[u]  BY DEF Full, Limit
    <2>2. Len(w) \in Nat /\ Len(w) >= 1  BY <1>1, <2>1
    <2>3. Head(w) \in 1 .. next - 1
        <3> DEFINE S == 1 .. next - 1
        <3>1. w \in Seq(S) /\ w # << >>  BY <2>1, <2>2
        <3> HIDE DEF S
        <3>2. Head(w) \in S  BY <3>1
        <3> QED  BY <3>2 DEF S
    <2> QED  BY <2>3, OpsFinite
<1>3. DOMAIN ResourceWeights(u) = {<<Head(w), next>> : w \in Full(u)}  BY DEF ResourceWeights
<1>4. ASSUME NEW e \in DOMAIN ResourceWeights(u)
      PROVE  e \in Ops \X Ops /\ e[1] < e[2] /\ ResourceWeights(u)[e] \in Int /\ ResourceWeights(u)[e] <= 0
    <2>1. PICK w \in Full(u) : e = <<Head(w), next>>  BY <1>3
    <2>2. e[1] \in Ops /\ e[2] = next /\ e[1] < e[2] /\ e \in Ops \X Ops  BY <1>2, <2>1
    <2>3. Occupation(e[1]) \in Nat  BY <2>2, OpTyped
    <2>4. ResourceWeights(u)[e] = -Occupation(e[1])  BY <1>3 DEF ResourceWeights
    <2> QED  BY <2>2, <2>3, <2>4
<1> QED  BY <1>4 DEF Forward

\* The constraints that separate exclusive operations.
LEMMA SeparationForward ==
    Forward(Separation)
BY DEF Forward, Separation, Conflicts, Exclusive

------------------------------------------------------------------------------
(* The solver *)

\* A round moves an operation to the least step that respects the constraints of the last one.
LEMMA RelaxedLeast ==
    ASSUME WellFormed(loop), Forward(constraints), NEW x \in [Ops -> Int]
    PROVE  /\ Relaxed(x) \in [Ops -> Int]
           /\ \A j \in Ops : x[j] <= Relaxed(x)[j]
           /\ \A e \in DOMAIN constraints : x[e[1]] - constraints[e] <= Relaxed(x)[e[2]]
           /\ \A j \in Ops, m \in Int :
                 x[j] <= m /\ (\A e \in DOMAIN constraints : e[2] = j => x[e[1]] - constraints[e] <= m)
                     => Relaxed(x)[j] <= m
<1> DEFINE In(j) == {d \in DOMAIN constraints : d[2] = j}
           f(j) == [e \in In(j) |-> x[e[1]] - constraints[e]]
           T(j) == {x[j]} \cup {x[e[1]] - constraints[e] : e \in In(j)}
<1>1. \A e \in DOMAIN constraints : e \in Ops \X Ops /\ e[1] \in Ops /\ e[2] \in Ops /\ constraints[e] \in Int
    BY DEF Forward
<1>2. ASSUME NEW j \in Ops
      PROVE  Max(T(j)) \in T(j) /\ Max(T(j)) \in Int /\ \A y \in T(j) : y <= Max(T(j))
    <2>1. f(j) \in [In(j) -> Int] /\ x[j] \in Int  BY <1>1
    <2>2. IsFiniteSet(In(j))
        <3>1. In(j) \in SUBSET (Ops \X Ops)  BY <1>1
        <3> HIDE DEF In
        <3> QED  BY <3>1, OpsFinite
    <2>3. T(j) = {x[j]} \cup {f(j)[e] : e \in In(j)}  OBVIOUS
    <2> DEFINE g == f(j)
               D == In(j)
               a == x[j]
    <2> HIDE DEF f, In, g, D, a
    <2>4. g \in [D -> Int] /\ IsFiniteSet(D) /\ a \in Int  BY <2>1, <2>2 DEF g, D, a
    <2>5. LET U == {a} \cup {g[e] : e \in D} IN Max(U) \in U /\ Max(U) \in Int /\ \A y \in U : y <= Max(U)
        BY <2>4, GreatestValue
    <2>6. T(j) = {a} \cup {g[e] : e \in D}  BY <2>3 DEF g, D, a
    <2> HIDE DEF T
    <2> QED  BY <2>5, <2>6
<1>3. \A j \in Ops : Relaxed(x)[j] = Max(T(j))
    BY DEF Relaxed
<1>4. DOMAIN Relaxed(x) = Ops /\ Relaxed(x) = [j \in Ops |-> Relaxed(x)[j]]  BY DEF Relaxed
<1>5. Relaxed(x) \in [Ops -> Int]
    <2> HIDE DEF T
    <2> QED  BY <1>2, <1>3, <1>4
<1>6. ASSUME NEW j \in Ops PROVE x[j] <= Relaxed(x)[j]
    BY <1>2, <1>3
<1>7. ASSUME NEW e \in DOMAIN constraints PROVE x[e[1]] - constraints[e] <= Relaxed(x)[e[2]]
    <2>1. e[2] \in Ops  BY <1>1
    <2>2. x[e[1]] - constraints[e] \in T(e[2])  OBVIOUS
    <2> HIDE DEF T
    <2> QED  BY <1>2, <1>3, <2>1, <2>2
<1>8. ASSUME NEW j \in Ops, NEW m \in Int, x[j] <= m,
             \A e \in DOMAIN constraints : e[2] = j => x[e[1]] - constraints[e] <= m
      PROVE  Relaxed(x)[j] <= m
    <2>1. \A y \in T(j) : y <= m  BY <1>8
    <2> HIDE DEF T
    <2> QED  BY <1>2, <1>3, <2>1
<1> QED  BY <1>5, <1>6, <1>7, <1>8

\* If the first k operations no longer move, neither does, after one more round, the next
\* one: its constraints come from operations before it.
LEMMA RoundSettles ==
    ASSUME WellFormed(loop), Forward(constraints), NEW x \in [Ops -> Int], NEW k \in Nat,
           \A j \in Ops : j <= k => Relaxed(x)[j] = x[j]
    PROVE  \A j \in Ops : j <= k + 1 => Relaxed(Relaxed(x))[j] = Relaxed(x)[j]
<1> DEFINE y == Relaxed(x)
<1>1. y \in [Ops -> Int]  BY RelaxedLeast
<1>2. Ops \subseteq Nat  BY OpsFinite
<1>3. ASSUME NEW j \in Ops, j <= k + 1 PROVE Relaxed(y)[j] = y[j]
    <2>1. ASSUME NEW e \in DOMAIN constraints, e[2] = j PROVE y[e[1]] - constraints[e] <= y[j]
        <3>1. e[1] \in Ops /\ e[1] < j  BY <2>1 DEF Forward
        <3>2. e[1] <= k
            <4>1. e[1] \in Nat /\ j \in Nat  BY <1>2, <3>1
            <4> QED  BY <1>3, <3>1, <4>1
        <3>3. y[e[1]] = x[e[1]]  BY <3>1, <3>2
        <3> QED  BY <2>1, <3>3, RelaxedLeast
    <2>2. y[j] \in Int  BY <1>1
    <2> HIDE DEF y
    <2>3. Relaxed(y)[j] <= y[j]  BY <1>1, <2>1, <2>2, RelaxedLeast
    <2>4. y[j] <= Relaxed(y)[j] /\ Relaxed(y)[j] \in Int  BY <1>1, RelaxedLeast
    <2> QED  BY <2>2, <2>3, <2>4
<1> QED  BY <1>3

\* The first operation has nothing to wait for.
LEMMA FirstSettled ==
    ASSUME WellFormed(loop), Forward(constraints), NEW x \in [Ops -> Int]
    PROVE  \A j \in Ops : j <= 1 => Relaxed(x)[j] = x[j]
<1> SUFFICES ASSUME NEW j \in Ops, j <= 1 PROVE Relaxed(x)[j] = x[j]  OBVIOUS
<1>1. \A e \in DOMAIN constraints : e[2] # j
    <2> TAKE e \in DOMAIN constraints
    <2>1. e[1] \in Ops /\ e[2] \in Ops /\ e[1] < e[2]  BY DEF Forward
    <2> QED  BY <2>1, OpsFinite
<1>2. x[j] \in Int  OBVIOUS
<1>3. Relaxed(x)[j] <= x[j] /\ x[j] <= Relaxed(x)[j] /\ Relaxed(x)[j] \in Int  BY <1>1, <1>2, RelaxedLeast
<1> QED  BY <1>2, <1>3

\* Relaxed depends on the loop and on the constraints only.
LEMMA RelaxedSame ==
    ASSUME loop' = loop, constraints' = constraints
    PROVE  (Relaxed(label))' = Relaxed(label')
BY SameLoop DEF Relaxed

------------------------------------------------------------------------------
(* The inductive invariant *)

\* The part of the type invariant and of ForwardOnly that is about constraints.
LEMMA ConstraintsForward ==
    ASSUME TypeOK, ForwardOnly
    PROVE  WellFormed(loop) /\ Forward(constraints)
BY DEF TypeOK, ForwardOnly, Forward

\* The invariant holds before the first loop is scheduled.
LEMMA InitInductive == Init => Inductive
<1> SUFFICES ASSUME Init PROVE Inductive  OBVIOUS
<1>1. PICK n \in Sizes : loop \in Loops(n)  BY DEF Init
<1>2. WellFormed(loop)  BY <1>1, SchedulingAssumption
<1>3. constraints = << >> /\ DOMAIN constraints = {}  BY DEF Init
<1>4. loop.n \in Nat \ {0}  BY <1>2, OpsFinite
<1>5. 0 \in 0 .. loop.n /\ 1 \in 1 .. loop.n + 1  BY <1>4
<1>6. TypeOK
    BY <1>2, <1>3, <1>4, <1>5 DEF Init, TypeOK
<1>7. Separated = {}  BY <1>3 DEF Separated
<1>8. RestartsCounted  BY <1>7, FS_EmptySet DEF Init, RestartsCounted
<1> QED
    BY <1>3, <1>6, <1>8 DEF Init, Inductive, ForwardOnly, NeverFails, WindowsBelow, SettledUpTo, Satisfied,
        DependencesKept, DelaysKept

\* The constraints of the next state are at least as tight.
Tighter == \A e \in DOMAIN constraints : e \in DOMAIN constraints' /\ constraints'[e] <= constraints[e]

\* Tightening preserves what holds of the constraints already there.
LEMMA TighterKeeps ==
    ASSUME WellFormed(loop), Forward(constraints), loop' = loop, Forward(constraints'), Tighter
    PROVE  /\ \A e \in DOMAIN loop.deps :
                 Kept(e, DependenceWeight(e)) => (Kept(e, DependenceWeight(e)))'
           /\ \A i \in Ops : \A j \in Timed(i) :
                 Kept(<<i, j>>, -StepsFor(LocalDelay(i, j))) => (Kept(<<i, j>>, -StepsFor(LocalDelay(i, j))))'
           /\ Separated \subseteq Separated' /\ IsFiniteSet(Separated')
           /\ Cardinality(Separated) \in Nat /\ (Cardinality(Separated))' \in Nat
           /\ Cardinality(Separated) <= (Cardinality(Separated))'
<1>1. \A e \in DOMAIN constraints : constraints[e] \in Int  BY DEF Forward
<1>2. \A e \in DOMAIN constraints' : constraints'[e] \in Int  BY DEF Forward
<1>3. ASSUME NEW e, NEW w \in Int, Kept(e, w) PROVE e \in DOMAIN constraints' /\ constraints'[e] <= w
    BY <1>1, <1>2, <1>3 DEF Kept, Tighter
<1>4. ASSUME NEW e \in DOMAIN loop.deps, Kept(e, DependenceWeight(e))
      PROVE  (Kept(e, DependenceWeight(e)))'
    <2>1. DependenceWeight(e) \in Int  BY DEF DependenceWeight
    <2>2. (DependenceWeight(e))' = DependenceWeight(e)  BY SameLoop
    <2> QED  BY <1>3, <1>4, <2>1, <2>2 DEF Kept
<1>5. ASSUME NEW i \in Ops, NEW j \in Timed(i), Kept(<<i, j>>, -StepsFor(LocalDelay(i, j)))
      PROVE  (Kept(<<i, j>>, -StepsFor(LocalDelay(i, j))))'
    <2>1. -StepsFor(LocalDelay(i, j)) \in Int  BY LocalDelayPositive
    <2>2. (LocalDelay(i, j))' = LocalDelay(i, j)  BY SameLoop
    <2>3. (StepsFor(LocalDelay(i, j)))' = StepsFor(LocalDelay(i, j))  BY <2>2 DEF StepsFor
    <2>4. <<i, j>> \in DOMAIN constraints' /\ constraints'[<<i, j>>] <= -StepsFor(LocalDelay(i, j))
        BY <1>3, <1>5, <2>1
    <2> QED  BY <2>3, <2>4 DEF Kept
<1>6. Exclusive' = Exclusive  BY SameLoop
<1>7. Separated \subseteq Separated'
    <2> SUFFICES ASSUME NEW e \in Separated PROVE e \in Separated'  OBVIOUS
    <2>1. e \in Exclusive /\ e \in DOMAIN constraints /\ constraints[e] <= -1  BY DEF Separated
    <2>2. e \in DOMAIN constraints' /\ constraints'[e] <= constraints[e]  BY <2>1 DEF Tighter
    <2>3. constraints[e] \in Int /\ constraints'[e] \in Int  BY <1>1, <1>2, <2>1, <2>2
    <2>4. constraints'[e] <= -1  BY <2>1, <2>2, <2>3
    <2> QED  BY <1>6, <2>1, <2>2, <2>4 DEF Separated
<1>8. Separated' \in SUBSET (Ops \X Ops)  BY <1>6 DEF Separated, Exclusive
<1>9. IsFiniteSet(Separated')  BY <1>8, OpsFinite
<1>10. IsFiniteSet(Separated) /\ Cardinality(Separated) <= Cardinality(Separated')  BY <1>7, <1>9, FS_Subset
<1>11. Cardinality(Separated) \in Nat /\ Cardinality(Separated') \in Nat  BY <1>9, <1>10, FS_CardinalityType
<1> QED  BY <1>4, <1>5, <1>7, <1>9, <1>10, <1>11

\* Adding the constraints of the dependences preserves it.
LEMMA AddDependencesStep == Inductive /\ AddDependences => Inductive'
<1> SUFFICES ASSUME Inductive, AddDependences PROVE Inductive'  OBVIOUS
<1> USE DEF Inductive
<1>1. WellFormed(loop) /\ Forward(constraints)  BY ConstraintsForward
<1>2. loop' = loop /\ Ops' = Ops  BY SameLoop DEF AddDependences
<1>3. Forward(constraints') /\ Tighter
      /\ \A e \in DOMAIN Dependences : e \in DOMAIN constraints' /\ constraints'[e] <= Dependences[e]
    BY <1>1, DependencesForward, TightenedForward DEF AddDependences, Tighter
<1>4. phase = "dependences" /\ phase' = "timing" /\ next' = 1
    BY DEF AddDependences, DelaysKept
<1>5. TypeOK' /\ ForwardOnly' /\ NeverFails' /\ WindowsBelow' /\ SettledUpTo' /\ Satisfied'
    <2>1. WellFormed(loop')  BY <1>1, <1>2
    <2>2. TypeOK'
        BY <1>2, <1>3, <1>4, <2>1 DEF TypeOK, Forward, AddDependences, solver, function
    <2> QED  BY <1>2, <1>3, <1>4, <2>2 DEF ForwardOnly, Forward, NeverFails, WindowsBelow, SettledUpTo, Satisfied
<1>6. RestartsCounted'
    <2>1. restarts' = restarts /\ restarts \in Nat  BY DEF AddDependences, solver, TypeOK
    <2> QED  BY <1>1, <1>2, <1>3, <2>1, TighterKeeps DEF RestartsCounted
<1>7. DependencesKept'
    <2> SUFFICES ASSUME NEW e \in DOMAIN loop'.deps, (Constrained(e))' PROVE (Kept(e, DependenceWeight(e)))'
        BY DEF DependencesKept
    <2>1. e \in DOMAIN Dependences /\ Dependences[e] = DependenceWeight(e)
        BY <1>2, SameLoop DEF Dependences
    <2>2. (DependenceWeight(e))' = DependenceWeight(e)  BY <1>2, SameLoop
    <2> QED  BY <1>3, <2>1, <2>2 DEF Kept
<1>8. DelaysKept'
    <2>1. \A i \in Ops : ~(i < 1)  BY <1>1, OpsFinite
    <2> QED  BY <1>2, <1>4, <2>1 DEF DelaysKept
<1> QED  BY <1>5, <1>6, <1>7, <1>8

\* A step after the delays that only tightens constraints keeps what the invariant says of
\* them; the restarts need a look if it adds one.
LEMMA LaterStep ==
    ASSUME Inductive, loop' = loop, Forward(constraints'), Tighter,
           phase # "dependences", phase = "timing" => next \notin Ops,
           phase' \notin {"dependences", "timing"}
    PROVE  /\ ForwardOnly' /\ DependencesKept' /\ DelaysKept'
           /\ WellFormed(loop') /\ DOMAIN constraints' \subseteq Ops' \X Ops'
           /\ \A e \in DOMAIN constraints' : constraints'[e] \in Int /\ constraints'[e] <= 0
           /\ restarts' = restarts => RestartsCounted'
<1> USE DEF Inductive
<1>1. WellFormed(loop) /\ Forward(constraints)  BY ConstraintsForward
<1>2. Ops' = Ops  BY SameLoop
<1>3. /\ ForwardOnly'
      /\ WellFormed(loop') /\ DOMAIN constraints' \subseteq Ops' \X Ops'
      /\ \A e \in DOMAIN constraints' : constraints'[e] \in Int /\ constraints'[e] <= 0
    BY <1>1, <1>2 DEF ForwardOnly, Forward
<1>4. DependencesKept'
    <2> SUFFICES ASSUME NEW e \in DOMAIN loop'.deps, (Constrained(e))' PROVE (Kept(e, DependenceWeight(e)))'
        BY DEF DependencesKept
    <2>1. e \in DOMAIN loop.deps /\ Constrained(e)  BY SameLoop
    <2>2. Kept(e, DependenceWeight(e))  BY <2>1 DEF DependencesKept
    <2> QED  BY <1>1, <2>1, <2>2, TighterKeeps
<1>5. DelaysKept'
    <2> SUFFICES ASSUME NEW i \in Ops', NEW j \in (Timed(i))'
                 PROVE  (Kept(<<i, j>>, -StepsFor(LocalDelay(i, j))))'
        BY DEF DelaysKept
    <2>1. i \in Ops /\ j \in Timed(i)  BY SameLoop
    <2>2. phase = "timing" => i < next
        <3>1. loop.n \in Nat /\ Ops = 1 .. loop.n  BY <1>1, OpsFinite
        <3>2. next \in 1 .. loop.n + 1  BY DEF TypeOK
        <3> QED  BY <2>1, <3>1, <3>2
    <2>3. Kept(<<i, j>>, -StepsFor(LocalDelay(i, j)))  BY <2>1, <2>2 DEF DelaysKept
    <2> QED  BY <1>1, <2>1, <2>3, TighterKeeps
<1>6. ASSUME restarts' = restarts PROVE RestartsCounted'
    <2>1. restarts \in Nat  BY DEF TypeOK
    <2> QED  BY <1>1, <1>6, <2>1, TighterKeeps DEF RestartsCounted
<1> QED  BY <1>3, <1>4, <1>5, <1>6

\* The same for a step that adds no constraints.
LEMMA QuietStep ==
    ASSUME Inductive, loop' = loop, constraints' = constraints
    PROVE  Forward(constraints') /\ Tighter /\ Ops' = Ops
<1>1. Forward(constraints)  BY ConstraintsForward DEF Inductive
<1>2. Tighter
    <2>1. \A e \in DOMAIN constraints : constraints[e] \in Int  BY <1>1 DEF Forward
    <2> QED  BY <2>1 DEF Tighter
<1> QED  BY <1>1, <1>2, SameLoop

\* Adding the constraints of the delays from one operation preserves it.
LEMMA AddTimingStep == Inductive /\ AddTiming => Inductive'
<1> SUFFICES ASSUME Inductive, AddTiming PROVE Inductive'  OBVIOUS
<1> USE DEF Inductive
<1>1. WellFormed(loop) /\ Forward(constraints)  BY ConstraintsForward
<1>2. loop' = loop /\ Ops' = Ops  BY SameLoop DEF AddTiming
<1>3. next \in Ops /\ next' = next + 1 /\ phase = "timing" /\ phase' = "timing"  BY DEF AddTiming
<1> DEFINE mid == Tightened(constraints, TimingWeights)
<1>4. Forward(TimingWeights) /\ Forward(BranchWeights)  BY <1>1, <1>3, TimingForward, BranchForward
<1>5. /\ Forward(mid)
      /\ \A e \in DOMAIN constraints : e \in DOMAIN mid /\ mid[e] <= constraints[e]
      /\ \A e \in DOMAIN TimingWeights : e \in DOMAIN mid /\ mid[e] <= TimingWeights[e]
    BY <1>1, <1>4, TightenedForward
<1>6. constraints' = Tightened(mid, BranchWeights)  BY DEF AddTiming
<1> HIDE DEF mid
<1>7. /\ Forward(constraints')
      /\ \A e \in DOMAIN mid : e \in DOMAIN constraints' /\ constraints'[e] <= mid[e]
    BY <1>4, <1>5, <1>6, TightenedForward
<1>8. /\ \A e \in DOMAIN mid : mid[e] \in Int
      /\ \A e \in DOMAIN constraints : constraints[e] \in Int
      /\ \A e \in DOMAIN constraints' : constraints'[e] \in Int
      /\ \A e \in DOMAIN TimingWeights : TimingWeights[e] \in Int
    BY <1>1, <1>4, <1>5, <1>7 DEF Forward
<1>9. Tighter
    <2> SUFFICES ASSUME NEW e \in DOMAIN constraints
                 PROVE  e \in DOMAIN constraints' /\ constraints'[e] <= constraints[e]
        BY DEF Tighter
    <2> QED  BY <1>5, <1>7, <1>8
<1>10. \A e \in DOMAIN TimingWeights : e \in DOMAIN constraints' /\ constraints'[e] <= TimingWeights[e]
    <2> TAKE e \in DOMAIN TimingWeights
    <2> QED  BY <1>5, <1>7, <1>8
<1>11. TypeOK' /\ ForwardOnly' /\ NeverFails' /\ WindowsBelow' /\ SettledUpTo' /\ Satisfied'
    <2>1. WellFormed(loop')  BY <1>1, <1>2
    <2>2. next' \in 1 .. loop'.n + 1  BY <1>1, <1>2, <1>3, OpsFinite
    <2>3. TypeOK'
        BY <1>2, <1>3, <1>7, <2>1, <2>2 DEF TypeOK, Forward, AddTiming, solver, function
    <2> QED  BY <1>2, <1>3, <1>7, <2>3 DEF ForwardOnly, Forward, NeverFails, WindowsBelow, SettledUpTo, Satisfied
<1>12. RestartsCounted'
    <2>1. restarts' = restarts /\ restarts \in Nat  BY DEF AddTiming, solver, TypeOK
    <2> QED  BY <1>1, <1>2, <1>7, <1>9, <2>1, TighterKeeps DEF RestartsCounted
<1>13. DependencesKept'
    <2> SUFFICES ASSUME NEW e \in DOMAIN loop'.deps, (Constrained(e))' PROVE (Kept(e, DependenceWeight(e)))'
        BY DEF DependencesKept
    <2>1. e \in DOMAIN loop.deps /\ Constrained(e)  BY <1>2, SameLoop
    <2>2. Kept(e, DependenceWeight(e))  BY <1>3, <2>1 DEF DependencesKept
    <2> QED  BY <1>1, <1>2, <1>7, <1>9, <2>1, <2>2, TighterKeeps
<1>14. DelaysKept'
    <2> SUFFICES ASSUME NEW i \in Ops', i < next', NEW j \in (Timed(i))'
                 PROVE  (Kept(<<i, j>>, -StepsFor(LocalDelay(i, j))))'
        BY <1>3 DEF DelaysKept
    <2>1. i \in Ops /\ j \in Timed(i)  BY <1>2, SameLoop
    <2>2. CASE i < next
        <3>1. Kept(<<i, j>>, -StepsFor(LocalDelay(i, j)))  BY <1>3, <2>1, <2>2 DEF DelaysKept
        <3> QED  BY <1>1, <1>2, <1>7, <1>9, <2>1, <3>1, TighterKeeps
    <2>3. CASE i = next
        <3>1. <<i, j>> \in DOMAIN TimingWeights /\ TimingWeights[<<i, j>>] = -StepsFor(LocalDelay(i, j))
            BY <2>1, <2>3 DEF TimingWeights
        <3>2. (LocalDelay(i, j))' = LocalDelay(i, j)  BY <1>2, SameLoop
        <3>3. (StepsFor(LocalDelay(i, j)))' = StepsFor(LocalDelay(i, j))  BY <3>2 DEF StepsFor
        <3> QED  BY <1>10, <3>1, <3>3 DEF Kept
    <2>4. i < next \/ i = next
        <3>1. i \in Nat /\ next \in Nat  BY <1>1, <1>3, <2>1, OpsFinite
        <3> QED  BY <1>3, <3>1
    <2> QED  BY <2>2, <2>3, <2>4
<1> QED  BY <1>11, <1>12, <1>13, <1>14

\* The end of the delays preserves it.
LEMMA AllTimedStep == Inductive /\ AllTimed => Inductive'
<1> SUFFICES ASSUME Inductive, AllTimed PROVE Inductive'  OBVIOUS
<1> USE DEF Inductive
<1>1. WellFormed(loop) /\ loop.n \in Nat \ {0}  BY ConstraintsForward, OpsFinite
<1>2. loop' = loop /\ constraints' = constraints /\ restarts' = restarts /\ phase = "timing" /\ next \notin Ops
      /\ phase' = "resources" /\ next' = 1
    BY DEF AllTimed, solver
<1>3. Forward(constraints') /\ Tighter /\ Ops' = Ops  BY <1>2, QuietStep
<1>4. /\ ForwardOnly' /\ DependencesKept' /\ DelaysKept' /\ RestartsCounted'
      /\ WellFormed(loop') /\ DOMAIN constraints' \subseteq Ops' \X Ops'
      /\ \A e \in DOMAIN constraints' : constraints'[e] \in Int /\ constraints'[e] <= 0
    BY <1>2, <1>3, LaterStep
<1>5. TypeOK'
    BY <1>1, <1>2, <1>3, <1>4 DEF TypeOK, AllTimed, solver, function
<1>6. WindowsBelow'
    <2>1. sequences' = [b \in Blocks |-> [u \in Units |-> {}]] /\ Blocks' = Blocks  BY <1>2, SameLoop DEF AllTimed
    <2> QED  BY <2>1 DEF WindowsBelow
<1> QED  BY <1>2, <1>4, <1>5, <1>6 DEF NeverFails, SettledUpTo, Satisfied

\* The end of the placement preserves it.
LEMMA AllPlacedStep == Inductive /\ AllPlaced => Inductive'
<1> SUFFICES ASSUME Inductive, AllPlaced PROVE Inductive'  OBVIOUS
<1> USE DEF Inductive
<1>1. loop' = loop /\ constraints' = constraints /\ restarts' = restarts /\ phase = "resources"
      /\ phase' = "solve"
    BY DEF AllPlaced, solver
<1>2. Forward(constraints') /\ Tighter /\ Ops' = Ops  BY <1>1, QuietStep
<1>3. /\ ForwardOnly' /\ DependencesKept' /\ DelaysKept' /\ RestartsCounted'
      /\ WellFormed(loop') /\ DOMAIN constraints' \subseteq Ops' \X Ops'
      /\ \A e \in DOMAIN constraints' : constraints'[e] \in Int /\ constraints'[e] <= 0
    BY <1>1, <1>2, LaterStep
<1>4. TypeOK'
    BY <1>1, <1>2, <1>3 DEF TypeOK, AllPlaced, solver, function
<1> QED  BY <1>1, <1>3, <1>4 DEF NeverFails, WindowsBelow, SettledUpTo, Satisfied

\* Sliding a window appends the next operation.
LEMMA SlidBelow ==
    ASSUME WellFormed(loop), next \in Ops, NEW u \in Units,
           \A w \in Windows(u) : w \in Seq(1 .. next - 1)
    PROVE  \A w \in Windows(u) \cup Slid(u) : w \in Seq(1 .. next)
<1> DEFINE S == 1 .. next
<1>1. next \in Nat \ {0} /\ next \in S /\ 1 .. next - 1 \subseteq S  BY OpsFinite
<1>2. \A w \in Windows(u) : w \in Seq(S)
    <2> DEFINE R == 1 .. next - 1
    <2>1. R \subseteq S /\ \A w \in Windows(u) : w \in Seq(R)  BY <1>1
    <2> HIDE DEF R, S
    <2>2. Seq(R) \subseteq Seq(S)  BY <2>1
    <2> QED  BY <2>1, <2>2
<1>3. loop.number[u] \in Nat \ {0}  BY DEF WellFormed
<1> HIDE DEF S
<1>4. ASSUME NEW w \in Windows(u) PROVE Slide(w, u) \in Seq(S)
    <2>1. w \in Seq(S) /\ Len(w) \in Nat  BY <1>2
    <2>2. CASE Len(w) >= loop.number[u]
        <3>1. w # << >>  BY <1>3, <2>1, <2>2
        <3>2. Tail(w) \in Seq(S)  BY <2>1, <3>1
        <3>3. Append(Tail(w), next) \in Seq(S)  BY <1>1, <3>2
        <3> QED  BY <2>2, <3>3 DEF Slide, Limit
    <2>3. CASE ~(Len(w) >= loop.number[u])
        <3>1. Append(w, next) \in Seq(S)  BY <1>1, <2>1
        <3> QED  BY <2>3, <3>1 DEF Slide, Limit
    <2> QED  BY <2>2, <2>3
<1>5. <<next>> \in Seq(S)  BY <1>1
<1>6. \A w \in Slid(u) : w \in Seq(S)  BY <1>4, <1>5 DEF Slid
<1> QED  BY <1>2, <1>6 DEF S

\* Placing one operation in the windows preserves it.
LEMMA PlaceStep == Inductive /\ Place => Inductive'
<1> SUFFICES ASSUME Inductive, Place PROVE Inductive'  OBVIOUS
<1> USE DEF Inductive
<1>1. WellFormed(loop) /\ Forward(constraints)  BY ConstraintsForward
<1>2. loop' = loop /\ Ops' = Ops /\ Blocks' = Blocks  BY SameLoop DEF Place
<1>3. next \in Ops /\ next' = next + 1 /\ phase = "resources" /\ phase' = "resources" /\ restarts' = restarts
    BY DEF Place, solver
<1>4. /\ DOMAIN sequences = Blocks
      /\ \A b \in Blocks : DOMAIN sequences[b] = Units
      /\ \A b \in Blocks, u \in Units : \A w \in sequences[b][u] : w \in Seq(1 .. next - 1)
    BY <1>3 DEF WindowsBelow
<1>5. loop.block[next] \in Blocks  BY <1>1, <1>3, OpTyped
<1>6. ASSUME NEW u \in Units, NEW w \in Windows(u) PROVE w \in Seq(1 .. next - 1)
    <2>1. CASE \E i \in Ops : i < next /\ loop.block[i] = loop.block[next]
        <3>1. w \in sequences[loop.block[next]][u]  BY <2>1 DEF Windows
        <3> QED  BY <1>4, <1>5, <3>1
    <2>2. CASE ~(\E i \in Ops : i < next /\ loop.block[i] = loop.block[next])
        <3>1. PICK c \in Blocks : w \in sequences[c][u]  BY <2>2 DEF Windows
        <3> QED  BY <1>4, <3>1
    <2> QED  BY <2>1, <2>2
<1>7. Forward(constraints') /\ Tighter
    <2>1. CASE loop.op[next].unit = NoUnit
        <3>1. constraints' = constraints  BY <2>1 DEF Place
        <3> QED  BY <1>2, <3>1, QuietStep
    <2>2. CASE loop.op[next].unit # NoUnit
        <3>1. loop.op[next].unit \in Units  BY <1>1, <1>3, <2>2, OpTyped
        <3>2. Forward(ResourceWeights(loop.op[next].unit))  BY <1>1, <1>3, <1>6, <3>1, ResourcesForward
        <3>3. constraints' = Tightened(constraints, ResourceWeights(loop.op[next].unit))  BY <2>2 DEF Place
        <3> QED  BY <1>1, <3>2, <3>3, TightenedForward DEF Tighter
    <2> QED  BY <2>1, <2>2
<1>8. /\ ForwardOnly' /\ DependencesKept' /\ DelaysKept' /\ RestartsCounted'
      /\ WellFormed(loop') /\ DOMAIN constraints' \subseteq Ops' \X Ops'
      /\ \A e \in DOMAIN constraints' : constraints'[e] \in Int /\ constraints'[e] <= 0
    BY <1>2, <1>3, <1>7, LaterStep
<1>9. TypeOK'
    <2>1. next' \in 1 .. loop'.n + 1  BY <1>1, <1>2, <1>3, OpsFinite
    <2> QED  BY <1>2, <1>3, <1>8, <2>1 DEF TypeOK, Place, solver, function
<1>10. WindowsBelow'
    <2> DEFINE own == loop.op[next].unit
               here == [u \in Units |-> IF u = own THEN Slid(u) ELSE Windows(u)]
    <2>1. sequences' = [sequences EXCEPT ![loop.block[next]] = here]  BY DEF Place
    <2>2. next' - 1 = next  BY <1>1, <1>3, OpsFinite
    <2>3. ASSUME NEW u \in Units, NEW w \in here[u] PROVE w \in Seq(1 .. next)
        <3>1. w \in Windows(u) \cup Slid(u)  OBVIOUS
        <3> QED  BY <1>1, <1>3, <1>6, <3>1, SlidBelow
    <2>4. DOMAIN here = Units  OBVIOUS
    <2>5. ASSUME NEW b \in Blocks, NEW u \in Units, NEW w \in sequences[b][u] PROVE w \in Seq(1 .. next)
        <3> DEFINE R == 1 .. next - 1
                   S == 1 .. next
        <3>1. w \in Seq(R) /\ R \subseteq S  BY <1>1, <1>3, <1>4, OpsFinite
        <3> HIDE DEF R, S
        <3>2. w \in Seq(S)  BY <3>1
        <3> QED  BY <3>2 DEF S
    <2> HIDE DEF here
    <2>6. DOMAIN sequences' = Blocks /\ \A b \in Blocks : DOMAIN sequences'[b] = Units
        BY <1>4, <1>5, <2>1, <2>4
    <2>7. ASSUME NEW b \in Blocks, NEW u \in Units, NEW w \in sequences'[b][u] PROVE w \in Seq(1 .. next)
        <3>1. CASE b = loop.block[next]  BY <1>4, <1>5, <2>1, <2>3, <3>1
        <3>2. CASE b # loop.block[next]  BY <1>4, <1>5, <2>1, <2>5, <3>2
        <3> QED  BY <3>1, <3>2
    <2> QED  BY <1>2, <2>2, <2>6, <2>7 DEF WindowsBelow
<1> QED  BY <1>3, <1>8, <1>9, <1>10 DEF NeverFails, SettledUpTo, Satisfied

\* Calling the solver preserves it.
LEMMA SolveSDCStep == Inductive /\ SolveSDC => Inductive'
<1> SUFFICES ASSUME Inductive, SolveSDC PROVE Inductive'  OBVIOUS
<1> USE DEF Inductive
<1>1. loop' = loop /\ constraints' = constraints /\ restarts' = restarts /\ phase = "solve" /\ phase' = "relax"
      /\ label' = [j \in Ops |-> 0] /\ round' = 0
    BY DEF SolveSDC
<1>2. Forward(constraints') /\ Tighter /\ Ops' = Ops  BY <1>1, QuietStep
<1>3. /\ ForwardOnly' /\ DependencesKept' /\ DelaysKept' /\ RestartsCounted'
      /\ WellFormed(loop') /\ DOMAIN constraints' \subseteq Ops' \X Ops'
      /\ \A e \in DOMAIN constraints' : constraints'[e] \in Int /\ constraints'[e] <= 0
    BY <1>1, <1>2, LaterStep
<1>4. label' \in [Ops' -> Nat] /\ label' \in [Ops -> Int]  BY <1>1, <1>2
<1>5. TypeOK'
    <2>1. round' \in 0 .. loop'.n  BY <1>1, <1>3, ConstraintsForward, OpsFinite
    <2> QED  BY <1>1, <1>2, <1>3, <1>4, <2>1 DEF TypeOK, SolveSDC, function
<1>6. SettledUpTo'
    <2>1. \A j \in Ops : j <= 1 => Relaxed(label')[j] = label'[j]
        BY <1>4, ConstraintsForward, FirstSettled
    <2>2. (Relaxed(label))' = Relaxed(label')  BY <1>1, RelaxedSame
    <2>3. round' + 1 = 1  BY <1>1
    <2> QED  BY <1>2, <2>1, <2>2, <2>3 DEF SettledUpTo
<1> QED  BY <1>1, <1>3, <1>5, <1>6 DEF NeverFails, WindowsBelow, Satisfied

\* A round of the solver preserves it.
LEMMA RelaxStep == Inductive /\ Relax => Inductive'
<1> SUFFICES ASSUME Inductive, Relax PROVE Inductive'  OBVIOUS
<1> USE DEF Inductive
<1>1. loop' = loop /\ constraints' = constraints /\ restarts' = restarts /\ phase = "relax" /\ phase' = "relax"
      /\ label' = Relaxed(label) /\ round' = round + 1 /\ round < loop.n
    BY DEF Relax
<1>2. Forward(constraints') /\ Tighter /\ Ops' = Ops  BY <1>1, QuietStep
<1>3. /\ ForwardOnly' /\ DependencesKept' /\ DelaysKept' /\ RestartsCounted'
      /\ WellFormed(loop') /\ DOMAIN constraints' \subseteq Ops' \X Ops'
      /\ \A e \in DOMAIN constraints' : constraints'[e] \in Int /\ constraints'[e] <= 0
    BY <1>1, <1>2, LaterStep
<1>4. WellFormed(loop) /\ Forward(constraints)  BY ConstraintsForward
<1>5. label \in [Ops -> Nat] /\ label \in [Ops -> Int] /\ round \in 0 .. loop.n /\ loop.n \in Nat
    BY <1>1, <1>4, OpsFinite DEF TypeOK
<1>6. label' \in [Ops -> Nat]
    <2>1. label' \in [Ops -> Int] /\ \A j \in Ops : label[j] <= label'[j]  BY <1>1, <1>4, <1>5, RelaxedLeast
    <2>2. \A j \in Ops : label'[j] \in Nat
        <3> TAKE j \in Ops
        <3>1. label[j] \in Nat /\ label'[j] \in Int /\ label[j] <= label'[j]  BY <1>5, <2>1
        <3> QED  BY <3>1
    <2> QED  BY <2>1, <2>2
<1>7. TypeOK'
    <2>1. round' \in 0 .. loop'.n  BY <1>1, <1>5
    <2> QED  BY <1>1, <1>2, <1>3, <1>6, <2>1 DEF TypeOK, Relax, function
<1>8. SettledUpTo'
    <2>1. \A j \in Ops : j <= round + 1 => Relaxed(label)[j] = label[j]  BY <1>1 DEF SettledUpTo
    <2>2. \A j \in Ops : j <= (round + 1) + 1 => Relaxed(Relaxed(label))[j] = Relaxed(label)[j]
        <3>1. round + 1 \in Nat  BY <1>5
        <3> QED  BY <1>4, <1>5, <2>1, <3>1, RoundSettles
    <2>3. (Relaxed(label))' = Relaxed(label')  BY <1>1, RelaxedSame
    <2> QED  BY <1>1, <1>2, <2>2, <2>3 DEF SettledUpTo
<1> QED  BY <1>1, <1>3, <1>7, <1>8 DEF NeverFails, WindowsBelow, Satisfied

\* After n rounds all operations are settled: the error is not reached.
LEMMA SolvedStep == Inductive /\ Solved => Inductive'
<1> SUFFICES ASSUME Inductive, Solved PROVE Inductive'  OBVIOUS
<1> USE DEF Inductive
<1>1. loop' = loop /\ constraints' = constraints /\ restarts' = restarts /\ phase = "relax"
      /\ (Relaxed(label) = label \/ round = loop.n) /\ vals' = label
      /\ phase' = IF Relaxed(label) = label THEN "refine" ELSE "error"
    BY DEF Solved, solver
<1>2. WellFormed(loop) /\ Forward(constraints)  BY ConstraintsForward
<1>3. label \in [Ops -> Nat] /\ label \in [Ops -> Int] /\ round \in 0 .. loop.n
      /\ loop.n \in Nat /\ Ops = 1 .. loop.n
    BY <1>1, <1>2, OpsFinite DEF TypeOK
<1>4. Relaxed(label) = label
    <2>1. CASE round = loop.n
        <3>1. \A j \in Ops : j <= round + 1  BY <1>3, <2>1
        <3>2. \A j \in Ops : Relaxed(label)[j] = label[j]  BY <1>1, <3>1 DEF SettledUpTo
        <3>3. Relaxed(label) \in [Ops -> Int]  BY <1>2, <1>3, RelaxedLeast
        <3> QED  BY <1>3, <3>2, <3>3
    <2> QED  BY <1>1, <2>1
<1>5. phase' = "refine"  BY <1>1, <1>4
<1>6. Forward(constraints') /\ Tighter /\ Ops' = Ops  BY <1>1, QuietStep
<1>7. /\ ForwardOnly' /\ DependencesKept' /\ DelaysKept' /\ RestartsCounted'
      /\ WellFormed(loop') /\ DOMAIN constraints' \subseteq Ops' \X Ops'
      /\ \A e \in DOMAIN constraints' : constraints'[e] \in Int /\ constraints'[e] <= 0
    BY <1>1, <1>5, <1>6, LaterStep
<1>8. TypeOK'
    BY <1>1, <1>3, <1>5, <1>6, <1>7 DEF TypeOK, Solved, solver, function
<1>9. Satisfied'
    <2> SUFFICES ASSUME NEW e \in DOMAIN constraints PROVE label[e[2]] >= label[e[1]] - constraints[e]
        BY <1>1 DEF Satisfied
    <2>1. label[e[1]] - constraints[e] <= label[e[2]]  BY <1>2, <1>3, <1>4, RelaxedLeast
    <2>2. e[1] \in Ops /\ e[2] \in Ops /\ constraints[e] \in Int  BY <1>2 DEF Forward
    <2>3. label[e[1]] \in Int /\ label[e[2]] \in Int  BY <1>3, <2>2
    <2> QED  BY <2>1, <2>2, <2>3
<1> QED  BY <1>5, <1>7, <1>8, <1>9 DEF NeverFails, WindowsBelow, SettledUpTo

\* A conflict is a pair that was not separated yet: each restart separates one more.
LEMMA RefineStep == Inductive /\ Refine => Inductive'
<1> SUFFICES ASSUME Inductive, Refine PROVE Inductive'  OBVIOUS
<1> USE DEF Inductive
<1>1. loop' = loop /\ constraints' = Tightened(constraints, Separation) /\ restarts' = restarts + 1
      /\ phase = "refine" /\ phase' = "solve" /\ Conflicts # {}
    BY DEF Refine
<1>2. WellFormed(loop) /\ Forward(constraints)  BY ConstraintsForward
<1>3. /\ Forward(constraints') /\ Tighter
      /\ \A e \in DOMAIN Separation : e \in DOMAIN constraints' /\ constraints'[e] <= Separation[e]
    BY <1>1, <1>2, SeparationForward, TightenedForward DEF Tighter
<1>4. /\ ForwardOnly' /\ DependencesKept' /\ DelaysKept'
      /\ WellFormed(loop') /\ DOMAIN constraints' \subseteq Ops' \X Ops'
      /\ \A e \in DOMAIN constraints' : constraints'[e] \in Int /\ constraints'[e] <= 0
    BY <1>1, <1>3, LaterStep
<1>5. TypeOK'
    BY <1>1, <1>4 DEF TypeOK, Refine, function
<1>6. RestartsCounted'
    <2>1. PICK e \in Conflicts : TRUE  BY <1>1
    <2>2. e \in Exclusive /\ vals[e[1]] = vals[e[2]] /\ e[1] \in Ops /\ e[2] \in Ops
        BY <2>1 DEF Conflicts, Exclusive
    <2>3. vals[e[1]] \in Nat  BY <1>1, <2>2 DEF TypeOK
    <2>4. e \notin Separated
        <3> SUFFICES ASSUME e \in Separated PROVE FALSE  OBVIOUS
        <3>1. e \in DOMAIN constraints /\ constraints[e] <= -1  BY DEF Separated
        <3>2. constraints[e] \in Int  BY <1>2, <3>1 DEF Forward
        <3>3. vals[e[2]] >= vals[e[1]] - constraints[e]  BY <1>1, <3>1 DEF Satisfied
        <3> QED  BY <2>2, <2>3, <3>1, <3>2, <3>3
    <2>5. e \in Separated'
        <3>1. e \in DOMAIN Separation /\ Separation[e] = -1  BY <2>1 DEF Separation
        <3>2. e \in DOMAIN constraints' /\ constraints'[e] <= -1  BY <1>3, <3>1
        <3> QED  BY <1>1, <2>2, <3>2, SameLoop DEF Separated
    <2> DEFINE S == Separated
               T == Separated'
    <2>6. S \subseteq T /\ IsFiniteSet(T) /\ Cardinality(S) \in Nat /\ Cardinality(T) \in Nat
        BY <1>1, <1>2, <1>3, TighterKeeps
    <2>7. restarts <= Cardinality(S) /\ restarts \in Nat  BY DEF RestartsCounted, TypeOK
    <2>8. Cardinality(S) < Cardinality(T)
        <3>0. e \in T /\ e \notin S  BY <2>4, <2>5
        <3> HIDE DEF S, T
        <3>1. S \subseteq T \ {e}  BY <2>6, <3>0
        <3>2. IsFiniteSet(T \ {e}) /\ Cardinality(T \ {e}) = Cardinality(T) - 1
            BY <2>6, <3>0, FS_RemoveElement
        <3>3. Cardinality(S) <= Cardinality(T \ {e})  BY <3>1, <3>2, FS_Subset
        <3> QED  BY <2>6, <3>2, <3>3
    <2>9. restarts' <= Cardinality(T)
        <3> HIDE DEF S, T
        <3> QED  BY <1>1, <2>6, <2>7, <2>8
    <2> QED  BY <2>9 DEF RestartsCounted
<1> QED  BY <1>1, <1>4, <1>5, <1>6 DEF NeverFails, WindowsBelow, SettledUpTo, Satisfied

\* The last relative step is a number of steps.
LEMMA LastRelativeStepNat ==
    ASSUME WellFormed(loop), vals \in [Ops -> Nat]
    PROVE  LastRelativeStep \in Nat \ {0}
<1> DEFINE f == [i \in Ops |-> vals[i] + loop.op[i].cycles]
           S == {f[i] : i \in DOMAIN f}
<1>1. \A i \in Ops : f[i] \in Nat \ {0}  BY OpTyped
<1>2. IsFiniteSet(Ops) /\ Ops # {} /\ DOMAIN f = Ops  BY OpsFinite
<1>3. S = {vals[i] + loop.op[i].cycles : i \in Ops}  OBVIOUS
<1>4. S \in SUBSET Int /\ S # {} /\ \A y \in S : y \in Nat \ {0}  BY <1>1, <1>2
<1> HIDE DEF f
<1>5. IsFiniteSet(S)  BY <1>2, ImageFinite
<1> HIDE DEF S
<1>6. Max(S) \in S  BY <1>4, <1>5, Greatest
<1> QED  BY <1>3, <1>4, <1>6 DEF LastRelativeStep

\* Accepting the steps of the loop preserves it.
LEMMA AcceptStep == Inductive /\ Accept => Inductive'
<1> SUFFICES ASSUME Inductive, Accept PROVE Inductive'  OBVIOUS
<1> USE DEF Inductive
<1>1. loop' = loop /\ constraints' = constraints /\ restarts' = restarts /\ vals' = vals
      /\ phase = "refine" /\ phase' = "accepted"
    BY DEF Accept, solver
<1>2. Forward(constraints') /\ Tighter /\ Ops' = Ops  BY <1>1, QuietStep
<1>3. /\ ForwardOnly' /\ DependencesKept' /\ DelaysKept' /\ RestartsCounted'
      /\ WellFormed(loop') /\ DOMAIN constraints' \subseteq Ops' \X Ops'
      /\ \A e \in DOMAIN constraints' : constraints'[e] \in Int /\ constraints'[e] <= 0
    BY <1>1, <1>2, LaterStep
<1>4. WellFormed(loop) /\ loop.n \in Nat /\ vals \in [Ops -> Nat]  BY <1>1, ConstraintsForward, OpsFinite DEF TypeOK
<1>5. LastRelativeStep \in Nat \ {0}  BY <1>4, LastRelativeStepNat
<1>6. last_step' \in Nat
    <2> DEFINE a == last_step
               b == initial_ctrl_step + LastRelativeStep - 1
               S == {a, b}
    <2>1. a \in Nat /\ b \in Nat  BY <1>5 DEF TypeOK
    <2>2. last_step' = Max(S)  BY DEF Accept
    <2> HIDE DEF a, b
    <2>3. IsFiniteSet({a}) /\ IsFiniteSet({b})  BY FS_Singleton
    <2>4. S = {a} \cup {b}  OBVIOUS
    <2>5. IsFiniteSet(S)  BY <2>3, <2>4, FS_Union
    <2>6. S \in SUBSET Int /\ S # {} /\ \A y \in S : y \in Nat  BY <2>1
    <2> HIDE DEF S
    <2>7. Max(S) \in S  BY <2>5, <2>6, Greatest
    <2> QED  BY <2>2, <2>6, <2>7
<1>7. initial_ctrl_step' \in Nat /\ scheduled' \in Nat  BY <1>4, <1>5 DEF Accept, TypeOK
<1>8. TypeOK'
    BY <1>1, <1>2, <1>3, <1>4, <1>6, <1>7 DEF TypeOK, Accept, solver
<1>9. Satisfied'  BY <1>1 DEF Satisfied
<1> QED  BY <1>1, <1>3, <1>8, <1>9 DEF NeverFails, WindowsBelow, SettledUpTo

\* Going on with the next loop preserves it.
LEMMA NextLoopStep == Inductive /\ NextLoop => Inductive'
<1> SUFFICES ASSUME Inductive, NextLoop PROVE Inductive'  OBVIOUS
<1>1. PICK n \in Sizes : loop' \in Loops(n)  BY DEF NextLoop
<1>2. WellFormed(loop')  BY <1>1, SchedulingAssumption
<1>3. DOMAIN constraints' = {}  BY DEF NextLoop
<1>4. loop'.n \in Nat \ {0}  BY <1>2 DEF WellFormed
<1>5. 0 \in 0 .. loop'.n /\ 1 \in 1 .. loop'.n + 1  BY <1>4
<1>6. TypeOK'
    BY <1>2, <1>3, <1>4, <1>5 DEF NextLoop, function, TypeOK, Inductive
<1>7. Separated' = {}  BY <1>3 DEF Separated
<1>8. RestartsCounted'  BY <1>7, FS_EmptySet DEF NextLoop, RestartsCounted
<1> QED
    BY <1>3, <1>6, <1>8 DEF NextLoop, Inductive, ForwardOnly, NeverFails, WindowsBelow, SettledUpTo, Satisfied,
        DependencesKept, DelaysKept

\* The end of the function preserves it.
LEMMA SetCstepsStep == Inductive /\ SetCsteps => Inductive'
<1> SUFFICES ASSUME Inductive, SetCsteps PROVE Inductive'  OBVIOUS
<1> USE DEF Inductive
<1>1. loop' = loop /\ constraints' = constraints /\ restarts' = restarts /\ vals' = vals
      /\ phase = "accepted" /\ phase' = "done"
    BY DEF SetCsteps, solver
<1>2. Forward(constraints') /\ Tighter /\ Ops' = Ops  BY <1>1, QuietStep
<1>3. /\ ForwardOnly' /\ DependencesKept' /\ DelaysKept' /\ RestartsCounted'
      /\ WellFormed(loop') /\ DOMAIN constraints' \subseteq Ops' \X Ops'
      /\ \A e \in DOMAIN constraints' : constraints'[e] \in Int /\ constraints'[e] <= 0
    BY <1>1, <1>2, LaterStep
<1>4. TypeOK'
    BY <1>1, <1>2, <1>3 DEF TypeOK, SetCsteps, solver
<1>5. Satisfied'  BY <1>1 DEF Satisfied
<1> QED  BY <1>1, <1>3, <1>4, <1>5 DEF NeverFails, WindowsBelow, SettledUpTo

\* A step that changes nothing preserves it.
LEMMA StutterStep == Inductive /\ UNCHANGED vars => Inductive'
<1> SUFFICES ASSUME Inductive, UNCHANGED vars PROVE Inductive'  OBVIOUS
<1>1. loop' = loop /\ constraints' = constraints /\ phase' = phase /\ next' = next /\ sequences' = sequences
      /\ restarts' = restarts /\ label' = label /\ round' = round /\ vals' = vals
    BY DEF vars
<1>2. Ops' = Ops /\ Blocks' = Blocks /\ Exclusive' = Exclusive  BY <1>1, SameLoop
<1>3. TypeOK' /\ ForwardOnly' /\ NeverFails' /\ WindowsBelow' /\ Satisfied'
    BY <1>1, <1>2 DEF vars, Inductive, TypeOK, ForwardOnly, NeverFails, WindowsBelow, Satisfied
<1>4. SettledUpTo'  BY <1>1, <1>2, RelaxedSame DEF Inductive, SettledUpTo
<1>5. RestartsCounted'
    <2>1. Separated' = Separated  BY <1>1, <1>2 DEF Separated
    <2> QED  BY <1>1, <2>1 DEF Inductive, RestartsCounted
<1>6. DependencesKept'
    <2> SUFFICES ASSUME phase' # "dependences", NEW e \in DOMAIN loop'.deps, (Constrained(e))'
                 PROVE  (Kept(e, DependenceWeight(e)))'
        BY DEF DependencesKept
    <2>1. Constrained(e) /\ (DependenceWeight(e))' = DependenceWeight(e)  BY <1>1, SameLoop
    <2> QED  BY <1>1, <2>1 DEF Inductive, DependencesKept, Kept
<1>7. DelaysKept'
    <2>1. phase' = "dependences" => next' = 1  BY <1>1 DEF Inductive, DelaysKept
    <2>2. ASSUME phase' # "dependences", NEW i \in Ops', phase' = "timing" => i < next', NEW j \in (Timed(i))'
          PROVE  (Kept(<<i, j>>, -StepsFor(LocalDelay(i, j))))'
        <3>1. j \in Timed(i) /\ (LocalDelay(i, j))' = LocalDelay(i, j)  BY <1>1, SameLoop
        <3>2. (StepsFor(LocalDelay(i, j)))' = StepsFor(LocalDelay(i, j))  BY <3>1 DEF StepsFor
        <3>3. Kept(<<i, j>>, -StepsFor(LocalDelay(i, j)))  BY <1>1, <1>2, <2>2, <3>1 DEF Inductive, DelaysKept
        <3> QED  BY <1>1, <3>2, <3>3 DEF Kept
    <2> QED  BY <2>1, <2>2 DEF DelaysKept
<1> QED  BY <1>3, <1>4, <1>5, <1>6, <1>7 DEF Inductive

\* The invariant holds in every reachable state.
LEMMA InductiveHolds == Spec => []Inductive
<1>1. Inductive /\ [Next]_vars => Inductive'
    BY AddDependencesStep, AddTimingStep, AllTimedStep, PlaceStep, AllPlacedStep, SolveSDCStep, RelaxStep,
       SolvedStep, RefineStep, AcceptStep, NextLoopStep, SetCstepsStep, StutterStep DEF Next
<1> QED  BY <1>1, InitInductive, PTL DEF Spec

------------------------------------------------------------------------------
(* Chains *)

\* Arrival satisfies the equation it is defined by.
LEMMA ArrivalEquation ==
    ASSUME WellFormed(loop), vals \in [Ops -> Nat]
    PROVE  /\ \A j \in Ops : Arrival[j] \in Int
           /\ \A j \in Ops : \/ Arrival[j] = vals[j] * Clock
                             \/ \E h \in ChainedTo(j) : Arrival[j] = Arrival[h] + EdgeDelay(h)
           /\ \A j \in Ops : ChainedTo(j) \subseteq Ops /\ \A h \in ChainedTo(j) : h < j
<1> DEFINE Chain(g, j) == {vals[j] * Clock} \cup {g[h] + EdgeDelay(h) : h \in ChainedTo(j)}
           Value(g, j) == Max(Chain(g, j))
<1>1. loop.n \in Nat /\ Ops = 1 .. loop.n  BY OpsFinite
<1>2. \A j \in Ops : ChainedTo(j) \in SUBSET Ops /\ IsFiniteSet(ChainedTo(j)) /\ \A h \in ChainedTo(j) : h \in 1 .. j - 1
    <2> TAKE j \in Ops
    <2>1. ChainedTo(j) \in SUBSET (1 .. j - 1)  BY DEF ChainedTo
    <2>2. ChainedTo(j) \in SUBSET Ops  BY <1>1, <2>1
    <2> QED  BY <2>1, <2>2, OpsFinite
<1>3. ASSUME NEW g, NEW j \in Ops, \A h \in ChainedTo(j) : g[h] \in Int
      PROVE  Value(g, j) \in Int /\ Value(g, j) \in Chain(g, j)
    <2> DEFINE f == [h \in ChainedTo(j) |-> g[h] + EdgeDelay(h)]
               a == vals[j] * Clock
    <2>1. f \in [ChainedTo(j) -> Int]
        <3>1. \A h \in ChainedTo(j) : EdgeDelay(h) \in Nat  BY <1>2, OpTyped
        <3> QED  BY <1>3, <3>1
    <2>2. a \in Int  BY SchedulingAssumption
    <2>3. IsFiniteSet(ChainedTo(j))  BY <1>2
    <2>4. Chain(g, j) = {a} \cup {f[h] : h \in ChainedTo(j)}  OBVIOUS
    <2> HIDE DEF f, a
    <2>5. LET T == {a} \cup {f[h] : h \in ChainedTo(j)} IN Max(T) \in T /\ Max(T) \in Int
        BY <2>1, <2>2, <2>3, GreatestValue
    <2> HIDE DEF Chain
    <2> QED  BY <2>4, <2>5
<1>4. \E f \in [Ops -> Int] : \A j \in Ops : f[j] = Value(f, j)
    <2> DEFINE F == [j \in 1 .. loop.n |-> [g \in [1 .. loop.n -> Int] |-> Value(g, j)]]
    <2>1. ASSUME NEW j \in 1 .. loop.n, NEW g \in [1 .. loop.n -> Int] PROVE Value(g, j) \in Int
        <3>1. \A h \in ChainedTo(j) : g[h] \in Int  BY <1>1, <1>2
        <3> HIDE DEF Value
        <3> QED  BY <1>1, <1>3, <3>1
    <2>2. ASSUME NEW j \in 1 .. loop.n, NEW g \in [1 .. loop.n -> Int], NEW h \in [1 .. loop.n -> Int],
                 \A k \in 1 .. j - 1 : g[k] = h[k]
          PROVE  Value(g, j) = Value(h, j)
        <3>1. \A k \in ChainedTo(j) : g[k] = h[k]  BY <1>1, <1>2, <2>2
        <3>2. Chain(g, j) = Chain(h, j)  BY <3>1
        <3> HIDE DEF Chain
        <3> QED  BY <3>2
    <2> HIDE DEF Value
    <2>3. F \in [1 .. loop.n -> [[1 .. loop.n -> Int] -> Int]]  BY <2>1
    <2>4. \A j \in 1 .. loop.n : \A g, h \in [1 .. loop.n -> Int] :
              (\A k \in 1 .. j - 1 : g[k] = h[k]) => F[j][g] = F[j][h]
        BY <2>2
    <2>5. Int # {}  OBVIOUS
    <2>6. Recursive(loop.n, Int, F)  BY <2>3, <2>4 DEF Recursive
    <2>7. PICK f : Solves(f, loop.n, Int, F)
        <3> HIDE DEF F
        <3> QED  BY <1>1, <2>5, <2>6, Recursion
    <2>8. f \in [Ops -> Int]  BY <1>1, <2>7 DEF Solves
    <2>9. \A j \in Ops : f[j] = Value(f, j)  BY <1>1, <2>7, <2>8 DEF Solves
    <2> QED  BY <2>8, <2>9
<1>5. Arrival = [j \in Ops |-> Value(Arrival, j)]
    <2>1. PICK f \in [Ops -> Int] : \A j \in Ops : f[j] = Value(f, j)  BY <1>4
    <2> DEFINE P(g) == g = [j \in Ops |-> Value(g, j)]
    <2>2. P(f)  BY <2>1
    <2>3. Arrival = CHOOSE g : P(g)  BY DEF Arrival
    <2>4. P(CHOOSE g : P(g))
        <3> HIDE DEF P
        <3> QED  BY <2>2
    <2> QED  BY <2>3, <2>4
<1>6. \A j \in Ops : Arrival[j] = Value(Arrival, j)
    <2> HIDE DEF Value
    <2> QED  BY <1>5
<1>7. \A j \in Ops : Arrival[j] \in Int
    <2> DEFINE Bad == {j \in Ops : Arrival[j] \notin Int}
    <2>0. \A j : j \in Bad <=> j \in Ops /\ Arrival[j] \notin Int  OBVIOUS
    <2> HIDE DEF Bad, Value
    <2> SUFFICES ASSUME Bad # {} PROVE FALSE  BY <2>0
    <2>1. Bad \in SUBSET Nat  BY <1>1, <2>0
    <2>2. PICK j \in Bad : \A k \in Bad : j <= k  BY <2>1, Least
    <2>3. j \in Ops /\ Arrival[j] \notin Int  BY <2>0
    <2>4. \A h \in ChainedTo(j) : Arrival[h] \in Int
        <3> TAKE h \in ChainedTo(j)
        <3>1. h \in Ops /\ h \in 1 .. j - 1  BY <1>2, <2>3
        <3>2. ~(j <= h)  BY <1>1, <2>3, <3>1
        <3> QED  BY <2>0, <2>2, <3>1, <3>2
    <2> QED  BY <1>3, <1>6, <2>3, <2>4
<1>8. ASSUME NEW j \in Ops
      PROVE  Arrival[j] = vals[j] * Clock \/ \E h \in ChainedTo(j) : Arrival[j] = Arrival[h] + EdgeDelay(h)
    <2>1. \A h \in ChainedTo(j) : Arrival[h] \in Int  BY <1>2, <1>7
    <2>2. Arrival[j] \in Chain(Arrival, j)
        <3> HIDE DEF Value, Chain
        <3> QED  BY <1>3, <1>6, <2>1
    <2> QED  BY <2>2
<1>9. ASSUME NEW j \in Ops PROVE ChainedTo(j) \subseteq Ops /\ \A h \in ChainedTo(j) : h < j
    BY <1>1, <1>2
<1> QED  BY <1>7, <1>8, <1>9

\* A value arrives no later than at the end of the longest chain from some operation that
\* starts with its step, and that step is not after the one of the operation reached.
LEMMA ArrivalFromChain ==
    ASSUME Inductive, Accepted
    PROVE  \A j \in Ops : \E h \in Ops :
              /\ h <= j /\ vals[h] <= vals[j]
              /\ Delays(h)[j] >= 0
              /\ Arrival[j] <= vals[h] * Clock + Delays(h)[j]
<1>1. WellFormed(loop) /\ Forward(constraints)  BY ConstraintsForward DEF Inductive
<1>2. phase \in {"refine", "accepted", "done"}  BY DEF Accepted
<1>3. vals \in [Ops -> Nat]  BY <1>2 DEF Inductive, TypeOK
<1>4. Ops \subseteq Nat /\ Clock \in Nat  BY <1>1, OpsFinite, SchedulingAssumption
<1> DEFINE From(h, j) == /\ h <= j /\ vals[h] <= vals[j]
                         /\ Delays(h)[j] >= 0
                         /\ Arrival[j] <= vals[h] * Clock + Delays(h)[j]
           Bad == {j \in Ops : ~(\E h \in Ops : From(h, j))}
<1>5. \A j : j \in Bad <=> j \in Ops /\ ~(\E h \in Ops : From(h, j))  OBVIOUS
<1> HIDE DEF Bad
<1> SUFFICES ASSUME Bad # {} PROVE FALSE  BY <1>5
<1>6. Bad \in SUBSET Nat  BY <1>4, <1>5
<1>7. PICK j \in Bad : \A k \in Bad : j <= k  BY <1>6, Least
<1>8. j \in Ops /\ ~(\E h \in Ops : From(h, j))  BY <1>5
<1>9. vals[j] \in Nat /\ Arrival[j] \in Int /\ j \in Nat  BY <1>1, <1>3, <1>4, <1>8, ArrivalEquation
<1>10. CASE Arrival[j] = vals[j] * Clock
    <2>1. Delays(j)[j] = 0  BY <1>1, <1>8, DelaysEquation
    <2>2. vals[j] * Clock \in Int  BY <1>4, <1>9
    <2>3. From(j, j)  BY <1>9, <1>10, <2>1, <2>2
    <2> QED  BY <1>8, <2>3
<1>11. CASE \E k \in ChainedTo(j) : Arrival[j] = Arrival[k] + EdgeDelay(k)
    <2>1. PICK k \in ChainedTo(j) : Arrival[j] = Arrival[k] + EdgeDelay(k)  BY <1>11
    <2>2. k \in Ops /\ k < j  BY <1>1, <1>3, <1>8, ArrivalEquation
    <2>3. k \notin Bad
        <3>1. k \in Nat  BY <1>4, <2>2
        <3> QED  BY <1>7, <1>9, <2>2, <3>1
    <2>4. PICK h \in Ops : From(h, k)  BY <1>5, <2>2, <2>3
    <2>5. EdgeDelay(k) \in Nat /\ Arrival[k] \in Int /\ vals[k] \in Nat /\ vals[h] \in Nat /\ h \in Nat /\ k \in Nat
        BY <1>1, <1>3, <1>4, <2>2, OpTyped, ArrivalEquation
    <2>6. Delays(h)[k] \in Int /\ Delays(h)[j] \in Int  BY <1>1, <1>8, <2>2, DelaysEquation
    <2>7. h < j  BY <1>9, <2>2, <2>4, <2>5
    <2>8. Prolonged(Delays(h)[k], k) <= Delays(h)[j]
        <3>1. j \in Ops \ {h}  BY <1>8, <1>9, <2>5, <2>7
        <3> QED  BY <1>1, <3>1, DelaysEquation
    <2>9. Delays(h)[k] + EdgeDelay(k) <= Delays(h)[j]
        BY <2>4, <2>6, <2>8 DEF Prolonged
    <2>10. vals[k] <= vals[j]
        <3>1. <<k, j>> \in DOMAIN loop.deps /\ loop.deps[<<k, j>>] = "data" /\ CanBeChained(k, j)  BY DEF ChainedTo
        <3>2. Constrained(<<k, j>>) /\ DependenceWeight(<<k, j>>) = 0  BY <3>1 DEF Constrained, DependenceWeight
        <3>3. Kept(<<k, j>>, 0)  BY <1>2, <3>1, <3>2 DEF Inductive, DependencesKept
        <3>4. <<k, j>> \in DOMAIN constraints /\ constraints[<<k, j>>] <= 0  BY <3>3 DEF Kept
        <3>5. constraints[<<k, j>>] \in Int  BY <1>1, <3>4 DEF Forward
        <3>6. vals[j] >= vals[k] - constraints[<<k, j>>]  BY <1>2, <3>4 DEF Inductive, Satisfied
        <3> QED  BY <1>9, <2>5, <3>4, <3>5, <3>6
    <2> DEFINE start == vals[h] * Clock
    <2>11. start \in Int  BY <1>4, <2>5
    <2>12. Arrival[k] <= start + Delays(h)[k]  BY <2>4
    <2> HIDE DEF start
    <2>13. Arrival[j] <= start + Delays(h)[j]  BY <1>9, <2>1, <2>5, <2>6, <2>9, <2>11, <2>12
    <2>14. Delays(h)[j] >= 0  BY <2>4, <2>5, <2>6, <2>9
    <2>15. vals[h] <= vals[j]  BY <1>9, <2>4, <2>5, <2>10
    <2>16. From(h, j)  BY <1>9, <2>5, <2>7, <2>13, <2>14, <2>15 DEF start
    <2> QED  BY <1>8, <2>16
<1> QED  BY <1>1, <1>3, <1>8, <1>10, <1>11, ArrivalEquation

\* In an accepted schedule every chain ends before the clock edge.
LEMMA ChainsMeetClock == Inductive => ChainsFit
<1> SUFFICES ASSUME Inductive, Accepted, NEW j \in Ops
             PROVE  Arrival[j] + loop.op[j].time + Setup <= Deadline(j)
    BY DEF ChainsFit
<1>1. WellFormed(loop) /\ Forward(constraints)  BY ConstraintsForward DEF Inductive
<1>2. phase \in {"refine", "accepted", "done"}  BY DEF Accepted
<1>3. vals \in [Ops -> Nat]  BY <1>2 DEF Inductive, TypeOK
<1>4. Clock \in Nat \ {0} /\ Setup \in Nat  BY SchedulingAssumption
<1>5. PICK h \in Ops : /\ h <= j /\ vals[h] <= vals[j]
                       /\ Delays(h)[j] >= 0
                       /\ Arrival[j] <= vals[h] * Clock + Delays(h)[j]
    BY ArrivalFromChain
<1> DEFINE v == vals[j]
           w == vals[h]
           d == Delays(h)[j]
           t == loop.op[j].time
           a == Arrival[j]
           c == IF loop.op[j].ii > 0 THEN 1 ELSE loop.op[j].cycles
<1>6. v \in Nat /\ w \in Nat /\ d \in Int /\ t \in Nat /\ a \in Int /\ c \in Nat \ {0} /\ w <= v /\ d >= 0
      /\ a <= w * Clock + d
    BY <1>1, <1>3, <1>5, DelaysEquation, OpTyped, ArrivalEquation
<1>7. Deadline(j) = (v + c) * Clock  BY DEF Deadline
<1>8. CASE d > 0
    <2>1. h # j
        <3>1. Delays(j)[j] = 0  BY <1>1, DelaysEquation
        <3> QED  BY <1>8, <3>1
    <2>2. j \in Timed(h)
        <3>1. h \in Nat /\ j \in Nat  BY <1>1, OpsFinite
        <3> QED  BY <1>5, <1>8, <2>1, <3>1 DEF Timed
    <2> DEFINE l == LocalDelay(h, j)
               s == StepsFor(l)
    <2>3. l \in Int /\ l > 0 /\ s \in Nat  BY <1>1, <2>2, LocalDelayPositive
    <2>4. l = d + t + Setup  BY DEF LocalDelay
    <2>5. (s + 1) * Clock >= l
        <3> HIDE DEF l
        <3> QED  BY <2>3, StepsNat
    <2>6. Kept(<<h, j>>, -s)  BY <1>2, <2>2 DEF Inductive, DelaysKept
    <2>7. <<h, j>> \in DOMAIN constraints /\ constraints[<<h, j>>] <= -s  BY <2>6 DEF Kept
    <2>8. constraints[<<h, j>>] \in Int  BY <1>1, <2>7 DEF Forward
    <2>9. v >= w - constraints[<<h, j>>]  BY <1>2, <2>7 DEF Inductive, Satisfied
    <2> HIDE DEF v, w, d, t, a, c, l, s
    <2>10. v >= w + s  BY <1>6, <2>3, <2>7, <2>8, <2>9
    <2>11. v + c >= w + (s + 1)  BY <1>6, <2>3, <2>10
    <2>12. (v + c) * Clock >= (w + (s + 1)) * Clock  BY <1>4, <1>6, <2>3, <2>11
    <2>13. (w + (s + 1)) * Clock = w * Clock + (s + 1) * Clock  BY <1>4, <1>6, <2>3
    <2>14. w * Clock \in Int /\ (s + 1) * Clock \in Int /\ (v + c) * Clock \in Int  BY <1>4, <1>6, <2>3
    <2> DEFINE W == w * Clock
               S == (s + 1) * Clock
               V == (v + c) * Clock
    <2>15. V >= W + S /\ S >= d + t + Setup /\ a <= W + d /\ W \in Int /\ S \in Int /\ V \in Int
        BY <1>6, <2>4, <2>5, <2>12, <2>13, <2>14
    <2> HIDE DEF W, S, V
    <2>16. a + t + Setup <= V  BY <1>4, <1>6, <2>15
    <2> QED  BY <1>7, <2>16 DEF V, a, t
<1>9. CASE d = 0
    <2>1. t + Setup <= Clock * c  BY <1>1 DEF WellFormed, Ops
    <2> HIDE DEF v, w, d, t, a, c
    <2>2. w * Clock <= v * Clock  BY <1>4, <1>6
    <2>3. (v + c) * Clock = v * Clock + Clock * c  BY <1>4, <1>6
    <2> DEFINE W == w * Clock
               V == v * Clock
               C == Clock * c
    <2>4. W \in Int /\ V \in Int /\ C \in Int  BY <1>4, <1>6
    <2>5. W <= V /\ t + Setup <= C /\ a <= W
        <3>1. a <= W + d  BY <1>6
        <3>2. W + d = W  BY <1>9, <2>4
        <3> QED  BY <2>1, <2>2, <3>1, <3>2
    <2>6. Deadline(j) = V + C  BY <1>7, <2>3
    <2> HIDE DEF W, V, C
    <2>7. a + t + Setup <= V + C  BY <1>4, <1>6, <2>4, <2>5
    <2> QED  BY <2>6, <2>7 DEF a, t
<1> QED  BY <1>6, <1>8, <1>9

------------------------------------------------------------------------------
(* Units: operations that wait for the one L places before them *)

\* Remainders of natural numbers: L further on it is the same, and not before.
LEMMA Remainders ==
    ASSUME NEW L \in Nat \ {0}, NEW a \in Nat, NEW b \in Nat
    PROVE  /\ a % L \in 0 .. L - 1
           /\ (a + L) % L = a % L
           /\ a < b /\ a % L = b % L => a + L <= b
<1> DEFINE q == a \div L
           r == a % L
           p == b \div L
           s == b % L
<1>1. q \in Int /\ r \in 0 .. L - 1 /\ a = L * q + r  OBVIOUS
<1>2. p \in Int /\ s \in 0 .. L - 1 /\ b = L * p + s  OBVIOUS
<1>3. (a + L) % L = r
    <2> DEFINE m == (a + L) \div L
               u == (a + L) % L
    <2>1. m \in Int /\ u \in 0 .. L - 1 /\ a + L = L * m + u  OBVIOUS
    <2> HIDE DEF m, u, q, r, p, s
    <2>2. L * (q + 1) = L * q + L /\ L * q \in Int /\ L * m \in Int /\ q + 1 \in Int  BY <1>1, <2>1
    <2>3. L * m + u = L * (q + 1) + r  BY <1>1, <2>1, <2>2
    <2>4. ~(m < q + 1)
        <3> SUFFICES ASSUME m <= q PROVE FALSE  BY <1>1, <2>1
        <3>1. L * m <= L * q  BY <1>1, <2>1
        <3> QED  BY <1>1, <2>1, <2>2, <2>3, <3>1
    <2>5. ~(m > q + 1)
        <3> SUFFICES ASSUME q + 2 <= m PROVE FALSE  BY <1>1, <2>1
        <3>1. L * (q + 2) <= L * m /\ L * (q + 2) = L * q + L + L  BY <1>1, <2>1
        <3> QED  BY <1>1, <2>1, <2>2, <2>3, <3>1
    <2>6. m = q + 1  BY <1>1, <2>1, <2>4, <2>5
    <2>7. u = r  BY <1>1, <2>1, <2>2, <2>3, <2>6
    <2> QED  BY <2>7 DEF u
<1>4. ASSUME a < b, r = s PROVE a + L <= b
    <2> HIDE DEF q, r, p, s
    <2>1. L * q < L * p /\ L * q \in Int /\ L * p \in Int  BY <1>1, <1>2, <1>4
    <2>2. q < p
        <3> SUFFICES ASSUME p <= q PROVE FALSE  BY <1>1, <1>2
        <3>1. L * p <= L * q  BY <1>1, <1>2
        <3> QED  BY <2>1, <3>1
    <2>3. L * (q + 1) <= L * p  BY <1>1, <1>2, <2>2
    <2>4. L * (q + 1) = L * q + L  BY <1>1
    <2> QED  BY <1>1, <1>2, <1>4, <2>1, <2>3, <2>4
<1> QED  BY <1>1, <1>3, <1>4

Inside(S, i, j) == {k \in S : i < k /\ k < j}
Below(S, j) == {k \in S : k < j}
UnderWay(S, v, d, t) == {j \in S : v[j] <= t /\ t < v[j] + d[j]}

\* The places of the elements of a finite set of numbers in their order.
LEMMA Places ==
    ASSUME NEW n \in Nat, NEW S \in SUBSET (1 .. n)
    PROVE  /\ IsFiniteSet(S)
           /\ \A i : IsFiniteSet(Below(S, i)) /\ Cardinality(Below(S, i)) \in Nat
           /\ \A i, j : IsFiniteSet(Inside(S, i, j)) /\ Cardinality(Inside(S, i, j)) \in Nat
           /\ \A i, j \in S : i < j =>
                 Cardinality(Below(S, j)) = Cardinality(Below(S, i)) + 1 + Cardinality(Inside(S, i, j))
<1>1. IsFiniteSet(S)
    <2>1. IsFiniteSet(1 .. n)  BY FS_Interval
    <2> QED  BY <2>1, FS_Subset
<1>2. \A i : IsFiniteSet(Below(S, i)) /\ Cardinality(Below(S, i)) \in Nat
    <2> TAKE i
    <2>1. Below(S, i) \in SUBSET S  BY DEF Below
    <2>2. IsFiniteSet(Below(S, i))  BY <1>1, <2>1, FS_Subset
    <2> QED  BY <2>2, FS_CardinalityType
<1>3. \A i, j : IsFiniteSet(Inside(S, i, j)) /\ Cardinality(Inside(S, i, j)) \in Nat
    <2> TAKE i, j
    <2>1. Inside(S, i, j) \in SUBSET S  BY DEF Inside
    <2>2. IsFiniteSet(Inside(S, i, j))  BY <1>1, <2>1, FS_Subset
    <2> QED  BY <2>2, FS_CardinalityType
<1>4. ASSUME NEW i \in S, NEW j \in S, i < j
      PROVE  Cardinality(Below(S, j)) = Cardinality(Below(S, i)) + 1 + Cardinality(Inside(S, i, j))
    <2> DEFINE A == Below(S, i)
               B == A \cup {i}
               C == Inside(S, i, j)
    <2>0. S \subseteq Int  OBVIOUS
    <2>a. i \in Int /\ j \in Int /\ \A k \in S : k \in Int  BY <2>0
    <2>1. i \notin A /\ B \cap C = {}
        <3>1. i \notin A  BY <2>a DEF Below
        <3>2. ASSUME NEW k \in C, k \in B PROVE FALSE
            <4>1. k \in S /\ i < k /\ k <= i  BY <2>a, <3>2 DEF Below, Inside
            <4> QED  BY <2>a, <4>1
        <3> QED  BY <3>1, <3>2
    <2>2. Below(S, j) = B \cup C
        <3>1. \A k \in S : k < j <=> k < i \/ k = i \/ (i < k /\ k < j)  BY <1>4, <2>a
        <3> QED  BY <3>1, <1>4 DEF Below, Inside
    <2>3. IsFiniteSet(A) /\ IsFiniteSet(C) /\ Cardinality(A) \in Nat /\ Cardinality(C) \in Nat  BY <1>2, <1>3
    <2> HIDE DEF A, C
    <2>4. IsFiniteSet(B) /\ Cardinality(B) = Cardinality(A) + 1  BY <2>1, <2>3, FS_AddElement
    <2> HIDE DEF B
    <2>5. Cardinality(B \cup C) = Cardinality(B) + Cardinality(C) - Cardinality(B \cap C)
        BY <2>3, <2>4, FS_Union
    <2>6. Cardinality(B \cup C) = Cardinality(B) + Cardinality(C) - 0
        BY <2>1, <2>5, FS_EmptySet
    <2>7. Cardinality(Below(S, j)) = Cardinality(A) + 1 + Cardinality(C)
        BY <2>2, <2>3, <2>4, <2>6
    <2> QED  BY <2>7 DEF A, C
<1> QED  BY <1>1, <1>2, <1>3, <1>4

\* An element with L elements below it has one L places before it.
LEMMA PlaceBefore ==
    ASSUME NEW n \in Nat, NEW S \in SUBSET (1 .. n), NEW L \in Nat \ {0}, NEW j \in S,
           Cardinality(Below(S, j)) >= L
    PROVE  \E i \in S : i < j /\ Cardinality(Inside(S, i, j)) = L - 1
<1>0. S \subseteq Int /\ S \subseteq Nat  OBVIOUS
<1>1. ASSUME NEW k \in S, Cardinality(Below(S, k)) > 0
      PROVE  \E i \in S : i < k /\ Inside(S, i, k) = {}
    <2> DEFINE A == Below(S, k)
    <2>1. IsFiniteSet(A) /\ A \in SUBSET Int  BY <1>0, Places DEF Below
    <2>2. A # {}
        <3>1. Cardinality(A) # 0  BY <1>1, Places
        <3> QED  BY <3>1, FS_EmptySet
    <2> HIDE DEF A
    <2>3. Max(A) \in A /\ \A y \in A : y <= Max(A)  BY <2>1, <2>2, Greatest
    <2>4. Max(A) \in S /\ Max(A) < k  BY <2>3 DEF A, Below
    <2>5. \A y \in S : y < k => y <= Max(A)  BY <2>3 DEF A, Below
    <2>6. Inside(S, Max(A), k) = {}
        <3> SUFFICES ASSUME NEW y \in S, Max(A) < y, y < k PROVE FALSE  BY DEF Inside
        <3>1. y <= Max(A)  BY <2>5
        <3>2. y \in Int /\ Max(A) \in Int  BY <1>0, <2>4
        <3> QED  BY <3>1, <3>2
    <2> QED  BY <2>4, <2>6
<1> DEFINE C == {i \in S : i < j /\ Cardinality(Inside(S, i, j)) <= L - 1}
<1>2. \A i : i \in C <=> i \in S /\ i < j /\ Cardinality(Inside(S, i, j)) <= L - 1  OBVIOUS
<1> HIDE DEF C
<1>3. C # {}
    <2>a. Cardinality(Below(S, j)) \in Nat  BY Places
    <2>1. Cardinality(Below(S, j)) > 0  BY <2>a
    <2>2. PICK i \in S : i < j /\ Inside(S, i, j) = {}  BY <1>1, <2>1
    <2>3. Cardinality(Inside(S, i, j)) = 0  BY <2>2, FS_EmptySet
    <2>4. Cardinality(Inside(S, i, j)) <= L - 1  BY <2>3
    <2> QED  BY <1>2, <2>2, <2>4
<1>4. C \in SUBSET Nat  BY <1>0, <1>2
<1>5. PICK i \in C : \A y \in C : i <= y  BY <1>3, <1>4, Least
<1>6. i \in S /\ i < j /\ Cardinality(Inside(S, i, j)) <= L - 1  BY <1>2, <1>5
<1>7. CASE Cardinality(Inside(S, i, j)) = L - 1  BY <1>6, <1>7
<1>8. CASE Cardinality(Inside(S, i, j)) # L - 1
    <2>1. Cardinality(Below(S, i)) > 0
        <3>1. Cardinality(Below(S, j)) = Cardinality(Below(S, i)) + 1 + Cardinality(Inside(S, i, j))
            BY <1>6, Places
        <3>2. Cardinality(Inside(S, i, j)) \in Nat /\ Cardinality(Below(S, i)) \in Nat  BY Places
        <3> QED  BY <1>6, <1>8, <3>1, <3>2
    <2>2. PICK k \in S : k < i /\ Inside(S, k, i) = {}  BY <1>6, <2>1, <1>1
    <2>3. k < j  BY <1>0, <1>6, <2>2
    <2>4. /\ Cardinality(Below(S, j)) = Cardinality(Below(S, i)) + 1 + Cardinality(Inside(S, i, j))
          /\ Cardinality(Below(S, j)) = Cardinality(Below(S, k)) + 1 + Cardinality(Inside(S, k, j))
          /\ Cardinality(Below(S, i)) = Cardinality(Below(S, k)) + 1 + Cardinality(Inside(S, k, i))
        BY <1>6, <2>2, <2>3, Places
    <2>5. Cardinality(Inside(S, k, i)) = 0  BY <2>2, FS_EmptySet
    <2>6. /\ Cardinality(Below(S, k)) \in Nat /\ Cardinality(Below(S, i)) \in Nat
          /\ Cardinality(Inside(S, k, j)) \in Nat /\ Cardinality(Inside(S, i, j)) \in Nat
        BY Places
    <2>7. Cardinality(Inside(S, k, j)) <= L - 1  BY <1>6, <1>8, <2>4, <2>5, <2>6
    <2>8. i <= k  BY <1>2, <1>5, <2>3, <2>7
    <2> QED  BY <1>0, <1>6, <2>2, <2>8
<1> QED  BY <1>7, <1>8

\* If every element of S starts when the one L places before it is over, then no more than
\* L of them are under way at any time: those with the same place modulo L follow each other.
LEMMA AtMostUnderWay ==
    ASSUME NEW n \in Nat, NEW S \in SUBSET (1 .. n), NEW L \in Nat \ {0},
           NEW v \in [S -> Nat], NEW d \in [S -> Nat], NEW t \in Nat,
           \A i, j \in S : i < j /\ Cardinality(Inside(S, i, j)) = L - 1 => v[j] >= v[i] + d[i]
    PROVE  Cardinality(UnderWay(S, v, d, t)) <= L
<1>0. S \subseteq Int /\ S \subseteq Nat  OBVIOUS
<1> DEFINE r == [j \in S |-> Cardinality(Below(S, j))]
<1>1. \A j \in S : r[j] \in Nat /\ r[j] = Cardinality(Below(S, j))  BY Places
<1> HIDE DEF r
<1>2. \A i, j \in S : i < j => r[i] < r[j]
    <2> TAKE i, j \in S
    <2>1. Cardinality(Inside(S, i, j)) \in Nat  BY Places
    <2>2. i < j => r[j] = r[i] + 1 + Cardinality(Inside(S, i, j))  BY <1>1, Places
    <2> QED  BY <1>1, <2>1, <2>2
<1>3. ASSUME NEW i \in S, NEW j \in S, i < j, r[i] % L = r[j] % L PROVE v[j] >= v[i] + d[i]
    <2> DEFINE Bad == {k \in S : i < k /\ r[i] % L = r[k] % L /\ ~(v[k] >= v[i] + d[i])}
    <2>1. \A k : k \in Bad <=> k \in S /\ i < k /\ r[i] % L = r[k] % L /\ ~(v[k] >= v[i] + d[i])  OBVIOUS
    <2> HIDE DEF Bad
    <2> SUFFICES ASSUME Bad # {} PROVE FALSE  BY <1>3, <2>1
    <2>2. Bad \in SUBSET Nat  BY <1>0, <2>1
    <2>3. PICK k \in Bad : \A y \in Bad : k <= y  BY <2>2, Least
    <2>4. k \in S /\ i < k /\ r[i] % L = r[k] % L /\ ~(v[k] >= v[i] + d[i])  BY <2>1, <2>3
    <2>5. r[i] + L <= r[k]
        <3>1. r[i] < r[k]  BY <1>2, <2>4
        <3> QED  BY <1>1, <2>4, <3>1, Remainders
    <2>6. PICK h \in S : h < k /\ Cardinality(Inside(S, h, k)) = L - 1
        <3>1. Cardinality(Below(S, k)) >= L  BY <1>1, <2>4, <2>5
        <3> QED  BY <2>4, <3>1, PlaceBefore
    <2>7. r[k] = r[h] + L
        <3>0. Cardinality(Below(S, k)) = Cardinality(Below(S, h)) + 1 + Cardinality(Inside(S, h, k))
            BY <2>4, <2>6, Places
        <3>1. r[k] = r[h] + 1 + Cardinality(Inside(S, h, k))  BY <1>1, <2>4, <2>6, <3>0
        <3> QED  BY <1>1, <2>6, <3>1
    <2>8. v[k] >= v[h] + d[h]  BY <2>4, <2>6
    <2>9. v[k] \in Nat /\ v[h] \in Nat /\ d[h] \in Nat /\ v[i] \in Nat /\ d[i] \in Nat  BY <2>4, <2>6
    <2>10. ~(h < i)
        <3>1. h < i => r[h] < r[i]  BY <1>2
        <3>2. r[i] <= r[h]  BY <1>1, <2>4, <2>5, <2>7
        <3> QED  BY <1>1, <3>1, <3>2
    <2>11. CASE h = i  BY <2>4, <2>8, <2>11
    <2>12. CASE i < h
        <3>1. r[h] % L = r[k] % L  BY <1>1, <2>7, Remainders
        <3>2. h \notin Bad  BY <1>0, <2>3, <2>4, <2>6
        <3>3. v[h] >= v[i] + d[i]  BY <2>1, <2>4, <2>12, <3>1, <3>2
        <3> QED  BY <2>4, <2>8, <2>9, <3>3
    <2> QED  BY <1>0, <2>10, <2>11, <2>12
<1> DEFINE H == UnderWay(S, v, d, t)
           f == [j \in H |-> r[j] % L]
<1>4. \A j \in H : j \in S /\ v[j] <= t /\ t < v[j] + d[j] /\ v[j] \in Nat /\ d[j] \in Nat  BY DEF UnderWay
<1>a. H \subseteq S  BY DEF UnderWay
<1> HIDE DEF H
<1>5. f \in [H -> 0 .. L - 1]  BY <1>1, <1>4, Remainders
<1>6. ASSUME NEW i \in H, NEW j \in H, i < j, f[i] = f[j] PROVE FALSE
    <2>1. v[j] >= v[i] + d[i]  BY <1>3, <1>4, <1>6
    <2> QED  BY <1>4, <2>1
<1>7. f \in Injection(H, 0 .. L - 1)
    <2> SUFFICES ASSUME NEW i \in H, NEW j \in H, f[i] = f[j] PROVE i = j
        <3> HIDE DEF f
        <3> QED  BY <1>5 DEF Injection, IsInjective
    <2>1. i \in Int /\ j \in Int  BY <1>0, <1>a
    <2>2. ~(i < j) /\ ~(j < i)
        <3> HIDE DEF f
        <3> QED  BY <1>6
    <2> QED  BY <2>1, <2>2
<1>8. IsFiniteSet(0 .. L - 1) /\ Cardinality(0 .. L - 1) = L
    <2>1. 0 \in Int /\ L - 1 \in Int /\ ~(0 > L - 1) /\ L - 1 - 0 + 1 = L  OBVIOUS
    <2> QED  BY <2>1, FS_Interval
<1>9. Cardinality(H) <= L
    <2> HIDE DEF f
    <2> QED  BY <1>7, <1>8, FS_Injection
<1> QED  BY <1>9 DEF H

------------------------------------------------------------------------------
(* Units: the windows cover the paths *)

\* Paths and the operations on them depend on the loop alone.
LEMMA SamePaths ==
    ASSUME loop' = loop
    PROVE  /\ Paths' = Paths
           /\ \A u : (Limit(u))' = Limit(u)
           /\ \A i : (Occupation(i))' = Occupation(i)
           /\ \A P, u : (OnPath(P, u))' = OnPath(P, u)
           /\ \A P, u, i, j : (Between(P, u, i, j))' = Between(P, u, i, j)
<1>1. Ops' = Ops /\ Blocks' = Blocks  BY SameLoop
<1>2. \A P, u : (OnPath(P, u))' = OnPath(P, u)  BY <1>1 DEF OnPath
<1>3. \A P, u, i, j : (Between(P, u, i, j))' = Between(P, u, i, j)  BY <1>2 DEF Between
<1> QED  BY <1>1, <1>2, <1>3 DEF Paths, Limit, Occupation

\* Blocks are numbered, and operations are in the order of their blocks.
LEMMA BlocksOrdered ==
    ASSUME WellFormed(loop)
    PROVE  /\ Blocks \in SUBSET Nat /\ IsFiniteSet(Blocks)
           /\ \A b \in Blocks : \E i \in Ops : loop.block[i] = b
           /\ \A i \in Ops : loop.block[i] \in Blocks /\ i \in Nat
           /\ \A i, j \in Ops : i <= j => loop.block[i] <= loop.block[j]
           /\ \A i, j \in Ops : loop.block[i] < loop.block[j] => i < j
<1>1. loop.block \in [Ops -> Nat \ {0}] /\ \A i, j \in Ops : i <= j => loop.block[i] <= loop.block[j]
    BY DEF WellFormed, Ops
<1>2. IsFiniteSet(Ops) /\ Ops \subseteq Nat  BY OpsFinite
<1>3. DOMAIN loop.block = Ops /\ Blocks = {loop.block[i] : i \in DOMAIN loop.block}  BY <1>1 DEF Blocks
<1>4. IsFiniteSet(Blocks)  BY <1>2, <1>3, ImageFinite
<1>5. \A i \in Ops : loop.block[i] \in Blocks /\ loop.block[i] \in Nat /\ i \in Nat  BY <1>1, <1>2 DEF Blocks
<1>6. ASSUME NEW i \in Ops, NEW j \in Ops, loop.block[i] < loop.block[j] PROVE i < j
    <2> SUFFICES ASSUME j <= i PROVE FALSE  BY <1>5
    <2>1. loop.block[j] <= loop.block[i]  BY <1>1
    <2> QED  BY <1>5, <1>6, <2>1
<1>7. Blocks \in SUBSET Nat /\ \A b \in Blocks : \E i \in Ops : loop.block[i] = b  BY <1>5 DEF Blocks
<1> QED  BY <1>1, <1>4, <1>5, <1>6, <1>7

\* The part of a path up to one of its blocks is a path, and so is the rest without that block,
\* which has an edge from its last block to it.
LEMMA PathCut ==
    ASSUME WellFormed(loop), NEW P \in Paths, NEW b \in P
    PROVE  /\ {c \in P : c <= b} \in Paths
           /\ {c \in P : c < b} \in Paths
           /\ {c \in P : c < b} # {} =>
                 \E c \in P : /\ c < b /\ <<c, b>> \in loop.edges
                              /\ \A d \in P : d < b => d <= c
<1>1. /\ P \in SUBSET Blocks
      /\ \A x, y \in P : x < y /\ ~(\E d \in P : x < d /\ d < y) => <<x, y>> \in loop.edges
    BY DEF Paths
<1>2. \A x \in P : x \in Nat  BY <1>1, BlocksOrdered
<1>3. {c \in P : c <= b} \in Paths
    <2> DEFINE Q == {c \in P : c <= b}
    <2>1. ASSUME NEW x \in Q, NEW y \in Q, x < y, ~(\E d \in Q : x < d /\ d < y)
          PROVE  <<x, y>> \in loop.edges
        <3>1. ASSUME NEW d \in P, x < d, d < y PROVE FALSE
            <4>1. d \in Nat /\ y \in Nat /\ b \in Nat /\ y <= b  BY <1>2, <2>1
            <4>2. d \in Q  BY <3>1, <4>1
            <4> QED  BY <2>1, <3>1, <4>2
        <3> QED  BY <1>1, <2>1, <3>1
    <2>2. Q \in SUBSET Blocks  BY <1>1
    <2> HIDE DEF Q
    <2>3. Q \in Paths  BY <2>1, <2>2 DEF Paths
    <2> QED  BY <2>3 DEF Q
<1> DEFINE R == {c \in P : c < b}
<1>4. R \in Paths
    <2>1. ASSUME NEW x \in R, NEW y \in R, x < y, ~(\E d \in R : x < d /\ d < y)
          PROVE  <<x, y>> \in loop.edges
        <3>1. ASSUME NEW d \in P, x < d, d < y PROVE FALSE
            <4>1. d \in Nat /\ y \in Nat /\ b \in Nat /\ y < b  BY <1>2, <2>1
            <4>2. d \in R  BY <3>1, <4>1
            <4> QED  BY <2>1, <3>1, <4>2
        <3> QED  BY <1>1, <2>1, <3>1
    <2>2. R \in SUBSET Blocks  BY <1>1
    <2> HIDE DEF R
    <2> QED  BY <2>1, <2>2 DEF Paths
<1>5. ASSUME R # {}
      PROVE  \E c \in P : c < b /\ <<c, b>> \in loop.edges /\ \A d \in P : d < b => d <= c
    <2>1. IsFiniteSet(R)
        <3>1. R \in SUBSET Blocks /\ IsFiniteSet(Blocks)  BY <1>1, BlocksOrdered
        <3> HIDE DEF R
        <3> QED  BY <3>1, FS_Subset
    <2>2. R \in SUBSET Int  BY <1>2
    <2>a. \A d : d \in R <=> d \in P /\ d < b  OBVIOUS
    <2> HIDE DEF R
    <2>3. PICK c \in R : \A d \in R : d <= c  BY <1>5, <2>1, <2>2, Greatest
    <2>4. c \in P /\ c < b /\ c \in Nat /\ b \in Nat  BY <1>2, <2>a
    <2>5. ~(\E d \in P : c < d /\ d < b)
        <3> SUFFICES ASSUME NEW d \in P, c < d, d < b PROVE FALSE  OBVIOUS
        <3>1. d <= c /\ d \in Nat  BY <1>2, <2>3, <2>a
        <3> QED  BY <2>4, <3>1
    <2>6. <<c, b>> \in loop.edges  BY <1>1, <2>4, <2>5
    <2> QED  BY <2>3, <2>4, <2>6, <2>a
<1> QED  BY <1>3, <1>4, <1>5

\* What Place does with the windows that reach the next operation.
LEMMA PlaceWindows ==
    ASSUME Inductive, WindowsCover, Place, NEW u \in Units
    PROVE  /\ Windows(u) \subseteq UNION {sequences[b][u] : b \in Blocks}
           /\ \A w \in Windows(u) : w \in Seq(1 .. next - 1) /\ Len(w) \in 1 .. Limit(u)
           /\ \A b \in Blocks : sequences'[b][u] =
                 IF b = loop.block[next]
                 THEN IF u = loop.op[next].unit THEN Slid(u) ELSE Windows(u)
                 ELSE sequences[b][u]
<1>1. WellFormed(loop) /\ next \in Ops /\ phase = "resources"  BY ConstraintsForward DEF Inductive, Place
<1>2. /\ DOMAIN sequences = Blocks
      /\ \A b \in Blocks : DOMAIN sequences[b] = Units
      /\ \A b \in Blocks : \A w \in sequences[b][u] : w \in Seq(1 .. next - 1)
    BY <1>1 DEF Inductive, WindowsBelow
<1>3. loop.block[next] \in Blocks  BY <1>1, OpTyped
<1>4. Windows(u) \subseteq UNION {sequences[b][u] : b \in Blocks}  BY <1>3 DEF Windows
<1>5. \A b \in Blocks : \A w \in sequences[b][u] : Len(w) \in 1 .. Limit(u)  BY <1>1 DEF WindowsCover
<1>6. ASSUME NEW w \in Windows(u) PROVE w \in Seq(1 .. next - 1) /\ Len(w) \in 1 .. Limit(u)
    <2>1. PICK b \in Blocks : w \in sequences[b][u]  BY <1>4
    <2> QED  BY <1>2, <1>5, <2>1
<1>7. ASSUME NEW b \in Blocks
      PROVE  sequences'[b][u] = IF b = loop.block[next]
                                THEN IF u = loop.op[next].unit THEN Slid(u) ELSE Windows(u)
                                ELSE sequences[b][u]
    <2> DEFINE here == [x \in Units |-> IF x = loop.op[next].unit THEN Slid(x) ELSE Windows(x)]
    <2>1. sequences' = [sequences EXCEPT ![loop.block[next]] = here]  BY DEF Place
    <2>2. here[u] = IF u = loop.op[next].unit THEN Slid(u) ELSE Windows(u)  OBVIOUS
    <2> HIDE DEF here
    <2> QED  BY <1>2, <1>3, <2>1, <2>2
<1> QED  BY <1>4, <1>6, <1>7

\* Sliding a window moves every operation in it one place towards its front.
LEMMA SlideShifts ==
    ASSUME WellFormed(loop), next \in Ops, NEW u \in Units, NEW w \in Seq(1 .. next - 1), Len(w) \in 1 .. Limit(u)
    PROVE  LET s == Slide(w, u) IN
           /\ Len(s) \in 1 .. Limit(u) /\ s[Len(s)] = next
           /\ \A k \in Nat : k < Len(w) /\ k + 1 < Limit(u) => k + 1 < Len(s) /\ s[Len(s) - (k + 1)] = w[Len(w) - k]
<1>1. Limit(u) \in Nat \ {0}  BY DEF WellFormed, Limit
<1> DEFINE R == 1 .. next - 1
           S == 1 .. next
<1>2. next \in Nat \ {0} /\ next \in S /\ R \subseteq S  BY OpsFinite
<1>3. w \in Seq(R) /\ Seq(R) \subseteq Seq(S)
    <2>1. w \in Seq(R) /\ R \subseteq S  BY <1>2
    <2> HIDE DEF R, S
    <2>2. Seq(R) \subseteq Seq(S)  BY <2>1
    <2> QED  BY <2>1, <2>2
<1> HIDE DEF R, S
<1>4. w \in Seq(S)  BY <1>3
<1>5. CASE Len(w) >= Limit(u)
    <2> DEFINE z == Tail(w)
               s == Append(z, next)
    <2>1. Slide(w, u) = s  BY <1>5 DEF Slide
    <2>2. w # << >>  BY <1>1, <1>4, <1>5
    <2>3. z \in Seq(S) /\ Len(z) = Len(w) - 1 /\ \A k \in 1 .. Len(z) : z[k] = w[k + 1]  BY <1>4, <2>2
    <2> HIDE DEF z
    <2>4. Len(s) = Len(z) + 1 /\ s[Len(z) + 1] = next /\ \A k \in 1 .. Len(z) : s[k] = z[k]  BY <1>2, <2>3
    <2> HIDE DEF s
    <2>5. Len(w) \in Nat /\ Len(s) = Len(w)  BY <1>4, <2>3, <2>4
    <2>6. ASSUME NEW k \in Nat, k < Len(w), k + 1 < Limit(u)
          PROVE  k + 1 < Len(s) /\ s[Len(s) - (k + 1)] = w[Len(w) - k]
        <3>1. k + 1 < Len(s)  BY <1>1, <1>5, <2>5, <2>6
        <3>2. Len(s) - (k + 1) \in 1 .. Len(z)  BY <2>3, <2>5, <3>1
        <3>3. s[Len(s) - (k + 1)] = z[Len(s) - (k + 1)]  BY <2>4, <3>2
        <3>4. z[Len(s) - (k + 1)] = w[Len(s) - (k + 1) + 1]  BY <2>3, <3>2
        <3>5. Len(s) - (k + 1) + 1 = Len(w) - k  BY <2>5
        <3> QED  BY <3>1, <3>3, <3>4, <3>5
    <2>7. Len(s) \in 1 .. Limit(u) /\ s[Len(s)] = next  BY <2>3, <2>4, <2>5
    <2> QED  BY <2>1, <2>6, <2>7
<1>6. CASE ~(Len(w) >= Limit(u))
    <2> DEFINE s == Append(w, next)
    <2>1. Slide(w, u) = s  BY <1>6 DEF Slide
    <2>2. Len(s) = Len(w) + 1 /\ s[Len(w) + 1] = next /\ \A k \in 1 .. Len(w) : s[k] = w[k]  BY <1>2, <1>4
    <2> HIDE DEF s
    <2>3. Len(w) \in Nat  BY <1>4
    <2>4. ASSUME NEW k \in Nat, k < Len(w)
          PROVE  k + 1 < Len(s) /\ s[Len(s) - (k + 1)] = w[Len(w) - k]
        <3>1. Len(s) - (k + 1) = Len(w) - k /\ Len(w) - k \in 1 .. Len(w)  BY <2>2, <2>3, <2>4
        <3> QED  BY <2>2, <2>3, <2>4, <3>1
    <2>5. Len(s) \in 1 .. Limit(u) /\ s[Len(s)] = next  BY <1>1, <1>6, <2>2, <2>3
    <2> QED  BY <2>1, <2>4, <2>5
<1> QED  BY <1>5, <1>6

\* How many operations of a path lie between one of them and the next operation, before and
\* after it is placed.
LEMMA BetweenNext ==
    ASSUME WellFormed(loop), next \in Ops, NEW P, NEW u
    PROVE  /\ \A i, j : IsFiniteSet(Between(P, u, i, j)) /\ Cardinality(Between(P, u, i, j)) \in Nat
           /\ next \notin OnPath(P, u) => \A i : Between(P, u, i, next + 1) = Between(P, u, i, next)
           /\ next \in OnPath(P, u) => \A i \in Ops : i < next =>
                 Cardinality(Between(P, u, i, next + 1)) = Cardinality(Between(P, u, i, next)) + 1
           /\ Cardinality(Between(P, u, next, next + 1)) = 0
<1>1. Ops \subseteq Nat /\ \A i \in Ops : i \in Nat  BY OpsFinite
<1>2. OnPath(P, u) \in SUBSET Ops  BY DEF OnPath
<1>3. \A i, j : IsFiniteSet(Between(P, u, i, j)) /\ Cardinality(Between(P, u, i, j)) \in Nat
    <2> TAKE i, j
    <2>1. Between(P, u, i, j) \in SUBSET Ops  BY <1>2 DEF Between
    <2>2. IsFiniteSet(Between(P, u, i, j))  BY <2>1, OpsFinite
    <2> QED  BY <2>2, FS_CardinalityType
<1>4. \A k \in Ops : k < next + 1 <=> k < next \/ k = next  BY <1>1
<1>5. ASSUME next \notin OnPath(P, u), NEW i PROVE Between(P, u, i, next + 1) = Between(P, u, i, next)
    BY <1>2, <1>4, <1>5 DEF Between
<1>6. ASSUME next \in OnPath(P, u), NEW i \in Ops, i < next
      PROVE  Cardinality(Between(P, u, i, next + 1)) = Cardinality(Between(P, u, i, next)) + 1
    <2> DEFINE B == Between(P, u, i, next)
    <2>1. Between(P, u, i, next + 1) = B \cup {next}  BY <1>2, <1>4, <1>6 DEF Between
    <2>2. next \notin B  BY <1>1 DEF Between
    <2>3. IsFiniteSet(B)  BY <1>3
    <2> HIDE DEF B
    <2>4. Cardinality(B \cup {next}) = Cardinality(B) + 1  BY <2>2, <2>3, FS_AddElement
    <2> QED  BY <2>1, <2>4 DEF B
<1>7. Cardinality(Between(P, u, next, next + 1)) = 0
    <2>1. Between(P, u, next, next + 1) = {}
        <3> SUFFICES ASSUME NEW k \in OnPath(P, u), next < k, k < next + 1 PROVE FALSE  BY DEF Between
        <3>1. k \in Nat /\ next \in Nat  BY <1>1, <1>2
        <3> QED  BY <3>1
    <2> QED  BY <2>1, FS_EmptySet
<1> QED  BY <1>3, <1>5, <1>6, <1>7

\* Some window that reaches the next operation covers the path to its block: its own block
\* has it, or the last block of the path before.
LEMMA WindowReaches ==
    ASSUME Inductive, WindowsCover, Place, NEW u \in Units, NEW P \in Paths,
           loop.block[next] \in P, \A c \in P : c <= loop.block[next],
           \E i \in OnPath(P, u) : i < next
    PROVE  \E w \in Windows(u) : Covers(w, P, u)
<1> DEFINE b == loop.block[next]
<1>1. WellFormed(loop) /\ next \in Ops /\ phase = "resources"  BY ConstraintsForward DEF Inductive, Place
<1>2. Ops \subseteq Nat /\ b \in Blocks /\ P \subseteq Blocks /\ Blocks \subseteq Nat
    BY <1>1, OpsFinite, BlocksOrdered DEF Paths
<1>3. CASE \E i \in Ops : i < next /\ loop.block[i] = b
    <2>1. Windows(u) = sequences[b][u]  BY <1>3 DEF Windows
    <2> QED  BY <1>1, <1>3, <2>1 DEF WindowsCover
<1>4. CASE ~(\E i \in Ops : i < next /\ loop.block[i] = b)
    <2> DEFINE Q == {c \in P : c < b}
    <2>1. ASSUME NEW i \in OnPath(P, u), i < next PROVE i \in OnPath(Q, u)
        <3>1. i \in Ops /\ loop.block[i] \in P /\ loop.op[i].unit = u  BY DEF OnPath
        <3>2. loop.block[i] <= b /\ loop.block[i] # b /\ loop.block[i] \in Nat /\ b \in Nat
            BY <1>2, <1>4, <2>1, <3>1
        <3> QED  BY <3>1, <3>2 DEF OnPath
    <2>2. PICK j \in OnPath(P, u) : j < next  OBVIOUS
    <2>3. j \in OnPath(Q, u) /\ Q # {}
        <3>1. j \in OnPath(Q, u)  BY <2>1, <2>2
        <3>2. loop.block[j] \in Q  BY <3>1 DEF OnPath
        <3> QED  BY <3>1, <3>2
    <2>4. PICK c \in P : c < b /\ <<c, b>> \in loop.edges /\ \A d \in P : d < b => d <= c
        BY <1>1, <2>3, PathCut
    <2>5. Q \in Paths /\ c \in Q /\ c \in Blocks /\ \A d \in Q : d <= c  BY <1>1, <1>2, <2>4, PathCut
    <2>6. \E i \in Ops : i < next /\ loop.block[i] = c
        <3>1. PICK i \in Ops : loop.block[i] = c  BY <1>1, <2>5, BlocksOrdered
        <3>2. i < next  BY <1>1, <2>4, <3>1, BlocksOrdered
        <3> QED  BY <3>1, <3>2
    <2>a. \A i : i \in OnPath(Q, u) => i \in OnPath(P, u)  BY DEF OnPath
    <2> HIDE DEF Q
    <2>7. PICK w \in sequences[c][u] : Covers(w, Q, u)
        BY <1>1, <2>2, <2>3, <2>5, <2>6 DEF WindowsCover
    <2>8. w \in Windows(u)  BY <1>4, <2>4, <2>5 DEF Windows
    <2>9. ASSUME NEW i \in OnPath(P, u) PROVE Between(P, u, i, next) = Between(Q, u, i, next)
        BY <2>1, <2>a DEF Between
    <2>10. Covers(w, P, u)
        <3> SUFFICES ASSUME NEW i \in OnPath(P, u), i < next, Cardinality(Between(P, u, i, next)) < Limit(u)
                     PROVE  LET later == Cardinality(Between(P, u, i, next)) IN
                            later < Len(w) /\ w[Len(w) - later] = i
            BY DEF Covers
        <3>1. i \in OnPath(Q, u) /\ Between(P, u, i, next) = Between(Q, u, i, next)  BY <2>1, <2>9
        <3> QED  BY <2>7, <3>1 DEF Covers
    <2> QED  BY <2>8, <2>10
<1> QED  BY <1>3, <1>4

\* After Place, the windows of the block of the placed operation cover the paths to it.
LEMMA PlaceCovers ==
    ASSUME Inductive, WindowsCover, Place, NEW u \in Units, NEW P \in Paths,
           loop.block[next] \in P, \A c \in P : c <= loop.block[next],
           \E i \in OnPath(P, u) : i < next + 1
    PROVE  \E w \in sequences'[loop.block[next]][u] : (Covers(w, P, u))'
<1>1. WellFormed(loop) /\ next \in Ops /\ next \in Nat /\ loop' = loop /\ next' = next + 1
    BY ConstraintsForward, OpsFinite DEF Inductive, Place
<1>2. /\ (OnPath(P, u))' = OnPath(P, u) /\ (Limit(u))' = Limit(u)
      /\ \A i : (Between(P, u, i, next))' = Between(P, u, i, next + 1)
    <2>1. /\ (OnPath(P, u))' = OnPath(P, u) /\ (Limit(u))' = Limit(u)  BY <1>1, SamePaths
    <2> QED  BY <1>1, <2>1 DEF Between
<1>3. OnPath(P, u) \subseteq Ops /\ Ops \subseteq Nat /\ Limit(u) \in Nat \ {0}
    <2>1. loop.number \in [Units -> Nat \ {0}]  BY <1>1 DEF WellFormed
    <2>2. Limit(u) \in Nat \ {0}  BY <2>1 DEF Limit
    <2> QED  BY <1>1, <2>2, OpsFinite DEF OnPath
<1>4. ASSUME NEW w,
             \A i \in OnPath(P, u) : i < next + 1 /\ Cardinality(Between(P, u, i, next + 1)) < Limit(u) =>
                 LET later == Cardinality(Between(P, u, i, next + 1)) IN
                 later < Len(w) /\ w[Len(w) - later] = i
      PROVE  (Covers(w, P, u))'
    <2> SUFFICES ASSUME NEW i \in (OnPath(P, u))', i < next', Cardinality((Between(P, u, i, next))') < (Limit(u))'
                 PROVE  LET later == Cardinality((Between(P, u, i, next))') IN
                        later < Len(w) /\ w[Len(w) - later] = i
        BY DEF Covers
    <2>1. i \in OnPath(P, u) /\ i < next + 1 /\ (Between(P, u, i, next))' = Between(P, u, i, next + 1)
          /\ Cardinality(Between(P, u, i, next + 1)) < Limit(u)
        BY <1>1, <1>2
    <2> QED  BY <1>4, <2>1
<1>5. sequences'[loop.block[next]][u] = IF u = loop.op[next].unit THEN Slid(u) ELSE Windows(u)
    <2>1. loop.block[next] \in Blocks  BY <1>1, OpTyped
    <2> QED  BY <2>1, PlaceWindows
<1>6. CASE u # loop.op[next].unit
    <2>1. next \notin OnPath(P, u)  BY <1>6 DEF OnPath
    <2>2. \A i \in OnPath(P, u) : i < next + 1 => i < next
        <3> TAKE i \in OnPath(P, u)
        <3>1. i \in Nat /\ i # next  BY <1>3, <2>1
        <3> QED  BY <1>1, <3>1
    <2>3. PICK w \in Windows(u) : Covers(w, P, u)  BY <2>2, WindowReaches
    <2>4. \A i : Between(P, u, i, next + 1) = Between(P, u, i, next)  BY <1>1, <2>1, BetweenNext
    <2>5. (Covers(w, P, u))'
        <3>1. ASSUME NEW i \in OnPath(P, u), i < next + 1, Cardinality(Between(P, u, i, next + 1)) < Limit(u)
              PROVE  LET later == Cardinality(Between(P, u, i, next + 1)) IN
                     later < Len(w) /\ w[Len(w) - later] = i
            <4>1. i < next /\ Between(P, u, i, next + 1) = Between(P, u, i, next)  BY <2>2, <2>4, <3>1
            <4> QED  BY <2>3, <3>1, <4>1 DEF Covers
        <3> QED  BY <1>4, <3>1
    <2> QED  BY <1>5, <1>6, <2>3, <2>5
<1>7. CASE u = loop.op[next].unit
    <2>1. next \in OnPath(P, u)  BY <1>1, <1>7 DEF OnPath
    <2>2. \A i \in OnPath(P, u) : i < next + 1 => i < next \/ i = next
        <3> TAKE i \in OnPath(P, u)
        <3>1. i \in Nat  BY <1>3
        <3> QED  BY <1>1, <3>1
    <2>3. Cardinality(Between(P, u, next, next + 1)) = 0  BY <1>1, BetweenNext
    <2>4. CASE \E i \in OnPath(P, u) : i < next
        <3>1. PICK w \in Windows(u) : Covers(w, P, u)  BY <2>4, WindowReaches
        <3>s. PICK s : s = Slide(w, u)  OBVIOUS
        <3>2. w \in Seq(1 .. next - 1) /\ Len(w) \in 1 .. Limit(u)  BY <3>1, PlaceWindows
        <3>3. /\ Len(s) \in 1 .. Limit(u) /\ s[Len(s)] = next
              /\ \A k \in Nat : k < Len(w) /\ k + 1 < Limit(u) =>
                    k + 1 < Len(s) /\ s[Len(s) - (k + 1)] = w[Len(w) - k]
            BY <1>1, <3>2, <3>s, SlideShifts
        <3>4. s \in Slid(u)  BY <3>1, <3>s DEF Slid
        <3>5. ASSUME NEW i \in OnPath(P, u), i < next + 1, Cardinality(Between(P, u, i, next + 1)) < Limit(u)
              PROVE  LET later == Cardinality(Between(P, u, i, next + 1)) IN
                     later < Len(s) /\ s[Len(s) - later] = i
            <4>1. CASE i = next
                <5>1. 0 < Len(s) /\ Len(s) - 0 = Len(s)  BY <1>3, <3>3
                <5> QED  BY <2>3, <3>3, <4>1, <5>1
            <4>2. CASE i < next
                <5> DEFINE k == Cardinality(Between(P, u, i, next))
                <5>1. k \in Nat /\ Cardinality(Between(P, u, i, next + 1)) = k + 1
                    BY <1>1, <1>3, <2>1, <4>2, BetweenNext
                <5>a. k < Limit(u)  BY <1>3, <3>5, <5>1
                <5>2. k < Len(w) /\ w[Len(w) - k] = i  BY <3>1, <4>2, <5>a DEF Covers
                <5> HIDE DEF k
                <5>3. k + 1 < Len(s) /\ s[Len(s) - (k + 1)] = i  BY <3>3, <3>5, <5>1, <5>2
                <5> QED  BY <5>1, <5>3
            <4> QED  BY <2>2, <3>5, <4>1, <4>2
        <3>6. (Covers(s, P, u))'  BY <1>4, <3>5
        <3> QED  BY <1>5, <1>7, <3>4, <3>6
    <2>5. CASE ~(\E i \in OnPath(P, u) : i < next)
        <3>1. PICK s \in Slid(u) : Len(s) \in Nat \ {0} /\ s[Len(s)] = next
            <4>1. CASE Windows(u) = {}
                <5>1. <<next>> \in Slid(u) /\ Len(<<next>>) = 1 /\ <<next>>[1] = next  BY <4>1 DEF Slid
                <5> DEFINE s == <<next>>
                <5>2. s \in Slid(u) /\ Len(s) \in Nat \ {0} /\ s[Len(s)] = next  BY <5>1
                <5> HIDE DEF s
                <5> QED  BY <5>2
            <4>2. CASE Windows(u) # {}
                <5>1. PICK w \in Windows(u) : TRUE  BY <4>2
                <5>2. w \in Seq(1 .. next - 1) /\ Len(w) \in 1 .. Limit(u)  BY <5>1, PlaceWindows
                <5> DEFINE s == Slide(w, u)
                <5>3. Len(s) \in 1 .. Limit(u) /\ s[Len(s)] = next  BY <1>1, <5>2, SlideShifts
                <5>4. s \in Slid(u)  BY <4>2 DEF Slid
                <5> HIDE DEF s
                <5>5. Len(s) \in Nat \ {0}  BY <1>3, <5>3
                <5> QED  BY <5>3, <5>4, <5>5
            <4> QED  BY <4>1, <4>2
        <3>2. ASSUME NEW i \in OnPath(P, u), i < next + 1, Cardinality(Between(P, u, i, next + 1)) < Limit(u)
              PROVE  LET later == Cardinality(Between(P, u, i, next + 1)) IN
                     later < Len(s) /\ s[Len(s) - later] = i
            <4>1. i = next  BY <2>2, <2>5, <3>2
            <4>2. 0 < Len(s) /\ Len(s) - 0 = Len(s)  BY <3>1
            <4> QED  BY <2>3, <3>1, <4>1, <4>2
        <3>3. (Covers(s, P, u))'  BY <1>4, <3>2
        <3> QED  BY <1>5, <1>7, <3>1, <3>3
    <2> QED  BY <2>4, <2>5
<1> QED  BY <1>6, <1>7

\* Place keeps the windows in order: those of the block of the placed operation by the lemma
\* above, the others because no path that ends elsewhere goes through that operation.
LEMMA PlaceKeepsWindows ==
    ASSUME Inductive, WindowsCover, Place
    PROVE  WindowsCover'
<1>1. WellFormed(loop) /\ next \in Ops /\ next \in Nat /\ loop' = loop /\ next' = next + 1 /\ phase = "resources"
    BY ConstraintsForward, OpsFinite DEF Inductive, Place
<1>2. Ops' = Ops /\ Blocks' = Blocks /\ Paths' = Paths /\ Ops \subseteq Nat  BY <1>1, SameLoop, SamePaths, OpsFinite
<1>3. ASSUME NEW b \in Blocks, NEW u \in Units, NEW w \in sequences'[b][u] PROVE Len(w) \in 1 .. Limit(u)
    <2>0. Limit(u) \in Nat \ {0}  BY <1>1 DEF WellFormed, Limit
    <2>1. ASSUME NEW x \in Windows(u) PROVE Len(x) \in 1 .. Limit(u) /\ Len(Slide(x, u)) \in 1 .. Limit(u)
        <3>1. x \in Seq(1 .. next - 1) /\ Len(x) \in 1 .. Limit(u)  BY PlaceWindows
        <3> QED  BY <1>1, <3>1, SlideShifts
    <2>2. \A x \in Slid(u) : Len(x) \in 1 .. Limit(u)
        <3>1. Len(<<next>>) \in 1 .. Limit(u)  BY <2>0
        <3> QED  BY <2>1, <3>1 DEF Slid
    <2>3. w \in Slid(u) \/ w \in Windows(u) \/ w \in sequences[b][u]
        <3>1. sequences'[b][u] = IF b = loop.block[next]
                                 THEN IF u = loop.op[next].unit THEN Slid(u) ELSE Windows(u)
                                 ELSE sequences[b][u]
            BY PlaceWindows
        <3> QED  BY <1>3, <3>1
    <2> QED  BY <1>1, <2>1, <2>2, <2>3 DEF WindowsCover
<1>4. ASSUME NEW P \in Paths, NEW u \in Units, NEW b \in P, \A c \in P : c <= b,
             NEW j \in Ops, j < next + 1, loop.block[j] = b,
             \E i \in OnPath(P, u) : i < next + 1
      PROVE  \E w \in sequences'[b][u] : (Covers(w, P, u))'
    <2>1. CASE b = loop.block[next]  BY <1>4, <2>1, PlaceCovers
    <2>2. CASE b # loop.block[next]
        <3>1. P \subseteq Blocks /\ Blocks \subseteq Nat /\ loop.block[next] \in Nat
            BY <1>1, BlocksOrdered DEF Paths
        <3>2. j < next
            <4>1. j # next /\ j \in Nat  BY <1>2, <1>4, <2>2
            <4> QED  BY <1>1, <1>4, <4>1
        <3>3. b < loop.block[next]
            <4>1. loop.block[j] <= loop.block[next]  BY <1>1, <1>2, <1>4, <3>2, BlocksOrdered
            <4> QED  BY <1>4, <2>2, <3>1, <4>1
        <3>4. next \notin OnPath(P, u)
            <4> SUFFICES ASSUME loop.block[next] \in P PROVE FALSE  BY DEF OnPath
            <4>1. loop.block[next] <= b  BY <1>4
            <4> QED  BY <3>1, <3>3, <4>1
        <3>5. \A i \in OnPath(P, u) : i < next + 1 => i < next
            <4> TAKE i \in OnPath(P, u)
            <4>1. i \in Nat /\ i # next  BY <1>2, <3>4 DEF OnPath
            <4> QED  BY <1>1, <4>1
        <3>6. PICK w \in sequences[b][u] : Covers(w, P, u)  BY <1>1, <1>4, <3>2, <3>5 DEF WindowsCover
        <3>7. sequences'[b][u] = sequences[b][u]  BY <2>2, <3>1, PlaceWindows
        <3>8. (OnPath(P, u))' = OnPath(P, u) /\ (Limit(u))' = Limit(u)  BY <1>1, SamePaths
        <3>9. \A i : (Between(P, u, i, next))' = Between(P, u, i, next)
            <4>1. \A i : Between(P, u, i, next + 1) = Between(P, u, i, next)  BY <1>1, <3>4, BetweenNext
            <4> QED  BY <1>1, <3>8, <4>1 DEF Between
        <3>10. (Covers(w, P, u))'
            <4> SUFFICES ASSUME NEW i \in (OnPath(P, u))', i < next',
                                Cardinality((Between(P, u, i, next))') < (Limit(u))'
                         PROVE  LET later == Cardinality((Between(P, u, i, next))') IN
                                later < Len(w) /\ w[Len(w) - later] = i
                BY DEF Covers
            <4>1. i \in OnPath(P, u) /\ i < next /\ (Between(P, u, i, next))' = Between(P, u, i, next)
                  /\ Cardinality(Between(P, u, i, next)) < Limit(u)
                BY <1>1, <3>5, <3>8, <3>9
            <4> QED  BY <3>6, <4>1 DEF Covers
        <3> QED  BY <3>6, <3>7, <3>10
    <2> QED  BY <2>1, <2>2
<1>5. ASSUME NEW P \in Paths', NEW u \in Units, NEW b \in P, \A c \in P : c <= b,
             \E i \in Ops' : i < next' /\ loop'.block[i] = b, \E i \in (OnPath(P, u))' : i < next'
      PROVE  \E w \in sequences'[b][u] : (Covers(w, P, u))'
    <2>1. P \in Paths /\ (OnPath(P, u))' = OnPath(P, u)  BY <1>1, <1>2, SamePaths
    <2>2. PICK j \in Ops : j < next + 1 /\ loop.block[j] = b  BY <1>1, <1>2, <1>5
    <2>3. \E i \in OnPath(P, u) : i < next + 1  BY <1>1, <1>5, <2>1
    <2> QED  BY <1>4, <1>5, <2>1, <2>2, <2>3
<1>6. \A u : (Limit(u))' = Limit(u)  BY <1>1, SamePaths
<1> QED  BY <1>2, <1>3, <1>5, <1>6 DEF WindowsCover

\* What is kept of the units stays kept when constraints are tightened.
LEMMA TighterKeepsUnits ==
    ASSUME WellFormed(loop), Forward(constraints), loop' = loop, Forward(constraints'), Tighter,
           NEW i \in Ops, NEW j \in Ops, Kept(<<i, j>>, -Occupation(i))
    PROVE  (Kept(<<i, j>>, -Occupation(i)))'
<1>1. Occupation(i) \in Nat /\ (Occupation(i))' = Occupation(i)  BY OpTyped, SamePaths
<1>2. <<i, j>> \in DOMAIN constraints /\ constraints[<<i, j>>] <= -Occupation(i)  BY DEF Kept
<1>3. <<i, j>> \in DOMAIN constraints' /\ constraints'[<<i, j>>] <= constraints[<<i, j>>]  BY <1>2 DEF Tighter
<1>4. constraints[<<i, j>>] \in Int /\ constraints'[<<i, j>>] \in Int  BY <1>2, <1>3 DEF Forward
<1>5. constraints'[<<i, j>>] <= -Occupation(i)  BY <1>1, <1>2, <1>3, <1>4
<1> QED  BY <1>1, <1>3, <1>5 DEF Kept

\* Place adds the constraint from the operation as many places before the next one as there
\* are units: it is at the front of the window that covers the path.
LEMMA PlaceKeepsUnits ==
    ASSUME Inductive, WindowsCover, UnitsKept, Place
    PROVE  UnitsKept'
<1>1. /\ WellFormed(loop) /\ Forward(constraints) /\ next \in Ops /\ next \in Nat
      /\ loop' = loop /\ next' = next + 1 /\ phase = "resources" /\ phase' = "resources"
    BY ConstraintsForward, OpsFinite DEF Inductive, Place
<1>2. Ops' = Ops /\ Blocks' = Blocks /\ Paths' = Paths /\ Ops \subseteq Nat  BY <1>1, SameLoop, SamePaths, OpsFinite
<1>3. ASSUME NEW u \in Units, u = loop.op[next].unit
      PROVE  /\ Forward(ResourceWeights(u))
             /\ constraints' = Tightened(constraints, ResourceWeights(u))
    <2>1. \A w \in Windows(u) : w \in Seq(1 .. next - 1)  BY PlaceWindows
    <2>2. Forward(ResourceWeights(u))  BY <1>1, <2>1, ResourcesForward
    <2>3. u # NoUnit  BY SchedulingAssumption
    <2> QED  BY <1>3, <2>2, <2>3 DEF Place
<1>4. Forward(constraints') /\ Tighter
    <2>1. CASE loop.op[next].unit = NoUnit
        <3>1. constraints' = constraints  BY <2>1 DEF Place
        <3> QED  BY <1>1, <3>1, QuietStep
    <2>2. CASE loop.op[next].unit # NoUnit
        <3>1. PICK u \in Units : u = loop.op[next].unit  BY <1>1, <2>2, OpTyped
        <3> QED  BY <1>1, <1>3, <3>1, TightenedForward DEF Tighter
    <2> QED  BY <2>1, <2>2
<1>5. ASSUME NEW P \in Paths, NEW u \in Units, NEW i \in OnPath(P, u), NEW j \in OnPath(P, u),
             i < j, j < next + 1, Cardinality(Between(P, u, i, j)) = Limit(u) - 1
      PROVE  (Kept(<<i, j>>, -Occupation(i)))'
    <2>1. i \in Ops /\ j \in Ops /\ i \in Nat /\ j \in Nat  BY <1>2 DEF OnPath
    <2>2. CASE j < next
        <3>1. Kept(<<i, j>>, -Occupation(i))  BY <1>1, <1>5, <2>2 DEF UnitsKept
        <3> QED  BY <1>1, <1>4, <2>1, <3>1, TighterKeepsUnits
    <2>3. CASE j = next
        <3> DEFINE b == loop.block[next]
                   Q == {c \in P : c <= b}
        <3>1. b \in P /\ u = loop.op[next].unit /\ i < next /\ loop.block[i] \in P  BY <1>5, <2>3 DEF OnPath
        <3>2. Q \in Paths  BY <1>1, <3>1, PathCut
        <3>3. b \in Nat  BY <1>1, BlocksOrdered
        <3>4. b \in Q /\ \A c \in Q : c <= b  BY <3>1, <3>3
        <3>5. ASSUME NEW k \in Ops, k < next PROVE k \in OnPath(P, u) <=> k \in OnPath(Q, u)
            <4>1. loop.block[k] <= b  BY <1>1, <1>2, <3>5, BlocksOrdered
            <4> QED  BY <4>1 DEF OnPath
        <3>6. i \in OnPath(Q, u)  BY <2>1, <3>1, <3>5
        <3>7. Between(Q, u, i, next) = Between(P, u, i, next)
            <4>1. OnPath(P, u) \subseteq Ops /\ OnPath(Q, u) \subseteq Ops  BY DEF OnPath
            <4> HIDE DEF Q
            <4> QED  BY <3>5, <4>1 DEF Between
        <3> HIDE DEF Q
        <3>8. PICK w \in Windows(u) : Covers(w, Q, u)  BY <3>1, <3>2, <3>4, <3>6, WindowReaches
        <3>9. w \in Seq(1 .. next - 1) /\ Len(w) \in 1 .. Limit(u) /\ Limit(u) \in Nat \ {0}
            BY <1>1, PlaceWindows DEF WellFormed, Limit
        <3>10. Limit(u) - 1 < Len(w) /\ w[Len(w) - (Limit(u) - 1)] = i
            <4>1. Cardinality(Between(Q, u, i, next)) = Limit(u) - 1  BY <1>5, <2>3, <3>7
            <4>2. Limit(u) - 1 < Limit(u)  BY <3>9
            <4> QED  BY <3>1, <3>6, <3>8, <4>1, <4>2 DEF Covers
        <3>11. Len(w) = Limit(u) /\ Len(w) - (Limit(u) - 1) = 1  BY <3>9, <3>10
        <3>12. w \in Full(u)  BY <3>9, <3>11 DEF Full
        <3>13. Head(w) = i  BY <3>9, <3>10, <3>11
        <3> DEFINE e == <<i, next>>
        <3>14. e \in DOMAIN ResourceWeights(u) /\ ResourceWeights(u)[e] = -Occupation(i)
            BY <3>12, <3>13 DEF ResourceWeights
        <3>15. e \in DOMAIN constraints' /\ constraints'[e] <= -Occupation(i)
            <4>1. /\ e \in DOMAIN Tightened(constraints, ResourceWeights(u))
                  /\ Tightened(constraints, ResourceWeights(u))[e] <= ResourceWeights(u)[e]
                <5> HIDE DEF e
                <5> QED  BY <1>1, <1>3, <3>1, <3>14, TightenedForward
            <4> QED  BY <1>3, <3>1, <3>14, <4>1
        <3>16. (Occupation(i))' = Occupation(i)  BY <1>1, SamePaths
        <3> QED  BY <2>3, <3>15, <3>16 DEF Kept
    <2> QED  BY <1>1, <1>5, <2>1, <2>2, <2>3
<1>6. ASSUME NEW P \in Paths', NEW u \in Units, NEW i \in (OnPath(P, u))', NEW j \in (OnPath(P, u))',
             i < j, j < next', Cardinality((Between(P, u, i, j))') = (Limit(u))' - 1
      PROVE  (Kept(<<i, j>>, -Occupation(i)))'
    <2>1. /\ P \in Paths /\ (OnPath(P, u))' = OnPath(P, u) /\ (Limit(u))' = Limit(u)
          /\ (Between(P, u, i, j))' = Between(P, u, i, j)
        BY <1>1, <1>2, SamePaths
    <2> QED  BY <1>1, <1>5, <1>6, <2>1
<1> QED  BY <1>1, <1>6 DEF UnitsKept

\* A later step that only tightens constraints keeps what the units need.
LEMMA LaterKeepsUnits ==
    ASSUME Inductive, UnitsKept, loop' = loop, Forward(constraints'), Tighter,
           phase \notin {"dependences", "timing"}, phase = "resources" => next \notin Ops,
           phase' \notin {"dependences", "timing", "resources"}
    PROVE  UnitsKept' /\ WindowsCover'
<1>1. WellFormed(loop) /\ Forward(constraints) /\ loop.n \in Nat /\ Ops = 1 .. loop.n
    BY ConstraintsForward, OpsFinite DEF Inductive
<1>2. ASSUME NEW P \in Paths', NEW u \in Units, NEW i \in (OnPath(P, u))', NEW j \in (OnPath(P, u))',
             i < j, Cardinality((Between(P, u, i, j))') = (Limit(u))' - 1
      PROVE  (Kept(<<i, j>>, -Occupation(i)))'
    <2>1. /\ P \in Paths /\ (OnPath(P, u))' = OnPath(P, u) /\ (Limit(u))' = Limit(u)
          /\ (Between(P, u, i, j))' = Between(P, u, i, j)
        BY SamePaths
    <2>2. i \in OnPath(P, u) /\ j \in OnPath(P, u) /\ i \in Ops /\ j \in Ops  BY <2>1 DEF OnPath
    <2>3. phase = "resources" => j < next
        <3>1. next \in 1 .. loop.n + 1  BY DEF Inductive, TypeOK
        <3> QED  BY <1>1, <2>2, <3>1
    <2>4. Kept(<<i, j>>, -Occupation(i))  BY <1>2, <2>1, <2>2, <2>3 DEF UnitsKept
    <2> QED  BY <1>1, <2>2, <2>4, TighterKeepsUnits
<1> QED  BY <1>2 DEF UnitsKept, WindowsCover

\* Every step keeps the windows and what the units need.
LEMMA UnitsStep == Inductive /\ WindowsCover /\ UnitsKept /\ [Next]_vars => WindowsCover' /\ UnitsKept'
<1> SUFFICES ASSUME Inductive, WindowsCover, UnitsKept, [Next]_vars PROVE WindowsCover' /\ UnitsKept'  OBVIOUS
<1>1. CASE AddDependences \/ AddTiming \/ NextLoop
    BY <1>1 DEF AddDependences, AddTiming, NextLoop, WindowsCover, UnitsKept
<1>2. CASE AllTimed
    <2>1. /\ loop' = loop /\ next' = 1 /\ phase' = "resources"
          /\ sequences' = [b \in Blocks |-> [u \in Units |-> {}]]
        BY <1>2 DEF AllTimed
    <2>2. Ops' = Ops /\ Blocks' = Blocks /\ Ops \subseteq Nat /\ WellFormed(loop)
        BY <2>1, SameLoop, ConstraintsForward, OpsFinite DEF Inductive
    <2>3. \A i \in Ops : ~(i < 1)  BY <2>2, OpsFinite
    <2>4. \A P, u : (OnPath(P, u))' \subseteq Ops  BY <2>2 DEF OnPath
    <2>5. \A b \in Blocks, u \in Units : sequences'[b][u] = {}  BY <2>1
    <2> QED  BY <2>1, <2>2, <2>3, <2>4, <2>5 DEF WindowsCover, UnitsKept
<1>3. CASE Place  BY <1>3, PlaceKeepsWindows, PlaceKeepsUnits
<1>4. CASE AllPlaced \/ SolveSDC \/ Relax \/ Solved \/ Accept \/ SetCsteps
    <2>1. /\ loop' = loop /\ constraints' = constraints
          /\ phase \notin {"dependences", "timing"} /\ (phase = "resources" => next \notin Ops)
          /\ phase' \notin {"dependences", "timing", "resources"}
        BY <1>4 DEF AllPlaced, SolveSDC, Relax, Solved, Accept, SetCsteps
    <2>2. Forward(constraints') /\ Tighter  BY <2>1, QuietStep
    <2> QED  BY <2>1, <2>2, LaterKeepsUnits
<1>5. CASE Refine
    <2>1. /\ loop' = loop /\ constraints' = Tightened(constraints, Separation)
          /\ phase = "refine" /\ phase' = "solve"
        BY <1>5 DEF Refine
    <2>2. Forward(constraints)  BY ConstraintsForward DEF Inductive
    <2>3. Forward(constraints') /\ Tighter  BY <2>1, <2>2, SeparationForward, TightenedForward DEF Tighter
    <2> QED  BY <2>1, <2>3, LaterKeepsUnits
<1>6. CASE UNCHANGED vars
    <2>1. /\ loop' = loop /\ constraints' = constraints /\ phase' = phase /\ next' = next /\ sequences' = sequences
        BY <1>6 DEF vars
    <2>2. Ops' = Ops /\ Blocks' = Blocks /\ Paths' = Paths  BY <2>1, SameLoop, SamePaths
    <2>3. /\ \A u : (Limit(u))' = Limit(u)
          /\ \A i : (Occupation(i))' = Occupation(i)
          /\ \A P, u : (OnPath(P, u))' = OnPath(P, u)
          /\ \A P, u, i, j : (Between(P, u, i, j))' = Between(P, u, i, j)
        BY <2>1, SamePaths
    <2>4. \A P, u, i : (Between(P, u, i, next))' = Between(P, u, i, next)  BY <2>1, <2>3 DEF Between
    <2>5. \A w, P, u : (Covers(w, P, u))' = Covers(w, P, u)  BY <2>1, <2>3, <2>4 DEF Covers
    <2>6. WindowsCover'  BY <2>1, <2>2, <2>3, <2>5 DEF WindowsCover
    <2>7. \A e, i : (Kept(e, -Occupation(i)))' = Kept(e, -Occupation(i))  BY <2>1, <2>3 DEF Kept
    <2>8. UnitsKept'  BY <2>1, <2>2, <2>3, <2>7 DEF UnitsKept
    <2> QED  BY <2>6, <2>8
<1> QED  BY <1>1, <1>2, <1>3, <1>4, <1>5, <1>6 DEF Next

\* The steps of the solver give no unit more operations than it has instances.
LEMMA UnitsSuffice == Inductive /\ UnitsKept => EnoughUnits
<1> SUFFICES ASSUME Inductive, UnitsKept, Accepted, NEW P \in Paths, NEW u \in Units, NEW i \in Ops
             PROVE  Cardinality({j \in Ops : loop.block[j] \in P /\ loop.op[j].unit = u /\ Holds(j, vals[i])})
                        <= loop.number[u]
    BY DEF EnoughUnits
<1>1. WellFormed(loop) /\ Forward(constraints)  BY ConstraintsForward DEF Inductive
<1>2. phase \in {"refine", "accepted", "done"}  BY DEF Accepted
<1>3. vals \in [Ops -> Nat] /\ loop.n \in Nat /\ Ops = 1 .. loop.n  BY <1>1, <1>2, OpsFinite DEF Inductive, TypeOK
<1> DEFINE S == OnPath(P, u)
           L == Limit(u)
           t == vals[i]
           v == [j \in S |-> vals[j]]
           d == [j \in S |-> Occupation(j)]
<1>4. L \in Nat \ {0} /\ L = loop.number[u] /\ t \in Nat  BY <1>1, <1>3 DEF WellFormed, Limit
<1>5. S \in SUBSET (1 .. loop.n) /\ S \subseteq Ops  BY <1>3 DEF OnPath
<1>6. v \in [S -> Nat] /\ d \in [S -> Nat]  BY <1>1, <1>3, <1>5, OpTyped
<1>7. ASSUME NEW h \in S, NEW j \in S, h < j, Cardinality(Inside(S, h, j)) = L - 1
      PROVE  v[j] >= v[h] + d[h]
    <2>1. Between(P, u, h, j) = Inside(S, h, j)  BY DEF Between, Inside
    <2>2. Kept(<<h, j>>, -Occupation(h))  BY <1>2, <1>7, <2>1 DEF UnitsKept
    <2>3. <<h, j>> \in DOMAIN constraints /\ constraints[<<h, j>>] <= -Occupation(h)  BY <2>2 DEF Kept
    <2>4. vals[j] >= vals[h] - constraints[<<h, j>>]  BY <1>2, <2>3 DEF Inductive, Satisfied
    <2>5. constraints[<<h, j>>] \in Int /\ vals[j] \in Nat /\ vals[h] \in Nat /\ Occupation(h) \in Nat
        BY <1>1, <1>3, <1>5, <2>3, OpTyped DEF Forward
    <2>6. vals[j] >= vals[h] + Occupation(h)  BY <2>3, <2>4, <2>5
    <2> QED  BY <2>6
<1>8. {j \in Ops : loop.block[j] \in P /\ loop.op[j].unit = u /\ Holds(j, vals[i])}
        = UnderWay(S, v, d, t)
    BY DEF Holds, OnPath, UnderWay
<1> HIDE DEF S, L, t, v, d
<1>9. Cardinality(UnderWay(S, v, d, t)) <= L
    <2>1. PICK n : n = loop.n  OBVIOUS
    <2>2. n \in Nat /\ S \in SUBSET (1 .. n) /\ L \in Nat \ {0} /\ t \in Nat  BY <1>3, <1>4, <1>5, <2>1
    <2>3. v \in [S -> Nat] /\ d \in [S -> Nat]  BY <1>6
    <2>4. \A h, j \in S : h < j /\ Cardinality(Inside(S, h, j)) = L - 1 => v[j] >= v[h] + d[h]  BY <1>7
    <2> QED  BY <2>2, <2>3, <2>4, AtMostUnderWay
<1> QED  BY <1>4, <1>8, <1>9


------------------------------------------------------------------------------
(* The code motion: dominators, barriers, and how far an operation climbs *)

\* The blocks are numbered, and an immediate dominator has a lower number.
LEMMA BlocksBelow ==
    ASSUME WellFormed(loop)
    PROVE  /\ \E N \in Nat : Blocks \subseteq 1 .. N
           /\ Blocks \subseteq Nat \ {0}
           /\ \A i \in Ops : loop.block[i] \in Blocks
           /\ \A b \in Blocks : loop.dominator[b] # 0 => loop.dominator[b] \in Blocks /\ loop.dominator[b] < b
<1>1. loop.n \in Nat \ {0} /\ Ops = 1 .. loop.n  BY OpsFinite
<1>2. \A i \in Ops : loop.block[i] \in Nat \ {0}  BY DEF WellFormed, Ops
<1>3. \A i \in Ops : loop.block[i] <= loop.block[loop.n]  BY <1>1 DEF WellFormed, Ops
<1>4. \A b \in Blocks : b \in 1 .. loop.block[loop.n]  BY <1>1, <1>2, <1>3 DEF Blocks
<1>5. loop.block[loop.n] \in Nat  BY <1>1, <1>2
<1>6. \A b \in Blocks : loop.dominator[b] \in {0} \cup Blocks /\ loop.dominator[b] < b
    BY DEF WellFormed, Blocks, Ops
<1> QED  BY <1>2, <1>4, <1>5, <1>6 DEF Blocks

\* f has its own value at the blocks of Last, which the roots are among, and elsewhere what
\* Lift makes of the value at the dominator.
TreeRule(V, Last, Own, Lift) ==
    /\ V # {} /\ Own \in [Blocks -> V] /\ Lift \in [Blocks -> [V -> V]]
    /\ \A b \in Blocks : loop.dominator[b] = 0 => b \in Last
TreeSolves(f, V, Last, Own, Lift) ==
    /\ f \in [Blocks -> V]
    /\ \A b \in Blocks : f[b] = IF b \in Last THEN Own[b] ELSE Lift[b][f[loop.dominator[b]]]

\* A function on the blocks can be defined by recursion along the dominator tree.
LEMMA TreeRecursion ==
    ASSUME WellFormed(loop), NEW V, NEW Last, NEW Own, NEW Lift, TreeRule(V, Last, Own, Lift)
    PROVE  \E f : TreeSolves(f, V, Last, Own, Lift)
<1>0. /\ V # {} /\ Own \in [Blocks -> V] /\ Lift \in [Blocks -> [V -> V]]
      /\ \A b \in Blocks : loop.dominator[b] = 0 => b \in Last
    BY DEF TreeRule
<1>1. PICK N \in Nat : Blocks \subseteq 1 .. N  BY BlocksBelow
<1>2. PICK v \in V : TRUE  BY <1>0
<1>3. \A b \in Blocks : b \notin Last =>
          loop.dominator[b] \in Blocks /\ loop.dominator[b] \in 1 .. N /\ loop.dominator[b] \in 1 .. b - 1
    <2> SUFFICES ASSUME NEW b \in Blocks, b \notin Last
                 PROVE  loop.dominator[b] \in Blocks /\ loop.dominator[b] \in 1 .. N /\ loop.dominator[b] \in 1 .. b - 1
        OBVIOUS
    <2>1. loop.dominator[b] \in Blocks /\ loop.dominator[b] < b  BY <1>0, BlocksBelow
    <2>2. loop.dominator[b] \in 1 .. N /\ b \in 1 .. N  BY <1>1, <2>1
    <2> QED  BY <2>1, <2>2
<1> DEFINE Value(g, b) == IF b \notin Blocks THEN v
                          ELSE IF b \in Last THEN Own[b] ELSE Lift[b][g[loop.dominator[b]]]
           F == [b \in 1 .. N |-> [g \in [1 .. N -> V] |-> Value(g, b)]]
<1>4. ASSUME NEW b \in 1 .. N, NEW g \in [1 .. N -> V] PROVE Value(g, b) \in V
    BY <1>0, <1>2, <1>3
<1>5. ASSUME NEW b \in 1 .. N, NEW g \in [1 .. N -> V], NEW h \in [1 .. N -> V],
             \A k \in 1 .. b - 1 : g[k] = h[k]
      PROVE  Value(g, b) = Value(h, b)
    BY <1>3, <1>5
<1>6. \E f : Solves(f, N, V, F)
    <2> HIDE DEF Value
    <2>1. F \in [1 .. N -> [[1 .. N -> V] -> V]]  BY <1>4
    <2>2. \A b \in 1 .. N : \A g, h \in [1 .. N -> V] :
              (\A k \in 1 .. b - 1 : g[k] = h[k]) => F[b][g] = F[b][h]
        BY <1>5
    <2>3. Recursive(N, V, F)  BY <2>1, <2>2 DEF Recursive
    <2> HIDE DEF F
    <2> QED  BY <1>0, <2>3, Recursion
<1>7. PICK f : Solves(f, N, V, F)  BY <1>6
<1>8. f \in [1 .. N -> V] /\ \A b \in 1 .. N : f[b] = Value(f, b)
    <2> HIDE DEF Value
    <2> QED  BY <1>7 DEF Solves
<1> DEFINE r == [b \in Blocks |-> f[b]]
<1>9. r \in [Blocks -> V]  BY <1>1, <1>8
<1>10. ASSUME NEW b \in Blocks PROVE r[b] = IF b \in Last THEN Own[b] ELSE Lift[b][r[loop.dominator[b]]]
    <2>1. r[b] = f[b] /\ b \in 1 .. N  BY <1>1
    <2>2. f[b] = IF b \in Last THEN Own[b] ELSE Lift[b][f[loop.dominator[b]]]  BY <1>8, <2>1
    <2>3. b \notin Last => r[loop.dominator[b]] = f[loop.dominator[b]]  BY <1>3
    <2> QED  BY <2>1, <2>2, <2>3
<1> HIDE DEF r
<1>11. TreeSolves(r, V, Last, Own, Lift)  BY <1>9, <1>10 DEF TreeSolves
<1> QED  BY <1>11

\* Dominators satisfies the equation it is defined by.
LEMMA DominatorsEquation ==
    ASSUME WellFormed(loop)
    PROVE  \A b \in Blocks :
              Dominators[b] = {b} \cup (IF loop.dominator[b] = 0 THEN {} ELSE Dominators[loop.dominator[b]])
<1> DEFINE Value(g, b) == {b} \cup (IF loop.dominator[b] = 0 THEN {} ELSE g[loop.dominator[b]])
           V == SUBSET Blocks
           Last == {b \in Blocks : loop.dominator[b] = 0}
           Own == [b \in Blocks |-> {b}]
           Lift == [b \in Blocks |-> [S \in V |-> {b} \cup S]]
<1>1. PICK f : TreeSolves(f, V, Last, Own, Lift)
    <2>1. V # {} /\ Own \in [Blocks -> V] /\ Lift \in [Blocks -> [V -> V]]  OBVIOUS
    <2>2. \A b \in Blocks : loop.dominator[b] = 0 => b \in Last  OBVIOUS
    <2> HIDE DEF V, Last, Own, Lift
    <2>3. TreeRule(V, Last, Own, Lift)  BY <2>1, <2>2 DEF TreeRule
    <2> QED  BY <2>3, TreeRecursion
<1>a. f \in [Blocks -> V] /\ \A b \in Blocks : f[b] = IF b \in Last THEN Own[b] ELSE Lift[b][f[loop.dominator[b]]]
    <2> HIDE DEF V, Last, Own, Lift
    <2> QED  BY <1>1 DEF TreeSolves
<1>2. \A b \in Blocks : f[b] = Value(f, b)
    <2> TAKE b \in Blocks
    <2>1. loop.dominator[b] # 0 => f[loop.dominator[b]] \in V  BY <1>a, BlocksBelow
    <2> QED  BY <1>a, <2>1
<1> DEFINE P(g) == g = [b \in Blocks |-> Value(g, b)]
<1>3. P(f)
    <2> HIDE DEF V, Value
    <2> QED  BY <1>a, <1>2
<1>4. Dominators = CHOOSE g : P(g)  BY DEF Dominators
<1>5. P(CHOOSE g : P(g))
    <2> HIDE DEF P
    <2> QED  BY <1>3
<1>6. Dominators = [b \in Blocks |-> Value(Dominators, b)]  BY <1>4, <1>5
<1> HIDE DEF Value
<1>7. \A b \in Blocks : Dominators[b] = Value(Dominators, b)  BY <1>6
<1> QED  BY <1>7 DEF Value

\* A block dominates itself, and what dominates a dominator of it dominates it.
LEMMA DominatorsFacts ==
    ASSUME WellFormed(loop), NEW b \in Blocks
    PROVE  /\ b \in Dominators[b]
           /\ \A c \in Dominators[b] : c \in Blocks /\ Dominators[c] \subseteq Dominators[b]
<1> DEFINE Good(x) == \A c \in Dominators[x] : c \in Blocks /\ Dominators[c] \subseteq Dominators[x]
           Bad == {x \in Blocks : ~Good(x)}
<1>0. \A x : x \in Bad <=> x \in Blocks /\ ~Good(x)  OBVIOUS
<1>1. Bad = {}
    <2> HIDE DEF Bad
    <2> SUFFICES ASSUME Bad # {} PROVE FALSE  OBVIOUS
    <2>1. Bad \in SUBSET Nat  BY <1>0, BlocksBelow
    <2>2. PICK x \in Bad : \A y \in Bad : x <= y  BY <2>1, Least
    <2>3. x \in Blocks /\ ~Good(x) /\ x \in Nat  BY <1>0, <2>1
    <2> DEFINE d == loop.dominator[x]
    <2>4. Dominators[x] = {x} \cup (IF d = 0 THEN {} ELSE Dominators[d])  BY <2>3, DominatorsEquation
    <2>5. CASE d = 0  BY <2>3, <2>4, <2>5
    <2>6. CASE d # 0
        <3>1. d \in Blocks /\ d < x /\ d \in Nat  BY <2>3, <2>6, BlocksBelow
        <3>2. d \notin Bad  BY <2>2, <2>3, <3>1
        <3>3. Good(d)  BY <1>0, <3>1, <3>2
        <3> QED  BY <2>3, <2>4, <2>6, <3>3
    <2> QED  BY <2>5, <2>6
<1>2. Good(b)  BY <1>0, <1>1
<1>3. b \in Dominators[b]  BY DominatorsEquation
<1> QED  BY <1>2, <1>3

\* Where the operation i ends up from each block.
Halts(i, b) == b \in Barrier[i] \/ loop.dominator[b] = 0 \/ ~Overlaps(i, loop.dominator[b])
Climb(i) ==
    LET climb[b \in Blocks] ==
            IF b \in Barrier[i] \/ loop.dominator[b] = 0 THEN b
            ELSE IF ~Overlaps(i, loop.dominator[b]) THEN b ELSE climb[loop.dominator[b]]
    IN  climb

\* Climb satisfies the equation it is defined by.
LEMMA ClimbEquation ==
    ASSUME WellFormed(loop), NEW i
    PROVE  \A b \in Blocks : Climb(i)[b] = IF Halts(i, b) THEN b ELSE Climb(i)[loop.dominator[b]]
<1> DEFINE Value(g, b) == IF b \in Barrier[i] \/ loop.dominator[b] = 0 THEN b
                          ELSE IF ~Overlaps(i, loop.dominator[b]) THEN b ELSE g[loop.dominator[b]]
           Last == {b \in Blocks : Halts(i, b)}
           Own == [b \in Blocks |-> b]
           Lift == [b \in Blocks |-> [c \in Blocks |-> c]]
<1>0. Blocks # {}
    <2>1. 1 \in Ops  BY OpsFinite
    <2> QED  BY <2>1 DEF Blocks
<1>1. PICK f : TreeSolves(f, Blocks, Last, Own, Lift)
    <2>1. Own \in [Blocks -> Blocks] /\ Lift \in [Blocks -> [Blocks -> Blocks]]  OBVIOUS
    <2>2. \A b \in Blocks : loop.dominator[b] = 0 => b \in Last  BY DEF Halts
    <2> HIDE DEF Last, Own, Lift
    <2>3. TreeRule(Blocks, Last, Own, Lift)  BY <1>0, <2>1, <2>2 DEF TreeRule
    <2> QED  BY <2>3, TreeRecursion
<1>a. /\ f \in [Blocks -> Blocks]
      /\ \A b \in Blocks : f[b] = IF b \in Last THEN Own[b] ELSE Lift[b][f[loop.dominator[b]]]
    <2> HIDE DEF Last, Own, Lift
    <2> QED  BY <1>1 DEF TreeSolves
<1>2. \A b \in Blocks : f[b] = Value(f, b)
    <2> TAKE b \in Blocks
    <2>1. loop.dominator[b] # 0 => loop.dominator[b] \in Blocks /\ f[loop.dominator[b]] \in Blocks
        BY <1>a, BlocksBelow
    <2>2. CASE Halts(i, b)  BY <1>a, <2>2 DEF Halts
    <2>3. CASE ~Halts(i, b)
        <3>1. f[b] = f[loop.dominator[b]]  BY <1>a, <2>1, <2>3 DEF Halts
        <3> QED  BY <2>3, <3>1 DEF Halts
    <2> QED  BY <2>2, <2>3
<1> DEFINE P(g) == g = [b \in Blocks |-> Value(g, b)]
<1>3. P(f)
    <2> HIDE DEF Value
    <2> QED  BY <1>a, <1>2
<1>4. Climb(i) = CHOOSE g : P(g)  BY DEF Climb
<1>5. P(CHOOSE g : P(g))
    <2> HIDE DEF P
    <2> QED  BY <1>3
<1>6. Climb(i) = [b \in Blocks |-> Value(Climb(i), b)]  BY <1>4, <1>5
<1>7. \A b \in Blocks : Climb(i)[b] = Value(Climb(i), b)
    <2> HIDE DEF Value
    <2> QED  BY <1>6
<1> QED  BY <1>7 DEF Halts

\* An operation climbs to a dominator of the block it starts from.
LEMMA ClimbUp ==
    ASSUME WellFormed(loop), NEW i, NEW b \in Blocks
    PROVE  Climb(i)[b] \in Blocks /\ Climb(i)[b] \in Dominators[b]
<1> DEFINE Good(x) == Climb(i)[x] \in Dominators[x]
           Bad == {x \in Blocks : ~Good(x)}
<1>0. \A x : x \in Bad <=> x \in Blocks /\ ~Good(x)  OBVIOUS
<1>1. Bad = {}
    <2> HIDE DEF Bad
    <2> SUFFICES ASSUME Bad # {} PROVE FALSE  OBVIOUS
    <2>1. Bad \in SUBSET Nat  BY <1>0, BlocksBelow
    <2>2. PICK x \in Bad : \A y \in Bad : x <= y  BY <2>1, Least
    <2>3. x \in Blocks /\ ~Good(x) /\ x \in Nat  BY <1>0, <2>1
    <2>4. CASE Halts(i, x)
        <3>1. Climb(i)[x] = x  BY <2>3, <2>4, ClimbEquation
        <3>2. x \in Dominators[x]  BY <2>3, DominatorsFacts
        <3> QED  BY <2>3, <3>1, <3>2
    <2>5. CASE ~Halts(i, x)
        <3> DEFINE d == loop.dominator[x]
        <3>0. d # 0  BY <2>5 DEF Halts
        <3>1. d \in Blocks /\ d < x /\ d \in Nat  BY <2>3, <3>0, BlocksBelow
        <3>2. d \notin Bad  BY <2>2, <2>3, <3>1
        <3>3. Good(d)  BY <1>0, <3>1, <3>2
        <3>4. Climb(i)[x] = Climb(i)[d]  BY <2>3, <2>5, ClimbEquation
        <3>5. Dominators[x] = {x} \cup Dominators[d]  BY <2>3, <3>0, DominatorsEquation
        <3> QED  BY <2>3, <3>3, <3>4, <3>5
    <2> QED  BY <2>4, <2>5
<1>2. Good(b)  BY <1>0, <1>1
<1> QED  BY <1>2, DominatorsFacts

\* An operation that climbs from b either stays below a dominator c of b, or comes through it.
LEMMA ClimbThrough ==
    ASSUME WellFormed(loop), NEW i, NEW b \in Blocks, NEW c \in Dominators[b]
    PROVE  c \in Dominators[Climb(i)[b]] \/ Climb(i)[b] = Climb(i)[c]
<1> DEFINE Good(x) == c \in Dominators[x] => c \in Dominators[Climb(i)[x]] \/ Climb(i)[x] = Climb(i)[c]
           Bad == {x \in Blocks : ~Good(x)}
<1>0. \A x : x \in Bad <=> x \in Blocks /\ ~Good(x)  OBVIOUS
<1>1. Bad = {}
    <2> HIDE DEF Bad
    <2> SUFFICES ASSUME Bad # {} PROVE FALSE  OBVIOUS
    <2>1. Bad \in SUBSET Nat  BY <1>0, BlocksBelow
    <2>2. PICK x \in Bad : \A y \in Bad : x <= y  BY <2>1, Least
    <2>3. x \in Blocks /\ ~Good(x) /\ x \in Nat  BY <1>0, <2>1
    <2>4. CASE Halts(i, x)
        <3>1. Climb(i)[x] = x  BY <2>3, <2>4, ClimbEquation
        <3> QED  BY <2>3, <3>1
    <2>5. CASE ~Halts(i, x)
        <3> DEFINE d == loop.dominator[x]
        <3>0. d # 0  BY <2>5 DEF Halts
        <3>1. d \in Blocks /\ d < x /\ d \in Nat  BY <2>3, <3>0, BlocksBelow
        <3>2. d \notin Bad  BY <2>2, <2>3, <3>1
        <3>3. Good(d)  BY <1>0, <3>1, <3>2
        <3>4. Climb(i)[x] = Climb(i)[d]  BY <2>3, <2>5, ClimbEquation
        <3>5. Dominators[x] = {x} \cup Dominators[d]  BY <2>3, <3>0, DominatorsEquation
        <3> QED  BY <2>3, <3>3, <3>4, <3>5
    <2> QED  BY <2>4, <2>5
<1> QED  BY <1>0, <1>1

\* An operation with fewer barriers that ends no later than another climbs at least as far.
LEMMA ClimbFollows ==
    ASSUME WellFormed(loop), NEW i, NEW j, NEW b \in Blocks,
           \A c \in Blocks : c \in Barrier[i] => c \in Barrier[j],
           \A c \in Blocks : Overlaps(j, c) => Overlaps(i, c)
    PROVE  Climb(i)[b] \in Dominators[Climb(j)[b]]
<1> DEFINE Good(x) == Climb(i)[x] \in Dominators[Climb(j)[x]]
           Bad == {x \in Blocks : ~Good(x)}
<1>0. \A x : x \in Bad <=> x \in Blocks /\ ~Good(x)  OBVIOUS
<1>1. Bad = {}
    <2> HIDE DEF Bad
    <2> SUFFICES ASSUME Bad # {} PROVE FALSE  OBVIOUS
    <2>1. Bad \in SUBSET Nat  BY <1>0, BlocksBelow
    <2>2. PICK x \in Bad : \A y \in Bad : x <= y  BY <2>1, Least
    <2>3. x \in Blocks /\ ~Good(x) /\ x \in Nat  BY <1>0, <2>1
    <2>4. CASE Halts(j, x)
        <3>1. Climb(j)[x] = x  BY <2>3, <2>4, ClimbEquation
        <3>2. Climb(i)[x] \in Dominators[x]  BY <2>3, ClimbUp
        <3> QED  BY <2>3, <3>1, <3>2
    <2>5. CASE ~Halts(j, x)
        <3> DEFINE d == loop.dominator[x]
        <3>0. d # 0 /\ x \notin Barrier[j] /\ Overlaps(j, d)  BY <2>5 DEF Halts
        <3>1. d \in Blocks /\ d < x /\ d \in Nat  BY <2>3, <3>0, BlocksBelow
        <3>2. d \notin Bad  BY <2>2, <2>3, <3>1
        <3>3. Good(d)  BY <1>0, <3>1, <3>2
        <3>4. ~Halts(i, x)  BY <2>3, <3>0, <3>1 DEF Halts
        <3>5. Climb(i)[x] = Climb(i)[d] /\ Climb(j)[x] = Climb(j)[d]  BY <2>3, <2>5, <3>4, ClimbEquation
        <3> QED  BY <2>3, <3>3, <3>5
    <2> QED  BY <2>4, <2>5
<1> QED  BY <1>0, <1>1

\* Barrier satisfies the equation it is defined by.
LEMMA BarrierEquation ==
    ASSUME WellFormed(loop)
    PROVE  \A i \in Ops :
              /\ ~Has(i, "branch") /\ Has(i, "pinned") => Barrier[i] = {loop.block[i]}
              /\ ~Has(i, "branch") /\ ~Has(i, "pinned") =>
                    \A h \in Ops : <<h, i>> \in DOMAIN loop.deps => Barrier[h] \subseteq Barrier[i]
<1> DEFINE Before(i) == {k \in 1 .. i - 1 : <<k, i>> \in DOMAIN loop.deps}
           Value(g, i) ==
               CASE Has(i, "branch") -> {}
                 [] ~Has(i, "branch") /\ Has(i, "pinned") -> {loop.block[i]}
                 [] OTHER -> UNION {g[h] : h \in Before(i)}
           V == SUBSET Blocks
           F == [i \in 1 .. loop.n |-> [g \in [1 .. loop.n -> V] |-> Value(g, i)]]
<1>1. loop.n \in Nat /\ Ops = 1 .. loop.n  BY OpsFinite
<1>2. \A i \in Ops : loop.block[i] \in Blocks  BY DEF Blocks
<1>4. ASSUME NEW i \in Ops, NEW g
      PROVE  /\ Has(i, "branch") => Value(g, i) = {}
             /\ ~Has(i, "branch") /\ Has(i, "pinned") => Value(g, i) = {loop.block[i]}
             /\ ~Has(i, "branch") /\ ~Has(i, "pinned") => Value(g, i) = UNION {g[h] : h \in Before(i)}
    OBVIOUS
<1> HIDE DEF Value
<1>5. ASSUME NEW i \in 1 .. loop.n, NEW g \in [1 .. loop.n -> V] PROVE Value(g, i) \in V
    <2>1. \A h \in Before(i) : g[h] \in SUBSET Blocks  BY <1>1
    <2>2. UNION {g[h] : h \in Before(i)} \in V  BY <2>1
    <2>3. i \in Ops /\ {loop.block[i]} \in V /\ {} \in V  BY <1>1, <1>2
    <2> DEFINE U == UNION {g[h] : h \in Before(i)}
    <2>4. Value(g, i) = {} \/ Value(g, i) = {loop.block[i]} \/ Value(g, i) = U  BY <1>4, <2>3
    <2> QED  BY <2>2, <2>3, <2>4
<1>6. ASSUME NEW i \in 1 .. loop.n, NEW g \in [1 .. loop.n -> V], NEW h \in [1 .. loop.n -> V],
             \A k \in 1 .. i - 1 : g[k] = h[k]
      PROVE  Value(g, i) = Value(h, i)
    <2>1. {g[k] : k \in Before(i)} = {h[k] : k \in Before(i)}  BY <1>6
    <2> DEFINE A(x) == {x[k] : k \in Before(i)}
    <2>2. i \in Ops  BY <1>1
    <2>3. A(g) = A(h)  BY <2>1
    <2>4. CASE Has(i, "branch")  BY <1>4, <2>2, <2>4
    <2>5. CASE ~Has(i, "branch") /\ Has(i, "pinned")  BY <1>4, <2>2, <2>5
    <2>6. CASE ~Has(i, "branch") /\ ~Has(i, "pinned")
        <3>1. Value(g, i) = UNION A(g) /\ Value(h, i) = UNION A(h)  BY <1>4, <2>2, <2>6
        <3> HIDE DEF A
        <3> QED  BY <2>3, <3>1
    <2> QED  BY <2>4, <2>5, <2>6
<1> HIDE DEF V
<1>7. PICK f : Solves(f, loop.n, V, F)
    <2>1. F \in [1 .. loop.n -> [[1 .. loop.n -> V] -> V]]  BY <1>5
    <2>2. \A i \in 1 .. loop.n : \A g, h \in [1 .. loop.n -> V] :
              (\A k \in 1 .. i - 1 : g[k] = h[k]) => F[i][g] = F[i][h]
        BY <1>6
    <2>3. V # {}  BY DEF V
    <2>4. Recursive(loop.n, V, F)  BY <2>1, <2>2 DEF Recursive
    <2> HIDE DEF F
    <2> QED  BY <1>1, <2>3, <2>4, Recursion
<1>8. f \in [Ops -> V] /\ \A i \in Ops : f[i] = Value(f, i)  BY <1>1, <1>7 DEF Solves
<1> DEFINE P(g) == g = [i \in Ops |-> Value(g, i)]
<1>9. P(f)  BY <1>8
<1>10. Barrier = CHOOSE g : P(g)  BY DEF Barrier, Value
<1>11. P(CHOOSE g : P(g))
    <2> HIDE DEF P
    <2> QED  BY <1>9
<1>12. Barrier = [i \in Ops |-> Value(Barrier, i)]  BY <1>10, <1>11
<1>13. \A i \in Ops : Barrier[i] = Value(Barrier, i)  BY <1>12
<1>14. ASSUME NEW i \in Ops, ~Has(i, "branch"), ~Has(i, "pinned"), NEW h \in Ops, <<h, i>> \in DOMAIN loop.deps
       PROVE  Barrier[h] \subseteq Barrier[i]
    <2>1. h < i  BY <1>14 DEF WellFormed, Ops
    <2>2. h \in Before(i)  BY <1>1, <1>14, <2>1
    <2> QED  BY <1>4, <1>13, <1>14, <2>2
<1> QED  BY <1>4, <1>13, <1>14

\* A value that may be moved is used by an operation that may be moved and that ends no
\* earlier: the delay of the chain between them makes up for the cycles of its source.
LEMMA EndsInOrder ==
    ASSUME Inductive, Accepted, Regular(loop), NEW i \in Ops, NEW j \in Ops,
           <<i, j>> \in DOMAIN loop.deps, loop.deps[<<i, j>>] = "data", ~Has(i, "pinned"), ~Has(j, "pinned")
    PROVE  LastStep(i) \in Nat /\ LastStep(j) \in Nat /\ LastStep(i) <= LastStep(j)
<1>1. WellFormed(loop) /\ Forward(constraints)  BY ConstraintsForward DEF Inductive
<1>2. phase \in {"refine", "accepted", "done"}  BY DEF Accepted
<1>3. vals \in [Ops -> Nat]  BY <1>2 DEF Inductive, TypeOK
<1>4. Clock \in Nat \ {0} /\ Setup \in Nat  BY SchedulingAssumption
<1>5. i < j /\ i \in Nat /\ j \in Nat
    <2>1. i < j  BY <1>1 DEF WellFormed, Ops
    <2> QED  BY <1>1, <2>1, OpsFinite
<1>6. CanBeChained(i, j)
    <2>1. \A k \in Ops : Has(k, "load") \/ Has(k, "store") \/ Has(k, "unbounded")
                          \/ Has(k, "indirect") \/ Has(k, "distributed") => Has(k, "pinned")
        BY <1>1 DEF WellFormed, Has, Ops
    <2> QED  BY <2>1 DEF CanBeChained
<1>7. /\ loop.op[i].cycles \in Nat \ {0} /\ loop.op[i].time \in Nat /\ loop.op[i].ii \in Nat /\ EdgeDelay(i) \in Nat
      /\ loop.op[j].cycles \in Nat \ {0} /\ loop.op[j].time \in Nat
    BY <1>1, OpTyped
<1>8. ASSUME NEW w \in Nat, Kept(<<i, j>>, -w) PROVE vals[j] >= vals[i] + w
    <2>1. <<i, j>> \in DOMAIN constraints /\ constraints[<<i, j>>] <= -w  BY <1>8 DEF Kept
    <2>2. constraints[<<i, j>>] \in Int  BY <1>1, <2>1 DEF Forward
    <2>3. vals[j] >= vals[i] - constraints[<<i, j>>]  BY <1>2, <2>1 DEF Inductive, Satisfied
    <2> QED  BY <1>3, <2>1, <2>2, <2>3
<1>9. vals[j] >= vals[i]
    <2>1. Constrained(<<i, j>>) /\ DependenceWeight(<<i, j>>) = 0  BY <1>6 DEF Constrained, DependenceWeight
    <2>2. Kept(<<i, j>>, 0)  BY <1>2, <2>1 DEF Inductive, DependencesKept
    <2>3. Kept(<<i, j>>, -0)  BY <2>2
    <2>4. vals[j] >= vals[i] + 0  BY <1>8, <2>3
    <2> QED  BY <1>3, <2>4
<1>10. LastStep(i) \in Nat /\ LastStep(j) \in Nat  BY <1>3, <1>7 DEF LastStep
<1>11. CASE loop.op[i].cycles = 1  BY <1>3, <1>7, <1>9, <1>10, <1>11 DEF LastStep
<1>12. CASE loop.op[i].cycles > 1
    <2> DEFINE c == loop.op[i].cycles - 1
               t == loop.op[i].time
               d == Delays(i)[j]
               l == LocalDelay(i, j)
               s == StepsFor(l)
    <2>1. c \in Nat /\ t \in Nat /\ t > 0 /\ (loop.op[i].ii = 0 => t + Setup > c * Clock)
        BY <1>7, <1>12 DEF Regular, Has, Ops
    <2>2. c * Clock \in Nat  BY <1>4, <2>1
    <2>3. EdgeDelay(i) > 0 /\ EdgeDelay(i) + Setup > c * Clock
        <3>1. CASE loop.op[i].ii > 0
            <4>1. EdgeDelay(i) = t + c * Clock  BY <3>1 DEF EdgeDelay
            <4> DEFINE C == c * Clock
            <4> HIDE DEF C, c, t
            <4>2. EdgeDelay(i) = t + C /\ C \in Nat  BY <2>2, <4>1 DEF C
            <4>3. EdgeDelay(i) > 0 /\ EdgeDelay(i) + Setup > C  BY <1>4, <2>1, <4>2
            <4> QED  BY <4>3 DEF C
        <3>2. CASE loop.op[i].ii = 0
            <4>1. EdgeDelay(i) = t + 0  BY <3>2 DEF EdgeDelay
            <4>2. EdgeDelay(i) = t  BY <2>1, <4>1
            <4> QED  BY <2>1, <3>2, <4>2
        <3> QED  BY <1>7, <3>1, <3>2
    <2>4. d \in Int /\ d >= EdgeDelay(i)
        <3>1. Delays(i)[i] = 0 /\ d \in Int  BY <1>1, DelaysEquation
        <3>2. i \in ChainedTo(j)  BY <1>5, <1>6, <1>1, OpsFinite DEF ChainedTo
        <3>3. Prolonged(Delays(i)[i], i) <= d
            <4>1. j \in Ops \ {i}  BY <1>5
            <4> QED  BY <1>1, <3>2, <4>1, DelaysEquation
        <3>4. Prolonged(Delays(i)[i], i) = EdgeDelay(i)  BY <1>7, <3>1 DEF Prolonged
        <3> QED  BY <3>1, <3>3, <3>4
    <2>5. j \in Timed(i)  BY <1>5, <1>7, <2>3, <2>4 DEF Timed
    <2>6. l \in Int /\ l > 0 /\ s \in Nat  BY <1>1, <2>5, LocalDelayPositive
    <2>7. (s + 1) * Clock >= l
        <3> HIDE DEF l
        <3> QED  BY <2>6, StepsNat
    <2>8. l = d + loop.op[j].time + Setup  BY DEF LocalDelay
    <2>9. l > c * Clock
        <3> DEFINE C == c * Clock
                   D == EdgeDelay(i)
        <3> HIDE DEF C, D, d, c, t, l
        <3>1. C \in Nat /\ D \in Nat /\ D + Setup > C /\ d >= D  BY <1>7, <2>2, <2>3, <2>4 DEF C, D
        <3>2. l > C  BY <1>4, <1>7, <2>4, <2>8, <3>1
        <3> QED  BY <3>2 DEF C
    <2>10. s >= c
        <3> HIDE DEF c, l, s
        <3> SUFFICES ASSUME s < c PROVE FALSE  BY <2>1, <2>6
        <3>1. s + 1 <= c  BY <2>1, <2>6
        <3>2. (s + 1) * Clock <= c * Clock  BY <1>4, <2>1, <2>6, <3>1
        <3>3. (s + 1) * Clock \in Int /\ c * Clock \in Int  BY <1>4, <2>1, <2>6
        <3> DEFINE S == (s + 1) * Clock
                   C == c * Clock
        <3>4. S >= l /\ l > C /\ S <= C /\ S \in Int /\ C \in Int  BY <2>7, <2>9, <3>2, <3>3
        <3> HIDE DEF S, C
        <3> QED  BY <2>6, <3>4
    <2>11. Kept(<<i, j>>, -s)  BY <1>2, <2>5 DEF Inductive, DelaysKept
    <2> HIDE DEF s
    <2>12. vals[j] >= vals[i] + s  BY <1>8, <2>6, <2>11
    <2>13. loop.op[i].cycles = c + 1  BY <1>7
    <2> HIDE DEF c
    <2> QED  BY <1>3, <1>7, <1>10, <2>1, <2>6, <2>10, <2>12, <2>13 DEF LastStep
<1> QED  BY <1>7, <1>10, <1>11, <1>12

\* Wherever the two ends of a dependence are moved, the source comes first.
LEMMA SourcesStayFirst ==
    ASSUME Inductive, Regular(loop), Moved
    PROVE  SourcesFirst
<1> SUFFICES ASSUME Accepted, NEW e \in DOMAIN loop.deps, loop.deps[e] = "data",
                    loop.block[e[1]] \in Dominators[loop.block[e[2]]]
             PROVE  destination[e[1]] \in Dominators[destination[e[2]]]
    BY DEF SourcesFirst
<1>1. WellFormed(loop)  BY DEF Inductive, TypeOK
<1> DEFINE i == e[1]
           j == e[2]
           b == loop.block[i]
           c == loop.block[j]
<1>2. i \in Ops /\ j \in Ops /\ e = <<i, j>> /\ b \in Blocks /\ c \in Blocks
    BY <1>1, BlocksBelow DEF WellFormed, Ops
<1>3. destination[i] = Destination(i) /\ destination[j] = Destination(j)  BY <1>2 DEF Moved
<1>4. ~Has(i, "branch")  BY <1>2 DEF Regular, Has
<1>5. Destination(i) = Climb(i)[b]  BY <1>4 DEF Destination, Climb
<1>6. Destination(j) = IF Has(j, "branch") THEN c ELSE Climb(j)[c]  BY DEF Destination, Climb
<1>7. Climb(i)[b] \in Dominators[b]  BY <1>1, <1>2, ClimbUp
<1>8. ASSUME NEW x \in Blocks, b \in Dominators[x] PROVE Climb(i)[b] \in Dominators[x]
    BY <1>1, <1>7, <1>8, DominatorsFacts
<1>9. CASE Has(j, "branch")  BY <1>2, <1>3, <1>5, <1>6, <1>8, <1>9
<1>10. CASE ~Has(j, "branch") /\ Has(j, "pinned")
    <2>1. Halts(j, c)  BY <1>1, <1>2, <1>10, BarrierEquation DEF Halts
    <2>2. Climb(j)[c] = c  BY <1>1, <1>2, <2>1, ClimbEquation
    <2> QED  BY <1>2, <1>3, <1>5, <1>6, <1>8, <1>10, <2>2
<1>11. CASE ~Has(j, "branch") /\ ~Has(j, "pinned")
    <2>1. Barrier[i] \subseteq Barrier[j]  BY <1>1, <1>2, <1>11, BarrierEquation
    <2>2. Climb(j)[c] \in Blocks  BY <1>1, <1>2, ClimbUp
    <2>3. CASE b \in Dominators[Climb(j)[c]]  BY <1>3, <1>5, <1>6, <1>8, <1>11, <2>2, <2>3
    <2>4. CASE Climb(j)[c] = Climb(j)[b]
        <3>1. CASE Has(i, "pinned")
            <4>1. b \in Barrier[j]  BY <1>1, <1>2, <1>4, <2>1, <3>1, BarrierEquation
            <4>2. Climb(j)[b] = b  BY <1>1, <1>2, <4>1, ClimbEquation DEF Halts
            <4> QED  BY <1>3, <1>5, <1>6, <1>7, <1>11, <2>4, <4>2
        <3>2. CASE ~Has(i, "pinned")
            <4>1. LastStep(i) \in Nat /\ LastStep(j) \in Nat /\ LastStep(i) <= LastStep(j)
                BY <1>2, <1>11, <3>2, EndsInOrder
            <4>2. ASSUME NEW x \in Blocks, Overlaps(j, x) PROVE Overlaps(i, x)
                <5>1. PICK k \in Ops : loop.block[k] = x /\ LastStep(k) >= LastStep(j)  BY <4>2 DEF Overlaps
                <5>2. LastStep(k) \in Int
                    <6>1. vals \in [Ops -> Nat]  BY DEF Inductive, TypeOK, Accepted
                    <6>2. loop.op[k].cycles \in Nat  BY <1>1, OpTyped
                    <6> QED  BY <6>1, <6>2 DEF LastStep
                <5>3. LastStep(k) >= LastStep(i)  BY <4>1, <5>1, <5>2
                <5> QED  BY <5>1, <5>3 DEF Overlaps
            <4>3. \A x \in Blocks : x \in Barrier[i] => x \in Barrier[j]  BY <2>1
            <4>4. Climb(i)[b] \in Dominators[Climb(j)[b]]  BY <1>1, <1>2, <4>2, <4>3, ClimbFollows
            <4> QED  BY <1>3, <1>5, <1>6, <1>11, <2>4, <4>4
        <3> QED  BY <3>1, <3>2
    <2> QED  BY <1>1, <1>2, <2>3, <2>4, ClimbThrough
<1> QED  BY <1>9, <1>10, <1>11

\* Only Accept moves operations, and it leaves the steps and the loop as they are.
LEMMA MovedStep == Moved /\ [Next]_vars => Moved'
<1> SUFFICES ASSUME Moved, [Next]_vars PROVE Moved'  OBVIOUS
<1>1. ASSUME loop' = loop, vals' = vals PROVE Ops' = Ops /\ \A i : (Destination(i))' = Destination(i)
    <2>1. Ops' = Ops /\ Blocks' = Blocks  BY <1>1, SameLoop
    <2>2. Barrier' = Barrier  BY <1>1, <2>1 DEF Barrier, Has
    <2> QED  BY <1>1, <2>1, <2>2 DEF Destination, Overlaps, LastStep, Has
<1>2. CASE Accept
    <2>1. loop' = loop /\ vals' = vals /\ destination' = [i \in Ops |-> Destination(i)]  BY <1>2 DEF Accept
    <2>2. Ops' = Ops /\ \A i : (Destination(i))' = Destination(i)  BY <1>1, <2>1
    <2> QED  BY <2>1, <2>2 DEF Moved
<1>3. CASE SetCsteps
    <2>1. loop' = loop /\ vals' = vals /\ destination' = destination /\ Accepted  BY <1>3 DEF SetCsteps, Accepted
    <2>2. Ops' = Ops /\ \A i : (Destination(i))' = Destination(i)  BY <1>1, <2>1
    <2> QED  BY <2>1, <2>2 DEF Moved
<1>4. CASE UNCHANGED vars
    <2>1. loop' = loop /\ vals' = vals /\ destination' = destination /\ phase' = phase  BY <1>4 DEF vars
    <2>2. Ops' = Ops /\ \A i : (Destination(i))' = Destination(i)  BY <1>1, <2>1
    <2> QED  BY <2>1, <2>2 DEF Moved, Accepted
<1>5. ASSUME phase' \notin {"accepted", "done"} PROVE Moved'  BY <1>5 DEF Moved, Accepted
<1>6. CASE AddDependences \/ AddTiming \/ AllTimed \/ Place \/ AllPlaced \/ SolveSDC \/ Relax \/ Solved \/ Refine \/ NextLoop
    BY <1>5, <1>6 DEF AddDependences, AddTiming, AllTimed, Place, AllPlaced, SolveSDC, Relax, Solved, Refine, NextLoop
<1> QED  BY <1>2, <1>3, <1>4, <1>6 DEF Next

------------------------------------------------------------------------------
(* The solver finds the earliest steps *)

\* A round does not move an operation beyond where every solution has it.
LEMMA EarliestStep == Inductive /\ Earliest /\ [Next]_vars => Earliest'
<1> SUFFICES ASSUME Inductive, Earliest, [Next]_vars PROVE Earliest'  OBVIOUS
<1>1. WellFormed(loop) /\ Forward(constraints)  BY ConstraintsForward DEF Inductive
<1>2. ASSUME loop' = loop, constraints' = constraints
      PROVE  Ops' = Ops /\ (\A x : (Respected(x))' = Respected(x))
    BY <1>2, SameLoop DEF Respected
<1>3. CASE SolveSDC
    <2>1. /\ loop' = loop /\ constraints' = constraints /\ phase' = "relax" /\ label' = [j \in Ops |-> 0]
        BY <1>3 DEF SolveSDC
    <2>2. Ops' = Ops  BY <1>2, <2>1
    <2> QED  BY <2>1, <2>2 DEF Earliest, EarliestOf
<1>4. CASE Relax
    <2>1. /\ loop' = loop /\ constraints' = constraints /\ phase = "relax" /\ phase' = "relax"
          /\ label' = Relaxed(label)
        BY <1>4 DEF Relax
    <2>2. Ops' = Ops /\ (\A x : (Respected(x))' = Respected(x))  BY <1>2, <2>1
    <2>3. label \in [Ops -> Int] /\ EarliestOf(label)  BY <2>1 DEF Inductive, TypeOK, Earliest
    <2>4. ASSUME NEW x \in [Ops -> Nat], Respected(x), NEW j \in Ops PROVE Relaxed(label)[j] <= x[j]
        <3>1. \A k \in Ops : label[k] <= x[k]  BY <2>3, <2>4 DEF EarliestOf
        <3>2. ASSUME NEW e \in DOMAIN constraints, e[2] = j PROVE label[e[1]] - constraints[e] <= x[j]
            <4>1. e[1] \in Ops /\ constraints[e] \in Int  BY <1>1 DEF Forward
            <4>2. x[e[1]] - constraints[e] <= x[j]  BY <2>4, <3>2 DEF Respected
            <4>3. label[e[1]] \in Int /\ x[e[1]] \in Int /\ x[j] \in Int /\ label[e[1]] <= x[e[1]]
                BY <2>3, <3>1, <4>1
            <4> QED  BY <4>1, <4>2, <4>3
        <3>3. x[j] \in Int  OBVIOUS
        <3> QED  BY <1>1, <2>3, <3>1, <3>2, <3>3, RelaxedLeast
    <2> QED  BY <2>1, <2>2, <2>4 DEF Earliest, EarliestOf
<1>5. CASE Solved
    <2>1. /\ loop' = loop /\ constraints' = constraints /\ phase = "relax" /\ phase' # "relax" /\ vals' = label
        BY <1>5 DEF Solved
    <2>2. Ops' = Ops /\ (\A x : (Respected(x))' = Respected(x))  BY <1>2, <2>1
    <2> QED  BY <2>1, <2>2 DEF Earliest, EarliestOf
<1>6. CASE Accept \/ SetCsteps \/ UNCHANGED vars
    <2>1. /\ loop' = loop /\ constraints' = constraints /\ vals' = vals /\ label' = label
          /\ phase' = phase \/ (phase \in {"refine", "accepted"} /\ phase' \in {"accepted", "done"})
        BY <1>6 DEF Accept, SetCsteps, vars, solver
    <2>2. Ops' = Ops /\ (\A x : (Respected(x))' = Respected(x))  BY <1>2, <2>1
    <2>3. (EarliestOf(vals))' = EarliestOf(vals) /\ (EarliestOf(label))' = EarliestOf(label)
        BY <2>1, <2>2 DEF EarliestOf
    <2> QED  BY <2>1, <2>3 DEF Earliest
<1>7. CASE AddDependences \/ AddTiming \/ AllTimed \/ Place \/ AllPlaced \/ Refine \/ NextLoop
    <2>1. phase' \notin {"relax", "refine", "accepted", "done"}
        BY <1>7 DEF AddDependences, AddTiming, AllTimed, Place, AllPlaced, Refine, NextLoop
    <2> QED  BY <2>1 DEF Earliest
<1> QED  BY <1>3, <1>4, <1>5, <1>6, <1>7 DEF Next

------------------------------------------------------------------------------
(* The theorems *)

\* Types: whatever the loop, weights are integers <= 0, and labels and steps natural numbers.
THEOREM TypeCorrect == Spec => []TypeOK
<1>1. Inductive => TypeOK  BY DEF Inductive
<1> QED  BY <1>1, InductiveHolds, PTL

\* The dependences, delays, windows and separations of every loop, however often the solver
\* is called again, only lead to operations that come later in rel_position_map.
THEOREM ForwardOnlyHolds == Spec => []ForwardOnly
<1>1. Inductive => ForwardOnly  BY DEF Inductive
<1> QED  BY <1>1, InductiveHolds, PTL

\* "Error in finding SDC solution" is unreachable for every loop: after as many rounds of the
\* solver as there are operations nothing moves.
THEOREM NeverFailsHolds == Spec => []NeverFails
<1>1. Inductive => NeverFails  BY DEF Inductive
<1> QED  BY <1>1, InductiveHolds, PTL

\* sdc_schedule calls the solver at most once more than there are pairs of operations that
\* must not share a step.
THEOREM RestartsBoundedHolds == Spec => []RestartsBounded
<1>1. Inductive => RestartsBounded
    <2> SUFFICES ASSUME Inductive PROVE RestartsBounded  OBVIOUS
    <2>1. WellFormed(loop)  BY ConstraintsForward DEF Inductive
    <2>2. Exclusive \in SUBSET (Ops \X Ops) /\ Separated \subseteq Exclusive  BY DEF Exclusive, Separated
    <2>3. IsFiniteSet(Exclusive)  BY <2>1, <2>2, OpsFinite
    <2>4. IsFiniteSet(Separated) /\ Cardinality(Separated) <= Cardinality(Exclusive)  BY <2>2, <2>3, FS_Subset
    <2>5. Cardinality(Separated) \in Nat /\ Cardinality(Exclusive) \in Nat  BY <2>3, <2>4, FS_CardinalityType
    <2>6. restarts \in Nat /\ restarts <= Cardinality(Separated)  BY DEF Inductive, TypeOK, RestartsCounted
    <2> QED  BY <2>4, <2>5, <2>6 DEF RestartsBounded
<1> QED  BY <1>1, InductiveHolds, PTL

\* In the accepted schedule of every loop, for every clock period, every chain of operations
\* ends within the steps of its last operation.
THEOREM ChainsFitHolds == Spec => []ChainsFit
<1> QED  BY ChainsMeetClock, InductiveHolds, PTL

\* The accepted steps of every loop respect all its constraints, and no steps that do start
\* any operation earlier: what SDC_solver.hpp promises of solve_SDCNeg, seen from its caller.
THEOREM EarliestHolds == Spec => [](Accepted => Respected(vals) /\ EarliestOf(vals))
<1>1. Init => Earliest  BY DEF Init, Earliest
<1>2. Inductive /\ Earliest => (Accepted => Respected(vals) /\ EarliestOf(vals))
    BY DEF Inductive, Satisfied, Respected, Earliest, Accepted
<1> QED  BY <1>1, <1>2, EarliestStep, InductiveHolds, PTL DEF Spec

\* In no step of any path through the loop are more operations on a unit than there are
\* instances of it, whatever the control flow: the windows of sdc_schedule are merged at
\* joins and only their fronts give constraints, and that is enough.
THEOREM EnoughUnitsHolds == Spec => []EnoughUnits
<1>1. Init => WindowsCover /\ UnitsKept  BY DEF Init, WindowsCover, UnitsKept
<1> QED  BY <1>1, UnitsStep, UnitsSuffice, InductiveHolds, PTL DEF Spec

\* Wherever the code motion of InternalExec puts the two ends of a data dependence, the block of
\* the source still dominates the block of the target, if it did before: a source climbs at
\* least as far as what uses it, or is a barrier for it.  For every function whose operations
\* of several cycles need them, and in which nothing is computed from a branch.
THEOREM SourcesFirstHolds ==
    ASSUME \A n \in Sizes : \A l \in Loops(n) : Regular(l)
    PROVE  Spec => []SourcesFirst
<1>1. Init => Regular(loop) /\ Moved  BY DEF Init, Moved, Accepted
<1>2. Regular(loop) /\ Moved /\ [Next]_vars => Regular(loop)' /\ Moved'
    <2> SUFFICES ASSUME Regular(loop), Moved, [Next]_vars PROVE Regular(loop)'  BY MovedStep
    <2>1. loop' = loop \/ \E n \in Sizes : loop' \in Loops(n)
        BY DEF Next, vars, AddDependences, AddTiming, AllTimed, Place, AllPlaced, SolveSDC, Relax, Solved, Refine,
               Accept, NextLoop, SetCsteps
    <2> QED  BY <2>1 DEF Regular, Operations
<1> QED  BY <1>1, <1>2, SourcesStayFirst, InductiveHolds, PTL DEF Spec
=============================================================================
