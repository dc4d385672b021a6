------------------------ MODULE DifferenceConstraints ------------------------
(***************************************************************************)
(* What src/src/algorithms/sdc_solver promises its caller: constraints     *)
(* V_j - V_i <= weight are added, and a call of the solver answers, in one *)
(* step, with the greatest solution that is not positive, or that there is *)
(* none.  How it is computed is in SdcSolver, which implements this.       *)
(***************************************************************************)
EXTENDS Integers

CONSTANTS
    Ids,      \* the variables: unsigned numbers
    Weights,  \* the weights the caller uses
    Values,   \* the values among which solutions are looked for
    Half      \* an int is in -Half .. Half - 1

VARIABLES
    constraints,  \* sdc_solver::constraints: pair of variables -> weight
    outcome,      \* what the last call returned, none since the last addition
    vals          \* the caller's map, which a call fills

abstractVars == <<constraints, outcome, vals>>

\* The variables some constraint mentions.
ActiveIds(c) == {e[1] : e \in DOMAIN c} \cup {e[2] : e \in DOMAIN c}

\* The constraints hold for the values x.
IsSolution(x, c) == \A e \in DOMAIN c : x[e[2]] - x[e[1]] <= c[e]

Unsolvable(c) == \A x \in [Ids -> Values] : ~IsSolution(x, c)

\* x is a solution, and no solution without positive values exceeds it.
IsGreatest(x, c) ==
    /\ IsSolution(x, c)
    /\ \A y \in [Ids -> Values] :
          IsSolution(y, c) /\ (\A v \in Ids : y[v] <= 0) => \A v \in Ids : y[v] <= x[v]

\* The values a caller reads: variables that are not in the map count as 0.
Reading(m, negate) ==
    [v \in Ids |-> IF v \notin DOMAIN m THEN 0 ELSE IF negate THEN -m[v] ELSE m[v]]

AbstractInit ==
    /\ constraints = << >>
    /\ outcome = "none"
    /\ vals = << >>

\* The tightest weight of each pair is kept.
AbstractAdd(i, j, w) ==
    /\ constraints' = [e \in DOMAIN constraints \cup {<<i, j>>} |->
                          IF e = <<i, j>> /\ (e \in DOMAIN constraints => w < constraints[e])
                          THEN w ELSE constraints[e]]
    /\ outcome' = "none"
    /\ UNCHANGED vals

AbstractInfeasible ==
    /\ Unsolvable(constraints)
    /\ outcome' = "infeasible"
    /\ UNCHANGED <<constraints, vals>>

AbstractFeasible(negate) ==
    /\ outcome' = "feasible"
    /\ ActiveIds(constraints) \subseteq DOMAIN vals'
    /\ IsGreatest(Reading(vals', negate), constraints)
    /\ UNCHANGED constraints

\* No solution without positive values fits an int: nothing is promised of vals.
AbstractOverflow(negate) ==
    /\ outcome' = "overflow"
    /\ \A y \in [Ids -> Values] : IsSolution(y, constraints) /\ (\A v \in Ids : y[v] <= 0) =>
          \E v \in Ids : (IF negate THEN -y[v] ELSE y[v]) \notin -Half .. Half - 1
    /\ UNCHANGED constraints

AbstractNext ==
    \/ \E i, j \in Ids, w \in Weights : AbstractAdd(i, j, w)
    \/ AbstractInfeasible
    \/ \E negate \in BOOLEAN : AbstractFeasible(negate) \/ AbstractOverflow(negate)

AbstractSpec == AbstractInit /\ [][AbstractNext]_abstractVars
=============================================================================
