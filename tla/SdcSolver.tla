----------------------------- MODULE SdcSolver -----------------------------
(***************************************************************************)
(* The solver of difference constraints behind the SDC scheduler:          *)
(* src/src/algorithms/sdc_solver/sdc_solver.cpp and .hpp.                  *)
(*                                                                         *)
(* A constraint V_j - V_i <= weight is an edge from i to j.  All distances *)
(* start at 0, as if a virtual source had an edge of weight 0 to every     *)
(* vertex, and edges are relaxed from a queue (Bellman-Ford, small labels  *)
(* first) until nothing changes or the system is found to be infeasible:   *)
(* the path to a vertex has as many edges as there are vertices, or the    *)
(* edge to relax closes a cycle of predecessors with negative weight.      *)
(*                                                                         *)
(* Abstracted: the compact renumbering of sparse ids keeps their order, so *)
(* the search is the same on the original ids; the marks of the walk along *)
(* the predecessors (epoch) are a set that is emptied for every walk.      *)
(***************************************************************************)
EXTENDS Integers, Sequences, FiniteSets, Functions

CONSTANTS
    Ids,        \* the variables the caller uses
    Pairs,      \* the pairs of variables it may constrain
    Weights,    \* the weights it uses
    Values,     \* the values among which solutions are looked for
    Half,       \* an int is in -Half .. Half - 1
    None,       \* invalid_vertex
    MaxConstraints,  \* bound: pairs of variables with a constraint
    MaxSolves        \* bound: calls of solve_SDC and solve_SDCNeg

ASSUME IdsAssumption ==
    /\ IsFiniteSet(Ids)
    /\ Ids \subseteq Nat
    /\ None \notin Ids
    /\ Pairs \subseteq Ids \X Ids

ASSUME NumbersAssumption ==
    /\ Half \in Nat \ {0}
    /\ Weights \subseteq Int
    /\ Values \subseteq Int
    /\ MaxConstraints \in Nat
    /\ MaxSolves \in Nat

VARIABLES
    constraints,         \* pair of variables -> weight
    outcome,             \* what the last call returned
    vals,                \* the caller's map
    pc,                  \* no call, between two edges, or along predecessors
    negate_solution,     \* solve_SDCNeg
    distances,
    predecessor,
    predecessor_weight,
    path_edge_count,
    queue,               \* CircularQueue
    in_queue,
    source,              \* the vertex taken from the queue ...
    source_distance,     \* ... its distance then
    edges_left,          \* ... and the targets of its edges not scanned yet
    target,              \* the target of the edge to relax
    vertex,              \* closes_negative_predecessor_cycle: vertex,
    cycle_weight,        \* cycle_weight
    seen,                \* and the marked vertices
    solves,              \* number of calls
    visited              \* history: the vertices of the path to each vertex

caller == <<constraints, outcome, vals, solves>>
labels == <<distances, predecessor, predecessor_weight, path_edge_count, visited>>
fifo == <<queue, in_queue>>
scan == <<source, source_distance, edges_left>>
walk == <<target, vertex, cycle_weight, seen>>
vars == <<caller, pc, negate_solution, labels, fifo, scan, walk>>

-----------------------------------------------------------------------------
(* The graph of the constraints                                            *)

Active == {e[1] : e \in DOMAIN constraints} \cup {e[2] : e \in DOMAIN constraints}

active_vertex_count == Cardinality(Active)

\* build_direct_graph and build_compact_graph drop the loops.
Targets(i) == {j \in Ids : j # i /\ <<i, j>> \in DOMAIN constraints}

Weight(i, j) == constraints[<<i, j>>]

NegativeLoop == \E e \in DOMAIN constraints : e[1] = e[2] /\ constraints[e] < 0

HasNegativeOutgoingEdge == {i \in Ids : \E j \in Targets(i) : Weight(i, j) < 0}

\* The elements of S in ascending order.
Ascending(S) ==
    {q \in [1 .. Cardinality(S) -> S] :
        Range(q) = S /\ \A k, l \in DOMAIN q : k < l => q[k] < q[l]}

\* The long long d fits an int.
Fits(d) == d \in -Half .. Half - 1

\* Faulty variant: the value does not wrap around.
CastNone(d) == d

\* static_cast<int> of a long long.
Cast(d) == ((d + Half) % (2 * Half)) - Half

-----------------------------------------------------------------------------
Init ==
    /\ constraints = << >>
    /\ outcome = "none"
    /\ vals = << >>
    /\ solves = 0
    /\ negate_solution = FALSE
    /\ pc = "idle"
    /\ distances = [v \in Ids |-> 0]
    /\ predecessor = [v \in Ids |-> None]
    /\ predecessor_weight = [v \in Ids |-> 0]
    /\ path_edge_count = [v \in Ids |-> 0]
    /\ visited = [v \in Ids |-> {v}]
    /\ queue = << >>
    /\ in_queue = {}
    /\ source = None
    /\ source_distance = 0
    /\ edges_left = {}
    /\ target = None
    /\ vertex = None
    /\ cycle_weight = 0
    /\ seen = {}

\* Faulty variant: the last weight of a pair wins.
AddConstraintOverwrite(i, j, w) ==
    /\ pc = "idle"
    /\ Cardinality(DOMAIN constraints \cup {<<i, j>>}) <= MaxConstraints
    /\ constraints' = [e \in DOMAIN constraints \cup {<<i, j>>} |->
                          IF e = <<i, j>> THEN w ELSE constraints[e]]
    /\ outcome' = "none"
    /\ UNCHANGED <<vals, solves, pc, negate_solution, labels, fifo, scan, walk>>

\* add_constraint keeps the smallest weight of each pair.
AddConstraint(i, j, w) ==
    /\ pc = "idle"
    /\ Cardinality(DOMAIN constraints \cup {<<i, j>>}) <= MaxConstraints
    /\ constraints' = [e \in DOMAIN constraints \cup {<<i, j>>} |->
                          IF e = <<i, j>> /\ (e \in DOMAIN constraints => w < constraints[e])
                          THEN w ELSE constraints[e]]
    /\ outcome' = "none"
    /\ UNCHANGED <<vals, solves, pc, negate_solution, labels, fifo, scan, walk>>

\* build_solver_graph finds a variable that should be less than itself.
SolveNegativeLoop ==
    /\ pc = "idle"
    /\ solves < MaxSolves
    /\ NegativeLoop
    /\ outcome' = "infeasible"
    /\ solves' = solves + 1
    /\ UNCHANGED <<constraints, vals, pc, negate_solution, labels, fifo, scan, walk>>

\* solve_SDC or solve_SDCNeg builds the graph and the initial queue.
Solve(negate) ==
    /\ pc = "idle"
    /\ solves < MaxSolves
    /\ ~NegativeLoop
    /\ pc' = "scan"
    /\ negate_solution' = negate
    /\ solves' = solves + 1
    /\ in_queue' = HasNegativeOutgoingEdge
    /\ queue' \in Ascending(HasNegativeOutgoingEdge)
    /\ UNCHANGED <<constraints, outcome, vals, labels, scan, walk>>

\* Faulty variant: the vertex stays in the queue.
PopFrontKept ==
    /\ pc = "scan"
    /\ edges_left = {}
    /\ queue # << >>
    /\ source' = Head(queue)
    /\ source_distance' = distances[Head(queue)]
    /\ edges_left' = Targets(Head(queue))
    /\ UNCHANGED <<caller, pc, negate_solution, labels, fifo, walk>>

\* The next vertex of the queue, once the edges of the last one are scanned.
PopFront ==
    /\ pc = "scan"
    /\ edges_left = {}
    /\ queue # << >>
    /\ source' = Head(queue)
    /\ queue' = Tail(queue)
    /\ in_queue' = in_queue \ {Head(queue)}
    /\ source_distance' = distances[Head(queue)]
    /\ edges_left' = Targets(Head(queue))
    /\ UNCHANGED <<caller, pc, negate_solution, labels, walk>>

\* The edge to scan next: the constraints are sorted by target.
IsNext(t) == t \in edges_left /\ \A u \in edges_left : t <= u

Improves(t) == source_distance + Weight(source, t) < distances[t]

\* The edge of the constraint is satisfied.
SkipEdge(t) ==
    /\ pc = "scan"
    /\ IsNext(t)
    /\ ~Improves(t)
    /\ edges_left' = edges_left \ {t}
    /\ UNCHANGED <<caller, pc, negate_solution, labels, fifo, source, source_distance, walk>>

\* The call returns: its local variables are gone.
Return ==
    /\ pc' = "idle"
    /\ distances' = [v \in Ids |-> 0]
    /\ predecessor' = [v \in Ids |-> None]
    /\ predecessor_weight' = [v \in Ids |-> 0]
    /\ path_edge_count' = [v \in Ids |-> 0]
    /\ visited' = [v \in Ids |-> {v}]
    /\ queue' = << >>
    /\ in_queue' = {}
    /\ source' = None
    /\ source_distance' = 0
    /\ edges_left' = {}
    /\ target' = None
    /\ vertex' = None
    /\ cycle_weight' = 0
    /\ seen' = {}
    /\ UNCHANGED <<constraints, solves, negate_solution>>

\* It returns false and leaves the caller's map alone.
ReturnInfeasible ==
    /\ outcome' = "infeasible"
    /\ Return
    /\ UNCHANGED vals

\* Faulty variant: off by one.
TooLongEarly == path_edge_count[source] + 2 >= active_vertex_count

\* The path through the edge has too many edges.
TooLong == path_edge_count[source] + 1 >= active_vertex_count

PathTooLong(t) ==
    /\ pc = "scan"
    /\ IsNext(t)
    /\ Improves(t)
    /\ TooLong
    /\ ReturnInfeasible

\* closes_negative_predecessor_cycle is called for the edge.
StartWalk(t) ==
    /\ pc = "scan"
    /\ IsNext(t)
    /\ Improves(t)
    /\ ~TooLong
    /\ pc' = "walk"
    /\ target' = t
    /\ vertex' = source
    /\ cycle_weight' = Weight(source, t)
    /\ seen' = {}
    /\ UNCHANGED <<caller, negate_solution, labels, fifo, scan>>

Closes == vertex = target /\ cycle_weight < 0
Continues == vertex # target /\ vertex \notin seen /\ predecessor[vertex] # None

\* One iteration of its loop.
Ascend ==
    /\ pc = "walk"
    /\ Continues
    /\ seen' = seen \cup {vertex}
    /\ cycle_weight' = cycle_weight + predecessor_weight[vertex]
    /\ vertex' = predecessor[vertex]
    /\ UNCHANGED <<caller, pc, negate_solution, labels, fifo, scan, target>>

CloseCycle ==
    /\ pc = "walk"
    /\ Closes
    /\ ReturnInfeasible

\* A label smaller than the one at the front goes first.
PushedFirst(d, v) == queue # << >> /\ d[v] < d[Head(queue)]

\* Faulty variants of Push: a vertex may be in the queue twice, and a vertex
\* whose distance changed is not scanned again.
PushTwice(d, v) ==
    /\ in_queue' = in_queue \cup {v}
    /\ queue' = IF PushedFirst(d, v) THEN <<v>> \o queue ELSE Append(queue, v)
PushOnce(d, v) ==
    /\ in_queue' = in_queue
    /\ queue' = queue

Push(d, v) ==
    /\ in_queue' = in_queue \cup {v}
    /\ queue' = IF v \in in_queue THEN queue
                ELSE IF PushedFirst(d, v) THEN <<v>> \o queue
                ELSE Append(queue, v)

\* The walk found no cycle: the edge is relaxed.
Relax ==
    /\ pc = "walk"
    /\ ~Continues
    /\ ~Closes
    /\ pc' = "scan"
    /\ distances' = [distances EXCEPT ![target] = source_distance + Weight(source, target)]
    /\ predecessor' = [predecessor EXCEPT ![target] = source]
    /\ predecessor_weight' = [predecessor_weight EXCEPT ![target] = Weight(source, target)]
    /\ path_edge_count' = [path_edge_count EXCEPT ![target] = path_edge_count[source] + 1]
    /\ visited' = [visited EXCEPT ![target] = visited[source] \cup {target}]
    /\ Push(distances', target)
    /\ edges_left' = edges_left \ {target}
    /\ UNCHANGED <<caller, negate_solution, source, source_distance, walk>>

\* The variables from 0 to the largest active one; the others are absent.
Returned == {v \in Ids : \E a \in Active : v <= a}

Signed(d) == IF negate_solution THEN -d ELSE d

\* The queue is empty: the distances are the solution.  The call returns true
\* also when a value does not fit; the model tells the two apart.
ReturnFeasible ==
    /\ pc = "scan"
    /\ edges_left = {}
    /\ queue = << >>
    /\ outcome' = IF \A v \in Active : Fits(Signed(distances[v])) THEN "feasible" ELSE "overflow"
    /\ vals' = [v \in Returned |-> IF v \in Active THEN Cast(Signed(distances[v])) ELSE 0]
    /\ Return

Step ==
    \/ PopFront
    \/ \E t \in Ids : SkipEdge(t) \/ PathTooLong(t) \/ StartWalk(t)
    \/ Ascend
    \/ CloseCycle
    \/ Relax
    \/ ReturnFeasible

Next ==
    \/ \E e \in Pairs, w \in Weights : AddConstraint(e[1], e[2], w)
    \/ SolveNegativeLoop
    \/ \E negate \in BOOLEAN : Solve(negate)
    \/ Step

\* The solver is sequential and does not block; the caller need not call it.
Spec == Init /\ [][Next]_vars /\ WF_vars(Step)
-----------------------------------------------------------------------------
(* Properties                                                              *)

Promise == INSTANCE DifferenceConstraints

CallerType ==
    /\ DOMAIN constraints \subseteq Ids \X Ids
    /\ constraints \in [DOMAIN constraints -> Int]
    /\ outcome \in {"none", "feasible", "infeasible", "overflow"}
    /\ DOMAIN vals \subseteq Ids
    /\ vals \in [DOMAIN vals -> -Half .. Half - 1]
    /\ solves \in Nat
    /\ pc \in {"idle", "scan", "walk"}
    /\ negate_solution \in BOOLEAN

LabelsType ==
    /\ distances \in [Ids -> Int]
    /\ predecessor \in [Ids -> Ids \cup {None}]
    /\ predecessor_weight \in [Ids -> Int]
    /\ path_edge_count \in [Ids -> Nat]
    /\ visited \in [Ids -> SUBSET Ids]

QueueType ==
    /\ queue \in Seq(Ids)
    /\ in_queue \subseteq Ids

ScanType ==
    /\ source \in Ids \cup {None}
    /\ source_distance \in Int
    /\ edges_left \subseteq Ids

WalkType ==
    /\ target \in Ids \cup {None}
    /\ vertex \in Ids \cup {None}
    /\ cycle_weight \in Int
    /\ seen \subseteq Ids

\* Every variable has its type; in particular what a call returns are ints.
TypeOK == CallerType /\ LabelsType /\ QueueType /\ ScanType /\ WalkType

\* The circular queue never holds more vertices than it has room for: it would
\* overwrite its oldest entries without notice.
QueueFits == Len(queue) <= active_vertex_count

\* When the solver reports a solution, the values it returns satisfy every
\* constraint and are the greatest non-positive ones (for solve_SDCNeg: the
\* earliest schedule), for all the shortcuts of the search: vertices that do
\* not enter the queue, distances that change while a vertex waits in it.
AnswerIsGreatest ==
    pc = "idle" /\ outcome = "feasible" =>
        /\ Active \subseteq DOMAIN vals
        /\ Promise!IsGreatest(Promise!Reading(vals, negate_solution), constraints)

\* When it reports that there is none, there is none: neither the limit on the
\* number of edges of a path nor the search for a cycle along predecessors,
\* which may be stale, gives a false alarm.
InfeasibleIsUnsolvable ==
    outcome = "infeasible" => Promise!Unsolvable(constraints)

\* A call returns.
Termination == pc # "idle" ~> pc = "idle"

\* The search implements the one step answer of DifferenceConstraints, however
\* constraints and calls alternate (the scheduler adds constraints and solves
\* again until nothing conflicts).
Implements == Promise!AbstractSpec
-----------------------------------------------------------------------------
(* The inductive invariant behind AnswerIsGreatest, InfeasibleIsUnsolvable *)
(* and Implements.                                                         *)

Solutions == {y \in [Ids -> Values] : Promise!IsSolution(y, constraints)}

\* Between two calls there is nothing of the last one.
IdleOK ==
    pc = "idle" =>
        /\ distances = [v \in Ids |-> 0]
        /\ predecessor = [v \in Ids |-> None]
        /\ path_edge_count = [v \in Ids |-> 0]
        /\ visited = [v \in Ids |-> {v}]
        /\ queue = << >>
        /\ in_queue = {}
        /\ edges_left = {}

\* in_queue says what is in the queue, once.
QueueOK ==
    /\ in_queue = Range(queue)
    /\ \A k, l \in DOMAIN queue : queue[k] = queue[l] => k = l
    /\ in_queue \subseteq Active

\* The edges left are edges of the source, whose distance is still the one
\* that was read; the edge of the walk improves its target.
ScanOK ==
    /\ edges_left # {} =>
          /\ source \in Ids
          /\ source_distance = distances[source]
          /\ edges_left \subseteq Targets(source)
    /\ pc = "walk" => target \in edges_left /\ Improves(target)

\* A violated edge is still to be scanned.
Relaxed ==
    pc # "idle" =>
        \A i \in Ids : \A j \in Targets(i) :
            \/ distances[j] <= distances[i] + Weight(i, j)
            \/ i \in in_queue
            \/ i = source /\ j \in edges_left

\* There is no negative loop, and variables without constraints stay at 0.
GraphOK ==
    /\ pc # "idle" => ~NegativeLoop
    /\ \A v \in Ids \ Active : distances[v] = 0

\* No distance is below a solution without positive values.
AboveSolutions ==
    \A y \in Solutions : (\A v \in Ids : y[v] <= 0) => \A v \in Ids : y[v] <= distances[v]

\* Distances start at 0 and are only lowered.
Lowered == \A v \in Ids : distances[v] <= 0

PredecessorsOK ==
    \A v \in Ids : predecessor[v] # None =>
        v \in Targets(predecessor[v]) /\ predecessor_weight[v] = Weight(predecessor[v], v)

\* The weight of the walk bounds how far a solution can put its ends apart.
WalkOK ==
    pc = "walk" =>
        /\ vertex \in Ids
        /\ \A y \in Solutions : y[source] - y[vertex] <= cycle_weight - Weight(source, target)

\* So does the distance between a vertex and the vertices of its path; if
\* there is a solution, no vertex is on the path twice.
PathsOK ==
    \A v \in Ids :
        /\ visited[v] \subseteq Active \cup {v}
        /\ v \in visited[v]
        /\ \A y \in Solutions : \A t \in visited[v] : y[v] - y[t] <= distances[v] - distances[t]
        /\ Solutions # {} => Cardinality(visited[v]) = path_edge_count[v] + 1

SearchOK ==
    /\ QueueOK
    /\ ScanOK
    /\ Relaxed
    /\ GraphOK
    /\ AboveSolutions
    /\ PredecessorsOK
    /\ WalkOK
    /\ PathsOK

Inductive ==
    /\ TypeOK
    /\ IdleOK
    /\ SearchOK
    /\ AnswerIsGreatest
    /\ InfeasibleIsUnsolvable
=============================================================================
