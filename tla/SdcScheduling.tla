---------------------------- MODULE SdcScheduling ----------------------------
(***************************************************************************)
(* The SDC scheduler: src/src/HLS/scheduling/sdc_scheduling2.cpp, on top   *)
(* of the solver of SdcSolver, which it uses through add_constraint and    *)
(* solve_SDCNeg.                                                           *)
(*                                                                         *)
(* Every loop of a function is scheduled on its own: constraints for the   *)
(* dependences and for the delays of chained operations, constraints that  *)
(* keep the operations of a unit apart on every path (from a window of the *)
(* last operations on that unit), then the solver is called again and      *)
(* again, with new constraints for the pairs of operations it put in one   *)
(* step and that must not be there.  Operations that end no later than an  *)
(* operation of a block above are moved there.                             *)
(*                                                                         *)
(* Abstracted: an operation is its position in rel_position_map (blocks by *)
(* level, then SDCSorter, which is the order of the statements); delays    *)
(* are integers, and those of connections and of the controller are 0.     *)
(* Every operation has a constraint, so vals.at finds it.  The entry of    *)
(* the function is left out: it starts in step 0, and the constraints from *)
(* it to the operations that depend on it have weight 0.                   *)
(***************************************************************************)
EXTENDS Integers, Sequences, FiniteSets, FiniteSetsExt

CONSTANTS
    Sizes,     \* the numbers of operations a loop can have
    Loops(_),  \* the loops with that many operations
    Units,     \* functional units in limited number
    Clock,     \* the clock period
    Setup,     \* setup and hold time
    MaxOperations  \* bound: operations of the function

(***************************************************************************)
(* A loop has operations 1 .. n; block[i] is the place of i's basic block  *)
(* in the order of the levels, edges are those of the control flow and     *)
(* dominator those of the dominator tree (0: not in the loop).             *)
(* deps gives the dependences from i to j a kind: "data" (DFG), "order"    *)
(* (another one that is not of control) or "control".  op[i] says of i:    *)
(* unit, cycles, ii (0: not pipelined), time (of a stage if pipelined) and *)
(* the set of its flags.  number[u] is the number of units of type u, and  *)
(* options are the switches against chaining that the tool is run with.    *)
(* An operation alone meets the clock in the cycles that the technology    *)
(* library gives it.                                                       *)
(***************************************************************************)
Flags == {"nop", "load", "store", "distributed", "unbounded", "rw", "indirect", "branch", "fixed",
          "pinned"}
Options == {"bus-no-chain", "load-store-no-chain"}
NoUnit == "none"
Operations(l) == 1 .. l.n

WellFormed(l) ==
    /\ l.n \in Nat \ {0}
    /\ l.block \in [Operations(l) -> Nat \ {0}]
    /\ \A i, j \in Operations(l) : i <= j => l.block[i] <= l.block[j]
    /\ \A b \in {l.block[i] : i \in Operations(l)} :
          l.dominator[b] \in {0} \cup {l.block[i] : i \in Operations(l)} /\ l.dominator[b] < b
    /\ l.edges \subseteq {e \in Nat \X Nat : e[1] < e[2]}
    /\ DOMAIN l.deps \subseteq {e \in Operations(l) \X Operations(l) : e[1] < e[2]}
    /\ \A e \in DOMAIN l.deps : l.deps[e] \in {"data", "order", "control"}
    /\ l.op \in [Operations(l) -> [unit : Units \cup {NoUnit}, cycles : Nat \ {0},
                                         ii : Nat, time : Nat, flags : SUBSET Flags]]
    /\ \A i \in Operations(l) :
          l.op[i].flags \cap {"load", "store", "unbounded", "indirect", "distributed"} # {} =>
             "pinned" \in l.op[i].flags
    /\ \A i \in Operations(l) :
          l.op[i].time + Setup <= Clock * (IF l.op[i].ii > 0 THEN 1 ELSE l.op[i].cycles)
    /\ l.number \in [Units -> Nat \ {0}]
    /\ l.options \subseteq Options

ASSUME SchedulingAssumption ==
    /\ NoUnit \notin Units
    /\ Clock \in Nat \ {0} /\ Setup \in Nat
    /\ MaxOperations \in Nat /\ Sizes \subseteq Nat
    /\ \A n \in Sizes : \A l \in Loops(n) : l.n = n /\ WellFormed(l)

VARIABLES
    loop,               \* the loop that is being scheduled
    phase,              \* where sdc_schedule is
    next,               \* the operation whose constraints are added next
    constraints,        \* of the solver: pair of operations -> weight
    sequences,          \* constrained_operations_sequences: block -> unit -> windows
    restarts,           \* number of times the solver was called again
    label, round,       \* of the solver: the steps so far, and the number of rounds
    vals,               \* the start step of every operation, once solved
    destination,        \* movements_list: the block each operation ends up in
    initial_ctrl_step,
    last_step,          \* the last step in which an operation of the function executes
    csteps,             \* Schedule::tot_csteps
    scheduled           \* number of operations scheduled

vars == <<loop, phase, next, constraints, sequences, restarts, label, round, vals,
          destination, initial_ctrl_step, last_step, csteps, scheduled>>
solver == <<restarts, label, round>>
function == <<destination, initial_ctrl_step, last_step, csteps, scheduled>>

Ops == Operations(loop)
Blocks == {loop.block[i] : i \in Ops}
Has(i, flag) == flag \in loop.op[i].flags

\* add_constraint for each pair of the function new: the tightest weight is kept.
Tightened(c, new) ==
    [e \in DOMAIN c \cup DOMAIN new |->
        IF e \in DOMAIN c /\ (e \in DOMAIN new => c[e] <= new[e]) THEN c[e] ELSE new[e]]

Init ==
    /\ \E n \in Sizes : n <= MaxOperations /\ loop \in Loops(n)
    /\ phase = "dependences"
    /\ next = 1
    /\ constraints = << >>
    /\ sequences = << >>
    /\ restarts = 0 /\ label = << >> /\ round = 0
    /\ vals = << >>
    /\ destination = << >>
    /\ initial_ctrl_step = 0
    /\ last_step = 0
    /\ csteps = 0
    /\ scheduled = 0

-----------------------------------------------------------------------------
(* Constraints of the dependences and of the delays. *)

\* AllocationInformation::CanBeChained.  Only a load is "distributed".
CanBeChained(i, j) ==
    \/ Has(i, "nop") \/ Has(j, "nop")
    \/ /\ ~Has(i, "store") /\ ~Has(i, "unbounded")
       /\ ~(Has(j, "distributed") /\ loop.op[i].time > 0)
       /\ "bus-no-chain" \in loop.options => ~Has(i, "indirect") /\ ~Has(j, "indirect")
       /\ "load-store-no-chain" \in loop.options =>
             \A k \in {i, j} : ~Has(k, "load") /\ ~Has(k, "store")

\* Control dependences that the target may be moved across give no constraint.
Constrained(e) ==
    loop.deps[e] = "control" /\ CanBeChained(e[1], e[2]) => Has(e[2], "fixed")

DependenceWeight(e) ==
    IF CanBeChained(e[1], e[2]) /\ loop.deps[e] # "control" THEN 0 ELSE -1

Dependences == [e \in {d \in DOMAIN loop.deps : Constrained(d)} |-> DependenceWeight(e)]

AddDependences ==
    /\ phase = "dependences"
    /\ constraints' = Tightened(constraints, Dependences)
    /\ phase' = "timing"
    /\ UNCHANGED <<loop, next, sequences, solver, vals, function>>

\* The delay from the start of i to the start of an operation chained to it.
EdgeDelay(i) ==
    loop.op[i].time + (IF loop.op[i].ii > 0 THEN (loop.op[i].cycles - 1) * Clock ELSE 0)

ChainedTo(i) ==
    {h \in 1 .. i - 1 : <<h, i>> \in DOMAIN loop.deps /\ loop.deps[<<h, i>>] = "data" /\ CanBeChained(h, i)}

\* DAG_SSSP::exec: the delay of the longest chain from the operation i to each operation, -1
\* if there is none.
Prolonged(delay, i) == IF delay < 0 THEN -1 ELSE delay + EdgeDelay(i)
Delays(i) ==
    LET delay[j \in Ops] ==
            IF j = i THEN 0 ELSE Max({-1} \cup {Prolonged(delay[h], h) : h \in ChainedTo(j)})
    IN  delay

\* Faulty variant of StepsFor: the last step is not started.
StepsTruncated(delay) == Max({0, delay \div Clock - 1})

\* ceil(delay / clock_period) - 1
StepsFor(delay) == (delay + Clock - 1) \div Clock - 1

Timed(i) == {j \in Ops : i < j /\ Delays(i)[j] > 0}

LocalDelay(i, j) == Delays(i)[j] + loop.op[j].time + Setup

TimingWeights == [e \in {<<next, j>> : j \in Timed(next)} |-> -StepsFor(LocalDelay(e[1], e[2]))]

LastStatement(i) == Max({j \in Ops : loop.block[j] = loop.block[i]})

\* The branch at the end of the block waits for the longest chain that starts in next.
BranchWeights ==
    LET last == {j \in {LastStatement(next)} : next < j /\ Has(j, "branch")} IN
    [e \in {<<next, j>> : j \in last} |-> -Max({0} \cup {StepsFor(LocalDelay(next, j)) : j \in Timed(next)})]

AddTiming ==
    /\ phase = "timing" /\ next \in Ops
    /\ constraints' = Tightened(Tightened(constraints, TimingWeights), BranchWeights)
    /\ next' = next + 1
    /\ UNCHANGED <<loop, phase, sequences, solver, vals, function>>

AllTimed ==
    /\ phase = "timing" /\ next \notin Ops
    /\ sequences' = [b \in Blocks |-> [u \in Units |-> {}]]
    /\ next' = 1
    /\ phase' = "resources"
    /\ UNCHANGED <<loop, constraints, solver, vals, function>>

-----------------------------------------------------------------------------
(* Constraints of the units, along the blocks in the order of their levels. *)

\* Faulty variant of Windows: only one predecessor counts.
WindowsFirstOnly(u) ==
    LET b == loop.block[next] IN
    IF \E i \in Ops : i < next /\ loop.block[i] = b THEN sequences[b][u]
    ELSE LET before == {c \in Blocks : <<c, b>> \in loop.edges} IN
         IF before = {} THEN {} ELSE sequences[Max(before)][u]
\* The windows that reach the operation next: those of all predecessors if it is the first
\* of its block.
Windows(u) ==
    LET b == loop.block[next] IN
    IF \E i \in Ops : i < next /\ loop.block[i] = b THEN sequences[b][u]
    ELSE UNION {sequences[c][u] : c \in {d \in Blocks : <<d, b>> \in loop.edges}}

\* How long the operation i keeps its unit.
Occupation(i) == IF loop.op[i].ii > 0 THEN loop.op[i].ii ELSE loop.op[i].cycles

Limit(u) == loop.number[u]
Full(u) == {w \in Windows(u) : Len(w) >= Limit(u)}

\* push_back, and pop_front if the window is longer than the number of units.
Slide(w, u) == IF Len(w) >= Limit(u) THEN Append(Tail(w), next) ELSE Append(w, next)

Slid(u) == IF Windows(u) = {} THEN {<<next>>} ELSE {Slide(w, u) : w \in Windows(u)}

\* From the front of each full window to the operation.
ResourceWeights(u) == [e \in {<<Head(w), next>> : w \in Full(u)} |-> -Occupation(e[1])]

Place ==
    /\ phase = "resources" /\ next \in Ops
    /\ LET own == loop.op[next].unit IN
       /\ sequences' = [sequences EXCEPT ![loop.block[next]] =
                           [u \in Units |-> IF u = own THEN Slid(u) ELSE Windows(u)]]
       /\ constraints' = IF own = NoUnit THEN constraints
                         ELSE Tightened(constraints, ResourceWeights(own))
    /\ next' = next + 1
    /\ UNCHANGED <<loop, phase, solver, vals, function>>

AllPlaced ==
    /\ phase = "resources" /\ next \notin Ops
    /\ phase' = "solve"
    /\ UNCHANGED <<loop, next, constraints, sequences, solver, vals, function>>

-----------------------------------------------------------------------------
(* solve_SDCNeg: the earliest steps, computed in rounds; see SdcSolver for how. *)

\* The steps x, each moved to where the constraints from other operations put it.
Relaxed(x) ==
    [j \in Ops |-> Max({x[j]} \cup {x[e[1]] - constraints[e] : e \in {d \in DOMAIN constraints : d[2] = j}})]

SolveSDC ==
    /\ phase = "solve"
    /\ label' = [j \in Ops |-> 0]
    /\ round' = 0
    /\ phase' = "relax"
    /\ UNCHANGED <<loop, next, constraints, sequences, restarts, vals, function>>

Relax ==
    /\ phase = "relax" /\ Relaxed(label) # label /\ round < loop.n
    /\ label' = Relaxed(label)
    /\ round' = round + 1
    /\ UNCHANGED <<loop, phase, next, constraints, sequences, restarts, vals, function>>

\* "Error in finding SDC solution" if there still is a path with more edges.
Solved ==
    /\ phase = "relax" /\ (Relaxed(label) = label \/ round = loop.n)
    /\ vals' = label
    /\ phase' = IF Relaxed(label) = label THEN "refine" ELSE "error"
    /\ UNCHANGED <<loop, next, constraints, sequences, solver, function>>

-----------------------------------------------------------------------------
(* The refinement: pairs of operations that must not start in the same step. *)

\* Two operations on the outside, one of them and an access through the bus, an unbounded
\* operation and one of several cycles.
Incompatible(i, j) ==
    \/ Has(i, "rw") /\ (Has(j, "rw") \/ Has(j, "indirect"))
    \/ Has(i, "unbounded") /\ loop.op[j].cycles > 1

Exclusive ==
    {e \in Ops \X Ops : e[1] < e[2] /\ (Incompatible(e[1], e[2]) \/ Incompatible(e[2], e[1]))}

Conflicts == {e \in Exclusive : vals[e[1]] = vals[e[2]]}

\* Faulty variants of Separation: one that separates nothing, one in the other direction.
SeparationWeak == [e \in Conflicts |-> 0]
SeparationBackward == [e \in {<<c[2], c[1]>> : c \in Conflicts} |-> -1]
\* The operation with the lower position goes first.
Separation == [e \in Conflicts |-> -1]

\* The pairs are separated by constraints that are kept, and the solver is called again.
Refine ==
    /\ phase = "refine" /\ Conflicts # {}
    /\ constraints' = Tightened(constraints, Separation)
    /\ restarts' = restarts + 1
    /\ phase' = "solve"
    /\ UNCHANGED <<loop, next, sequences, label, round, vals, function>>

-----------------------------------------------------------------------------
(* InternalExec: the steps of the loop become steps of the function. *)

LastRelativeStep == Max({vals[i] + loop.op[i].cycles : i \in Ops})
LastStep(i) == vals[i] + loop.op[i].cycles - 1

\* Faulty variant of Barrier: the barriers of the operations it depends on are forgotten.
BarrierOwn ==
    [i \in Ops |-> IF Has(i, "pinned") /\ ~Has(i, "branch") THEN {loop.block[i]} ELSE {}]

\* The blocks an operation must not be moved above: its own if it is pinned, otherwise those
\* of the operations it depends on.
Barrier ==
    LET barrier[i \in Ops] ==
            CASE Has(i, "branch") -> {}
              [] ~Has(i, "branch") /\ Has(i, "pinned") -> {loop.block[i]}
              [] OTHER -> UNION {barrier[h] : h \in {k \in 1 .. i - 1 : <<k, i>> \in DOMAIN loop.deps}}
    IN  barrier

Overlaps(i, b) == \E j \in Ops : loop.block[j] = b /\ LastStep(j) >= LastStep(i)

\* From dominator to dominator, as long as they have an operation that ends no earlier.
Destination(i) ==
    LET climb[b \in Blocks] ==
            IF b \in Barrier[i] \/ loop.dominator[b] = 0 THEN b
            ELSE IF ~Overlaps(i, loop.dominator[b]) THEN b ELSE climb[loop.dominator[b]]
    IN  IF Has(i, "branch") THEN loop.block[i] ELSE climb[loop.block[i]]

Accept ==
    /\ phase = "refine" /\ Conflicts = {}
    /\ last_step' = Max({last_step, initial_ctrl_step + LastRelativeStep - 1})
    /\ initial_ctrl_step' = LastRelativeStep + 1
    /\ destination' = [i \in Ops |-> Destination(i)]
    /\ scheduled' = scheduled + loop.n
    /\ phase' = "accepted"
    /\ UNCHANGED <<loop, next, constraints, sequences, solver, vals, csteps>>

NextLoop ==
    /\ phase = "accepted"
    /\ \E n \in Sizes : scheduled + n <= MaxOperations /\ loop' \in Loops(n)
    /\ loop'.options = loop.options
    /\ phase' = "dependences"
    /\ next' = 1 /\ constraints' = << >> /\ sequences' = << >> /\ vals' = << >>
    /\ restarts' = 0 /\ label' = << >> /\ round' = 0
    /\ UNCHANGED function

SetCsteps ==
    /\ phase = "accepted"
    /\ csteps' = initial_ctrl_step
    /\ phase' = "done"
    /\ UNCHANGED <<loop, next, constraints, sequences, solver, vals, destination, initial_ctrl_step,
                   last_step, scheduled>>

Next ==
    \/ AddDependences \/ AddTiming \/ AllTimed \/ Place \/ AllPlaced
    \/ SolveSDC \/ Relax \/ Solved \/ Refine \/ Accept \/ NextLoop \/ SetCsteps

Spec == Init /\ [][Next]_vars

-----------------------------------------------------------------------------
TypeOK ==
    /\ WellFormed(loop)
    /\ phase \in {"dependences", "timing", "resources", "solve", "relax", "refine", "accepted", "done", "error"}
    /\ next \in 1 .. loop.n + 1
    /\ DOMAIN constraints \subseteq Ops \X Ops
    /\ \A e \in DOMAIN constraints : constraints[e] \in Int /\ constraints[e] <= 0
    /\ restarts \in Nat /\ round \in 0 .. loop.n /\ (phase = "relax" => label \in [Ops -> Nat])
    /\ phase \in {"refine", "accepted", "done"} => vals \in [Ops -> Nat]
    /\ initial_ctrl_step \in Nat /\ last_step \in Nat /\ csteps \in Nat /\ scheduled \in Nat

\* Whichever phase adds it, and however often the solver was called before, a constraint
\* leads from an operation to one that comes later in rel_position_map.
ForwardOnly == \A e \in DOMAIN constraints : e[1] < e[2]

\* The dependences, the windows and the separations never contradict each other: the error
\* "Error in finding SDC solution" is not reached.
NeverFails == phase # "error"

Accepted == phase \in {"accepted", "done"}

\* The sets of blocks that some execution of the loop body goes through.
Paths ==
    {P \in SUBSET Blocks : \A b, c \in P :
        b < c /\ ~(\E d \in P : b < d /\ d < c) => <<b, c>> \in loop.edges}

Holds(i, step) == vals[i] <= step /\ step < vals[i] + Occupation(i)

\* In no step of any path are there more operations on a unit than there are units of it,
\* although the windows only ever compare an operation with the front of the window.
EnoughUnits ==
    Accepted => \A P \in Paths, u \in Units : \A i \in Ops :
        Cardinality({j \in Ops : loop.block[j] \in P /\ loop.op[j].unit = u /\ Holds(j, vals[i])})
            <= loop.number[u]

\* When the value of an operation starts to be computed, in units of time: its step, or the
\* end of the operations it is chained to.
Arrival ==
    LET arrival[j \in Ops] ==
            Max({vals[j] * Clock} \cup {arrival[h] + EdgeDelay(h) : h \in ChainedTo(j)})
    IN  arrival

Deadline(i) == (vals[i] + (IF loop.op[i].ii > 0 THEN 1 ELSE loop.op[i].cycles)) * Clock

\* Every chain of operations meets the clock: each operation, started when the operations
\* chained before it are done, is done within its own steps.
ChainsFit == Accepted => \A i \in Ops : Arrival[i] + loop.op[i].time + Setup <= Deadline(i)

\* The blocks that every execution has gone through when it is in the block b.
Dominators ==
    LET dominators[b \in Blocks] ==
            {b} \cup (IF loop.dominator[b] = 0 THEN {} ELSE dominators[loop.dominator[b]])
    IN  dominators

\* Moving operations up keeps every value available: if, where a value is used, the block that
\* computes it has been executed, then that is still so wherever both were moved.
SourcesFirst ==
    Accepted => \A e \in DOMAIN loop.deps :
        loop.deps[e] = "data" /\ loop.block[e[1]] \in Dominators[loop.block[e[2]]] =>
            destination[e[1]] \in Dominators[destination[e[2]]]

\* The restarts come to an end: there are no more of them than pairs of operations that must
\* not share a step, whatever the constraints already there do to the steps.
RestartsBounded == restarts <= Cardinality(Exclusive)

-----------------------------------------------------------------------------
(* What the proofs of SdcScheduling_proofs show to hold in every state. *)

\* The windows hold operations before the next one.
WindowsBelow ==
    phase = "resources" =>
        /\ DOMAIN sequences = Blocks
        /\ \A b \in Blocks : DOMAIN sequences[b] = Units
        /\ \A b \in Blocks, u \in Units : \A w \in sequences[b][u] : w \in Seq(1 .. next - 1)

\* After k rounds of the solver the first k + 1 operations are where they stay.
SettledUpTo ==
    phase = "relax" => \A j \in Ops : j <= round + 1 => Relaxed(label)[j] = label[j]

\* The steps of the solver respect the constraints it was given.
Satisfied ==
    phase \in {"refine", "accepted", "done"} =>
        \A e \in DOMAIN constraints : vals[e[2]] >= vals[e[1]] - constraints[e]

\* No steps that respect the constraints put an operation before where the solver puts it.
Respected(x) == \A e \in DOMAIN constraints : x[e[2]] >= x[e[1]] - constraints[e]
EarliestOf(y) == \A x \in [Ops -> Nat] : Respected(x) => \A j \in Ops : y[j] <= x[j]
Earliest ==
    /\ phase = "relax" => EarliestOf(label)
    /\ phase \in {"refine", "accepted", "done"} => EarliestOf(vals)

\* Every restart has separated a pair that was not separated before.
Separated == {e \in Exclusive : e \in DOMAIN constraints /\ constraints[e] <= -1}
RestartsCounted == restarts <= Cardinality(Separated)

\* No constraint of a dependence or of a delay is lost or weakened by those added later.
Kept(e, weight) == e \in DOMAIN constraints /\ constraints[e] <= weight
DependencesKept ==
    phase # "dependences" => \A e \in DOMAIN loop.deps : Constrained(e) => Kept(e, DependenceWeight(e))
DelaysKept ==
    /\ phase = "dependences" => next = 1
    /\ phase # "dependences" => \A i \in Ops : (phase = "timing" => i < next) =>
          \A j \in Timed(i) : Kept(<<i, j>>, -StepsFor(LocalDelay(i, j)))

\* The operations on the unit u along the path P, and those between two positions.
OnPath(P, u) == {j \in Ops : loop.block[j] \in P /\ loop.op[j].unit = u}
Between(P, u, i, j) == {k \in OnPath(P, u) : i < k /\ k < j}

\* The window w ends with the last operations of the path that are placed, as many as there
\* are units.
Covers(w, P, u) ==
    \A i \in OnPath(P, u) :
        LET later == Cardinality(Between(P, u, i, next)) IN
        i < next /\ later < Limit(u) => later < Len(w) /\ w[Len(w) - later] = i

\* Merging the windows of the predecessors of a block loses none: every path that ends in a
\* block with placed operations has a window there that covers it.
WindowsCover ==
    phase = "resources" =>
        /\ \A b \in Blocks, u \in Units : \A w \in sequences[b][u] : Len(w) \in 1 .. Limit(u)
        /\ \A P \in Paths, u \in Units : \A b \in P :
              /\ \A c \in P : c <= b
              /\ \E i \in Ops : i < next /\ loop.block[i] = b
              /\ \E i \in OnPath(P, u) : i < next
              => \E w \in sequences[b][u] : Covers(w, P, u)

\* Each operation on a path waits for the one as many places before it as there are units.
UnitsKept ==
    phase \notin {"dependences", "timing"} =>
        \A P \in Paths, u \in Units : \A i, j \in OnPath(P, u) :
            /\ i < j /\ (phase = "resources" => j < next)
            /\ Cardinality(Between(P, u, i, j)) = Limit(u) - 1
            => Kept(<<i, j>>, -Occupation(i))

\* What the code motion needs of a loop.  Nothing is computed from a branch, and an operation
\* of several cycles that may be moved needs them: get_execution_time of AllocationInformation
\* gives one that is not pipelined more than the cycles before the last, and GetTimeLatency
\* asserts a positive stage for one that is.
Regular(l) ==
    /\ \A e \in DOMAIN l.deps : l.deps[e] = "data" => "branch" \notin l.op[e[1]].flags
    /\ \A i \in Operations(l) : l.op[i].cycles > 1 /\ "pinned" \notin l.op[i].flags =>
          /\ l.op[i].time > 0
          /\ l.op[i].ii = 0 => l.op[i].time + Setup > (l.op[i].cycles - 1) * Clock

\* The operations are where the code motion has put them.
Moved == Accepted => destination = [i \in Ops |-> Destination(i)]

Inductive ==
    /\ TypeOK
    /\ ForwardOnly
    /\ NeverFails
    /\ WindowsBelow
    /\ SettledUpTo
    /\ Satisfied
    /\ RestartsCounted
    /\ DependencesKept
    /\ DelaysKept
=============================================================================
