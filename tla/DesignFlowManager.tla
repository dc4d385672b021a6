------------------------- MODULE DesignFlowManager -------------------------
(***************************************************************************)
(* The pass engine of bambu: src/src/design_flows/design_flow_manager.cpp. *)
(*                                                                         *)
(* The manager keeps an acyclic graph of design flow steps.  main() adds   *)
(* the requested steps (AddStep), which pulls in, recursively, the steps   *)
(* they depend on; then Exec() repeatedly extracts a possibly ready step,  *)
(* asks it again for its relationships (they may have changed), executes   *)
(* it when they are all executed, and un-executes (DeExecute) the earlier  *)
(* steps that the executed step invalidates.  When no step is left, the    *)
(* exit step must have been reached.                                       *)
(*                                                                         *)
(* Abstracted: the steps themselves.  Executing a step may change what     *)
(* ComputeRelationships returns (Evolve) and may invalidate some of its    *)
(* ancestors (Invalidates); what the step computes is left out.  The entry *)
(* step is left out as well: it is executed from the start, so an edge     *)
(* from it never decides anything.                                         *)
(***************************************************************************)
EXTENDS Naturals, FiniteSets

CONSTANTS
    Steps,                \* the signatures of the design flow steps
    Exit,                 \* the auxiliary step DESIGN_FLOW_EXIT
    Composed,             \* the steps for which IsComposed() holds
    Before,               \* the acyclic order behind all relationships
    Relations,            \* what ComputeRelationships may return, for all steps
    InitialRelations,     \* the relationships before any step is executed
    Evolve,               \* how executing a step may change the relationships
    Invalidates,          \* step -> the steps it may invalidate
    Requested,            \* the steps main() may add
    ExecResults,          \* what Exec() of a step may return
    NonDeterministicFlow, \* --test-single-non-deterministic-flow
    HaveAsserts,          \* the build evaluates THROW_ASSERT
    MaxInvalidations      \* bound: executions that invalidate something

Nodes == Steps \cup {Exit}

\* Relationships of all steps: the ones that must be executed before a step
\* (dep) and the ones that go first only if they are needed anyway (prec).
RelationType == [dep : [Steps -> SUBSET Steps], prec : [Steps -> SUBSET Steps]]

ASSUME StepsAssumption ==
    /\ Exit \notin Steps
    /\ Composed \subseteq Steps
    /\ Requested \subseteq Steps
    /\ ExecResults \subseteq {"ABORTED", "EMPTY", "SUCCESS", "UNCHANGED"}
    /\ Invalidates \in [Steps -> SUBSET Steps]
    /\ NonDeterministicFlow \in BOOLEAN
    /\ HaveAsserts \in BOOLEAN
    /\ MaxInvalidations \in Nat

ASSUME RelationsAssumption ==
    /\ Relations \subseteq RelationType
    /\ InitialRelations \in Relations
    /\ Evolve \subseteq Relations \X Relations

\* Design flows are acyclic (TopologicalSort under DebugDFM checks it): every
\* nonempty set of steps has a first and a last step, and every relationship
\* a step can have agrees with that order.
ASSUME AcyclicAssumption ==
    /\ \A T \in SUBSET Steps : T # {} =>
          /\ \E x \in T : \A y \in T : <<x, y>> \notin Before
          /\ \E x \in T : \A y \in T : <<y, x>> \notin Before
    /\ \A r \in Relations : \A x \in Steps :
          \A y \in r.dep[x] \cup r.prec[x] : <<y, x>> \in Before

VARIABLES
    status,         \* DesignFlowStepInfo::status of every step
    edges,          \* the edges of design_flow_graph
    ready,          \* possibly_ready: the steps in the priority set ...
    late,           \* ... and whether their key puts them after necessary ones
    rel,            \* what ComputeRelationships returns now
    phase,          \* where main() and Exec() are, or how the flow failed
    invalidations   \* number of executions that invalidated something

vars == <<status, edges, ready, late, rel, phase, invalidations>>

-----------------------------------------------------------------------------
(* Statuses                                                                *)

Done == {"ABORTED", "EMPTY", "SKIPPED", "SUCCESS", "UNCHANGED"}
Pending == {"UNNECESSARY", "UNEXECUTED"}
Status == Done \cup Pending \cup {"NONEXISTENT"}

Phases == {"adding", "executing", "ended", "didnt_end", "assertion", "not_before"}

\* The status map, the graph and possibly_ready of the manager are well formed, and the
\* exit step is never unnecessary or skipped.
TypeOK ==
    /\ status \in [Nodes -> Status]
    /\ status[Exit] \in {"UNEXECUTED", "EMPTY"}
    /\ edges \subseteq Steps \X Nodes
    /\ ready \subseteq Nodes
    /\ late \in [Nodes -> BOOLEAN]
    /\ rel \in Relations
    /\ phase \in Phases
    /\ invalidations \in Nat

\* DesignFlowManager::DesignFlowManager: the exit step is there, nothing else.
Init ==
    /\ status = [x \in Nodes |-> IF x = Exit THEN "UNEXECUTED" ELSE "NONEXISTENT"]
    /\ edges = {}
    /\ ready = {}
    /\ late = [x \in Nodes |-> FALSE]
    /\ rel = InitialRelations
    /\ phase = "adding"
    /\ invalidations = 0

-----------------------------------------------------------------------------
(* Helpers on graphs and on the priority set                               *)

\* The nodes reached from Seeds along the pairs of E, Seeds included: the
\* nodes of every superset of Seeds that is closed under E.
Closure(Seeds, E) ==
    LET closed == {T \in SUBSET Nodes :
                      Seeds \subseteq T /\ \A e \in E : e[1] \in T => e[2] \in T}
    IN  {x \in Nodes : \A T \in closed : x \in T}

\* All the predecessors of x are executed: the loops over in_edges.
PredecessorsDone(x, E, st) == \A y \in Steps : <<y, x>> \in E => st[y] \in Done

\* compute_key, without the signature, which only breaks ties.
Key(x, isLate) ==
    (IF x \in Composed THEN 0 ELSE 2) + (IF isLate THEN 1 ELSE 0)

\* Whether compute_key puts the step after the necessary ones.
IsLate(st, x) == st[x] \in {"SKIPPED", "UNNECESSARY"}

\* Faulty variant of Rekey: the key of a step in the set is never updated.
RekeyWithoutUpdate(st, members, updated) ==
    [x \in Nodes |-> IF x \in members THEN late[x] ELSE IsLate(st, x)]

\* The keys once the steps are in state st: insert() computes the key of a
\* step that enters the set and keeps the key of one that is in it, Update()
\* recomputes the key.
Rekey(st, members, updated) ==
    [x \in Nodes |-> IF x \in members \ updated THEN late[x] ELSE IsLate(st, x)]

\* DesignFlowStepPrioritySet::Extract: the smallest key (steps with equal
\* keys are ordered by signature or address), or any with a random offset.
Extractable(x) ==
    /\ x \in ready
    /\ NonDeterministicFlow \/ \A y \in ready : Key(x, late[x]) <= Key(y, late[y])

-----------------------------------------------------------------------------
(* RecursivelyAddSteps                                                     *)

\* Re-adding a step as necessary goes on only when it is new or was added as
\* unnecessary; re-adding it as unnecessary only when it is new.
Missing == {x \in Steps : status[x] = "NONEXISTENT"}
Open == {x \in Steps : status[x] \in {"NONEXISTENT", "UNNECESSARY"}}

\* The steps that adding N as necessary makes necessary: the dependencies of a
\* step inherit the flag.
Necessary(N) ==
    Closure(N \cap Open,
            {e \in Steps \X Steps : e[2] \in rel.dep[e[1]] /\ e[2] \in Open})

\* The steps that are added as unnecessary, when the ones in nec are added as
\* necessary and those in U as unnecessary: precedences, and everything that
\* an unnecessary step depends on.
Unneeded(nec, U) ==
    Closure((U \cup UNION {rel.prec[x] : x \in nec}) \cap Missing,
            {e \in Steps \X Steps :
                e[2] \in rel.dep[e[1]] \cup rel.prec[e[1]] /\ e[2] \in Missing})

StatusAfterAdd(nec, unn) ==
    [x \in Nodes |-> IF x \in nec THEN "UNEXECUTED"
                     ELSE IF x \in unn THEN "UNNECESSARY"
                     ELSE status[x]]

\* Edges from the relationships, and to the exit from a step without any
\* outgoing edge (it is added before the edge to the step that asked for it).
EdgesAfterAdd(nec, unn) ==
    edges
    \cup {e \in Steps \X Steps :
            e[2] \in nec \cup unn /\ e[1] \in rel.dep[e[2]] \cup rel.prec[e[2]]}
    \cup {e \in (nec \cup unn) \X {Exit} : \A y \in Nodes : <<e[1], y>> \notin edges}

\* The added steps that are ready at once.  A step can only have been switched
\* to pending here, so the statuses before are as good as those after.
ReadyAfterAdd(nec, unn) ==
    {x \in nec \cup unn : PredecessorsDone(x, EdgesAfterAdd(nec, unn), status)}

\* The THROW_ASSERT of RecursivelyAddSteps: a step that is asked for as
\* necessary was skipped already.
SwitchesSkipped(N) ==
    \E y \in N \cup UNION {rel.dep[x] : x \in Necessary(N)} : status[y] = "SKIPPED"

\* RecursivelyAddSteps(N, false) and RecursivelyAddSteps(U, true), while
\* members are in the priority set and newEdges are added besides.
RecursivelyAddSteps(N, U, members, newEdges) ==
    LET nec == Necessary(N)
        unn == Unneeded(nec, U)
    IN  /\ status' = StatusAfterAdd(nec, unn)
        /\ edges' = EdgesAfterAdd(nec, unn) \cup newEdges
        /\ ready' = members \cup ReadyAfterAdd(nec, unn)
        /\ late' = Rekey(StatusAfterAdd(nec, unn), members, nec)

\* AddStep(s): main() adds a requested step before it calls Exec().
AddStep(s) ==
    /\ phase = "adding"
    /\ s \in Requested
    /\ RecursivelyAddSteps({s}, {}, ready, {})
    /\ UNCHANGED <<rel, phase, invalidations>>

\* main() calls Exec(), once it has added at least one step.
StartExec ==
    /\ phase = "adding"
    /\ \E s \in Steps : status[s] # "NONEXISTENT"
    /\ phase' = "executing"
    /\ UNCHANGED <<status, edges, ready, late, rel, invalidations>>

-----------------------------------------------------------------------------
(* One iteration of the loop of Exec()                                     *)

\* step_dependencies and step_precedence of the extracted step; the auxiliary
\* steps have none.
Dependencies(x) == IF x = Exit THEN {} ELSE rel.dep[x]
Precedences(x) == IF x = Exit THEN {} ELSE rel.prec[x]
Relationships(x) == Dependencies(x) \cup Precedences(x)

\* The dependencies are re-added with the necessity of the step itself.
NecessaryRoots(x) == IF status[x] = "UNNECESSARY" THEN {} ELSE Dependencies(x)
UnneededRoots(x) ==
    IF status[x] = "UNNECESSARY" THEN Relationships(x) ELSE Precedences(x)

\* The assertion of RecursivelyAddSteps stops the program.
AssertionFails(next) ==
    /\ phase = "executing"
    /\ Extractable(next)
    /\ HaveAsserts
    /\ SwitchesSkipped(NecessaryRoots(next))
    /\ phase' = "assertion"
    /\ UNCHANGED <<status, edges, ready, late, rel, invalidations>>

\* Faulty variant of Postpone: the step stays in the set.
PostponeInPlace(next) ==
    /\ phase = "executing"
    /\ Extractable(next)
    /\ HaveAsserts => ~SwitchesSkipped(NecessaryRoots(next))
    /\ \E y \in Relationships(next) : status[y] \notin Done
    /\ RecursivelyAddSteps(NecessaryRoots(next), UnneededRoots(next), ready,
                           {<<y, next>> : y \in Relationships(next)})
    /\ UNCHANGED <<rel, phase, invalidations>>

\* The extracted step is not ready: its relationships are added to the graph
\* and it leaves the set.  It comes back when its predecessors are executed.
Postpone(next) ==
    /\ phase = "executing"
    /\ Extractable(next)
    /\ HaveAsserts => ~SwitchesSkipped(NecessaryRoots(next))
    /\ \E y \in Relationships(next) : status[y] \notin Done
    /\ RecursivelyAddSteps(NecessaryRoots(next), UnneededRoots(next), ready \ {next},
                           {<<y, next>> : y \in Relationships(next)})
    /\ UNCHANGED <<rel, phase, invalidations>>

\* Faulty variant of Results: the exit step reports SUCCESS.
ResultsExitSuccess(x) ==
    IF status[x] = "UNNECESSARY" THEN {"SKIPPED"}
    ELSE IF x = Exit THEN {"SUCCESS"}
    ELSE ExecResults

\* What executing a step reports: SKIPPED if it is unnecessary, otherwise the
\* result of Exec(), or UNCHANGED when HasToBeExecuted() is false.
Results(x) ==
    IF status[x] = "UNNECESSARY" THEN {"SKIPPED"}
    ELSE IF x = Exit THEN {"EMPTY"}
    ELSE ExecResults

\* Faulty variant of DeExecuted: nothing is propagated to successors.
DeExecutedAlone(Seeds, E, st) == Seeds

\* The vertices a call of DeExecute on each of Seeds visits: it goes from a
\* vertex to its executed successors.
DeExecuted(Seeds, E, st) == Closure(Seeds, {e \in E : st[e[2]] \in Done})

\* The orders in which the (unordered) set of invalidated steps is traversed,
\* and the part of it that is traversed before r.
Orders(inv) ==
    {o \in [inv -> 1 .. Cardinality(inv)] : \A x, y \in inv : o[x] = o[y] => x = y}
Earlier(o, inv, r) == {q \in inv : o[q] < o[r]}

\* DeExecute(r, true, already_visited) is effective only if no earlier call
\* visited r.
Forced(o, inv, E, st) ==
    {r \in inv : r \notin DeExecuted(Earlier(o, inv, r), E, st)}

\* Faulty variant of StatusAfterDeExecute: only forced steps stay necessary.
StatusAfterDeExecuteUnforced(visited, forced, st) ==
    [x \in Nodes |->
        IF x \notin visited \/ st[x] \notin Done THEN st[x]
        ELSE IF x \notin forced /\ x # Exit THEN "UNNECESSARY"
        ELSE "UNEXECUTED"]

StatusAfterDeExecute(visited, forced, st) ==
    [x \in Nodes |->
        IF x \notin visited \/ st[x] \notin Done THEN st[x]
        ELSE IF st[x] = "SKIPPED" /\ x \notin forced THEN "UNNECESSARY"
        ELSE "UNEXECUTED"]

\* Faulty variant of ReadyAfterDeExecute: nothing is inserted.
ReadyAfterDeExecuteNone(inv, o, forced, E, st) == {}

\* DeExecute inserts the vertices without a pending predecessor.  A vertex it
\* propagates to has one, so only vertices it starts from can be inserted.
ReadyAfterDeExecute(inv, o, forced, E, st) ==
    {r \in forced :
        LET visited == DeExecuted(Earlier(o, inv, r), E, st)
        IN  \A y \in Steps : <<y, r>> \in E => st[y] \in Done /\ y \notin visited}

\* IsReachable(x, y) in the graph E.
IsReachable(x, y, E) == y \in Closure({x}, E)

\* The edges to the exit that are redundant: their source has another target.
RedundantExitEdges(E) ==
    {e \in E : e[2] = Exit /\ \E t \in Steps : <<e[1], t>> \in E}

\* Faulty variants of NewReady: unnecessary successors are forgotten, and the
\* other predecessors of a successor are not looked at.
NewReadyNecessary(next, E, st) ==
    {t \in Nodes : <<next, t>> \in E /\ st[t] = "UNEXECUTED" /\ PredecessorsDone(t, E, st)}
NewReadyUnchecked(next, E, st) ==
    {t \in Nodes : <<next, t>> \in E /\ st[t] \in Pending}

\* The successors of the executed step that are ready now.
NewReady(next, E, st) ==
    {t \in Nodes : <<next, t>> \in E /\ st[t] \in Pending /\ PredecessorsDone(t, E, st)}

\* The steps the executed step may ask to invalidate: only a step that
\* reported SUCCESS asks for it, and only of steps in the graph.
Invalidated(next, res) ==
    IF next = Exit \/ res # "SUCCESS" \/ invalidations >= MaxInvalidations THEN {}
    ELSE {x \in Invalidates[next] : status[x] # "NONEXISTENT"}

\* The extracted step is ready.  Everything it depends on is executed, so
\* RecursivelyAddSteps adds nothing.
Ready(next) ==
    /\ phase = "executing"
    /\ Extractable(next)
    /\ HaveAsserts => ~SwitchesSkipped(NecessaryRoots(next))
    /\ \A y \in Relationships(next) : status[y] \in Done

EdgesOf(next) == edges \cup {<<y, next>> : y \in Relationships(next)}

\* The step is executed or skipped, the steps it invalidates are un-executed
\* and the successors that are ready are inserted.
Execute(next, res, inv, o) ==
    LET E == EdgesOf(next)
        st == [status EXCEPT ![next] = res]
        forced == Forced(o, inv, E, st)
        after == StatusAfterDeExecute(DeExecuted(inv, E, st), forced, st)
    IN  /\ Ready(next)
        /\ res \in Results(next)
        /\ \A x \in inv : IsReachable(x, next, E)
        /\ rel' \in {r \in Relations : r = rel \/ (<<rel, r>> \in Evolve /\ res = "SUCCESS")}
        /\ status' = after
        /\ ready' = (ready \ {next}) \cup ReadyAfterDeExecute(inv, o, forced, E, st)
                                     \cup NewReady(next, E, after)
        /\ late' = Rekey(after, ready \ {next}, {})
        /\ edges' = E \ RedundantExitEdges(E)
        /\ invalidations' = IF inv = {} THEN invalidations ELSE invalidations + 1
        /\ UNCHANGED phase

\* THROW_UNREACHABLE: the step invalidates one which is not before it.
InvalidatesNotBefore(next, inv) ==
    /\ Ready(next)
    /\ \E x \in inv : ~IsReachable(x, next, EdgesOf(next))
    /\ phase' = "not_before"
    /\ UNCHANGED <<status, edges, ready, late, rel, invalidations>>

\* The loop is over: the exit step must have been executed.
Finish ==
    /\ phase = "executing"
    /\ ready = {}
    /\ phase' = IF status[Exit] = "EMPTY" THEN "ended" ELSE "didnt_end"
    /\ UNCHANGED <<status, edges, ready, late, rel, invalidations>>

Terminal == phase \notin {"adding", "executing"}

Iteration ==
    \E next \in Nodes :
        \/ AssertionFails(next)
        \/ Postpone(next)
        \/ \E res \in Results(next) : \E inv \in SUBSET Invalidated(next, res) :
              \/ \E o \in Orders(inv) : Execute(next, res, inv, o)
              \/ InvalidatesNotBefore(next, inv)

Next ==
    \/ \E s \in Requested : AddStep(s)
    \/ StartExec
    \/ Iteration
    \/ Finish
    \/ Terminal /\ UNCHANGED vars

\* The program is sequential and does not block: main() adds a step and calls
\* Exec(), which keeps running its loop.
Fairness ==
    /\ WF_vars(\E s \in Requested : AddStep(s))
    /\ WF_vars(StartExec)
    /\ WF_vars(Iteration \/ Finish)

Spec == Init /\ [][Next]_vars /\ Fairness
-----------------------------------------------------------------------------
(* Properties                                                              *)

\* Every step in the priority set is pending, and its key says whether it is
\* necessary: no status change while it is in the set leaves a stale key.
ReadyFresh ==
    \A x \in ready : status[x] \in Pending /\ late[x] = (status[x] = "UNNECESSARY")

\* A step that counts as executed has only executed predecessors: DeExecute
\* leaves no successor of an un-executed step executed, and a step that stayed
\* in the set while a predecessor was un-executed is not executed before it.
ExecutedClosed ==
    \A e \in edges : status[e[2]] \in Done => status[e[1]] \in Done

\* A pending step is in the priority set or waits for a pending predecessor:
\* no step that is postponed, invalidated or cut off from a removed edge is
\* forgotten.
NoStall ==
    /\ \A x \in Steps : status[x] \in Pending =>
          x \in ready \/ \E y \in Steps : <<y, x>> \in edges /\ status[y] \in Pending
    /\ phase # "adding" /\ status[Exit] \in Pending =>
          Exit \in ready \/ \E y \in Steps : <<y, Exit>> \in edges /\ status[y] \in Pending

\* The exit is executed only when every step of the graph is: removing the
\* redundant edges to it never lets it go first.
ExitLast ==
    status[Exit] = "EMPTY" => \A s \in Steps : status[s] \notin Pending

\* "Design flow didn't end" is never reached.
FlowEnds == phase # "didnt_end"

\* The assertion of RecursivelyAddSteps: no step is asked for as necessary
\* after it was skipped.
NeverSwitchesSkipped == phase # "assertion"

\* A step that is necessary, or was executed, is never skipped later: a lost
\* necessity would drop a pass from the flow.
KeepsNecessity ==
    \A s \in Steps :
        status[s] \in {"UNEXECUTED", "ABORTED", "EMPTY", "SUCCESS", "UNCHANGED"} =>
            status'[s] \notin {"UNNECESSARY", "SKIPPED"}
NecessityKept == [][KeepsNecessity]_vars

\* The flow terminates, invalidations or not.
Termination == <>Terminal

\* Every step that has to be executed, or executed again after it was
\* invalidated, is executed, unless the program stops on an error.
EventuallyExecuted ==
    \A s \in Steps :
        status[s] = "UNEXECUTED" ~>
            \/ status[s] \in Done
            \/ phase \in {"assertion", "not_before"}

-----------------------------------------------------------------------------
(* The inductive invariant behind ExecutedClosed, NoStall and FlowEnds.    *)

\* Executing a step may add relationships, but drops none.
Growing ==
    \A e \in Evolve : \A x \in Steps :
        e[1].dep[x] \subseteq e[2].dep[x] /\ e[1].prec[x] \subseteq e[2].prec[x]

\* Edges join steps that were added.
EdgesExist ==
    \A e \in edges : status[e[1]] # "NONEXISTENT" /\ status[e[2]] # "NONEXISTENT"

\* An edge between steps is still a relationship of its target.
EdgesCurrent ==
    \A e \in edges : e[2] # Exit => e[1] \in rel.dep[e[2]] \cup rel.prec[e[2]]

\* Every added step has a successor, possibly the exit.
HasSuccessor ==
    \A x \in Steps : status[x] # "NONEXISTENT" => \E y \in Nodes : <<x, y>> \in edges

\* The priority set holds pending steps, the exit only when no step is pending.
ReadyPending ==
    /\ \A x \in ready : status[x] \in Pending
    /\ Exit \in ready => \A s \in Steps : status[s] \notin Pending

\* Nothing is executed before Exec() is called.
NothingExecuted ==
    phase = "adding" =>
        /\ status[Exit] = "UNEXECUTED"
        /\ Exit \notin ready
        /\ \A s \in Steps : status[s] \notin Done

Inductive ==
    /\ TypeOK
    /\ EdgesExist
    /\ EdgesCurrent
    /\ HasSuccessor
    /\ ExecutedClosed
    /\ ReadyPending
    /\ NothingExecuted
    /\ NoStall
    /\ FlowEnds
=============================================================================
