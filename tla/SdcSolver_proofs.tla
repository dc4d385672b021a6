-------------------------- MODULE SdcSolver_proofs --------------------------
(* Proofs about SdcSolver, for every finite set of variables, every set of *)
(* weights and every number of constraints and of calls.                   *)
EXTENDS SdcSolver, FiniteSetTheorems, TLAPS

-----------------------------------------------------------------------------
(* Facts about the operators                                               *)

\* An integer that fits is not changed by the cast to int.
LEMMA CastFits ==
    ASSUME NEW d \in Int, Fits(d)
    PROVE  Cast(d) = d
BY NumbersAssumption DEF Fits, Cast

\* A cast yields an int.
LEMMA CastType ==
    ASSUME NEW d \in Int
    PROVE  Cast(d) \in -Half .. Half - 1
BY NumbersAssumption DEF Cast

\* The variables that constraints mention are finitely many variables.
LEMMA ActiveType ==
    ASSUME TypeOK
    PROVE  Active \subseteq Ids /\ IsFiniteSet(Active)
<1>1. Active \subseteq Ids
  BY DEF Active, TypeOK, CallerType
<1>. QED  BY <1>1, IdsAssumption, FS_Subset

\* The ends of an edge are active, and a solution respects it.
LEMMA TargetsFact ==
    ASSUME TypeOK, NEW i \in Ids, NEW j \in Targets(i)
    PROVE  /\ j \in Ids /\ j # i
           /\ i \in Active /\ j \in Active
           /\ Weight(i, j) \in Int
           /\ \A y \in Solutions : y[j] - y[i] <= Weight(i, j)
<1>1. j \in Ids /\ j # i /\ <<i, j>> \in DOMAIN constraints
  BY DEF Targets
<1>2. i \in Active /\ j \in Active
  BY <1>1 DEF Active
<1>3. Weight(i, j) \in Int
  BY <1>1 DEF TypeOK, CallerType, Weight
<1>4. ASSUME NEW y \in Solutions
      PROVE  y[j] - y[i] <= Weight(i, j)
  BY <1>1 DEF Solutions, Promise!IsSolution, Weight
<1>. QED  BY <1>1, <1>2, <1>3, <1>4

\* The values of a solution are integers.
LEMMA SolutionsType ==
    ASSUME NEW y \in Solutions, NEW v \in Ids
    PROVE  y[v] \in Int
BY NumbersAssumption DEF Solutions

\* What is said of the search holds trivially when there is no call.
LEMMA IdleIsOK ==
    ASSUME TypeOK, IdleOK, pc = "idle"
    PROVE  SearchOK
<1>1. QueueOK
  BY DEF IdleOK, QueueOK, Range
<1>2. ScanOK /\ Relaxed /\ WalkOK
  BY DEF IdleOK, ScanOK, Relaxed, WalkOK
<1>3. GraphOK
  BY DEF IdleOK, GraphOK
<1>4. AboveSolutions
  BY DEF IdleOK, AboveSolutions
<1>5. PredecessorsOK
  BY DEF IdleOK, PredecessorsOK
<1>6. PathsOK
  <2>. SUFFICES ASSUME NEW v \in Ids
                PROVE  /\ visited[v] \subseteq Active \cup {v}
                       /\ v \in visited[v]
                       /\ \A y \in Solutions : \A t \in visited[v] :
                             y[v] - y[t] <= distances[v] - distances[t]
                       /\ Solutions # {} => Cardinality(visited[v]) = path_edge_count[v] + 1
    BY DEF PathsOK
  <2>1. visited[v] = {v} /\ path_edge_count[v] = 0 /\ distances[v] = 0
    BY DEF IdleOK
  <2>2. Cardinality({v}) = 1
    BY FS_Singleton
  <2>3. ASSUME NEW y \in Solutions, NEW t \in visited[v]
        PROVE  y[v] - y[t] <= distances[v] - distances[t]
    BY <2>1, SolutionsType
  <2>. QED  BY <2>1, <2>2, <2>3
<1>. QED  BY <1>1, <1>2, <1>3, <1>4, <1>5, <1>6 DEF SearchOK

-----------------------------------------------------------------------------
(* Type correctness                                                        *)

\* What the scan needs to be well typed: the source is a vertex.
SourceOK ==
    /\ edges_left # {} => source \in Ids /\ edges_left \subseteq Targets(source)
    /\ pc = "walk" => vertex \in Ids /\ target \in edges_left

\* The empty function and the empty sequence.
LEMMA Empty ==
    ASSUME NEW S
    PROVE  << >> \in Seq(S) /\ DOMAIN << >> = {} /\ << >> \in [{} -> S]
<1>1. << >> \in Seq(S) /\ DOMAIN << >> = {}
  OBVIOUS
<1>. QED  BY <1>1

\* The local variables are well typed when there is no call.
LEMMA FreshType ==
    /\ [v \in Ids |-> 0] \in [Ids -> Int]
    /\ [v \in Ids |-> 0] \in [Ids -> Nat]
    /\ [v \in Ids |-> None] \in [Ids -> Ids \cup {None}]
    /\ [v \in Ids |-> {v}] \in [Ids -> SUBSET Ids]
OBVIOUS

\* The initial state is well typed.
LEMMA InitType == Init => TypeOK /\ SourceOK
<1>. SUFFICES ASSUME Init PROVE TypeOK /\ SourceOK
  OBVIOUS
<1>1. CallerType
  BY Empty DEF Init, CallerType
<1>2. LabelsType
  BY FreshType DEF Init, LabelsType
<1>3. QueueType /\ ScanType /\ WalkType
  BY Empty DEF Init, QueueType, ScanType, WalkType
<1>4. SourceOK
  BY DEF Init, SourceOK
<1>. QED  BY <1>1, <1>2, <1>3, <1>4 DEF TypeOK

\* A sequence that is not empty has a head and a tail.
LEMMA HeadTail ==
    ASSUME NEW S, NEW q \in Seq(S), q # << >>
    PROVE  /\ Head(q) \in S /\ Tail(q) \in Seq(S)
           /\ Head(q) = q[1] /\ Len(q) \in Nat /\ Len(q) >= 1
           /\ Len(Tail(q)) = Len(q) - 1
           /\ \A k \in 1 .. Len(q) - 1 : Tail(q)[k] = q[k + 1]
OBVIOUS

\* A call that returns leaves well typed variables.
LEMMA ReturnType ==
    ASSUME TypeOK, Return,
           outcome' \in {"feasible", "infeasible", "overflow"},
           DOMAIN vals' \subseteq Ids, vals' \in [DOMAIN vals' -> -Half .. Half - 1]
    PROVE  TypeOK' /\ SourceOK'
<1>1. CallerType'
  BY DEF Return, TypeOK, CallerType
<1>2. LabelsType'
  BY FreshType DEF Return, LabelsType
<1>3. QueueType' /\ ScanType' /\ WalkType'
  BY Empty DEF Return, QueueType, ScanType, WalkType
<1>4. SourceOK'
  BY DEF Return, SourceOK
<1>. QED  BY <1>1, <1>2, <1>3, <1>4 DEF TypeOK

\* Every step keeps the variables well typed.
LEMMA StepType ==
    ASSUME TypeOK, SourceOK, [Next]_vars
    PROVE  TypeOK' /\ SourceOK'
<1>. USE NumbersAssumption, IdsAssumption
<1>0. CallerType /\ LabelsType /\ QueueType /\ ScanType /\ WalkType
  BY DEF TypeOK
<1>1. CASE UNCHANGED vars
  BY <1>1 DEF TypeOK, SourceOK, Targets, vars, caller, labels, fifo, scan, walk,
              CallerType, LabelsType, QueueType, ScanType, WalkType
<1>2. ASSUME NEW e \in Pairs, NEW w \in Weights, AddConstraint(e[1], e[2], w)
      PROVE  TypeOK' /\ SourceOK'
  <2>1. <<e[1], e[2]>> \in Ids \X Ids
    OBVIOUS
  <2>2. DOMAIN constraints' = DOMAIN constraints \cup {<<e[1], e[2]>>}
    BY <1>2 DEF AddConstraint
  <2>3. constraints' \in [DOMAIN constraints' -> Int]
    BY <1>0, <1>2, <2>2 DEF AddConstraint, CallerType
  <2>4. CallerType'
    BY <1>0, <1>2, <2>1, <2>2, <2>3 DEF AddConstraint, CallerType
  <2>5. LabelsType' /\ QueueType' /\ ScanType' /\ WalkType'
    BY <1>0, <1>2 DEF AddConstraint, LabelsType, QueueType, ScanType, WalkType,
                      labels, fifo, scan, walk
  <2>6. Targets(source) \subseteq Targets(source)'
    BY <1>2, <2>2 DEF AddConstraint, Targets, scan
  <2>7. SourceOK'
    BY <1>2, <2>6 DEF AddConstraint, SourceOK, scan, walk
  <2>. QED  BY <2>4, <2>5, <2>7 DEF TypeOK
<1>3. CASE SolveNegativeLoop
  <2>1. CallerType'
    BY <1>0, <1>3 DEF SolveNegativeLoop, CallerType
  <2>2. LabelsType' /\ QueueType' /\ ScanType' /\ WalkType' /\ SourceOK'
    BY <1>0, <1>3 DEF SolveNegativeLoop, LabelsType, QueueType, ScanType, WalkType,
                      SourceOK, Targets, labels, fifo, scan, walk
  <2>. QED  BY <2>1, <2>2 DEF TypeOK
<1>4. ASSUME NEW negate \in BOOLEAN, Solve(negate)
      PROVE  TypeOK' /\ SourceOK'
  <2>1. HasNegativeOutgoingEdge \subseteq Ids /\ IsFiniteSet(HasNegativeOutgoingEdge)
    BY FS_Subset DEF HasNegativeOutgoingEdge
  <2>2. Cardinality(HasNegativeOutgoingEdge) \in Nat
    BY <2>1, FS_CardinalityType
  <2>3. queue' \in [1 .. Cardinality(HasNegativeOutgoingEdge) -> Ids]
    BY <1>4, <2>1 DEF Solve, Ascending
  <2>4. queue' \in Seq(Ids)
    BY <2>2, <2>3
  <2>5. CallerType'
    BY <1>0, <1>4 DEF Solve, CallerType
  <2>6. QueueType'
    BY <1>4, <2>1, <2>4 DEF Solve, QueueType
  <2>7. LabelsType' /\ ScanType' /\ WalkType' /\ SourceOK'
    BY <1>0, <1>4 DEF Solve, LabelsType, ScanType, WalkType, SourceOK, Targets,
                      labels, scan, walk
  <2>. QED  BY <2>5, <2>6, <2>7 DEF TypeOK
<1>5. CASE PopFront
  <2>1. Head(queue) \in Ids /\ Tail(queue) \in Seq(Ids)
    BY <1>0, <1>5, HeadTail DEF PopFront, QueueType
  <2>2. PICK h \in Ids : h = Head(queue)
    BY <2>1
  <2>3. source' = h /\ source_distance' = distances[h] /\ edges_left' = Targets(h)
    BY <1>5, <2>2 DEF PopFront
  <2>4. CallerType' /\ LabelsType' /\ WalkType'
    BY <1>0, <1>5 DEF PopFront, CallerType, LabelsType, WalkType, caller, labels, walk
  <2>5. QueueType'
    BY <1>0, <1>5, <2>1 DEF PopFront, QueueType
  <2>6. ScanType'
    BY <1>0, <2>3 DEF ScanType, LabelsType, Targets
  <2>7. SourceOK'
    BY <1>5, <2>3 DEF PopFront, SourceOK, Targets, caller
  <2>. QED  BY <2>4, <2>5, <2>6, <2>7 DEF TypeOK
<1>6. ASSUME NEW t \in Ids, SkipEdge(t)
      PROVE  TypeOK' /\ SourceOK'
  BY <1>0, <1>6 DEF SkipEdge, TypeOK, SourceOK, Targets, caller, labels, fifo, walk,
                    CallerType, LabelsType, QueueType, ScanType, WalkType
<1>7. CASE ReturnInfeasible
  BY <1>0, <1>7, ReturnType DEF ReturnInfeasible, CallerType
<1>8. ASSUME NEW t \in Ids, StartWalk(t)
      PROVE  TypeOK' /\ SourceOK'
  <2>1. source \in Ids /\ t \in Targets(source)
    BY <1>8 DEF StartWalk, SourceOK, IsNext
  <2>2. Weight(source, t) \in Int
    BY <2>1, TargetsFact
  <2>3. CallerType' /\ LabelsType' /\ QueueType' /\ ScanType'
    BY <1>0, <1>8 DEF StartWalk, CallerType, LabelsType, QueueType, ScanType,
                      caller, labels, fifo, scan
  <2>4. WalkType'
    BY <1>8, <2>1, <2>2 DEF StartWalk, WalkType
  <2>5. SourceOK'
    BY <1>8, <2>1 DEF StartWalk, SourceOK, IsNext, Targets, caller, scan
  <2>. QED  BY <2>3, <2>4, <2>5 DEF TypeOK
<1>9. CASE Ascend
  <2>1. vertex \in Ids /\ predecessor[vertex] \in Ids
    BY <1>0, <1>9 DEF Ascend, Continues, LabelsType, SourceOK
  <2>2. CallerType' /\ LabelsType' /\ QueueType' /\ ScanType'
    BY <1>0, <1>9 DEF Ascend, CallerType, LabelsType, QueueType, ScanType,
                      caller, labels, fifo, scan
  <2>3. WalkType'
    BY <1>0, <1>9, <2>1 DEF Ascend, WalkType, LabelsType
  <2>4. SourceOK'
    BY <1>9, <2>1 DEF Ascend, SourceOK, Targets, caller, scan
  <2>. QED  BY <2>2, <2>3, <2>4 DEF TypeOK
<1>10. CASE Relax
  <2>1. source \in Ids /\ target \in Targets(source)
    BY <1>10 DEF Relax, SourceOK
  <2>2. Weight(source, target) \in Int /\ target \in Ids
    BY <2>1, TargetsFact
  <2>3. CallerType' /\ WalkType'
    BY <1>0, <1>10 DEF Relax, CallerType, WalkType, caller, walk
  <2>4. LabelsType'
    BY <1>0, <1>10, <2>1, <2>2 DEF Relax, LabelsType, ScanType
  <2>5. QueueType'
    BY <1>0, <1>10, <2>2 DEF Relax, Push, QueueType
  <2>6. ScanType'
    BY <1>0, <1>10 DEF Relax, ScanType
  <2>7. SourceOK'
    BY <1>10, <2>1 DEF Relax, SourceOK, Targets, caller
  <2>. QED  BY <2>3, <2>4, <2>5, <2>6, <2>7 DEF TypeOK
<1>11. CASE ReturnFeasible
  <2>1. ASSUME NEW v \in Active
        PROVE  Cast(Signed(distances[v])) \in -Half .. Half - 1
    <3>1. distances[v] \in Int
      BY <1>0, ActiveType DEF LabelsType
    <3>2. Signed(distances[v]) \in Int
      BY <3>1 DEF Signed
    <3>. QED  BY <3>2, CastType
  <2>2. vals' \in [DOMAIN vals' -> -Half .. Half - 1] /\ DOMAIN vals' \subseteq Ids
    BY <1>11, <2>1 DEF ReturnFeasible, Returned
  <2>3. outcome' \in {"feasible", "infeasible", "overflow"}
    BY <1>11, Zenon DEF ReturnFeasible
  <2>. QED  BY <1>11, <2>2, <2>3, ReturnType DEF ReturnFeasible
<1>. QED  BY <1>1, <1>2, <1>3, <1>4, <1>5, <1>6, <1>7, <1>8, <1>9, <1>10, <1>11
          DEF Next, Step, PathTooLong, CloseCycle

\* The state of the solver is well formed in every behaviour, for every set of
\* variables and any number of constraints and calls.
THEOREM TypeCorrect == Spec => []TypeOK
<1>1. Init => TypeOK /\ SourceOK
  BY InitType
<1>2. TypeOK /\ SourceOK /\ [Next]_vars => TypeOK' /\ SourceOK'
  BY StepType
<1>. QED  BY <1>1, <1>2, PTL DEF Spec
-----------------------------------------------------------------------------
(* The search                                                              *)

\* The constraints do not change during a call, nor does what depends on them.
LEMMA SameGraph ==
    ASSUME constraints' = constraints
    PROVE  /\ Active' = Active
           /\ Solutions' = Solutions
           /\ NegativeLoop' = NegativeLoop
           /\ \A i \in Ids : Targets(i)' = Targets(i)
           /\ \A i, j \in Ids : Weight(i, j)' = Weight(i, j)
BY DEF Active, Solutions, Promise!IsSolution, NegativeLoop, Targets, Weight

\* IdleIsOK for the next state.
LEMMA IdleIsOKNext ==
    (TypeOK /\ IdleOK /\ pc = "idle")' => SearchOK'
<1>1. TypeOK /\ IdleOK /\ pc = "idle" => SearchOK
  BY IdleIsOK
<1>. QED  BY <1>1, PTL

\* What the steps of a search may use of the edge that is scanned.
LEMMA ScannedEdge ==
    ASSUME TypeOK, ScanOK, NEW t \in edges_left
    PROVE  /\ source \in Ids /\ t \in Ids /\ t # source /\ t \in Targets(source)
           /\ source \in Active /\ t \in Active
           /\ source_distance = distances[source]
           /\ Weight(source, t) \in Int
           /\ \A y \in Solutions : y[t] - y[source] <= Weight(source, t)
<1>1. source \in Ids /\ t \in Targets(source) /\ source_distance = distances[source]
  BY DEF ScanOK
<1>. QED  BY <1>1, TargetsFact

\* The invariants of the search say what type correctness needs of the source.
LEMMA SourceIsOK ==
    ASSUME ScanOK, WalkOK
    PROVE  SourceOK
BY DEF ScanOK, WalkOK, SourceOK

\* The inductive invariant holds at first.
LEMMA InitSearch == Init => Inductive
<1>. SUFFICES ASSUME Init PROVE Inductive
  OBVIOUS
<1>1. TypeOK
  BY InitType
<1>2. IdleOK /\ pc = "idle"
  BY DEF Init, IdleOK
<1>3. SearchOK
  BY <1>1, <1>2, IdleIsOK
<1>4. AnswerIsGreatest /\ InfeasibleIsUnsolvable
  BY DEF Init, AnswerIsGreatest, InfeasibleIsUnsolvable
<1>. QED  BY <1>1, <1>2, <1>3, <1>4 DEF Inductive

\* A call starts with every violated edge in the queue.
LEMMA SolveSearch ==
    ASSUME TypeOK, IdleOK, SearchOK, NEW negate \in BOOLEAN, Solve(negate)
    PROVE  SearchOK'
<1>. USE DEF SearchOK
<1>1. /\ constraints' = constraints /\ UNCHANGED labels /\ pc = "idle" /\ pc' = "scan"
      /\ edges_left' = {} /\ ~NegativeLoop
      /\ in_queue' = HasNegativeOutgoingEdge
      /\ queue' \in Ascending(HasNegativeOutgoingEdge)
  BY DEF Solve, IdleOK, scan
<1>2. QueueOK'
  <2>1. HasNegativeOutgoingEdge \subseteq Active
    BY TargetsFact DEF HasNegativeOutgoingEdge
  <2>2. HasNegativeOutgoingEdge \subseteq Nat
    BY IdsAssumption DEF HasNegativeOutgoingEdge
  <2>3. HasNegativeOutgoingEdge \subseteq Ids /\ IsFiniteSet(HasNegativeOutgoingEdge)
    BY FS_Subset, IdsAssumption DEF HasNegativeOutgoingEdge
  <2>4. Cardinality(HasNegativeOutgoingEdge) \in Nat
    BY <2>3, FS_CardinalityType
  <2>5. DOMAIN queue' \subseteq Nat
    BY <1>1, <2>4 DEF Ascending
  <2>6. ASSUME NEW k \in DOMAIN queue', NEW l \in DOMAIN queue', queue'[k] = queue'[l]
        PROVE  k = l
    <3>1. queue'[k] \in Nat /\ queue'[l] \in Nat
      BY <1>1, <2>2 DEF Ascending
    <3>2. ~(k < l) /\ ~(l < k)
      BY <1>1, <2>6, <3>1 DEF Ascending
    <3>. QED  BY <2>5, <3>2
  <2>7. Range(queue') = HasNegativeOutgoingEdge
    BY <1>1 DEF Ascending
  <2>. QED  BY <1>1, <2>1, <2>6, <2>7, SameGraph DEF QueueOK
<1>3. ScanOK' /\ WalkOK'
  BY <1>1 DEF ScanOK, WalkOK
<1>4. Relaxed'
  <2>. SUFFICES ASSUME NEW i \in Ids, NEW j \in Targets(i)
                PROVE  distances'[j] <= distances'[i] + Weight(i, j) \/ i \in in_queue'
    BY <1>1 DEF Relaxed, Targets, Weight
  <2>1. Weight(i, j) \in Int /\ j \in Ids
    BY TargetsFact
  <2>2. distances'[j] = 0 /\ distances'[i] = 0
    BY <1>1, <2>1 DEF IdleOK, labels
  <2>3. CASE Weight(i, j) < 0
    BY <1>1, <2>3 DEF HasNegativeOutgoingEdge
  <2>4. CASE ~(Weight(i, j) < 0)
    BY <2>1, <2>2, <2>4
  <2>. QED  BY <2>3, <2>4
<1>5. GraphOK'
  BY <1>1, SameGraph DEF GraphOK, labels
<1>6. AboveSolutions' /\ PredecessorsOK' /\ PathsOK'
  <2>1. AboveSolutions'
    BY <1>1, SameGraph DEF AboveSolutions, labels
  <2>2. PredecessorsOK'
    BY <1>1 DEF PredecessorsOK, labels, IdleOK
  <2>3. PathsOK'
    BY <1>1, SameGraph DEF PathsOK, labels
  <2>. QED  BY <2>1, <2>2, <2>3
<1>. QED  BY <1>2, <1>3, <1>4, <1>5, <1>6

\* A vertex leaves the queue and its edges are to be scanned.
LEMMA PopFrontSearch ==
    ASSUME TypeOK, SearchOK, PopFront
    PROVE  SearchOK'
<1>. USE DEF SearchOK
<1>1. /\ constraints' = constraints /\ UNCHANGED labels /\ pc = "scan" /\ pc' = "scan"
      /\ edges_left = {} /\ queue # << >> /\ queue \in Seq(Ids)
  BY DEF PopFront, caller, TypeOK, QueueType
<1>2. PICK h \in Ids : h = Head(queue)
  BY <1>1, HeadTail
<1>3. /\ source' = h /\ source_distance' = distances[h] /\ edges_left' = Targets(h)
      /\ queue' = Tail(queue) /\ in_queue' = in_queue \ {h}
  BY <1>2 DEF PopFront
<1>4. QueueOK'
  <2>1. /\ h = queue[1] /\ Len(queue) \in Nat /\ Len(queue) >= 1
        /\ Len(queue') = Len(queue) - 1
        /\ \A k \in 1 .. Len(queue) - 1 : queue'[k] = queue[k + 1]
        /\ queue' \in Seq(Ids)
    BY <1>1, <1>2, <1>3, HeadTail
  <2>2. DOMAIN queue = 1 .. Len(queue) /\ DOMAIN queue' = 1 .. Len(queue) - 1
    BY <1>1, <2>1
  <2>3. \A k, l \in DOMAIN queue : queue[k] = queue[l] => k = l
    BY DEF QueueOK
  <2>4. \A k, l \in DOMAIN queue' : queue'[k] = queue'[l] => k = l
    BY <2>1, <2>2, <2>3
  <2>5. \A k \in DOMAIN queue' : queue'[k] \in in_queue \ {h}
    BY <2>1, <2>2, <2>3 DEF QueueOK, Range
  <2>6. ASSUME NEW x \in in_queue \ {h}
        PROVE  \E k \in DOMAIN queue' : queue'[k] = x
    <3>1. PICK m \in DOMAIN queue : queue[m] = x
      BY DEF QueueOK, Range
    <3>2. m - 1 \in DOMAIN queue' /\ queue'[m - 1] = x
      BY <2>1, <2>2, <3>1
    <3>. QED  BY <3>2
  <2>7. Range(queue') = in_queue \ {h}
    BY <2>5, <2>6 DEF Range
  <2>. QED  BY <1>1, <1>3, <2>4, <2>7, SameGraph DEF QueueOK
<1>5. ScanOK' /\ WalkOK'
  BY <1>1, <1>3, SameGraph DEF ScanOK, WalkOK, labels
<1>6. Relaxed'
  <2>. SUFFICES ASSUME NEW i \in Ids, NEW j \in Targets(i)
                PROVE  \/ distances[j] <= distances[i] + Weight(i, j)
                       \/ i \in in_queue'
                       \/ i = source' /\ j \in edges_left'
    BY <1>1 DEF Relaxed, Targets, Weight, labels
  <2>1. distances[j] <= distances[i] + Weight(i, j) \/ i \in in_queue
    BY <1>1 DEF Relaxed
  <2>. QED  BY <1>3, <2>1
<1>7. GraphOK' /\ AboveSolutions'
  BY <1>1, SameGraph DEF GraphOK, AboveSolutions, labels
<1>8. PredecessorsOK'
  BY <1>1 DEF PredecessorsOK, labels, Targets, Weight
<1>9. PathsOK'
  BY <1>1, SameGraph DEF PathsOK, labels
<1>. QED  BY <1>4, <1>5, <1>6, <1>7, <1>8, <1>9

\* The edge that is skipped is satisfied.
LEMMA SkipEdgeSearch ==
    ASSUME TypeOK, SearchOK, NEW t \in Ids, SkipEdge(t)
    PROVE  SearchOK'
<1>. USE DEF SearchOK
<1>1. /\ constraints' = constraints /\ UNCHANGED labels /\ UNCHANGED fifo
      /\ pc = "scan" /\ pc' = "scan" /\ t \in edges_left /\ edges_left' = edges_left \ {t}
      /\ source' = source /\ source_distance' = source_distance
  BY DEF SkipEdge, IsNext, caller
<1>2. QueueOK'
  BY <1>1, SameGraph DEF QueueOK, fifo
<1>3. ScanOK' /\ WalkOK'
  BY <1>1 DEF ScanOK, WalkOK, Targets, labels
<1>4. Relaxed'
  <2>. SUFFICES ASSUME NEW i \in Ids, NEW j \in Targets(i)
                PROVE  \/ distances[j] <= distances[i] + Weight(i, j)
                       \/ i \in in_queue
                       \/ i = source /\ j \in edges_left'
    BY <1>1 DEF Relaxed, Targets, Weight, labels, fifo
  <2>1. \/ distances[j] <= distances[i] + Weight(i, j)
        \/ i \in in_queue
        \/ i = source /\ j \in edges_left
    BY <1>1 DEF Relaxed
  <2>2. CASE i = source /\ j = t
    <3>1. source_distance = distances[source] /\ Weight(source, t) \in Int
      BY <1>1, ScannedEdge
    <3>2. ~(distances[source] + Weight(source, t) < distances[t])
      BY <3>1 DEF SkipEdge, Improves
    <3>3. distances[source] \in Int /\ distances[t] \in Int
      BY <2>2 DEF TypeOK, LabelsType
    <3>. QED  BY <2>2, <3>1, <3>2, <3>3
  <2>. QED  BY <1>1, <2>1, <2>2
<1>5. GraphOK' /\ AboveSolutions'
  BY <1>1, SameGraph DEF GraphOK, AboveSolutions, labels
<1>6. PredecessorsOK'
  BY <1>1 DEF PredecessorsOK, labels, Targets, Weight
<1>7. PathsOK'
  BY <1>1, SameGraph DEF PathsOK, labels
<1>. QED  BY <1>2, <1>3, <1>4, <1>5, <1>6, <1>7

\* Nothing but the walk changes before an edge is relaxed.
LEMMA WalkSearch ==
    ASSUME TypeOK, SearchOK, constraints' = constraints,
           pc # "idle", pc' = "walk", UNCHANGED <<labels, fifo, scan>>,
           target' \in edges_left, Improves(target'), WalkOK'
    PROVE  SearchOK'
<1>. USE DEF SearchOK
<1>1. QueueOK'
  BY SameGraph DEF QueueOK, fifo
<1>2. ScanOK'
  BY DEF ScanOK, Improves, Weight, Targets, labels, scan
<1>3. Relaxed'
  BY DEF Relaxed, Targets, Weight, labels, fifo, scan
<1>4. GraphOK' /\ AboveSolutions'
  BY SameGraph DEF GraphOK, AboveSolutions, labels
<1>5. PredecessorsOK'
  BY DEF PredecessorsOK, labels, Targets, Weight
<1>6. PathsOK'
  BY SameGraph DEF PathsOK, labels
<1>. QED  BY <1>1, <1>2, <1>3, <1>4, <1>5, <1>6

\* The walk starts at the source of the edge.
LEMMA StartWalkSearch ==
    ASSUME TypeOK, SearchOK, NEW t \in Ids, StartWalk(t)
    PROVE  SearchOK'
<1>. USE DEF SearchOK
<1>1. /\ constraints' = constraints /\ UNCHANGED <<labels, fifo, scan>>
      /\ pc = "scan" /\ pc' = "walk" /\ t \in edges_left /\ Improves(t)
      /\ target' = t /\ vertex' = source /\ cycle_weight' = Weight(source, t)
      /\ source' = source
  BY DEF StartWalk, IsNext, caller, scan
<1>2. source \in Ids /\ Weight(source, t) \in Int
  BY <1>1, ScannedEdge
<1>3. \A y \in Solutions : y[source] \in Int
  BY <1>2, SolutionsType
<1>4. Weight(source, target)' = Weight(source, t) /\ Solutions' = Solutions
  BY <1>1, SameGraph DEF Weight
<1>5. WalkOK'
  BY <1>1, <1>2, <1>3, <1>4 DEF WalkOK
<1>. QED  BY <1>1, <1>5, WalkSearch

\* The predecessors are joined by constraints.
LEMMA AscendSearch ==
    ASSUME TypeOK, SearchOK, Ascend
    PROVE  SearchOK'
<1>. USE DEF SearchOK
<1>1. /\ constraints' = constraints /\ UNCHANGED <<labels, fifo, scan>>
      /\ pc = "walk" /\ pc' = "walk" /\ target' = target /\ source' = source
      /\ vertex' = predecessor[vertex]
      /\ cycle_weight' = cycle_weight + predecessor_weight[vertex]
      /\ predecessor[vertex] # None
  BY DEF Ascend, Continues, caller, scan
<1>2. vertex \in Ids /\ target \in edges_left /\ Improves(target)
  BY <1>1 DEF WalkOK, ScanOK
<1>3. PICK p \in Ids : p = predecessor[vertex]
  BY <1>1, <1>2 DEF TypeOK, LabelsType
<1>4. vertex \in Targets(p) /\ predecessor_weight[vertex] = Weight(p, vertex)
  BY <1>1, <1>2, <1>3 DEF PredecessorsOK
<1>5. Weight(p, vertex) \in Int /\ \A y \in Solutions : y[vertex] - y[p] <= Weight(p, vertex)
  BY <1>4, TargetsFact
<1>6. source \in Ids /\ Weight(source, target) \in Int
  BY <1>2, ScannedEdge
<1>7. Weight(source, target)' = Weight(source, target) /\ Solutions' = Solutions
  BY <1>1, SameGraph DEF Weight
<1>8. cycle_weight \in Int
  BY DEF TypeOK, WalkType
<1>9. ASSUME NEW y \in Solutions
      PROVE  y[source] - y[p] <= (cycle_weight + Weight(p, vertex)) - Weight(source, target)
  <2>1. y[source] \in Int /\ y[p] \in Int /\ y[vertex] \in Int
    BY <1>2, <1>6, SolutionsType
  <2>2. y[source] - y[vertex] <= cycle_weight - Weight(source, target)
    BY <1>1 DEF WalkOK
  <2>. QED  BY <1>5, <1>6, <1>8, <2>1, <2>2
<1>10. WalkOK'
  BY <1>1, <1>3, <1>4, <1>7, <1>9 DEF WalkOK
<1>. QED  BY <1>1, <1>2, <1>10, WalkSearch

\* A new element at the front of a sequence without repetitions.
LEMMA PushFront ==
    ASSUME NEW S, NEW q \in Seq(S), NEW v \in S, v \notin Range(q),
           \A k, l \in DOMAIN q : q[k] = q[l] => k = l
    PROVE  /\ Range(<<v>> \o q) = Range(q) \cup {v}
           /\ \A k, l \in DOMAIN (<<v>> \o q) : (<<v>> \o q)[k] = (<<v>> \o q)[l] => k = l
<1>. DEFINE r == <<v>> \o q
<1>1. /\ Len(q) \in Nat /\ DOMAIN q = 1 .. Len(q) /\ DOMAIN r = 1 .. Len(q) + 1
      /\ r[1] = v /\ \A k \in 2 .. Len(q) + 1 : r[k] = q[k - 1]
  OBVIOUS
<1>2. \A k \in DOMAIN q : k + 1 \in DOMAIN r /\ r[k + 1] = q[k]
  BY <1>1
<1>. HIDE DEF r
<1>3. \A k, l \in DOMAIN r : r[k] = r[l] => k = l
  <2>. SUFFICES ASSUME NEW k \in DOMAIN r, NEW l \in DOMAIN r, r[k] = r[l] PROVE k = l
    OBVIOUS
  <2>1. k # 1 => k - 1 \in DOMAIN q /\ r[k] = q[k - 1] /\ r[k] \in Range(q)
    BY <1>1 DEF Range
  <2>2. l # 1 => l - 1 \in DOMAIN q /\ r[l] = q[l - 1] /\ r[l] \in Range(q)
    BY <1>1 DEF Range
  <2>3. k = 1 <=> l = 1
    BY <1>1, <2>1, <2>2
  <2>4. k # 1 => k - 1 = l - 1
    BY <2>1, <2>2, <2>3
  <2>. QED  BY <1>1, <2>3, <2>4
<1>4. \A k \in DOMAIN r : r[k] \in Range(q) \cup {v}
  BY <1>1 DEF Range
<1>5. \A x \in Range(q) \cup {v} : \E k \in DOMAIN r : r[k] = x
  BY <1>1, <1>2 DEF Range
<1>6. Range(r) = Range(q) \cup {v}
  <2>1. \A x : x \in Range(r) <=> \E k \in DOMAIN r : r[k] = x
    BY DEF Range
  <2>. QED  BY <1>4, <1>5, <2>1
<1>. QED  BY <1>3, <1>6 DEF r

\* The same at the end of the sequence.
LEMMA PushBack ==
    ASSUME NEW S, NEW q \in Seq(S), NEW v \in S, v \notin Range(q),
           \A k, l \in DOMAIN q : q[k] = q[l] => k = l
    PROVE  /\ Range(Append(q, v)) = Range(q) \cup {v}
           /\ \A k, l \in DOMAIN Append(q, v) : Append(q, v)[k] = Append(q, v)[l] => k = l
<1>. DEFINE r == Append(q, v)
<1>1. /\ Len(q) \in Nat /\ DOMAIN q = 1 .. Len(q) /\ DOMAIN r = 1 .. Len(q) + 1
      /\ r[Len(q) + 1] = v /\ \A k \in 1 .. Len(q) : r[k] = q[k]
  OBVIOUS
<1>. HIDE DEF r
<1>3. \A k, l \in DOMAIN r : r[k] = r[l] => k = l
  BY <1>1 DEF Range
<1>4. \A k \in DOMAIN r : r[k] \in Range(q) \cup {v}
  BY <1>1 DEF Range
<1>5. \A x \in Range(q) \cup {v} : \E k \in DOMAIN r : r[k] = x
  BY <1>1 DEF Range
<1>6. Range(r) = Range(q) \cup {v}
  <2>1. \A x : x \in Range(r) <=> \E k \in DOMAIN r : r[k] = x
    BY DEF Range
  <2>. QED  BY <1>4, <1>5, <2>1
<1>. QED  BY <1>3, <1>6 DEF r

\* If there is a solution, an edge that improves its target does not lead back
\* to a vertex of the path.
LEMMA NotOnPath ==
    ASSUME TypeOK, SearchOK, NEW t \in edges_left, Improves(t), NEW y \in Solutions
    PROVE  t \notin visited[source]
<1>. SUFFICES ASSUME t \in visited[source] PROVE FALSE
  OBVIOUS
<1>1. /\ source \in Ids /\ t \in Ids /\ source_distance = distances[source]
      /\ Weight(source, t) \in Int /\ y[t] - y[source] <= Weight(source, t)
  BY ScannedEdge DEF SearchOK
<1>2. y[source] - y[t] <= distances[source] - distances[t]
  BY <1>1 DEF SearchOK, PathsOK
<1>3. distances[source] + Weight(source, t) < distances[t]
  BY <1>1 DEF Improves
<1>4. y[source] \in Int /\ y[t] \in Int
  BY <1>1, SolutionsType
<1>5. distances[source] \in Int /\ distances[t] \in Int
  BY <1>1 DEF TypeOK, LabelsType
<1>. QED  BY <1>1, <1>2, <1>3, <1>4, <1>5

\* Relaxing an edge moves a distance, the queue and a path, and keeps the rest.
LEMMA RelaxSearch ==
    ASSUME TypeOK, SearchOK, Relax
    PROVE  SearchOK'
<1>. USE DEF SearchOK
<1>1. /\ constraints' = constraints /\ pc = "walk" /\ pc' = "scan"
      /\ source' = source /\ source_distance' = source_distance
      /\ edges_left' = edges_left \ {target}
  BY DEF Relax, caller
<1>2. target \in edges_left /\ Improves(target)
  BY <1>1 DEF ScanOK
<1>3. PICK s \in Ids, t \in Ids : s = source /\ t = target
  BY <1>2, ScannedEdge
<1>4. PICK w \in Int : w = Weight(s, t)
  BY <1>2, <1>3, ScannedEdge
<1>5. /\ t # s /\ t \in Targets(s) /\ s \in Active /\ t \in Active
      /\ source_distance = distances[s]
      /\ \A y \in Solutions : y[t] - y[s] <= w
  BY <1>2, <1>3, <1>4, ScannedEdge
<1>6. /\ distances \in [Ids -> Int]
      /\ predecessor \in [Ids -> Ids \cup {None}] /\ predecessor_weight \in [Ids -> Int]
      /\ path_edge_count \in [Ids -> Nat] /\ visited \in [Ids -> SUBSET Ids]
  BY DEF TypeOK, LabelsType
<1>7. distances[s] + w < distances[t]
  BY <1>2, <1>3, <1>4, <1>5 DEF Improves
<1>8. /\ distances' = [distances EXCEPT ![t] = distances[s] + w]
      /\ predecessor' = [predecessor EXCEPT ![t] = s]
      /\ predecessor_weight' = [predecessor_weight EXCEPT ![t] = w]
      /\ path_edge_count' = [path_edge_count EXCEPT ![t] = path_edge_count[s] + 1]
      /\ visited' = [visited EXCEPT ![t] = visited[s] \cup {t}]
      /\ in_queue' = in_queue \cup {t}
  BY <1>3, <1>4, <1>5 DEF Relax, Push
<1>9. /\ distances'[t] = distances[s] + w
      /\ \A v \in Ids : v # t => distances'[v] = distances[v]
      /\ \A v \in Ids : distances'[v] <= distances[v] /\ distances[v] \in Int /\ distances'[v] \in Int
  BY <1>6, <1>7, <1>8
<1>10. QueueOK'
  <2>1. queue \in Seq(Ids) /\ in_queue = Range(queue)
        /\ \A k, l \in DOMAIN queue : queue[k] = queue[l] => k = l
    BY DEF QueueOK, TypeOK, QueueType
  <2>2. CASE t \in in_queue
    <3>1. queue' = queue
      BY <1>3, <2>2 DEF Relax, Push
    <3>. QED  BY <1>1, <1>8, <2>2, <3>1, SameGraph DEF QueueOK
  <2>3. CASE t \notin in_queue
    <3>1. queue' = <<t>> \o queue \/ queue' = Append(queue, t)
      BY <1>3, <2>3 DEF Relax, Push
    <3>2. Range(queue') = Range(queue) \cup {t}
          /\ \A k, l \in DOMAIN queue' : queue'[k] = queue'[l] => k = l
      <4>1. CASE queue' = <<t>> \o queue
        BY <2>1, <2>3, <4>1, PushFront
      <4>2. CASE queue' = Append(queue, t)
        BY <2>1, <2>3, <4>2, PushBack
      <4>. QED  BY <3>1, <4>1, <4>2
    <3>. QED  BY <1>1, <1>5, <1>8, <2>1, <3>2, SameGraph DEF QueueOK
  <2>. QED  BY <2>2, <2>3
<1>11. ScanOK' /\ WalkOK'
  BY <1>1, <1>3, <1>5, <1>9 DEF ScanOK, WalkOK, Targets
<1>12. Relaxed'
  <2>. SUFFICES ASSUME NEW i \in Ids, NEW j \in Targets(i)
                PROVE  \/ distances'[j] <= distances'[i] + Weight(i, j)
                       \/ i \in in_queue'
                       \/ i = source /\ j \in edges_left'
    BY <1>1 DEF Relaxed, Targets, Weight
  <2>1. j \in Ids /\ Weight(i, j) \in Int
    BY TargetsFact
  <2>2. \/ distances[j] <= distances[i] + Weight(i, j)
        \/ i \in in_queue
        \/ i = source /\ j \in edges_left
    BY <1>1 DEF Relaxed
  <2>3. CASE i = t
    BY <1>8, <2>3
  <2>4. CASE i # t /\ distances[j] <= distances[i] + Weight(i, j)
    BY <1>9, <2>1, <2>4
  <2>5. CASE i = source /\ j \in edges_left
    <3>1. CASE j = t
      BY <1>3, <1>4, <1>5, <1>9, <2>5, <3>1
    <3>2. CASE j # t
      BY <1>1, <1>3, <2>5, <3>2
    <3>. QED  BY <3>1, <3>2
  <2>. QED  BY <1>8, <2>2, <2>3, <2>4, <2>5
<1>13. GraphOK'
  <2>1. ~NegativeLoop /\ \A v \in Ids \ Active : distances[v] = 0
    BY <1>1 DEF GraphOK
  <2>. QED  BY <1>1, <1>5, <1>9, <2>1, SameGraph DEF GraphOK
<1>14. AboveSolutions'
  <2>. SUFFICES ASSUME NEW y \in Solutions, \A v \in Ids : y[v] <= 0, NEW v \in Ids
                PROVE  y[v] <= distances'[v]
    BY <1>1, SameGraph DEF AboveSolutions
  <2>1. y[v] <= distances[v] /\ y[s] <= distances[s]
    BY DEF AboveSolutions
  <2>2. y[v] \in Int /\ y[s] \in Int /\ y[t] \in Int
    BY SolutionsType
  <2>. QED  BY <1>5, <1>9, <2>1, <2>2
<1>15. PredecessorsOK'
  <2>. SUFFICES ASSUME NEW v \in Ids, predecessor'[v] # None
                PROVE  v \in Targets(predecessor'[v])
                       /\ predecessor_weight'[v] = Weight(predecessor'[v], v)
    BY <1>1 DEF PredecessorsOK, Targets, Weight
  <2>1. CASE v = t
    BY <1>4, <1>5, <1>6, <1>8, <2>1
  <2>2. CASE v # t
    BY <1>6, <1>8, <2>2 DEF PredecessorsOK
  <2>. QED  BY <2>1, <2>2
<1>16. PathsOK'
  <2>. SUFFICES ASSUME NEW v \in Ids
                PROVE  /\ visited'[v] \subseteq Active \cup {v}
                       /\ v \in visited'[v]
                       /\ \A y \in Solutions : \A u \in visited'[v] :
                             y[v] - y[u] <= distances'[v] - distances'[u]
                       /\ Solutions # {} => Cardinality(visited'[v]) = path_edge_count'[v] + 1
    BY <1>1, SameGraph DEF PathsOK
  <2>1. CASE v # t
    <3>1. visited'[v] = visited[v] /\ path_edge_count'[v] = path_edge_count[v]
      BY <1>6, <1>8, <2>1
    <3>2. ASSUME NEW y \in Solutions, NEW u \in visited[v]
          PROVE  y[v] - y[u] <= distances'[v] - distances'[u]
      <4>1. u \in Ids
        BY <1>6
      <4>2. y[v] - y[u] <= distances[v] - distances[u]
        BY DEF PathsOK
      <4>3. y[v] \in Int /\ y[u] \in Int
        BY <4>1, SolutionsType
      <4>. QED  BY <1>9, <2>1, <4>1, <4>2, <4>3
    <3>. QED  BY <3>1, <3>2 DEF PathsOK
  <2>2. CASE v = t
    <3>1. visited'[t] = visited[s] \cup {t} /\ path_edge_count'[t] = path_edge_count[s] + 1
      BY <1>6, <1>8
    <3>2. visited[s] \subseteq Active
      BY <1>5 DEF PathsOK
    <3>3. ASSUME NEW y \in Solutions, NEW u \in visited[s] \cup {t}
          PROVE  y[t] - y[u] <= distances'[t] - distances'[u]
      <4>1. u \in Ids
        BY <1>6
      <4>2. y[t] \in Int /\ y[u] \in Int /\ y[s] \in Int
        BY <4>1, SolutionsType
      <4>3. CASE u = t
        BY <1>9, <4>2, <4>3
      <4>4. CASE u # t
        <5>1. y[s] - y[u] <= distances[s] - distances[u]
          BY <4>4 DEF PathsOK
        <5>. QED  BY <1>5, <1>9, <4>1, <4>2, <4>4, <5>1
      <4>. QED  BY <4>3, <4>4
    <3>4. ASSUME Solutions # {}
          PROVE  Cardinality(visited[s] \cup {t}) = path_edge_count[s] + 2
      <4>1. t \notin visited[s]
        BY <1>2, <1>3, <3>4, NotOnPath
      <4>2. IsFiniteSet(visited[s])
        BY <1>6, IdsAssumption, FS_Subset
      <4>3. Cardinality(visited[s] \cup {t}) = Cardinality(visited[s]) + 1
        BY <4>1, <4>2, FS_AddElement
      <4>4. Cardinality(visited[s]) = path_edge_count[s] + 1 /\ path_edge_count[s] \in Nat
        BY <1>6, <3>4 DEF PathsOK
      <4>. QED  BY <4>3, <4>4
    <3>5. path_edge_count[s] \in Nat
      BY <1>6
    <3>. QED  BY <2>2, <3>1, <3>2, <3>3, <3>4, <3>5
  <2>. QED  BY <2>1, <2>2
<1>. QED  BY <1>10, <1>11, <1>12, <1>13, <1>14, <1>15, <1>16

-----------------------------------------------------------------------------
(* The answers                                                             *)

\* An empty set of solutions is what the specification calls unsolvable.
LEMMA NoSolution ==
    ASSUME Solutions = {}
    PROVE  Promise!Unsolvable(constraints)
BY DEF Solutions, Promise!Unsolvable

\* A variable cannot be less than itself.
LEMMA LoopUnsolvable ==
    ASSUME TypeOK, NegativeLoop
    PROVE  Promise!Unsolvable(constraints)
<1>. SUFFICES ASSUME NEW y \in Solutions PROVE FALSE
  BY NoSolution
<1>1. PICK e \in DOMAIN constraints : e[1] = e[2] /\ constraints[e] < 0
  BY DEF NegativeLoop
<1>2. e[1] \in Ids /\ constraints[e] \in Int
  BY <1>1 DEF TypeOK, CallerType
<1>3. y[e[2]] - y[e[1]] <= constraints[e]
  BY <1>1 DEF Solutions, Promise!IsSolution
<1>4. y[e[1]] \in Int
  BY <1>2, SolutionsType
<1>. QED  BY <1>1, <1>2, <1>3, <1>4

\* A path with as many edges as there are variables meets one of them twice.
LEMMA TooLongUnsolvable ==
    ASSUME TypeOK, SearchOK, NEW t \in edges_left, Improves(t), TooLong
    PROVE  Promise!Unsolvable(constraints)
<1>. SUFFICES ASSUME NEW y \in Solutions PROVE FALSE
  BY NoSolution
<1>1. source \in Ids /\ source \in Active /\ t \in Active
  BY ScannedEdge DEF SearchOK
<1>2. t \notin visited[source]
  BY NotOnPath
<1>3. visited[source] \cup {t} \subseteq Active
  BY <1>1 DEF SearchOK, PathsOK
<1>4. IsFiniteSet(Active)
  BY ActiveType
<1>5. IsFiniteSet(visited[source])
  BY <1>3, <1>4, FS_Subset
<1>6. Cardinality(visited[source] \cup {t}) = Cardinality(visited[source]) + 1
  BY <1>2, <1>5, FS_AddElement
<1>7. Cardinality(visited[source]) = path_edge_count[source] + 1 /\ path_edge_count[source] \in Nat
  BY <1>1 DEF SearchOK, PathsOK, TypeOK, LabelsType
<1>8. Cardinality(visited[source] \cup {t}) <= Cardinality(Active)
  BY <1>3, <1>4, FS_Subset
<1>9. Cardinality(Active) \in Nat
  BY <1>4, FS_CardinalityType
<1>. QED  BY <1>6, <1>7, <1>8, <1>9 DEF TooLong, active_vertex_count

\* The edges of a negative cycle cannot all be satisfied.
LEMMA CycleUnsolvable ==
    ASSUME TypeOK, SearchOK, pc = "walk", Closes
    PROVE  Promise!Unsolvable(constraints)
<1>. SUFFICES ASSUME NEW y \in Solutions PROVE FALSE
  BY NoSolution
<1>1. target \in edges_left
  BY DEF SearchOK, ScanOK
<1>2. /\ source \in Ids /\ target \in Ids /\ Weight(source, target) \in Int
      /\ y[target] - y[source] <= Weight(source, target)
  BY <1>1, ScannedEdge DEF SearchOK
<1>3. y[source] - y[target] <= cycle_weight - Weight(source, target)
  BY DEF SearchOK, WalkOK, Closes
<1>4. y[source] \in Int /\ y[target] \in Int
  BY <1>2, SolutionsType
<1>5. cycle_weight \in Int /\ cycle_weight < 0
  BY DEF TypeOK, WalkType, Closes
<1>. QED  BY <1>2, <1>3, <1>4, <1>5

\* When the queue is empty, the distances are the greatest solution.
LEMMA DistancesAreGreatest ==
    ASSUME TypeOK, SearchOK, pc = "scan", edges_left = {}, queue = << >>
    PROVE  Promise!IsGreatest(distances, constraints)
<1>1. in_queue = {}
  BY Empty DEF SearchOK, QueueOK, Range
<1>2. ASSUME NEW e \in DOMAIN constraints
      PROVE  distances[e[2]] - distances[e[1]] <= constraints[e]
  <2>1. e \in Ids \X Ids /\ constraints[e] \in Int
    BY DEF TypeOK, CallerType
  <2>2. PICK i \in Ids, j \in Ids : e = <<i, j>>
    BY <2>1
  <2>3. distances[i] \in Int /\ distances[j] \in Int
    BY DEF TypeOK, LabelsType
  <2>4. CASE i = j
    <3>1. ~(constraints[e] < 0)
      BY <2>2, <2>4 DEF SearchOK, GraphOK, NegativeLoop
    <3>. QED  BY <2>1, <2>2, <2>3, <2>4, <3>1
  <2>5. CASE i # j
    <3>1. j \in Targets(i) /\ Weight(i, j) = constraints[e]
      BY <2>2, <2>5 DEF Targets, Weight
    <3>2. distances[j] <= distances[i] + Weight(i, j)
      BY <1>1, <3>1 DEF SearchOK, Relaxed
    <3>. QED  BY <2>1, <2>2, <2>3, <3>1, <3>2
  <2>. QED  BY <2>4, <2>5
<1>3. Promise!IsSolution(distances, constraints)
  BY <1>2 DEF Promise!IsSolution
<1>4. ASSUME NEW y \in [Ids -> Values], Promise!IsSolution(y, constraints),
             \A v \in Ids : y[v] <= 0
      PROVE  \A v \in Ids : y[v] <= distances[v]
  <2>1. y \in Solutions
    BY <1>4 DEF Solutions
  <2>. QED  BY <1>4, <2>1 DEF SearchOK, AboveSolutions
<1>. QED  BY <1>3, <1>4 DEF Promise!IsGreatest

\* What the caller reads are the distances, unless one does not fit.
LEMMA ReadsDistances ==
    ASSUME TypeOK, SearchOK, ReturnFeasible, outcome' = "feasible"
    PROVE  /\ Promise!Reading(vals', negate_solution) = distances
           /\ Active \subseteq DOMAIN vals'
<1>1. \A v \in Active : Fits(Signed(distances[v]))
  BY Zenon DEF ReturnFeasible
<1>2. vals' = [v \in Returned |-> IF v \in Active THEN Cast(Signed(distances[v])) ELSE 0]
  BY DEF ReturnFeasible
<1>3. Active \subseteq Ids
  BY ActiveType
<1>4. Active \subseteq Returned /\ Returned \subseteq Ids
  <2>1. \A a \in Active : a <= a
    BY <1>3, IdsAssumption
  <2>. QED  BY <1>3, <2>1 DEF Returned
<1>5. distances \in [Ids -> Int] /\ negate_solution \in BOOLEAN
  BY DEF TypeOK, LabelsType, CallerType
<1>6. ASSUME NEW v \in Ids
      PROVE  Promise!Reading(vals', negate_solution)[v] = distances[v]
  <2>1. CASE v \in Active
    <3>1. distances[v] \in Int
      BY <1>5
    <3>2. Signed(distances[v]) \in Int
      BY <3>1 DEF Signed
    <3>3. vals'[v] = Signed(distances[v]) /\ v \in DOMAIN vals'
      BY <1>1, <1>2, <1>4, <2>1, <3>2, CastFits
    <3>4. -(-distances[v]) = distances[v]
      BY <3>1
    <3>. QED  BY <3>3, <3>4 DEF Signed, Promise!Reading
  <2>2. CASE v \notin Active
    <3>1. distances[v] = 0
      BY <2>2 DEF SearchOK, GraphOK
    <3>2. v \in DOMAIN vals' => vals'[v] = 0
      BY <1>2, <2>2
    <3>3. -distances[v] = 0
      <4>1. distances[v] \in Int
        BY <1>5
      <4>2. (-distances[v] = 0) <=> (distances[v] = 0)
        BY <4>1
      <4>. QED  BY <3>1, <4>2
    <3>4. v \in DOMAIN vals' => -vals'[v] = distances[v] /\ vals'[v] = distances[v]
      BY <3>1, <3>2, <3>3, Zenon
    <3>. QED  BY <3>1, <3>4 DEF Promise!Reading
  <2>. QED  BY <2>1, <2>2
<1>7. Promise!Reading(vals', negate_solution) = [v \in Ids |-> distances[v]]
  BY <1>6 DEF Promise!Reading
<1>. QED  BY <1>2, <1>4, <1>5, <1>7

-----------------------------------------------------------------------------
(* The invariant and the theorems                                          *)

\* A call that returns leaves the search in order.
LEMMA ReturnSearch ==
    ASSUME TypeOK', Return
    PROVE  IdleOK' /\ SearchOK' /\ pc' = "idle"
<1>1. IdleOK' /\ pc' = "idle"
  BY DEF Return, IdleOK
<1>. QED  BY <1>1, IdleIsOKNext

\* A call that returns false does so for a reason.
LEMMA InfeasibleStep ==
    ASSUME TypeOK, SearchOK, NEW t \in Ids, PathTooLong(t) \/ CloseCycle
    PROVE  Promise!Unsolvable(constraints) /\ ReturnInfeasible
<1>1. CASE PathTooLong(t)
  BY <1>1, TooLongUnsolvable DEF PathTooLong, IsNext
<1>2. CASE CloseCycle
  BY <1>2, CycleUnsolvable DEF CloseCycle
<1>. QED  BY <1>1, <1>2

\* A call that returns false for a reason keeps the inductive invariant.
LEMMA InfeasibleNext ==
    ASSUME TypeOK', ReturnInfeasible, Promise!Unsolvable(constraints)
    PROVE  Inductive'
<1>1. Return /\ outcome' = "infeasible" /\ constraints' = constraints
  BY DEF ReturnInfeasible, Return
<1>2. InfeasibleIsUnsolvable' /\ AnswerIsGreatest'
  BY <1>1 DEF InfeasibleIsUnsolvable, AnswerIsGreatest, Promise!Unsolvable
<1>. QED  BY <1>1, <1>2, ReturnSearch DEF Inductive

\* A step inside a call changes neither the constraints nor the last answer.
LEMMA InsideCall ==
    ASSUME TypeOK', Inductive, UNCHANGED <<constraints, outcome>>, pc' # "idle", SearchOK'
    PROVE  Inductive'
<1>1. IdleOK' /\ AnswerIsGreatest'
  BY DEF IdleOK, AnswerIsGreatest
<1>2. InfeasibleIsUnsolvable'
  BY DEF Inductive, InfeasibleIsUnsolvable, Promise!Unsolvable, Promise!IsSolution
<1>. QED  BY <1>1, <1>2 DEF Inductive

\* Every step keeps the inductive invariant.
LEMMA InductiveStep ==
    ASSUME Inductive, [Next]_vars
    PROVE  Inductive'
<1>1. TypeOK /\ IdleOK /\ SearchOK
  BY DEF Inductive
<1>2. TypeOK'
  BY <1>1, StepType, SourceIsOK DEF SearchOK
<1>3. CASE UNCHANGED vars
  <2>1. /\ UNCHANGED <<constraints, outcome, vals, pc, negate_solution>>
        /\ UNCHANGED labels /\ UNCHANGED fifo /\ UNCHANGED scan /\ UNCHANGED walk
    BY <1>3 DEF vars, caller
  <2>2. IdleOK' /\ QueueOK'
    BY <1>1, <2>1, SameGraph DEF IdleOK, SearchOK, QueueOK, labels, fifo, scan
  <2>3. ScanOK' /\ WalkOK'
    BY <1>1, <2>1, SameGraph DEF SearchOK, ScanOK, WalkOK, Improves, Weight, Targets, labels, scan, walk
  <2>4. Relaxed' /\ PredecessorsOK'
    BY <1>1, <2>1 DEF SearchOK, Relaxed, PredecessorsOK, Weight, Targets, labels, fifo, scan
  <2>5. GraphOK' /\ AboveSolutions' /\ PathsOK'
    BY <1>1, <2>1, SameGraph DEF SearchOK, GraphOK, AboveSolutions, PathsOK, labels
  <2>6. AnswerIsGreatest' /\ InfeasibleIsUnsolvable'
    BY <2>1 DEF Inductive, AnswerIsGreatest, InfeasibleIsUnsolvable, Active,
                Promise!Unsolvable, Promise!IsGreatest, Promise!IsSolution, Promise!Reading
  <2>. QED  BY <1>2, <2>2, <2>3, <2>4, <2>5, <2>6 DEF Inductive, SearchOK
<1>4. ASSUME NEW e \in Pairs, NEW w \in Weights, AddConstraint(e[1], e[2], w)
      PROVE  Inductive'
  <2>1. pc' = "idle" /\ IdleOK'
    BY <1>1, <1>4 DEF AddConstraint, IdleOK, labels, fifo, scan
  <2>2. AnswerIsGreatest' /\ InfeasibleIsUnsolvable'
    BY <1>4 DEF AddConstraint, AnswerIsGreatest, InfeasibleIsUnsolvable
  <2>. QED  BY <1>2, <2>1, <2>2, IdleIsOKNext DEF Inductive
<1>5. CASE SolveNegativeLoop
  <2>1. pc' = "idle" /\ IdleOK' /\ constraints' = constraints /\ outcome' = "infeasible"
    BY <1>1, <1>5 DEF SolveNegativeLoop, IdleOK, labels, fifo, scan
  <2>2. Promise!Unsolvable(constraints)
    BY <1>1, <1>5, LoopUnsolvable DEF SolveNegativeLoop
  <2>3. AnswerIsGreatest' /\ InfeasibleIsUnsolvable'
    BY <2>1, <2>2 DEF AnswerIsGreatest, InfeasibleIsUnsolvable, Promise!Unsolvable
  <2>. QED  BY <1>2, <2>1, <2>3, IdleIsOKNext DEF Inductive
<1>6. ASSUME NEW negate \in BOOLEAN, Solve(negate)
      PROVE  Inductive'
  BY <1>1, <1>2, <1>6, SolveSearch, InsideCall DEF Solve
<1>7. CASE PopFront
  BY <1>1, <1>2, <1>7, PopFrontSearch, InsideCall DEF PopFront, caller
<1>8. ASSUME NEW t \in Ids, SkipEdge(t)
      PROVE  Inductive'
  BY <1>1, <1>2, <1>8, SkipEdgeSearch, InsideCall DEF SkipEdge, caller
<1>9. ASSUME NEW t \in Ids, StartWalk(t)
      PROVE  Inductive'
  BY <1>1, <1>2, <1>9, StartWalkSearch, InsideCall DEF StartWalk, caller
<1>10. ASSUME NEW t \in Ids, PathTooLong(t) \/ CloseCycle
       PROVE  Inductive'
  BY <1>1, <1>2, <1>10, InfeasibleStep, InfeasibleNext
<1>11. CASE CloseCycle
  <2>1. vertex \in Ids
    BY <1>1, <1>11 DEF SearchOK, WalkOK, CloseCycle
  <2>. QED  BY <1>10, <1>11, <2>1
<1>12. CASE Ascend
  BY <1>1, <1>2, <1>12, AscendSearch, InsideCall DEF Ascend, caller
<1>13. CASE Relax
  BY <1>1, <1>2, <1>13, RelaxSearch, InsideCall DEF Relax, caller
<1>14. CASE ReturnFeasible
  <2>1. Return /\ outcome' \in {"feasible", "overflow"}
    BY <1>14, Zenon DEF ReturnFeasible
  <2>2. InfeasibleIsUnsolvable'
    BY <2>1 DEF InfeasibleIsUnsolvable
  <2>3. AnswerIsGreatest'
    <3>. SUFFICES ASSUME outcome' = "feasible"
                  PROVE  /\ Active' \subseteq DOMAIN vals'
                         /\ Promise!IsGreatest(Promise!Reading(vals, negate_solution), constraints)'
      BY DEF AnswerIsGreatest
    <3>1. constraints' = constraints /\ negate_solution' = negate_solution
      BY <2>1 DEF Return
    <3>2. Promise!Reading(vals', negate_solution) = distances /\ Active \subseteq DOMAIN vals'
      BY <1>1, <1>14, ReadsDistances
    <3>3. Promise!IsGreatest(distances, constraints)
      BY <1>1, <1>14, DistancesAreGreatest DEF ReturnFeasible
    <3>4. Promise!Reading(vals, negate_solution)' = distances
      BY <3>1, <3>2 DEF Promise!Reading
    <3>5. Promise!IsGreatest(Promise!Reading(vals, negate_solution), constraints)'
      BY <3>1, <3>3, <3>4 DEF Promise!IsGreatest, Promise!IsSolution
    <3>. QED  BY <3>1, <3>2, <3>5, SameGraph
  <2>. QED  BY <1>2, <2>1, <2>2, <2>3, ReturnSearch DEF Inductive
<1>. QED  BY <1>3, <1>4, <1>5, <1>6, <1>7, <1>8, <1>9, <1>10, <1>11, <1>12, <1>13, <1>14
          DEF Next, Step

\* The search keeps the inductive invariant.
THEOREM InductiveHolds == Spec => []Inductive
<1>1. Init => Inductive
  BY InitSearch
<1>2. Inductive /\ [Next]_vars => Inductive'
  BY InductiveStep
<1>. QED  BY <1>1, <1>2, PTL DEF Spec

\* When the solver reports a solution, it is the greatest one without positive
\* values, for every system of constraints.
THEOREM AnswerIsGreatestHolds == Spec => []AnswerIsGreatest
<1>1. Inductive => AnswerIsGreatest
  BY DEF Inductive
<1>. QED  BY <1>1, InductiveHolds, PTL

\* When it reports that there is none, there is none: no false alarms.
THEOREM InfeasibleIsUnsolvableHolds == Spec => []InfeasibleIsUnsolvable
<1>1. Inductive => InfeasibleIsUnsolvable
  BY DEF Inductive
<1>. QED  BY <1>1, InductiveHolds, PTL

\* The circular queue has room for every vertex that is pushed.
THEOREM QueueFitsHolds == Spec => []QueueFits
<1>1. Inductive => QueueFits
  <2>. SUFFICES ASSUME Inductive PROVE QueueFits
    OBVIOUS
  <2>1. TypeOK /\ QueueOK
    BY DEF Inductive, SearchOK
  <2>2. queue \in Seq(Ids)
    BY <2>1 DEF TypeOK, QueueType
  <2>3. Len(queue) \in Nat /\ DOMAIN queue = 1 .. Len(queue)
    BY <2>2
  <2>4. queue \in Injection(1 .. Len(queue), Active)
    BY <2>1, <2>2, <2>3 DEF QueueOK, Range, Injection, IsInjective
  <2>5. IsFiniteSet(Active)
    BY <2>1, ActiveType
  <2>6. Cardinality(1 .. Len(queue)) <= Cardinality(Active)
    BY <2>4, <2>5, FS_Injection
  <2>7. Cardinality(1 .. Len(queue)) = Len(queue)
    <3>1. PICK n \in Nat : n = Len(queue)
      BY <2>3
    <3>2. Cardinality(1 .. n) = IF 1 > n THEN 0 ELSE n - 1 + 1
      BY FS_Interval
    <3>. QED  BY <3>1, <3>2
  <2>. QED  BY <2>6, <2>7 DEF QueueFits, active_vertex_count
<1>. QED  BY <1>1, InductiveHolds, PTL

\* No step raises a distance: an edge is relaxed only if it improves its target.
LEMMA LoweredStep ==
    ASSUME Inductive, Lowered, [Next]_vars
    PROVE  Lowered'
<1>1. TypeOK /\ SearchOK
  BY DEF Inductive
<1>2. CASE Relax
  <2>1. source \in Ids /\ target \in Ids /\ Weight(source, target) \in Int
    BY <1>1, <1>2, ScannedEdge DEF Relax, SearchOK, ScanOK
  <2>2. source_distance + Weight(source, target) < distances[target]
    BY <1>1, <1>2 DEF Relax, SearchOK, ScanOK, Improves
  <2>3. distances \in [Ids -> Int] /\ source_distance \in Int
    BY <1>1 DEF TypeOK, LabelsType, ScanType
  <2>4. distances' = [distances EXCEPT ![target] = source_distance + Weight(source, target)]
    BY <1>2 DEF Relax
  <2>. QED  BY <2>1, <2>2, <2>3, <2>4 DEF Lowered
<1>3. CASE Return
  BY <1>3 DEF Return, Lowered
<1>4. CASE UNCHANGED distances
  BY <1>4 DEF Lowered
<1>5. Relax \/ Return \/ UNCHANGED distances
  BY DEF Next, Step, AddConstraint, SolveNegativeLoop, Solve, PopFront, SkipEdge, PathTooLong,
         StartWalk, Ascend, CloseCycle, ReturnFeasible, ReturnInfeasible, vars, labels
<1>. QED  BY <1>2, <1>3, <1>4, <1>5

\* When a value does not fit, no solution without positive values fits: each is
\* at most the distances.
LEMMA OverflowIsReal ==
    ASSUME TypeOK, SearchOK, Lowered, ReturnFeasible, outcome' = "overflow"
    PROVE  Promise!AbstractOverflow(negate_solution)
<1>1. PICK v \in Active : ~Fits(Signed(distances[v]))
  BY Zenon DEF ReturnFeasible
<1>2. v \in Ids /\ distances[v] \in Int /\ distances[v] <= 0
  BY <1>1, ActiveType DEF TypeOK, LabelsType, Lowered
<1>3. ASSUME NEW y \in [Ids -> Values], Promise!IsSolution(y, constraints),
             \A u \in Ids : y[u] <= 0
      PROVE  (IF negate_solution THEN -y[v] ELSE y[v]) \notin -Half .. Half - 1
  <2>1. y \in Solutions
    BY <1>3 DEF Solutions
  <2>2. y[v] <= distances[v]
    BY <1>2, <1>3, <2>1 DEF SearchOK, AboveSolutions
  <2>3. y[v] \in Int
    BY <1>2, NumbersAssumption
  <2>. QED  BY <1>1, <1>2, <2>2, <2>3, NumbersAssumption DEF Fits, Signed
<1>4. constraints' = constraints
  BY DEF ReturnFeasible, Return
<1>. QED  BY <1>2, <1>3, <1>4 DEF Promise!AbstractOverflow

\* Every step of the solver is a step of the one step specification, or
\* changes nothing that its caller can see.
LEMMA StepImplements ==
    ASSUME Inductive, Lowered, [Next]_vars
    PROVE  [Promise!AbstractNext]_(Promise!abstractVars)
<1>. USE DEF Promise!AbstractNext, Promise!abstractVars
<1>1. TypeOK /\ SearchOK
  BY DEF Inductive
<1>2. CASE UNCHANGED vars
  BY <1>2 DEF vars, caller
<1>3. ASSUME NEW e \in Pairs, NEW w \in Weights, AddConstraint(e[1], e[2], w)
      PROVE  Promise!AbstractNext
  <2>1. e[1] \in Ids /\ e[2] \in Ids
    BY IdsAssumption
  <2>2. Promise!AbstractAdd(e[1], e[2], w)
    BY <1>3 DEF AddConstraint, Promise!AbstractAdd
  <2>. QED  BY <2>1, <2>2
<1>4. CASE SolveNegativeLoop
  BY <1>1, <1>4, LoopUnsolvable DEF SolveNegativeLoop, Promise!AbstractInfeasible
<1>5. ASSUME NEW t \in Ids, PathTooLong(t) \/ CloseCycle
      PROVE  Promise!AbstractInfeasible
  BY <1>1, <1>5, InfeasibleStep DEF ReturnInfeasible, Return, Promise!AbstractInfeasible
<1>6. CASE CloseCycle
  <2>1. vertex \in Ids
    BY <1>1, <1>6 DEF SearchOK, WalkOK, CloseCycle
  <2>. QED  BY <1>5, <1>6, <2>1
<1>7. CASE ReturnFeasible
  <2>1. /\ outcome' \in {"feasible", "overflow"} /\ constraints' = constraints
        /\ negate_solution \in BOOLEAN
    <3>1. outcome' \in {"feasible", "overflow"}
      BY <1>7, Zenon DEF ReturnFeasible
    <3>. QED  BY <1>1, <1>7, <3>1 DEF ReturnFeasible, Return, TypeOK, CallerType
  <2>2. CASE outcome' = "overflow"
    BY <1>1, <1>7, <2>1, <2>2, OverflowIsReal
  <2>3. CASE outcome' = "feasible"
    <3>1. Promise!Reading(vals', negate_solution) = distances /\ Active \subseteq DOMAIN vals'
      BY <1>1, <1>7, <2>3, ReadsDistances
    <3>2. Promise!IsGreatest(distances, constraints)
      BY <1>1, <1>7, DistancesAreGreatest DEF ReturnFeasible
    <3>3. Promise!AbstractFeasible(negate_solution)
      BY <2>1, <2>3, <3>1, <3>2 DEF Promise!AbstractFeasible, Promise!ActiveIds, Active
    <3>. QED  BY <2>1, <3>3
  <2>. QED  BY <2>1, <2>2, <2>3
<1>8. CASE \/ \E negate \in BOOLEAN : Solve(negate)
           \/ PopFront \/ Ascend \/ Relax
           \/ \E t \in Ids : SkipEdge(t) \/ StartWalk(t)
  BY <1>8 DEF Solve, PopFront, Ascend, Relax, SkipEdge, StartWalk, caller
<1>. QED  BY <1>2, <1>3, <1>4, <1>5, <1>6, <1>7, <1>8 DEF Next, Step

\* The search implements the specification of the solver: add constraints, and
\* answer a call in one step.
THEOREM Refinement == Spec => Implements
<1>1. Init => Promise!AbstractInit
  BY DEF Init, Promise!AbstractInit
<1>2. Init => Lowered
  BY DEF Init, Lowered
<1>3. Inductive /\ Lowered /\ [Next]_vars => Lowered'
  BY LoweredStep
<1>4. Inductive /\ Lowered /\ [Next]_vars => [Promise!AbstractNext]_(Promise!abstractVars)
  BY StepImplements
<1>. QED  BY <1>1, <1>2, <1>3, <1>4, InductiveHolds, PTL DEF Spec, Implements, Promise!AbstractSpec
=============================================================================
