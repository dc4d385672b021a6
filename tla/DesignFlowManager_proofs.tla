---------------------- MODULE DesignFlowManager_proofs ----------------------
(* Proofs about DesignFlowManager, for every set of steps.                 *)
EXTENDS DesignFlowManager, TLAPS

-----------------------------------------------------------------------------
(* Closure                                                                 *)

\* A closure contains its seeds and only nodes.
LEMMA ClosureSeeds ==
    ASSUME NEW S \in SUBSET Nodes, NEW E
    PROVE  S \subseteq Closure(S, E) /\ Closure(S, E) \subseteq Nodes
BY DEF Closure

\* A closure is closed.
LEMMA ClosureStep ==
    ASSUME NEW S, NEW E, NEW x \in Closure(S, E), NEW y \in Nodes, <<x, y>> \in E
    PROVE  y \in Closure(S, E)
BY DEF Closure

\* A closure is inside every closed set of nodes that contains the seeds.
LEMMA ClosureLeast ==
    ASSUME NEW S, NEW E, NEW T \in SUBSET Nodes, S \subseteq T,
           \A e \in E : e[1] \in T => e[2] \in T
    PROVE  Closure(S, E) \subseteq T
BY DEF Closure

-----------------------------------------------------------------------------
(* What RecursivelyAddSteps adds                                           *)

\* Relationships are between steps and agree with the order.
LEMMA RelType ==
    ASSUME TypeOK, NEW x \in Steps
    PROVE  /\ rel.dep[x] \in SUBSET Steps
           /\ rel.prec[x] \in SUBSET Steps
           /\ \A y \in rel.dep[x] \cup rel.prec[x] : <<y, x>> \in Before
BY RelationsAssumption, AcyclicAssumption DEF TypeOK, RelationType

\* The keys stay well formed.
LEMMA RekeyType ==
    ASSUME TypeOK, NEW st, NEW members, NEW updated
    PROVE  Rekey(st, members, updated) \in [Nodes -> BOOLEAN]
<1>1. ASSUME NEW x \in Nodes
      PROVE  (IF x \in members \ updated THEN late[x] ELSE IsLate(st, x)) \in BOOLEAN
  <2>1. late[x] \in BOOLEAN
    BY DEF TypeOK
  <2>2. IsLate(st, x) \in BOOLEAN
    BY SMT DEF IsLate
  <2> QED BY <2>1, <2>2, Zenon
<1> QED BY <1>1, Zenon DEF Rekey

\* The steps that become necessary were new or unnecessary, and with a step
\* its dependencies do, unless they are necessary or executed already.
LEMMA NecessaryFacts ==
    ASSUME TypeOK, NEW N \in SUBSET Steps
    PROVE  /\ Necessary(N) \subseteq Open
           /\ \A x \in N : x \notin Open \/ x \in Necessary(N)
           /\ \A x \in Necessary(N) : \A y \in rel.dep[x] : y \notin Open \/ y \in Necessary(N)
<1> DEFINE E == {e \in Steps \X Steps : e[2] \in rel.dep[e[1]] /\ e[2] \in Open}
<1>1. Open \in SUBSET Nodes /\ Open \subseteq Steps
  BY DEF Open, Nodes
<1>2. Necessary(N) = Closure(N \cap Open, E)
  BY DEF Necessary
<1>3. Necessary(N) \subseteq Open
  <2>1. \A e \in E : e[1] \in Open => e[2] \in Open
    OBVIOUS
  <2> QED BY <1>1, <1>2, <2>1, ClosureLeast
<1>4. \A x \in N : x \notin Open \/ x \in Necessary(N)
  <2>1. N \cap Open \in SUBSET Nodes
    BY <1>1
  <2> QED BY <2>1, <1>2, ClosureSeeds
<1>5. ASSUME NEW x \in Necessary(N), NEW y \in rel.dep[x], y \in Open
      PROVE  y \in Necessary(N)
  <2>1. x \in Steps /\ y \in Steps /\ y \in Nodes
    BY <1>1, <1>3, <1>5 DEF Nodes
  <2>2. <<x, y>> \in E
    BY <2>1, <1>5
  <2> QED BY <2>1, <2>2, <1>2, ClosureStep
<1> QED BY <1>3, <1>4, <1>5

\* The steps that are added as unnecessary are new, and with a step all its
\* relationships are in the graph.
LEMMA UnneededFacts ==
    ASSUME TypeOK, NEW nec \in SUBSET Steps, NEW U \in SUBSET Steps
    PROVE  /\ Unneeded(nec, U) \subseteq Missing
           /\ \A x \in U : x \notin Missing \/ x \in Unneeded(nec, U)
           /\ \A x \in nec : \A y \in rel.prec[x] : y \notin Missing \/ y \in Unneeded(nec, U)
           /\ \A x \in Unneeded(nec, U) : \A y \in rel.dep[x] \cup rel.prec[x] :
                 y \notin Missing \/ y \in Unneeded(nec, U)
<1> DEFINE E == {e \in Steps \X Steps :
                    e[2] \in rel.dep[e[1]] \cup rel.prec[e[1]] /\ e[2] \in Missing}
           S == (U \cup UNION {rel.prec[x] : x \in nec}) \cap Missing
<1>1. Missing \in SUBSET Nodes /\ Missing \subseteq Steps
  BY DEF Missing, Nodes
<1>2. Unneeded(nec, U) = Closure(S, E)
  BY DEF Unneeded
<1>3. Unneeded(nec, U) \subseteq Missing
  <2>1. \A e \in E : e[1] \in Missing => e[2] \in Missing
    OBVIOUS
  <2>2. S \subseteq Missing
    OBVIOUS
  <2> QED BY <1>1, <1>2, <2>1, <2>2, ClosureLeast
<1>4. S \subseteq Unneeded(nec, U)
  <2>1. S \in SUBSET Nodes
    BY <1>1
  <2> QED BY <2>1, <1>2, ClosureSeeds
<1>5. ASSUME NEW x \in Unneeded(nec, U), NEW y \in rel.dep[x] \cup rel.prec[x], y \in Missing
      PROVE  y \in Unneeded(nec, U)
  <2>1. x \in Steps /\ y \in Steps /\ y \in Nodes
    BY <1>1, <1>3, <1>5 DEF Nodes
  <2>2. <<x, y>> \in E
    BY <2>1, <1>5
  <2> QED BY <2>1, <2>2, <1>2, ClosureStep
<1> QED BY <1>3, <1>4, <1>5

-----------------------------------------------------------------------------
(* The last and the first pending step                                     *)

Core == TypeOK /\ EdgesExist /\ EdgesCurrent /\ HasSuccessor /\ ExecutedClosed

SomePending == \E s \in Steps : status[s] \in Pending
ExitWaits == \E y \in Steps : <<y, Exit>> \in edges /\ status[y] \in Pending

\* The last pending step can only be followed by the exit.
LEMMA LastPending == Core /\ SomePending => ExitWaits
<1> SUFFICES ASSUME Core, SomePending PROVE ExitWaits
  OBVIOUS
<1> DEFINE T == {s \in Steps : status[s] \in Pending}
<1>1. T \in SUBSET Steps /\ T # {}
  BY DEF SomePending
<1>2. PICK x \in T : \A y \in T : <<x, y>> \notin Before
  BY <1>1, AcyclicAssumption
<1>3. PICK y \in Nodes : <<x, y>> \in edges
  BY <1>2 DEF Core, HasSuccessor, Pending
<1>4. y = Exit
  <2>1. SUFFICES ASSUME y # Exit PROVE FALSE
    OBVIOUS
  <2>2. y \in Steps
    BY <2>1 DEF Nodes
  <2>3. <<x, y>> \in Before
    <3>1. x \in rel.dep[y] \cup rel.prec[y]
      BY <1>3, <2>1 DEF Core, EdgesCurrent
    <3> QED BY <3>1, <2>2, RelType DEF Core
  <2>4. status[y] \notin Done
    <3>1. status[x] \notin Done
      BY <1>2 DEF Pending, Done
    <3> QED BY <3>1, <1>3 DEF Core, ExecutedClosed
  <2>5. status[y] \in Status /\ status[y] # "NONEXISTENT"
    BY <1>3 DEF Core, EdgesExist, TypeOK
  <2>6. y \in T
    BY <2>2, <2>4, <2>5 DEF Status
  <2> QED BY <1>2, <2>3, <2>6
<1> QED BY <1>2, <1>3, <1>4 DEF ExitWaits

\* Once the exit is executed no step is pending.
LEMMA ExitDoneAllDone == Core /\ status[Exit] = "EMPTY" => ~SomePending
<1> SUFFICES ASSUME Core, status[Exit] = "EMPTY", SomePending PROVE FALSE
  OBVIOUS
<1>1. PICK y \in Steps : <<y, Exit>> \in edges /\ status[y] \in Pending
  BY LastPending DEF ExitWaits
<1>2. status[y] \in Done
  BY <1>1 DEF Core, ExecutedClosed, Done
<1> QED BY <1>1, <1>2 DEF Done, Pending

\* The first pending step is in the priority set.
LEMMA FirstPending == TypeOK /\ EdgesCurrent /\ NoStall /\ SomePending => ready # {}
<1> SUFFICES ASSUME TypeOK, EdgesCurrent, NoStall, SomePending PROVE ready # {}
  OBVIOUS
<1> DEFINE T == {s \in Steps : status[s] \in Pending}
<1>1. T \in SUBSET Steps /\ T # {}
  BY DEF SomePending
<1>2. PICK x \in T : \A y \in T : <<y, x>> \notin Before
  BY <1>1, AcyclicAssumption
<1>3. ASSUME NEW y \in Steps, <<y, x>> \in edges, status[y] \in Pending PROVE FALSE
  <2>1. x # Exit
    BY <1>2, StepsAssumption
  <2>2. y \in rel.dep[x] \cup rel.prec[x]
    BY <1>3, <2>1 DEF EdgesCurrent
  <2>3. <<y, x>> \in Before
    BY <1>2, <2>2, RelType
  <2> QED BY <1>2, <1>3, <2>3
<1> QED BY <1>2, <1>3 DEF NoStall

-----------------------------------------------------------------------------
(* RecursivelyAddSteps preserves the invariant                              *)

\* What a call may do besides adding N as necessary and U as unnecessary: give
\* pending steps edges from steps that were asked for, and take steps out of
\* the priority set that got such an edge from a pending one.
AddingAllowed(N, U, members, newEdges) ==
    /\ status[Exit] = "UNEXECUTED" /\ Exit \notin ready
    /\ N \in SUBSET Steps /\ U \in SUBSET Steps
    /\ members \in SUBSET ready
    /\ newEdges \in SUBSET (Steps \X Steps)
    /\ \A e \in newEdges :
          /\ status[e[2]] \in Pending
          /\ e[1] \in rel.dep[e[2]] \cup rel.prec[e[2]]
          /\ e[1] \in N \cup U
    /\ \A x \in ready \ members :
          \E e \in newEdges : e[2] = x /\ status[e[1]] \notin Done

\* NoStall, for the steps.
NoStepForgotten ==
    \A x \in Steps : status[x] \in Pending =>
        x \in ready \/ \E y \in Steps : <<y, x>> \in edges /\ status[y] \in Pending

\* RecursivelyAddSteps keeps the graph in order and forgets no step.
LEMMA AddPreserves ==
    ASSUME Inductive,
           NEW N, NEW U, NEW members, NEW newEdges,
           AddingAllowed(N, U, members, newEdges),
           RecursivelyAddSteps(N, U, members, newEdges),
           UNCHANGED <<rel, phase, invalidations>>
    PROVE  /\ Core' /\ ReadyPending' /\ NoStepForgotten'
           /\ status'[Exit] = "UNEXECUTED" /\ Exit \notin ready'
           /\ \A x \in Steps : status'[x] \in Done => status[x] \in Done
           /\ \A x \in Steps : status[x] \in Pending => status'[x] \in Pending
<1> USE DEF AddingAllowed
<1> DEFINE nec == Necessary(N)
           unn == Unneeded(nec, U)
<1>0. TypeOK
  BY DEF Inductive
<1>1. /\ nec \subseteq Open /\ nec \in SUBSET Steps
      /\ \A x \in N : x \notin Open \/ x \in nec
      /\ \A x \in nec : \A y \in rel.dep[x] : y \notin Open \/ y \in nec
  BY <1>0, NecessaryFacts DEF Open
<1>2. /\ unn \subseteq Missing /\ unn \in SUBSET Steps
      /\ \A x \in U : x \notin Missing \/ x \in unn
      /\ \A x \in nec : \A y \in rel.prec[x] : y \notin Missing \/ y \in unn
      /\ \A x \in unn : \A y \in rel.dep[x] \cup rel.prec[x] : y \notin Missing \/ y \in unn
  BY <1>0, <1>1, UnneededFacts DEF Missing
<1>3. /\ status' = StatusAfterAdd(nec, unn)
      /\ edges' = EdgesAfterAdd(nec, unn) \cup newEdges
      /\ ready' = members \cup ReadyAfterAdd(nec, unn)
      /\ late' = Rekey(StatusAfterAdd(nec, unn), members, nec)
  BY DEF RecursivelyAddSteps
<1> HIDE DEF nec, unn
<1>4. Exit \notin Steps
  BY StepsAssumption
<1>5. \A x \in Nodes : status'[x] = IF x \in nec THEN "UNEXECUTED"
                                    ELSE IF x \in unn THEN "UNNECESSARY"
                                    ELSE status[x]
  BY <1>3 DEF StatusAfterAdd
<1>6. \A x \in nec : status[x] \in {"NONEXISTENT", "UNNECESSARY"}
  BY <1>1 DEF Open
<1>7. \A x \in unn : status[x] = "NONEXISTENT"
  BY <1>2 DEF Missing
<1>8. /\ \A x \in Steps : status'[x] \in Done => status[x] \in Done /\ status'[x] = status[x]
      /\ \A x \in Steps : status[x] \in Done => status'[x] = status[x]
      /\ \A x \in Steps : status[x] \in Pending => status'[x] \in Pending
      /\ \A x \in Steps : status'[x] = "NONEXISTENT" => status[x] = "NONEXISTENT"
      /\ \A x \in nec \cup unn : status'[x] \in Pending
      /\ status'[Exit] = "UNEXECUTED"
  BY <1>0, <1>1, <1>2, <1>4, <1>5, <1>6, <1>7 DEF TypeOK, Nodes, Status, Done, Pending
<1>9. \A y \in Steps : status'[y] = "NONEXISTENT" => y \in Missing /\ y \in Open /\ y \notin nec \cup unn
  BY <1>5, <1>8 DEF Missing, Open, Nodes, Pending
<1>10. \A y \in N \cup U : status'[y] # "NONEXISTENT"
  BY <1>1, <1>2, <1>9
<1>11. \A x \in nec \cup unn : \A y \in rel.dep[x] \cup rel.prec[x] : status'[y] # "NONEXISTENT"
  <2>1. \A x \in nec \cup unn : rel.dep[x] \cup rel.prec[x] \subseteq Steps
    BY <1>0, <1>1, <1>2, RelType
  <2> QED BY <2>1, <1>1, <1>2, <1>9
<1>12. ASSUME NEW e \in edges'
       PROVE  \/ e \in edges
              \/ /\ e \in Steps \X Steps /\ e[2] \in nec \cup unn
                 /\ e[1] \in rel.dep[e[2]] \cup rel.prec[e[2]]
              \/ e \in Steps \X {Exit} /\ e[1] \in nec \cup unn /\ e[2] = Exit
              \/ e \in newEdges
  BY <1>1, <1>2, <1>3, <1>12 DEF EdgesAfterAdd
<1>13. TypeOK'
  <2>1. status' \in [Nodes -> Status]
    BY <1>0, <1>3 DEF StatusAfterAdd, TypeOK, Status, Pending
  <2>2. edges' \subseteq Steps \X Nodes
    BY <1>0, <1>12 DEF TypeOK, Nodes
  <2>3. ready' \subseteq Nodes
    BY <1>0, <1>1, <1>2, <1>3 DEF TypeOK, ReadyAfterAdd, Nodes
  <2>4. late' \in [Nodes -> BOOLEAN]
    BY <1>0, <1>3, RekeyType
  <2> QED BY <1>0, <1>8, <2>1, <2>2, <2>3, <2>4 DEF TypeOK
<1>14. EdgesExist'
  <2> SUFFICES ASSUME NEW e \in edges'
               PROVE  status'[e[1]] # "NONEXISTENT" /\ status'[e[2]] # "NONEXISTENT"
    BY DEF EdgesExist
  <2>1. CASE e \in edges
    <3>1. e[1] \in Steps /\ e[2] \in Nodes
      BY <1>0, <2>1 DEF TypeOK
    <3>2. status[e[1]] # "NONEXISTENT" /\ status[e[2]] # "NONEXISTENT"
      BY <2>1 DEF Inductive, EdgesExist
    <3> QED BY <3>1, <3>2, <1>8 DEF Nodes
  <2>2. CASE /\ e \in Steps \X Steps /\ e[2] \in nec \cup unn
             /\ e[1] \in rel.dep[e[2]] \cup rel.prec[e[2]]
    BY <2>2, <1>8, <1>11 DEF Pending
  <2>3. CASE e \in Steps \X {Exit} /\ e[1] \in nec \cup unn /\ e[2] = Exit
    BY <2>3, <1>8 DEF Pending
  <2>4. CASE e \in newEdges
    <3>1. e[1] \in N \cup U /\ e[2] \in Steps /\ status[e[2]] \in Pending
      BY <2>4
    <3> QED BY <3>1, <1>8, <1>10 DEF Pending
  <2> QED BY <1>12, <2>1, <2>2, <2>3, <2>4
<1>15. EdgesCurrent'
  <2> SUFFICES ASSUME NEW e \in edges', e[2] # Exit
               PROVE  e[1] \in rel'.dep[e[2]] \cup rel'.prec[e[2]]
    BY DEF EdgesCurrent
  <2> QED BY <1>12 DEF Inductive, EdgesCurrent
<1>16. HasSuccessor'
  <2> SUFFICES ASSUME NEW x \in Steps, status'[x] # "NONEXISTENT"
               PROVE  \E y \in Nodes : <<x, y>> \in edges'
    BY DEF HasSuccessor
  <2>1. CASE status[x] # "NONEXISTENT"
    BY <2>1, <1>3 DEF Inductive, HasSuccessor, EdgesAfterAdd
  <2>2. CASE status[x] = "NONEXISTENT"
    <3>1. x \in nec \cup unn
      BY <2>2, <1>5 DEF Nodes
    <3>2. CASE \A y \in Nodes : <<x, y>> \notin edges
      <4>1. <<x, Exit>> \in (nec \cup unn) \X {Exit}
        BY <3>1
      <4>2. <<x, Exit>> \in edges'
        BY <3>2, <4>1, <1>3 DEF EdgesAfterAdd
      <4> QED BY <4>2 DEF Nodes
    <3>3. CASE \E y \in Nodes : <<x, y>> \in edges
      BY <3>3, <1>3 DEF EdgesAfterAdd
    <3> QED BY <3>2, <3>3
  <2> QED BY <2>1, <2>2
<1>17. ExecutedClosed'
  <2> SUFFICES ASSUME NEW e \in edges', status'[e[2]] \in Done
               PROVE  status'[e[1]] \in Done
    BY DEF ExecutedClosed
  <2>1. CASE e \in edges
    <3>1. e[1] \in Steps /\ e[2] \in Nodes
      BY <1>0, <2>1 DEF TypeOK
    <3>2. e[2] # Exit
      BY <1>8 DEF Done
    <3>3. status[e[2]] \in Done
      BY <3>1, <3>2, <1>8 DEF Nodes
    <3>4. status[e[1]] \in Done
      BY <2>1, <3>3 DEF Inductive, ExecutedClosed
    <3> QED BY <3>1, <3>4, <1>8
  <2>2. CASE e[2] \in nec \cup unn
    BY <2>2, <1>8 DEF Done, Pending
  <2>3. CASE e[2] = Exit
    BY <2>3, <1>8 DEF Done
  <2>4. CASE e \in newEdges
    <3>1. e[2] \in Steps /\ status[e[2]] \in Pending
      BY <2>4
    <3> QED BY <3>1, <1>8 DEF Done, Pending
  <2> QED BY <1>12, <2>1, <2>2, <2>3, <2>4
<1>18. Exit \notin ready'
  BY <1>1, <1>2, <1>3, <1>4 DEF ReadyAfterAdd
<1>19. ReadyPending'
  <2> SUFFICES ASSUME NEW x \in ready' PROVE status'[x] \in Pending
    BY <1>18 DEF ReadyPending
  <2>1. CASE x \in members
    <3>1. x \in Steps /\ status[x] \in Pending
      BY <2>1, <1>0 DEF Inductive, ReadyPending, TypeOK, Nodes
    <3> QED BY <3>1, <1>8
  <2>2. CASE x \in nec \cup unn
    BY <2>2, <1>8
  <2> QED BY <2>1, <2>2, <1>3 DEF ReadyAfterAdd
<1>20. ASSUME NEW x \in Steps, status'[x] \in Pending
       PROVE  x \in ready' \/ \E y \in Steps : <<y, x>> \in edges' /\ status'[y] \in Pending
  <2>1. CASE x \in nec \cup unn
    <3>1. SUFFICES ASSUME x \notin ready' PROVE \E y \in Steps : <<y, x>> \in edges' /\ status'[y] \in Pending
      OBVIOUS
    <3>2. PICK y \in Steps : <<y, x>> \in EdgesAfterAdd(nec, unn) /\ status[y] \notin Done
      BY <2>1, <3>1, <1>3 DEF ReadyAfterAdd, PredecessorsDone
    <3>3. <<y, x>> \in edges'
      BY <3>2, <1>3
    <3>4. status'[y] # "NONEXISTENT"
      BY <3>3, <1>14 DEF EdgesExist
    <3>5. status'[y] \notin Done /\ status'[y] \in Status
      BY <3>2, <1>8, <1>13 DEF TypeOK, Nodes
    <3> QED BY <3>3, <3>4, <3>5 DEF Status
  <2>2. CASE x \notin nec \cup unn
    <3>1. status[x] \in Pending
      BY <2>2, <1>5, <1>20 DEF Nodes
    <3>2. CASE x \in ready /\ x \notin members
      <4>1. PICK e \in newEdges : e[2] = x /\ status[e[1]] \notin Done
        BY <3>2
      <4>2. e[1] \in Steps /\ e[1] \in N \cup U /\ e = <<e[1], x>>
        BY <4>1
      <4>3. status'[e[1]] # "NONEXISTENT" /\ status'[e[1]] \notin Done /\ status'[e[1]] \in Status
        BY <4>1, <4>2, <1>8, <1>10, <1>13 DEF TypeOK, Nodes
      <4>4. <<e[1], x>> \in edges'
        BY <4>2, <1>3
      <4> QED BY <4>2, <4>3, <4>4 DEF Status
    <3>3. CASE x \in members
      BY <3>3, <1>3
    <3>4. CASE x \notin ready
      <4>1. PICK y \in Steps : <<y, x>> \in edges /\ status[y] \in Pending
        BY <3>1, <3>4 DEF Inductive, NoStall
      <4>2. <<y, x>> \in edges' /\ status'[y] \in Pending
        BY <4>1, <1>3, <1>8 DEF EdgesAfterAdd
      <4> QED BY <4>2
    <3> QED BY <3>2, <3>3, <3>4
  <2> QED BY <2>1, <2>2
<1> QED BY <1>8, <1>10, <1>13, <1>14, <1>15, <1>16, <1>17, <1>18, <1>19, <1>20 DEF Core, NoStepForgotten

-----------------------------------------------------------------------------
(* The actions                                                             *)

\* LastPending, for the state after a step.
LEMMA LastPendingNext == Core' /\ SomePending' => ExitWaits'
BY LastPending, PTL

\* AddStep, before Exec() is called, keeps the invariant.
LEMMA AddStepInductive ==
    ASSUME Inductive, NEW s \in Requested, AddStep(s)
    PROVE  Inductive'
<1>1. s \in Steps
  BY StepsAssumption
<1>2. phase = "adding" /\ status[Exit] = "UNEXECUTED" /\ Exit \notin ready
  BY DEF AddStep, Inductive, NothingExecuted
<1>3. /\ RecursivelyAddSteps({s}, {}, ready, {})
      /\ UNCHANGED <<rel, phase, invalidations>>
  BY DEF AddStep
<1>4. AddingAllowed({s}, {}, ready, {})
  BY <1>1, <1>2 DEF AddingAllowed
<1>5. /\ Core' /\ ReadyPending' /\ NoStepForgotten'
      /\ status'[Exit] = "UNEXECUTED" /\ Exit \notin ready'
      /\ \A x \in Steps : status'[x] \in Done => status[x] \in Done
  <2>1. PICK members : members = ready
    OBVIOUS
  <2> QED BY <1>3, <1>4, <2>1, AddPreserves
<1>6. NothingExecuted'
  BY <1>2, <1>5 DEF NothingExecuted, Inductive
<1>7. NoStall' /\ FlowEnds'
  BY <1>2, <1>3, <1>5 DEF NoStall, NoStepForgotten, FlowEnds
<1> QED BY <1>5, <1>6, <1>7 DEF Inductive, Core

\* Postponing an extracted step that is not ready keeps the invariant.
LEMMA PostponeInductive ==
    ASSUME Inductive, NEW next \in Nodes, Postpone(next)
    PROVE  Inductive'
<1>1. /\ next \in ready /\ status[next] \in Pending
      /\ phase = "executing"
  BY DEF Postpone, Extractable, Inductive, ReadyPending
<1>2. next \in Steps
  BY DEF Postpone, Relationships, Dependencies, Precedences, Nodes
<1>3. SomePending
  BY <1>1, <1>2 DEF SomePending
<1>4. status[Exit] = "UNEXECUTED" /\ Exit \notin ready
  <2>1. status[Exit] # "EMPTY"
    BY <1>3, ExitDoneAllDone DEF Inductive, Core
  <2> QED BY <1>3, <2>1 DEF Inductive, TypeOK, ReadyPending, SomePending
<1>5. PICK R : R = Relationships(next)
  OBVIOUS
<1>6. R = rel.dep[next] \cup rel.prec[next] /\ R \in SUBSET Steps
  <2>1. next # Exit
    BY <1>2, StepsAssumption
  <2> QED BY <1>2, <1>5, <2>1, RelType DEF Relationships, Dependencies, Precedences, Inductive
<1>7. PICK N : N = NecessaryRoots(next)
  OBVIOUS
<1>8. PICK U : U = UnneededRoots(next)
  OBVIOUS
<1>9. N \in SUBSET Steps /\ U \in SUBSET Steps /\ R = N \cup U
  BY <1>5, <1>6, <1>7, <1>8 DEF NecessaryRoots, UnneededRoots, Relationships
<1>10. PICK members : members = ready \ {next}
  OBVIOUS
<1>11. PICK newEdges : newEdges = {<<y, next>> : y \in R}
  OBVIOUS
<1>12. /\ RecursivelyAddSteps(N, U, members, newEdges)
       /\ UNCHANGED <<rel, phase, invalidations>>
  BY <1>5, <1>7, <1>8, <1>10, <1>11 DEF Postpone
<1>13. newEdges \in SUBSET (Steps \X Steps) /\ members \in SUBSET ready
  BY <1>2, <1>6, <1>10, <1>11
<1>14. \A e \in newEdges :
          /\ status[e[2]] \in Pending
          /\ e[1] \in rel.dep[e[2]] \cup rel.prec[e[2]]
          /\ e[1] \in N \cup U
  BY <1>1, <1>6, <1>9, <1>11
<1>15. \A x \in ready \ members : \E e \in newEdges : e[2] = x /\ status[e[1]] \notin Done
  <2>1. PICK y \in R : status[y] \notin Done
    BY <1>5 DEF Postpone
  <2>2. <<y, next>> \in newEdges
    BY <2>1, <1>11
  <2> QED BY <2>1, <2>2, <1>10
<1>16. /\ Core' /\ ReadyPending' /\ NoStepForgotten'
       /\ \A x \in Steps : status[x] \in Pending => status'[x] \in Pending
  <2>1. AddingAllowed(N, U, members, newEdges)
    BY <1>4, <1>9, <1>13, <1>14, <1>15 DEF AddingAllowed
  <2> QED BY <1>12, <2>1, AddPreserves
<1>17. ExitWaits'
  <2>1. SomePending'
    BY <1>1, <1>2, <1>16 DEF SomePending
  <2> QED BY <2>1, <1>16, LastPendingNext
<1>18. NoStall'
  BY <1>16, <1>17 DEF NoStall, NoStepForgotten, ExitWaits
<1>19. NothingExecuted' /\ FlowEnds'
  BY <1>1, <1>12 DEF NothingExecuted, FlowEnds
<1> QED BY <1>16, <1>18, <1>19 DEF Inductive, Core

\* When the loop ends without a ready step, the exit was executed.
LEMMA FinishInductive ==
    ASSUME Inductive, Finish
    PROVE  Inductive'
<1>1. ~SomePending
  BY FirstPending DEF Inductive, Finish
<1>2. status[Exit] = "EMPTY"
  <2>1. SUFFICES ASSUME status[Exit] # "EMPTY" PROVE FALSE
    OBVIOUS
  <2>2. status[Exit] \in Pending
    BY <2>1 DEF Inductive, TypeOK, Pending
  <2>3. Exit \in ready \/ SomePending
    BY <2>2 DEF Inductive, NoStall, Finish, SomePending
  <2> QED BY <1>1, <2>3 DEF Finish
<1>3. phase' = "ended" /\ UNCHANGED <<status, edges, ready, late, rel, invalidations>>
  BY <1>2 DEF Finish
<1> QED BY <1>3 DEF Inductive, TypeOK, EdgesExist, EdgesCurrent, HasSuccessor, ExecutedClosed,
                   ReadyPending, NothingExecuted, NoStall, FlowEnds, Phases, Finish

\* Starting the loop, and the steps that stop it on an error.
LEMMA PhaseInductive ==
    ASSUME Inductive,
           \/ StartExec
           \/ \E next \in Nodes : AssertionFails(next)
           \/ \E next \in Nodes, inv \in SUBSET Steps : InvalidatesNotBefore(next, inv)
    PROVE  Inductive'
<1>1. /\ UNCHANGED <<status, edges, ready, late, rel, invalidations>>
      /\ phase' \in {"executing", "assertion", "not_before"}
  BY DEF StartExec, AssertionFails, InvalidatesNotBefore
<1>2. TypeOK' /\ EdgesExist' /\ EdgesCurrent' /\ HasSuccessor' /\ ExecutedClosed' /\ ReadyPending'
  BY <1>1 DEF Inductive, TypeOK, EdgesExist, EdgesCurrent, HasSuccessor, ExecutedClosed,
              ReadyPending, Phases
<1>3. NothingExecuted' /\ FlowEnds'
  BY <1>1 DEF NothingExecuted, FlowEnds
<1>4. NoStall'
  <2>1. CASE phase # "adding"
    BY <1>1, <2>1 DEF Inductive, NoStall
  <2>2. CASE phase = "adding"
    <3>1. SomePending
      <4>1. PICK s \in Steps : status[s] # "NONEXISTENT"
        BY <2>2 DEF StartExec, AssertionFails, InvalidatesNotBefore, Ready
      <4>2. status[s] \notin Done /\ status[s] \in Status
        BY <2>2, <4>1 DEF Inductive, NothingExecuted, TypeOK, Nodes
      <4> QED BY <4>1, <4>2 DEF SomePending, Status
    <3>2. ExitWaits
      BY <3>1, LastPending DEF Inductive, Core
    <3> QED BY <1>1, <3>2 DEF Inductive, NoStall, ExitWaits
  <2> QED BY <2>1, <2>2
<1> QED BY <1>2, <1>3, <1>4 DEF Inductive

-----------------------------------------------------------------------------
(* Executing a step                                                        *)

\* DeExecute visits a vertex from a visited predecessor, unless it starts there.
LEMMA DeExecutedFrom ==
    ASSUME NEW Seeds \in SUBSET Nodes, NEW E \in SUBSET (Steps \X Nodes), NEW st,
           NEW x \in DeExecuted(Seeds, E, st), x \notin Seeds
    PROVE  \E y \in DeExecuted(Seeds, E, st) : <<y, x>> \in E
<1> DEFINE V == DeExecuted(Seeds, E, st)
           F == {e \in E : st[e[2]] \in Done}
           T == {z \in V : z \in Seeds \/ \E y \in V : <<y, z>> \in E}
<1>1. V = Closure(Seeds, F)
  BY DEF DeExecuted
<1>2. Seeds \subseteq V /\ V \subseteq Nodes
  BY <1>1, ClosureSeeds
<1>3. T \in SUBSET Nodes /\ Seeds \subseteq T
  BY <1>2
<1>4. ASSUME NEW e \in F, e[1] \in T PROVE e[2] \in T
  <2>1. e[1] \in V /\ e[2] \in Nodes /\ e = <<e[1], e[2]>> /\ e \in E
    BY <1>4
  <2>2. e[2] \in V
    BY <1>1, <2>1, ClosureStep
  <2> QED BY <2>1, <2>2
<1>5. V \subseteq T
  <2> HIDE DEF F, T
  <2> QED BY <1>1, <1>3, <1>4, ClosureLeast
<1> QED BY <1>5

\* DeExecute leaves no visited vertex with an executed successor it missed.
LEMMA DeExecutedClosed ==
    ASSUME NEW Seeds \in SUBSET Nodes, NEW E \in SUBSET (Steps \X Nodes), NEW st
    PROVE  /\ Seeds \subseteq DeExecuted(Seeds, E, st)
           /\ DeExecuted(Seeds, E, st) \subseteq Nodes
           /\ \A e \in E : e[1] \in DeExecuted(Seeds, E, st) /\ st[e[2]] \in Done
                              => e[2] \in DeExecuted(Seeds, E, st)
<1> DEFINE F == {e \in E : st[e[2]] \in Done}
<1>1. DeExecuted(Seeds, E, st) = Closure(Seeds, F)
  BY DEF DeExecuted
<1>2. ASSUME NEW e \in E, e[1] \in Closure(Seeds, F), st[e[2]] \in Done
      PROVE  e[2] \in Closure(Seeds, F)
  <2>1. e[2] \in Nodes /\ <<e[1], e[2]>> \in F
    BY <1>2
  <2> QED BY <1>2, <2>1, ClosureStep
<1> QED BY <1>1, <1>2, ClosureSeeds

\* What a part of the invalidated steps un-executes, all of them do.
LEMMA DeExecutedMonotone ==
    ASSUME NEW Seeds \in SUBSET Nodes, NEW Some \in SUBSET Seeds,
           NEW E \in SUBSET (Steps \X Nodes), NEW st
    PROVE  DeExecuted(Some, E, st) \subseteq DeExecuted(Seeds, E, st)
<1> DEFINE F == {e \in E : st[e[2]] \in Done}
           T == DeExecuted(Seeds, E, st)
<1>1. DeExecuted(Some, E, st) = Closure(Some, F)
  BY DEF DeExecuted
<1>2. T \in SUBSET Nodes /\ Some \subseteq T
  BY DeExecutedClosed
<1>3. \A e \in F : e[1] \in T => e[2] \in T
  BY DeExecutedClosed
<1> QED BY <1>1, <1>2, <1>3, ClosureLeast

\* Executing a step, un-executing what it invalidates and inserting the steps
\* that became ready keeps the invariant, when relationships only grow.
LEMMA ExecuteInductive ==
    ASSUME Growing, Inductive,
           NEW next \in Nodes, NEW res \in Results(next),
           NEW inv \in SUBSET Invalidated(next, res), NEW o \in Orders(inv),
           Execute(next, res, inv, o)
    PROVE  Inductive'
<1>0. PICK E : E = EdgesOf(next)
  OBVIOUS
<1>00. PICK st : st = [status EXCEPT ![next] = res]
  OBVIOUS
<1>000. PICK V : V = DeExecuted(inv, E, st)
  OBVIOUS
<1>1. /\ TypeOK /\ phase = "executing" /\ next \in ready /\ status[next] \in Pending
      /\ \A y \in Relationships(next) : status[y] \in Done
  BY DEF Inductive, Execute, Ready, Extractable, ReadyPending
<1>2. inv \in SUBSET Steps /\ \A x \in inv : status[x] # "NONEXISTENT"
  BY StepsAssumption DEF Invalidated, Nodes
<1>3. /\ status' = StatusAfterDeExecute(V, Forced(o, inv, E, st), st)
      /\ ready' = (ready \ {next}) \cup ReadyAfterDeExecute(inv, o, Forced(o, inv, E, st), E, st)
                                    \cup NewReady(next, E, status')
      /\ late' = Rekey(status', ready \ {next}, {})
      /\ edges' = E \ RedundantExitEdges(E)
      /\ rel' \in {r \in Relations : r = rel \/ <<rel, r>> \in Evolve}
      /\ invalidations' \in Nat
      /\ phase' = phase
  BY <1>0, <1>00, <1>000, <1>1 DEF Execute, TypeOK
<1>4. Exit \notin Steps
  BY StepsAssumption
<1>5. /\ res \in Done /\ (next = Exit => res = "EMPTY")
      /\ status[Exit] # "UNNECESSARY"
  BY <1>1, StepsAssumption DEF Results, Done, TypeOK
<1>6. /\ \A x \in Nodes : st[x] = IF x = next THEN res ELSE status[x]
      /\ \A x \in Nodes : st[x] \in Status
  BY <1>00, <1>1, <1>5 DEF TypeOK, Status
<1>7. /\ Relationships(next) \in SUBSET Steps
      /\ next # Exit => Relationships(next) = rel.dep[next] \cup rel.prec[next]
      /\ next = Exit => Relationships(next) = {}
  BY <1>1, RelType DEF Relationships, Dependencies, Precedences, Nodes
<1>8. /\ E \in SUBSET (Steps \X Nodes)
      /\ edges \subseteq E
      /\ \A e \in E : e \in edges \/ (e[2] = next /\ e[1] \in Relationships(next) /\ next # Exit)
  BY <1>0, <1>1, <1>7 DEF EdgesOf, TypeOK
<1>9. \A e \in E : st[e[1]] # "NONEXISTENT" /\ st[e[2]] # "NONEXISTENT"
  <2> SUFFICES ASSUME NEW e \in E PROVE st[e[1]] # "NONEXISTENT" /\ st[e[2]] # "NONEXISTENT"
    OBVIOUS
  <2>1. e[1] \in Nodes /\ e[2] \in Nodes
    BY <1>8 DEF Nodes
  <2>2. status[e[1]] # "NONEXISTENT" /\ status[e[2]] # "NONEXISTENT"
    BY <1>1, <1>8 DEF Inductive, EdgesExist, Done, Pending
  <2> QED BY <2>1, <2>2, <1>5, <1>6 DEF Done
\* With next executed, executed steps have executed predecessors in E.
<1>10. \A e \in E : st[e[2]] \in Done => st[e[1]] \in Done
  <2> SUFFICES ASSUME NEW e \in E, st[e[2]] \in Done PROVE st[e[1]] \in Done
    OBVIOUS
  <2>1. e[1] \in Steps /\ e[1] \in Nodes /\ e[2] \in Nodes
    BY <1>8 DEF Nodes
  <2>2. CASE e[1] = next
    BY <2>1, <2>2, <1>5, <1>6
  <2>3. CASE e[1] # next /\ e[2] # next
    <3>1. e \in edges /\ status[e[2]] \in Done
      BY <2>1, <2>3, <1>6, <1>8
    <3>2. status[e[1]] \in Done
      BY <3>1 DEF Inductive, ExecutedClosed
    <3> QED BY <3>2, <2>1, <2>3, <1>6
  <2>4. CASE e[1] # next /\ e[2] = next /\ next # Exit
    <3>1. e[1] \in Relationships(next)
      BY <2>4, <1>7, <1>8 DEF Inductive, EdgesCurrent
    <3> QED BY <3>1, <2>1, <2>4, <1>1, <1>6
  <2>5. CASE e[1] # next /\ e[2] = next /\ next = Exit
    <3>1. status[e[1]] \notin Pending
      BY <2>1, <2>5, <1>1 DEF Inductive, ReadyPending
    <3>2. st[e[1]] = status[e[1]] /\ st[e[1]] # "NONEXISTENT" /\ st[e[1]] \in Status
      BY <2>1, <2>5, <1>6, <1>9
    <3> QED BY <3>1, <3>2 DEF Status
  <2> QED BY <2>2, <2>3, <2>4, <2>5
<1>11. inv \in SUBSET Nodes
  BY <1>2 DEF Nodes
<1>12. /\ inv \subseteq V /\ V \subseteq Nodes
       /\ \A e \in E : e[1] \in V /\ st[e[2]] \in Done => e[2] \in V
  BY <1>000, <1>8, <1>11, DeExecutedClosed
<1>13. /\ \A x \in Nodes : status'[x] \in Done <=> st[x] \in Done /\ x \notin V
       /\ \A x \in Nodes : status'[x] = "NONEXISTENT" <=> st[x] = "NONEXISTENT"
       /\ \A x \in Nodes : st[x] \in Pending => status'[x] = st[x]
       /\ status' \in [Nodes -> Status]
       /\ status'[Exit] \in {"UNEXECUTED", "EMPTY"}
  <2>1. \A x \in Nodes : status'[x] =
           IF x \notin V \/ st[x] \notin Done THEN st[x]
           ELSE IF st[x] = "SKIPPED" /\ x \notin Forced(o, inv, E, st) THEN "UNNECESSARY"
           ELSE "UNEXECUTED"
    BY <1>3 DEF StatusAfterDeExecute
  <2>2. st[Exit] \in {"UNEXECUTED", "EMPTY"}
    BY <1>1, <1>5, <1>6 DEF TypeOK, Nodes
  <2>3. status' \in [Nodes -> Status]
    BY <1>3, <1>6 DEF StatusAfterDeExecute, Status, Pending
  <2> QED BY <2>1, <2>2, <2>3, <1>6 DEF Done, Pending, Nodes
<1>14. \A x \in Nodes : status'[x] \in Pending <=> status'[x] \notin Done /\ st[x] # "NONEXISTENT"
  BY <1>13 DEF Status, Done, Pending
<1>15. /\ edges' \subseteq E
       /\ \A e \in E : e[2] \in Steps => e \in edges'
  BY <1>3, <1>4 DEF RedundantExitEdges
<1>16. TypeOK'
  <2>1. ready' \subseteq Nodes
    BY <1>1, <1>2, <1>3, <1>11 DEF TypeOK, ReadyAfterDeExecute, Forced, NewReady
  <2>2. late' \in [Nodes -> BOOLEAN]
    <3>1. PICK u : u = status'
      OBVIOUS
    <3>2. PICK members : members = ready \ {next}
      OBVIOUS
    <3> QED BY <1>1, <1>3, <3>1, <3>2, RekeyType
  <2> QED BY <1>1, <1>3, <1>8, <1>13, <1>15, <2>1, <2>2 DEF TypeOK
<1>17. EdgesExist'
  <2> SUFFICES ASSUME NEW e \in edges'
               PROVE  status'[e[1]] # "NONEXISTENT" /\ status'[e[2]] # "NONEXISTENT"
    BY DEF EdgesExist
  <2>1. e \in E /\ e[1] \in Nodes /\ e[2] \in Nodes
    BY <1>8, <1>15 DEF Nodes
  <2> QED BY <2>1, <1>9, <1>13
<1>18. EdgesCurrent'
  <2> SUFFICES ASSUME NEW e \in edges', e[2] # Exit
               PROVE  e[1] \in rel'.dep[e[2]] \cup rel'.prec[e[2]]
    BY DEF EdgesCurrent
  <2>1. e \in E /\ e[2] \in Steps
    BY <1>8, <1>15 DEF Nodes
  <2>2. e[1] \in rel.dep[e[2]] \cup rel.prec[e[2]]
    BY <2>1, <1>7, <1>8 DEF Inductive, EdgesCurrent
  <2>3. rel.dep[e[2]] \subseteq rel'.dep[e[2]] /\ rel.prec[e[2]] \subseteq rel'.prec[e[2]]
    <3>1. CASE rel' = rel
      BY <3>1
    <3>2. CASE <<rel, rel'>> \in Evolve
      BY <2>1, <3>2 DEF Growing
    <3> QED BY <1>3, <3>1, <3>2
  <2> QED BY <2>2, <2>3
<1>19. HasSuccessor'
  <2> SUFFICES ASSUME NEW x \in Steps, status'[x] # "NONEXISTENT"
               PROVE  \E y \in Nodes : <<x, y>> \in edges'
    BY DEF HasSuccessor
  <2>1. x \in Nodes /\ status[x] # "NONEXISTENT"
    BY <1>1, <1>6, <1>13 DEF Nodes, Pending
  <2>2. PICK y \in Nodes : <<x, y>> \in edges
    BY <2>1 DEF Inductive, HasSuccessor
  <2>3. CASE \E t \in Steps : <<x, t>> \in E
    BY <2>3, <1>15 DEF Nodes
  <2>4. CASE ~\E t \in Steps : <<x, t>> \in E
    <3>1. <<x, y>> \in E \ RedundantExitEdges(E)
      BY <2>2, <2>4, <1>8 DEF RedundantExitEdges
    <3> QED BY <3>1, <1>3
  <2> QED BY <2>3, <2>4
<1>20. \A e \in E : status'[e[2]] \in Done => status'[e[1]] \in Done
  <2> SUFFICES ASSUME NEW e \in E, status'[e[2]] \in Done PROVE status'[e[1]] \in Done
    OBVIOUS
  <2>1. e[1] \in Nodes /\ e[2] \in Nodes
    BY <1>8 DEF Nodes
  <2>2. st[e[2]] \in Done /\ e[2] \notin V
    BY <2>1, <1>13
  <2>3. st[e[1]] \in Done /\ e[1] \notin V
    BY <2>2, <1>10, <1>12
  <2> QED BY <2>1, <2>3, <1>13
<1>21. ExecutedClosed' /\ Core'
  BY <1>15, <1>16, <1>17, <1>18, <1>19, <1>20 DEF ExecutedClosed, Core
\* A vertex of E that is not executed afterwards is pending.
<1>22. \A y \in Steps, x \in Nodes :
          <<y, x>> \in E /\ status'[y] \notin Done => status'[y] \in Pending
  BY <1>9, <1>14 DEF Nodes
\* A vertex that was un-executed is in the set or waits for a pending one.
<1>23. ASSUME NEW x \in Nodes, x \in V
       PROVE  x \in ready' \/ \E y \in Steps : <<y, x>> \in E /\ status'[y] \in Pending
  <2>1. ASSUME NEW y \in V, <<y, x>> \in E
        PROVE  \E z \in Steps : <<z, x>> \in E /\ status'[z] \in Pending
    <3>1. y \in Steps /\ y \in Nodes
      BY <2>1, <1>8 DEF Nodes
    <3>2. status'[y] \notin Done
      BY <2>1, <3>1, <1>13
    <3> QED BY <2>1, <3>1, <3>2, <1>22
  <2>2. CASE x \notin inv
    <3>1. \E y \in V : <<y, x>> \in E
      BY <2>2, <1>000, <1>8, <1>11, <1>23, DeExecutedFrom
    <3> QED BY <2>1, <3>1
  <2>3. CASE x \in inv /\ x \notin Forced(o, inv, E, st)
    <3>1. PICK P : P = Earlier(o, inv, x)
      OBVIOUS
    <3>2. P \in SUBSET inv /\ P \in SUBSET Nodes
      BY <3>1, <1>11 DEF Earlier
    <3>3. x \notin P
      <4>1. o[x] \in Nat
        BY <2>3 DEF Orders
      <4> QED BY <3>1, <4>1 DEF Earlier
    <3>4. x \in DeExecuted(P, E, st)
      BY <2>3, <3>1 DEF Forced
    <3>5. PICK y \in DeExecuted(P, E, st) : <<y, x>> \in E
      BY <3>2, <3>3, <3>4, <1>8, DeExecutedFrom
    <3>6. y \in V
      BY <3>2, <3>5, <1>000, <1>8, <1>11, DeExecutedMonotone
    <3> QED BY <2>1, <3>5, <3>6
  <2>4. CASE x \in Forced(o, inv, E, st)
    <3>1. PICK P : P = Earlier(o, inv, x)
      OBVIOUS
    <3>2. P \in SUBSET inv
      BY <3>1 DEF Earlier
    <3>3. SUFFICES ASSUME x \notin ready'
                   PROVE  \E y \in Steps : <<y, x>> \in E /\ status'[y] \in Pending
      OBVIOUS
    <3>4. PICK y \in Steps : <<y, x>> \in E /\ (st[y] \notin Done \/ y \in DeExecuted(P, E, st))
      BY <2>4, <3>1, <3>3, <1>3 DEF ReadyAfterDeExecute
    <3>5. CASE st[y] \notin Done
      BY <3>4, <3>5, <1>13, <1>22 DEF Nodes
    <3>6. CASE y \in DeExecuted(P, E, st)
      <4>1. y \in V
        BY <3>2, <3>6, <1>000, <1>8, <1>11, DeExecutedMonotone
      <4> QED BY <2>1, <3>4, <4>1
    <3> QED BY <3>4, <3>5, <3>6
  <2> QED BY <2>2, <2>3, <2>4
\* A pending successor of next is in the set or waits for a pending step.
<1>24. ASSUME NEW x \in Nodes, <<next, x>> \in E, status'[x] \in Pending
       PROVE  x \in ready' \/ \E y \in Steps : <<y, x>> \in E /\ status'[y] \in Pending
  <2>1. CASE PredecessorsDone(x, E, status')
    BY <2>1, <1>3, <1>24 DEF NewReady
  <2>2. CASE ~PredecessorsDone(x, E, status')
    <3>1. PICK y \in Steps : <<y, x>> \in E /\ status'[y] \notin Done
      BY <2>2 DEF PredecessorsDone
    <3> QED BY <3>1, <1>22
  <2> QED BY <2>1, <2>2
<1>25. NoStepForgotten'
  <2> SUFFICES ASSUME NEW x \in Steps, status'[x] \in Pending
               PROVE  x \in ready' \/ \E y \in Steps : <<y, x>> \in E /\ status'[y] \in Pending
    BY <1>15 DEF NoStepForgotten
  <2>0. x \in Nodes
    BY DEF Nodes
  <2>1. CASE x \in V
    BY <2>0, <2>1, <1>23
  <2>2. CASE x \notin V
    <3>1. st[x] \notin Done /\ x # next /\ status[x] \in Pending
      BY <2>0, <2>2, <1>5, <1>6, <1>13, <1>14 DEF Done, Pending, Status
    <3>2. CASE x \in ready
      BY <3>1, <3>2, <1>3
    <3>3. CASE x \notin ready
      <4>1. PICK y \in Steps : <<y, x>> \in edges /\ status[y] \in Pending
        BY <3>1, <3>3 DEF Inductive, NoStall
      <4>2. CASE y = next
        BY <2>0, <4>1, <4>2, <1>8, <1>24
      <4>3. CASE y # next
        <5>1. st[y] = status[y] /\ y \in Nodes
          BY <4>3, <1>6 DEF Nodes
        <5> QED BY <4>1, <5>1, <1>8, <1>13
      <4> QED BY <4>2, <4>3
    <3> QED BY <3>2, <3>3
  <2> QED BY <2>1, <2>2
<1>26. ReadyPending'
  <2>1. ASSUME NEW x \in ready' PROVE status'[x] \in Pending
    <3>1. CASE x \in ready \ {next}
      <4>1. x \in Nodes /\ status[x] \in Pending
        BY <3>1, <1>1 DEF Inductive, TypeOK, ReadyPending
      <4> QED BY <3>1, <4>1, <1>6, <1>13
    <3>2. CASE x \in ReadyAfterDeExecute(inv, o, Forced(o, inv, E, st), E, st)
      <4>1. x \in inv
        BY <3>2 DEF ReadyAfterDeExecute, Forced
      <4>2. x \in V /\ x \in Nodes
        BY <4>1, <1>11, <1>12
      <4>3. st[x] # "NONEXISTENT"
        BY <4>1, <4>2, <1>2, <1>5, <1>6 DEF Done
      <4> QED BY <4>2, <4>3, <1>13, <1>14
    <3>3. CASE x \in NewReady(next, E, status')
      BY <3>3 DEF NewReady
    <3> QED BY <3>1, <3>2, <3>3, <1>3
  <2>2. ASSUME Exit \in ready', SomePending' PROVE FALSE
    <3>1. PICK y \in Steps : <<y, Exit>> \in edges' /\ status'[y] \in Pending
      BY <2>2, <1>21, LastPendingNext DEF ExitWaits
    <3>2. CASE Exit \in ready \ {next}
      <4>1. next \in Steps
        BY <3>2 DEF Nodes
      <4> QED BY <3>2, <4>1, <1>1 DEF Inductive, ReadyPending
    <3>3. CASE Exit \in ReadyAfterDeExecute(inv, o, Forced(o, inv, E, st), E, st)
      BY <3>3, <1>2, <1>4 DEF ReadyAfterDeExecute, Forced
    <3>4. CASE Exit \in NewReady(next, E, status')
      <4>1. status'[y] \in Done
        BY <3>1, <3>4, <1>15 DEF NewReady, PredecessorsDone
      <4> QED BY <3>1, <4>1 DEF Done, Pending
    <3> QED BY <2>2, <3>2, <3>3, <3>4, <1>3
  <2> QED BY <2>1, <2>2 DEF ReadyPending, SomePending
<1>27. status'[Exit] \in Pending => Exit \in ready' \/ ExitWaits'
  <2> SUFFICES ASSUME status'[Exit] \in Pending, Exit \notin ready', ~ExitWaits' PROVE FALSE
    OBVIOUS
  <2>0. Exit \in Nodes
    BY DEF Nodes
  <2>1. ~SomePending'
    BY <1>21, LastPendingNext
  <2>2. Exit \notin V
    BY <2>0, <2>1, <1>23 DEF SomePending
  <2>3. st[Exit] \notin Done /\ next # Exit /\ status[Exit] \in Pending
    BY <2>0, <2>2, <1>5, <1>6, <1>13, <1>14 DEF Done, Pending, Status
  <2>4. next \in Steps
    BY <2>3 DEF Nodes
  <2>5. SomePending
    BY <2>4, <1>1 DEF SomePending
  <2>6. PICK y \in Steps : <<y, Exit>> \in edges /\ status[y] \in Pending
    BY <2>5, LastPending DEF Inductive, Core, ExitWaits
  <2>7. y = next
    <3>1. SUFFICES ASSUME y # next PROVE FALSE
      OBVIOUS
    <3>2. st[y] = status[y] /\ y \in Nodes
      BY <3>1, <1>6 DEF Nodes
    <3> QED BY <2>1, <2>6, <3>2, <1>13 DEF SomePending
  <2>8. <<next, Exit>> \in E
    BY <2>6, <2>7, <1>8
  <2> QED BY <2>0, <2>1, <2>8, <1>24 DEF SomePending
<1>28. NoStall'
  BY <1>25, <1>27 DEF NoStall, NoStepForgotten, ExitWaits
<1>29. NothingExecuted' /\ FlowEnds'
  BY <1>1, <1>3 DEF NothingExecuted, FlowEnds
<1> QED BY <1>21, <1>26, <1>28, <1>29 DEF Inductive, Core

-----------------------------------------------------------------------------
(* The theorems                                                            *)

\* The constructor establishes the invariant.
LEMMA InitInductive ==
    ASSUME Init PROVE Inductive
<1> USE StepsAssumption
<1>1. TypeOK
  BY RelationsAssumption DEF Init, TypeOK, Nodes, Status, Pending, Phases
<1>2. EdgesExist /\ EdgesCurrent /\ ExecutedClosed
  BY DEF Init, EdgesExist, EdgesCurrent, ExecutedClosed
<1>3. \A s \in Steps : status[s] = "NONEXISTENT"
  BY DEF Init, Nodes
<1>4. HasSuccessor /\ ReadyPending
  BY <1>3 DEF Init, HasSuccessor, ReadyPending
<1>5. NothingExecuted /\ NoStall /\ FlowEnds
  BY <1>3 DEF Init, NothingExecuted, NoStall, FlowEnds, Done, Pending, Nodes
<1> QED BY <1>1, <1>2, <1>4, <1>5 DEF Inductive

\* Every step of main() and of Exec() keeps the invariant, when relationships
\* only grow.
LEMMA NextInductive ==
    ASSUME Growing, Inductive, [Next]_vars
    PROVE  Inductive'
<1>1. CASE \E s \in Requested : AddStep(s)
  BY <1>1, AddStepInductive
<1>2. CASE StartExec
  BY <1>2, PhaseInductive
<1>3. CASE Iteration
  <2>1. PICK next \in Nodes :
          \/ AssertionFails(next)
          \/ Postpone(next)
          \/ \E res \in Results(next) : \E inv \in SUBSET Invalidated(next, res) :
                \/ \E o \in Orders(inv) : Execute(next, res, inv, o)
                \/ InvalidatesNotBefore(next, inv)
    BY <1>3 DEF Iteration
  <2>2. CASE AssertionFails(next)
    BY <2>2, PhaseInductive
  <2>3. CASE Postpone(next)
    BY <2>3, PostponeInductive
  <2>4. ASSUME NEW res \in Results(next), NEW inv \in SUBSET Invalidated(next, res),
               NEW o \in Orders(inv), Execute(next, res, inv, o)
        PROVE  Inductive'
    BY <2>4, ExecuteInductive
  <2>5. ASSUME NEW res \in Results(next), NEW inv \in SUBSET Invalidated(next, res),
               InvalidatesNotBefore(next, inv)
        PROVE  Inductive'
    <3>1. inv \in SUBSET Steps
      BY StepsAssumption DEF Invalidated, Nodes
    <3> QED BY <2>5, <3>1, PhaseInductive
  <2> QED BY <2>1, <2>2, <2>3, <2>4, <2>5
<1>4. CASE Finish
  BY <1>4, FinishInductive
<1>5. CASE UNCHANGED vars
  BY <1>5 DEF vars, Inductive, TypeOK, EdgesExist, EdgesCurrent, HasSuccessor,
              ExecutedClosed, ReadyPending, NothingExecuted, NoStall, FlowEnds
<1> QED BY <1>1, <1>2, <1>3, <1>4, <1>5 DEF Next

\* The flow keeps the inductive invariant, for every acyclic set of steps whose
\* relationships only grow (ComputeRelationships of an executed flow adds steps
\* and drops none).
THEOREM InductiveInvariant ==
    ASSUME Growing
    PROVE  Spec => []Inductive
<1>1. Init => Inductive
  BY InitInductive
<1>2. Inductive /\ [Next]_vars => Inductive'
  BY NextInductive
<1> QED BY <1>1, <1>2, PTL DEF Spec

\* DeExecute leaves no successor of an un-executed step executed, and Exec()
\* executes no step before its predecessors in the graph.
THEOREM ExecutedClosedHolds ==
    ASSUME Growing
    PROVE  Spec => []ExecutedClosed
<1>1. Inductive => ExecutedClosed
  BY DEF Inductive
<1> QED BY <1>1, InductiveInvariant, PTL

\* The loop of Exec() forgets no step: a pending step is in the priority set or
\* waits for a pending predecessor.
THEOREM NoStallHolds ==
    ASSUME Growing
    PROVE  Spec => []NoStall
<1>1. Inductive => NoStall
  BY DEF Inductive
<1> QED BY <1>1, InductiveInvariant, PTL

\* Exec() never throws "Design flow didn't end": when the set is empty the exit
\* step has been executed.
THEOREM FlowEndsHolds ==
    ASSUME Growing
    PROVE  Spec => []FlowEnds
<1>1. Inductive => FlowEnds
  BY DEF Inductive
<1> QED BY <1>1, InductiveInvariant, PTL

\* The exit step is executed only when no step of the graph is pending, although
\* Exec() removes the edges to it that it takes for redundant.
THEOREM ExitLastHolds ==
    ASSUME Growing
    PROVE  Spec => []ExitLast
<1>1. Inductive => ExitLast
  BY ExitDoneAllDone DEF Inductive, Core, ExitLast, SomePending
<1> QED BY <1>1, InductiveInvariant, PTL

-----------------------------------------------------------------------------
(* Type correctness and necessity, whatever happens to the relationships   *)

\* RecursivelyAddSteps only makes steps pending that were new or unnecessary.
LEMMA AddTypes ==
    ASSUME TypeOK, NEW N \in SUBSET Steps, NEW U \in SUBSET Steps,
           NEW members \in SUBSET Nodes, NEW newEdges \in SUBSET (Steps \X Nodes),
           RecursivelyAddSteps(N, U, members, newEdges),
           UNCHANGED <<rel, phase, invalidations>>
    PROVE  TypeOK' /\ KeepsNecessity
<1> DEFINE nec == Necessary(N)
           unn == Unneeded(nec, U)
<1>1. nec \subseteq Open /\ nec \in SUBSET Steps
  BY NecessaryFacts DEF Open
<1>2. unn \subseteq Missing /\ unn \in SUBSET Steps
  BY <1>1, UnneededFacts DEF Missing
<1>3. /\ status' = StatusAfterAdd(nec, unn)
      /\ edges' = EdgesAfterAdd(nec, unn) \cup newEdges
      /\ ready' = members \cup ReadyAfterAdd(nec, unn)
      /\ late' = Rekey(StatusAfterAdd(nec, unn), members, nec)
  BY DEF RecursivelyAddSteps
<1> HIDE DEF nec, unn
<1>4. status' \in [Nodes -> Status]
  BY <1>3 DEF StatusAfterAdd, TypeOK, Status, Pending
<1>5. status'[Exit] \in {"UNEXECUTED", "EMPTY"}
  BY <1>1, <1>2, <1>3, StepsAssumption DEF StatusAfterAdd, TypeOK, Nodes
<1>6. edges' \subseteq Steps \X Nodes
  BY <1>1, <1>2, <1>3 DEF EdgesAfterAdd, TypeOK, Nodes
<1>7. ready' \subseteq Nodes
  BY <1>1, <1>2, <1>3 DEF ReadyAfterAdd, Nodes
<1>8. late' \in [Nodes -> BOOLEAN]
  BY <1>3, RekeyType
<1>9. KeepsNecessity
  BY <1>1, <1>2, <1>3 DEF KeepsNecessity, StatusAfterAdd, Open, Missing, Nodes
<1> QED BY <1>4, <1>5, <1>6, <1>7, <1>8, <1>9 DEF TypeOK

\* Executing a step skips only unnecessary ones, and DeExecute makes only
\* skipped ones unnecessary.
LEMMA ExecuteTypes ==
    ASSUME TypeOK, NEW next \in Nodes, NEW res \in Results(next),
           NEW inv \in SUBSET Invalidated(next, res), NEW o \in Orders(inv),
           Execute(next, res, inv, o)
    PROVE  TypeOK' /\ KeepsNecessity
<1>0. PICK E : E = EdgesOf(next)
  OBVIOUS
<1>00. PICK st : st = [status EXCEPT ![next] = res]
  OBVIOUS
<1>000. PICK V, F : V = DeExecuted(inv, E, st) /\ F = Forced(o, inv, E, st)
  OBVIOUS
<1>1. /\ status' = StatusAfterDeExecute(V, F, st)
      /\ ready' = (ready \ {next}) \cup ReadyAfterDeExecute(inv, o, F, E, st)
                                    \cup NewReady(next, E, status')
      /\ late' = Rekey(status', ready \ {next}, {})
      /\ edges' \subseteq E
      /\ rel' \in Relations
      /\ invalidations' \in Nat
      /\ phase' = phase
  BY <1>0, <1>00, <1>000 DEF Execute, TypeOK
<1>2. /\ res \in Done /\ (next = Exit => res = "EMPTY")
      /\ status[next] # "UNNECESSARY" => res # "SKIPPED"
  BY StepsAssumption DEF Results, Done, TypeOK
<1>3. \A x \in Nodes : /\ st[x] = IF x = next THEN res ELSE status[x]
                       /\ st[x] \in Status
  BY <1>00, <1>2 DEF TypeOK, Status
<1>4. \A x \in Nodes : status'[x] =
         IF x \notin V \/ st[x] \notin Done THEN st[x]
         ELSE IF st[x] = "SKIPPED" /\ x \notin F THEN "UNNECESSARY"
         ELSE "UNEXECUTED"
  BY <1>1 DEF StatusAfterDeExecute
<1>5. status' \in [Nodes -> Status]
  BY <1>1, <1>3 DEF StatusAfterDeExecute, Status, Pending
<1>6. status'[Exit] \in {"UNEXECUTED", "EMPTY"}
  BY <1>2, <1>3, <1>4 DEF TypeOK, Nodes
<1>7. E \subseteq Steps \X Nodes
  BY <1>0, RelType DEF EdgesOf, Relationships, Dependencies, Precedences, TypeOK, Nodes
<1>8. ready' \subseteq Nodes
  <2>1. inv \subseteq Nodes
    BY StepsAssumption DEF Invalidated, Nodes
  <2> QED BY <1>000, <1>1, <2>1 DEF TypeOK, ReadyAfterDeExecute, Forced, NewReady
<1>9. late' \in [Nodes -> BOOLEAN]
  <2>1. PICK u, members : u = status' /\ members = ready \ {next}
    OBVIOUS
  <2> QED BY <1>1, <2>1, RekeyType
<1>10. KeepsNecessity
  <2> SUFFICES ASSUME NEW s \in Steps,
                      status[s] \in {"UNEXECUTED", "ABORTED", "EMPTY", "SUCCESS", "UNCHANGED"}
               PROVE  status'[s] \notin {"UNNECESSARY", "SKIPPED"}
    BY DEF KeepsNecessity
  <2>1. s \in Nodes
    BY DEF Nodes
  <2>2. st[s] \notin {"UNNECESSARY", "SKIPPED"}
    BY <2>1, <1>2, <1>3 DEF Done
  <2> QED BY <2>1, <2>2, <1>4
<1> QED BY <1>1, <1>5, <1>6, <1>7, <1>8, <1>9, <1>10 DEF TypeOK

\* Every step of main() and of Exec() keeps types and necessity.
LEMMA NextTypes ==
    ASSUME TypeOK, Next
    PROVE  TypeOK' /\ KeepsNecessity
<1>1. ASSUME NEW s \in Requested, AddStep(s) PROVE TypeOK' /\ KeepsNecessity
  <2>1. {s} \in SUBSET Steps /\ ready \in SUBSET Nodes
    BY StepsAssumption DEF TypeOK
  <2>2. RecursivelyAddSteps({s}, {}, ready, {}) /\ UNCHANGED <<rel, phase, invalidations>>
    BY <1>1 DEF AddStep
  <2>3. PICK N, members : N = {s} /\ members = ready
    OBVIOUS
  <2> QED BY <2>1, <2>2, <2>3, AddTypes
<1>2. CASE UNCHANGED <<status, edges, ready, late, rel, invalidations>> /\ phase' \in Phases
  BY <1>2 DEF TypeOK, KeepsNecessity
<1>3. ASSUME NEW next \in Nodes, Postpone(next) PROVE TypeOK' /\ KeepsNecessity
  <2>1. PICK N, U, members, newEdges :
          /\ N = NecessaryRoots(next) /\ U = UnneededRoots(next)
          /\ members = ready \ {next}
          /\ newEdges = {<<y, next>> : y \in Relationships(next)}
    OBVIOUS
  <2>2. /\ Dependencies(next) \in SUBSET Steps
        /\ Precedences(next) \in SUBSET Steps
    BY RelType DEF Dependencies, Precedences, Nodes
  <2>3. N \in SUBSET Steps /\ U \in SUBSET Steps /\ newEdges \in SUBSET (Steps \X Nodes)
    BY <2>1, <2>2 DEF NecessaryRoots, UnneededRoots, Relationships
  <2>4. members \in SUBSET Nodes
    BY <2>1 DEF TypeOK
  <2>5. RecursivelyAddSteps(N, U, members, newEdges) /\ UNCHANGED <<rel, phase, invalidations>>
    BY <1>3, <2>1 DEF Postpone
  <2> QED BY <2>3, <2>4, <2>5, AddTypes
<1>4. ASSUME NEW next \in Nodes, NEW res \in Results(next),
             NEW inv \in SUBSET Invalidated(next, res),
             NEW o \in Orders(inv), Execute(next, res, inv, o)
      PROVE  TypeOK' /\ KeepsNecessity
  BY <1>4, ExecuteTypes
<1>5. ASSUME NEW next, NEW inv, AssertionFails(next) \/ InvalidatesNotBefore(next, inv)
      PROVE  TypeOK' /\ KeepsNecessity
  BY <1>2, <1>5 DEF AssertionFails, InvalidatesNotBefore, Phases
<1>6. CASE StartExec \/ Finish \/ (Terminal /\ UNCHANGED vars)
  BY <1>2, <1>6 DEF StartExec, Finish, vars, TypeOK, Phases
<1>7. CASE Iteration
  BY <1>3, <1>4, <1>5, <1>7 DEF Iteration
<1> QED BY <1>1, <1>6, <1>7 DEF Next

\* The state of the manager is well formed in every behaviour, relationships
\* that disappear included.
THEOREM TypeCorrect == Spec => []TypeOK
<1>1. Init => TypeOK
  BY InitInductive DEF Inductive
<1>2. TypeOK /\ [Next]_vars => TypeOK'
  BY NextTypes DEF vars, TypeOK
<1> QED BY <1>1, <1>2, PTL DEF Spec

\* Neither RecursivelyAddSteps nor DeExecute makes a step unnecessary, and Exec()
\* skips none, that was necessary or executed: no pass of the flow is dropped.
THEOREM NecessityIsKept == Spec => NecessityKept
<1>1. TypeOK /\ [Next]_vars => [KeepsNecessity]_vars
  BY NextTypes
<1> QED BY <1>1, TypeCorrect, PTL DEF Spec, NecessityKept

-----------------------------------------------------------------------------
(* The keys of the priority set                                            *)

\* insert() and Update() leave fresh keys: a step that stays in the set keeps its key
\* with its status, or was switched to necessary and is updated.
LEMMA AddKeepsFresh ==
    ASSUME TypeOK, ReadyFresh, NEW N \in SUBSET Steps, NEW U \in SUBSET Steps,
           NEW members \in SUBSET ready, NEW newEdges,
           RecursivelyAddSteps(N, U, members, newEdges)
    PROVE  ReadyFresh'
<1> DEFINE nec == Necessary(N)
           unn == Unneeded(nec, U)
<1>1. nec \subseteq Open /\ nec \in SUBSET Steps
  BY NecessaryFacts DEF Open
<1>2. unn \subseteq Missing /\ unn \in SUBSET Steps
  BY <1>1, UnneededFacts DEF Missing
<1>3. /\ status' = StatusAfterAdd(nec, unn)
      /\ ready' = members \cup ReadyAfterAdd(nec, unn)
      /\ late' = Rekey(status', members, nec)
  BY DEF RecursivelyAddSteps
<1> HIDE DEF nec, unn
<1>4. \A x \in Nodes : /\ status'[x] = IF x \in nec THEN "UNEXECUTED"
                                        ELSE IF x \in unn THEN "UNNECESSARY" ELSE status[x]
                       /\ late'[x] = IF x \in members \ nec THEN late[x] ELSE IsLate(status', x)
  BY <1>3 DEF StatusAfterAdd, Rekey
<1> SUFFICES ASSUME NEW x \in ready'
             PROVE  status'[x] \in Pending /\ late'[x] = (status'[x] = "UNNECESSARY")
  BY DEF ReadyFresh
<1>5. x \in Nodes /\ (x \in members \/ x \in nec \/ x \in unn)
  BY <1>1, <1>2, <1>3 DEF ReadyAfterAdd, TypeOK, Nodes
<1>6. CASE x \in members \ nec
  <2>1. status[x] \in Pending /\ late[x] = (status[x] = "UNNECESSARY")
    BY <1>6 DEF ReadyFresh
  <2>2. x \notin unn
    BY <1>2, <2>1 DEF Missing, Pending
  <2>3. status'[x] = status[x] /\ late'[x] = late[x]
    BY <1>4, <1>5, <1>6, <2>2
  <2> QED BY <2>1, <2>3
<1>7. CASE x \notin members \ nec
  <2>1. status'[x] \in Pending /\ late'[x] = IsLate(status', x)
    BY <1>4, <1>5, <1>7 DEF Pending
  <2>2. IsLate(status', x) = (status'[x] = "UNNECESSARY")
    BY <2>1 DEF IsLate, Pending
  <2> QED BY <2>1, <2>2
<1> QED BY <1>6, <1>7

\* DeExecute leaves the steps in the set alone, because they are not executed, and what
\* Exec() inserts is pending and gets its key from its status after DeExecute.
LEMMA ExecuteKeepsFresh ==
    ASSUME TypeOK, ReadyFresh, NEW next \in Nodes, NEW res \in Results(next),
           NEW inv \in SUBSET Invalidated(next, res), NEW o \in Orders(inv),
           Execute(next, res, inv, o)
    PROVE  ReadyFresh'
<1>0. PICK E : E = EdgesOf(next)
  OBVIOUS
<1>00. PICK st : st = [status EXCEPT ![next] = res]
  OBVIOUS
<1>000. PICK V, F : V = DeExecuted(inv, E, st) /\ F = Forced(o, inv, E, st)
  OBVIOUS
<1>1. /\ status' = StatusAfterDeExecute(V, F, st)
      /\ ready' = (ready \ {next}) \cup ReadyAfterDeExecute(inv, o, F, E, st)
                                    \cup NewReady(next, E, status')
      /\ late' = Rekey(status', ready \ {next}, {})
  BY <1>0, <1>00, <1>000 DEF Execute
<1>2. res \in Done
  BY StepsAssumption DEF Results, Done
<1>3. \A x \in Nodes : st[x] = IF x = next THEN res ELSE status[x]
  BY <1>00 DEF TypeOK
<1>4. \A x \in Nodes :
         /\ status'[x] = IF x \notin V \/ st[x] \notin Done THEN st[x]
                         ELSE IF st[x] = "SKIPPED" /\ x \notin F THEN "UNNECESSARY"
                         ELSE "UNEXECUTED"
         /\ late'[x] = IF x \in ready \ {next} THEN late[x] ELSE IsLate(status', x)
  BY <1>1 DEF StatusAfterDeExecute, Rekey
<1>5. inv \in SUBSET Nodes /\ \A x \in inv : status[x] # "NONEXISTENT"
  BY StepsAssumption DEF Invalidated, Nodes
<1>6. inv \subseteq V
  <2>1. E \in SUBSET (Steps \X Nodes)
    BY <1>0, RelType DEF EdgesOf, Relationships, Dependencies, Precedences, TypeOK, Nodes
  <2> QED BY <1>000, <1>5, <2>1, DeExecutedClosed
<1> SUFFICES ASSUME NEW x \in ready'
             PROVE  status'[x] \in Pending /\ late'[x] = (status'[x] = "UNNECESSARY")
  BY DEF ReadyFresh
<1>7. CASE x \in ready \ {next}
  <2>1. x \in Nodes /\ status[x] \in Pending /\ late[x] = (status[x] = "UNNECESSARY")
    BY <1>7 DEF ReadyFresh, TypeOK
  <2>2. st[x] = status[x] /\ st[x] \notin Done
    BY <1>3, <1>7, <2>1 DEF Pending, Done
  <2>3. status'[x] = status[x] /\ late'[x] = late[x]
    BY <1>4, <1>7, <2>1, <2>2
  <2> QED BY <2>1, <2>3
<1>8. CASE x \notin ready \ {next}
  <2>1. x \in Nodes /\ (x \in F \/ status'[x] \in Pending)
    BY <1>000, <1>1, <1>5, <1>8 DEF ReadyAfterDeExecute, Forced, NewReady
  <2>2. ASSUME x \in F PROVE status'[x] \in Pending
    <3>1. x \in inv /\ x \in V
      BY <1>000, <1>6, <2>2 DEF Forced
    <3>2. st[x] \in Done \/ st[x] \in Pending
      BY <1>2, <1>3, <1>5, <2>1, <3>1 DEF TypeOK, Status
    <3> QED BY <1>4, <2>1, <2>2, <3>1, <3>2 DEF Pending
  <2>3. late'[x] = IsLate(status', x)
    BY <1>4, <1>8, <2>1
  <2>4. IsLate(status', x) = (status'[x] = "UNNECESSARY")
    BY <2>1, <2>2 DEF IsLate, Pending
  <2> QED BY <2>1, <2>2, <2>3, <2>4
<1> QED BY <1>7, <1>8

\* Every step of main() and of Exec() leaves fresh keys.
LEMMA NextKeepsFresh ==
    ASSUME TypeOK, ReadyFresh, Next
    PROVE  ReadyFresh'
<1>1. ASSUME NEW s \in Requested, AddStep(s) PROVE ReadyFresh'
  <2>1. PICK N, U, members, newEdges : N = {s} /\ U = {} /\ members = ready /\ newEdges = {}
    OBVIOUS
  <2>2. N \in SUBSET Steps /\ U \in SUBSET Steps /\ members \in SUBSET ready
    BY <2>1, StepsAssumption
  <2>3. RecursivelyAddSteps(N, U, members, newEdges)
    BY <1>1, <2>1 DEF AddStep
  <2> QED BY <2>2, <2>3, AddKeepsFresh
<1>2. CASE UNCHANGED <<status, ready, late>>
  BY <1>2 DEF ReadyFresh
<1>3. ASSUME NEW next \in Nodes, Postpone(next) PROVE ReadyFresh'
  <2>1. PICK N, U, members, newEdges :
          /\ N = NecessaryRoots(next) /\ U = UnneededRoots(next)
          /\ members = ready \ {next}
          /\ newEdges = {<<y, next>> : y \in Relationships(next)}
    OBVIOUS
  <2>2. /\ Dependencies(next) \in SUBSET Steps
        /\ Precedences(next) \in SUBSET Steps
    BY RelType DEF Dependencies, Precedences, Nodes
  <2>3. N \in SUBSET Steps /\ U \in SUBSET Steps /\ members \in SUBSET ready
    BY <2>1, <2>2 DEF NecessaryRoots, UnneededRoots, Relationships
  <2>4. RecursivelyAddSteps(N, U, members, newEdges)
    BY <1>3, <2>1 DEF Postpone
  <2> QED BY <2>3, <2>4, AddKeepsFresh
<1>4. ASSUME NEW next \in Nodes, NEW res \in Results(next),
             NEW inv \in SUBSET Invalidated(next, res),
             NEW o \in Orders(inv), Execute(next, res, inv, o)
      PROVE  ReadyFresh'
  BY <1>4, ExecuteKeepsFresh
<1>5. ASSUME NEW next, NEW inv, AssertionFails(next) \/ InvalidatesNotBefore(next, inv)
      PROVE  ReadyFresh'
  BY <1>2, <1>5 DEF AssertionFails, InvalidatesNotBefore
<1>6. CASE StartExec \/ Finish \/ (Terminal /\ UNCHANGED vars)
  BY <1>2, <1>6 DEF StartExec, Finish, vars
<1>7. CASE Iteration
  BY <1>3, <1>4, <1>5, <1>7 DEF Iteration
<1> QED BY <1>1, <1>6, <1>7 DEF Next

\* The priority set never holds a stale key: a step in it is pending, and ordered by the
\* necessity it has now, although RecursivelyAddSteps may switch a step in the set to
\* necessary and DeExecute runs while other steps are in it.
THEOREM ReadyFreshHolds == Spec => []ReadyFresh
<1>1. Init => ReadyFresh
  BY DEF Init, ReadyFresh
<1>2. TypeOK /\ ReadyFresh /\ [Next]_vars => ReadyFresh'
  <2>1. ASSUME ReadyFresh, UNCHANGED vars PROVE ReadyFresh'
    BY <2>1 DEF vars, ReadyFresh
  <2> QED BY <2>1, NextKeepsFresh
<1> QED BY <1>1, <1>2, TypeCorrect, PTL DEF Spec

=============================================================================
