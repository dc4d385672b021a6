---------------------------- MODULE Mantis_proofs ----------------------------
(***************************************************************************)
(* Proofs about Mantis, for any number of jobs, workers, sessions, crashes *)
(* and exceptions: no killed command passes for a success, and the threads *)
(* implement TestBatch.                                                    *)
(***************************************************************************)
EXTENDS Mantis, FiniteSetTheorems, TLAPS

------------------------------------------------------------------------------
(* Types *)

LEMMA InitInductive == Init => Inductive
<1> SUFFICES ASSUME Init PROVE Inductive  OBVIOUS
<1>1. TypeOK
    <2>1. worker \in [Jobs -> WorkerSteps]  BY DEF Init, Submitted, WorkerSteps, Finished
    <2>2. batch \subseteq Jobs  BY DEF Init
    <2>3. monitor \in [Jobs -> MonitorSteps] /\ outcome \in [Jobs -> Outcomes] /\ main \in MainSteps
        BY DEF Init, MonitorSteps, Outcomes, MainSteps
    <2>4. proc \in [Jobs -> {"none", "running", "killed", "lost"} \cup Ends]
          /\ returncode \in [Jobs -> {"none", "zero", "nonzero"}]
        BY DEF Init
    <2>5. reaped \in [Jobs -> BOOLEAN] /\ cancelled \in BOOLEAN
        BY DEF Init
    <2> QED  BY <2>1, <2>2, <2>3, <2>4, <2>5 DEF Init, TypeOK
<1>2. RunningWatched
    <2>1. Active = {}  BY DEF Init, Active, Submitted, Finished
    <2> QED  BY <2>1, FS_EmptySet, MantisAssumption DEF Init, RunningWatched
<1>3. NoneLeft /\ Vouched
    BY DEF Init, NoneLeft, Vouched, Submitted, Ends
<1> QED  BY <1>1, <1>2, <1>3 DEF Inductive

\* Every step of every thread keeps the types.
LEMMA KeepsTypes ==
    ASSUME Inductive, Next
    PROVE  TypeOK'
<1> USE DEF Inductive
<1>1. ASSUME NEW j \in Jobs, ReturnCancelled(j) PROVE TypeOK'
    BY <1>1 DEF ReturnCancelled, Taken, Log, SetOutcome, Goto, os, control, bounds, TypeOK, WorkerSteps, MonitorSteps, MainSteps, Outcomes, Verdict, Finished, Ends
<1>2. ASSUME NEW j \in Jobs, ReturnSkipped(j) PROVE TypeOK'
    BY <1>2 DEF ReturnSkipped, Taken, Log, SetOutcome, Goto, os, control, bounds, TypeOK, WorkerSteps, MonitorSteps, MainSteps, Outcomes, Verdict, Finished, Ends
<1>3. ASSUME NEW j \in Jobs, CheckRaises(j) PROVE TypeOK'
    BY <1>3 DEF CheckRaises, Fault, Taken, Goto, os, files, control, TypeOK, WorkerSteps, MonitorSteps, MainSteps, Outcomes, Verdict, Finished, Ends
<1>4. ASSUME NEW j \in Jobs, CwdMissing(j) PROVE TypeOK'
    BY <1>4 DEF CwdMissing, Taken, Goto, os, files, control, bounds, TypeOK, WorkerSteps, MonitorSteps, MainSteps, Outcomes, Verdict, Finished, Ends
<1>5. ASSUME NEW j \in Jobs, Prepare(j) PROVE TypeOK'
    BY <1>5 DEF Prepare, Taken, WriteReturn, Goto, os, control, bounds, TypeOK, WorkerSteps, MonitorSteps, MainSteps, Outcomes, Verdict, Finished, Ends
<1>6. ASSUME NEW j \in Jobs, PrepareRaises(j) PROVE TypeOK'
    BY <1>6 DEF PrepareRaises, Fault, Taken, WriteReturn, Goto, os, control, TypeOK, WorkerSteps, MonitorSteps, MainSteps, Outcomes, Verdict, Finished, Ends
<1>7. ASSUME NEW j \in Jobs, Launch(j) PROVE TypeOK'
    BY <1>7 DEF Launch, Goto, SetOutcome, files, control, bounds, TypeOK, WorkerSteps, MonitorSteps, MainSteps, Outcomes, Verdict, Finished, Ends
<1>8. ASSUME NEW j \in Jobs, LaunchError(j) PROVE TypeOK'
    BY <1>8 DEF LaunchError, Fault, WriteReturn, Log, SetOutcome, Goto, os, control, TypeOK, WorkerSteps, MonitorSteps, MainSteps, Outcomes, Verdict, Finished, Ends
<1>9. ASSUME NEW j \in Jobs, PollSeesNothing(j) PROVE TypeOK'
    BY <1>9 DEF PollSeesNothing, Goto, os, files, control, bounds, TypeOK, WorkerSteps, MonitorSteps, MainSteps, Outcomes, Verdict, Finished, Ends
<1>10. ASSUME NEW j \in Jobs, PollSeesEnd(j) PROVE TypeOK'
    BY <1>10 DEF PollSeesEnd, Consume, Code, Goto, os, files, control, bounds, TypeOK, WorkerSteps, MonitorSteps, MainSteps, Outcomes, Verdict, Finished, Ends
<1>11. ASSUME NEW j \in Jobs, CancelKills(j) PROVE TypeOK'
    BY <1>11 DEF CancelKills, KillProcessTree, SetOutcome, Goto, files, control, bounds, TypeOK, WorkerSteps, MonitorSteps, MainSteps, Outcomes, Verdict, Finished, Ends
<1>12. ASSUME NEW j \in Jobs, Ask(j) PROVE TypeOK'
    BY <1>12 DEF Ask, Goto, SetOutcome, os, files, control, bounds, TypeOK, WorkerSteps, MonitorSteps, MainSteps, Outcomes, Verdict, Finished, Ends
<1>13. ASSUME NEW j \in Jobs, Record(j) PROVE TypeOK'
    BY <1>13 DEF Record, WriteReturn, Recorded, Judgements, SetOutcome, Goto, os, control, bounds, TypeOK, WorkerSteps, MonitorSteps, MainSteps, Outcomes, Verdict, Finished, Ends
<1>14. ASSUME NEW j \in Jobs, LogExecution(j) PROVE TypeOK'
    BY <1>14 DEF LogExecution, Log, Goto, os, control, bounds, TypeOK, WorkerSteps, MonitorSteps, MainSteps, Outcomes, Verdict, Finished, Ends
<1>15. ASSUME NEW j \in Jobs, RuntimeError(j) PROVE TypeOK'
    BY <1>15 DEF RuntimeError, Fault, WriteReturn, Recorded, Judgements, SetOutcome, Log, Goto, os, control, TypeOK, WorkerSteps, MonitorSteps, MainSteps, Outcomes, Verdict, Finished, Ends
<1>16. ASSUME NEW j \in Jobs, Return(j) PROVE TypeOK'
    BY <1>16 DEF Return, Goto, files, control, bounds, TypeOK, WorkerSteps, MonitorSteps, MainSteps, Outcomes, Verdict, Finished, Ends
<1>17. ASSUME NEW j \in Jobs, MonitorSeesEnd(j) PROVE TypeOK'
    BY <1>17 DEF MonitorSeesEnd, Consume, Code, os, files, control, bounds, TypeOK, WorkerSteps, MonitorSteps, MainSteps, Outcomes, Verdict, Finished, Ends
<1>18. ASSUME NEW j \in Jobs, MonitorTimeout(j) PROVE TypeOK'
    BY <1>18 DEF MonitorTimeout, SetOutcome, os, files, control, bounds, TypeOK, WorkerSteps, MonitorSteps, MainSteps, Outcomes, Verdict, Finished, Ends
<1>19. ASSUME NEW j \in Jobs, MonitorKills(j) PROVE TypeOK'
    BY <1>19 DEF MonitorKills, KillProcessTree, files, control, bounds, TypeOK, WorkerSteps, MonitorSteps, MainSteps, Outcomes, Verdict, Finished, Ends
<1>20. ASSUME NEW j \in Jobs, MonitorNotifies(j) PROVE TypeOK'
    BY <1>20 DEF MonitorNotifies, NotifyAll, os, files, control, bounds, TypeOK, WorkerSteps, MonitorSteps, MainSteps, Outcomes, Verdict, Finished, Ends
<1>21. ASSUME NEW j \in Jobs, MonitorExpires(j) PROVE TypeOK'
    BY <1>21 DEF MonitorExpires, os, files, control, bounds, TypeOK, WorkerSteps, MonitorSteps, MainSteps, Outcomes, Verdict, Finished, Ends
<1>22. ASSUME NEW j \in Jobs, ProcessEnds(j) PROVE TypeOK'
    BY <1>22 DEF ProcessEnds, Ends, threads, files, control, bounds, TypeOK, WorkerSteps, MonitorSteps, MainSteps, Outcomes, Verdict, Finished, Ends
<1>23. ASSUME NEW j \in Jobs, Collect(j) PROVE TypeOK'
    BY <1>23 DEF Collect, threads, os, files, bounds, TypeOK, WorkerSteps, MonitorSteps, MainSteps, Outcomes, Verdict, Finished, Ends
<1>24. ASSUME NEW j \in Jobs, CollectCrash(j) PROVE TypeOK'
    BY <1>24 DEF CollectCrash, threads, os, files, bounds, TypeOK, WorkerSteps, MonitorSteps, MainSteps, Outcomes, Verdict, Finished, Ends
<1>25. CASE AllCollected
    BY <1>25 DEF AllCollected, threads, os, files, bounds, TypeOK, WorkerSteps, MonitorSteps, MainSteps, Outcomes, Verdict, Finished, Ends
<1>26. CASE NotifyWorkers
    BY <1>26 DEF NotifyWorkers, os, files, bounds, TypeOK, WorkerSteps, MonitorSteps, MainSteps, Outcomes, Verdict, Finished, Ends
<1>27. CASE Close
    BY <1>27 DEF Close, threads, os, files, bounds, TypeOK, WorkerSteps, MonitorSteps, MainSteps, Outcomes, Verdict, Finished, Ends
<1>28. CASE Interrupt
    BY <1>28 DEF Interrupt, threads, os, files, bounds, TypeOK, WorkerSteps, MonitorSteps, MainSteps, Outcomes, Verdict, Finished, Ends
<1>29. CASE Crash
    <2>1. worker' \in [Jobs -> WorkerSteps]  BY <1>29 DEF Crash, WorkerSteps, Finished
    <2>2. monitor' \in [Jobs -> MonitorSteps] /\ outcome' \in [Jobs -> Outcomes] /\ main' \in MainSteps
        BY <1>29 DEF Crash, MonitorSteps, Outcomes, MainSteps
    <2>3. proc' \in [Jobs -> {"none", "running", "killed", "lost"} \cup Ends]
        BY <1>29 DEF Crash, TypeOK
    <2>4. faults' \in Nat  BY <1>29 DEF Crash, Fault, TypeOK
    <2> QED  BY <1>29, <2>1, <2>2, <2>3, <2>4 DEF Crash, TypeOK, files
<1>30. CASE Restart
    <2>1. worker' \in [Jobs -> WorkerSteps]  BY <1>30 DEF Restart, Submitted, WorkerSteps, Finished
    <2>2. monitor' \in [Jobs -> MonitorSteps] /\ outcome' \in [Jobs -> Outcomes] /\ main' \in MainSteps
        BY <1>30 DEF Restart, MonitorSteps, Outcomes, MainSteps
    <2>3. ready' \subseteq Jobs /\ retfile' \in [Jobs -> {"absent", "zero", "other"}]
        BY <1>30 DEF Restart, TypeOK
    <2>4. sessions' \in Nat \ {0}  BY <1>30 DEF Restart, TypeOK
    <2> QED  BY <1>30, <2>1, <2>2, <2>3, <2>4 DEF Restart, TypeOK
<1> QED
    BY <1>1, <1>2, <1>3, <1>4, <1>5, <1>6, <1>7, <1>8, <1>9, <1>10, <1>11, <1>12, <1>13, <1>14, <1>15, <1>16, <1>17, <1>18, <1>19, <1>20, <1>21, <1>22, <1>23, <1>24, <1>25, <1>26, <1>27, <1>28, <1>29, <1>30
    DEF Next, Worker, Monitor, Main

------------------------------------------------------------------------------
(* The pool *)

LEMMA ActiveFinite ==
    ASSUME TypeOK
    PROVE  IsFiniteSet(Active) /\ Cardinality(Active) \in Nat
BY MantisAssumption, FS_Subset, FS_CardinalityType DEF Active

LEMMA PoolShrinks ==
    ASSUME TypeOK, Cardinality(Active) <= Parallel, Active' \subseteq Active
    PROVE  Cardinality(Active') <= Parallel
<1>1. Cardinality(Active') \in Nat /\ Cardinality(Active') <= Cardinality(Active)
    BY ActiveFinite, FS_Subset, FS_CardinalityType
<1> QED  BY <1>1, ActiveFinite, MantisAssumption

\* A thread of the pool takes a job.
LEMMA PoolGrows ==
    ASSUME TypeOK, NEW j \in Jobs, Active' \subseteq Active \cup {j}, Cardinality(Active) < Parallel
    PROVE  Cardinality(Active') <= Parallel
<1>1. IsFiniteSet(Active \cup {j}) /\ Cardinality(Active \cup {j}) <= Cardinality(Active) + 1
    <2>1. IsFiniteSet(Active)  BY ActiveFinite
    <2>2. /\ IsFiniteSet(Active \cup {j})
          /\ Cardinality(Active \cup {j}) =
                IF j \in Active THEN Cardinality(Active) ELSE Cardinality(Active) + 1
        BY <2>1, FS_AddElement, Zenon
    <2> QED  BY <2>2, ActiveFinite
<1>2. /\ Cardinality(Active') \in Nat /\ Cardinality(Active \cup {j}) \in Nat
      /\ Cardinality(Active') <= Cardinality(Active \cup {j})
    BY <1>1, FS_Subset, FS_CardinalityType
<1> QED  BY <1>1, <1>2, ActiveFinite, MantisAssumption

\* The pool is not exceeded, and no command is left without its worker.
LEMMA KeepsWatched ==
    ASSUME Inductive, Next
    PROVE  RunningWatched'
<1> USE DEF Inductive
<1>1. ASSUME NEW j \in Jobs, ReturnCancelled(j) PROVE RunningWatched'
    <2>1. Active' \subseteq Active
        BY <1>1 DEF ReturnCancelled, Taken, Log, SetOutcome, Goto, os, control, bounds, Active, Finished, TypeOK
    <2>2. \A k \in Jobs : proc'[k] = "running" => worker'[k] \in {"poll", "sleep", "kill"}
        BY <1>1 DEF ReturnCancelled, Taken, Log, SetOutcome, Goto, os, control, bounds, RunningWatched, NoneLeft, Finished, TypeOK
    <2> QED  BY <2>1, <2>2, PoolShrinks DEF RunningWatched
<1>2. ASSUME NEW j \in Jobs, ReturnSkipped(j) PROVE RunningWatched'
    <2>1. Active' \subseteq Active
        BY <1>2 DEF ReturnSkipped, Taken, Log, SetOutcome, Goto, os, control, bounds, Active, Finished, TypeOK
    <2>2. \A k \in Jobs : proc'[k] = "running" => worker'[k] \in {"poll", "sleep", "kill"}
        BY <1>2 DEF ReturnSkipped, Taken, Log, SetOutcome, Goto, os, control, bounds, RunningWatched, NoneLeft, Finished, TypeOK
    <2> QED  BY <2>1, <2>2, PoolShrinks DEF RunningWatched
<1>3. ASSUME NEW j \in Jobs, CheckRaises(j) PROVE RunningWatched'
    <2>1. Active' \subseteq Active
        BY <1>3 DEF CheckRaises, Fault, Taken, Goto, os, files, control, Active, Finished, TypeOK
    <2>2. \A k \in Jobs : proc'[k] = "running" => worker'[k] \in {"poll", "sleep", "kill"}
        BY <1>3 DEF CheckRaises, Fault, Taken, Goto, os, files, control, RunningWatched, NoneLeft, Finished, TypeOK
    <2> QED  BY <2>1, <2>2, PoolShrinks DEF RunningWatched
<1>4. ASSUME NEW j \in Jobs, CwdMissing(j) PROVE RunningWatched'
    <2>1. Active' \subseteq Active
        BY <1>4 DEF CwdMissing, Taken, Goto, os, files, control, bounds, Active, Finished, TypeOK
    <2>2. \A k \in Jobs : proc'[k] = "running" => worker'[k] \in {"poll", "sleep", "kill"}
        BY <1>4 DEF CwdMissing, Taken, Goto, os, files, control, bounds, RunningWatched, NoneLeft, Finished, TypeOK
    <2> QED  BY <2>1, <2>2, PoolShrinks DEF RunningWatched
<1>5. ASSUME NEW j \in Jobs, Prepare(j) PROVE RunningWatched'
    <2>1. Active' \subseteq Active \cup {j} /\ Cardinality(Active) < Parallel
        BY <1>5 DEF Prepare, Taken, WriteReturn, Goto, os, control, bounds, Active, TypeOK
    <2>2. \A k \in Jobs : proc'[k] = "running" => worker'[k] \in {"poll", "sleep", "kill"}
        BY <1>5 DEF Prepare, Taken, WriteReturn, Goto, os, control, bounds, RunningWatched, TypeOK
    <2> QED  BY <2>1, <2>2, PoolGrows DEF RunningWatched
<1>6. ASSUME NEW j \in Jobs, PrepareRaises(j) PROVE RunningWatched'
    <2>1. Active' \subseteq Active
        BY <1>6 DEF PrepareRaises, Fault, Taken, WriteReturn, Goto, os, control, Active, Finished, TypeOK
    <2>2. \A k \in Jobs : proc'[k] = "running" => worker'[k] \in {"poll", "sleep", "kill"}
        BY <1>6 DEF PrepareRaises, Fault, Taken, WriteReturn, Goto, os, control, RunningWatched, NoneLeft, Finished, TypeOK
    <2> QED  BY <2>1, <2>2, PoolShrinks DEF RunningWatched
<1>7. ASSUME NEW j \in Jobs, Launch(j) PROVE RunningWatched'
    <2>1. Active' \subseteq Active
        BY <1>7 DEF Launch, Goto, SetOutcome, files, control, bounds, Active, Finished, TypeOK
    <2>2. \A k \in Jobs : proc'[k] = "running" => worker'[k] \in {"poll", "sleep", "kill"}
        BY <1>7 DEF Launch, Goto, SetOutcome, files, control, bounds, RunningWatched, NoneLeft, Finished, TypeOK
    <2> QED  BY <2>1, <2>2, PoolShrinks DEF RunningWatched
<1>8. ASSUME NEW j \in Jobs, LaunchError(j) PROVE RunningWatched'
    <2>1. Active' \subseteq Active
        BY <1>8 DEF LaunchError, Fault, WriteReturn, Log, SetOutcome, Goto, os, control, Active, Finished, TypeOK
    <2>2. \A k \in Jobs : proc'[k] = "running" => worker'[k] \in {"poll", "sleep", "kill"}
        BY <1>8 DEF LaunchError, Fault, WriteReturn, Log, SetOutcome, Goto, os, control, RunningWatched, NoneLeft, Finished, TypeOK
    <2> QED  BY <2>1, <2>2, PoolShrinks DEF RunningWatched
<1>9. ASSUME NEW j \in Jobs, PollSeesNothing(j) PROVE RunningWatched'
    <2>1. Active' \subseteq Active
        BY <1>9 DEF PollSeesNothing, Goto, os, files, control, bounds, Active, Finished, TypeOK
    <2>2. \A k \in Jobs : proc'[k] = "running" => worker'[k] \in {"poll", "sleep", "kill"}
        BY <1>9 DEF PollSeesNothing, Goto, os, files, control, bounds, RunningWatched, NoneLeft, Finished, TypeOK
    <2> QED  BY <2>1, <2>2, PoolShrinks DEF RunningWatched
<1>10. ASSUME NEW j \in Jobs, PollSeesEnd(j) PROVE RunningWatched'
    <2>1. Active' \subseteq Active
        BY <1>10 DEF PollSeesEnd, Consume, Code, Goto, os, files, control, bounds, Active, Finished, TypeOK
    <2>2. \A k \in Jobs : proc'[k] = "running" => worker'[k] \in {"poll", "sleep", "kill"}
        BY <1>10 DEF PollSeesEnd, Consume, Code, Goto, os, files, control, bounds, RunningWatched, NoneLeft, Finished, TypeOK
    <2> QED  BY <2>1, <2>2, PoolShrinks DEF RunningWatched
<1>11. ASSUME NEW j \in Jobs, CancelKills(j) PROVE RunningWatched'
    <2>1. Active' \subseteq Active
        BY <1>11 DEF CancelKills, KillProcessTree, SetOutcome, Goto, files, control, bounds, Active, Finished, TypeOK
    <2>2. \A k \in Jobs : proc'[k] = "running" => worker'[k] \in {"poll", "sleep", "kill"}
        BY <1>11 DEF CancelKills, KillProcessTree, SetOutcome, Goto, files, control, bounds, RunningWatched, NoneLeft, Finished, TypeOK
    <2> QED  BY <2>1, <2>2, PoolShrinks DEF RunningWatched
<1>12. ASSUME NEW j \in Jobs, Ask(j) PROVE RunningWatched'
    <2>1. Active' \subseteq Active
        BY <1>12 DEF Ask, Goto, SetOutcome, os, files, control, bounds, Active, Finished, TypeOK
    <2>2. \A k \in Jobs : proc'[k] = "running" => worker'[k] \in {"poll", "sleep", "kill"}
        BY <1>12 DEF Ask, Goto, SetOutcome, os, files, control, bounds, RunningWatched, NoneLeft, Finished, TypeOK
    <2> QED  BY <2>1, <2>2, PoolShrinks DEF RunningWatched
<1>13. ASSUME NEW j \in Jobs, Record(j) PROVE RunningWatched'
    <2>1. Active' \subseteq Active
        BY <1>13 DEF Record, WriteReturn, Recorded, Judgements, SetOutcome, Goto, os, control, bounds, Active, Finished, TypeOK
    <2>2. \A k \in Jobs : proc'[k] = "running" => worker'[k] \in {"poll", "sleep", "kill"}
        BY <1>13 DEF Record, WriteReturn, Recorded, Judgements, SetOutcome, Goto, os, control, bounds, RunningWatched, NoneLeft, Finished, TypeOK
    <2> QED  BY <2>1, <2>2, PoolShrinks DEF RunningWatched
<1>14. ASSUME NEW j \in Jobs, LogExecution(j) PROVE RunningWatched'
    <2>1. Active' \subseteq Active
        BY <1>14 DEF LogExecution, Log, Goto, os, control, bounds, Active, Finished, TypeOK
    <2>2. \A k \in Jobs : proc'[k] = "running" => worker'[k] \in {"poll", "sleep", "kill"}
        BY <1>14 DEF LogExecution, Log, Goto, os, control, bounds, RunningWatched, NoneLeft, Finished, TypeOK
    <2> QED  BY <2>1, <2>2, PoolShrinks DEF RunningWatched
<1>15. ASSUME NEW j \in Jobs, RuntimeError(j) PROVE RunningWatched'
    <2>1. Active' \subseteq Active
        BY <1>15 DEF RuntimeError, Fault, WriteReturn, Recorded, Judgements, SetOutcome, Log, Goto, os, control, Active, Finished, TypeOK
    <2>2. \A k \in Jobs : proc'[k] = "running" => worker'[k] \in {"poll", "sleep", "kill"}
        BY <1>15 DEF RuntimeError, Fault, WriteReturn, Recorded, Judgements, SetOutcome, Log, Goto, os, control, RunningWatched, NoneLeft, Finished, TypeOK
    <2> QED  BY <2>1, <2>2, PoolShrinks DEF RunningWatched
<1>16. ASSUME NEW j \in Jobs, Return(j) PROVE RunningWatched'
    <2>1. Active' \subseteq Active
        BY <1>16 DEF Return, Goto, files, control, bounds, Active, Finished, TypeOK
    <2>2. \A k \in Jobs : proc'[k] = "running" => worker'[k] \in {"poll", "sleep", "kill"}
        BY <1>16 DEF Return, Goto, files, control, bounds, RunningWatched, NoneLeft, Finished, TypeOK
    <2> QED  BY <2>1, <2>2, PoolShrinks DEF RunningWatched
<1>17. ASSUME NEW j \in Jobs, MonitorSeesEnd(j) PROVE RunningWatched'
    BY <1>17 DEF MonitorSeesEnd, Consume, Code, os, files, control, bounds, RunningWatched, Active, TypeOK
<1>18. ASSUME NEW j \in Jobs, MonitorTimeout(j) PROVE RunningWatched'
    BY <1>18 DEF MonitorTimeout, SetOutcome, os, files, control, bounds, RunningWatched, Active, TypeOK
<1>19. ASSUME NEW j \in Jobs, MonitorKills(j) PROVE RunningWatched'
    BY <1>19 DEF MonitorKills, KillProcessTree, files, control, bounds, RunningWatched, Active, TypeOK
<1>20. ASSUME NEW j \in Jobs, MonitorNotifies(j) PROVE RunningWatched'
    <2>1. Active' \subseteq Active
        BY <1>20 DEF MonitorNotifies, NotifyAll, os, files, control, bounds, Active, Finished, TypeOK
    <2>2. \A k \in Jobs : proc'[k] = "running" => worker'[k] \in {"poll", "sleep", "kill"}
        BY <1>20 DEF MonitorNotifies, NotifyAll, os, files, control, bounds, RunningWatched, NoneLeft, Finished, TypeOK
    <2> QED  BY <2>1, <2>2, PoolShrinks DEF RunningWatched
<1>21. ASSUME NEW j \in Jobs, MonitorExpires(j) PROVE RunningWatched'
    BY <1>21 DEF MonitorExpires, os, files, control, bounds, RunningWatched, Active, TypeOK
<1>22. ASSUME NEW j \in Jobs, ProcessEnds(j) PROVE RunningWatched'
    BY <1>22 DEF ProcessEnds, Ends, threads, files, control, bounds, RunningWatched, Active, TypeOK
<1>23. ASSUME NEW j \in Jobs, Collect(j) PROVE RunningWatched'
    BY <1>23 DEF Collect, threads, os, files, bounds, RunningWatched, Active, TypeOK
<1>24. ASSUME NEW j \in Jobs, CollectCrash(j) PROVE RunningWatched'
    BY <1>24 DEF CollectCrash, threads, os, files, bounds, RunningWatched, Active, TypeOK
<1>25. CASE AllCollected
    BY <1>25 DEF AllCollected, threads, os, files, bounds, RunningWatched, Active, TypeOK
<1>26. CASE NotifyWorkers
    <2>1. Active' \subseteq Active
        BY <1>26 DEF NotifyWorkers, os, files, bounds, Active, Finished, TypeOK
    <2>2. \A k \in Jobs : proc'[k] = "running" => worker'[k] \in {"poll", "sleep", "kill"}
        BY <1>26 DEF NotifyWorkers, os, files, bounds, RunningWatched, NoneLeft, Finished, TypeOK
    <2> QED  BY <2>1, <2>2, PoolShrinks DEF RunningWatched
<1>27. CASE Close
    BY <1>27 DEF Close, threads, os, files, bounds, RunningWatched, Active, TypeOK
<1>28. CASE Interrupt
    BY <1>28 DEF Interrupt, threads, os, files, bounds, RunningWatched, Active, TypeOK
<1>29. CASE Crash
    <2>1. Active' \subseteq Active
        BY <1>29 DEF Crash, Fault, files, Active, Finished, TypeOK
    <2>2. \A k \in Jobs : proc'[k] = "running" => worker'[k] \in {"poll", "sleep", "kill"}
        BY <1>29 DEF Crash, Fault, files, RunningWatched, NoneLeft, Finished, TypeOK
    <2> QED  BY <2>1, <2>2, PoolShrinks DEF RunningWatched
<1>30. CASE Restart
    <2>1. Active' \subseteq Active
        BY <1>30 DEF Restart, Submitted, Active, Finished, TypeOK
    <2>2. \A k \in Jobs : proc'[k] = "running" => worker'[k] \in {"poll", "sleep", "kill"}
        BY <1>30 DEF Restart, Submitted, RunningWatched, NoneLeft, Finished, TypeOK
    <2> QED  BY <2>1, <2>2, PoolShrinks DEF RunningWatched
<1> QED
    BY <1>1, <1>2, <1>3, <1>4, <1>5, <1>6, <1>7, <1>8, <1>9, <1>10, <1>11, <1>12, <1>13, <1>14, <1>15, <1>16, <1>17, <1>18, <1>19, <1>20, <1>21, <1>22, <1>23, <1>24, <1>25, <1>26, <1>27, <1>28, <1>29, <1>30
    DEF Next, Worker, Monitor, Main

\* A session ends after its jobs.
LEMMA KeepsNone ==
    ASSUME Inductive, Next
    PROVE  NoneLeft'
<1> USE DEF Inductive
<1>1. ASSUME NEW j \in Jobs, ReturnCancelled(j) PROVE NoneLeft'
    BY <1>1 DEF ReturnCancelled, Taken, Log, SetOutcome, Goto, os, control, bounds, NoneLeft, Finished, TypeOK
<1>2. ASSUME NEW j \in Jobs, ReturnSkipped(j) PROVE NoneLeft'
    BY <1>2 DEF ReturnSkipped, Taken, Log, SetOutcome, Goto, os, control, bounds, NoneLeft, Finished, TypeOK
<1>3. ASSUME NEW j \in Jobs, CheckRaises(j) PROVE NoneLeft'
    BY <1>3 DEF CheckRaises, Fault, Taken, Goto, os, files, control, NoneLeft, Finished, TypeOK
<1>4. ASSUME NEW j \in Jobs, CwdMissing(j) PROVE NoneLeft'
    BY <1>4 DEF CwdMissing, Taken, Goto, os, files, control, bounds, NoneLeft, Finished, TypeOK
<1>5. ASSUME NEW j \in Jobs, Prepare(j) PROVE NoneLeft'
    BY <1>5 DEF Prepare, Taken, WriteReturn, Goto, os, control, bounds, NoneLeft, Finished, TypeOK
<1>6. ASSUME NEW j \in Jobs, PrepareRaises(j) PROVE NoneLeft'
    BY <1>6 DEF PrepareRaises, Fault, Taken, WriteReturn, Goto, os, control, NoneLeft, Finished, TypeOK
<1>7. ASSUME NEW j \in Jobs, Launch(j) PROVE NoneLeft'
    BY <1>7 DEF Launch, Goto, SetOutcome, files, control, bounds, NoneLeft, Finished, TypeOK
<1>8. ASSUME NEW j \in Jobs, LaunchError(j) PROVE NoneLeft'
    BY <1>8 DEF LaunchError, Fault, WriteReturn, Log, SetOutcome, Goto, os, control, NoneLeft, Finished, TypeOK
<1>9. ASSUME NEW j \in Jobs, PollSeesNothing(j) PROVE NoneLeft'
    BY <1>9 DEF PollSeesNothing, Goto, os, files, control, bounds, NoneLeft, Finished, TypeOK
<1>10. ASSUME NEW j \in Jobs, PollSeesEnd(j) PROVE NoneLeft'
    BY <1>10 DEF PollSeesEnd, Consume, Code, Goto, os, files, control, bounds, NoneLeft, Finished, TypeOK
<1>11. ASSUME NEW j \in Jobs, CancelKills(j) PROVE NoneLeft'
    BY <1>11 DEF CancelKills, KillProcessTree, SetOutcome, Goto, files, control, bounds, NoneLeft, Finished, TypeOK
<1>12. ASSUME NEW j \in Jobs, Ask(j) PROVE NoneLeft'
    BY <1>12 DEF Ask, Goto, SetOutcome, os, files, control, bounds, NoneLeft, Finished, TypeOK
<1>13. ASSUME NEW j \in Jobs, Record(j) PROVE NoneLeft'
    BY <1>13 DEF Record, WriteReturn, Recorded, Judgements, SetOutcome, Goto, os, control, bounds, NoneLeft, Finished, TypeOK
<1>14. ASSUME NEW j \in Jobs, LogExecution(j) PROVE NoneLeft'
    BY <1>14 DEF LogExecution, Log, Goto, os, control, bounds, NoneLeft, Finished, TypeOK
<1>15. ASSUME NEW j \in Jobs, RuntimeError(j) PROVE NoneLeft'
    BY <1>15 DEF RuntimeError, Fault, WriteReturn, Recorded, Judgements, SetOutcome, Log, Goto, os, control, NoneLeft, Finished, TypeOK
<1>16. ASSUME NEW j \in Jobs, Return(j) PROVE NoneLeft'
    BY <1>16 DEF Return, Goto, files, control, bounds, NoneLeft, Finished, TypeOK
<1>17. ASSUME NEW j \in Jobs, MonitorSeesEnd(j) PROVE NoneLeft'
    BY <1>17 DEF MonitorSeesEnd, Consume, Code, os, files, control, bounds, NoneLeft, Finished, TypeOK
<1>18. ASSUME NEW j \in Jobs, MonitorTimeout(j) PROVE NoneLeft'
    BY <1>18 DEF MonitorTimeout, SetOutcome, os, files, control, bounds, NoneLeft, Finished, TypeOK
<1>19. ASSUME NEW j \in Jobs, MonitorKills(j) PROVE NoneLeft'
    BY <1>19 DEF MonitorKills, KillProcessTree, files, control, bounds, NoneLeft, Finished, TypeOK
<1>20. ASSUME NEW j \in Jobs, MonitorNotifies(j) PROVE NoneLeft'
    BY <1>20 DEF MonitorNotifies, NotifyAll, os, files, control, bounds, NoneLeft, Finished, TypeOK
<1>21. ASSUME NEW j \in Jobs, MonitorExpires(j) PROVE NoneLeft'
    BY <1>21 DEF MonitorExpires, os, files, control, bounds, NoneLeft, Finished, TypeOK
<1>22. ASSUME NEW j \in Jobs, ProcessEnds(j) PROVE NoneLeft'
    BY <1>22 DEF ProcessEnds, Ends, threads, files, control, bounds, NoneLeft, Finished, TypeOK
<1>23. ASSUME NEW j \in Jobs, Collect(j) PROVE NoneLeft'
    BY <1>23 DEF Collect, threads, os, files, bounds, NoneLeft, Finished, TypeOK
<1>24. ASSUME NEW j \in Jobs, CollectCrash(j) PROVE NoneLeft'
    BY <1>24 DEF CollectCrash, threads, os, files, bounds, NoneLeft, Finished, TypeOK
<1>25. CASE AllCollected
    BY <1>25 DEF AllCollected, threads, os, files, bounds, NoneLeft, Finished, TypeOK
<1>26. CASE NotifyWorkers
    BY <1>26 DEF NotifyWorkers, os, files, bounds, NoneLeft, Finished, TypeOK
<1>27. CASE Close
    BY <1>27 DEF Close, threads, os, files, bounds, NoneLeft, Finished, TypeOK
<1>28. CASE Interrupt
    BY <1>28 DEF Interrupt, threads, os, files, bounds, NoneLeft, Finished, TypeOK
<1>29. CASE Crash
    BY <1>29 DEF Crash, Fault, files, NoneLeft, Finished, TypeOK
<1>30. CASE Restart
    BY <1>30 DEF Restart, Submitted, NoneLeft, Finished, TypeOK
<1> QED
    BY <1>1, <1>2, <1>3, <1>4, <1>5, <1>6, <1>7, <1>8, <1>9, <1>10, <1>11, <1>12, <1>13, <1>14, <1>15, <1>16, <1>17, <1>18, <1>19, <1>20, <1>21, <1>22, <1>23, <1>24, <1>25, <1>26, <1>27, <1>28, <1>29, <1>30
    DEF Next, Worker, Monitor, Main

------------------------------------------------------------------------------
(* SUCCESS *)

\* SUCCESS is taken back before a command is killed.
LEMMA KeepsVouched ==
    ASSUME Inductive, Next
    PROVE  Vouched'
<1> USE DEF Inductive
<1>1. ASSUME NEW j \in Jobs, ReturnCancelled(j) PROVE Vouched'
    BY <1>1 DEF ReturnCancelled, Taken, Log, SetOutcome, Goto, os, control, bounds, Vouched, Trusted, RunningWatched, NoneLeft, Finished, Ends, TypeOK
<1>2. ASSUME NEW j \in Jobs, ReturnSkipped(j) PROVE Vouched'
    BY <1>2 DEF ReturnSkipped, Taken, Log, SetOutcome, Goto, os, control, bounds, Vouched, Trusted, RunningWatched, NoneLeft, Finished, Ends, TypeOK
<1>3. ASSUME NEW j \in Jobs, CheckRaises(j) PROVE Vouched'
    BY <1>3 DEF CheckRaises, Fault, Taken, Goto, os, files, control, Vouched, Trusted, RunningWatched, NoneLeft, Finished, Ends, TypeOK
<1>4. ASSUME NEW j \in Jobs, CwdMissing(j) PROVE Vouched'
    BY <1>4 DEF CwdMissing, Taken, Goto, os, files, control, bounds, Vouched, Trusted, RunningWatched, NoneLeft, Finished, Ends, TypeOK
<1>5. ASSUME NEW j \in Jobs, Prepare(j) PROVE Vouched'
    BY <1>5 DEF Prepare, Taken, WriteReturn, Goto, os, control, bounds, Vouched, Trusted, RunningWatched, NoneLeft, Finished, Ends, TypeOK
<1>6. ASSUME NEW j \in Jobs, PrepareRaises(j) PROVE Vouched'
    BY <1>6 DEF PrepareRaises, Fault, Taken, WriteReturn, Goto, os, control, Vouched, Trusted, RunningWatched, NoneLeft, Finished, Ends, TypeOK
<1>7. ASSUME NEW j \in Jobs, Launch(j) PROVE Vouched'
    BY <1>7 DEF Launch, Goto, SetOutcome, files, control, bounds, Vouched, Trusted, RunningWatched, NoneLeft, Finished, Ends, TypeOK
<1>8. ASSUME NEW j \in Jobs, LaunchError(j) PROVE Vouched'
    BY <1>8 DEF LaunchError, Fault, WriteReturn, Log, SetOutcome, Goto, os, control, Vouched, Trusted, RunningWatched, NoneLeft, Finished, Ends, TypeOK
<1>9. ASSUME NEW j \in Jobs, PollSeesNothing(j) PROVE Vouched'
    BY <1>9 DEF PollSeesNothing, Goto, os, files, control, bounds, Vouched, Trusted, RunningWatched, NoneLeft, Finished, Ends, TypeOK
<1>10. ASSUME NEW j \in Jobs, PollSeesEnd(j) PROVE Vouched'
    BY <1>10 DEF PollSeesEnd, Consume, Code, Goto, os, files, control, bounds, Vouched, Trusted, RunningWatched, NoneLeft, Finished, Ends, TypeOK
<1>11. ASSUME NEW j \in Jobs, CancelKills(j) PROVE Vouched'
    BY <1>11 DEF CancelKills, KillProcessTree, SetOutcome, Goto, files, control, bounds, Vouched, Trusted, RunningWatched, NoneLeft, Finished, Ends, TypeOK
<1>12. ASSUME NEW j \in Jobs, Ask(j) PROVE Vouched'
    BY <1>12 DEF Ask, Goto, SetOutcome, os, files, control, bounds, Vouched, Trusted, RunningWatched, NoneLeft, Finished, Ends, TypeOK
<1>13. ASSUME NEW j \in Jobs, Record(j) PROVE Vouched'
    BY <1>13 DEF Record, WriteReturn, Recorded, Judgements, SetOutcome, Goto, os, control, bounds, Vouched, Trusted, RunningWatched, NoneLeft, Finished, Ends, TypeOK
<1>14. ASSUME NEW j \in Jobs, LogExecution(j) PROVE Vouched'
    BY <1>14 DEF LogExecution, Log, Goto, os, control, bounds, Vouched, Trusted, RunningWatched, NoneLeft, Finished, Ends, TypeOK
<1>15. ASSUME NEW j \in Jobs, RuntimeError(j) PROVE Vouched'
    BY <1>15 DEF RuntimeError, Fault, WriteReturn, Recorded, Judgements, SetOutcome, Log, Goto, os, control, Vouched, Trusted, RunningWatched, NoneLeft, Finished, Ends, TypeOK
<1>16. ASSUME NEW j \in Jobs, Return(j) PROVE Vouched'
    BY <1>16 DEF Return, Goto, files, control, bounds, Vouched, Trusted, RunningWatched, NoneLeft, Finished, Ends, TypeOK
<1>17. ASSUME NEW j \in Jobs, MonitorSeesEnd(j) PROVE Vouched'
    BY <1>17 DEF MonitorSeesEnd, Consume, Code, os, files, control, bounds, Vouched, Trusted, RunningWatched, NoneLeft, Finished, Ends, TypeOK
<1>18. ASSUME NEW j \in Jobs, MonitorTimeout(j) PROVE Vouched'
    BY <1>18 DEF MonitorTimeout, SetOutcome, os, files, control, bounds, Vouched, Trusted, RunningWatched, NoneLeft, Finished, Ends, TypeOK
<1>19. ASSUME NEW j \in Jobs, MonitorKills(j) PROVE Vouched'
    BY <1>19 DEF MonitorKills, KillProcessTree, files, control, bounds, Vouched, Trusted, RunningWatched, NoneLeft, Finished, Ends, TypeOK
<1>20. ASSUME NEW j \in Jobs, MonitorNotifies(j) PROVE Vouched'
    BY <1>20 DEF MonitorNotifies, NotifyAll, os, files, control, bounds, Vouched, Trusted, RunningWatched, NoneLeft, Finished, Ends, TypeOK
<1>21. ASSUME NEW j \in Jobs, MonitorExpires(j) PROVE Vouched'
    BY <1>21 DEF MonitorExpires, os, files, control, bounds, Vouched, Trusted, RunningWatched, NoneLeft, Finished, Ends, TypeOK
<1>22. ASSUME NEW j \in Jobs, ProcessEnds(j) PROVE Vouched'
    BY <1>22 DEF ProcessEnds, Ends, threads, files, control, bounds, Vouched, Trusted, RunningWatched, NoneLeft, Finished, Ends, TypeOK
<1>23. ASSUME NEW j \in Jobs, Collect(j) PROVE Vouched'
    BY <1>23 DEF Collect, threads, os, files, bounds, Vouched, Trusted, RunningWatched, NoneLeft, Finished, Ends, TypeOK
<1>24. ASSUME NEW j \in Jobs, CollectCrash(j) PROVE Vouched'
    BY <1>24 DEF CollectCrash, threads, os, files, bounds, Vouched, Trusted, RunningWatched, NoneLeft, Finished, Ends, TypeOK
<1>25. CASE AllCollected
    BY <1>25 DEF AllCollected, threads, os, files, bounds, Vouched, Trusted, RunningWatched, NoneLeft, Finished, Ends, TypeOK
<1>26. CASE NotifyWorkers
    BY <1>26 DEF NotifyWorkers, os, files, bounds, Vouched, Trusted, RunningWatched, NoneLeft, Finished, Ends, TypeOK
<1>27. CASE Close
    BY <1>27 DEF Close, threads, os, files, bounds, Vouched, Trusted, RunningWatched, NoneLeft, Finished, Ends, TypeOK
<1>28. CASE Interrupt
    BY <1>28 DEF Interrupt, threads, os, files, bounds, Vouched, Trusted, RunningWatched, NoneLeft, Finished, Ends, TypeOK
<1>29. CASE Crash
    BY <1>29 DEF Crash, Fault, files, Vouched, Trusted, RunningWatched, NoneLeft, Finished, Ends, TypeOK
<1>30. CASE Restart
    BY <1>30 DEF Restart, Submitted, Vouched, Trusted, RunningWatched, NoneLeft, Finished, Ends, TypeOK
<1> QED
    BY <1>1, <1>2, <1>3, <1>4, <1>5, <1>6, <1>7, <1>8, <1>9, <1>10, <1>11, <1>12, <1>13, <1>14, <1>15, <1>16, <1>17, <1>18, <1>19, <1>20, <1>21, <1>22, <1>23, <1>24, <1>25, <1>26, <1>27, <1>28, <1>29, <1>30
    DEF Next, Worker, Monitor, Main

LEMMA KeepsInductive == Inductive /\ [Next]_vars => Inductive'
<1> SUFFICES ASSUME Inductive, [Next]_vars PROVE Inductive'  OBVIOUS
<1>1. CASE Next
    BY <1>1, KeepsTypes, KeepsWatched, KeepsNone, KeepsVouched DEF Inductive
<1>2. CASE UNCHANGED vars
    BY <1>2 DEF Inductive, TypeOK, RunningWatched, Active, NoneLeft, Vouched, Trusted,
                vars, threads, os, files, control, bounds
<1> QED  BY <1>1, <1>2

LEMMA InductiveHolds == Spec => []Inductive
BY InitInductive, KeepsInductive, PTL DEF Spec

\* The variables of mantis.py are well formed in every session.
THEOREM TypeCorrect == Spec => []TypeOK
<1>1. Inductive => TypeOK  BY DEF Inductive
<1> QED  BY <1>1, InductiveHolds, PTL

\* run_command returns SUCCESS, and return_value holds 0, only for a command that ended by
\* itself, although the timeout and Ctrl+C kill commands whose exit status Popen then takes
\* for 0.
THEOREM SuccessIsGenuineHolds == Spec => []SuccessIsGenuine
<1>1. Inductive => SuccessIsGenuine  BY DEF Inductive, Vouched, SuccessIsGenuine
<1> QED  BY <1>1, InductiveHolds, PTL

------------------------------------------------------------------------------
(* Refinement *)

RecordedJobs == {j \in Jobs : retfile[j] = "zero"}

LEMMA CommandOf ==
    ASSUME TypeOK, NEW j \in Jobs
    PROVE  /\ Command[j] = "running" <=> proc[j] = "running"
           /\ Command[j] = "zero" <=> proc[j] \in {"pass", "unmet"}
BY DEF Command, TypeOK, Ends

\* The steps that neither start nor end a command, nor touch return_value.
LEMMA BatchStutters ==
    ASSUME UNCHANGED <<proc, retfile>>
    PROVE  UNCHANGED <<Command, RecordedJobs>>
BY DEF Command, RecordedJobs

\* A step that only writes return_value, and writes 0 only for a command that returned 0,
\* records a job or forgets some.
LEMMA BatchWrites ==
    ASSUME TypeOK, NEW j \in Jobs, NEW v, retfile' = [retfile EXCEPT ![j] = v], proc' = proc,
           v = "zero" => proc[j] \in {"pass", "unmet"}
    PROVE  Batch!BatchNext
<1>1. Command' = Command  BY DEF Command
<1>2. CASE v = "zero"
    <2>1. RecordedJobs' = RecordedJobs \cup {j}  BY <1>2 DEF RecordedJobs, TypeOK
    <2>2. Command[j] = "zero"  BY <1>2, CommandOf
    <2> QED  BY <1>1, <2>1, <2>2 DEF Batch!BatchNext, Batch!BatchRecord, RecordedJobs
<1>3. CASE v # "zero"
    <2>1. RecordedJobs' \subseteq RecordedJobs  BY <1>3 DEF RecordedJobs, TypeOK
    <2> QED  BY <1>1, <2>1 DEF Batch!BatchNext, Batch!BatchForget, RecordedJobs
<1> QED  BY <1>2, <1>3

\* A command ends or is killed.
LEMMA BatchReturns ==
    ASSUME TypeOK, NEW j \in Jobs, NEW end \in Ends \cup {"killed"},
           proc[j] = "running", proc' = [proc EXCEPT ![j] = end], retfile' = retfile
    PROVE  Batch!BatchNext
<1> DEFINE e == IF end \in {"pass", "unmet"} THEN "zero" ELSE IF end = "fail" THEN "nonzero" ELSE "killed"
<1>1. Command' = [Command EXCEPT ![j] = e]  BY DEF Command, TypeOK, Ends
<1>2. Command[j] = "running"  BY CommandOf
<1>3. RecordedJobs' = RecordedJobs  BY DEF RecordedJobs
<1>4. e \in {"zero", "nonzero", "killed"}  BY DEF Ends
<1>5. Batch!BatchReturn(j)  BY <1>1, <1>2, <1>3, <1>4 DEF Batch!BatchReturn, RecordedJobs
<1> QED  BY <1>5 DEF Batch!BatchNext

LEMMA BatchKills ==
    ASSUME TypeOK, NEW j \in Jobs, KillProcessTree(j), retfile' = retfile
    PROVE  Batch!BatchNext \/ UNCHANGED <<Command, RecordedJobs>>
<1>1. CASE proc[j] = "running"
    <2>1. proc' = [proc EXCEPT ![j] = "killed"]  BY <1>1 DEF KillProcessTree
    <2> QED  BY <1>1, <2>1, BatchReturns
<1>2. CASE proc[j] # "running"
    <2>1. proc' = proc  BY <1>2 DEF KillProcessTree, TypeOK
    <2> QED  BY <2>1, BatchStutters
<1> QED  BY <1>1, <1>2

\* The instance of TestBatch has its own copy of FiniteSets.
LEMMA SameCardinality == \A S : Batch!Cardinality(S) = Cardinality(S)
BY Zenon DEF Batch!Cardinality, Cardinality

\* A worker launches a command: fewer than Parallel others run.
LEMMA BatchLaunches ==
    ASSUME Inductive, NEW j \in Jobs, Launch(j)
    PROVE  Batch!BatchNext
<1> USE DEF Inductive
<1>1. proc[j] # "running" /\ retfile[j] # "zero" /\ j \in Active
    BY DEF Launch, RunningWatched, Vouched, Active, Finished
<1>2. Command' = [Command EXCEPT ![j] = "running"]
    BY DEF Launch, Command, TypeOK, Ends
<1>3. RecordedJobs' = RecordedJobs  BY DEF Launch, files, RecordedJobs
<1>4. Cardinality(Batch!RunningJobs) < Parallel
    <2>1. Batch!RunningJobs \subseteq Active \ {j}
        BY <1>1, CommandOf DEF Batch!RunningJobs, RunningWatched, Active, Finished
    <2>2. IsFiniteSet(Active \ {j}) /\ Cardinality(Active \ {j}) = Cardinality(Active) - 1
        <3>1. IsFiniteSet(Active)  BY ActiveFinite
        <3> QED  BY <1>1, <3>1, FS_RemoveElement, Zenon
    <2>3. /\ Cardinality(Batch!RunningJobs) \in Nat
          /\ Cardinality(Batch!RunningJobs) <= Cardinality(Active \ {j})
        BY <2>1, <2>2, FS_Subset, FS_CardinalityType
    <2> QED  BY <2>2, <2>3, ActiveFinite, MantisAssumption DEF RunningWatched
<1>5. Command[j] # "running"  BY <1>1, CommandOf
<1>6. j \notin RecordedJobs  BY <1>1 DEF RecordedJobs
<1>7. Batch!Cardinality(Batch!RunningJobs) < Parallel
    BY <1>4, SameCardinality
<1>8. Batch!BatchLaunch(j)
    BY <1>2, <1>3, <1>5, <1>6, <1>7 DEF Batch!BatchLaunch, RecordedJobs
<1> QED  BY <1>8 DEF Batch!BatchNext

\* Every step of mantis is a step of the batch, or changes nothing there.
LEMMA StepImplements ==
    ASSUME Inductive, Next
    PROVE  Batch!BatchNext \/ UNCHANGED <<Command, RecordedJobs>>
<1> USE DEF Inductive
<1>1. ASSUME NEW j \in Jobs, ReturnCancelled(j) PROVE Batch!BatchNext \/ UNCHANGED <<Command, RecordedJobs>>
    BY <1>1, BatchStutters DEF ReturnCancelled, os, control, bounds
<1>2. ASSUME NEW j \in Jobs, ReturnSkipped(j) PROVE Batch!BatchNext \/ UNCHANGED <<Command, RecordedJobs>>
    BY <1>2, BatchStutters DEF ReturnSkipped, os, control, bounds
<1>3. ASSUME NEW j \in Jobs, CheckRaises(j) PROVE Batch!BatchNext \/ UNCHANGED <<Command, RecordedJobs>>
    BY <1>3, BatchStutters DEF CheckRaises, os, files, control
<1>4. ASSUME NEW j \in Jobs, CwdMissing(j) PROVE Batch!BatchNext \/ UNCHANGED <<Command, RecordedJobs>>
    BY <1>4, BatchStutters DEF CwdMissing, os, files, control, bounds
<1>5. ASSUME NEW j \in Jobs, Prepare(j) PROVE Batch!BatchNext \/ UNCHANGED <<Command, RecordedJobs>>
    BY <1>5, BatchWrites DEF Prepare, os, control, bounds, WriteReturn
<1>6. ASSUME NEW j \in Jobs, PrepareRaises(j) PROVE Batch!BatchNext \/ UNCHANGED <<Command, RecordedJobs>>
    <2>1. PICK v \in {"absent", retfile[j]} : retfile' = [retfile EXCEPT ![j] = v]
        BY <1>6 DEF PrepareRaises, WriteReturn
    <2>2. v = "zero" => proc[j] \in {"pass", "unmet"}  BY <2>1 DEF Vouched
    <2> QED  BY <1>6, <2>1, <2>2, BatchWrites DEF PrepareRaises, os, control
<1>7. ASSUME NEW j \in Jobs, Launch(j) PROVE Batch!BatchNext \/ UNCHANGED <<Command, RecordedJobs>>
    BY <1>7, BatchLaunches
<1>8. ASSUME NEW j \in Jobs, LaunchError(j) PROVE Batch!BatchNext \/ UNCHANGED <<Command, RecordedJobs>>
    BY <1>8, BatchWrites DEF LaunchError, os, control, WriteReturn
<1>9. ASSUME NEW j \in Jobs, PollSeesNothing(j) PROVE Batch!BatchNext \/ UNCHANGED <<Command, RecordedJobs>>
    BY <1>9, BatchStutters DEF PollSeesNothing, os, files, control, bounds
<1>10. ASSUME NEW j \in Jobs, PollSeesEnd(j) PROVE Batch!BatchNext \/ UNCHANGED <<Command, RecordedJobs>>
    BY <1>10, BatchStutters DEF PollSeesEnd, os, files, control, bounds
<1>11. ASSUME NEW j \in Jobs, CancelKills(j) PROVE Batch!BatchNext \/ UNCHANGED <<Command, RecordedJobs>>
    BY <1>11, BatchKills DEF CancelKills, files, control, bounds
<1>12. ASSUME NEW j \in Jobs, Ask(j) PROVE Batch!BatchNext \/ UNCHANGED <<Command, RecordedJobs>>
    BY <1>12, BatchStutters DEF Ask, os, files, control, bounds
<1>13. ASSUME NEW j \in Jobs, Record(j) PROVE Batch!BatchNext \/ UNCHANGED <<Command, RecordedJobs>>
    <2>1. Recorded(j) = "zero" => proc[j] \in {"pass", "unmet"}
        BY <1>13 DEF Record, Recorded, Vouched, Trusted
    <2> QED  BY <1>13, <2>1, BatchWrites DEF Record, os, control, bounds, WriteReturn
<1>14. ASSUME NEW j \in Jobs, LogExecution(j) PROVE Batch!BatchNext \/ UNCHANGED <<Command, RecordedJobs>>
    BY <1>14, BatchStutters DEF LogExecution, os, control, bounds
<1>15. ASSUME NEW j \in Jobs, RuntimeError(j) PROVE Batch!BatchNext \/ UNCHANGED <<Command, RecordedJobs>>
    <2>1. PICK v \in {"other", retfile[j]} \cup (IF worker[j] = "record" THEN {Recorded(j)} ELSE {}) :
              retfile' = [retfile EXCEPT ![j] = v]
        BY <1>15 DEF RuntimeError, WriteReturn
    <2>2. v = "zero" => proc[j] \in {"pass", "unmet"}  BY <2>1 DEF Recorded, Vouched, Trusted
    <2> QED  BY <1>15, <2>1, <2>2, BatchWrites DEF RuntimeError, os, control
<1>16. ASSUME NEW j \in Jobs, Return(j) PROVE Batch!BatchNext \/ UNCHANGED <<Command, RecordedJobs>>
    BY <1>16, BatchStutters DEF Return, files, control, bounds
<1>17. ASSUME NEW j \in Jobs, MonitorSeesEnd(j) PROVE Batch!BatchNext \/ UNCHANGED <<Command, RecordedJobs>>
    BY <1>17, BatchStutters DEF MonitorSeesEnd, os, files, control, bounds
<1>18. ASSUME NEW j \in Jobs, MonitorTimeout(j) PROVE Batch!BatchNext \/ UNCHANGED <<Command, RecordedJobs>>
    BY <1>18, BatchStutters DEF MonitorTimeout, os, files, control, bounds
<1>19. ASSUME NEW j \in Jobs, MonitorKills(j) PROVE Batch!BatchNext \/ UNCHANGED <<Command, RecordedJobs>>
    BY <1>19, BatchKills DEF MonitorKills, files, control, bounds
<1>20. ASSUME NEW j \in Jobs, MonitorNotifies(j) PROVE Batch!BatchNext \/ UNCHANGED <<Command, RecordedJobs>>
    BY <1>20, BatchStutters DEF MonitorNotifies, os, files, control, bounds
<1>21. ASSUME NEW j \in Jobs, MonitorExpires(j) PROVE Batch!BatchNext \/ UNCHANGED <<Command, RecordedJobs>>
    BY <1>21, BatchStutters DEF MonitorExpires, os, files, control, bounds
<1>22. ASSUME NEW j \in Jobs, ProcessEnds(j) PROVE Batch!BatchNext \/ UNCHANGED <<Command, RecordedJobs>>
    <2>1. PICK end \in Ends : proc' = [proc EXCEPT ![j] = end]  BY <1>22 DEF ProcessEnds
    <2> QED  BY <1>22, <2>1, BatchReturns DEF ProcessEnds, threads, files, control, bounds
<1>23. ASSUME NEW j \in Jobs, Collect(j) PROVE Batch!BatchNext \/ UNCHANGED <<Command, RecordedJobs>>
    BY <1>23, BatchStutters DEF Collect, threads, os, files, bounds
<1>24. ASSUME NEW j \in Jobs, CollectCrash(j) PROVE Batch!BatchNext \/ UNCHANGED <<Command, RecordedJobs>>
    BY <1>24, BatchStutters DEF CollectCrash, threads, os, files, bounds
<1>25. CASE AllCollected
    BY <1>25, BatchStutters DEF AllCollected, threads, os, files, bounds
<1>26. CASE NotifyWorkers
    BY <1>26, BatchStutters DEF NotifyWorkers, os, files, bounds
<1>27. CASE Close
    BY <1>27, BatchStutters DEF Close, threads, os, files, bounds
<1>28. CASE Interrupt
    BY <1>28, BatchStutters DEF Interrupt, threads, os, files, bounds
<1>29. CASE Crash
    <2>1. Command' = [j \in Jobs |-> IF Command[j] = "running" THEN "lost" ELSE Command[j]]
        BY <1>29 DEF Crash, Command, TypeOK, Ends
    <2>2. RecordedJobs' = RecordedJobs  BY <1>29 DEF Crash, files, RecordedJobs
    <2> QED  BY <2>1, <2>2 DEF Batch!BatchNext, Batch!BatchCrash, RecordedJobs
<1>30. CASE Restart
    <2>1. Command' = Command  BY <1>30 DEF Restart, Command
    <2>2. RecordedJobs' \subseteq RecordedJobs  BY <1>30 DEF Restart, RecordedJobs
    <2> QED  BY <2>1, <2>2 DEF Batch!BatchNext, Batch!BatchForget, RecordedJobs
<1> QED
    BY <1>1, <1>2, <1>3, <1>4, <1>5, <1>6, <1>7, <1>8, <1>9, <1>10, <1>11, <1>12, <1>13, <1>14, <1>15, <1>16, <1>17, <1>18, <1>19, <1>20, <1>21, <1>22, <1>23, <1>24, <1>25, <1>26, <1>27, <1>28, <1>29, <1>30
    DEF Next, Worker, Monitor, Main

\* The threads of mantis implement the batch: at most Parallel commands at a time, and no
\* record of a success that was not one, whatever is killed, interrupted or crashes.
THEOREM Refinement == Spec => ImplementsBatch
<1>1. Init => Batch!BatchInit
    BY DEF Init, Batch!BatchInit, Command, Ends
<1>2. Inductive /\ [Next]_vars => [Batch!BatchNext]_(Batch!batchVars)
    <2> SUFFICES ASSUME Inductive, [Next]_vars
                 PROVE  Batch!BatchNext \/ UNCHANGED <<Command, RecordedJobs>>
        BY DEF Batch!batchVars, RecordedJobs
    <2>1. CASE Next  BY <2>1, StepImplements
    <2>2. CASE UNCHANGED vars  BY <2>2, BatchStutters DEF vars, os, files
    <2> QED  BY <2>1, <2>2
<1> QED  BY <1>1, <1>2, InductiveHolds, PTL DEF Spec, ImplementsBatch, Batch!BatchSpec
==============================================================================
