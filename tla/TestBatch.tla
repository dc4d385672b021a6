------------------------------ MODULE TestBatch ------------------------------
(***************************************************************************)
(* What src/etc/scripts/mantis.py promises of a batch of tests, whatever   *)
(* its threads do: at most Parallel commands run at a time, a command that *)
(* was killed or lost never counts as one that returned 0, and a job that  *)
(* is launched again has no record of an earlier success.  How the threads *)
(* achieve it is in Mantis, which implements this.                         *)
(***************************************************************************)
EXTENDS Naturals, FiniteSets

CONSTANTS
    Jobs,
    Parallel  \* commands that may run at a time

VARIABLES
    command,  \* what became of the last command of a job
    recorded  \* the jobs whose last execution is on record as having returned 0

batchVars == <<command, recorded>>

RunningJobs == {j \in Jobs : command[j] = "running"}

BatchInit ==
    /\ command = [j \in Jobs |-> "none"]
    /\ recorded = {}

BatchLaunch(j) ==
    /\ command[j] # "running"
    /\ j \notin recorded
    /\ Cardinality(RunningJobs) < Parallel
    /\ command' = [command EXCEPT ![j] = "running"]
    /\ UNCHANGED recorded

BatchReturn(j) ==
    /\ command[j] = "running"
    /\ \E end \in {"zero", "nonzero", "killed"} : command' = [command EXCEPT ![j] = end]
    /\ UNCHANGED recorded

BatchRecord(j) ==
    /\ command[j] = "zero"
    /\ recorded' = recorded \cup {j}
    /\ UNCHANGED command

\* Records may be lost, never invented.
BatchForget ==
    /\ \E kept \in SUBSET recorded : recorded' = kept
    /\ UNCHANGED command

\* The batch is lost, with everything that runs; the records are not.
BatchCrash ==
    /\ command' = [j \in Jobs |-> IF command[j] = "running" THEN "lost" ELSE command[j]]
    /\ UNCHANGED recorded

BatchNext ==
    \/ \E j \in Jobs : BatchLaunch(j) \/ BatchReturn(j) \/ BatchRecord(j)
    \/ BatchForget \/ BatchCrash

BatchSpec == BatchInit /\ [][BatchNext]_batchVars
==============================================================================
