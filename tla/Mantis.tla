-------------------------------- MODULE Mantis --------------------------------
(***************************************************************************)
(* The runner of the regression tests: src/etc/scripts/mantis.py.          *)
(*                                                                         *)
(* main submits one job per test to a pool of Parallel worker threads and  *)
(* collects the results; a worker launches the command of its job, with a  *)
(* monitor thread that enforces the timeout, and waits for its end on a    *)
(* condition that all workers share.  Ctrl+C cancels everything.  What a   *)
(* command returned is kept in the file return_value of the job: a later   *)
(* session (--restart) skips the jobs that have a 0 there.                 *)
(*                                                                         *)
(* Abstracted: command lines, log texts, the JUnit file and the statistics *)
(* log_execution prints; a command returns 0 and meets its expectations    *)
(* (pass), returns 0 and does not (unmet), returns something else (fail),  *)
(* or is killed.  return_value is "absent", "zero" or "other" (an empty    *)
(* file, which is what a crash leaves of one that is being written, is not *)
(* "0\n" and is "other").                                                  *)
(***************************************************************************)
EXTENDS Naturals, FiniteSets

CONSTANTS
    Jobs,           \* the tests, numbered in the order of submission
    Parallel,       \* max_workers of the pool
    ExpectFailure,  \* the jobs with MANTIS_EXPECT_FAILURE
    Expecting,      \* the jobs with another MANTIS_EXPECT_
    MaxLoad         \* bound: number of jobs times number of sessions, exceptions and crashes

ASSUME MantisAssumption ==
    /\ Jobs \subseteq Nat /\ IsFiniteSet(Jobs)
    /\ Parallel \in Nat \ {0}
    /\ ExpectFailure \subseteq Jobs /\ Expecting \subseteq Jobs
    /\ MaxLoad \in Nat

VARIABLES
    worker,      \* where run_command is in each job
    monitor,     \* where monitor_process is
    outcome,     \* the local variable of run_command that both threads use
    returncode,  \* Popen.returncode
    proc,        \* the process of the job, or how it ended
    reaped,      \* the end of the process was consumed by psutil, not by Popen
    retfile,     \* the file return_value
    logged,      \* what log_execution last said of the job
    ready,       \* the jobs whose working directory exists
    batch,       \* exec_list: the jobs of the output directory
    cancelled,   \* run_command.cancel_event
    main,        \* where main is
    collected,   \* the futures main has handled
    retval,      \* the exit status under --returnfail
    sessions,    \* how often mantis was started
    faults       \* exceptions and crashes so far

threads == <<worker, monitor, outcome, returncode>>
os == <<proc, reaped>>
files == <<retfile, logged, ready>>
control == <<cancelled, main, collected, retval>>
bounds == <<batch, sessions, faults>>
vars == <<threads, os, files, control, bounds>>

Outcomes == {"SUCCESS", "FAILURE", "TIMEOUT", "CANCELLED", "SKIPPED"}
Ends == {"pass", "unmet", "fail"}
Finished == {"ended", "crashed", "revoked"}
WorkerSteps == {"queued", "launch", "poll", "sleep", "kill", "ask", "record", "log", "join"}
                   \cup Finished
MonitorSteps == {"off", "wait", "expired", "kill", "notify", "done"}
MainSteps == {"collect", "notify", "close", "ended", "killed"}
\* Verdicts as log_execution counts them.
Verdict(o) == IF o \in {"SUCCESS", "SKIPPED"} THEN "passed" ELSE "failed"

\* The jobs a thread of the pool is at work on.
Active == {j \in Jobs : worker[j] \notin Finished \cup {"queued"}}

\* A worker that cancels its job holds run_command.condition while it kills the process.
ConditionFree == \A j \in Jobs : worker[j] # "kill"

\* run_command's test for "Already executed succesfully"; the expectations are checked
\* against the results the last process left, which outlive the cleaning of the directory.
AlreadyExecuted(j) == retfile[j] = "zero" /\ proc[j] # "unmet"

\* The new value of Popen.returncode when its waitpid succeeds, or fails with ECHILD.
Code(j) == IF reaped[j] \/ proc[j] \in {"pass", "unmet"} THEN "zero" ELSE "nonzero"

Fault ==
    /\ Cardinality(batch) * (sessions + faults + 1) <= MaxLoad
    /\ faults' = faults + 1

Goto(j, step) == worker' = [worker EXCEPT ![j] = step]
SetOutcome(j, o) == outcome' = [outcome EXCEPT ![j] = o]
Log(j, verdict) == logged' = [logged EXCEPT ![j] = verdict]
WriteReturn(j, v) == retfile' = [retfile EXCEPT ![j] = v]

Submitted == [j \in Jobs |-> IF j \in batch THEN "queued" ELSE "revoked"]

Init ==
    /\ batch \in SUBSET Jobs \ {{}}
    /\ worker = Submitted
    /\ monitor = [j \in Jobs |-> "off"]
    /\ outcome = [j \in Jobs |-> "SUCCESS"]
    /\ returncode = [j \in Jobs |-> "none"]
    /\ proc = [j \in Jobs |-> "none"]
    /\ reaped = [j \in Jobs |-> FALSE]
    /\ retfile = [j \in Jobs |-> "absent"]
    /\ logged = [j \in Jobs |-> "none"]
    /\ ready = Jobs
    /\ cancelled = FALSE
    /\ main = "collect"
    /\ collected = {}
    /\ retval = 0
    /\ sessions = 1
    /\ faults = 0

------------------------------------------------------------------------------
(* run_command up to the launch of the process. *)

\* The pool takes the jobs in the order of their submission; the first thing a job does is
\* to take the condition.
Taken(j) ==
    /\ worker[j] = "queued"
    /\ Cardinality(Active) < Parallel
    /\ \A k \in Jobs : k < j => worker[k] # "queued"
    /\ ConditionFree

ReturnCancelled(j) ==
    /\ Taken(j) /\ cancelled
    /\ Log(j, Verdict("CANCELLED")) /\ SetOutcome(j, "CANCELLED") /\ Goto(j, "ended")
    /\ UNCHANGED <<monitor, returncode, os, retfile, ready, control, bounds>>

\* The skip list holds the lists argparse makes of its arguments: no name is in it.
ReturnSkipped(j) ==
    /\ Taken(j) /\ ~cancelled
    /\ AlreadyExecuted(j)
    /\ Log(j, Verdict("SKIPPED")) /\ SetOutcome(j, "SKIPPED") /\ Goto(j, "ended")
    /\ UNCHANGED <<monitor, returncode, os, retfile, ready, control, bounds>>

\* The results of the earlier execution cannot be parsed: nothing catches that here.
CheckRaises(j) ==
    /\ Fault
    /\ Taken(j) /\ ~cancelled
    /\ retfile[j] = "zero"
    /\ Goto(j, "crashed")
    /\ UNCHANGED <<monitor, outcome, returncode, os, files, control, batch, sessions>>

\* No directory within cwd_wait_timeout: the failure cannot be written there either.
CwdMissing(j) ==
    /\ Taken(j) /\ ~cancelled
    /\ ~AlreadyExecuted(j) /\ j \notin ready
    /\ Goto(j, "crashed")
    /\ UNCHANGED <<monitor, outcome, returncode, os, files, control, bounds>>

PrepareUncleaned(j) ==
    /\ Taken(j) /\ ~cancelled
    /\ ~AlreadyExecuted(j) /\ j \in ready
    /\ Goto(j, "launch")
    /\ UNCHANGED <<monitor, outcome, returncode, os, files, control, bounds>>
\* Everything in the directory is removed, return_value too.
Prepare(j) ==
    /\ Taken(j) /\ ~cancelled
    /\ ~AlreadyExecuted(j) /\ j \in ready
    /\ WriteReturn(j, "absent")
    /\ Goto(j, "launch")
    /\ UNCHANGED <<monitor, outcome, returncode, os, logged, ready, control, bounds>>

\* A file cannot be removed or created; return_value may be gone already.
PrepareRaises(j) ==
    /\ Fault
    /\ Taken(j) /\ ~cancelled
    /\ ~AlreadyExecuted(j) /\ j \in ready
    /\ \E v \in {"absent", retfile[j]} : WriteReturn(j, v)
    /\ Goto(j, "crashed")
    /\ UNCHANGED <<monitor, outcome, returncode, os, logged, ready, control, batch, sessions>>

Launch(j) ==
    /\ worker[j] = "launch"
    /\ proc' = [proc EXCEPT ![j] = "running"]
    /\ reaped' = [reaped EXCEPT ![j] = FALSE]
    /\ returncode' = [returncode EXCEPT ![j] = "none"]
    /\ SetOutcome(j, "SUCCESS")
    /\ monitor' = [monitor EXCEPT ![j] = "wait"]
    /\ Goto(j, "poll")
    /\ UNCHANGED <<files, control, bounds>>

LaunchError(j) ==
    /\ Fault
    /\ worker[j] = "launch"
    /\ WriteReturn(j, "other") /\ Log(j, Verdict("FAILURE")) /\ SetOutcome(j, "FAILURE")
    /\ Goto(j, "ended")
    /\ UNCHANGED <<monitor, returncode, os, ready, control, batch, sessions>>

------------------------------------------------------------------------------
(* The process and its monitor. *)

ProcessEnds(j) ==
    /\ proc[j] = "running"
    /\ \E end \in (IF j \in Expecting THEN Ends ELSE Ends \ {"unmet"}) :
          proc' = [proc EXCEPT ![j] = end]
    /\ UNCHANGED <<threads, reaped, files, control, bounds>>

\* Popen.wait or Popen.poll consumes the end of the process.
Consume(j) == returncode' = [returncode EXCEPT ![j] = IF @ = "none" THEN Code(j) ELSE @]

\* kill_process_tree: nothing to do if Popen knows that the process ended; otherwise the
\* process ends and psutil waits for it, which takes the exit status away from Popen,
\* unless that wait times out or Popen is faster.
KillProcessTree(j) ==
    /\ proc' = [proc EXCEPT ![j] = IF @ = "running" THEN "killed" ELSE @]
    /\ \E waited \in BOOLEAN :
          reaped' = [reaped EXCEPT ![j] = waited /\ returncode[j] = "none"]

MonitorSeesEnd(j) ==
    /\ monitor[j] = "wait" /\ proc[j] # "running"
    /\ Consume(j)
    /\ monitor' = [monitor EXCEPT ![j] = "notify"]
    /\ UNCHANGED <<worker, outcome, os, files, control, bounds>>

\* The process still ran when the monitor last looked and the time is over.
MonitorExpires(j) ==
    /\ monitor[j] = "wait" /\ proc[j] = "running"
    /\ monitor' = [monitor EXCEPT ![j] = "expired"]
    /\ UNCHANGED <<worker, outcome, returncode, os, files, control, bounds>>

MonitorKillsFirst(j) ==
    /\ monitor[j] = "expired"
    /\ KillProcessTree(j)
    /\ monitor' = [monitor EXCEPT ![j] = "kill"]
    /\ UNCHANGED <<worker, outcome, returncode, files, control, bounds>>
\* The outcome is set without holding the condition.
MonitorTimeout(j) ==
    /\ monitor[j] = "expired"
    /\ SetOutcome(j, "TIMEOUT")
    /\ monitor' = [monitor EXCEPT ![j] = "kill"]
    /\ UNCHANGED <<worker, returncode, os, files, control, bounds>>

MonitorKills(j) ==
    /\ monitor[j] = "kill"
    /\ KillProcessTree(j)
    /\ monitor' = [monitor EXCEPT ![j] = "notify"]
    /\ UNCHANGED <<worker, outcome, returncode, files, control, bounds>>

NotifyAll == worker' = [k \in Jobs |-> IF worker[k] = "sleep" THEN "poll" ELSE worker[k]]

MonitorSilent(j) ==
    /\ monitor[j] = "notify" /\ ConditionFree
    /\ monitor' = [monitor EXCEPT ![j] = "done"]
    /\ UNCHANGED <<worker, outcome, returncode, os, files, control, bounds>>
MonitorNotifies(j) ==
    /\ monitor[j] = "notify" /\ ConditionFree
    /\ NotifyAll
    /\ monitor' = [monitor EXCEPT ![j] = "done"]
    /\ UNCHANGED <<outcome, returncode, os, files, control, bounds>>

------------------------------------------------------------------------------
(* run_command waits for its process on the condition of all workers. *)

\* poll() also answers None when the monitor is in waitpid at that moment.
PollSeesNothing(j) ==
    /\ worker[j] = "poll" /\ ConditionFree
    /\ proc[j] = "running" \/ (returncode[j] = "none" /\ monitor[j] = "wait")
    /\ Goto(j, IF cancelled THEN "kill" ELSE "sleep")
    /\ UNCHANGED <<monitor, outcome, returncode, os, files, control, bounds>>

PollSeesEnd(j) ==
    /\ worker[j] = "poll" /\ ConditionFree
    /\ proc[j] # "running"
    /\ Consume(j)
    /\ Goto(j, "ask")
    /\ UNCHANGED <<monitor, outcome, os, files, control, bounds>>

\* The condition is held while the process is killed.
CancelKills(j) ==
    /\ worker[j] = "kill"
    /\ KillProcessTree(j)
    /\ SetOutcome(j, "CANCELLED")
    /\ Goto(j, "ask")
    /\ UNCHANGED <<monitor, returncode, files, control, bounds>>

------------------------------------------------------------------------------
(* run_command draws its conclusion; the monitor may still set the outcome. *)

\* if outcome == SUCCESS, elif outcome == TIMEOUT, elif outcome == CANCELLED
Ask(j) ==
    /\ worker[j] = "ask"
    /\ \/ outcome[j] = "SUCCESS" /\ Goto(j, "record") /\ UNCHANGED outcome
       \/ outcome[j] # "SUCCESS" /\ Goto(j, "log") /\ SetOutcome(j, "FAILURE")
    /\ UNCHANGED <<monitor, returncode, os, files, control, bounds>>

\* The judgement of a return code fails the job or leaves the outcome as it is.
Judgements(j) ==
    IF returncode[j] = "zero"
    THEN IF j \in ExpectFailure \/ proc[j] = "unmet" THEN {"FAILURE"} ELSE {outcome[j]}
    ELSE {"FAILURE"} \cup (IF j \in ExpectFailure THEN {outcome[j]} ELSE {})

Recorded(j) == IF returncode[j] = "zero" THEN "zero" ELSE "other"

Record(j) ==
    /\ worker[j] = "record"
    /\ WriteReturn(j, Recorded(j))
    /\ \E o \in Judgements(j) : SetOutcome(j, o)
    /\ Goto(j, "log")
    /\ UNCHANGED <<monitor, returncode, os, logged, ready, control, bounds>>

LogOutcome(j) ==
    /\ worker[j] = "log"
    /\ Log(j, outcome[j])
    /\ Goto(j, "join")
    /\ UNCHANGED <<monitor, outcome, returncode, os, retfile, ready, control, bounds>>
\* log_execution, then the directory is tidied up.
LogExecution(j) ==
    /\ worker[j] = "log"
    /\ Log(j, Verdict(outcome[j]))
    /\ Goto(j, "join")
    /\ UNCHANGED <<monitor, outcome, returncode, os, retfile, ready, control, bounds>>

\* An exception anywhere in the try block, before or after any of its assignments (in the
\* tidying up: after a first log); the attempt to write return_value may fail as well.
RuntimeError(j) ==
    /\ Fault
    /\ worker[j] \in {"ask", "record", "log"}
    /\ \E v \in {"other", retfile[j]} \cup (IF worker[j] = "record" THEN {Recorded(j)} ELSE {}) :
          WriteReturn(j, v)
    /\ \E o \in {outcome[j]} \cup (IF worker[j] = "record" THEN Judgements(j) ELSE {}) :
          SetOutcome(j, o)
    /\ Log(j, Verdict("FAILURE"))
    /\ Goto(j, "join")
    /\ UNCHANGED <<monitor, returncode, os, ready, control, batch, sessions>>

\* The threads' own variables go with them.
Return(j) ==
    /\ worker[j] = "join" /\ monitor[j] = "done"
    /\ Goto(j, "ended")
    /\ returncode' = [returncode EXCEPT ![j] = "none"]
    /\ reaped' = [reaped EXCEPT ![j] = FALSE]
    /\ monitor' = [monitor EXCEPT ![j] = "off"]
    /\ UNCHANGED <<outcome, proc, files, control, bounds>>

------------------------------------------------------------------------------
(* main: collects the futures, handles Ctrl+C, waits for the pool, is restarted. *)

Collect(j) ==
    /\ main = "collect" /\ j \notin collected /\ worker[j] = "ended"
    /\ collected' = collected \cup {j}
    /\ retval' = IF Verdict(outcome[j]) = "failed" THEN 1 ELSE retval
    /\ UNCHANGED <<threads, os, files, cancelled, main, bounds>>

\* The job raised.  Without its directory, or if the exception left it without
\* execution.log, main raises as well and leaves the loop.
CollectCrash(j) ==
    /\ main = "collect" /\ j \notin collected /\ worker[j] = "crashed"
    /\ collected' = collected \cup {j}
    /\ retval' = 1
    /\ main' \in {"close"} \cup (IF j \in ready THEN {"collect"} ELSE {})
    /\ UNCHANGED <<threads, os, files, cancelled, bounds>>

AllCollected ==
    /\ main = "collect" /\ batch \subseteq collected
    /\ main' = "close"
    /\ UNCHANGED <<threads, os, files, cancelled, collected, retval, bounds>>

Interrupt ==
    /\ main = "collect"
    /\ retval' = 1
    /\ cancelled' = TRUE
    /\ main' = "notify"
    /\ UNCHANGED <<threads, os, files, collected, bounds>>

NotifyForgotten ==
    /\ main = "notify" /\ ConditionFree
    /\ worker' = [k \in Jobs |-> IF worker[k] = "queued" THEN "revoked" ELSE worker[k]]
    /\ main' = "close"
    /\ UNCHANGED <<monitor, outcome, returncode, os, files, cancelled, collected, retval, bounds>>
\* The workers are woken; then the futures that wait in the queue are cancelled.
NotifyWorkers ==
    /\ main = "notify" /\ ConditionFree
    /\ worker' = [k \in Jobs |-> CASE worker[k] = "sleep" -> "poll"
                                   [] worker[k] = "queued" -> "revoked"
                                   [] OTHER -> worker[k]]
    /\ main' = "close"
    /\ UNCHANGED <<monitor, outcome, returncode, os, files, cancelled, collected, retval, bounds>>

\* The end of the with statement waits for every job; then the report is written.
Close ==
    /\ main = "close"
    /\ \A j \in Jobs : worker[j] \in Finished
    /\ main' = "ended"
    /\ UNCHANGED <<threads, os, files, cancelled, collected, retval, bounds>>

\* mantis itself is killed: the commands run in sessions of their own and go on.
Crash ==
    /\ Fault
    /\ main \notin {"ended", "killed"}
    /\ main' = "killed"
    /\ worker' = [j \in Jobs |-> "revoked"]
    /\ monitor' = [j \in Jobs |-> "off"]
    /\ outcome' = [j \in Jobs |-> "SUCCESS"]
    /\ returncode' = [j \in Jobs |-> "none"]
    /\ reaped' = [j \in Jobs |-> FALSE]
    /\ proc' = [j \in Jobs |-> IF proc[j] = "running" THEN "lost" ELSE proc[j]]
    /\ cancelled' = FALSE /\ collected' = {} /\ retval' = 0
    /\ UNCHANGED <<files, batch, sessions>>

\* --restart on the same output directory, from which directories of jobs may be gone.
Restart ==
    /\ main \in {"ended", "killed"}
    /\ Cardinality(batch) * (sessions + faults + 1) <= MaxLoad
    /\ sessions' = sessions + 1
    /\ \E kept \in SUBSET ready :
          /\ ready' = kept
          /\ retfile' = [j \in Jobs |-> IF j \in kept THEN retfile[j] ELSE "absent"]
    /\ worker' = Submitted
    /\ monitor' = [j \in Jobs |-> "off"]
    /\ outcome' = [j \in Jobs |-> "SUCCESS"]
    /\ returncode' = [j \in Jobs |-> "none"]
    /\ reaped' = [j \in Jobs |-> FALSE]
    /\ cancelled' = FALSE /\ main' = "collect" /\ collected' = {} /\ retval' = 0
    /\ UNCHANGED <<proc, logged, batch, faults>>

Worker(j) ==
    \/ ReturnCancelled(j) \/ ReturnSkipped(j) \/ CheckRaises(j) \/ CwdMissing(j)
    \/ Prepare(j) \/ PrepareRaises(j) \/ Launch(j) \/ LaunchError(j)
    \/ PollSeesNothing(j) \/ PollSeesEnd(j) \/ CancelKills(j)
    \/ Ask(j) \/ Record(j) \/ LogExecution(j) \/ RuntimeError(j) \/ Return(j)

Monitor(j) ==
    MonitorSeesEnd(j) \/ MonitorTimeout(j) \/ MonitorKills(j) \/ MonitorNotifies(j)

Main ==
    \/ \E j \in Jobs : Collect(j) \/ CollectCrash(j)
    \/ AllCollected \/ NotifyWorkers \/ Close

Next ==
    \/ \E j \in Jobs : Worker(j) \/ Monitor(j) \/ MonitorExpires(j) \/ ProcessEnds(j)
    \/ Main \/ Interrupt \/ Crash \/ Restart

\* Threads that can go on do; nothing makes a command end, a timeout expire, or a user
\* interrupt.
Fairness ==
    /\ \A j \in Jobs : WF_vars(Worker(j)) /\ WF_vars(Monitor(j))
    /\ WF_vars(Main)

Spec == Init /\ [][Next]_vars /\ Fairness

------------------------------------------------------------------------------
TypeOK ==
    /\ worker \in [Jobs -> WorkerSteps]
    /\ monitor \in [Jobs -> MonitorSteps]
    /\ outcome \in [Jobs -> Outcomes]
    /\ returncode \in [Jobs -> {"none", "zero", "nonzero"}]
    /\ proc \in [Jobs -> {"none", "running", "killed", "lost"} \cup Ends]
    /\ reaped \in [Jobs -> BOOLEAN]
    /\ retfile \in [Jobs -> {"absent", "zero", "other"}]
    /\ logged \in [Jobs -> {"none", "passed", "failed"}]
    /\ ready \subseteq Jobs
    /\ cancelled \in BOOLEAN
    /\ main \in MainSteps
    /\ collected \subseteq Jobs
    /\ retval \in {0, 1}
    /\ batch \subseteq Jobs
    /\ sessions \in Nat \ {0}
    /\ faults \in Nat

\* A job that was killed, by its monitor or on Ctrl+C, never passes for one that ended by
\* itself, although Popen reports 0 when psutil has consumed the exit status: return_value
\* holds 0 only if the last command of the job returned 0, and SUCCESS is only returned for
\* a command that ended by itself.
SuccessIsGenuine ==
    \A j \in Jobs :
        /\ retfile[j] = "zero" => proc[j] \in {"pass", "unmet"}
        /\ worker[j] = "ended" /\ outcome[j] = "SUCCESS" => proc[j] \in Ends

\* A job that is skipped as "Already executed succesfully" was not logged as a failure when
\* it was last executed.
SkipsOnlySuccessful ==
    \A j \in Jobs : Taken(j) /\ ~cancelled /\ AlreadyExecuted(j) => logged[j] # "failed"

\* After Ctrl+C the session ends, however long the commands would run and whichever worker
\* was about to sleep: nobody misses the notification.
InterruptEnds == main = "notify" ~> main \in {"ended", "killed"}

\* If timeouts expire, every session ends, however long the commands would run.
SessionEnds ==
    (\A j \in Jobs : WF_vars(MonitorExpires(j))) =>
        [](main = "collect" => <>(main \in {"ended", "killed"}))

Command == [j \in Jobs |-> CASE proc[j] \in {"pass", "unmet"} -> "zero"
                             [] proc[j] = "fail" -> "nonzero"
                             [] OTHER -> proc[j]]
Batch == INSTANCE TestBatch WITH command <- Command,
                                 recorded <- {j \in Jobs : retfile[j] = "zero"}

\* The threads of mantis implement the batch of TestBatch.
ImplementsBatch == Batch!BatchSpec

------------------------------------------------------------------------------
(* The inductive invariant behind SuccessIsGenuine and ImplementsBatch. *)

\* A command only runs while its worker waits for it, and the pool is not exceeded.
RunningWatched ==
    /\ Cardinality(Active) <= Parallel
    /\ \A j \in Jobs : proc[j] = "running" => worker[j] \in {"poll", "sleep", "kill"}

\* When a session is over, so are its jobs.
NoneLeft == main \in {"ended", "killed"} => \A j \in Jobs : worker[j] \in Finished

\* Popen's return code tells a command that returned 0.
Trusted(j) == returncode[j] = "zero" => proc[j] \in {"pass", "unmet"}

\* The outcome is changed before anything is killed, so that SUCCESS vouches for the return
\* code until the worker has asked for it, and the return code is known from then on.
Vouched ==
    \A j \in Jobs :
        /\ monitor[j] = "kill" => outcome[j] # "SUCCESS"
        /\ worker[j] \in {"poll", "sleep", "kill"} =>
              /\ proc[j] \in {"running", "killed"} \cup Ends
              /\ outcome[j] = "SUCCESS" => proc[j] # "killed" /\ ~reaped[j] /\ Trusted(j)
        /\ worker[j] = "record" \/ (worker[j] = "ask" /\ outcome[j] = "SUCCESS") =>
              returncode[j] # "none" /\ Trusted(j)
        /\ worker[j] \in {"ask", "record", "log", "join", "ended"} /\ outcome[j] = "SUCCESS" =>
              proc[j] \in Ends
        /\ worker[j] = "launch" => retfile[j] # "zero"
        /\ retfile[j] = "zero" => proc[j] \in {"pass", "unmet"}

Inductive == TypeOK /\ RunningWatched /\ NoneLeft /\ Vouched
==============================================================================
