-------------------------- MODULE UtilizationLadder --------------------------
(***************************************************************************)
(* Characterization of functional units with OpenROAD:                     *)
(* src/etc/libtech/backend/openroad/flowC/launch.sh.                       *)
(*                                                                         *)
(* One run of launch.sh per design, several in parallel.  A run tries the  *)
(* place and route flow at decreasing core utilizations (the rungs of the  *)
(* ladder) until the design fits, keeps the rung it is at in a checkpoint  *)
(* file so that a later run resumes there, and, when everything succeeded, *)
(* adds the utilization to a lookup file shared by all designs.  A run may *)
(* be killed at any time (mantis.py: timeout, cancellation) and the design *)
(* is run again later (--restart).                                         *)
(*                                                                         *)
(* Abstracted: what the flow computes; at every attempt it fits, does not  *)
(* fit (the furthest stage is floorplan, place, cts or route) or fails     *)
(* otherwise.  A file that is being written is first truncated.            *)
(***************************************************************************)
EXTENDS Naturals, FiniteSetsExt

CONSTANTS
    Designs,
    Rungs,      \* the arguments of run_core_util_ladder
    Starts,     \* the values LADDER_START_UTIL may have in a run, 0 if unset
    MaxRuns,    \* bound: runs of a design
    MaxKills    \* bound: runs that are killed

ASSUME LadderAssumption ==
    /\ Rungs \subseteq 1 .. 100 /\ Rungs # {}
    /\ Starts \subseteq Nat
    /\ MaxRuns \in Nat /\ MaxKills \in Nat
    /\ "free" \notin Designs

NoRung == 0
Table == [Designs -> Rungs \cup {NoRung}]

VARIABLES
    pc,          \* where the run of a design is
    rungs,       \* the ladder of the run, after LADDER_START_UTIL
    util,        \* the rung the run is at
    checkpoint,  \* the .rung file, NoRung if it is missing or empty
    won,         \* LADDER_WON_UTIL
    lookup,      \* the entries of successful_utilizations.xml
    intact,      \* the lookup file can be parsed
    holder,      \* the run that holds the flock
    root,        \* the entries as a run has read them
    runs,        \* number of runs of a design
    kills,       \* number of killed runs
    congested,   \* rungs at which a design did not fit
    succeeded,   \* rungs at which a design succeeded completely
    recorded,    \* the last entry a run has written for the design
    lost,        \* the checkpoint of the design was lost or is obsolete
    torn         \* a run was killed while it was writing the lookup file

ghosts == <<congested, succeeded, recorded, lost, torn>>
table == <<lookup, intact, holder, root>>
ladder == <<rungs, util, checkpoint, won>>
vars == <<pc, ladder, table, runs, kills, ghosts>>

Stopped == {"new", "failed", "killed", "done"}
Running == {"checkpoint", "truncated", "flow", "finish", "record", "read", "update",
            "writing", "unlock", "exited"}

\* The files of launch.sh hold one rung or none per design, and a run is at one of its steps.
TypeOK ==
    /\ pc \in [Designs -> Stopped \cup Running]
    /\ rungs \in [Designs -> SUBSET Rungs]
    /\ util \in Table /\ checkpoint \in Table /\ won \in Table
    /\ lookup \in Table /\ root \in [Designs -> Table] /\ recorded \in Table
    /\ intact \in BOOLEAN /\ torn \in BOOLEAN
    /\ holder \in Designs \cup {"free"}
    /\ runs \in [Designs -> 0 .. MaxRuns] /\ kills \in 0 .. MaxKills
    /\ congested \in [Designs -> SUBSET Rungs] /\ succeeded \in [Designs -> SUBSET Rungs]
    /\ lost \in [Designs -> BOOLEAN]

NoEntries == [d \in Designs |-> NoRung]

Init ==
    /\ pc = [d \in Designs |-> "new"]
    /\ rungs = [d \in Designs |-> {}]
    /\ util = NoEntries /\ checkpoint = NoEntries /\ won = NoEntries
    /\ lookup = NoEntries /\ root = [d \in Designs |-> NoEntries] /\ recorded = NoEntries
    /\ intact = TRUE /\ torn = FALSE
    /\ holder = "free"
    /\ runs = [d \in Designs |-> 0] /\ kills = 0
    /\ congested = [d \in Designs |-> {}] /\ succeeded = [d \in Designs |-> {}]
    /\ lost = [d \in Designs |-> FALSE]

Goto(d, from, to) == pc[d] = from /\ pc' = [pc EXCEPT ![d] = to]

-----------------------------------------------------------------------------
(* run_core_util_ladder                                                    *)

\* The rungs that are not above LADDER_START_UTIL, or all of them if none is.
Ladder(start) ==
    LET filtered == {r \in Rungs : r <= start}
    IN  IF start = 0 \/ filtered = {} THEN Rungs ELSE filtered

\* The rungs that are not skipped on the way to the checkpoint.
FromCheckpoint(d, ladderRungs) ==
    {r \in ladderRungs : checkpoint[d] = NoRung \/ r <= checkpoint[d]}

\* A run of the design begins, unless an earlier one returned 0.  The lowest rung
\* is in every ladder and never skipped.
Launch(d, start) ==
    LET todo == FromCheckpoint(d, Ladder(start))
    IN  /\ pc[d] \in {"new", "failed", "killed"}
        /\ runs[d] < MaxRuns
        /\ runs' = [runs EXCEPT ![d] = @ + 1]
        /\ rungs' = [rungs EXCEPT ![d] = Ladder(start)]
        /\ won' = [won EXCEPT ![d] = NoRung]
        /\ pc' = [pc EXCEPT ![d] = "checkpoint"]
        /\ util' = [util EXCEPT ![d] = Max(todo)]
        /\ UNCHANGED <<checkpoint, table, kills, ghosts>>

\* echo "$util" > "$state" truncates the file ...
TruncateCheckpoint(d) ==
    /\ Goto(d, "checkpoint", "truncated")
    /\ checkpoint' = [checkpoint EXCEPT ![d] = NoRung]
    /\ UNCHANGED <<rungs, util, won, table, runs, kills, ghosts>>

\* ... and writes it; then the outputs are removed and the flow is started.
WriteCheckpoint(d) ==
    /\ Goto(d, "truncated", "flow")
    /\ checkpoint' = [checkpoint EXCEPT ![d] = util[d]]
    /\ UNCHANGED <<rungs, util, won, table, runs, kills, ghosts>>

\* The flow succeeds: the checkpoint is removed.
FlowFits(d) ==
    /\ Goto(d, "flow", "finish")
    /\ checkpoint' = [checkpoint EXCEPT ![d] = NoRung]
    /\ won' = [won EXCEPT ![d] = util[d]]
    /\ lost' = [lost EXCEPT ![d] = TRUE]
    /\ UNCHANGED <<rungs, util, table, runs, kills, congested, succeeded, recorded, torn>>

\* The flow does not fit: the next rung, or the end at the floor.
FlowCongested(d) ==
    LET lower == {r \in rungs[d] : r < util[d]}
    IN  /\ congested' = [congested EXCEPT ![d] = @ \cup {util[d]}]
        /\ IF lower = {}
           THEN Goto(d, "flow", "failed") /\ UNCHANGED util
           ELSE Goto(d, "flow", "checkpoint") /\ util' = [util EXCEPT ![d] = Max(lower)]
        /\ UNCHANGED <<rungs, checkpoint, won, table, runs, kills, succeeded, recorded, lost, torn>>

\* Faulty variant of FlowFails: every failure lowers the utilization.
FlowFailsLowers(d) ==
    LET lower == {r \in rungs[d] : r < util[d]}
    IN  /\ lower # {}
        /\ Goto(d, "flow", "checkpoint")
        /\ util' = [util EXCEPT ![d] = Max(lower)]
        /\ UNCHANGED <<rungs, checkpoint, won, table, runs, kills, ghosts>>

\* Any other failure ends the run; the checkpoint stays.
FlowFails(d) ==
    /\ Goto(d, "flow", "failed")
    /\ UNCHANGED <<ladder, table, runs, kills, ghosts>>

-----------------------------------------------------------------------------
(* The end of run_orfs_backend and record_successful_util                  *)

\* Faulty variant of FinishFails: the failure is not noticed.
FinishFailsUnnoticed(d) ==
    /\ Goto(d, "finish", "record")
    /\ UNCHANGED <<ladder, table, runs, kills, ghosts>>

\* Metadata generation or metric extraction fails.
FinishFails(d) ==
    /\ Goto(d, "finish", "failed")
    /\ UNCHANGED <<ladder, table, runs, kills, ghosts>>

FinishSucceeds(d) ==
    /\ Goto(d, "finish", "record")
    /\ succeeded' = [succeeded EXCEPT ![d] = @ \cup {won[d]}]
    /\ UNCHANGED <<ladder, table, runs, kills, congested, recorded, lost, torn>>

\* Faulty variant of Lock: flock is not waited for.
LockUnchecked(d) ==
    /\ Goto(d, "record", "read")
    /\ holder' = d
    /\ UNCHANGED <<ladder, lookup, intact, root, runs, kills, ghosts>>

\* flock 9.
Lock(d) ==
    /\ holder = "free"
    /\ Goto(d, "record", "read")
    /\ holder' = d
    /\ UNCHANGED <<ladder, lookup, intact, root, runs, kills, ghosts>>

\* The file is parsed; one that cannot be counts as empty.
ReadTable(d) ==
    /\ Goto(d, "read", "update")
    /\ root' = [root EXCEPT ![d] = IF intact THEN lookup ELSE NoEntries]
    /\ UNCHANGED <<ladder, lookup, intact, holder, runs, kills, ghosts>>

\* The file is opened for writing ...
TruncateTable(d) ==
    /\ Goto(d, "update", "writing")
    /\ lookup' = NoEntries /\ intact' = FALSE
    /\ UNCHANGED <<ladder, holder, root, runs, kills, ghosts>>

\* ... and written.
WriteTable(d) ==
    /\ Goto(d, "writing", "unlock")
    /\ lookup' = [root[d] EXCEPT ![d] = won[d]]
    /\ intact' = TRUE
    /\ recorded' = [recorded EXCEPT ![d] = won[d]]
    /\ UNCHANGED <<ladder, holder, root, runs, kills, congested, succeeded, lost, torn>>

\* Faulty variant of Unlock: the lock is kept.
UnlockForgotten(d) ==
    /\ Goto(d, "unlock", "exited")
    /\ UNCHANGED <<ladder, table, runs, kills, ghosts>>

\* The subshell ends, which releases the lock, and launch.sh exits with 0.
Unlock(d) ==
    /\ Goto(d, "unlock", "exited")
    /\ holder' = IF holder = d THEN "free" ELSE holder
    /\ UNCHANGED <<ladder, lookup, intact, root, runs, kills, ghosts>>

\* mantis.py writes the return value: the design is not run again.
Returned(d) ==
    /\ Goto(d, "exited", "done")
    /\ UNCHANGED <<ladder, table, runs, kills, ghosts>>

\* Faulty variant of Kill: the checkpoint is removed.
KillCleans(d) ==
    /\ pc[d] \in Running
    /\ kills < MaxKills
    /\ kills' = kills + 1
    /\ pc' = [pc EXCEPT ![d] = "killed"]
    /\ holder' = IF holder = d THEN "free" ELSE holder
    /\ checkpoint' = [checkpoint EXCEPT ![d] = NoRung]
    /\ lost' = [lost EXCEPT ![d] = @ \/ pc[d] = "truncated"]
    /\ torn' = (torn \/ pc[d] = "writing")
    /\ UNCHANGED <<rungs, util, won, lookup, intact, root, runs, congested, succeeded, recorded>>

\* The run is killed, by its timeout or together with mantis.py; a lock it holds
\* is released.
Kill(d) ==
    /\ pc[d] \in Running
    /\ kills < MaxKills
    /\ kills' = kills + 1
    /\ pc' = [pc EXCEPT ![d] = "killed"]
    /\ holder' = IF holder = d THEN "free" ELSE holder
    /\ lost' = [lost EXCEPT ![d] = @ \/ pc[d] = "truncated"]
    /\ torn' = (torn \/ pc[d] = "writing")
    /\ UNCHANGED <<ladder, lookup, intact, root, runs, congested, succeeded, recorded>>

-----------------------------------------------------------------------------

Step(d) ==
    \/ TruncateCheckpoint(d) \/ WriteCheckpoint(d)
    \/ FlowFits(d) \/ FlowCongested(d) \/ FlowFails(d)
    \/ FinishFails(d) \/ FinishSucceeds(d)
    \/ Lock(d) \/ ReadTable(d) \/ TruncateTable(d) \/ WriteTable(d) \/ Unlock(d) \/ Returned(d)

Next ==
    \/ \E d \in Designs : (\E start \in Starts : Launch(d, start)) \/ Step(d) \/ Kill(d)
    \/ (\A d \in Designs : pc[d] \in Stopped) /\ UNCHANGED vars

\* A run that is not killed goes on: the flow ends, and flock serves everyone.
Fairness == \A d \in Designs : WF_vars(Step(d)) /\ SF_vars(Lock(d))

Spec == Init /\ [][Next]_vars /\ Fairness

-----------------------------------------------------------------------------
(* Properties                                                              *)

\* The comment on LADDER_START_UTIL, "Scopes a per-run starting utilization": a
\* run skips a rung of its ladder only if the design did not fit there, so that
\* the utilization it wins is the highest one of its ladder that fits.
WinnerIsHighest ==
    \A d \in Designs : won[d] # NoRung =>
        \A r \in rungs[d] : r > won[d] => r \in congested[d]

\* A resumed run does not climb back: unless the checkpoint was lost while it was
\* being written, or became obsolete, it tries no rung above one that is known
\* not to fit.
NeverClimbs ==
    \A d \in Designs : pc[d] = "flow" /\ ~lost[d] => \A r \in congested[d] : util[d] <= r

\* "so failed modules never get cached": an entry of the lookup file is a
\* utilization at which flow, metadata and extraction all succeeded.
LookupSound ==
    \A d \in Designs : lookup[d] # NoRung => lookup[d] \in succeeded[d]

\* "flock-protected because parallel mantis jobs write concurrently": parallel
\* runs lose no entry, unless one is killed in the middle of its write.
LookupComplete ==
    ~torn /\ holder = "free" => lookup = recorded

\* A run that is started ends, and none waits for the lock for ever.
RunsEnd == \A d \in Designs : pc[d] \in Running ~> pc[d] \in Stopped

-----------------------------------------------------------------------------
(* The inductive invariants behind the properties.                         *)

Trying == {"checkpoint", "truncated", "flow"}
Locking == {"read", "update", "writing", "unlock"}

\* The flock is held exactly while record_successful_util uses the file.
LockHeld == \A d \in Designs : pc[d] \in Locking <=> holder = d

\* A run tries a rung of its ladder, which is in the checkpoint while the flow runs.
AtRung ==
    \A d \in Designs :
        /\ pc[d] \in Trying => util[d] \in rungs[d]
        /\ pc[d] = "flow" => checkpoint[d] = util[d]
        /\ pc[d] = "finish" => won[d] \in Rungs

\* What a run has read, and what it is about to write, succeeded.
OnlySuccesses ==
    \A d \in Designs :
        /\ lookup[d] # NoRung => lookup[d] \in succeeded[d]
        /\ \A e \in Designs : root[e][d] # NoRung => root[e][d] \in succeeded[d]
        /\ pc[d] \in {"record", "read", "update", "writing"} => won[d] \in succeeded[d]

\* Until a write is torn, the file holds what was recorded, also while a run rewrites it.
NothingLost ==
    ~torn =>
        /\ (\A d \in Designs : pc[d] # "writing") => intact /\ lookup = recorded
        /\ \A d \in Designs : pc[d] \in {"update", "writing"} => root[d] = recorded

\* Neither the checkpoint nor a run is above a rung that did not fit.
BelowCongested ==
    \A d \in Designs : ~lost[d] =>
        /\ checkpoint[d] # NoRung => \A r \in congested[d] : checkpoint[d] <= r
        /\ pc[d] \in Trying => \A r \in congested[d] : util[d] <= r
        /\ checkpoint[d] = NoRung /\ pc[d] # "truncated" => congested[d] = {}

\* Every rung above the checkpoint, and above the one a run is at, did not fit.
AboveCongested ==
    \A d \in Designs :
        /\ checkpoint[d] # NoRung => \A r \in Rungs : r > checkpoint[d] => r \in congested[d]
        /\ pc[d] \in Trying =>
              rungs[d] = Rungs /\ \A r \in Rungs : r > util[d] => r \in congested[d]

Inductive ==
    TypeOK /\ LockHeld /\ AtRung /\ OnlySuccesses /\ NothingLost /\ BelowCongested
InductiveUnset == AboveCongested /\ WinnerIsHighest
==============================================================================
