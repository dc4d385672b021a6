# Verification of Bambu's core

Bambu is a high-level synthesis tool: it compiles C to hardware, schedules and
binds the operations, writes the HDL, co-simulates it against the C program, and
has a flow that characterizes its functional units with OpenROAD. This directory
holds TLA+ models of the parts of it whose correctness depends on the order in
which things happen, TLC configurations that check them on small instances, and
TLAPS proofs for every instance.

Paths in this file are relative to the repository: `src/...` is its C++ core,
`etc/...` its scripts, runtime and hardware libraries. `PROJECT.json` has one entry
per definition that models code, with the lines it models, and lists the
components, runs, mutants, hazards, findings and theorems.

## 1. Inventory

### Components, their state and operations

| Component | State | Operations | Interacts with |
|---|---|---|---|
| Design flow manager (`src/design_flows/design_flow_manager.cpp`) | a graph of steps, a status per step, a priority set of possibly ready steps | `AddStep`, `RecursivelyAddSteps`, `Exec` (extract, ask again for the relationships, execute or postpone), `DeExecute`, end of the flow | `main()` adds the requested steps; every step answers `ComputeRelationships` and `Exec`, and invalidates others |
| SDC scheduling (`src/HLS/scheduling/sdc_scheduling2.cpp`) | per loop: constraints, windows of the last operations per unit, start steps; per function: moved operations, steps | add constraints of dependences, delays and units; solve; separate operations that must not share a step and solve again; move operations up | solver, allocation; its result drives FSM creation |
| Solver of difference constraints (`src/algorithms/sdc_solver`) | the constraints; during a call: distances, predecessors, path lengths, a circular queue | `add_constraint`, `solve_SDC`, `solve_SDCNeg` | called repeatedly by the SDC scheduler |
| OpenMP hardware with context switching (`etc/libtech/NC_OPENMP_IPs.xml`, `C_OPENMP_IPs.xml`, `etc/libopenmp`) | per core: selected context, ready vector, answers; shared: lock, barrier and reduction registers | fork and join; switch on a memory access, a lock or a barrier; grant, release, reach, set and get a reduction list | the cores are the compiled region; memory; runtime library |
| Co-simulation IPC (`etc/libmdpi`) | an atomic handle and one operation in a shared file; two processes, the driver with two threads | `__ipc_reserve`, `request`, `response`, `release`, `wait`, `exit`; `m_next`, `m_read`/`m_write`, `m_state`, `m_builtin_exit`, `m_fini`; `__m_sim_start`, `__m_sim_end`, IPC thread, signal handlers | generated testbench (Verilog DPI) on one side, the user's program through the generated wrapper on the other |
| Test and characterization runner (`etc/scripts/mantis.py`) | pool of workers, a monitor thread per job, a shared condition, a result file per job | `run_command`, `monitor_process`, `kill_process_tree`, `log_execution`, main's collection of results, Ctrl+C, `--restart` | starts every regression test and every characterization run |
| Utilization ladder (`etc/libtech/backend/openroad/flowC/launch.sh`) | a checkpoint file per design, one lookup file for all, a file lock | try a rung, checkpoint, fall back, finish, record; killed at any time and started again | `mantis.py` starts, cancels and restarts the runs; OpenROAD flow scripts |
| Co-simulation interfaces and memory map (`etc/libmdpi/mdpi_driver.cpp`) | per-parameter interfaces, address ranges | read, write, info; map and translate addresses | IPC thread |
| Liveness, register binding, clique covering | live sets per state; conflict graph; cliques or colors | data-flow iteration, coloring | scheduling, datapath |
| Memory allocation (`src/HLS/memory`) | base addresses, allocated ranges | allocate, align | backend, co-simulation |

The remaining components (frontend passes, IR, parsers, HDL and C writers,
technology libraries, wrappers of external tools, utilities, third-party code) are
listed in `PROJECT.json` with the reason why they are not modelled.

### What is hard in this code

* **Stale verdicts in the design flow.** A step is put into the ready set when its
  predecessors have been executed, but relationships change and steps are
  un-executed while it is there; the key by which the set is ordered depends on
  the status, which changes too. Correct: nothing counts as executed before its
  predecessors, no step is forgotten, the exit comes last, the flow ends.
* **Constraints from four sources in the scheduler.** Dependences, delays of chains,
  windows of units merged at joins, and separations added after a solution was
  found. Correct: they never contradict each other, the restarts end, the schedule
  needs no more units than there are, every chain meets the clock, and moving an
  operation up leaves none of its operands behind.
* **Shortcuts of the solver.** It starts from a few vertices only, reorders its
  queue, and stops early on signs of infeasibility taken from predecessors that
  may be stale. Correct: what it returns is the greatest solution, and when it
  says there is none, there is none.
* **Wake-ups in the OpenMP hardware.** A context that waits for memory, for the lock
  or for a barrier is woken by a bit that several managers set and clear in the
  same cycle. Correct: no wake-up is lost, doubled or given to another context,
  critical sections exclude each other, no barrier is left early, regions join.
* **Two processes and three threads around one handle.** Either process may end by
  itself at any moment, a signal may come early, the simulator may give up a call.
  Correct: the handle is a lock, every operation is answered once, the two sides
  stay in the same kernel call, both processes end.
* **Races in the runner** between timeout, cancellation and normal end of a job, and
  crashes between two writes of its files. Correct: a killed command never passes
  for a success, no notification is missed, every session ends.
* **Crash and restart of characterization runs** that share a lookup file. Correct:
  no rung is skipped without having been tried, only complete successes are
  recorded, no run's entry is lost to a parallel one.

The section "hazards" of `PROJECT.json` lists each of these at its line, with the
properties that cover it.

## 2. Modules

| Module | Models |
|---|---|
| `DesignFlowManager`, `MCDesignFlowManager` | the design flow manager; small flows for TLC |
| `DesignFlowManager_proofs` | theorems about it |
| `SdcScheduling`, `MCSdcScheduling` | the SDC scheduler; loops for TLC |
| `SdcScheduling_proofs` | theorems about it |
| `DifferenceConstraints` | what the solver promises: one step per call |
| `SdcSolver`, `MCSdcSolver` | the solver's search, one step per edge |
| `SdcSolver_proofs` | theorems about it, among them that it implements `DifferenceConstraints` |
| `OmpContexts`, `MCOmpContexts` | the OpenMP hardware, one step per clock cycle |
| `OmpContexts_proofs` | theorems about it |
| `MdpiIpc`, `MCMdpiIpc` | the co-simulation protocol |
| `MdpiIpc_proofs` | theorems about it |
| `TestBatch` | what the test runner promises of a batch of tests |
| `Mantis`, `MCMantis` | the test runner, thread by thread |
| `Mantis_proofs` | theorems about it, among them that it implements `TestBatch` |
| `UtilizationLadder`, `MCUtilizationLadder` | the utilization ladder |
| `UtilizationLadder_proofs` | theorems about it |
| `InductionFacts` | lemmas that the proofs share: least elements, maxima of finite sets, functions defined by recursion |

Definitions named as a "faulty variant" are not part of any specification. Each
changes one definition as a plausible bug would; with it in place of the original
the property named in `PROJECT.json` fails. They document that the property
depends on that line of code.

### DesignFlowManager

The steps are a constant set, and so is everything a step can do to the manager:
the relationships it may have (`Relations`), how executing a step may change them
(`Evolve`) and which steps it may invalidate (`Invalidates`). `AddStep` and
`RecursivelyAddSteps` compute the closure of what is added, as necessary or
unnecessary, and the new edges. One turn of the loop of `Exec()` is
`Iteration`: extract a step from `ready` in the order of the keys (in any
order with `NonDeterministicFlow`), add its current relationships, and then either
postpone it (a predecessor is not executed) or execute it, remove redundant edges to
the exit, un-execute what it invalidates and insert the steps that became ready.
`Finish` is the end of the loop, with the error "design flow didn't end" when the
exit was not reached. The order in which an unordered set of invalidated steps is
traversed is a choice (`Orders`), because one visited set is shared by all of them.

Left out: the entry step (executed from the start, so no edge from it ever
decides anything), profiling, the dot files, and the feedback graph that only
exists in debug builds. `RecursivelyAddSteps` also collects edges to be removed (lines
501-516), but takes only the AUXILIARY type from them, which no edge has but those from
the entry and to the exit: between two steps nothing is removed, and there is no
counterpart in the model.

### SdcScheduling

A loop is a record: its operations are numbered by `rel_position_map` and have a
basic block, dependences, a unit, cycles, an initiation interval, a delay and flags
for what the code asks of them (`store`, `unbounded`, `rw`, ...). One action
per phase of `sdc_schedule` and per operation in it: `AddDependences`; `AddTiming`
for each operation, with the longest chains from it (`Delays`, the DAG_SSSP class)
turned into steps (`StepsFor`); `Place` for each operation, which slides the
windows of its unit and constrains it against the front of each full one;
`SolveSDC`, `Relax`, `Solved` for a call of the solver; `Refine` for the pairs that
must not share a step, followed by another call. `Accept` is the part of
`InternalExec` that turns the steps of a loop into steps of the function and moves
operations up the dominator tree (`Barrier`, `Destination`); `NextLoop` and
`SetCsteps` are its outer loop and its end.

The solver is used through its specification, the least steps that respect the
constraints, computed in rounds: how it finds them is `SdcSolver`. A loop's inner
loops are separate loops, as in the code. Delays are integers; those of connections
and of the controller are 0. Every operation is assumed to have a constraint, so
that the solution has a value for it. Not modelled: the recording of the binding and
`UpdateTime` (line 845), which read the result. `csteps` is only used for a dot file.
Operations of exclusive branches that were moved up may share a unit, which is why
`EnoughUnits` looks at the blocks the operations come from. The entry of the function
and its edges, all of weight 0 (lines 189-194), are left out. The options
`bus-no-chain` and `load-store-no-chain` are part of a loop's description and the same
for all loops of a function.

### SdcSolver and DifferenceConstraints

A constraint `V_j - V_i <= w` is an edge from i to j. `DifferenceConstraints` says
what the header promises: `add_constraint` keeps the tightest weight of a pair, and
a call answers, in one step, with the greatest non-positive solution or with the
fact that there is none. `SdcSolver` has the search: take a vertex from the
queue, scan its edges one at a time, and for an edge that improves its target
give up when the path is too long, walk along the predecessors to see if the edge
closes a negative cycle, or relax it and put the target at the front or the
back of the queue. The int conversion of the returned values keeps its width
(`Cast`, with `Half` for 2^31). The code returns true also when a distance does not
fit an int; the model calls that outcome `overflow`. `DifferenceConstraints` allows it
only when no non-positive solution fits, and promises nothing of the values then.

Abstracted: sparse ids are renumbered in an order-preserving way in the code, so
the search is the same on the original ids; the epoch marks of the walk are a set
that is emptied for every walk; the local variables of a call are reset when it
returns. `visited` is a history variable: the vertices of the path to each vertex.
No action reads it.

### OmpContexts

`Tick` is one clock cycle of all cores and managers at once: the wires are
operators of the current registers, the primed variables the registers after the
edge. In each cycle the running context of a core may issue its next operation or
compute on (how long a computation takes is unknown), and the memory may answer any
request, at most one per core. `CsManager` is `kmp_bambu_cs_manager` with its ready
vector and answer types, `CriticalManager`, `BarrierRegister` and `ReduceManager` are
the shared managers, `StartDone` collects the start and done pulses, and `Fork`
starts all cores in one cycle. The region is a sequence of operations, the same for
every thread, in which a memory access may or may not happen.

One lock serves all names of critical sections, so nested critical sections are
excluded (`ProgramAssumption`). The lock manager has a request bit for every context
of every core (`RegSize`) and picks one with a priority encoder (`Encoded`). All
encoders select the first request, except the one with 16 inputs, which in one
case selects input 13 (`Misled`; section 5). Teams for which the hardware has no encoder
stop with `$fatal` (`NC_OPENMP_IPs.xml:476-481` for the lock, 895-920 for a core), and
a single core takes the acknowledge of a grant from bits that the index does not have
(line 490): both are excluded by `EncoderAssumption`. Not modelled: cores with a single
context, which get no context switch manager; the memory filters and FIFO behind the
cores, `kmp_sched.cpp`, nested forks.

### MdpiIpc

`handle` and `op` are the shared file; `pc` says where the simulator, the driver's
main thread and its IPC thread are. Each atomic operation on the handle, and each
write of the operation, is an action, so every interleaving of the three is
explored; `__ipc_exit` has six points per process (check of the flag, load,
compare-and-exchange, write, store, end). A wait is an action enabled when the handle has
the awaited value: `__ipc_wait` looks at the handle at least once a second, so a
lost or early signal only delays it. Signals that end a process (SIGABRT, SIGSEGV,
SIGCHLD) are modelled with what their handlers do. The build is the one of
`etc/libtech/backend/utils/simulation_wrapper.sh`: the IPC thread exists, and
assertions only when the verbosity is above 4; `assertions` chooses between
the two builds. What an interface computes is left out; the answer to an operation
is its number, which is enough to see a lost or repeated one.

The driver *ends out of turn* (`early`) when the program calls `exit()` or `abort()` by
itself, at any moment, or when the IPC thread cannot be created (`LaunchIpc`,
`mdpi_driver.cpp:1109-1116`). A call of `exit()` in the hardware is written to the first
interface; without an interface, or with more than two and assertions, the driver
aborts (`ExitAccepted`, lines 1247-1248).

### Mantis and TestBatch

`Mantis` has, per job, the worker in `run_command` and the monitor in
`monitor_process`, and main. The local variable `outcome` is shared by the two
threads without a lock; `run_command.condition` is shared by all workers, and a
worker that cancels its job holds it while it kills the process (`ConditionFree`).
Killing goes through psutil, which may consume the exit status so that Popen reports
0 (`reaped`). Ctrl+C, exceptions in a worker, crashes of mantis and `--restart` may
come at any point; the file `return_value` is written after a truncation, so a crash
leaves it empty. `TestBatch` is what all this amounts to: at most `Parallel` commands
at a time, a killed command is never on record as a success, and a job that is
launched has no such record. `ImplementsBatch` is the refinement.

Abstracted: what `log_execution` counts, to the last verdict on each job; command
lines, log texts and reports. The branch for skip lists cannot be taken
(argparse yields lists of lists) and is left out; so are the orphans that a
crashed mantis leaves running.

### UtilizationLadder

One run of `launch.sh` per design. The file system is explicit: writing a file is a
truncation and a write, and the run may be killed in between. The shared lookup
file is read, changed and written under a `flock`, which the kernel releases when
its holder dies. `Launch` starts a run again, as `mantis.py --restart` does. What
the flow does at a rung (fits, does not fit, fails otherwise) is a choice. The
history variables (`congested`, `succeeded`, `recorded`, `lost`, `torn`) record what
happened and are read by the properties only.

`README.md` lines 90-91 and `launch.sh` lines 349-350 say that the lookup file is
used again by later characterizations; nothing in the repository reads it for that, so the
model does not either.

## 3. Runs

| Run | Result | What it shows |
|---|---|---|
| `design_flow_growing` | pass | `TypeOK`. Relationships may grow while the flow runs; any extraction order; up to two executions invalidate something. The set has no stale key (`ReadyFresh`), executed steps have executed predecessors (`ExecutedClosed`), no step is forgotten (`NoStall`), the exit is last (`ExitLast`), a necessary step never becomes unnecessary (`NecessityKept`). |
| `design_flow_termination` | pass | Relationships may also disappear. The flow terminates (`Termination`), and every step that must be executed, or executed again, is (`EventuallyExecuted`). |
| `design_flow_skipped` | violation | `NeverSwitchesSkipped`: finding 1 below. |
| `sdc_scheduling` | pass | The error "Error in finding SDC solution" is not reached (`NeverFails`), no step of any path needs more units than there are (`EnoughUnits`), every chain meets the clock (`ChainsFit`), with each of the options against chaining too, where a value is used the block that computes it has still been executed after the code motion (`SourcesFirst`), and there are no more restarts than exclusive pairs (`RestartsBounded`). |
| `sdc_solver` | pass | `TypeOK`. Constraints added and solved up to twice in any order. The answer is the greatest solution (`AnswerIsGreatest`), "infeasible" is never a false alarm (`InfeasibleIsUnsolvable`), the queue has room (`QueueFits`), a call returns (`Termination`), and the search implements `DifferenceConstraints` (`Implements`). |
| `openmp_region` | pass | A region with memory accesses, a critical section with an access inside, a reduction and a barrier, run twice in every timing. `MutualExclusion`, `BarrierHolds`; the wake-up of a suspended context is in exactly one place (`WakeUpOnce`); the master combines the list of this reduction, which is one for all threads (`ReduceReads`); every region joins (`Joins`). |
| `openmp_reduce` | violation | `ReduceReads`: finding 4. |
| `mdpi_cosim` | pass | Both builds, up to two kernel calls, faults, unknown interfaces, a simulator that gives up or hardware that exits in any call, a program that may exit at any moment, a thread that cannot be created. Unless the driver ends out of turn: no assertion on the handle or on an operation of the simulator fails (`OrderlyIsLegal`; those of `__m_sim_start` do, section 5), one writer at a time (`OneWriter`), an answer is the answer to the operation asked (`AnsweredOnce`), the unlocked read in `m_fini` sees the final state (`LastCommunication`), and both processes end (`Termination`) except when the program calls the kernel of a simulator that has ended (`Deserted`), where the code hangs. In any case both sides are in the same kernel call (`InStep`). |
| `mdpi_commit` | violation | `NoIllegalOperation`: finding 2. |
| `mantis_pool` | pass | `TypeOK`. Timeouts, Ctrl+C, exceptions, crashes and restarts at any point. A killed command never passes for a success (`SuccessIsGenuine`), the threads implement `TestBatch` (`ImplementsBatch`), after Ctrl+C the session ends without the help of a timeout (`InterruptEnds`), and with timeouts every session ends (`SessionEnds`). |
| `mantis_restart` | violation | `SkipsOnlySuccessful`: finding 3. |
| `ladder_runs` | pass | Two designs in parallel, runs that fail, are killed and resume. The design was tried, and did not fit, at every rung of its ladder above the one that wins (`WinnerIsHighest`), a resumed run does not climb back (`NeverClimbs`), only complete successes are recorded (`LookupSound`), no entry is lost unless a run was killed in the middle of writing (`LookupComplete`), a run ends (`RunsEnd`). |

### Bounds

* *Design flow*: four steps in a chain of possible relationships with one
  precedence; the smallest size at which an un-executed step has both a
  direct and an indirect successor, and two invalidated steps are on one path.
  `MaxInvalidations` is 2 where safety is checked, so that a step is executed,
  un-executed, executed and un-executed again; 1 for liveness.
* *Scheduling*: four operations of ten kinds (an addition, pipelined and not pipelined
  multi-cycle units, accesses through the bus and to a distributed memory, external
  writes, unbounded calls, empty statements) plus the branches, without and with
  each of the options against chaining, in straight code, an if-then, an
  if-then-else and nested ifs, with two sets of dependences each and one or two
  units: a window becomes full, is merged at a join and slides. Two small loops
  follow each other in a function. The clock period is 2 and delays are 0 to 3, so a
  chain may end before, at and after the end of a step. The theorems have no bounds.
* *Solver*: four variables; the constrained pairs hold a loop and cycles of two,
  three and four variables; weights -1 and 1; at most four constrained pairs
  and two calls. `Half` is 2, so that a chain of three -1 edges overflows.
  `Values` has all distances that an acyclic system of that size can reach. The
  theorems cover all sizes.
* *OpenMP*: two cores with two contexts, so that the lock and the barrier are shared
  by contexts of one core and of different cores; two forks, so that what a region
  leaves in the registers matters to the next.
* *IPC*: two kernel calls are needed for a state change of one call to be
  answered by the next, and for a call after one that was given up or in which the
  hardware exited; two interface operations for a repeated answer; one known and one
  unknown interface.
* *Mantis*: two workers with one job each, or one job with up to three sessions,
  exceptions and crashes together (`MaxLoad`); one job is expected to fail and one
  has another expectation.
* *Ladder*: three rungs (top, middle, floor), two designs so that the lookup file is
  contended, two runs of each and one kill.

### Fairness

* The design flow manager and the solver are sequential and never block: weak
  fairness of their next step. The solver's caller owes nothing, so
  adding constraints and calling are not fair.
* OpenMP: the clock ticks and the fork call is made (weak fairness). A computation
  ends, and the memory answers each request: these two are written as "infinitely
  often not enabled, or infinitely often done", which is weak fairness with the
  enabling condition spelled out.
* IPC: the operating system schedules both processes and both threads, and a wait
  polls at least once a second, so each has weak fairness. A simulated kernel call
  ends because the testbench counts to MAX_SIM_CYCLES; the golden call is the
  user's own C function and is assumed to return.
* Mantis: threads that can go on do (weak fairness of each worker, monitor and of
  main). Nothing makes a command end, a timeout expire or a user interrupt;
  `SessionEnds` assumes that timeouts expire, in its own hypothesis.
* Ladder: a run keeps running (weak fairness of its step; a kill is never owed) and
  `flock` serves everyone that waits (strong fairness of `Lock`).

Deadlock is checked except where the system may stop: the solver's caller need not
call again, a schedule is finished, a session of mantis need not be restarted, and
after an early exit of the program the simulator may wait for ever (section 5).

## 4. Proofs

TLAPS checks every leaf. What is proved holds for all values of the constants
that satisfy the named assumptions.

The library's induction theorems take an operator as a parameter, which the installed
provers cannot instantiate. `InductionFacts` does induction by a least counterexample
instead: a nonempty set of naturals has a least element (`Least`, from the
well-foundedness of `<`). From it follow `Greatest` (`Max` of a finite set of integers
is its greatest element) and `Recursion` (a rule that looks only at smaller
arguments has a function that satisfies it, so that a `LET` function unfolds to its
equation).

### Design flow manager

Assumptions: `StepsAssumption` and `RelationsAssumption` type the constants;
`AcyclicAssumption` says that all relationships agree with one order in which
every nonempty set of steps has a first and a last one (bambu assumes an acyclic
flow; a debug build sorts the graph topologically to check it).

`TypeCorrect` and `NecessityIsKept` hold unconditionally. `ExecutedClosedHolds`,
`NoStallHolds`, `FlowEndsHolds` and `ExitLastHolds` hold when relationships only
grow (`Growing`). The inductive invariant `Inductive` adds to them:
edges join added steps and are still relationships of their target, every added
step has a successor, only pending steps are in the set and the exit only when no
step is pending, nothing is executed before `Exec()`. `NoStall` needs it: a
postponed step leaves the set, and is found again because some predecessor
is pending, which in an acyclic order has a first pending step, which must be in
the set. `FlowEnds` (the error "design flow didn't end" is never reported) follows
because an empty set then means that nothing is pending.

With relationships that may disappear these four are not proved.

`ReadyFreshHolds` needs no such hypothesis. A status changes in three places: where
`RecursivelyAddSteps` makes a step necessary it has the set file it under its new key
(`Rekey`); an executed step was extracted before; and what `DeExecute`
makes pending again had been executed or skipped, so it was not in the set.

### SDC scheduling

Assumption: `SchedulingAssumption`. Loops are well formed: dependences and the order
of blocks agree with the order of positions, and an operation alone meets the clock
in the cycles it takes.

* `ForwardOnlyHolds`: every constraint leads to a later operation. A full window is
  not empty and holds operations before the next one (`WindowsBelow`); dependences
  and separations go forward by their definition.
* `NeverFailsHolds`: after k rounds the first k + 1 operations no longer move
  (`SettledUpTo`), because what constrains an operation comes before it. After n
  rounds nothing moves, so the solver has its answer.
* `EarliestHolds`: the accepted steps respect all constraints, and no steps that do
  start any operation earlier (`Earliest`: a round does not move an operation beyond where
  any solution has it). This is the promise of `DifferenceConstraints`, with the
  signs turned round: it says that the rounds of this model stand for the solver.
* `RestartsBoundedHolds`: the steps respect the constraints (`Satisfied`), so a pair
  in one step was not separated before; each restart separates at least one pair for
  good (`RestartsCounted`).
* `ChainsFitHolds`: no constraint of a dependence or a delay is weakened later
  (`DependencesKept`, `DelaysKept`). By induction over the operations, a value
  arrives at the end of the longest chain from an operation that starts with its
  step (`ArrivalFromChain`); the constraint between the two, rounded up from the
  delay, leaves room for it.

* `EnoughUnitsHolds`: while operations are placed, every path that ends in a block has
  a window there that ends with the last operations of the path on the unit, as many as
  there are units (`WindowsCover`; at a join, the path's window is among those that
  are merged). So each operation waits for the one as many places before it on the
  path as there are units (`UnitsKept`). Operations that hold a unit in one step then
  have different places modulo the number of units, and there are no more than that
  many (`AtMostUnderWay`, a pigeonhole argument).
* `SourcesFirstHolds`, for loops that are `Regular`: nothing is computed from a branch,
  and an operation of several cycles that may be moved needs them
  (`allocation_information.cpp:289-303` gives an operation of n cycles more than n - 1
  clock periods; line 2006 asserts that a pipelined one has a positive stage).
  A source that is pinned is a barrier for what uses it. Otherwise source and target
  can be chained, the delay of the chain makes the source end no later
  (`EndsInOrder`), its barriers are among those of the target, and so it climbs at
  least as far (`ClimbFollows`). The property speaks of values whose block dominated
  that of their use before the motion, which excludes the operands of phis. TLC
  evaluates `Regular` on the loops of the run.

### Solver

Assumptions: `IdsAssumption` (a finite set of naturals, and a value that is none of
them) and `NumbersAssumption` (integers; the width of an int is arbitrary).

`TypeCorrect`, `AnswerIsGreatestHolds`, `InfeasibleIsUnsolvableHolds`,
`QueueFitsHolds`, and `Refinement`: the search implements
`DifferenceConstraints`. The argument of the invariant `Inductive`:

* a violated edge leaves a vertex that is queued or being scanned (`Relaxed`), so
  an empty queue means that all constraints hold;
* no distance is ever below a non-positive solution (`AboveSolutions`), so the
  distances are then the greatest one;
* distances are never raised above 0 (`Lowered`), so a distance that does not fit
  means that no non-positive solution fits (only the refinement needs this);
* the weight of the walk bounds, for any solution, how far apart its ends are
  (`WalkOK`), so closing it with negative weight excludes every solution, although
  the predecessors were recorded at different times;
* if there is a solution, the path to a vertex visits `path_edge_count + 1`
  different vertices (`PathsOK`, with the history variable `visited`), so a path
  with as many edges as there are vertices excludes every solution (pigeonhole).

"No solution" is relative to `Values`, which may be any set of integers, all of
them included.

### OpenMP hardware

Assumptions: `TeamAssumption` (more than one thread; 2, 4 or 8 contexts per core),
`EncoderAssumption` (the hardware has encoders for the team) and
`ProgramAssumption` (the region is one the runtime's calls can make: critical sections
are paired and not nested, a wait follows its reach, a combine its get). All theorems
of this module also assume `RegSize # 16`: a lock manager with 16 requests can grant
the lock to a context that did not ask for it (section 5), and then the statements
are false. `GrantedFacts` is where the hypothesis is used.

The invariant `Inductive` is about registers after a clock edge:

* what a context waits for determines where it is: not begun, running, suspended, or
  over (`ContextState`), and what its core owes (`CoreState`);
* a request is with the memory or the lock manager exactly as long as its answer is
  neither in the ready vector nor on the wires (`Requests`). All three registers
  change in the same cycle; the proof goes through the six things that can
  happen to a context in a cycle (`Fates`);
* the threads have passed the same barriers, a release counting as the passage
  (`SameRound`), and a core's barrier register counts the contexts that have arrived
  (`Counted`). A barrier is complete only when all have arrived, and the release
  reaches all of them in one cycle;
* `MutualExclusion` itself, which speaks of grants on the way as well.

`MutualExclusionHolds`, `BarrierHoldsAlways`, `TypeCorrect` and `ForksNeedNoReset`
(between two regions every register but the pointers of the reduce manager is as
after reset) hold for every such team, region and timing. `WakeUpOnceHolds` also assumes that
the contexts fill the cores (`Nthread % Ncontext = 0`): otherwise the barrier register
expects contexts that do not exist (section 5). `ReduceReadsHolds` assumes that the
region's reductions use the list at one address (`OneList`); finding 4 is what
happens with two. Its invariants say that the master fetches from each worker
once (`Reducing`, with the order of cores and contexts as the number of a thread) and that
a thread that is past a set has the list in its register (`Stored`); the barrier
between set and get does the rest.

### Co-simulation protocol

Assumption: `MdpiAssumption`, which types the constants; the numbers of kernel
calls and of interface operations are arbitrary.

The handle is not a lock in the usual sense: three threads and several states of the
operation agree on whose turn it is. The invariant `Turns` spells this out, for each
point of the simulator (`SimTurn`, `SimReads`, `SimEnded`) and of the driver's
threads (`DriverTurn`): what the handle is, whose operation it holds, and where the
others can be meanwhile. `KernelsCounted` and `AccessesCounted` tie the counters of
the two sides together. A driver that ends out of turn disturbs the turns for good;
the inductive invariant is therefore `Disturbed \/ Turns`, with `NextGetsState`, which
survives the disturbance and is what `InStep` needs then.

`OrderlyIsLegalHolds`, `OneWriterHolds`, `AnsweredOnceHolds`, `InStepHolds`,
`TypeCorrect` and the action property `LastCommunicationHolds` follow.

### Test runner

Assumption: `MantisAssumption`, which types the constants. `TypeCorrect`,
`SuccessIsGenuineHolds`, and `Refinement`: the threads implement `TestBatch`. The
invariant `Inductive` says that a command only runs while its worker waits for it,
that no more workers are active than the pool has (`RunningWatched`), that a session
that is over leaves none of its jobs behind (`NoneLeft`), and, the core of it
(`Vouched`), that whoever kills a process changes `outcome` first: as long as it is
SUCCESS nothing was killed and the return code can be trusted, and the worker asks
for the return code before it reads `outcome` for the record.

### Utilization ladder

Assumption: `LadderAssumption` (rungs are percentages). `TypeCorrect`,
`LookupSoundHolds`, `LookupCompleteHolds` and `NeverClimbsHolds` hold for any
starts; `WinnerIsHighestHolds` when no run sets LADDER_START_UTIL (`Starts = {0}`;
section 5 says why). `Inductive` adds: the lock is held exactly in the section that
uses the file (`LockHeld`), the checkpoint holds the rung while the flow runs
(`AtRung`), what a run has read and will write are successes (`OnlySuccesses`) and,
unless a write was torn, all that was recorded (`NothingLost`), and neither a
checkpoint nor a run is above a rung that did not fit (`BelowCongested`).
`InductiveUnset` adds that everything above them did not fit.

### Model-checked only

Liveness under fairness and formulas with ENABLED are beyond the prover:
`Termination`, `EventuallyExecuted`, `Joins`, `InterruptEnds`, `SessionEnds`,
`RunsEnd`. Every other property of a passing run is stated by a theorem.

## 5. Findings

Each is a violation run; the counterexample is TLC's.

1. **A skipped step is made necessary** (`design_flow_skipped`,
   `design_flow_manager.cpp:1057`). `DeExecute` with force turns a skipped step into
   an unexecuted one but leaves the steps it depends on skipped; when it is
   extracted the assertion at line 371 fails.
2. **`__ipc_exit` takes a handle that is locked** (`mdpi_commit`,
   `mdpi_ipc_sig.h:166`). `continue` in the do-while goes to its condition, where
   LOCKED is exchanged for LOCKED successfully.
3. **`--restart` skips a failed job** (`mantis_restart`, `mantis.py:596`). A job with
   MANTIS_EXPECT_FAILURE whose command returned 0 is logged as a failure, but the 0
   is on file, and the next `--restart` takes it for "Already executed succesfully".
4. **The pointers of two reductions are mixed** (`openmp_reduce`,
   `NC_OPENMP_IPs.xml:1166`). The reduce manager ORs a new pointer into the old one
   and clears the register only on reset.

Observations that have no run of their own:

* One visited set is shared by all forced invalidations of a step
  (`design_flow_manager.cpp:1036`): when one invalidated step reaches the next, the
  second is not forced. Which one happens depends on the order of a hash set.
* If the program exits while the handle is free, its report is left as a response
  (`mdpi_driver.cpp:868`) and the simulator waits for a free handle for ever.
* A program that calls the kernel again after the simulator gave up a call hangs, with
  the default verbosity: `__m_sim_start` takes the END report for READY (the assertions
  at `mdpi_driver.cpp:1100-1101` are compiled out), and the IPC thread waits for a
  request that nobody makes. With assertions the driver aborts.
* A program that calls the kernel again after the hardware called `exit()` in an earlier
  call waits in `__m_sim_start` (line 1099) for ever. In both cases the simulator ended
  with status 0, and the handler of SIGCHLD only reaps it (lines 895-898). `Termination`
  excludes these two (`Deserted`); without that exclusion `mdpi_cosim` finds them.
* The priority encoder with 16 inputs tests input 8 twice where input 9 is meant
  (`NC_OPENMP_IPs.xml:639-642`). With requests 9 and 12 pending it selects 13: context 1
  of core 3 is granted a lock it did not ask for, request 9 stays, and the lock is
  taken with no holder. `OmpContexts` shows it with 16 threads, 4 contexts and the
  region `<<load, enter, exit>>`: `MutualExclusion` is violated after 13 steps when
  cores 0 and 1 only compute and one core issues at a time. All timings of 16
  contexts are too many for a run that is kept.
* The checkpoint of a run with LADDER_START_UTIL (`launch.sh:446`) makes a later run
  without it skip rungs that were never tried.
* A run whose log reports a runtime error is logged as a failure but returns the
  outcome SUCCESS, so that `--returnfail` of mantis does not see it.
* A dependence that cannot be chained has weight -1, whatever the latency of its
  source (`sdc_scheduling2.cpp:203`, 287; the comment at 179 promises the latency).
* `tot_csteps` is the number of steps of the last loop, not of the function
  (`sdc_scheduling2.cpp:851`, `schedule.hpp:124`).
* `__kmpc_reduce` lets the workers continue before the master has combined their
  values, although the comments at `kmp_csupport.cpp:163-164` and 216 say otherwise.
* With 6 threads and 4 contexts per core a barrier is never complete: core 0 has two
  contexts, but the barrier register is sized for full cores.

## 6. Plan

What is left, in this order:

1. More proofs: `ExecutedClosed` and `NoStall` for flows whose relationships may
   disappear, or a precise statement of when they hold.
2. Co-simulation interfaces and memory map, under the `Serve` action of `MdpiIpc`.
3. Clique covering and coloring, and the static loop partition of the OpenMP
   runtime, as pure algorithms against a reference definition.
4. Liveness and register binding: the registers of simultaneously live variables
   differ. Memory allocation: ranges are disjoint and aligned.

### Not modelled

About nine tenths of the repository are single passes over large data structures
(frontend, IR, datapath), text generation (HDL and C writers), contents of libraries,
vendored code, and tests. They have no protocol and no state that outlives a pass; what
could go wrong in them is equivalence of programs or circuits, which is out of TLC's
reach at a useful size. `PROJECT.json` lists each with its reason.

## 7. Running the checks

    tlc -workers 2 -config DesignFlow_growing.cfg MCDesignFlowManager
    tlc -workers 2 -config DesignFlow_termination.cfg MCDesignFlowManager
    tlc -workers 2 -config Scheduling_loops.cfg MCSdcScheduling
    tlc -workers 2 -config Sdc_solver.cfg MCSdcSolver
    tlc -workers 2 -config Omp_region.cfg MCOmpContexts
    tlc -workers 2 -config Mdpi_cosim.cfg MCMdpiIpc
    tlc -workers 2 -config Mantis_pool.cfg MCMantis
    tlc -workers 2 -config Ladder_runs.cfg MCUtilizationLadder
    tlapm DesignFlowManager_proofs.tla     (and the other *_proofs modules)

Each run takes at most two minutes or so.
