------------------------------- MODULE MdpiIpc -------------------------------
(***************************************************************************)
(* Co-simulation of the generated hardware: src/etc/libmdpi.               *)
(*                                                                         *)
(* A driver process runs the user's program and forks a simulator process  *)
(* that runs the testbench.  They share a memory-mapped file: an atomic    *)
(* handle (FREE, LOCKED, REQUEST, RESPONSE) and one operation.  The        *)
(* simulator asks (m_next, m_read, m_write, m_state, m_builtin_exit); in   *)
(* the driver the main thread answers m_next when the program calls the    *)
(* kernel, and an IPC thread answers the rest while the kernel is running. *)
(* Either process may end at its own initiative, with __ipc_exit.          *)
(*                                                                         *)
(* A wait is modelled as a step enabled when the handle has the awaited    *)
(* value: __ipc_wait looks at the handle at least once a second, so a lost *)
(* or an early signal only delays it.  The build is the one of             *)
(* src/etc/libtech/backend/utils/simulation_wrapper.sh: the IPC thread is  *)
(* there (BAMBU_CONCURRENT_COSIM), and the assertions are only if the      *)
(* verbosity is above 4 (__M_OUT_LVL).  What an interface computes is left *)
(* out: its answer is the number of the operation.                         *)
(***************************************************************************)
EXTENDS Naturals, FiniteSets

CONSTANTS
    Ids,           \* interface identifiers the hardware uses
    Interfaces,    \* the ones the driver registered (__m_interfaces)
    MaxKernels,    \* bound: kernel calls of the program
    MaxAccesses,   \* bound: interface operations of the whole simulation
    ExitingCalls,  \* the kernel calls in which the hardware may call exit()
    StoppingCalls, \* the kernel calls the simulator may give up (MAX_SIM_CYCLES)
    Faults,        \* an interface operation may raise SIGSEGV
    EarlyExit,     \* the driver may end out of turn: the program calls exit() or abort()
                   \* at any time, or the IPC thread cannot be created
    Builds         \* whether NDEBUG is not defined: one of these

ASSUME MdpiAssumption ==
    /\ Interfaces \subseteq Ids
    /\ {"EMPTY", "OUT_OF_BOUNDS"} \cap Ids = {}
    /\ MaxKernels \in Nat \ {0}
    /\ MaxAccesses \in Nat
    /\ ExitingCalls \subseteq 1 .. MaxKernels
    /\ StoppingCalls \subseteq 1 .. MaxKernels
    /\ Faults \in BOOLEAN
    /\ EarlyExit \in BOOLEAN
    /\ Builds \subseteq BOOLEAN

VARIABLES
    handle,     \* mdpi_ipc_file_t::handle
    op,         \* mdpi_ipc_file_t::operation
    registered, \* mdpi_ipc_file_t::proc[MDPI_ENTITY_SIM] is set
    pc,         \* where the simulator and the two threads of the driver are
    expected,   \* the local variable of __ipc_exit
    why,        \* for a thread of the driver, why it calls __ipc_exit
    exited,     \* the static flag of the driver's __ipc_exit
    assertions, \* the build: NDEBUG is not defined
    early,      \* the driver has begun to end out of turn
    simPid,     \* __m_sim_pid # 0
    call,       \* the function of mdpi.c the simulator is in
    result,     \* the operation as the simulator read it from a response
    kernels,    \* kernel calls the program made
    rounds,     \* kernel calls the simulator was told to set up
    calls,      \* interface operations the simulator asked for
    performed   \* interface operations the driver carried out

mode == <<early, assertions>>
driverVars == <<why, exited, simPid, kernels, performed, mode>>
simVars == <<registered, call, result, rounds, calls>>
vars == <<handle, op, pc, expected, driverVars, simVars>>

Procs == {"sim", "main", "ipc"}
Driver == {"main", "ipc"}
Handles == {"FREE", "LOCKED", "REQUEST", "RESPONSE"}
Accesses == {"IF_READ", "IF_WRITE", "IF_INFO"}
States == {"UNDEFINED", "READY", "SETUP", "END", "ABORT"}
Reasons == {"none", "return", "exit", "abort", "signal", "builtin"}

\* mdpi_op_t: the payload is a union.
Operations ==
    [type : {"NONE"}]
    \cup [type : {"STATE_CHANGE"}, state : States]
    \cup [type : Accesses, id : Ids \cup {"EMPTY", "OUT_OF_BOUNDS"}, info : Nat]
    \cup [type : {"IF_EXIT"}]

ExitPoints == {"exit_check", "exit_load", "exit_cas", "exit_write", "exit_store", "exit_done"}
SimPoints ==
    {"boot", "ready", "running", "reserve", "fill", "request", "await", "answer",
     "release", "fini", "illegal", "ok", "failed"} \cup ExitPoints
DriverPoints ==
    {"sync", "user", "start", "setup_response", "launch", "golden", "join", "wait",
     "idle", "loop", "serve", "response", "illegal", "done", "gone"} \cup ExitPoints

\* The shared handle and operation, and where each thread of the two processes can be.
Flags ==
    /\ registered \in BOOLEAN /\ exited \in BOOLEAN /\ simPid \in BOOLEAN
    /\ assertions \in Builds /\ early \in BOOLEAN
Points ==
    /\ pc \in [Procs -> SimPoints \cup DriverPoints]
    /\ pc["sim"] \in SimPoints /\ pc["main"] \in DriverPoints /\ pc["ipc"] \in DriverPoints
Payloads == op \in Operations /\ result \in Operations
Locals ==
    /\ handle \in Handles /\ expected \in [Procs -> Handles] /\ why \in [Driver -> Reasons]
    /\ call \in {"none", "next", "access", "exit"}
    /\ kernels \in 0 .. MaxKernels
    /\ rounds \in Nat /\ calls \in Nat /\ performed \in Nat
TypeOK == Flags /\ Points /\ Payloads /\ Locals

\* __mdpi_driver_init up to __ipc_init1: the file is mapped and initialised and
\* the simulator is forked.
Init ==
    /\ handle = "FREE"
    /\ op = [type |-> "NONE"]
    /\ registered = FALSE
    /\ pc = [p \in Procs |-> CASE p = "sim" -> "boot" [] p = "main" -> "sync" [] p = "ipc" -> "idle"]
    /\ expected = [p \in Procs |-> "FREE"]
    /\ why = [p \in Driver |-> "none"]
    /\ exited = FALSE /\ simPid = TRUE
    /\ assertions \in Builds /\ early = FALSE
    /\ call = "none" /\ result = [type |-> "NONE"]
    /\ kernels = 0 /\ rounds = 0 /\ calls = 0 /\ performed = 0

StateChange(s) == [type |-> "STATE_CHANGE", state |-> s]

SimGone == pc["sim"] \in {"ok", "failed"}
DriverGone == pc["main"] = "gone"

\* From one point of process p to another.
Goto(p, from, to) == pc[p] = from /\ pc' = [pc EXCEPT ![p] = to]

\* assert(): without NDEBUG it aborts the process when the condition is false.
Asserted(condition) == assertions => condition

-----------------------------------------------------------------------------
(* __ipc_exit                                                              *)

\* exit() or _exit() of the driver ends both threads.
AllGone == [p \in Procs |-> IF p \in Driver THEN "gone" ELSE pc[p]]

\* __ipc_notify: when the other process is gone its pid may be, too; then kill()
\* fails and abort() is called.
NotifyFails(p) == IF p = "sim" THEN DriverGone ELSE SimGone /\ registered

\* The handler of SIGINT, SIGABRT and SIGSEGV in thread p: it tells a simulator
\* that was not reaped yet, otherwise exit() runs the destructor.
Signal(p, from) ==
    /\ Goto(p, from, "exit_check")
    /\ why' = [why EXCEPT ![p] = IF simPid THEN "signal" ELSE "return"]
    /\ simPid' = FALSE

\* p stores a new handle, which takes it from one point to another, and notifies.
\* abort() kills the simulator; in the driver SIGABRT is handled.
StoreAndNotify(p, new, from, to) ==
    /\ handle' = new
    /\ \/ Goto(p, from, to) /\ UNCHANGED <<why, simPid>>
       \/ /\ NotifyFails(p)
          /\ IF p = "sim" THEN Goto(p, from, "failed") /\ UNCHANGED <<why, simPid>>
                          ELSE Signal(p, from)

\* Faulty variant of IpcExitCheck: the flag is not looked at.
IpcExitCheckNone(p) ==
    /\ p \in Driver
    /\ Goto(p, "exit_check", "exit_load")
    /\ UNCHANGED <<handle, op, expected, driverVars, simVars>>

\* The driver's wrapper of __ipc_exit goes on only once.  The flag is not
\* atomic: the other thread may look at it before it is set.
IpcExitCheck(p) ==
    /\ p \in Driver
    /\ IF exited THEN Goto(p, "exit_check", "exit_done")
                 ELSE Goto(p, "exit_check", "exit_load")
    /\ UNCHANGED <<handle, op, expected, driverVars, simVars>>

\* Setting the flag and expected = atomic_load(handle).
IpcExitLoad(p) ==
    /\ Goto(p, "exit_load", "exit_cas")
    /\ expected' = [expected EXCEPT ![p] = handle]
    /\ exited' = IF p \in Driver THEN TRUE ELSE exited
    /\ UNCHANGED <<handle, op, why, simPid, kernels, performed, mode, simVars>>

\* The loop condition.  The continue statement on LOCKED jumps here, so that a
\* handle the other process has locked is taken as well.
IpcExitCas(p) ==
    /\ IF handle = expected[p]
       THEN Goto(p, "exit_cas", "exit_write") /\ handle' = "LOCKED"
       ELSE Goto(p, "exit_cas", "exit_load") /\ UNCHANGED handle
    /\ UNCHANGED <<op, expected, driverVars, simVars>>

IpcExitWrite(p) ==
    /\ Goto(p, "exit_write", "exit_store")
    /\ op' = StateChange(IF p \in Driver /\ why[p] \in {"abort", "signal"} THEN "ABORT" ELSE "END")
    /\ UNCHANGED <<handle, expected, driverVars, simVars>>

IpcExitStore(p) ==
    /\ StoreAndNotify(p, IF p = "sim" THEN "REQUEST" ELSE "RESPONSE", "exit_store", "exit_done")
    /\ UNCHANGED <<op, expected, exited, kernels, performed, mode, simVars>>

\* What follows __ipc_exit.  The simulator's destructor returns, the IPC thread
\* ends after a builtin exit, __m_exit calls _exit(), the signal handler kills
\* the simulator and reaps it, and exit() runs the driver's destructor, which
\* waits for a simulator that was not reaped yet.
IpcExitDone(p) ==
    /\ pc[p] = "exit_done"
    /\ IF p = "sim" THEN Goto(p, "exit_done", "ok") /\ UNCHANGED simPid
       ELSE CASE why[p] = "builtin" -> Goto(p, "exit_done", "done") /\ UNCHANGED simPid
              [] why[p] = "exit" -> pc' = AllGone /\ UNCHANGED simPid
              [] why[p] = "signal" ->
                    /\ pc' = [AllGone EXCEPT !["sim"] = IF SimGone THEN @ ELSE "failed"]
                    /\ UNCHANGED simPid
              [] OTHER ->
                    /\ IF simPid THEN Goto(p, "exit_done", "wait") ELSE pc' = AllGone
                    /\ simPid' = FALSE
    /\ UNCHANGED <<handle, op, expected, why, exited, kernels, performed, mode, simVars>>

IpcExit(p) ==
    \/ IpcExitCheck(p) \/ IpcExitLoad(p) \/ IpcExitCas(p)
    \/ IpcExitWrite(p) \/ IpcExitStore(p) \/ IpcExitDone(p)

\* Thread p of the driver calls __ipc_exit.
CallsExit(p, from, reason) ==
    /\ Goto(p, from, "exit_check")
    /\ why' = [why EXCEPT ![p] = reason]

-----------------------------------------------------------------------------
(* The simulator: mdpi.c, called by the testbench                          *)

\* __m_init, or the simulator cannot be launched.
Boot ==
    /\ \/ Goto("sim", "boot", "ready") /\ registered' = TRUE
       \/ Goto("sim", "boot", "failed") /\ UNCHANGED registered
    /\ UNCHANGED <<handle, op, expected, call, result, rounds, calls, driverVars>>

\* STATE_READY: the testbench calls m_next.
CallNext ==
    /\ Goto("sim", "ready", "reserve")
    /\ call' = "next"
    /\ UNCHANGED <<handle, op, expected, registered, result, rounds, calls, driverVars>>

\* While the kernel is running, the hardware accesses an interface (m_read,
\* m_write, m_state), calls exit(), is done, or takes too many cycles ($finish).
CallAccess ==
    /\ Goto("sim", "running", "reserve")
    /\ calls < MaxAccesses
    /\ call' = "access"
    /\ UNCHANGED <<handle, op, expected, registered, result, rounds, calls, driverVars>>

CallExit ==
    /\ Goto("sim", "running", "reserve")
    /\ rounds \in ExitingCalls
    /\ call' = "exit"
    /\ UNCHANGED <<handle, op, expected, registered, result, rounds, calls, driverVars>>

KernelDone ==
    /\ Goto("sim", "running", "ready")
    /\ UNCHANGED <<handle, op, expected, simVars, driverVars>>

SimStop ==
    /\ rounds \in StoppingCalls
    /\ Goto("sim", "running", "exit_load")
    /\ UNCHANGED <<handle, op, expected, simVars, driverVars>>

\* __ipc_reserve: a failed compare and exchange waits again.
Reserve ==
    /\ handle = "FREE"
    /\ Goto("sim", "reserve", "fill")
    /\ handle' = "LOCKED"
    /\ UNCHANGED <<op, expected, simVars, driverVars>>

\* The operation is written field by field while the handle is LOCKED.
Fill ==
    /\ Goto("sim", "fill", "request")
    /\ \/ /\ call = "next"
          /\ op' = StateChange("READY")
          /\ UNCHANGED calls
       \/ /\ call = "access"
          /\ calls' = calls + 1
          /\ \E t \in Accesses, i \in Ids : op' = [type |-> t, id |-> i, info |-> calls']
       \/ /\ call = "exit"
          /\ op' = [type |-> "IF_EXIT"]
          /\ UNCHANGED calls
    /\ result' = op'
    /\ UNCHANGED <<handle, expected, registered, call, rounds, driverVars>>

\* __ipc_request, with its assertion.
Request ==
    /\ IF Asserted(handle = "LOCKED") THEN StoreAndNotify("sim", "REQUEST", "request", "await")
       ELSE Goto("sim", "request", "illegal") /\ UNCHANGED <<handle, why, simPid>>
    /\ UNCHANGED <<op, expected, exited, kernels, performed, mode, simVars>>

\* __ipc_wait(RESPONSE).
AwaitResponse ==
    /\ handle = "RESPONSE"
    /\ Goto("sim", "await", "answer")
    /\ UNCHANGED <<handle, op, expected, simVars, driverVars>>

\* Reading the response.  m_read, m_write and m_state end the simulation when it
\* is not of the type they asked for (terminate_if_not), and abort when the
\* interface is not registered; result still holds what was asked for.
Refused == call = "access" /\ (op.type # result.type \/ op.id \notin {result.id, "EMPTY"})
Answer ==
    /\ Goto("sim", "answer", IF Refused THEN "failed" ELSE "release")
    /\ result' = op
    /\ UNCHANGED <<handle, op, expected, registered, call, rounds, calls, driverVars>>

\* What the testbench does with the answer: m_next asks again on READY, and so
\* does the testbench on a state it does not know.
AfterCall ==
    IF call = "access" THEN "running"
    ELSE IF call = "exit" THEN "fini"
    ELSE CASE result.state = "READY" -> "ready"
           [] result.state = "SETUP" -> "running"
           [] result.state \in {"END", "ABORT"} -> "fini"
           [] result.state = "UNDEFINED" -> IF assertions THEN "illegal" ELSE "ready"

\* __ipc_release.
Release ==
    /\ StoreAndNotify("sim", "FREE", "release", AfterCall)
    /\ rounds' = IF call = "next" /\ result.state = "SETUP" THEN rounds + 1 ELSE rounds
    /\ UNCHANGED <<op, expected, exited, kernels, performed, mode, registered, call, result, calls>>

\* m_fini, with its assertion; it reads the operation without a lock.
Fini ==
    /\ IF Asserted(op.type = "STATE_CHANGE") THEN Goto("sim", "fini", "ok")
                                             ELSE Goto("sim", "fini", "illegal")
    /\ UNCHANGED <<handle, op, expected, simVars, driverVars>>

\* A failed assertion aborts the simulator.
SimAborts ==
    /\ Goto("sim", "illegal", "failed")
    /\ UNCHANGED <<handle, op, expected, simVars, driverVars>>

Sim ==
    \/ Boot \/ CallNext \/ CallAccess \/ CallExit \/ KernelDone \/ SimStop
    \/ Reserve \/ Fill \/ Request \/ AwaitResponse \/ Answer \/ Release \/ Fini \/ SimAborts
    \/ IpcExit("sim")

-----------------------------------------------------------------------------
(* The driver's main thread                                                *)

\* __ipc_init1.
Sync ==
    /\ registered
    /\ Goto("main", "sync", "user")
    /\ UNCHANGED <<handle, op, expected, driverVars, simVars>>

\* The program calls the kernel: __m_sim_start.
CallKernel ==
    /\ kernels < MaxKernels
    /\ Goto("main", "user", "start")
    /\ kernels' = kernels + 1
    /\ UNCHANGED <<handle, op, expected, why, exited, simPid, performed, mode, simVars>>

\* Waiting for the simulator's report, with the assertions that it is READY: they
\* fail when the simulator gave up the previous call.
SimStart ==
    /\ handle = "REQUEST"
    /\ IF Asserted(op = StateChange("READY"))
       THEN Goto("main", "start", "setup_response") /\ op' = [op EXCEPT !.state = "SETUP"]
                                                    /\ UNCHANGED <<why, simPid>>
       ELSE Signal("main", "start") /\ UNCHANGED op
    /\ UNCHANGED <<handle, expected, exited, kernels, performed, mode, simVars>>

\* __ipc_response, with its assertion.
SetupResponse ==
    /\ IF Asserted(handle = "REQUEST")
       THEN StoreAndNotify("main", "RESPONSE", "setup_response", "launch")
       ELSE Goto("main", "setup_response", "illegal") /\ UNCHANGED <<handle, why, simPid>>
    /\ UNCHANGED <<op, expected, exited, kernels, performed, mode, simVars>>

\* pthread_create; then the wrapper makes the golden call.  When there is no
\* thread, the driver aborts, while the simulator runs the call it was told to.
LaunchIpc ==
    /\ \/ /\ pc["main"] = "launch"
          /\ pc' = [pc EXCEPT !["main"] = "golden", !["ipc"] = "loop"]
          /\ UNCHANGED <<early, why>>
       \/ /\ EarlyExit /\ early' = TRUE
          /\ CallsExit("main", "launch", "abort")
    /\ UNCHANGED <<handle, op, expected, exited, simPid, kernels, performed, assertions, simVars>>

\* The golden call is over.
GoldenDone ==
    /\ Goto("main", "golden", "join")
    /\ UNCHANGED <<handle, op, expected, driverVars, simVars>>

\* Faulty variant of SimEnd: the IPC thread is not joined.
SimEndUnjoined ==
    /\ IF Asserted(op.type = "STATE_CHANGE") THEN Goto("main", "join", "user")
                                             ELSE Goto("main", "join", "illegal")
    /\ UNCHANGED <<handle, op, expected, driverVars, simVars>>

\* __m_sim_end: joining the IPC thread, and the assertion.
SimEnd ==
    /\ pc["ipc"] = "done"
    /\ IF Asserted(op.type = "STATE_CHANGE") THEN Goto("main", "join", "user")
                                             ELSE Goto("main", "join", "illegal")
    /\ UNCHANGED <<handle, op, expected, driverVars, simVars>>

\* After a call the program returns from main(), or the results do not match
\* and the wrapper calls __m_abort.
ProgramEnds ==
    /\ kernels > 0
    /\ \E reason \in {"return", "abort"} : CallsExit("main", "user", reason)
    /\ UNCHANGED <<handle, op, expected, exited, simPid, kernels, performed, mode, simVars>>

\* The program calls exit() or abort() by itself, or is interrupted, possibly
\* in the golden call while the simulation is running.
ProgramExits ==
    /\ EarlyExit
    /\ early' = TRUE
    /\ \E from \in {"user", "golden"} :
          \/ /\ \E reason \in {"exit", "abort"} : CallsExit("main", from, reason)
             /\ UNCHANGED simPid
          \/ Signal("main", from)
    /\ UNCHANGED <<handle, op, expected, exited, kernels, performed, assertions, simVars>>

Main ==
    \/ Sync \/ CallKernel \/ SimStart \/ SetupResponse \/ LaunchIpc \/ GoldenDone \/ SimEnd
    \/ ProgramEnds \/ ProgramExits \/ IpcExit("main")

-----------------------------------------------------------------------------
(* The driver's IPC thread: __m_driver_loop                                *)

\* Faulty variants of Loop: it does not wait for the request to be complete, and
\* a state change is answered like the other operations.
LoopEarly ==
    /\ handle \in {"LOCKED", "REQUEST"}
    /\ \/ /\ op.type = "STATE_CHANGE"
          /\ Goto("ipc", "loop", "done")
          /\ UNCHANGED why
       \/ /\ op.type \in Accesses
          /\ Goto("ipc", "loop", "serve")
          /\ UNCHANGED why
       \/ /\ op.type = "IF_EXIT"
          /\ CallsExit("ipc", "loop", "builtin")
    /\ UNCHANGED <<handle, op, expected, exited, simPid, kernels, performed, mode, simVars>>
LoopAnswersReady ==
    /\ handle = "REQUEST"
    /\ \/ /\ op.type = "STATE_CHANGE"
          /\ Goto("ipc", "loop", IF op.state = "READY" THEN "response" ELSE "done")
          /\ UNCHANGED why
       \/ /\ op.type \in Accesses
          /\ Goto("ipc", "loop", "serve")
          /\ UNCHANGED why
       \/ /\ op.type = "IF_EXIT"
          /\ CallsExit("ipc", "loop", "builtin")
    /\ UNCHANGED <<handle, op, expected, exited, simPid, kernels, performed, mode, simVars>>

\* The status of a builtin exit is written to the first interface: no interface,
\* and more than one besides it, end the driver.
ExitAccepted == Interfaces # {} /\ Asserted(Cardinality(Interfaces) =< 2)

\* Waiting for a request.  A state change ends the loop without a response: the
\* next __m_sim_start, or the end of the program, answers it.
Loop ==
    /\ handle = "REQUEST"
    /\ \/ /\ op.type = "STATE_CHANGE"
          /\ Goto("ipc", "loop", "done")
          /\ UNCHANGED <<why, simPid>>
       \/ /\ op.type \in Accesses
          /\ Goto("ipc", "loop", "serve")
          /\ UNCHANGED <<why, simPid>>
       \/ /\ op.type = "IF_EXIT" /\ ExitAccepted
          /\ CallsExit("ipc", "loop", "builtin")
          /\ UNCHANGED simPid
       \/ /\ op.type = "IF_EXIT" /\ (Faults \/ ~ExitAccepted)
          /\ Signal("ipc", "loop")
       \/ /\ op.type = "NONE"
          /\ CallsExit("ipc", "loop", "abort")
          /\ UNCHANGED simPid
    /\ UNCHANGED <<handle, op, expected, exited, kernels, performed, mode, simVars>>

\* Faulty variant of Serve: the operation is answered, not carried out.
ServeNothing ==
    /\ Goto("ipc", "serve", "response")
    /\ UNCHANGED <<handle, op, expected, driverVars, simVars>>

\* The operation on the interface, in place; it may fault.  When the main thread
\* has overwritten the operation meanwhile, the payload is read and written as
\* something it is not.
Serve ==
    /\ pc["ipc"] = "serve"
    /\ \/ /\ op.type \in Accesses /\ op.id \notin Interfaces
          /\ op' = [op EXCEPT !.id = IF Interfaces = {} THEN "EMPTY" ELSE "OUT_OF_BOUNDS"]
          /\ Goto("ipc", "serve", "response")
          /\ UNCHANGED <<performed, why, simPid>>
       \/ /\ op.type \in Accesses /\ op.id \in Interfaces
          /\ op' = [op EXCEPT !.info = performed + 1]
          /\ Goto("ipc", "serve", "response")
          /\ performed' = performed + 1
          /\ UNCHANGED <<why, simPid>>
       \/ /\ op.type = "STATE_CHANGE"
          /\ op' \in {op, StateChange("UNDEFINED")}
          /\ Goto("ipc", "serve", "response")
          /\ UNCHANGED <<performed, why, simPid>>
       \/ /\ Faults
          /\ Signal("ipc", "serve")
          /\ UNCHANGED <<op, performed>>
    /\ UNCHANGED <<handle, expected, exited, kernels, mode, simVars>>

\* Faulty variant of Response: the thread ends after one answer.
ResponseOnce ==
    /\ StoreAndNotify("ipc", "RESPONSE", "response", "done")
    /\ UNCHANGED <<op, expected, exited, kernels, performed, mode, simVars>>

\* __ipc_response, with its assertion.
Response ==
    /\ IF Asserted(handle = "REQUEST") THEN StoreAndNotify("ipc", "RESPONSE", "response", "loop")
       ELSE Goto("ipc", "response", "illegal") /\ UNCHANGED <<handle, why, simPid>>
    /\ UNCHANGED <<op, expected, exited, kernels, performed, mode, simVars>>

Ipc == Loop \/ Serve \/ Response \/ IpcExit("ipc")

-----------------------------------------------------------------------------
(* The driver's signal handler and its end                                 *)

\* A failed assertion raises SIGABRT.
DriverAborts(p) ==
    /\ Signal(p, "illegal")
    /\ UNCHANGED <<handle, op, expected, exited, kernels, performed, mode, simVars>>

\* SIGCHLD: the handler reaps the simulator and, if it failed, calls exit(); if
\* the driver is ending already, this ends it at once.
ChildEnds ==
    /\ SimGone /\ simPid /\ ~DriverGone
    /\ simPid' = FALSE
    /\ IF pc["sim"] = "ok" THEN UNCHANGED <<pc, why>>
       ELSE IF pc["main"] \in ExitPoints \cup {"wait"} THEN pc' = AllGone /\ UNCHANGED why
       ELSE CallsExit("main", pc["main"], "return")
    /\ UNCHANGED <<handle, op, expected, exited, kernels, performed, mode, simVars>>

\* The destructor has unmapped the file and waits for the simulator.  A thread
\* that still uses the file faults, which ends the driver.
DriverWaits(p) ==
    /\ pc[p] = "wait"
    /\ SimGone \/ \E q \in Driver \ {p} : pc[q] \in {"loop", "serve", "response", "start", "setup_response"}
    /\ pc' = AllGone
    /\ UNCHANGED <<handle, op, expected, driverVars, simVars>>

Handlers == ChildEnds \/ \E p \in Driver : DriverAborts(p) \/ DriverWaits(p)

Ended == SimGone /\ DriverGone

Next ==
    \/ Sim \/ Main \/ Ipc \/ Handlers
    \/ Ended /\ UNCHANGED vars

\* Both processes and both threads are scheduled, and waits poll the handle; a
\* simulated kernel call ends (MAX_SIM_CYCLES), as does the golden call.
Fairness == WF_vars(Sim) /\ WF_vars(Main) /\ WF_vars(Ipc) /\ WF_vars(Handlers)

Spec == Init /\ [][Next]_vars /\ Fairness

-----------------------------------------------------------------------------
(* Properties.  Most of them are about a driver that does not end out of   *)
(* turn (~early): what happens otherwise is shown by the run that finds a  *)
(* violation.                                                              *)

\* The points at which a process writes the operation.
Writing(p) == pc[p] \in {"fill", "request", "exit_write", "exit_store", "serve", "response", "setup_response"}

\* The assertions of __ipc_request ("Illegal IPC commit operation."), of
\* __ipc_response ("Illegal IPC complete operation."), of m_fini and of
\* __m_sim_end never fail.
NoIllegalOperation == \A p \in Procs : pc[p] # "illegal"

\* The same assertions hold as long as the driver does not end out of turn.  The
\* assertions of __m_sim_start are not among them: they do fail when the simulator
\* gave up the previous call.
OrderlyIsLegal == early \/ NoIllegalOperation

\* The handle is a lock on the operation: at most one process or thread is
\* writing it.
OneWriter == early \/ \A p, q \in Procs : Writing(p) /\ Writing(q) => p = q

\* A response to an interface operation answers that very operation, which was
\* carried out once.
AnsweredOnce ==
    ~early /\ pc["sim"] = "release" /\ call = "access" /\ result.id \in Interfaces =>
        result.info = calls /\ performed = calls

\* While the simulator runs a kernel call, the program is in that very call.
InStep ==
    pc["sim"] = "running" /\ ~exited =>
        rounds = kernels /\ pc["main"] \in {"launch", "golden", "join", "exit_check", "exit_load"}

\* The note of m_fini: the operation it reads without a lock is the last
\* communication, a final state that nobody overwrites.
LastCommunication ==
    [][~early' /\ pc["sim"] = "fini" => op.state \in {"END", "ABORT"} /\ op' = op]_vars

\* The program has called the kernel again although the simulator gave up an
\* earlier call (MAX_SIM_CYCLES), or the hardware called exit() in it: SIGCHLD
\* only reaps a simulator that ended well, and nobody answers __m_sim_start.
Deserted == kernels > rounds /\ pc["sim"] = "ok"

\* Both processes end, also when the simulator fails or gives up a call, unless
\* the driver ends out of turn or the program calls the kernel of a simulator
\* that has ended: then __m_sim_start waits for ever, or takes the last END for
\* READY and the IPC thread waits for ever.
Termination == <>(Ended \/ early \/ Deserted)
-----------------------------------------------------------------------------
(* Why the properties hold: the processes take turns on the operation.     *)
(* After a driver that ends out of turn has set the flag of __ipc_exit     *)
(* (Disturbed) anything may happen; until then the point the simulator is  *)
(* at says where the threads of the driver are, what the handle is and     *)
(* what the operation holds.                                               *)

Disturbed == early /\ exited

\* The main thread is at one of these points, or was and is about to exit.
Leaving == early /\ pc["main"] \in {"exit_check", "exit_load"}
MainAt(points) == pc["main"] \in points \/ Leaving

\* The driver waits for the simulator: before the first kernel call, or in one.
BeforeCalls ==
    ~exited /\ rounds = 0 /\ MainAt({"sync", "user", "start"}) /\ pc["ipc"] = "idle"
DuringCall ==
    /\ ~exited
    /\ \/ /\ MainAt({"launch"}) /\ pc["ipc"] \in {"idle", "done"}
          /\ rounds > 0 \/ (handle = "RESPONSE" /\ call = "next")
       \/ MainAt({"golden", "join"}) /\ pc["ipc"] = "loop"

\* The operation as the simulator's function fills it in, and the two answers of
\* the driver: SETUP to m_next, and what became of an interface operation.
Question ==
    /\ result = op
    /\ \/ call = "next" /\ op = StateChange("READY")
       \/ call = "access" /\ op.type \in Accesses /\ op.id \in Ids
       \/ call = "exit" /\ op = [type |-> "IF_EXIT"]
Told == call = "next" /\ op = StateChange("SETUP")
Served ==
    /\ call = "access" /\ op.type \in Accesses /\ op.type = result.type
    /\ \/ op.id \in Interfaces /\ op.info = calls /\ performed = calls
       \/ op.id = IF Interfaces = {} THEN "EMPTY" ELSE "OUT_OF_BOUNDS"
Final == op \in {StateChange("END"), StateChange("ABORT")}

\* The IPC thread is in __ipc_exit: the hardware called exit(), or an operation
\* faulted and the simulator is not waited for any more.
IpcExits(points) ==
    /\ pc["ipc"] \in points
    /\ \/ call = "exit" /\ why["ipc"] = "builtin"
       \/ call \in {"access", "exit"} /\ why["ipc"] \in {"signal", "return"} /\ ~simPid

\* Whose turn it is while the simulator waits: it has asked, a thread of the
\* driver has taken the handle to report the end, or there is a response.
Asked ==
    \/ Question /\ BeforeCalls /\ call = "next"
    \/ Question /\ DuringCall
    \/ /\ Question /\ ~exited /\ call = "next" /\ pc["ipc"] = "done"
       /\ pc["main"] \in {"golden", "join", "user", "start", "exit_check", "exit_load"}
    \/ /\ Question /\ call = "next" /\ pc["ipc"] = "done"
       /\ pc["main"] = "exit_cas" /\ expected["main"] = "REQUEST" /\ exited
    \/ Question /\ ~exited /\ MainAt({"golden", "join"}) /\ pc["ipc"] = "serve" /\ call = "access"
    \/ Question /\ ~exited /\ MainAt({"golden", "join"}) /\ IpcExits({"exit_check", "exit_load"})
    \/ /\ Question /\ exited /\ pc["main"] \in {"golden", "join"}
       /\ IpcExits({"exit_cas"}) /\ expected["ipc"] = "REQUEST"
    \/ Told /\ ~exited /\ pc["main"] = "setup_response" /\ pc["ipc"] \in {"idle", "done"}
    \/ Served /\ ~exited /\ MainAt({"golden", "join"}) /\ pc["ipc"] = "response"
Taken ==
    /\ exited
    /\ \/ pc["main"] \in {"exit_write", "exit_store"} /\ pc["ipc"] = "done" /\ call = "next"
       \/ pc["main"] \in {"golden", "join"} /\ IpcExits({"exit_write", "exit_store"})
    /\ "exit_store" \in {pc["main"], pc["ipc"]} => Final

\* No thread of the driver will write the operation again.
DriverOver ==
    /\ exited /\ Final /\ call \in {"next", "exit"}
    /\ \/ pc["main"] \in {"golden", "join"} /\ (pc["ipc"] = "done" \/ IpcExits({"exit_done"}))
       \/ /\ pc["main"] \in {"user", "start", "exit_check", "exit_done", "wait"}
          /\ pc["ipc"] = "done"
       \/ pc["main"] = "gone" /\ pc["ipc"] = "gone"
Replied ==
    \/ Told /\ DuringCall
    \/ Served /\ DuringCall /\ pc["ipc"] = "loop"
    \/ DriverOver
    \/ /\ exited /\ Final /\ call = "access"
       /\ \/ pc["main"] \in {"golden", "join"} /\ IpcExits({"exit_done"})
          \/ pc["main"] = "gone" /\ pc["ipc"] = "gone"

\* The simulator's turn: from __m_init or __ipc_release to __ipc_request or SimStop.
FreePoints == {"boot", "ready", "reserve", "running", "exit_load", "exit_cas"}
LockedPoints == {"fill", "request", "exit_write", "exit_store"}
SimTurn ==
    pc["sim"] \in FreePoints \cup LockedPoints =>
        /\ BeforeCalls \/ DuringCall
        /\ handle = IF pc["sim"] \in LockedPoints THEN "LOCKED" ELSE "FREE"
        /\ BeforeCalls => pc["sim"] \in {"boot", "ready", "reserve", "fill", "request"}
        /\ BeforeCalls /\ pc["sim"] \in {"reserve", "fill", "request"} => call = "next"
        /\ pc["sim"] \in {"reserve", "fill", "request"} => call # "none"
        /\ pc["sim"] = "boot" => ~registered /\ pc["main"] = "sync"
        /\ pc["sim"] = "exit_cas" => expected["sim"] = "FREE"
        /\ pc["sim"] = "request" => Question
        /\ pc["sim"] = "exit_store" => Final

\* The driver's turn.
DriverTurn ==
    /\ pc["sim"] = "await" =>
        \/ handle = "REQUEST" /\ Asked
        \/ handle = "LOCKED" /\ Taken
        \/ handle = "RESPONSE" /\ Replied
    /\ pc["sim"] \in {"await", "answer"} /\ call = "access" =>
        result.type \in Accesses /\ result.id \in Ids

\* The simulator has seen the response, and still has the handle.
SimReads ==
    /\ pc["sim"] = "answer" => handle = "RESPONSE" /\ Replied
    /\ pc["sim"] = "release" =>
        /\ handle = "RESPONSE" /\ result = op
        /\ \/ Told /\ DuringCall
           \/ Served /\ DuringCall /\ (Interfaces = {} \/ op.id \in Interfaces)
           \/ DriverOver
    /\ pc["sim"] = "fini" => handle = "FREE" /\ DriverOver

\* The simulator has ended, by itself or with an error: the IPC thread has
\* nothing to answer any more.
SimEnded ==
    /\ pc["sim"] \in {"exit_done", "ok"} =>
        /\ op.type = "STATE_CHANGE"
        /\ \/ pc["ipc"] \in {"idle", "loop", "done", "gone"}
           \/ pc["ipc"] = "exit_done" /\ (why["ipc"] = "builtin" \/ ~simPid)
        /\ pc["main"] = "setup_response" => handle = "REQUEST"
    /\ pc["sim"] = "failed" =>
        /\ pc["main"] \in {"sync", "golden", "join", "wait", "gone"} \cup ExitPoints
        /\ pc["main"] = "sync" => ~registered
        /\ \/ pc["ipc"] \in {"idle", "loop", "gone"}
           \/ pc["ipc"] = "exit_done" /\ why["ipc"] \in {"signal", "return"} /\ ~simPid
        /\ pc["ipc"] = "loop" => handle # "REQUEST"

\* The kernel calls of the program and the rounds of the simulator: a call counts
\* from its start to the release of the answer SETUP.
Halted == pc["sim"] \in {"exit_done", "ok", "failed"}
KernelsCounted ==
    ~exited /\ ~Halted =>
        kernels = rounds + (IF \/ pc["main"] \in {"start", "setup_response"}
                               \/ handle = "RESPONSE" /\ call = "next"
                            THEN 1 ELSE 0)

\* Every interface operation is carried out once, unless there is no interface.
AccessesCounted ==
    ~exited /\ ~Halted /\ Interfaces # {} =>
        /\ \/ call = "access" /\ pc["sim"] \in {"request", "await", "answer", "release"}
           \/ performed = calls
        /\ call = "access" /\ pc["sim"] = "request" => performed + 1 = calls
        /\ call = "access" /\ pc["sim"] = "await" /\ handle = "REQUEST" /\ pc["ipc"] # "response"
              => performed + 1 = calls

\* No assertion fails, and the threads keep to their own ways into __ipc_exit.
Legal == NoIllegalOperation /\ pc["sim"] # "exit_check" /\ why["main"] # "builtin"

Turns ==
    /\ Legal /\ SimTurn /\ DriverTurn /\ SimReads /\ SimEnded
    /\ KernelsCounted /\ AccessesCounted

\* Whatever else goes wrong, m_next gets a state.
NextGetsState ==
    call \notin {"access", "exit"} =>
        /\ pc["sim"] \in {"request", "await", "answer"} => op.type = "STATE_CHANGE"
        /\ pc["sim"] = "release" => result.type = "STATE_CHANGE"

Inductive == TypeOK /\ NextGetsState /\ (Disturbed \/ Turns)
==============================================================================
