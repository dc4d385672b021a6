---------------------------- MODULE MdpiIpc_proofs ----------------------------
(***************************************************************************)
(* Proofs about MdpiIpc, for any number of kernel calls and interface      *)
(* operations, any interfaces, and in both builds: as long as the program  *)
(* does not exit by itself no assertion of the protocol fails, one thread  *)
(* at a time writes the operation, and every operation is answered once.   *)
(***************************************************************************)
EXTENDS MdpiIpc, TLAPS

------------------------------------------------------------------------------
(* Types *)

\* What __m_sim_start writes into the operation leaves an operation.
LEMMA SetupTyped ==
    ASSUME NEW o \in Operations
    PROVE  [o EXCEPT !.state = "SETUP"] \in Operations
<1>1. CASE o \in [type : {"STATE_CHANGE"}, state : States]
    BY <1>1 DEF Operations, States
<1>2. CASE o \in [type : {"NONE"}]  BY <1>2 DEF Operations
<1>3. CASE o \in [type : {"IF_EXIT"}]  BY <1>3 DEF Operations
<1>4. CASE o \in [type : Accesses, id : Ids \cup {"EMPTY", "OUT_OF_BOUNDS"}, info : Nat]
    BY <1>4 DEF Operations
<1> QED  BY <1>1, <1>2, <1>3, <1>4 DEF Operations

\* What it writes into a state change, and what the IPC thread writes into an
\* interface operation.
LEMMA SetupWritten ==
    ASSUME NEW o \in Operations, o.type = "STATE_CHANGE"
    PROVE  [o EXCEPT !.state = "SETUP"] = StateChange("SETUP")
<1>1. o \in [type : {"STATE_CHANGE"}, state : States]  BY DEF Operations, Accesses
<1> QED  BY <1>1 DEF StateChange

\* The IPC thread answers an access with its own type and id, or with an error id, or
\* faults.
LEMMA AnswerWritten ==
    ASSUME Payloads, op.type \in Accesses, Serve
    PROVE  \/ /\ op.id \notin Interfaces /\ Goto("ipc", "serve", "response")
              /\ op'.type = op.type /\ op'.id = IF Interfaces = {} THEN "EMPTY" ELSE "OUT_OF_BOUNDS"
              /\ UNCHANGED <<performed, why, simPid>>
           \/ /\ op.id \in Interfaces /\ Goto("ipc", "serve", "response")
              /\ op'.type = op.type /\ op'.id = op.id /\ op'.info = performed + 1
              /\ performed' = performed + 1 /\ UNCHANGED <<why, simPid>>
           \/ Signal("ipc", "serve") /\ UNCHANGED <<op, performed>>
<1>1. op \in [type : Accesses, id : Ids \cup {"EMPTY", "OUT_OF_BOUNDS"}, info : Nat]
    BY DEF Payloads, Operations, Accesses
<1> QED  BY <1>1 DEF Serve, Accesses

\* Where __ipc_release leaves the simulator.
LEMMA ReleasedTo ==
    ASSUME Payloads, NextGetsState, pc["sim"] = "release"
    PROVE  AfterCall \in {"running", "ready", "fini", "illegal"}
<1>1. CASE call \in {"access", "exit"}  BY <1>1 DEF AfterCall
<1>2. CASE call \notin {"access", "exit"}
    <2>1. result.type = "STATE_CHANGE"  BY <1>2 DEF NextGetsState
    <2>2. result.state \in States  BY <2>1 DEF Payloads, Operations, Accesses
    <2> QED  BY <1>2, <2>2 DEF AfterCall, States
<1> QED  BY <1>1, <1>2

\* What follows __ipc_exit in the driver.
LEMMA ExitLeadsTo ==
    ASSUME NEW p \in Driver, IpcExitDone(p)
    PROVE  \/ pc' = [pc EXCEPT ![p] = "done"] /\ why[p] = "builtin"
           \/ pc' = [pc EXCEPT ![p] = "wait"] /\ simPid /\ why[p] # "builtin"
           \/ pc' = AllGone
           \/ pc' = [AllGone EXCEPT !["sim"] = IF SimGone THEN @ ELSE "failed"]
BY DEF IpcExitDone, Goto, Driver

\* Every step keeps the flags.
LEMMA KeepsFlags ==
    ASSUME Flags, [Next]_vars
    PROVE  Flags'
<1>1. CASE Boot
    BY <1>1 DEF Boot, Goto, Flags, mode, driverVars, simVars
<1>2. CASE CallNext
    BY <1>2 DEF CallNext, Goto, Flags, mode, driverVars, simVars
<1>3. CASE CallAccess
    BY <1>3 DEF CallAccess, Goto, Flags, mode, driverVars, simVars
<1>4. CASE CallExit
    BY <1>4 DEF CallExit, Goto, Flags, mode, driverVars, simVars
<1>5. CASE KernelDone
    BY <1>5 DEF KernelDone, Goto, Flags, mode, driverVars, simVars
<1>6. CASE SimStop
    BY <1>6 DEF SimStop, Goto, Flags, mode, driverVars, simVars
<1>7. CASE Reserve
    BY <1>7 DEF Reserve, Goto, Flags, mode, driverVars, simVars
<1>8. CASE Fill
    BY <1>8 DEF Fill, Goto, StateChange, Flags, mode, driverVars, simVars
<1>9. CASE Request
    BY <1>9 DEF Request, Goto, Asserted, StoreAndNotify, NotifyFails, DriverGone, Flags, mode, driverVars,
        simVars
<1>10. CASE AwaitResponse
    BY <1>10 DEF AwaitResponse, Goto, Flags, mode, driverVars, simVars
<1>11. CASE Answer
    BY <1>11 DEF Answer, Goto, Refused, Flags, mode, driverVars, simVars
<1>12. CASE Release
    BY <1>12 DEF Release, Goto, StoreAndNotify, NotifyFails, DriverGone, AfterCall, Flags, mode, driverVars,
        simVars
<1>13. CASE Fini
    BY <1>13 DEF Fini, Goto, Asserted, Flags, mode, driverVars, simVars
<1>14. CASE SimAborts
    BY <1>14 DEF SimAborts, Goto, Flags, mode, driverVars, simVars
<1>15. CASE Sync
    BY <1>15 DEF Sync, Goto, Flags, mode, driverVars, simVars
<1>16. CASE CallKernel
    BY <1>16 DEF CallKernel, Goto, Flags, mode, driverVars, simVars
<1>17. CASE SimStart
    BY <1>17 DEF SimStart, Goto, Asserted, Signal, StateChange, Flags, mode, driverVars, simVars
<1>18. CASE SetupResponse
    BY <1>18 DEF SetupResponse, Goto, Asserted, StoreAndNotify, NotifyFails, SimGone, Signal, Flags, mode,
        driverVars, simVars
<1>19. CASE LaunchIpc
    BY <1>19 DEF LaunchIpc, Goto, CallsExit, Flags, mode, driverVars, simVars
<1>20. CASE GoldenDone
    BY <1>20 DEF GoldenDone, Goto, Flags, mode, driverVars, simVars
<1>21. CASE SimEnd
    BY <1>21 DEF SimEnd, Goto, Asserted, Flags, mode, driverVars, simVars
<1>22. CASE ProgramEnds
    BY <1>22 DEF ProgramEnds, Goto, CallsExit, Flags, mode, driverVars, simVars
<1>23. CASE ProgramExits
    BY <1>23 DEF ProgramExits, Goto, CallsExit, Signal, Flags, mode, driverVars, simVars
<1>24. CASE Loop
    BY <1>24 DEF Loop, Goto, CallsExit, Signal, Flags, mode, driverVars, simVars
<1>25. CASE Serve
    BY <1>25 DEF Serve, Goto, Signal, StateChange, Flags, mode, driverVars, simVars
<1>26. CASE Response
    BY <1>26 DEF Response, Goto, Asserted, StoreAndNotify, NotifyFails, SimGone, Signal, Flags, mode,
        driverVars, simVars
<1>27. ASSUME NEW p \in Procs, IpcExitCheck(p) PROVE Flags'
    BY <1>27 DEF IpcExitCheck, Goto, Flags, mode, driverVars, simVars
<1>28. ASSUME NEW p \in Procs, IpcExitLoad(p) PROVE Flags'
    BY <1>28 DEF IpcExitLoad, Goto, Flags, mode, driverVars, simVars
<1>29. ASSUME NEW p \in Procs, IpcExitCas(p) PROVE Flags'
    BY <1>29 DEF IpcExitCas, Goto, Flags, mode, driverVars, simVars
<1>30. ASSUME NEW p \in Procs, IpcExitWrite(p) PROVE Flags'
    BY <1>30 DEF IpcExitWrite, Goto, StateChange, Flags, mode, driverVars, simVars
<1>31. ASSUME NEW p \in Procs, IpcExitStore(p) PROVE Flags'
    BY <1>31 DEF IpcExitStore, Goto, StoreAndNotify, NotifyFails, SimGone, DriverGone, Signal, Flags, mode,
        driverVars, simVars
<1>32. ASSUME NEW p \in Procs, IpcExitDone(p) PROVE Flags'
    BY <1>32 DEF IpcExitDone, Goto, AllGone, SimGone, Flags, mode, driverVars, simVars
<1>33. ASSUME NEW p \in Driver, DriverAborts(p) PROVE Flags'
    BY <1>33 DEF DriverAborts, Goto, Signal, Flags, mode, driverVars, simVars
<1>34. ASSUME NEW p \in Driver, DriverWaits(p) PROVE Flags'
    BY <1>34 DEF DriverWaits, AllGone, Flags, mode, driverVars, simVars
<1>35. CASE ChildEnds
    BY <1>35 DEF ChildEnds, SimGone, DriverGone, AllGone, CallsExit, Goto, Flags, mode, driverVars, simVars
<1>36. CASE UNCHANGED vars
    BY <1>36 DEF vars, Flags, mode, driverVars, simVars
<1> QED
    BY <1>1, <1>2, <1>3, <1>4, <1>5, <1>6, <1>7, <1>8, <1>9, <1>10, <1>11, <1>12, <1>13, <1>14, <1>15,
        <1>16, <1>17, <1>18, <1>19, <1>20, <1>21, <1>22, <1>23, <1>24, <1>25, <1>26, <1>27, <1>28, <1>29,
        <1>30, <1>31, <1>32, <1>33, <1>34, <1>35, <1>36
    DEF Next, Sim, Main, Ipc, IpcExit, Handlers, Procs, Driver

\* Every step keeps each thread at one of its points.
LEMMA KeepsPoints ==
    ASSUME Points, Payloads, NextGetsState, [Next]_vars
    PROVE  Points'
<1>1. CASE Boot
    BY <1>1 DEF Boot, Goto, Points, Procs, Driver, SimPoints, DriverPoints, ExitPoints, mode, driverVars,
        simVars
<1>2. CASE CallNext
    BY <1>2 DEF CallNext, Goto, Points, Procs, Driver, SimPoints, DriverPoints, ExitPoints, mode,
        driverVars, simVars
<1>3. CASE CallAccess
    BY <1>3 DEF CallAccess, Goto, Points, Procs, Driver, SimPoints, DriverPoints, ExitPoints, mode,
        driverVars, simVars
<1>4. CASE CallExit
    BY <1>4 DEF CallExit, Goto, Points, Procs, Driver, SimPoints, DriverPoints, ExitPoints, mode,
        driverVars, simVars
<1>5. CASE KernelDone
    BY <1>5 DEF KernelDone, Goto, Points, Procs, Driver, SimPoints, DriverPoints, ExitPoints, mode,
        driverVars, simVars
<1>6. CASE SimStop
    BY <1>6 DEF SimStop, Goto, Points, Procs, Driver, SimPoints, DriverPoints, ExitPoints, mode, driverVars,
        simVars
<1>7. CASE Reserve
    BY <1>7 DEF Reserve, Goto, Points, Procs, Driver, SimPoints, DriverPoints, ExitPoints, mode, driverVars,
        simVars
<1>8. CASE Fill
    BY <1>8 DEF Fill, Goto, StateChange, Points, Procs, Driver, SimPoints, DriverPoints, ExitPoints, mode,
        driverVars, simVars
<1>9. CASE Request
    BY <1>9 DEF Request, Goto, Asserted, StoreAndNotify, NotifyFails, DriverGone, Points, Procs, Driver,
        SimPoints, DriverPoints, ExitPoints, mode, driverVars, simVars
<1>10. CASE AwaitResponse
    BY <1>10 DEF AwaitResponse, Goto, Points, Procs, Driver, SimPoints, DriverPoints, ExitPoints, mode,
        driverVars, simVars
<1>11. CASE Answer
    BY <1>11 DEF Answer, Goto, Refused, Points, Procs, Driver, SimPoints, DriverPoints, ExitPoints, mode,
        driverVars, simVars
<1>12. CASE Release
    BY <1>12, ReleasedTo DEF Release, Goto, StoreAndNotify, NotifyFails, DriverGone, Points, Procs, SimPoints
<1>13. CASE Fini
    BY <1>13 DEF Fini, Goto, Asserted, Points, Procs, Driver, SimPoints, DriverPoints, ExitPoints, mode,
        driverVars, simVars
<1>14. CASE SimAborts
    BY <1>14 DEF SimAborts, Goto, Points, Procs, Driver, SimPoints, DriverPoints, ExitPoints, mode,
        driverVars, simVars
<1>15. CASE Sync
    BY <1>15 DEF Sync, Goto, Points, Procs, Driver, SimPoints, DriverPoints, ExitPoints, mode, driverVars,
        simVars
<1>16. CASE CallKernel
    BY <1>16 DEF CallKernel, Goto, Points, Procs, Driver, SimPoints, DriverPoints, ExitPoints, mode,
        driverVars, simVars
<1>17. CASE SimStart
    BY <1>17 DEF SimStart, Goto, Asserted, Signal, StateChange, Points, Procs, Driver, SimPoints,
        DriverPoints, ExitPoints, mode, driverVars, simVars
<1>18. CASE SetupResponse
    BY <1>18 DEF SetupResponse, Goto, Asserted, StoreAndNotify, NotifyFails, SimGone, Signal, Points, Procs,
        Driver, SimPoints, DriverPoints, ExitPoints, mode, driverVars, simVars
<1>19. CASE LaunchIpc
    BY <1>19 DEF LaunchIpc, Goto, CallsExit, Points, Procs, Driver, SimPoints, DriverPoints, ExitPoints,
        mode, driverVars, simVars
<1>20. CASE GoldenDone
    BY <1>20 DEF GoldenDone, Goto, Points, Procs, Driver, SimPoints, DriverPoints, ExitPoints, mode,
        driverVars, simVars
<1>21. CASE SimEnd
    BY <1>21 DEF SimEnd, Goto, Asserted, Points, Procs, Driver, SimPoints, DriverPoints, ExitPoints, mode,
        driverVars, simVars
<1>22. CASE ProgramEnds
    BY <1>22 DEF ProgramEnds, Goto, CallsExit, Points, Procs, Driver, SimPoints, DriverPoints, ExitPoints,
        mode, driverVars, simVars
<1>23. CASE ProgramExits
    BY <1>23 DEF ProgramExits, Goto, CallsExit, Signal, Points, Procs, Driver, SimPoints, DriverPoints,
        ExitPoints, mode, driverVars, simVars
<1>24. CASE Loop
    BY <1>24 DEF Loop, Goto, CallsExit, Signal, Points, Procs, Driver, SimPoints, DriverPoints, ExitPoints,
        mode, driverVars, simVars
<1>25. CASE Serve
    BY <1>25 DEF Serve, Goto, Signal, StateChange, Points, Procs, Driver, SimPoints, DriverPoints,
        ExitPoints, mode, driverVars, simVars
<1>26. CASE Response
    BY <1>26 DEF Response, Goto, Asserted, StoreAndNotify, NotifyFails, SimGone, Signal, Points, Procs,
        Driver, SimPoints, DriverPoints, ExitPoints, mode, driverVars, simVars
<1>27. ASSUME NEW p \in Procs, IpcExitCheck(p) PROVE Points'
    BY <1>27 DEF IpcExitCheck, Goto, Points, Procs, Driver, SimPoints, DriverPoints, ExitPoints, mode,
        driverVars, simVars
<1>28. ASSUME NEW p \in Procs, IpcExitLoad(p) PROVE Points'
    BY <1>28 DEF IpcExitLoad, Goto, Points, Procs, Driver, SimPoints, DriverPoints, ExitPoints, mode,
        driverVars, simVars
<1>29. ASSUME NEW p \in Procs, IpcExitCas(p) PROVE Points'
    BY <1>29 DEF IpcExitCas, Goto, Points, Procs, Driver, SimPoints, DriverPoints, ExitPoints, mode,
        driverVars, simVars
<1>30. ASSUME NEW p \in Procs, IpcExitWrite(p) PROVE Points'
    BY <1>30 DEF IpcExitWrite, Goto, StateChange, Points, Procs, Driver, SimPoints, DriverPoints,
        ExitPoints, mode, driverVars, simVars
<1>31. ASSUME NEW p \in Procs, IpcExitStore(p) PROVE Points'
    BY <1>31 DEF IpcExitStore, Goto, StoreAndNotify, NotifyFails, SimGone, DriverGone, Signal, Points,
        Procs, Driver, SimPoints, DriverPoints, ExitPoints, mode, driverVars, simVars
<1>32. ASSUME NEW p \in Procs, IpcExitDone(p) PROVE Points'
    <2> USE DEF Points, Procs, SimPoints, DriverPoints
    <2>1. CASE p = "sim"  BY <1>32, <2>1 DEF IpcExitDone, Goto
    <2>2. CASE p \in Driver  BY <1>32, <2>2, ExitLeadsTo DEF AllGone, Driver
    <2> QED  BY <2>1, <2>2 DEF Driver
<1>33. ASSUME NEW p \in Driver, DriverAborts(p) PROVE Points'
    BY <1>33 DEF DriverAborts, Goto, Signal, Points, Procs, Driver, SimPoints, DriverPoints, ExitPoints,
        mode, driverVars, simVars
<1>34. ASSUME NEW p \in Driver, DriverWaits(p) PROVE Points'
    BY <1>34 DEF DriverWaits, AllGone, Points, Procs, Driver, SimPoints, DriverPoints, ExitPoints, mode,
        driverVars, simVars
<1>35. CASE ChildEnds
    BY <1>35 DEF ChildEnds, SimGone, DriverGone, AllGone, CallsExit, Goto, Points, Procs, Driver, SimPoints,
        DriverPoints, ExitPoints, mode, driverVars, simVars
<1>36. CASE UNCHANGED vars
    BY <1>36 DEF vars, Points, Procs, Driver, SimPoints, DriverPoints, ExitPoints, mode, driverVars, simVars
<1> QED
    BY <1>1, <1>2, <1>3, <1>4, <1>5, <1>6, <1>7, <1>8, <1>9, <1>10, <1>11, <1>12, <1>13, <1>14, <1>15,
        <1>16, <1>17, <1>18, <1>19, <1>20, <1>21, <1>22, <1>23, <1>24, <1>25, <1>26, <1>27, <1>28, <1>29,
        <1>30, <1>31, <1>32, <1>33, <1>34, <1>35, <1>36
    DEF Next, Sim, Main, Ipc, IpcExit, Handlers, Procs, Driver

\* Every step keeps the payloads.
LEMMA KeepsPayloads ==
    ASSUME Payloads, Locals, [Next]_vars
    PROVE  Payloads'
<1>1. CASE Boot
    BY <1>1 DEF Boot, Goto, Payloads, Locals, mode, driverVars, simVars
<1>2. CASE CallNext
    BY <1>2 DEF CallNext, Goto, Payloads, Locals, mode, driverVars, simVars
<1>3. CASE CallAccess
    BY <1>3 DEF CallAccess, Goto, Payloads, Locals, mode, driverVars, simVars
<1>4. CASE CallExit
    BY <1>4 DEF CallExit, Goto, Payloads, Locals, mode, driverVars, simVars
<1>5. CASE KernelDone
    BY <1>5 DEF KernelDone, Goto, Payloads, Locals, mode, driverVars, simVars
<1>6. CASE SimStop
    BY <1>6 DEF SimStop, Goto, Payloads, Locals, mode, driverVars, simVars
<1>7. CASE Reserve
    BY <1>7 DEF Reserve, Goto, Payloads, Locals, mode, driverVars, simVars
<1>8. CASE Fill
    BY <1>8 DEF Fill, StateChange, Payloads, Locals, Operations, States, Accesses
<1>9. CASE Request
    BY <1>9 DEF Request, Goto, Asserted, StoreAndNotify, NotifyFails, DriverGone, Payloads, Locals, mode,
        driverVars, simVars
<1>10. CASE AwaitResponse
    BY <1>10 DEF AwaitResponse, Goto, Payloads, Locals, mode, driverVars, simVars
<1>11. CASE Answer
    BY <1>11 DEF Answer, Goto, Refused, Payloads, Locals, mode, driverVars, simVars
<1>12. CASE Release
    BY <1>12 DEF Release, Goto, StoreAndNotify, NotifyFails, DriverGone, AfterCall, Payloads, Locals, mode,
        driverVars, simVars
<1>13. CASE Fini
    BY <1>13 DEF Fini, Goto, Asserted, Payloads, Locals, mode, driverVars, simVars
<1>14. CASE SimAborts
    BY <1>14 DEF SimAborts, Goto, Payloads, Locals, mode, driverVars, simVars
<1>15. CASE Sync
    BY <1>15 DEF Sync, Goto, Payloads, Locals, mode, driverVars, simVars
<1>16. CASE CallKernel
    BY <1>16 DEF CallKernel, Goto, Payloads, Locals, mode, driverVars, simVars
<1>17. CASE SimStart
    BY <1>17, SetupTyped DEF SimStart, Signal, simVars, Payloads
<1>18. CASE SetupResponse
    BY <1>18 DEF SetupResponse, Goto, Asserted, StoreAndNotify, NotifyFails, SimGone, Signal, Payloads,
        Locals, mode, driverVars, simVars
<1>19. CASE LaunchIpc
    BY <1>19 DEF LaunchIpc, Goto, CallsExit, Payloads, Locals, mode, driverVars, simVars
<1>20. CASE GoldenDone
    BY <1>20 DEF GoldenDone, Goto, Payloads, Locals, mode, driverVars, simVars
<1>21. CASE SimEnd
    BY <1>21 DEF SimEnd, Goto, Asserted, Payloads, Locals, mode, driverVars, simVars
<1>22. CASE ProgramEnds
    BY <1>22 DEF ProgramEnds, Goto, CallsExit, Payloads, Locals, mode, driverVars, simVars
<1>23. CASE ProgramExits
    BY <1>23 DEF ProgramExits, Goto, CallsExit, Signal, Payloads, Locals, mode, driverVars, simVars
<1>24. CASE Loop
    BY <1>24 DEF Loop, Goto, CallsExit, Signal, Payloads, Locals, mode, driverVars, simVars
<1>25. CASE Serve
    <2>1. CASE op.type \in Accesses
        <3>1. op \in [type : Accesses, id : Ids \cup {"EMPTY", "OUT_OF_BOUNDS"}, info : Nat]
            BY <2>1 DEF Payloads, Operations, Accesses
        <3>2. op' \in [type : Accesses, id : Ids \cup {"EMPTY", "OUT_OF_BOUNDS"}, info : Nat]
            BY <1>25, <2>1, <3>1 DEF Serve, Locals, Accesses
        <3> QED  BY <1>25, <3>2 DEF Serve, Payloads, Operations, simVars
    <2>2. CASE op.type \notin Accesses
        <3>1. op' \in {op, StateChange("UNDEFINED")}  BY <1>25, <2>2 DEF Serve
        <3> QED  BY <1>25, <3>1 DEF Serve, Payloads, Operations, StateChange, States, simVars
    <2> QED  BY <2>1, <2>2
<1>26. CASE Response
    BY <1>26 DEF Response, Goto, Asserted, StoreAndNotify, NotifyFails, SimGone, Signal, Payloads, Locals,
        mode, driverVars, simVars
<1>27. ASSUME NEW p \in Procs, IpcExitCheck(p) PROVE Payloads'
    BY <1>27 DEF IpcExitCheck, Goto, Payloads, Locals, mode, driverVars, simVars
<1>28. ASSUME NEW p \in Procs, IpcExitLoad(p) PROVE Payloads'
    BY <1>28 DEF IpcExitLoad, Goto, Payloads, Locals, mode, driverVars, simVars
<1>29. ASSUME NEW p \in Procs, IpcExitCas(p) PROVE Payloads'
    BY <1>29 DEF IpcExitCas, Goto, Payloads, Locals, mode, driverVars, simVars
<1>30. ASSUME NEW p \in Procs, IpcExitWrite(p) PROVE Payloads'
    BY <1>30 DEF IpcExitWrite, StateChange, Payloads, Operations, States, simVars
<1>31. ASSUME NEW p \in Procs, IpcExitStore(p) PROVE Payloads'
    BY <1>31 DEF IpcExitStore, Goto, StoreAndNotify, NotifyFails, SimGone, DriverGone, Signal, Payloads,
        Locals, mode, driverVars, simVars
<1>32. ASSUME NEW p \in Procs, IpcExitDone(p) PROVE Payloads'
    BY <1>32 DEF IpcExitDone, Goto, AllGone, SimGone, Payloads, Locals, mode, driverVars, simVars
<1>33. ASSUME NEW p \in Driver, DriverAborts(p) PROVE Payloads'
    BY <1>33 DEF DriverAborts, Goto, Signal, Payloads, Locals, mode, driverVars, simVars
<1>34. ASSUME NEW p \in Driver, DriverWaits(p) PROVE Payloads'
    BY <1>34 DEF DriverWaits, AllGone, Payloads, Locals, mode, driverVars, simVars
<1>35. CASE ChildEnds
    BY <1>35 DEF ChildEnds, SimGone, DriverGone, AllGone, CallsExit, Goto, Payloads, Locals, mode,
        driverVars, simVars
<1>36. CASE UNCHANGED vars
    BY <1>36 DEF vars, Payloads, Locals, mode, driverVars, simVars
<1> QED
    BY <1>1, <1>2, <1>3, <1>4, <1>5, <1>6, <1>7, <1>8, <1>9, <1>10, <1>11, <1>12, <1>13, <1>14, <1>15,
        <1>16, <1>17, <1>18, <1>19, <1>20, <1>21, <1>22, <1>23, <1>24, <1>25, <1>26, <1>27, <1>28, <1>29,
        <1>30, <1>31, <1>32, <1>33, <1>34, <1>35, <1>36
    DEF Next, Sim, Main, Ipc, IpcExit, Handlers, Procs, Driver

\* Every step keeps the rest.
LEMMA KeepsLocals ==
    ASSUME Locals, Payloads, [Next]_vars
    PROVE  Locals'
<1>1. CASE Boot
    BY <1>1 DEF Boot, Goto, Locals, Handles, Reasons, Procs, Driver, mode,
        driverVars, simVars
<1>2. CASE CallNext
    BY <1>2 DEF CallNext, Goto, Locals, Handles, Reasons, Procs, Driver, mode,
        driverVars, simVars
<1>3. CASE CallAccess
    BY <1>3 DEF CallAccess, Goto, Locals, Handles, Reasons, Procs, Driver, mode,
        driverVars, simVars
<1>4. CASE CallExit
    BY <1>4 DEF CallExit, Goto, Locals, Handles, Reasons, Procs, Driver, mode,
        driverVars, simVars
<1>5. CASE KernelDone
    BY <1>5 DEF KernelDone, Goto, Locals, Handles, Reasons, Procs, Driver, mode,
        driverVars, simVars
<1>6. CASE SimStop
    BY <1>6 DEF SimStop, Goto, Locals, Handles, Reasons, Procs, Driver, mode,
        driverVars, simVars
<1>7. CASE Reserve
    BY <1>7 DEF Reserve, Goto, Locals, Handles, Reasons, Procs, Driver, mode,
        driverVars, simVars
<1>8. CASE Fill
    BY <1>8 DEF Fill, Goto, StateChange, Locals, Handles, Reasons, Procs, Driver, mode,
        driverVars, simVars
<1>9. CASE Request
    BY <1>9 DEF Request, Goto, Asserted, StoreAndNotify, NotifyFails, DriverGone, Locals, Handles, Reasons,
        Procs, Driver, mode, driverVars, simVars
<1>10. CASE AwaitResponse
    BY <1>10 DEF AwaitResponse, Goto, Locals, Handles, Reasons, Procs, Driver, mode,
        driverVars, simVars
<1>11. CASE Answer
    BY <1>11 DEF Answer, Goto, Refused, Locals, Handles, Reasons, Procs, Driver, mode,
        driverVars, simVars
<1>12. CASE Release
    BY <1>12 DEF Release, Goto, StoreAndNotify, NotifyFails, DriverGone, AfterCall, Locals, Handles,
        Reasons, Procs, Driver, mode, driverVars, simVars
<1>13. CASE Fini
    BY <1>13 DEF Fini, Goto, Asserted, Locals, Handles, Reasons, Procs, Driver, mode,
        driverVars, simVars
<1>14. CASE SimAborts
    BY <1>14 DEF SimAborts, Goto, Locals, Handles, Reasons, Procs, Driver, mode,
        driverVars, simVars
<1>15. CASE Sync
    BY <1>15 DEF Sync, Goto, Locals, Handles, Reasons, Procs, Driver, mode,
        driverVars, simVars
<1>16. CASE CallKernel
    BY <1>16, MdpiAssumption DEF CallKernel, Locals, driverVars, simVars
<1>17. CASE SimStart
    BY <1>17 DEF SimStart, Goto, Asserted, Signal, StateChange, Locals, Handles, Reasons, Procs, Driver,
        mode, driverVars, simVars
<1>18. CASE SetupResponse
    BY <1>18 DEF SetupResponse, Goto, Asserted, StoreAndNotify, NotifyFails, SimGone, Signal, Locals,
        Handles, Reasons, Procs, Driver, mode, driverVars, simVars
<1>19. CASE LaunchIpc
    BY <1>19 DEF LaunchIpc, Goto, CallsExit, Locals, Handles, Reasons, Procs, Driver, mode,
        driverVars, simVars
<1>20. CASE GoldenDone
    BY <1>20 DEF GoldenDone, Goto, Locals, Handles, Reasons, Procs, Driver, mode,
        driverVars, simVars
<1>21. CASE SimEnd
    BY <1>21 DEF SimEnd, Goto, Asserted, Locals, Handles, Reasons, Procs, Driver, mode,
        driverVars, simVars
<1>22. CASE ProgramEnds
    BY <1>22 DEF ProgramEnds, Goto, CallsExit, Locals, Handles, Reasons, Procs, Driver, mode, driverVars,
        simVars
<1>23. CASE ProgramExits
    BY <1>23 DEF ProgramExits, Goto, CallsExit, Signal, Locals, Handles, Reasons, Procs, Driver, mode,
        driverVars, simVars
<1>24. CASE Loop
    BY <1>24 DEF Loop, Goto, CallsExit, Signal, Locals, Handles, Reasons, Procs, Driver, mode,
        driverVars, simVars
<1>25. CASE Serve
    BY <1>25 DEF Serve, Goto, Signal, StateChange, Locals, Handles, Reasons, Procs, Driver, mode,
        driverVars, simVars
<1>26. CASE Response
    BY <1>26 DEF Response, Goto, Asserted, StoreAndNotify, NotifyFails, SimGone, Signal, Locals, Handles,
        Reasons, Procs, Driver, mode, driverVars, simVars
<1>27. ASSUME NEW p \in Procs, IpcExitCheck(p) PROVE Locals'
    BY <1>27 DEF IpcExitCheck, Goto, Locals, Handles, Reasons, Procs, Driver, mode,
        driverVars, simVars
<1>28. ASSUME NEW p \in Procs, IpcExitLoad(p) PROVE Locals'
    BY <1>28 DEF IpcExitLoad, Goto, Locals, Handles, Reasons, Procs, Driver, mode,
        driverVars, simVars
<1>29. ASSUME NEW p \in Procs, IpcExitCas(p) PROVE Locals'
    BY <1>29 DEF IpcExitCas, Goto, Locals, Handles, Reasons, Procs, Driver, mode,
        driverVars, simVars
<1>30. ASSUME NEW p \in Procs, IpcExitWrite(p) PROVE Locals'
    BY <1>30 DEF IpcExitWrite, Goto, StateChange, Locals, Handles, Reasons, Procs, Driver, mode, driverVars,
        simVars
<1>31. ASSUME NEW p \in Procs, IpcExitStore(p) PROVE Locals'
    BY <1>31 DEF IpcExitStore, Goto, StoreAndNotify, NotifyFails, SimGone, DriverGone, Signal, Locals,
        Handles, Reasons, Procs, Driver, mode, driverVars, simVars
<1>32. ASSUME NEW p \in Procs, IpcExitDone(p) PROVE Locals'
    BY <1>32 DEF IpcExitDone, Goto, AllGone, SimGone, Locals, Handles, Reasons, Procs, Driver, mode,
        driverVars, simVars
<1>33. ASSUME NEW p \in Driver, DriverAborts(p) PROVE Locals'
    BY <1>33 DEF DriverAborts, Goto, Signal, Locals, Handles, Reasons, Procs, Driver, mode, driverVars,
        simVars
<1>34. ASSUME NEW p \in Driver, DriverWaits(p) PROVE Locals'
    BY <1>34 DEF DriverWaits, AllGone, Locals, Handles, Reasons, Procs, Driver, mode,
        driverVars, simVars
<1>35. CASE ChildEnds
    BY <1>35 DEF ChildEnds, SimGone, DriverGone, AllGone, CallsExit, Goto, Locals, Handles, Reasons, Procs,
        Driver, mode, driverVars, simVars
<1>36. CASE UNCHANGED vars
    BY <1>36 DEF vars, Locals, Handles, Reasons, Procs, Driver, mode,
        driverVars, simVars
<1> QED
    BY <1>1, <1>2, <1>3, <1>4, <1>5, <1>6, <1>7, <1>8, <1>9, <1>10, <1>11, <1>12, <1>13, <1>14, <1>15,
        <1>16, <1>17, <1>18, <1>19, <1>20, <1>21, <1>22, <1>23, <1>24, <1>25, <1>26, <1>27, <1>28, <1>29,
        <1>30, <1>31, <1>32, <1>33, <1>34, <1>35, <1>36
    DEF Next, Sim, Main, Ipc, IpcExit, Handlers, Procs, Driver

\* Every step keeps the type of the operation that m_next waits for.
LEMMA KeepsNextGetsState ==
    ASSUME TypeOK, NextGetsState, [Next]_vars
    PROVE  NextGetsState'
<1> USE DEF NextGetsState, TypeOK, Points, Procs, Driver
<1>1. CASE Boot
    BY <1>1 DEF Boot, Goto, StateChange, mode, driverVars, simVars
<1>2. CASE CallNext
    BY <1>2 DEF CallNext, Goto, StateChange, mode, driverVars, simVars
<1>3. CASE CallAccess
    BY <1>3 DEF CallAccess, Goto, StateChange, mode, driverVars, simVars
<1>4. CASE CallExit
    BY <1>4 DEF CallExit, Goto, StateChange, mode, driverVars, simVars
<1>5. CASE KernelDone
    BY <1>5 DEF KernelDone, Goto, StateChange, mode, driverVars, simVars
<1>6. CASE SimStop
    BY <1>6 DEF SimStop, Goto, StateChange, mode, driverVars, simVars
<1>7. CASE Reserve
    BY <1>7 DEF Reserve, Goto, StateChange, mode, driverVars, simVars
<1>8. CASE Fill
    BY <1>8 DEF Fill, Goto, StateChange, mode, driverVars, simVars
<1>9. CASE Request
    BY <1>9 DEF Request, Goto, Asserted, StoreAndNotify, NotifyFails, DriverGone, StateChange, mode,
        driverVars, simVars
<1>10. CASE AwaitResponse
    BY <1>10 DEF AwaitResponse, Goto, StateChange, mode, driverVars, simVars
<1>11. CASE Answer
    BY <1>11 DEF Answer, Goto, Refused, StateChange, mode, driverVars, simVars
<1>12. CASE Release
    BY <1>12, ReleasedTo DEF Release, Goto, StoreAndNotify, NotifyFails, DriverGone, mode, driverVars, simVars
<1>13. CASE Fini
    BY <1>13 DEF Fini, Goto, Asserted, StateChange, mode, driverVars, simVars
<1>14. CASE SimAborts
    BY <1>14 DEF SimAborts, Goto, StateChange, mode, driverVars, simVars
<1>15. CASE Sync
    BY <1>15 DEF Sync, Goto, StateChange, mode, driverVars, simVars
<1>16. CASE CallKernel
    BY <1>16 DEF CallKernel, Goto, StateChange, mode, driverVars, simVars
<1>17. CASE SimStart
    BY <1>17, SetupWritten DEF SimStart, Goto, Signal, StateChange, Payloads, mode, driverVars, simVars
<1>18. CASE SetupResponse
    BY <1>18 DEF SetupResponse, Goto, Asserted, StoreAndNotify, NotifyFails, SimGone, Signal, StateChange,
        mode, driverVars, simVars
<1>19. CASE LaunchIpc
    BY <1>19 DEF LaunchIpc, Goto, CallsExit, StateChange, mode, driverVars, simVars
<1>20. CASE GoldenDone
    BY <1>20 DEF GoldenDone, Goto, StateChange, mode, driverVars, simVars
<1>21. CASE SimEnd
    BY <1>21 DEF SimEnd, Goto, Asserted, StateChange, mode, driverVars, simVars
<1>22. CASE ProgramEnds
    BY <1>22 DEF ProgramEnds, Goto, CallsExit, StateChange, mode, driverVars, simVars
<1>23. CASE ProgramExits
    BY <1>23 DEF ProgramExits, Goto, CallsExit, Signal, StateChange, mode, driverVars, simVars
<1>24. CASE Loop
    BY <1>24 DEF Loop, Goto, CallsExit, Signal, StateChange, mode, driverVars, simVars
<1>25. CASE Serve
    <2>1. CASE op.type \in Accesses
        <3>1. op'.type = op.type  BY <1>25, <2>1, AnswerWritten DEF Serve
        <3> QED  BY <1>25, <2>1, <3>1 DEF Serve, Goto, Signal, Accesses, simVars
    <2>2. CASE op.type \notin Accesses
        <3>1. op' \in {op, StateChange("UNDEFINED")}  BY <1>25, <2>2 DEF Serve
        <3> QED  BY <1>25, <3>1 DEF Serve, Goto, Signal, StateChange, simVars
    <2> QED  BY <2>1, <2>2
<1>26. CASE Response
    BY <1>26 DEF Response, Goto, Asserted, StoreAndNotify, NotifyFails, SimGone, Signal, StateChange, mode,
        driverVars, simVars
<1>27. ASSUME NEW p \in Procs, IpcExitCheck(p) PROVE NextGetsState'
    BY <1>27 DEF IpcExitCheck, Goto, StateChange, mode, driverVars, simVars
<1>28. ASSUME NEW p \in Procs, IpcExitLoad(p) PROVE NextGetsState'
    BY <1>28 DEF IpcExitLoad, Goto, StateChange, mode, driverVars, simVars
<1>29. ASSUME NEW p \in Procs, IpcExitCas(p) PROVE NextGetsState'
    BY <1>29 DEF IpcExitCas, Goto, StateChange, mode, driverVars, simVars
<1>30. ASSUME NEW p \in Procs, IpcExitWrite(p) PROVE NextGetsState'
    BY <1>30 DEF IpcExitWrite, Goto, StateChange, mode, driverVars, simVars
<1>31. ASSUME NEW p \in Procs, IpcExitStore(p) PROVE NextGetsState'
    BY <1>31 DEF IpcExitStore, Goto, StoreAndNotify, NotifyFails, SimGone, DriverGone, Signal, StateChange,
        mode, driverVars, simVars
<1>32. ASSUME NEW p \in Procs, IpcExitDone(p) PROVE NextGetsState'
    BY <1>32 DEF IpcExitDone, Goto, AllGone, SimGone, StateChange, mode, driverVars, simVars
<1>33. ASSUME NEW p \in Driver, DriverAborts(p) PROVE NextGetsState'
    BY <1>33 DEF DriverAborts, Goto, Signal, StateChange, mode, driverVars, simVars
<1>34. ASSUME NEW p \in Driver, DriverWaits(p) PROVE NextGetsState'
    BY <1>34 DEF DriverWaits, AllGone, StateChange, mode, driverVars, simVars
<1>35. CASE ChildEnds
    BY <1>35 DEF ChildEnds, SimGone, DriverGone, AllGone, CallsExit, Goto, StateChange, mode, driverVars,
        simVars
<1>36. CASE UNCHANGED vars
    BY <1>36 DEF vars, StateChange, mode, driverVars, simVars
<1> QED
    BY <1>1, <1>2, <1>3, <1>4, <1>5, <1>6, <1>7, <1>8, <1>9, <1>10, <1>11, <1>12, <1>13, <1>14, <1>15,
        <1>16, <1>17, <1>18, <1>19, <1>20, <1>21, <1>22, <1>23, <1>24, <1>25, <1>26, <1>27, <1>28, <1>29,
        <1>30, <1>31, <1>32, <1>33, <1>34, <1>35, <1>36
    DEF Next, Sim, Main, Ipc, IpcExit, Handlers, Procs, Driver

------------------------------------------------------------------------------
(* The turns *)

\* No step fails an assertion.
LEMMA KeepsLegal ==
    ASSUME TypeOK, NextGetsState, Turns, ~Disturbed', [Next]_vars
    PROVE  Legal'
<1> USE DEF Turns, Legal, NoIllegalOperation, SimTurn, DriverTurn, SimReads, SimEnded, KernelsCounted,
    AccessesCounted, Halted, Disturbed, Leaving, MainAt, BeforeCalls, DuringCall, Question, Told, Served,
    Final, IpcExits, Asked, Taken, DriverOver, Replied, FreePoints, LockedPoints, StateChange, TypeOK,
    Flags, Points, Payloads, Locals, Procs, Driver, SimPoints, DriverPoints, ExitPoints, Accesses
<1>1. CASE Boot
    BY <1>1 DEF Boot, Goto, mode, driverVars, simVars
<1>2. CASE CallNext
    BY <1>2 DEF CallNext, Goto, mode, driverVars, simVars
<1>3. CASE CallAccess
    BY <1>3 DEF CallAccess, Goto, mode, driverVars, simVars
<1>4. CASE CallExit
    BY <1>4 DEF CallExit, Goto, mode, driverVars, simVars
<1>5. CASE KernelDone
    BY <1>5 DEF KernelDone, Goto, mode, driverVars, simVars
<1>6. CASE SimStop
    BY <1>6 DEF SimStop, Goto, mode, driverVars, simVars
<1>7. CASE Reserve
    BY <1>7 DEF Reserve, Goto, mode, driverVars, simVars
<1>8. CASE Fill
    BY <1>8 DEF Fill, Goto, StateChange, mode, driverVars, simVars
<1>9. CASE Request
    BY <1>9 DEF Request, Goto, Asserted, StoreAndNotify, NotifyFails, DriverGone, mode, driverVars, simVars
<1>10. CASE AwaitResponse
    BY <1>10 DEF AwaitResponse, Goto, mode, driverVars, simVars
<1>11. CASE Answer
    BY <1>11 DEF Answer, Goto, Refused, mode, driverVars, simVars
<1>12. CASE Release
    BY <1>12 DEF Release, Goto, StoreAndNotify, NotifyFails, DriverGone, AfterCall, mode, driverVars, simVars
<1>13. CASE Fini
    BY <1>13 DEF Fini, Goto, Asserted, mode, driverVars, simVars
<1>14. CASE SimAborts
    BY <1>14 DEF SimAborts, Goto, mode, driverVars, simVars
<1>15. CASE Sync
    BY <1>15 DEF Sync, Goto, mode, driverVars, simVars
<1>16. CASE CallKernel
    BY <1>16 DEF CallKernel, Goto, mode, driverVars, simVars
<1>17. CASE SimStart
    BY <1>17 DEF SimStart, Goto, Asserted, Signal, StateChange, mode, driverVars, simVars
<1>18. CASE SetupResponse
    BY <1>18 DEF SetupResponse, Goto, Asserted, StoreAndNotify, NotifyFails, SimGone, Signal, mode,
        driverVars, simVars
<1>19. CASE LaunchIpc
    BY <1>19 DEF LaunchIpc, Goto, CallsExit, mode, driverVars, simVars
<1>20. CASE GoldenDone
    BY <1>20 DEF GoldenDone, Goto, mode, driverVars, simVars
<1>21. CASE SimEnd
    BY <1>21 DEF SimEnd, Goto, Asserted, mode, driverVars, simVars
<1>22. CASE ProgramEnds
    BY <1>22 DEF ProgramEnds, Goto, CallsExit, mode, driverVars, simVars
<1>23. CASE ProgramExits
    BY <1>23 DEF ProgramExits, Goto, CallsExit, Signal, mode, driverVars, simVars
<1>24. CASE Loop
    BY <1>24 DEF Loop, Goto, CallsExit, Signal, mode, driverVars, simVars
<1>25. CASE Serve
    BY <1>25 DEF Serve, Goto, Signal, StateChange, mode, driverVars, simVars
<1>26. CASE Response
    BY <1>26 DEF Response, Goto, Asserted, StoreAndNotify, NotifyFails, SimGone, Signal, mode, driverVars,
        simVars
<1>27. ASSUME NEW p \in Procs, IpcExitCheck(p) PROVE Legal'
    BY <1>27 DEF IpcExitCheck, Goto, mode, driverVars, simVars
<1>28. ASSUME NEW p \in Procs, IpcExitLoad(p) PROVE Legal'
    BY <1>28 DEF IpcExitLoad, Goto, mode, driverVars, simVars
<1>29. ASSUME NEW p \in Procs, IpcExitCas(p) PROVE Legal'
    BY <1>29 DEF IpcExitCas, Goto, mode, driverVars, simVars
<1>30. ASSUME NEW p \in Procs, IpcExitWrite(p) PROVE Legal'
    BY <1>30 DEF IpcExitWrite, Goto, StateChange, mode, driverVars, simVars
<1>31. ASSUME NEW p \in Procs, IpcExitStore(p) PROVE Legal'
    BY <1>31 DEF IpcExitStore, Goto, StoreAndNotify, NotifyFails, SimGone, DriverGone, Signal, mode,
        driverVars, simVars
<1>32. ASSUME NEW p \in Procs, IpcExitDone(p) PROVE Legal'
    <2>1. CASE p = "sim"  BY <1>32, <2>1 DEF IpcExitDone, Goto, mode, driverVars, simVars
    <2>2. UNCHANGED <<handle, op, expected, why, exited, kernels, performed, mode, simVars>>
          /\ (simPid' => simPid) /\ pc[p] = "exit_done"
        BY <1>32 DEF IpcExitDone
    <2>3. CASE p = "main"
        BY <1>32, <2>2, <2>3, ExitLeadsTo DEF AllGone, SimGone, mode, simVars
    <2>4. CASE p = "ipc"
        BY <1>32, <2>2, <2>4, ExitLeadsTo DEF AllGone, SimGone, mode, simVars
    <2> QED  BY <2>1, <2>3, <2>4
<1>33. ASSUME NEW p \in Driver, DriverAborts(p) PROVE Legal'
    BY <1>33 DEF DriverAborts, Goto, Signal, mode, driverVars, simVars
<1>34. ASSUME NEW p \in Driver, DriverWaits(p) PROVE Legal'
    BY <1>34 DEF DriverWaits, AllGone, mode, driverVars, simVars
<1>35. CASE ChildEnds
    BY <1>35 DEF ChildEnds, SimGone, DriverGone, AllGone, CallsExit, Goto, mode, driverVars, simVars
<1>36. CASE UNCHANGED vars
    BY <1>36 DEF vars, mode, driverVars, simVars
<1> QED
    BY <1>1, <1>2, <1>3, <1>4, <1>5, <1>6, <1>7, <1>8, <1>9, <1>10, <1>11, <1>12, <1>13, <1>14, <1>15,
        <1>16, <1>17, <1>18, <1>19, <1>20, <1>21, <1>22, <1>23, <1>24, <1>25, <1>26, <1>27, <1>28, <1>29,
        <1>30, <1>31, <1>32, <1>33, <1>34, <1>35, <1>36
    DEF Next, Sim, Main, Ipc, IpcExit, Handlers, Procs, Driver

\* While the simulator has its turn, no other step takes the handle from it.
LEMMA KeepsSimTurn ==
    ASSUME TypeOK, NextGetsState, Turns, ~Disturbed', [Next]_vars
    PROVE  SimTurn'
<1> USE DEF Turns, Legal, NoIllegalOperation, SimTurn, DriverTurn, SimReads, SimEnded, KernelsCounted,
    AccessesCounted, Halted, Disturbed, Leaving, MainAt, BeforeCalls, DuringCall, Question, Told, Served,
    Final, IpcExits, Asked, Taken, DriverOver, Replied, FreePoints, LockedPoints, StateChange, TypeOK,
    Flags, Points, Payloads, Locals, Procs, Driver, SimPoints, DriverPoints, ExitPoints, Accesses
<1>1. CASE Boot
    BY <1>1 DEF Boot, Goto, mode, driverVars, simVars
<1>2. CASE CallNext
    BY <1>2 DEF CallNext, Goto, mode, driverVars, simVars
<1>3. CASE CallAccess
    BY <1>3 DEF CallAccess, Goto, mode, driverVars, simVars
<1>4. CASE CallExit
    BY <1>4 DEF CallExit, Goto, mode, driverVars, simVars
<1>5. CASE KernelDone
    BY <1>5 DEF KernelDone, Goto, mode, driverVars, simVars
<1>6. CASE SimStop
    BY <1>6 DEF SimStop, Goto, mode, driverVars, simVars
<1>7. CASE Reserve
    BY <1>7 DEF Reserve, Goto, mode, driverVars, simVars
<1>8. CASE Fill
    BY <1>8 DEF Fill, Goto, StateChange, mode, driverVars, simVars
<1>9. CASE Request
    BY <1>9 DEF Request, Goto, Asserted, StoreAndNotify, NotifyFails, DriverGone, mode, driverVars, simVars
<1>10. CASE AwaitResponse
    BY <1>10 DEF AwaitResponse, Goto, mode, driverVars, simVars
<1>11. CASE Answer
    BY <1>11 DEF Answer, Goto, Refused, mode, driverVars, simVars
<1>12. CASE Release
    BY <1>12 DEF Release, Goto, StoreAndNotify, NotifyFails, DriverGone, AfterCall, mode, driverVars, simVars
<1>13. CASE Fini
    BY <1>13 DEF Fini, Goto, Asserted, mode, driverVars, simVars
<1>14. CASE SimAborts
    BY <1>14 DEF SimAborts, Goto, mode, driverVars, simVars
<1>15. CASE Sync
    BY <1>15 DEF Sync, Goto, mode, driverVars, simVars
<1>16. CASE CallKernel
    BY <1>16 DEF CallKernel, Goto, mode, driverVars, simVars
<1>17. CASE SimStart
    BY <1>17 DEF SimStart, Goto, Asserted, Signal, StateChange, mode, driverVars, simVars
<1>18. CASE SetupResponse
    BY <1>18 DEF SetupResponse, Goto, Asserted, StoreAndNotify, NotifyFails, SimGone, Signal, mode,
        driverVars, simVars
<1>19. CASE LaunchIpc
    BY <1>19 DEF LaunchIpc, Goto, CallsExit, mode, driverVars, simVars
<1>20. CASE GoldenDone
    BY <1>20 DEF GoldenDone, Goto, mode, driverVars, simVars
<1>21. CASE SimEnd
    BY <1>21 DEF SimEnd, Goto, Asserted, mode, driverVars, simVars
<1>22. CASE ProgramEnds
    BY <1>22 DEF ProgramEnds, Goto, CallsExit, mode, driverVars, simVars
<1>23. CASE ProgramExits
    BY <1>23 DEF ProgramExits, Goto, CallsExit, Signal, mode, driverVars, simVars
<1>24. CASE Loop
    BY <1>24 DEF Loop, Goto, CallsExit, Signal, mode, driverVars, simVars
<1>25. CASE Serve
    BY <1>25 DEF Serve, Goto, Signal, StateChange, mode, driverVars, simVars
<1>26. CASE Response
    BY <1>26 DEF Response, Goto, Asserted, StoreAndNotify, NotifyFails, SimGone, Signal, mode, driverVars,
        simVars
<1>27. ASSUME NEW p \in Procs, IpcExitCheck(p) PROVE SimTurn'
    BY <1>27 DEF IpcExitCheck, Goto, mode, driverVars, simVars
<1>28. ASSUME NEW p \in Procs, IpcExitLoad(p) PROVE SimTurn'
    BY <1>28 DEF IpcExitLoad, Goto, mode, driverVars, simVars
<1>29. ASSUME NEW p \in Procs, IpcExitCas(p) PROVE SimTurn'
    BY <1>29 DEF IpcExitCas, Goto, mode, driverVars, simVars
<1>30. ASSUME NEW p \in Procs, IpcExitWrite(p) PROVE SimTurn'
    BY <1>30 DEF IpcExitWrite, Goto, StateChange, mode, driverVars, simVars
<1>31. ASSUME NEW p \in Procs, IpcExitStore(p) PROVE SimTurn'
    BY <1>31 DEF IpcExitStore, Goto, StoreAndNotify, NotifyFails, SimGone, DriverGone, Signal, mode,
        driverVars, simVars
<1>32. ASSUME NEW p \in Procs, IpcExitDone(p) PROVE SimTurn'
    BY <1>32 DEF IpcExitDone, Goto, AllGone, SimGone, mode, driverVars, simVars
<1>33. ASSUME NEW p \in Driver, DriverAborts(p) PROVE SimTurn'
    BY <1>33 DEF DriverAborts, Goto, Signal, mode, driverVars, simVars
<1>34. ASSUME NEW p \in Driver, DriverWaits(p) PROVE SimTurn'
    BY <1>34 DEF DriverWaits, AllGone, mode, driverVars, simVars
<1>35. CASE ChildEnds
    BY <1>35 DEF ChildEnds, SimGone, DriverGone, AllGone, CallsExit, Goto, mode, driverVars, simVars
<1>36. CASE UNCHANGED vars
    BY <1>36 DEF vars, mode, driverVars, simVars
<1> QED
    BY <1>1, <1>2, <1>3, <1>4, <1>5, <1>6, <1>7, <1>8, <1>9, <1>10, <1>11, <1>12, <1>13, <1>14, <1>15,
        <1>16, <1>17, <1>18, <1>19, <1>20, <1>21, <1>22, <1>23, <1>24, <1>25, <1>26, <1>27, <1>28, <1>29,
        <1>30, <1>31, <1>32, <1>33, <1>34, <1>35, <1>36
    DEF Next, Sim, Main, Ipc, IpcExit, Handlers, Procs, Driver

\* While the simulator waits, the driver moves from one answer to the next in turn.
LEMMA KeepsDriverTurn ==
    ASSUME TypeOK, NextGetsState, Turns, ~Disturbed', [Next]_vars
    PROVE  DriverTurn'
<1> USE DEF Turns, Legal, NoIllegalOperation, SimTurn, DriverTurn, SimReads, SimEnded, KernelsCounted,
    AccessesCounted, Halted, Disturbed, Leaving, MainAt, BeforeCalls, DuringCall, Question, Told, Served,
    Final, IpcExits, Asked, Taken, DriverOver, Replied, FreePoints, LockedPoints, StateChange, TypeOK,
    Flags, Points, Payloads, Locals, Procs, Driver, SimPoints, DriverPoints, ExitPoints, Accesses
<1>1. CASE Boot
    BY <1>1 DEF Boot, Goto, mode, driverVars, simVars
<1>2. CASE CallNext
    BY <1>2 DEF CallNext, Goto, mode, driverVars, simVars
<1>3. CASE CallAccess
    BY <1>3 DEF CallAccess, Goto, mode, driverVars, simVars
<1>4. CASE CallExit
    BY <1>4 DEF CallExit, Goto, mode, driverVars, simVars
<1>5. CASE KernelDone
    BY <1>5 DEF KernelDone, Goto, mode, driverVars, simVars
<1>6. CASE SimStop
    BY <1>6 DEF SimStop, Goto, mode, driverVars, simVars
<1>7. CASE Reserve
    BY <1>7 DEF Reserve, Goto, mode, driverVars, simVars
<1>8. CASE Fill
    BY <1>8 DEF Fill, Goto, StateChange, mode, driverVars, simVars
<1>9. CASE Request
    BY <1>9 DEF Request, Goto, Asserted, StoreAndNotify, NotifyFails, DriverGone, mode, driverVars, simVars
<1>10. CASE AwaitResponse
    BY <1>10 DEF AwaitResponse, Goto, mode, driverVars, simVars
<1>11. CASE Answer
    BY <1>11 DEF Answer, Goto, Refused, mode, driverVars, simVars
<1>12. CASE Release
    BY <1>12 DEF Release, Goto, StoreAndNotify, NotifyFails, DriverGone, AfterCall, mode, driverVars, simVars
<1>13. CASE Fini
    BY <1>13 DEF Fini, Goto, Asserted, mode, driverVars, simVars
<1>14. CASE SimAborts
    BY <1>14 DEF SimAborts, Goto, mode, driverVars, simVars
<1>15. CASE Sync
    BY <1>15 DEF Sync, Goto, mode, driverVars, simVars
<1>16. CASE CallKernel
    BY <1>16 DEF CallKernel, Goto, mode, driverVars, simVars
<1>17. CASE SimStart
    BY <1>17 DEF SimStart, Goto, Asserted, Signal, StateChange, mode, driverVars, simVars
<1>18. CASE SetupResponse
    BY <1>18 DEF SetupResponse, Goto, Asserted, StoreAndNotify, NotifyFails, SimGone, Signal, mode,
        driverVars, simVars
<1>19. CASE LaunchIpc
    BY <1>19 DEF LaunchIpc, Goto, CallsExit, mode, driverVars, simVars
<1>20. CASE GoldenDone
    BY <1>20 DEF GoldenDone, Goto, mode, driverVars, simVars
<1>21. CASE SimEnd
    BY <1>21 DEF SimEnd, Goto, Asserted, mode, driverVars, simVars
<1>22. CASE ProgramEnds
    BY <1>22 DEF ProgramEnds, Goto, CallsExit, mode, driverVars, simVars
<1>23. CASE ProgramExits
    BY <1>23 DEF ProgramExits, Goto, CallsExit, Signal, mode, driverVars, simVars
<1>24. CASE Loop
    BY <1>24 DEF Loop, Goto, CallsExit, Signal, mode, driverVars, simVars
<1>25. CASE Serve
    <2>1. UNCHANGED <<handle, expected, exited, kernels, mode, simVars>>  BY <1>25 DEF Serve
    <2>2. CASE pc["sim"] = "await"
        <3>1. op.type \in Accesses /\ call = "access" /\ Question /\ handle = "REQUEST" /\ ~exited
            BY <1>25, <2>2 DEF Serve
        <3>2. op.id \in Interfaces => performed + 1 = calls
            BY <1>25, <2>2, <3>1 DEF Serve
        <3>3. Payloads  OBVIOUS
        <3>4. \/ Goto("ipc", "serve", "response") /\ Served'
              \/ Signal("ipc", "serve") /\ UNCHANGED op
            BY <1>25, <2>1, <3>1, <3>2, <3>3, AnswerWritten DEF simVars
        <3>5. CASE Goto("ipc", "serve", "response") /\ Served'
            BY <2>1, <2>2, <3>1, <3>5 DEF Goto, mode, simVars
        <3>6. CASE Signal("ipc", "serve") /\ UNCHANGED op
            BY <2>1, <2>2, <3>1, <3>6 DEF Goto, Signal, mode, simVars
        <3> QED  BY <3>4, <3>5, <3>6
    <2>3. CASE pc["sim"] # "await"
        BY <1>25, <2>3 DEF Serve, Goto, Signal, simVars
    <2> QED  BY <2>2, <2>3
<1>26. CASE Response
    BY <1>26 DEF Response, Goto, Asserted, StoreAndNotify, NotifyFails, SimGone, Signal, mode, driverVars,
        simVars
<1>27. ASSUME NEW p \in Procs, IpcExitCheck(p) PROVE DriverTurn'
    BY <1>27 DEF IpcExitCheck, Goto, mode, driverVars, simVars
<1>28. ASSUME NEW p \in Procs, IpcExitLoad(p) PROVE DriverTurn'
    BY <1>28 DEF IpcExitLoad, Goto, mode, driverVars, simVars
<1>29. ASSUME NEW p \in Procs, IpcExitCas(p) PROVE DriverTurn'
    BY <1>29 DEF IpcExitCas, Goto, mode, driverVars, simVars
<1>30. ASSUME NEW p \in Procs, IpcExitWrite(p) PROVE DriverTurn'
    BY <1>30 DEF IpcExitWrite, Goto, StateChange, mode, driverVars, simVars
<1>31. ASSUME NEW p \in Procs, IpcExitStore(p) PROVE DriverTurn'
    BY <1>31 DEF IpcExitStore, Goto, StoreAndNotify, NotifyFails, SimGone, DriverGone, Signal, mode,
        driverVars, simVars
<1>32. ASSUME NEW p \in Procs, IpcExitDone(p) PROVE DriverTurn'
    <2>1. CASE p = "sim"  BY <1>32, <2>1 DEF IpcExitDone, Goto, mode, driverVars, simVars
    <2>2. UNCHANGED <<handle, op, expected, why, exited, kernels, performed, mode, simVars>>
          /\ (simPid' => simPid) /\ pc[p] = "exit_done"
        BY <1>32 DEF IpcExitDone
    <2>3. CASE p = "main"
        BY <1>32, <2>2, <2>3, ExitLeadsTo DEF AllGone, SimGone, mode, simVars
    <2>4. CASE p = "ipc"
        BY <1>32, <2>2, <2>4, ExitLeadsTo DEF AllGone, SimGone, mode, simVars
    <2> QED  BY <2>1, <2>3, <2>4
<1>33. ASSUME NEW p \in Driver, DriverAborts(p) PROVE DriverTurn'
    BY <1>33 DEF DriverAborts, Goto, Signal, mode, driverVars, simVars
<1>34. ASSUME NEW p \in Driver, DriverWaits(p) PROVE DriverTurn'
    BY <1>34 DEF DriverWaits, AllGone, mode, driverVars, simVars
<1>35. CASE ChildEnds
    BY <1>35 DEF ChildEnds, SimGone, DriverGone, AllGone, CallsExit, Goto, mode, driverVars, simVars
<1>36. CASE UNCHANGED vars
    BY <1>36 DEF vars, mode, driverVars, simVars
<1> QED
    BY <1>1, <1>2, <1>3, <1>4, <1>5, <1>6, <1>7, <1>8, <1>9, <1>10, <1>11, <1>12, <1>13, <1>14, <1>15,
        <1>16, <1>17, <1>18, <1>19, <1>20, <1>21, <1>22, <1>23, <1>24, <1>25, <1>26, <1>27, <1>28, <1>29,
        <1>30, <1>31, <1>32, <1>33, <1>34, <1>35, <1>36
    DEF Next, Sim, Main, Ipc, IpcExit, Handlers, Procs, Driver

\* Nothing changes a response before the simulator has released the handle.
LEMMA KeepsSimReads ==
    ASSUME TypeOK, NextGetsState, Turns, ~Disturbed', [Next]_vars
    PROVE  SimReads'
<1> USE DEF Turns, Legal, NoIllegalOperation, SimTurn, DriverTurn, SimReads, SimEnded, KernelsCounted,
    AccessesCounted, Halted, Disturbed, Leaving, MainAt, BeforeCalls, DuringCall, Question, Told, Served,
    Final, IpcExits, Asked, Taken, DriverOver, Replied, FreePoints, LockedPoints, StateChange, TypeOK,
    Flags, Points, Payloads, Locals, Procs, Driver, SimPoints, DriverPoints, ExitPoints, Accesses
<1>1. CASE Boot
    BY <1>1 DEF Boot, Goto, mode, driverVars, simVars
<1>2. CASE CallNext
    BY <1>2 DEF CallNext, Goto, mode, driverVars, simVars
<1>3. CASE CallAccess
    BY <1>3 DEF CallAccess, Goto, mode, driverVars, simVars
<1>4. CASE CallExit
    BY <1>4 DEF CallExit, Goto, mode, driverVars, simVars
<1>5. CASE KernelDone
    BY <1>5 DEF KernelDone, Goto, mode, driverVars, simVars
<1>6. CASE SimStop
    BY <1>6 DEF SimStop, Goto, mode, driverVars, simVars
<1>7. CASE Reserve
    BY <1>7 DEF Reserve, Goto, mode, driverVars, simVars
<1>8. CASE Fill
    BY <1>8 DEF Fill, Goto, StateChange, mode, driverVars, simVars
<1>9. CASE Request
    BY <1>9 DEF Request, Goto, Asserted, StoreAndNotify, NotifyFails, DriverGone, mode, driverVars, simVars
<1>10. CASE AwaitResponse
    BY <1>10 DEF AwaitResponse, Goto, mode, driverVars, simVars
<1>11. CASE Answer
    <2>1. Replied /\ handle = "RESPONSE" /\ op' = op /\ handle' = handle /\ result' = op
        BY <1>11 DEF Answer, Goto, mode, driverVars, simVars
    <2>2. pc' = [pc EXCEPT !["sim"] = IF Refused THEN "failed" ELSE "release"]  BY <1>11 DEF Answer, Goto
    <2>3. CASE Refused  BY <1>11, <2>2, <2>3 DEF Answer, mode, driverVars, simVars
    <2>4. CASE ~Refused
        <3>1. call = "access" => op.type \in Accesses /\ op.id \in {result.id, "EMPTY"} /\ result.id \in Ids
            BY <1>11, <2>4 DEF Answer, Goto, Refused
        <3>2. call # "access" \/ Interfaces = {} \/ op.id \in Interfaces \/ ~Served
            BY <3>1, MdpiAssumption
        <3> QED  BY <1>11, <2>1, <2>2, <2>4, <3>1, <3>2 DEF Answer, mode, driverVars, simVars
    <2> QED  BY <2>3, <2>4
<1>12. CASE Release
    BY <1>12 DEF Release, Goto, StoreAndNotify, NotifyFails, DriverGone, AfterCall, mode, driverVars, simVars
<1>13. CASE Fini
    BY <1>13 DEF Fini, Goto, Asserted, mode, driverVars, simVars
<1>14. CASE SimAborts
    BY <1>14 DEF SimAborts, Goto, mode, driverVars, simVars
<1>15. CASE Sync
    BY <1>15 DEF Sync, Goto, mode, driverVars, simVars
<1>16. CASE CallKernel
    BY <1>16 DEF CallKernel, Goto, mode, driverVars, simVars
<1>17. CASE SimStart
    BY <1>17 DEF SimStart, Goto, Asserted, Signal, StateChange, mode, driverVars, simVars
<1>18. CASE SetupResponse
    BY <1>18 DEF SetupResponse, Goto, Asserted, StoreAndNotify, NotifyFails, SimGone, Signal, mode,
        driverVars, simVars
<1>19. CASE LaunchIpc
    BY <1>19 DEF LaunchIpc, Goto, CallsExit, mode, driverVars, simVars
<1>20. CASE GoldenDone
    BY <1>20 DEF GoldenDone, Goto, mode, driverVars, simVars
<1>21. CASE SimEnd
    BY <1>21 DEF SimEnd, Goto, Asserted, mode, driverVars, simVars
<1>22. CASE ProgramEnds
    BY <1>22 DEF ProgramEnds, Goto, CallsExit, mode, driverVars, simVars
<1>23. CASE ProgramExits
    BY <1>23 DEF ProgramExits, Goto, CallsExit, Signal, mode, driverVars, simVars
<1>24. CASE Loop
    BY <1>24 DEF Loop, Goto, CallsExit, Signal, mode, driverVars, simVars
<1>25. CASE Serve
    BY <1>25 DEF Serve, Goto, Signal, StateChange, mode, driverVars, simVars
<1>26. CASE Response
    BY <1>26 DEF Response, Goto, Asserted, StoreAndNotify, NotifyFails, SimGone, Signal, mode, driverVars,
        simVars
<1>27. ASSUME NEW p \in Procs, IpcExitCheck(p) PROVE SimReads'
    BY <1>27 DEF IpcExitCheck, Goto, mode, driverVars, simVars
<1>28. ASSUME NEW p \in Procs, IpcExitLoad(p) PROVE SimReads'
    BY <1>28 DEF IpcExitLoad, Goto, mode, driverVars, simVars
<1>29. ASSUME NEW p \in Procs, IpcExitCas(p) PROVE SimReads'
    BY <1>29 DEF IpcExitCas, Goto, mode, driverVars, simVars
<1>30. ASSUME NEW p \in Procs, IpcExitWrite(p) PROVE SimReads'
    BY <1>30 DEF IpcExitWrite, Goto, StateChange, mode, driverVars, simVars
<1>31. ASSUME NEW p \in Procs, IpcExitStore(p) PROVE SimReads'
    BY <1>31 DEF IpcExitStore, Goto, StoreAndNotify, NotifyFails, SimGone, DriverGone, Signal, mode,
        driverVars, simVars
<1>32. ASSUME NEW p \in Procs, IpcExitDone(p) PROVE SimReads'
    <2>1. CASE p = "sim"  BY <1>32, <2>1 DEF IpcExitDone, Goto, mode, driverVars, simVars
    <2>2. UNCHANGED <<handle, op, expected, why, exited, kernels, performed, mode, simVars>>
          /\ (simPid' => simPid) /\ pc[p] = "exit_done"
        BY <1>32 DEF IpcExitDone
    <2>3. CASE p = "main"
        BY <1>32, <2>2, <2>3, ExitLeadsTo DEF AllGone, SimGone, mode, simVars
    <2>4. CASE p = "ipc"
        BY <1>32, <2>2, <2>4, ExitLeadsTo DEF AllGone, SimGone, mode, simVars
    <2> QED  BY <2>1, <2>3, <2>4
<1>33. ASSUME NEW p \in Driver, DriverAborts(p) PROVE SimReads'
    BY <1>33 DEF DriverAborts, Goto, Signal, mode, driverVars, simVars
<1>34. ASSUME NEW p \in Driver, DriverWaits(p) PROVE SimReads'
    BY <1>34 DEF DriverWaits, AllGone, mode, driverVars, simVars
<1>35. CASE ChildEnds
    BY <1>35 DEF ChildEnds, SimGone, DriverGone, AllGone, CallsExit, Goto, mode, driverVars, simVars
<1>36. CASE UNCHANGED vars
    BY <1>36 DEF vars, mode, driverVars, simVars
<1> QED
    BY <1>1, <1>2, <1>3, <1>4, <1>5, <1>6, <1>7, <1>8, <1>9, <1>10, <1>11, <1>12, <1>13, <1>14, <1>15,
        <1>16, <1>17, <1>18, <1>19, <1>20, <1>21, <1>22, <1>23, <1>24, <1>25, <1>26, <1>27, <1>28, <1>29,
        <1>30, <1>31, <1>32, <1>33, <1>34, <1>35, <1>36
    DEF Next, Sim, Main, Ipc, IpcExit, Handlers, Procs, Driver

\* After the end of the simulator the IPC thread answers nothing.
LEMMA KeepsSimEnded ==
    ASSUME TypeOK, NextGetsState, Turns, ~Disturbed', [Next]_vars
    PROVE  SimEnded'
<1> USE DEF Turns, Legal, NoIllegalOperation, SimTurn, DriverTurn, SimReads, SimEnded, KernelsCounted,
    AccessesCounted, Halted, Disturbed, Leaving, MainAt, BeforeCalls, DuringCall, Question, Told, Served,
    Final, IpcExits, Asked, Taken, DriverOver, Replied, FreePoints, LockedPoints, StateChange, TypeOK,
    Flags, Points, Payloads, Locals, Procs, Driver, SimPoints, DriverPoints, ExitPoints, Accesses
<1>1. CASE Boot
    BY <1>1 DEF Boot, Goto, mode, driverVars, simVars
<1>2. CASE CallNext
    BY <1>2 DEF CallNext, Goto, mode, driverVars, simVars
<1>3. CASE CallAccess
    BY <1>3 DEF CallAccess, Goto, mode, driverVars, simVars
<1>4. CASE CallExit
    BY <1>4 DEF CallExit, Goto, mode, driverVars, simVars
<1>5. CASE KernelDone
    BY <1>5 DEF KernelDone, Goto, mode, driverVars, simVars
<1>6. CASE SimStop
    BY <1>6 DEF SimStop, Goto, mode, driverVars, simVars
<1>7. CASE Reserve
    BY <1>7 DEF Reserve, Goto, mode, driverVars, simVars
<1>8. CASE Fill
    BY <1>8 DEF Fill, Goto, StateChange, mode, driverVars, simVars
<1>9. CASE Request
    BY <1>9 DEF Request, Goto, Asserted, StoreAndNotify, NotifyFails, DriverGone, mode, driverVars, simVars
<1>10. CASE AwaitResponse
    BY <1>10 DEF AwaitResponse, Goto, mode, driverVars, simVars
<1>11. CASE Answer
    BY <1>11 DEF Answer, Goto, Refused, mode, driverVars, simVars
<1>12. CASE Release
    BY <1>12 DEF Release, Goto, StoreAndNotify, NotifyFails, DriverGone, AfterCall, mode, driverVars, simVars
<1>13. CASE Fini
    BY <1>13 DEF Fini, Goto, Asserted, mode, driverVars, simVars
<1>14. CASE SimAborts
    BY <1>14 DEF SimAborts, Goto, mode, driverVars, simVars
<1>15. CASE Sync
    BY <1>15 DEF Sync, Goto, mode, driverVars, simVars
<1>16. CASE CallKernel
    BY <1>16 DEF CallKernel, Goto, mode, driverVars, simVars
<1>17. CASE SimStart
    BY <1>17, SetupWritten DEF SimStart, Goto, Signal, mode, driverVars, simVars
<1>18. CASE SetupResponse
    BY <1>18 DEF SetupResponse, Goto, Asserted, StoreAndNotify, NotifyFails, SimGone, Signal, mode,
        driverVars, simVars
<1>19. CASE LaunchIpc
    BY <1>19 DEF LaunchIpc, Goto, CallsExit, mode, driverVars, simVars
<1>20. CASE GoldenDone
    BY <1>20 DEF GoldenDone, Goto, mode, driverVars, simVars
<1>21. CASE SimEnd
    BY <1>21 DEF SimEnd, Goto, Asserted, mode, driverVars, simVars
<1>22. CASE ProgramEnds
    BY <1>22 DEF ProgramEnds, Goto, CallsExit, mode, driverVars, simVars
<1>23. CASE ProgramExits
    BY <1>23 DEF ProgramExits, Goto, CallsExit, Signal, mode, driverVars, simVars
<1>24. CASE Loop
    BY <1>24 DEF Loop, Goto, CallsExit, Signal, mode, driverVars, simVars
<1>25. CASE Serve
    BY <1>25 DEF Serve, Goto, Signal, StateChange, mode, driverVars, simVars
<1>26. CASE Response
    BY <1>26 DEF Response, Goto, Asserted, StoreAndNotify, NotifyFails, SimGone, Signal, mode, driverVars,
        simVars
<1>27. ASSUME NEW p \in Procs, IpcExitCheck(p) PROVE SimEnded'
    BY <1>27 DEF IpcExitCheck, Goto, mode, driverVars, simVars
<1>28. ASSUME NEW p \in Procs, IpcExitLoad(p) PROVE SimEnded'
    BY <1>28 DEF IpcExitLoad, Goto, mode, driverVars, simVars
<1>29. ASSUME NEW p \in Procs, IpcExitCas(p) PROVE SimEnded'
    BY <1>29 DEF IpcExitCas, Goto, mode, driverVars, simVars
<1>30. ASSUME NEW p \in Procs, IpcExitWrite(p) PROVE SimEnded'
    BY <1>30 DEF IpcExitWrite, Goto, StateChange, mode, driverVars, simVars
<1>31. ASSUME NEW p \in Procs, IpcExitStore(p) PROVE SimEnded'
    <2> USE DEF IpcExitStore, Goto, StoreAndNotify, NotifyFails, SimGone, DriverGone, Signal, mode,
        driverVars, simVars
    <2>1. CASE p = "sim"  BY <1>31, <2>1
    <2>2. CASE p = "main"  BY <1>31, <2>2
    <2>3. CASE p = "ipc"  BY <1>31, <2>3
    <2> QED  BY <2>1, <2>2, <2>3
<1>32. ASSUME NEW p \in Procs, IpcExitDone(p) PROVE SimEnded'
    <2>1. CASE p = "sim"  BY <1>32, <2>1 DEF IpcExitDone, Goto, mode, driverVars, simVars
    <2>2. UNCHANGED <<handle, op, expected, why, exited, kernels, performed, mode, simVars>>
          /\ (simPid' => simPid) /\ pc[p] = "exit_done"
        BY <1>32 DEF IpcExitDone
    <2>3. CASE p = "main"
        BY <1>32, <2>2, <2>3, ExitLeadsTo DEF AllGone, SimGone, mode, simVars
    <2>4. CASE p = "ipc"
        BY <1>32, <2>2, <2>4, ExitLeadsTo DEF AllGone, SimGone, mode, simVars
    <2> QED  BY <2>1, <2>3, <2>4
<1>33. ASSUME NEW p \in Driver, DriverAborts(p) PROVE SimEnded'
    BY <1>33 DEF DriverAborts, Goto, Signal, mode, driverVars, simVars
<1>34. ASSUME NEW p \in Driver, DriverWaits(p) PROVE SimEnded'
    BY <1>34 DEF DriverWaits, AllGone, mode, driverVars, simVars
<1>35. CASE ChildEnds
    BY <1>35 DEF ChildEnds, SimGone, DriverGone, AllGone, CallsExit, Goto, mode, driverVars, simVars
<1>36. CASE UNCHANGED vars
    BY <1>36 DEF vars, mode, driverVars, simVars
<1> QED
    BY <1>1, <1>2, <1>3, <1>4, <1>5, <1>6, <1>7, <1>8, <1>9, <1>10, <1>11, <1>12, <1>13, <1>14, <1>15,
        <1>16, <1>17, <1>18, <1>19, <1>20, <1>21, <1>22, <1>23, <1>24, <1>25, <1>26, <1>27, <1>28, <1>29,
        <1>30, <1>31, <1>32, <1>33, <1>34, <1>35, <1>36
    DEF Next, Sim, Main, Ipc, IpcExit, Handlers, Procs, Driver

\* The kernel calls and the rounds of the simulator stay in step.
LEMMA KeepsKernelsCounted ==
    ASSUME TypeOK, NextGetsState, Turns, ~Disturbed', [Next]_vars
    PROVE  KernelsCounted'
<1> USE DEF Turns, Legal, NoIllegalOperation, SimTurn, DriverTurn, SimReads, SimEnded, KernelsCounted,
    AccessesCounted, Halted, Disturbed, Leaving, MainAt, BeforeCalls, DuringCall, Question, Told, Served,
    Final, IpcExits, Asked, Taken, DriverOver, Replied, FreePoints, LockedPoints, StateChange, TypeOK,
    Flags, Points, Payloads, Locals, Procs, Driver, SimPoints, DriverPoints, ExitPoints, Accesses
<1>1. CASE Boot
    BY <1>1 DEF Boot, Goto, mode, driverVars, simVars
<1>2. CASE CallNext
    BY <1>2 DEF CallNext, Goto, mode, driverVars, simVars
<1>3. CASE CallAccess
    BY <1>3 DEF CallAccess, Goto, mode, driverVars, simVars
<1>4. CASE CallExit
    BY <1>4 DEF CallExit, Goto, mode, driverVars, simVars
<1>5. CASE KernelDone
    BY <1>5 DEF KernelDone, Goto, mode, driverVars, simVars
<1>6. CASE SimStop
    BY <1>6 DEF SimStop, Goto, mode, driverVars, simVars
<1>7. CASE Reserve
    BY <1>7 DEF Reserve, Goto, mode, driverVars, simVars
<1>8. CASE Fill
    BY <1>8 DEF Fill, Goto, StateChange, mode, driverVars, simVars
<1>9. CASE Request
    BY <1>9 DEF Request, Goto, Asserted, StoreAndNotify, NotifyFails, DriverGone, mode, driverVars, simVars
<1>10. CASE AwaitResponse
    BY <1>10 DEF AwaitResponse, Goto, mode, driverVars, simVars
<1>11. CASE Answer
    BY <1>11 DEF Answer, Goto, Refused, mode, driverVars, simVars
<1>12. CASE Release
    BY <1>12 DEF Release, Goto, StoreAndNotify, NotifyFails, DriverGone, AfterCall, mode, driverVars, simVars
<1>13. CASE Fini
    BY <1>13 DEF Fini, Goto, Asserted, mode, driverVars, simVars
<1>14. CASE SimAborts
    BY <1>14 DEF SimAborts, Goto, mode, driverVars, simVars
<1>15. CASE Sync
    BY <1>15 DEF Sync, Goto, mode, driverVars, simVars
<1>16. CASE CallKernel
    BY <1>16 DEF CallKernel, Goto, mode, driverVars, simVars
<1>17. CASE SimStart
    BY <1>17 DEF SimStart, Goto, Asserted, Signal, StateChange, mode, driverVars, simVars
<1>18. CASE SetupResponse
    BY <1>18 DEF SetupResponse, Goto, Asserted, StoreAndNotify, NotifyFails, SimGone, Signal, mode,
        driverVars, simVars
<1>19. CASE LaunchIpc
    BY <1>19 DEF LaunchIpc, Goto, CallsExit, mode, driverVars, simVars
<1>20. CASE GoldenDone
    BY <1>20 DEF GoldenDone, Goto, mode, driverVars, simVars
<1>21. CASE SimEnd
    BY <1>21 DEF SimEnd, Goto, Asserted, mode, driverVars, simVars
<1>22. CASE ProgramEnds
    BY <1>22 DEF ProgramEnds, Goto, CallsExit, mode, driverVars, simVars
<1>23. CASE ProgramExits
    BY <1>23 DEF ProgramExits, Goto, CallsExit, Signal, mode, driverVars, simVars
<1>24. CASE Loop
    BY <1>24 DEF Loop, Goto, CallsExit, Signal, mode, driverVars, simVars
<1>25. CASE Serve
    BY <1>25 DEF Serve, Goto, Signal, StateChange, mode, driverVars, simVars
<1>26. CASE Response
    BY <1>26 DEF Response, Goto, Asserted, StoreAndNotify, NotifyFails, SimGone, Signal, mode, driverVars,
        simVars
<1>27. ASSUME NEW p \in Procs, IpcExitCheck(p) PROVE KernelsCounted'
    BY <1>27 DEF IpcExitCheck, Goto, mode, driverVars, simVars
<1>28. ASSUME NEW p \in Procs, IpcExitLoad(p) PROVE KernelsCounted'
    BY <1>28 DEF IpcExitLoad, Goto, mode, driverVars, simVars
<1>29. ASSUME NEW p \in Procs, IpcExitCas(p) PROVE KernelsCounted'
    BY <1>29 DEF IpcExitCas, Goto, mode, driverVars, simVars
<1>30. ASSUME NEW p \in Procs, IpcExitWrite(p) PROVE KernelsCounted'
    BY <1>30 DEF IpcExitWrite, Goto, StateChange, mode, driverVars, simVars
<1>31. ASSUME NEW p \in Procs, IpcExitStore(p) PROVE KernelsCounted'
    BY <1>31 DEF IpcExitStore, Goto, StoreAndNotify, NotifyFails, SimGone, DriverGone, Signal, mode,
        driverVars, simVars
<1>32. ASSUME NEW p \in Procs, IpcExitDone(p) PROVE KernelsCounted'
    BY <1>32 DEF IpcExitDone, Goto, AllGone, SimGone, mode, driverVars, simVars
<1>33. ASSUME NEW p \in Driver, DriverAborts(p) PROVE KernelsCounted'
    BY <1>33 DEF DriverAborts, Goto, Signal, mode, driverVars, simVars
<1>34. ASSUME NEW p \in Driver, DriverWaits(p) PROVE KernelsCounted'
    BY <1>34 DEF DriverWaits, AllGone, mode, driverVars, simVars
<1>35. CASE ChildEnds
    BY <1>35 DEF ChildEnds, SimGone, DriverGone, AllGone, CallsExit, Goto, mode, driverVars, simVars
<1>36. CASE UNCHANGED vars
    BY <1>36 DEF vars, mode, driverVars, simVars
<1> QED
    BY <1>1, <1>2, <1>3, <1>4, <1>5, <1>6, <1>7, <1>8, <1>9, <1>10, <1>11, <1>12, <1>13, <1>14, <1>15,
        <1>16, <1>17, <1>18, <1>19, <1>20, <1>21, <1>22, <1>23, <1>24, <1>25, <1>26, <1>27, <1>28, <1>29,
        <1>30, <1>31, <1>32, <1>33, <1>34, <1>35, <1>36
    DEF Next, Sim, Main, Ipc, IpcExit, Handlers, Procs, Driver

\* The interface operations asked for and carried out stay in step.
LEMMA KeepsAccessesCounted ==
    ASSUME TypeOK, NextGetsState, Turns, ~Disturbed', [Next]_vars
    PROVE  AccessesCounted'
<1> USE DEF Turns, Legal, NoIllegalOperation, SimTurn, DriverTurn, SimReads, SimEnded, KernelsCounted,
    AccessesCounted, Halted, Disturbed, Leaving, MainAt, BeforeCalls, DuringCall, Question, Told, Served,
    Final, IpcExits, Asked, Taken, DriverOver, Replied, FreePoints, LockedPoints, StateChange, TypeOK,
    Flags, Points, Payloads, Locals, Procs, Driver, SimPoints, DriverPoints, ExitPoints, Accesses
<1>1. CASE Boot
    BY <1>1 DEF Boot, Goto, mode, driverVars, simVars
<1>2. CASE CallNext
    BY <1>2 DEF CallNext, Goto, mode, driverVars, simVars
<1>3. CASE CallAccess
    BY <1>3 DEF CallAccess, Goto, mode, driverVars, simVars
<1>4. CASE CallExit
    BY <1>4 DEF CallExit, Goto, mode, driverVars, simVars
<1>5. CASE KernelDone
    BY <1>5 DEF KernelDone, Goto, mode, driverVars, simVars
<1>6. CASE SimStop
    BY <1>6 DEF SimStop, Goto, mode, driverVars, simVars
<1>7. CASE Reserve
    BY <1>7 DEF Reserve, Goto, mode, driverVars, simVars
<1>8. CASE Fill
    BY <1>8 DEF Fill, Goto, StateChange, mode, driverVars, simVars
<1>9. CASE Request
    BY <1>9 DEF Request, Goto, Asserted, StoreAndNotify, NotifyFails, DriverGone, mode, driverVars, simVars
<1>10. CASE AwaitResponse
    BY <1>10 DEF AwaitResponse, Goto, mode, driverVars, simVars
<1>11. CASE Answer
    BY <1>11 DEF Answer, Goto, Refused, mode, driverVars, simVars
<1>12. CASE Release
    BY <1>12, ReleasedTo, MdpiAssumption DEF Release, Goto, StoreAndNotify, NotifyFails, DriverGone, mode,
        driverVars, simVars
<1>13. CASE Fini
    BY <1>13 DEF Fini, Goto, Asserted, mode, driverVars, simVars
<1>14. CASE SimAborts
    BY <1>14 DEF SimAborts, Goto, mode, driverVars, simVars
<1>15. CASE Sync
    BY <1>15 DEF Sync, Goto, mode, driverVars, simVars
<1>16. CASE CallKernel
    BY <1>16 DEF CallKernel, Goto, mode, driverVars, simVars
<1>17. CASE SimStart
    BY <1>17 DEF SimStart, Goto, Asserted, Signal, StateChange, mode, driverVars, simVars
<1>18. CASE SetupResponse
    BY <1>18 DEF SetupResponse, Goto, Asserted, StoreAndNotify, NotifyFails, SimGone, Signal, mode,
        driverVars, simVars
<1>19. CASE LaunchIpc
    BY <1>19 DEF LaunchIpc, Goto, CallsExit, mode, driverVars, simVars
<1>20. CASE GoldenDone
    BY <1>20 DEF GoldenDone, Goto, mode, driverVars, simVars
<1>21. CASE SimEnd
    BY <1>21 DEF SimEnd, Goto, Asserted, mode, driverVars, simVars
<1>22. CASE ProgramEnds
    BY <1>22 DEF ProgramEnds, Goto, CallsExit, mode, driverVars, simVars
<1>23. CASE ProgramExits
    BY <1>23 DEF ProgramExits, Goto, CallsExit, Signal, mode, driverVars, simVars
<1>24. CASE Loop
    BY <1>24 DEF Loop, Goto, CallsExit, Signal, mode, driverVars, simVars
<1>25. CASE Serve
    BY <1>25 DEF Serve, Goto, Signal, StateChange, mode, driverVars, simVars
<1>26. CASE Response
    BY <1>26 DEF Response, Goto, Asserted, StoreAndNotify, NotifyFails, SimGone, Signal, mode, driverVars,
        simVars
<1>27. ASSUME NEW p \in Procs, IpcExitCheck(p) PROVE AccessesCounted'
    BY <1>27 DEF IpcExitCheck, Goto, mode, driverVars, simVars
<1>28. ASSUME NEW p \in Procs, IpcExitLoad(p) PROVE AccessesCounted'
    BY <1>28 DEF IpcExitLoad, Goto, mode, driverVars, simVars
<1>29. ASSUME NEW p \in Procs, IpcExitCas(p) PROVE AccessesCounted'
    BY <1>29 DEF IpcExitCas, Goto, mode, driverVars, simVars
<1>30. ASSUME NEW p \in Procs, IpcExitWrite(p) PROVE AccessesCounted'
    BY <1>30 DEF IpcExitWrite, Goto, StateChange, mode, driverVars, simVars
<1>31. ASSUME NEW p \in Procs, IpcExitStore(p) PROVE AccessesCounted'
    BY <1>31 DEF IpcExitStore, Goto, StoreAndNotify, NotifyFails, SimGone, DriverGone, Signal, mode,
        driverVars, simVars
<1>32. ASSUME NEW p \in Procs, IpcExitDone(p) PROVE AccessesCounted'
    BY <1>32 DEF IpcExitDone, Goto, AllGone, SimGone, mode, driverVars, simVars
<1>33. ASSUME NEW p \in Driver, DriverAborts(p) PROVE AccessesCounted'
    BY <1>33 DEF DriverAborts, Goto, Signal, mode, driverVars, simVars
<1>34. ASSUME NEW p \in Driver, DriverWaits(p) PROVE AccessesCounted'
    BY <1>34 DEF DriverWaits, AllGone, mode, driverVars, simVars
<1>35. CASE ChildEnds
    BY <1>35 DEF ChildEnds, SimGone, DriverGone, AllGone, CallsExit, Goto, mode, driverVars, simVars
<1>36. CASE UNCHANGED vars
    BY <1>36 DEF vars, mode, driverVars, simVars
<1> QED
    BY <1>1, <1>2, <1>3, <1>4, <1>5, <1>6, <1>7, <1>8, <1>9, <1>10, <1>11, <1>12, <1>13, <1>14, <1>15,
        <1>16, <1>17, <1>18, <1>19, <1>20, <1>21, <1>22, <1>23, <1>24, <1>25, <1>26, <1>27, <1>28, <1>29,
        <1>30, <1>31, <1>32, <1>33, <1>34, <1>35, <1>36
    DEF Next, Sim, Main, Ipc, IpcExit, Handlers, Procs, Driver

------------------------------------------------------------------------------
(* The theorems *)

\* The invariant holds before either process has run.
LEMMA InitInductive == Init => Inductive
<1> SUFFICES ASSUME Init PROVE Inductive  OBVIOUS
<1>1. Flags  BY DEF Init, Flags
<1>2. Points  BY DEF Init, Points, Procs, SimPoints, DriverPoints
<1>3. Payloads  BY DEF Init, Payloads, Operations
<1>4. Locals  BY MdpiAssumption DEF Init, Locals, Handles, Reasons
<1>5. NextGetsState  BY DEF Init, NextGetsState, Procs
<1>6. Turns
    BY DEF Init, Procs, Driver, Turns, Legal, NoIllegalOperation, SimTurn, DriverTurn, SimReads,
           SimEnded, KernelsCounted, AccessesCounted, BeforeCalls, MainAt, FreePoints, LockedPoints
<1> QED  BY <1>1, <1>2, <1>3, <1>4, <1>5, <1>6 DEF Inductive, TypeOK

\* Nothing resets the flag of __ipc_exit or undoes the exit of the program.
LEMMA ExitIsFinal ==
    ASSUME Flags, [Next]_vars
    PROVE  (early => early') /\ (exited => exited')
<1>1. CASE Boot
    BY <1>1 DEF Boot, Goto, mode, driverVars, simVars
<1>2. CASE CallNext
    BY <1>2 DEF CallNext, Goto, mode, driverVars, simVars
<1>3. CASE CallAccess
    BY <1>3 DEF CallAccess, Goto, mode, driverVars, simVars
<1>4. CASE CallExit
    BY <1>4 DEF CallExit, Goto, mode, driverVars, simVars
<1>5. CASE KernelDone
    BY <1>5 DEF KernelDone, Goto, mode, driverVars, simVars
<1>6. CASE SimStop
    BY <1>6 DEF SimStop, Goto, mode, driverVars, simVars
<1>7. CASE Reserve
    BY <1>7 DEF Reserve, Goto, mode, driverVars, simVars
<1>8. CASE Fill
    BY <1>8 DEF Fill, Goto, StateChange, mode, driverVars, simVars
<1>9. CASE Request
    BY <1>9 DEF Request, Goto, Asserted, StoreAndNotify, NotifyFails, DriverGone, mode, driverVars, simVars
<1>10. CASE AwaitResponse
    BY <1>10 DEF AwaitResponse, Goto, mode, driverVars, simVars
<1>11. CASE Answer
    BY <1>11 DEF Answer, Goto, Refused, mode, driverVars, simVars
<1>12. CASE Release
    BY <1>12 DEF Release, Goto, StoreAndNotify, NotifyFails, DriverGone, AfterCall, mode, driverVars, simVars
<1>13. CASE Fini
    BY <1>13 DEF Fini, Goto, Asserted, mode, driverVars, simVars
<1>14. CASE SimAborts
    BY <1>14 DEF SimAborts, Goto, mode, driverVars, simVars
<1>15. CASE Sync
    BY <1>15 DEF Sync, Goto, mode, driverVars, simVars
<1>16. CASE CallKernel
    BY <1>16 DEF CallKernel, Goto, mode, driverVars, simVars
<1>17. CASE SimStart
    BY <1>17 DEF SimStart, Goto, Asserted, Signal, StateChange, mode, driverVars, simVars
<1>18. CASE SetupResponse
    BY <1>18 DEF SetupResponse, Goto, Asserted, StoreAndNotify, NotifyFails, SimGone, Signal, mode,
        driverVars, simVars
<1>19. CASE LaunchIpc
    BY <1>19 DEF LaunchIpc, Goto, CallsExit, mode, driverVars, simVars
<1>20. CASE GoldenDone
    BY <1>20 DEF GoldenDone, Goto, mode, driverVars, simVars
<1>21. CASE SimEnd
    BY <1>21 DEF SimEnd, Goto, Asserted, mode, driverVars, simVars
<1>22. CASE ProgramEnds
    BY <1>22 DEF ProgramEnds, Goto, CallsExit, mode, driverVars, simVars
<1>23. CASE ProgramExits
    BY <1>23 DEF ProgramExits, Goto, CallsExit, Signal, mode, driverVars, simVars
<1>24. CASE Loop
    BY <1>24 DEF Loop, Goto, CallsExit, Signal, mode, driverVars, simVars
<1>25. CASE Serve
    BY <1>25 DEF Serve, Goto, Signal, StateChange, mode, driverVars, simVars
<1>26. CASE Response
    BY <1>26 DEF Response, Goto, Asserted, StoreAndNotify, NotifyFails, SimGone, Signal, mode, driverVars,
        simVars
<1>27. ASSUME NEW p \in Procs, IpcExitCheck(p) PROVE (early => early') /\ (exited => exited')
    BY <1>27 DEF IpcExitCheck, Goto, mode, driverVars, simVars
<1>28. ASSUME NEW p \in Procs, IpcExitLoad(p) PROVE (early => early') /\ (exited => exited')
    BY <1>28 DEF IpcExitLoad, Goto, mode, driverVars, simVars
<1>29. ASSUME NEW p \in Procs, IpcExitCas(p) PROVE (early => early') /\ (exited => exited')
    BY <1>29 DEF IpcExitCas, Goto, mode, driverVars, simVars
<1>30. ASSUME NEW p \in Procs, IpcExitWrite(p) PROVE (early => early') /\ (exited => exited')
    BY <1>30 DEF IpcExitWrite, Goto, StateChange, mode, driverVars, simVars
<1>31. ASSUME NEW p \in Procs, IpcExitStore(p) PROVE (early => early') /\ (exited => exited')
    BY <1>31 DEF IpcExitStore, Goto, StoreAndNotify, NotifyFails, SimGone, DriverGone, Signal, mode,
        driverVars, simVars
<1>32. ASSUME NEW p \in Procs, IpcExitDone(p) PROVE (early => early') /\ (exited => exited')
    BY <1>32 DEF IpcExitDone, Goto, AllGone, SimGone, mode, driverVars, simVars
<1>33. ASSUME NEW p \in Driver, DriverAborts(p) PROVE (early => early') /\ (exited => exited')
    BY <1>33 DEF DriverAborts, Goto, Signal, mode, driverVars, simVars
<1>34. ASSUME NEW p \in Driver, DriverWaits(p) PROVE (early => early') /\ (exited => exited')
    BY <1>34 DEF DriverWaits, AllGone, mode, driverVars, simVars
<1>35. CASE ChildEnds
    BY <1>35 DEF ChildEnds, SimGone, DriverGone, AllGone, CallsExit, Goto, mode, driverVars, simVars
<1>36. CASE UNCHANGED vars
    BY <1>36 DEF vars, mode, driverVars, simVars
<1> QED
    BY <1>1, <1>2, <1>3, <1>4, <1>5, <1>6, <1>7, <1>8, <1>9, <1>10, <1>11, <1>12, <1>13, <1>14, <1>15,
        <1>16, <1>17, <1>18, <1>19, <1>20, <1>21, <1>22, <1>23, <1>24, <1>25, <1>26, <1>27, <1>28, <1>29,
        <1>30, <1>31, <1>32, <1>33, <1>34, <1>35, <1>36
    DEF Next, Sim, Main, Ipc, IpcExit, Handlers, Procs, Driver

\* Every step of the simulator, the main thread and the IPC thread preserves the invariant.
LEMMA NextInductive == Inductive /\ [Next]_vars => Inductive'
<1> SUFFICES ASSUME Inductive, [Next]_vars PROVE Inductive'  OBVIOUS
<1>1. TypeOK'
    BY KeepsFlags, KeepsPoints, KeepsPayloads, KeepsLocals DEF Inductive, TypeOK
<1>2. NextGetsState'  BY KeepsNextGetsState DEF Inductive
<1>3. CASE Disturbed'  BY <1>1, <1>2, <1>3 DEF Inductive
<1>4. CASE ~Disturbed'
    <2>1. Turns  BY <1>4, ExitIsFinal DEF Inductive, TypeOK, Disturbed
    <2>2. Turns'
        BY <1>4, <2>1, KeepsLegal, KeepsSimTurn, KeepsDriverTurn, KeepsSimReads, KeepsSimEnded,
           KeepsKernelsCounted, KeepsAccessesCounted DEF Inductive, Turns
    <2> QED  BY <1>1, <1>2, <2>2 DEF Inductive
<1> QED  BY <1>3, <1>4

\* The invariant holds in every reachable state.
LEMMA InductiveHolds == Spec => []Inductive
BY InitInductive, NextInductive, PTL DEF Spec

\* The handle, the operation and the points of the threads have their types, also
\* after the program has exited in the middle of a simulation.
THEOREM TypeCorrect == Spec => []TypeOK
<1>1. Inductive => TypeOK  BY DEF Inductive
<1> QED  BY <1>1, InductiveHolds, PTL

\* As long as the program does not exit by itself, no assertion of __ipc_request,
\* __ipc_response, m_fini or __m_sim_end fails, however many kernel calls there are
\* and in whichever of them the hardware exits, faults or is given up.
THEOREM OrderlyIsLegalHolds == Spec => []OrderlyIsLegal
<1>1. Inductive => OrderlyIsLegal
    BY DEF Inductive, Disturbed, Turns, Legal, OrderlyIsLegal
<1> QED  BY <1>1, InductiveHolds, PTL

\* As long as the program does not exit by itself, the handle is a lock on the
\* operation: the simulator, the main thread and the IPC thread never write it at
\* the same time.
THEOREM OneWriterHolds == Spec => []OneWriter
<1>1. Inductive => OneWriter
    <2> SUFFICES ASSUME Inductive, ~early PROVE OneWriter  BY DEF OneWriter
    <2>1. Turns /\ Points  BY DEF Inductive, Disturbed, TypeOK
    <2> USE DEF Turns, Writing, Leaving, MainAt, BeforeCalls, DuringCall, IpcExits, FreePoints, LockedPoints
    <2>2. Writing("sim") => ~Writing("main") /\ ~Writing("ipc")
        BY <2>1 DEF SimTurn, Points, SimPoints, ExitPoints
    <2>3. Writing("main") => ~Writing("ipc")
        <3>1. CASE pc["sim"] \in FreePoints \cup LockedPoints  BY <2>1, <3>1 DEF SimTurn
        <3>2. CASE pc["sim"] = "await"  BY <2>1, <3>2 DEF DriverTurn, Asked, Taken, Replied, DriverOver
        <3>3. CASE pc["sim"] \in {"answer", "release", "fini"}
            BY <2>1, <3>3 DEF SimReads, Replied, DriverOver
        <3>4. CASE pc["sim"] \in {"exit_done", "ok", "failed"}  BY <2>1, <3>4 DEF SimEnded
        <3> QED
            BY <2>1, <3>1, <3>2, <3>3, <3>4 DEF Points, SimPoints, ExitPoints, Legal, NoIllegalOperation,
                Procs
    <2> QED  BY <2>2, <2>3 DEF OneWriter, Procs
<1> QED  BY <1>1, InductiveHolds, PTL

\* As long as the program does not exit by itself, a response to an interface
\* operation answers that very operation, which was carried out once.
THEOREM AnsweredOnceHolds == Spec => []AnsweredOnce
<1>1. Inductive => AnsweredOnce
    BY MdpiAssumption
    DEF Inductive, Disturbed, Turns, SimReads, Told, Served, DriverOver, AnsweredOnce
<1> QED  BY <1>1, InductiveHolds, PTL

\* While the simulator runs a kernel call, the program is in that very call, up to
\* the moment at which the driver sets the flag of __ipc_exit: also when the
\* driver ends out of turn.
THEOREM InStepHolds == Spec => []InStep
<1>1. Inductive => InStep
    BY DEF Inductive, Disturbed, TypeOK, Locals, Turns, SimTurn, FreePoints, LockedPoints, BeforeCalls,
           DuringCall, MainAt, Leaving, KernelsCounted, Halted, InStep
<1> QED  BY <1>1, InductiveHolds, PTL

\* The operation that m_fini reads without a lock is a final state, and no step of
\* either process changes it any more, unless the driver ends out of turn.
THEOREM LastCommunicationHolds == Spec => LastCommunication
<1>1. ASSUME Inductive, [Next]_vars, ~early', pc["sim"] = "fini"
      PROVE  op.state \in {"END", "ABORT"} /\ op' = op
    <2>1. ~early  BY <1>1, ExitIsFinal DEF Inductive, TypeOK
    <2>2. DriverOver /\ handle = "FREE"  BY <1>1, <2>1 DEF Inductive, Disturbed, Turns, SimReads
    <2>3. op.state \in {"END", "ABORT"}  BY <2>2 DEF DriverOver, Final, StateChange
    <2>4. op' = op
        <3>1. CASE Boot  BY <1>1, <2>2, <3>1 DEF Boot, mode, driverVars, simVars
        <3>2. CASE CallNext  BY <1>1, <2>2, <3>2 DEF CallNext, mode, driverVars, simVars
        <3>3. CASE CallAccess  BY <1>1, <2>2, <3>3 DEF CallAccess, mode, driverVars, simVars
        <3>4. CASE CallExit  BY <1>1, <2>2, <3>4 DEF CallExit, mode, driverVars, simVars
        <3>5. CASE KernelDone  BY <1>1, <2>2, <3>5 DEF KernelDone, mode, driverVars, simVars
        <3>6. CASE SimStop  BY <1>1, <2>2, <3>6 DEF SimStop, mode, driverVars, simVars
        <3>7. CASE Reserve  BY <1>1, <2>2, <3>7 DEF Reserve, mode, driverVars, simVars
        <3>8. CASE Fill
            BY <1>1, <2>2, <3>8 DEF Fill, Goto, StateChange, DriverOver, IpcExits, Procs, Driver, mode,
                driverVars, simVars
        <3>9. CASE Request  BY <1>1, <2>2, <3>9 DEF Request, mode, driverVars, simVars
        <3>10. CASE AwaitResponse  BY <1>1, <2>2, <3>10 DEF AwaitResponse, mode, driverVars, simVars
        <3>11. CASE Answer  BY <1>1, <2>2, <3>11 DEF Answer, mode, driverVars, simVars
        <3>12. CASE Release  BY <1>1, <2>2, <3>12 DEF Release, mode, driverVars, simVars
        <3>13. CASE Fini  BY <1>1, <2>2, <3>13 DEF Fini, mode, driverVars, simVars
        <3>14. CASE SimAborts  BY <1>1, <2>2, <3>14 DEF SimAborts, mode, driverVars, simVars
        <3>15. CASE Sync  BY <1>1, <2>2, <3>15 DEF Sync, mode, driverVars, simVars
        <3>16. CASE CallKernel  BY <1>1, <2>2, <3>16 DEF CallKernel, mode, driverVars, simVars
        <3>17. CASE SimStart
            BY <1>1, <2>2, <3>17 DEF SimStart, Goto, Asserted, Signal, StateChange, DriverOver, IpcExits,
                Procs, Driver, mode, driverVars, simVars
        <3>18. CASE SetupResponse  BY <1>1, <2>2, <3>18 DEF SetupResponse, mode, driverVars, simVars
        <3>19. CASE LaunchIpc  BY <1>1, <2>2, <3>19 DEF LaunchIpc, Goto, CallsExit, mode, driverVars, simVars
        <3>20. CASE GoldenDone  BY <1>1, <2>2, <3>20 DEF GoldenDone, mode, driverVars, simVars
        <3>21. CASE SimEnd  BY <1>1, <2>2, <3>21 DEF SimEnd, mode, driverVars, simVars
        <3>22. CASE ProgramEnds  BY <1>1, <2>2, <3>22 DEF ProgramEnds, mode, driverVars, simVars
        <3>23. CASE ProgramExits  BY <1>1, <2>2, <3>23 DEF ProgramExits, mode, driverVars, simVars
        <3>24. CASE Loop  BY <1>1, <2>2, <3>24 DEF Loop, mode, driverVars, simVars
        <3>25. CASE Serve
            BY <1>1, <2>2, <3>25 DEF Serve, Goto, Signal, StateChange, DriverOver, IpcExits, Procs, Driver,
                mode, driverVars, simVars
        <3>26. CASE Response  BY <1>1, <2>2, <3>26 DEF Response, mode, driverVars, simVars
        <3>27. ASSUME NEW p \in Procs, IpcExitCheck(p) PROVE op' = op
            BY <1>1, <2>2, <3>27 DEF IpcExitCheck, mode, driverVars, simVars
        <3>28. ASSUME NEW p \in Procs, IpcExitLoad(p) PROVE op' = op
            BY <1>1, <2>2, <3>28 DEF IpcExitLoad, mode, driverVars, simVars
        <3>29. ASSUME NEW p \in Procs, IpcExitCas(p) PROVE op' = op
            BY <1>1, <2>2, <3>29 DEF IpcExitCas, mode, driverVars, simVars
        <3>30. ASSUME NEW p \in Procs, IpcExitWrite(p) PROVE op' = op
            BY <1>1, <2>2, <3>30 DEF IpcExitWrite, Goto, StateChange, DriverOver, IpcExits, Procs, Driver,
                mode, driverVars, simVars
        <3>31. ASSUME NEW p \in Procs, IpcExitStore(p) PROVE op' = op
            BY <1>1, <2>2, <3>31 DEF IpcExitStore, mode, driverVars, simVars
        <3>32. ASSUME NEW p \in Procs, IpcExitDone(p) PROVE op' = op
            BY <1>1, <2>2, <3>32 DEF IpcExitDone, mode, driverVars, simVars
        <3>33. ASSUME NEW p \in Driver, DriverAborts(p) PROVE op' = op
            BY <1>1, <2>2, <3>33 DEF DriverAborts, mode, driverVars, simVars
        <3>34. ASSUME NEW p \in Driver, DriverWaits(p) PROVE op' = op
            BY <1>1, <2>2, <3>34 DEF DriverWaits, mode, driverVars, simVars
        <3>35. CASE ChildEnds  BY <1>1, <2>2, <3>35 DEF ChildEnds, mode, driverVars, simVars
        <3>36. CASE UNCHANGED vars  BY <1>1, <2>2, <3>36 DEF vars, mode, driverVars, simVars
        <3> QED
            BY <1>1, <3>1, <3>2, <3>3, <3>4, <3>5, <3>6, <3>7, <3>8, <3>9, <3>10, <3>11, <3>12, <3>13,
                <3>14, <3>15, <3>16, <3>17, <3>18, <3>19, <3>20, <3>21, <3>22, <3>23, <3>24, <3>25, <3>26,
                <3>27, <3>28, <3>29, <3>30, <3>31, <3>32, <3>33, <3>34, <3>35, <3>36
            DEF Next, Sim, Main, Ipc, IpcExit, Handlers, Procs, Driver
    <2> QED  BY <2>3, <2>4
<1> QED  BY <1>1, InductiveHolds, PTL DEF Spec, LastCommunication
===============================================================================
