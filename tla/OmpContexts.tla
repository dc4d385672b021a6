---------------------------- MODULE OmpContexts ----------------------------
(***************************************************************************)
(* The hardware that runs an OpenMP parallel region with context           *)
(* switching: cores that each hold several thread contexts, the context    *)
(* switch manager of every core, and the critical, barrier and reduce      *)
(* managers the cores share (etc/libtech/NC_OPENMP_IPs.xml), driven by the *)
(* functional units of the OpenMP builtins (etc/libtech/C_OPENMP_IPs.xml)  *)
(* and by the runtime in etc/libopenmp.                                    *)
(*                                                                         *)
(* One Tick is one clock cycle of all the cores and all the managers: the  *)
(* wires are operators of the current registers, the primed variables are  *)
(* what the registers hold after the clock edge.  How long a computation   *)
(* takes is unknown, so in every cycle the running context of a core may   *)
(* issue its next operation or compute on; the memory answers requests in  *)
(* any order, at most one per core and cycle.                              *)
(***************************************************************************)
EXTENDS Integers, Sequences, FiniteSets

CONSTANTS
  Nthread,     \* threads of the team (--num-accelerators)
  Ncontext,    \* contexts per core (--context_switch)
  Program,     \* the operations every thread of the region performs, in order
  MaxForks     \* bound: how often the region is run

(***************************************************************************)
(* An operation is a record: op tells what is done, list (for "set" and    *)
(* "get") is the address of the reduction list, as the set of its one bits *)
(* among AddressBits.                                                      *)
(*   load     access memory (or not: the access may be conditional)        *)
(*   enter    KMP_CRITICAL                exit     KMP_END_CRITICAL        *)
(*   reach    KMP_BARRIER_REACHED         wait     KMP_WAIT_ALL_THREADS    *)
(*   set      KMP_SET_REDUCE_DATA         get      KMP_GET_REDUCE_DATA     *)
(*   combine  the reduction function, called with what get returned        *)
(***************************************************************************)
Ops == {"load", "enter", "exit", "reach", "wait", "set", "get", "combine"}

AddressBits == UNION {Program[p].list : p \in 1 .. Len(Program)}

(* Critical sections entered and not left before operation p. *)
Depth == [p \in 1 .. Len(Program) + 1 |->
            Cardinality({i \in 1 .. p - 1 : Program[i].op = "enter"})
            - Cardinality({i \in 1 .. p - 1 : Program[i].op = "exit"})]

ASSUME TeamAssumption ==
  /\ Nthread \in Nat /\ Nthread > 1
  /\ Ncontext \in {2, 4, 8}
  /\ MaxForks \in Nat

(* A critical section does not nest and holds no barrier and no reduction; *)
(* reach is followed by wait, and get by combine, which have no other use. *)
ASSUME ProgramAssumption ==
  /\ Program \in Seq([op : Ops, list : SUBSET Nat])
  /\ \A p \in 1 .. Len(Program) :
       /\ Program[p].op = "exit" => Depth[p] = 1
       /\ Program[p].op \in {"enter", "reach", "wait", "get", "combine"} => Depth[p] = 0
       /\ Program[p].op = "reach"
            <=> p < Len(Program) /\ Program[p + 1].op = "wait"
       /\ Program[p].op = "get"
            <=> p < Len(Program) /\ Program[p + 1].op = "combine"
  /\ Program # <<>> => Program[1].op \notin {"wait", "combine"}
  /\ Depth[Len(Program) + 1] = 0

-----------------------------------------------------------------------------
(* The team: OMPCGExt spreads the threads over cores.                      *)

(* Number of cores of a fork. *)
Ncore == Nthread \div Ncontext + (IF Nthread % Ncontext # 0 THEN 1 ELSE 0)
Core == 0 .. Ncore - 1

(* Contexts of core a: core 0 takes what is left over. *)
ComputeCurrentThreads(a) ==
  IF a # 0 \/ Nthread % Ncontext = 0 THEN Ncontext ELSE Nthread % Ncontext

Thread == {t \in Core \X (0 .. Ncontext - 1) : t[2] < ComputeCurrentThreads(t[1])}
ThreadsOf == [a \in Core |-> {t \in Thread : t[1] = a}]

(* tid of a context: contexts of lower cores come first.  Thread 0 is the  *)
(* master.                                                                 *)
Tid(t) == Cardinality({u \in Thread : u[1] < t[1] \/ (u[1] = t[1] /\ u[2] < t[2])})
Master == <<0, 0>>
ThreadOf(n) == CHOOSE t \in Thread : Tid(t) = n

(* The shared managers are built for the largest number of contexts.       *)
ContextNumber ==
  CHOOSE n \in 1 .. Ncontext :
    /\ \E a \in Core : ComputeCurrentThreads(a) = n
    /\ \A a \in Core : ComputeCurrentThreads(a) =< n

(* Requests the lock manager has bits for (REG_SIZE).  It stops with       *)
(* $fatal when there is no encoder of that size, and so does the manager   *)
(* of a core.  A core with one context has no context switch manager       *)
(* (standard_hls.cpp) and with a single core the acknowledge of a grant is *)
(* taken from bits the index does not have: neither is modelled.           *)
RegSize == Ncore * ContextNumber
ASSUME EncoderAssumption ==
  /\ Ncore > 1
  /\ RegSize \in {2, 4, 8, 16, 32, 64}
  /\ \A a \in Core : ComputeCurrentThreads(a) \in {2, 4, 8}

-----------------------------------------------------------------------------
VARIABLES
  forks,              \* forks started so far
  pc,                 \* pc[t]: the operation thread t is at
  wait,               \* wait[t]: what thread t's state machine waits for
  start_reg,          \* contexts whose start pulse is still to be given
  started,            \* cores between their start and their done
  done_reg,           \* contexts that ended
  current_tid,        \* current_tid[a]: the context selected on core a
  thread_ready,       \* contexts that may be switched to
  thread_ready_empty, \* cores with no ready context in the last cycle
  cs_condition_reg,   \* cores that owe a context switch
  answer_type,        \* answer_type[t]: what made context t ready
  answer_out,         \* answer_out[a]: the answer shown to the selected context
  lock_request,       \* contexts that asked for the lock
  lock_free,          \* is the lock free?
  register,           \* register[a]: contexts of a at the barrier, modulo
  barrier_done,       \* cores all of whose contexts are at the barrier
  mem,                \* contexts with a memory request in flight
  base_addr,          \* base_addr[t]: the reduction list stored for t
  combined,           \* workers whose list the master has fetched
  got                 \* the list the master fetched last

threadVars == <<pc, wait>>
csVars == <<start_reg, started, done_reg, current_tid, thread_ready,
            thread_ready_empty, cs_condition_reg, answer_type, answer_out>>
lockVars == <<lock_request, lock_free>>
barrierVars == <<register, barrier_done>>
reduceVars == <<base_addr, combined, got>>
vars == <<forks, threadVars, csVars, lockVars, barrierVars, mem, reduceVars>>

Answers == {"data", "lock", "barrier"}

TypeOK ==
  /\ forks \in 0 .. MaxForks
  /\ pc \in [Thread -> 1 .. Len(Program) + 1]
  /\ wait \in [Thread -> Answers \cup {"no", "idle", "done"}]
  /\ start_reg \subseteq Thread
  /\ started \subseteq Core
  /\ done_reg \subseteq Thread
  /\ current_tid \in [Core -> 0 .. Ncontext - 1]
  /\ \A a \in Core : <<a, current_tid[a]>> \in Thread
  /\ thread_ready \subseteq Thread
  /\ thread_ready_empty \subseteq Core
  /\ cs_condition_reg \subseteq Core
  /\ answer_type \in [Thread -> Answers \cup {"none"}]
  /\ answer_out \in [Core -> Answers \cup {"none"}]
  /\ lock_request \subseteq Thread
  /\ lock_free \in BOOLEAN
  /\ register \in [Core -> 0 .. ContextNumber - 1]
  /\ barrier_done \subseteq Core
  /\ mem \subseteq Thread
  /\ base_addr \in [Thread -> SUBSET AddressBits]
  /\ combined \in 0 .. Nthread - 1
  /\ got \subseteq AddressBits

(* Reset. *)
Init ==
  /\ forks = 0
  /\ pc = [t \in Thread |-> 1]
  /\ wait = [t \in Thread |-> "idle"]
  /\ start_reg = {} /\ started = {} /\ done_reg = {}
  /\ current_tid = [a \in Core |-> 0]
  /\ thread_ready = {t \in Thread : t[2] # 0}
  /\ thread_ready_empty = {} /\ cs_condition_reg = {}
  /\ answer_type = [t \in Thread |-> "none"]
  /\ answer_out = [a \in Core |-> "none"]
  /\ lock_request = {} /\ lock_free = TRUE
  /\ register = [a \in Core |-> 0] /\ barrier_done = {}
  /\ mem = {}
  /\ base_addr = [t \in Thread |-> {}] /\ combined = 0 /\ got = {}

-----------------------------------------------------------------------------
(* Wires.  issued[a] is the operation the selected context of core a       *)
(* issues in this cycle, "skip" for a conditional memory access that is    *)
(* left out, "none" while it computes or waits.                            *)

Cur(a) == <<a, current_tid[a]>>
Selected(t) == t = Cur(t[1])

Op(t) == IF pc[t] = Len(Program) + 1 THEN "end" ELSE Program[pc[t]].op

(* The selected context of core a is executing. *)
CanMove(a) == a \in started /\ wait[Cur(a)] = "no"

(* What the selected context of core a may do in a cycle. *)
CoreChoices(a) == IF ~CanMove(a) THEN {"none"}
              ELSE {"none", Op(Cur(a))} \cup (IF Op(Cur(a)) = "load" THEN {"skip"} ELSE {})

Issues(t, ops, issued) == Selected(t) /\ issued[t[1]] \in ops

(* start_port_out of kmp_bambu_omp_start_cs and done_port of kmp_bambu_omp_done_cs. *)
ComponentDone(a) == ThreadsOf[a] \subseteq done_reg
StartPortOut(t) ==
  Selected(t) /\ t \in start_reg /\ t[1] \in started /\ ~ComponentDone(t[1])

(* Faulty variant of WaitAllThreads: the first core that is complete       *)
(* releases everybody (an OR of the done bits for an AND).                 *)
WaitAnyCore == barrier_done # {}

(* kmp_bambu_wait_all_threads_rd and register_reset: one pulse, once every  *)
(* core is done.                                                           *)
WaitAllThreads == barrier_done = Core

(* A priority encoder selects the first of its inputs, in the order of     *)
(* cores and contexts.  The one with 16 inputs tests input 8 twice where   *)
(* it means 9 (o[2]): when 9 is the first, 10 and 11 do not ask and one of *)
(* the last four does, it selects 13, whether 13 asks or not.              *)
First(S) == CHOOSE t \in S : \A u \in S : t[1] < u[1] \/ (t[1] = u[1] /\ t[2] =< u[2])
Index(t) == t[1] * ContextNumber + t[2]
Misled(S) ==
  LET asking == {Index(t) : t \in S}
  IN RegSize = 16 /\ asking \cap (0 .. 11) = {9} /\ asking \cap (12 .. 15) # {}
Encoded(S) == IF Misled(S) THEN CHOOSE t \in Thread : Index(t) = 13 ELSE First(S)

(* The lock goes to the request its encoder selects.                       *)
Granted == IF lock_free /\ lock_request # {} THEN {Encoded(lock_request)} ELSE {}

(* What makes the manager of a core look for another context. *)
CsCondition(a, issued) == issued[a] \in {"load", "combine", "enter", "wait", "end"}

ReadyOf(a) == thread_ready \cap ThreadsOf[a]

(* Faulty variants of ThreadReadyValid: a switch nobody asked for, and a    *)
(* switch that is not remembered until a context is ready.                 *)
ThreadReadyUnasked(a, cond) == a \in thread_ready_empty /\ ReadyOf(a) # {}
ThreadReadyForgets(a, cond) == cond /\ a \in thread_ready_empty /\ ReadyOf(a) # {}

ThreadReadyValid(a, cond) ==
  /\ cond \/ a \in cs_condition_reg
  /\ a \in thread_ready_empty /\ ReadyOf(a) # {}
CsNext(a, cond) == (cond /\ ReadyOf(a) # {}) \/ ThreadReadyValid(a, cond)
NewTid(a) == First(ReadyOf(a))[2]

-----------------------------------------------------------------------------
(* The parts of a cycle.                                                   *)

(* The state machines of the contexts and the functional units: an answer  *)
(* ends the operation that waits for it, a start pulse begins the program, *)
(* and a running context issues its operation.                             *)
Resumes(t) == Selected(t) /\ t[1] \in started /\ answer_out[t[1]] = wait[t]
MoreToCombine == combined < Nthread - 1

NextPc(t, issued) ==
  CASE Resumes(t) -> IF Op(t) = "combine" /\ MoreToCombine THEN pc[t] - 1 ELSE pc[t] + 1
    [] Issues(t, {"skip", "exit", "reach", "set"}, issued) -> pc[t] + 1
    [] Issues(t, {"get"}, issued) -> IF t = Master THEN pc[t] + 1 ELSE pc[t] + 2
    [] OTHER -> pc[t]

NextWait(t, issued) ==
  CASE Resumes(t) \/ StartPortOut(t) -> "no"
    [] Issues(t, {"load", "combine"}, issued) -> "data"
    [] Issues(t, {"enter"}, issued) -> "lock"
    [] Issues(t, {"wait"}, issued) -> "barrier"
    [] Issues(t, {"end"}, issued) -> "done"
    [] OTHER -> wait[t]

Contexts(issued) ==
  /\ pc' = [t \in Thread |-> NextPc(t, issued)]
  /\ wait' = [t \in Thread |-> NextWait(t, issued)]

(* kmp_bambu_omp_start_cs, kmp_bambu_omp_done_cs and the started flag of    *)
(* the context switch manager.                                             *)
StartDone(issued) ==
  /\ start_reg' = {t \in start_reg : ~StartPortOut(t)}
  /\ done_reg' = {t \in Thread : /\ t \in done_reg \/ Issues(t, {"end"}, issued)
                                /\ ~ComponentDone(t[1])}
  /\ started' = {a \in started : ~ComponentDone(a)}

(* kmp_bambu_cs_manager. *)
CsManager(issued, rdy) ==
  LET cond == {a \in Core : CsCondition(a, issued)}
      next == {a \in Core : CsNext(a, a \in cond)}
      datardy == {t \in rdy : t[1] \in started}
      lock    == {t \in Granted : t[1] \in started}
      waitall == IF WaitAllThreads THEN {t \in Thread : t[1] \in started} ELSE {}
  IN /\ current_tid' = [a \in Core |-> IF a \in next THEN NewTid(a) ELSE current_tid[a]]
     /\ thread_ready' = {t \in Thread :
                          /\ t \in thread_ready \/ t \in datardy \/ t \in waitall \/ t \in lock
                          /\ ~(t[1] \in next /\ t[2] = NewTid(t[1]))}
     /\ thread_ready_empty' = {a \in Core : ReadyOf(a) = {}}
     /\ cs_condition_reg' = {a \in Core : (a \in cond \/ a \in cs_condition_reg) /\ a \notin next}
     /\ answer_type' = [t \in Thread |->
                          CASE t \in datardy -> "data"
                            [] t \in lock \ datardy -> "lock"
                            [] t \in waitall \ (datardy \cup lock) -> "barrier"
                            [] OTHER -> answer_type[t]]
     /\ answer_out' = [a \in Core |->
                          IF a \in next THEN answer_type[<<a, NewTid(a)>>] ELSE "none"]

(* Faulty variant of CriticalManager: a grant does not take the lock.      *)
CriticalManagerOpen(issued) ==
  /\ lock_request' = {t \in Thread : /\ t \in lock_request \/ Issues(t, {"enter"}, issued)
                                    /\ t \notin Granted}
  /\ lock_free' = \/ lock_free
                  \/ \E t \in Thread : Issues(t, {"exit"}, issued)

(* kmp_bambu_fork_call_critical_manager: one lock, whatever the name of the *)
(* critical section.                                                       *)
CriticalManager(issued) ==
  /\ lock_request' = {t \in Thread : /\ t \in lock_request \/ Issues(t, {"enter"}, issued)
                                    /\ t \notin Granted}
  /\ lock_free' = \/ lock_free /\ lock_request = {}
                  \/ \E t \in Thread : Issues(t, {"exit"}, issued)

(* A context of core a signals that it reached the barrier. *)
Arrives(a, issued) == Issues(Cur(a), {"reach"}, issued)

(* kmp_bambu_barrier_register: the release of the waiting threads also     *)
(* resets the barrier.                                                     *)
BarrierRegister(issued) ==
  IF WaitAllThreads
  THEN register' = [a \in Core |-> 0] /\ barrier_done' = {}
  ELSE /\ register' = [a \in Core |->
             (register[a] + (IF Arrives(a, issued) THEN 1 ELSE 0)) % ContextNumber]
       /\ barrier_done' = {a \in Core :
            a \in barrier_done \/ (Arrives(a, issued) /\ register[a] = ContextNumber - 1)}

(* The memory behind the cores: a request is answered once. *)
Memory(issued, rdy) ==
  mem' = {t \in Thread : \/ t \in mem /\ t \notin rdy
                         \/ Issues(t, {"load", "combine"}, issued)}

(* kmp_bambu_reduce_manager: a store ORs the pointer into the register.    *)
Or(v, w) == {b \in AddressBits : b \in v \/ b \in w}
ReduceManager(issued) ==
  /\ base_addr' = [t \in Thread |-> IF Issues(t, {"set"}, issued)
                                    THEN Or(base_addr[t], Program[pc[t]].list)
                                    ELSE base_addr[t]]
  /\ IF Issues(Master, {"get"}, issued)
     THEN combined' = combined + 1 /\ got' = base_addr[ThreadOf(combined + 1)]
     ELSE /\ combined' = IF Resumes(Master) /\ Op(Master) = "combine" /\ ~MoreToCombine
                         THEN 0 ELSE combined
          /\ UNCHANGED got

Tick(issued, rdy) ==
  /\ Contexts(issued)
  /\ StartDone(issued)
  /\ CsManager(issued, rdy)
  /\ CriticalManager(issued)
  /\ BarrierRegister(issued)
  /\ Memory(issued, rdy)
  /\ ReduceManager(issued)
  /\ UNCHANGED forks

(* The start pulse of a fork reaches every core in the same cycle: the     *)
(* calls of the cores are in one basic block and do not depend on each     *)
(* other.  The fork returns when the last core is done.                    *)
Fork ==
  /\ started = {} /\ forks < MaxForks
  /\ forks' = forks + 1
  /\ started' = Core
  /\ start_reg' = Thread
  /\ current_tid' = [a \in Core |-> 0]
  /\ thread_ready' = {t \in Thread : t[2] # 0}
  /\ thread_ready_empty' = {} /\ cs_condition_reg' = {}
  /\ answer_type' = [t \in Thread |-> "none"]
  /\ answer_out' = [a \in Core |-> "none"]
  /\ pc' = [t \in Thread |-> 1] /\ wait' = [t \in Thread |-> "idle"]
  /\ UNCHANGED <<done_reg, lockVars, barrierVars, mem, reduceVars>>

(* The operations the cores may issue, and the answers the memory may give *)
(* (at most one per core), in one cycle.                                   *)
Issuable == {f \in [Core -> UNION {CoreChoices(a) : a \in Core}] :
               \A a \in Core : f[a] \in CoreChoices(a)}
Rdys == {r \in SUBSET mem : \A t, u \in r : t[1] = u[1] => t = u}

Cycle == \E issued \in Issuable, rdy \in Rdys : Tick(issued, rdy)

Next == Fork \/ Cycle

(* Fairness: the fork call is made and the clock ticks; a computation ends *)
(* and the memory answers.  The last two are weak fairness of the cycles   *)
(* in which core a issues, and in which t is answered, with what enables   *)
(* them written out: a running context can always issue, and a request in  *)
(* flight can always be answered.                                          *)
Quiet == Tick([a \in Core |-> "none"], {})
Issued(a) == CanMove(a) /\ (pc'[Cur(a)] # pc[Cur(a)] \/ wait'[Cur(a)] # wait[Cur(a)])
Answered(t) == t \in mem /\ t \notin mem'
Fairness == /\ WF_vars(Fork) /\ WF_vars(Quiet)
            /\ \A a \in Core : []<>~CanMove(a) \/ []<><<Issued(a)>>_vars
            /\ \A t \in Thread : []<>(t \notin mem) \/ []<><<Answered(t)>>_vars

Spec == Init /\ [][Next]_vars
FairSpec == Spec /\ Fairness

-----------------------------------------------------------------------------
(* Properties.                                                             *)

(* A thread holds the lock from the grant to the release: between them it  *)
(* may have been switched out, or not yet be resumed.                      *)
Holds(t) == \/ Depth[pc[t]] = 1
            \/ wait[t] = "lock" /\ t \notin lock_request

(* Critical sections exclude each other, over all cores and contexts, also *)
(* while their owner is switched out or its grant is still on the way      *)
(* through the context switch manager; and the lock register is free only  *)
(* when nobody holds the lock (lock_free_next of the critical manager).    *)
MutualExclusion ==
  /\ \A t, u \in Thread : Holds(t) /\ Holds(u) => t = u
  /\ lock_free <=> \A t \in Thread : ~Holds(t)

(* No thread leaves a barrier that another thread of the team has not      *)
(* reached: what KMP_WAIT_ALL_THREADS is for, whatever the switches on     *)
(* the way and however many barriers follow each other.                    *)
BarrierHolds ==
  \A t, u \in Thread : \A p \in 1 .. Len(Program) :
    Program[p].op = "wait" /\ pc[t] > p => pc[u] >= p

(* Where the wake-up of a suspended context is: with the memory, with the  *)
(* lock manager, in the ready vector under its own kind of answer, or on   *)
(* the wires to the selected context.                                      *)
InReady(t, kind) == t \in thread_ready /\ answer_type[t] = kind
OnWires(t, kind) == Selected(t) /\ answer_out[t[1]] = kind

(* A running context is the selected one of its core.                      *)
(* A suspended context is never forgotten and never answered twice or with *)
(* somebody else's answer: its wake-up is in exactly one place.  A lost or *)
(* doubled bit of the ready vector would hang the core or resume a context *)
(* whose request is still in flight (thread_ready_next, thread_delete and  *)
(* the answer types of kmp_bambu_cs_manager).                              *)
Once(t, kind, asked) ==
  Cardinality({i \in 1 .. 3 : <<asked, InReady(t, kind), OnWires(t, kind)>>[i]}) = 1
WakeUpOnce ==
  \A t \in Thread :
    /\ wait[t] = "no" /\ t[1] \in started => Selected(t)
    /\ wait[t] = "data" => Once(t, "data", t \in mem)
    /\ wait[t] = "lock" => Once(t, "lock", t \in lock_request)
    /\ wait[t] = "barrier" =>
         Once(t, "barrier", WaitAllThreads \/ \E u \in Thread : pc[u] < pc[t])
    /\ wait[t] = "idle" /\ t[1] \in started =>
         t \in start_reg /\ (Selected(t) <=> t \notin thread_ready)
    /\ t \in mem => wait[t] = "data"
    /\ t \in lock_request => wait[t] = "lock"
    /\ \A kind \in Answers : OnWires(t, kind) => wait[t] = kind

(* The list the master hands to the reduction function is the one the      *)
(* worker gave for this reduction: "get the thread local reduce_data       *)
(* pointer from thread tid" (kmp_bambu.h).                                 *)
ReduceReads ==
  Op(Master) = "combine" => got = Program[pc[Master] - 1].list

(* A parallel region that is started ends: no context stays suspended, the *)
(* done pulses of all contexts are collected and the cores can be started  *)
(* again.                                                                  *)
Joins == started # {} ~> started = {}
-----------------------------------------------------------------------------
(* Why the properties hold.                                                *)

Types ==
  /\ pc \in [Thread -> 1 .. Len(Program) + 1]
  /\ wait \in [Thread -> Answers \cup {"no", "idle", "done"}]
  /\ start_reg \subseteq Thread /\ started \subseteq Core /\ done_reg \subseteq Thread
  /\ current_tid \in [Core -> 0 .. Ncontext - 1]
  /\ \A a \in Core : Cur(a) \in Thread
  /\ thread_ready \subseteq Thread
  /\ thread_ready_empty \subseteq Core /\ cs_condition_reg \subseteq Core
  /\ answer_type \in [Thread -> Answers \cup {"none"}]
  /\ answer_out \in [Core -> Answers \cup {"none"}]
  /\ lock_request \subseteq Thread /\ lock_free \in BOOLEAN
  /\ register \in [Core -> 0 .. ContextNumber - 1] /\ barrier_done \subseteq Core
  /\ mem \subseteq Thread

(* The state of a context, by what it waits for: it has not begun, it is   *)
(* the one that runs on its core, it is suspended, or it has ended.  The   *)
(* release of a barrier may reach a context that still has to wait.        *)
Asker(kind) ==
  CASE kind = "data" -> {"load", "combine"} [] kind = "lock" -> {"enter"} [] kind = "barrier" -> {"wait"}
NotBegun(t) ==
  /\ pc[t] = 1 /\ answer_type[t] = "none"
  /\ t \notin thread_ready <=> Selected(t)
  /\ t[1] \in started => t \in start_reg
Running(t) ==
  /\ t[1] \in started /\ Selected(t)
  /\ t[1] \notin cs_condition_reg /\ answer_out[t[1]] = "none"
  /\ t \in thread_ready => Op(t) = "wait" /\ answer_type[t] = "barrier"
Suspended(t, kind) ==
  /\ t[1] \in started
  /\ Op(t) \in Asker(kind)
  /\ t \in thread_ready => answer_type[t] = kind /\ ~OnWires(t, kind)
Over(t) ==
  /\ pc[t] = Len(Program) + 1
  /\ t \notin thread_ready
  /\ t[1] \in started <=> t \in done_reg
ContextState(t) ==
  /\ wait[t] = "idle" => NotBegun(t)
  /\ wait[t] = "no" => Running(t)
  /\ \A kind \in Answers : wait[t] = kind => Suspended(t, kind)
  /\ wait[t] = "done" => Over(t)
  /\ t \in done_reg => wait[t] = "done"
  /\ t \in start_reg => wait[t] = "idle"

(* A request is with the memory or with the lock manager until it is       *)
(* answered.                                                               *)
Pending(t, kind) == wait[t] = kind /\ ~InReady(t, kind) /\ ~OnWires(t, kind)
Requests(t) ==
  /\ t \in mem <=> Pending(t, "data")
  /\ t \in lock_request <=> Pending(t, "lock")

(* A core that owes a switch had no ready context in the last cycle and    *)
(* runs nothing; an answer on the wires is for the selected context.       *)
CoreState(a) ==
  /\ a \in cs_condition_reg =>
       /\ a \in thread_ready_empty /\ answer_out[a] = "none"
       /\ wait[Cur(a)] \in Answers \cup {"done"}
       /\ a \notin started => ReadyOf(a) = {}
  /\ answer_out[a] # "none" =>
       a \in started /\ a \notin cs_condition_reg /\ wait[Cur(a)] = answer_out[a]

(* A context at a wait has arrived at the barrier until it is released.    *)
(* The threads are in the same round: they have passed the same barriers,  *)
(* a release counting as the passage.  The register of a core counts the   *)
(* contexts that have arrived.                                             *)
Released(t) == InReady(t, "barrier") \/ OnWires(t, "barrier")
Arrived(t) == Op(t) = "wait" /\ ~Released(t)
Frontier(t) == IF Released(t) THEN pc[t] + 1 ELSE pc[t]
SameRound ==
  \A t, u \in Thread : \A p \in 1 .. Len(Program) :
    Program[p].op = "wait" => (Frontier(t) > p <=> Frontier(u) > p)
Arrivals(a) == {t \in ThreadsOf[a] : Arrived(t)}
Counted(a) ==
  /\ a \in barrier_done => Arrivals(a) = ThreadsOf[a] /\ register[a] = 0
  /\ a \notin barrier_done => register[a] = Cardinality(Arrivals(a))

Inductive ==
  /\ RegSize # 16    \* the lock's encoder is one that selects the first request
  /\ Types
  /\ \A t \in Thread : ContextState(t) /\ Requests(t)
  /\ \A a \in Core : CoreState(a) /\ Counted(a)
  /\ SameRound
  /\ MutualExclusion

(* The reduce manager: the master counts the workers it fetched from, from *)
(* its first get to the end of its last combine.  A region in which every  *)
(* reduction uses the list at the same address L stores L and nothing else *)
(* in the register of a thread, and a thread that is past a set did so.    *)
Reducing ==
  /\ forks \in 0 .. MaxForks
  /\ base_addr \in [Thread -> SUBSET AddressBits] /\ got \subseteq AddressBits
  /\ combined \in 0 .. Nthread - 1
  /\ Op(Master) = "get" => combined < Nthread - 1
  /\ Op(Master) = "combine" => combined > 0
  /\ Op(Master) \notin {"get", "combine"} => combined = 0
OneList(L) ==
  /\ \A p \in 1 .. Len(Program) : Program[p].op \in {"set", "get"} => Program[p].list = L
  /\ \A p \in 1 .. Len(Program) : Program[p].op = "get" =>
       \E q, w \in 1 .. p - 1 : q < w /\ Program[q].op = "set" /\ Program[w].op = "wait"
Stored(L) ==
  /\ \A t \in Thread : base_addr[t] \in {{}, L}
  /\ \A t \in Thread : \A p \in 1 .. Len(Program) :
       Program[p].op = "set" /\ pc[t] > p => base_addr[t] = L
  /\ Op(Master) = "combine" => got = L
=============================================================================
