------------------------- MODULE OmpContexts_proofs -------------------------
(***************************************************************************)
(* The proofs about OmpContexts: the lock excludes, a barrier holds, and   *)
(* the wake-up of a suspended context is in exactly one place, for every   *)
(* number of threads and contexts and every program of a region, provided  *)
(* that the lock manager does not have 16 requests: the encoder of that    *)
(* size can select a context that did not ask (OmpContexts, Misled).       *)
(***************************************************************************)
EXTENDS OmpContexts, InductionFacts, FiniteSetTheorems, FunctionTheorems, TLAPS

-----------------------------------------------------------------------------
(* The team.                                                               *)

\* Every core has a context, and no more than it is numbered for (compute_current_threads).
LEMMA Contexted ==
    /\ Ncore \in Nat /\ Ncore > 0 /\ 0 \in Core
    /\ \A a \in Core : ComputeCurrentThreads(a) \in 1 .. Ncontext
<1>1. CASE Ncontext = 2  BY <1>1, TeamAssumption DEF Ncore, Core, ComputeCurrentThreads
<1>2. CASE Ncontext = 4  BY <1>2, TeamAssumption DEF Ncore, Core, ComputeCurrentThreads
<1>3. CASE Ncontext = 8  BY <1>3, TeamAssumption DEF Ncore, Core, ComputeCurrentThreads
<1> QED  BY <1>1, <1>2, <1>3, TeamAssumption

\* A thread is a core and a context of it; every core has a context 0.
LEMMA ThreadFacts ==
    /\ \A t \in Thread : t[1] \in Core /\ t[2] \in 0 .. Ncontext - 1 /\ t = <<t[1], t[2]>>
    /\ \A a \in Core : \A t : t \in ThreadsOf[a] <=> t \in Thread /\ t[1] = a
    /\ \A a \in Core : <<a, 0>> \in Thread
<1>1. \A t \in Thread : t[1] \in Core /\ t[2] \in 0 .. Ncontext - 1 /\ t = <<t[1], t[2]>>
    BY DEF Thread
<1>2. \A a \in Core : \A t : t \in ThreadsOf[a] <=> t \in Thread /\ t[1] = a  BY DEF ThreadsOf
<1>3. ASSUME NEW a \in Core PROVE <<a, 0>> \in Thread
    <2>1. 0 < ComputeCurrentThreads(a) /\ 0 \in 0 .. Ncontext - 1  BY Contexted, TeamAssumption
    <2> HIDE DEF Core
    <2> QED  BY <2>1 DEF Thread
<1> QED  BY <1>1, <1>2, <1>3

\* The shared managers are wide enough for every core.
LEMMA ContextNumberFacts ==
    /\ ContextNumber \in 1 .. Ncontext
    /\ \A a \in Core : ComputeCurrentThreads(a) =< ContextNumber
<1> DEFINE Wide(n) == /\ \E a \in Core : ComputeCurrentThreads(a) = n
                      /\ \A a \in Core : ComputeCurrentThreads(a) =< n
<1>0. Ncontext \in Nat /\ Ncontext > 0  BY TeamAssumption
<1>1. \E n \in 1 .. Ncontext : Wide(n)
    <2>1. CASE \E a \in Core : ComputeCurrentThreads(a) = Ncontext
        <3>1. Ncontext \in 1 .. Ncontext /\ Wide(Ncontext)  BY <1>0, <2>1, Contexted
        <3> QED  BY <3>1
    <2>2. CASE ~\E a \in Core : ComputeCurrentThreads(a) = Ncontext
        <3>1. \A a \in Core : ComputeCurrentThreads(a) = ComputeCurrentThreads(0)
            BY <2>2, Contexted DEF ComputeCurrentThreads
        <3>2. Wide(ComputeCurrentThreads(0))  BY <3>1, Contexted
        <3> QED  BY <3>2, Contexted
    <2> QED  BY <2>1, <2>2
<1>2. ContextNumber = CHOOSE n \in 1 .. Ncontext : Wide(n)  BY DEF ContextNumber
<1> HIDE DEF Wide
<1>3. ContextNumber \in 1 .. Ncontext /\ Wide(ContextNumber)  BY <1>1, <1>2
<1> QED  BY <1>3 DEF Wide

\* A core has as many threads as it has contexts.
LEMMA ThreadsCounted ==
    ASSUME NEW a \in Core
    PROVE  /\ IsFiniteSet(ThreadsOf[a])
           /\ Cardinality(ThreadsOf[a]) = ComputeCurrentThreads(a)
           /\ Cardinality(ThreadsOf[a]) \in Nat /\ Cardinality(ThreadsOf[a]) =< ContextNumber
<1> DEFINE k == ComputeCurrentThreads(a)
           f == [c \in 0 .. k - 1 |-> <<a, c>>]
<1>1. k \in 1 .. Ncontext /\ Ncontext \in Nat  BY Contexted, TeamAssumption
<1>2. \A t : t \in ThreadsOf[a] <=> \E c \in 0 .. k - 1 : t = <<a, c>>
    BY <1>1 DEF ThreadsOf, Thread
<1> HIDE DEF k
<1>3. f \in Bijection(0 .. k - 1, ThreadsOf[a])
    <2>1. f \in [0 .. k - 1 -> ThreadsOf[a]]  BY <1>2
    <2>2. \A c, d \in 0 .. k - 1 : f[c] = f[d] => c = d  OBVIOUS
    <2>3. \A t \in ThreadsOf[a] : \E c \in 0 .. k - 1 : f[c] = t  BY <1>2
    <2> HIDE DEF f
    <2> QED  BY <2>1, <2>2, <2>3 DEF Bijection, Injection, IsInjective, Surjection
<1> HIDE DEF f
<1>4. IsFiniteSet(0 .. k - 1) /\ Cardinality(0 .. k - 1) = k
    BY <1>1, FS_Interval
<1>5. IsFiniteSet(ThreadsOf[a]) /\ Cardinality(ThreadsOf[a]) = k
    BY <1>3, <1>4, FS_Bijection DEF ExistsBijection
<1> QED  BY <1>1, <1>5, ContextNumberFacts DEF k

\* The first context of a set, in the order of cores and contexts, is one of the set.
LEMMA FirstIn ==
    ASSUME NEW S \in SUBSET Thread, S # {}
    PROVE  First(S) \in S
<1>0. \A t \in S : t[1] \in Nat /\ t[2] \in Nat
    BY ThreadFacts, Contexted, TeamAssumption DEF Core
<1> DEFINE Cores == {t[1] : t \in S}
<1>1. PICK a \in Cores : \A b \in Cores : a =< b
    <2>1. Cores \in SUBSET Nat /\ Cores # {}  BY <1>0
    <2> HIDE DEF Cores
    <2> QED  BY <2>1, Least
<1> DEFINE On0 == {t \in S : t[1] = a}
           Numbers == {t[2] : t \in On0}
<1>2. PICK c \in Numbers : \A d \in Numbers : c =< d
    <2>1. Numbers \in SUBSET Nat /\ Numbers # {}  BY <1>0, <1>1
    <2> HIDE DEF Numbers
    <2> QED  BY <2>1, Least
<1>3. PICK t \in On0 : t[2] = c  BY <1>2
<1>4. \A u \in S : t[1] < u[1] \/ (t[1] = u[1] /\ t[2] =< u[2])
    <2> TAKE u \in S
    <2>1. t[1] = a /\ a =< u[1]  BY <1>1, <1>3
    <2>2. CASE u[1] = a  BY <1>2, <1>3, <2>1, <2>2
    <2> QED  BY <1>0, <1>3, <2>1, <2>2
<1>5. t \in S  BY <1>3
<1> HIDE DEF Cores, On0, Numbers
<1> QED  BY <1>4, <1>5 DEF First

-----------------------------------------------------------------------------
(* The program of a region.                                                *)

\* The depth of critical sections changes by one at an enter and at an exit, and nowhere
\* else.
LEMMA DepthStep ==
    ASSUME NEW p \in 1 .. Len(Program)
    PROVE  /\ Depth[p] \in Int /\ Depth[p + 1] \in Int
           /\ Depth[p + 1] = IF Program[p].op = "enter" THEN Depth[p] + 1
                             ELSE IF Program[p].op = "exit" THEN Depth[p] - 1 ELSE Depth[p]
<1>0. Len(Program) \in Nat  BY ProgramAssumption
<1> DEFINE Of(o, q) == {i \in 1 .. q - 1 : Program[i].op = o}
<1>1. ASSUME NEW o, NEW q \in 1 .. Len(Program) + 1
      PROVE  IsFiniteSet(Of(o, q)) /\ Cardinality(Of(o, q)) \in Nat
    <2>1. IsFiniteSet(1 .. q - 1)  BY <1>0, FS_Interval
    <2>2. Of(o, q) \subseteq 1 .. q - 1  OBVIOUS
    <2> HIDE DEF Of
    <2> QED  BY <2>1, <2>2, FS_Subset, FS_CardinalityType
<1>2. ASSUME NEW o
      PROVE  Cardinality(Of(o, p + 1)) = Cardinality(Of(o, p)) + (IF Program[p].op = o THEN 1 ELSE 0)
    <2>1. CASE Program[p].op = o
        <3>1. Of(o, p + 1) = Of(o, p) \cup {p} /\ p \notin Of(o, p)  BY <1>0, <2>1
        <3>2. p \in 1 .. Len(Program) + 1  BY <1>0
        <3> HIDE DEF Of
        <3>3. IsFiniteSet(Of(o, p))  BY <1>1, <3>2
        <3> QED  BY <2>1, <3>1, <3>3, FS_AddElement
    <2>2. CASE Program[p].op # o
        <3>1. Of(o, p + 1) = Of(o, p)  BY <1>0, <2>2
        <3>2. p \in 1 .. Len(Program) + 1  BY <1>0
        <3> HIDE DEF Of
        <3>3. Cardinality(Of(o, p)) \in Nat  BY <1>1, <3>2
        <3> QED  BY <2>2, <3>1, <3>3
    <2> QED  BY <2>1, <2>2
<1>3. p \in 1 .. Len(Program) + 1 /\ p + 1 \in 1 .. Len(Program) + 1  BY <1>0
<1>4. /\ Depth[p] = Cardinality(Of("enter", p)) - Cardinality(Of("exit", p))
      /\ Depth[p + 1] = Cardinality(Of("enter", p + 1)) - Cardinality(Of("exit", p + 1))
    BY <1>3 DEF Depth
<1>5. /\ Cardinality(Of("enter", p)) \in Nat /\ Cardinality(Of("exit", p)) \in Nat
      /\ Cardinality(Of("enter", p + 1)) \in Nat /\ Cardinality(Of("exit", p + 1)) \in Nat
    BY <1>1, <1>3
<1> HIDE DEF Of
<1> QED  BY <1>2, <1>4, <1>5

\* What the operation at p says of its neighbours and of the critical section around it.
Around(p) ==
    /\ Program[p].op \in Ops
    /\ Program[p].op = "reach" => p < Len(Program) /\ Program[p + 1].op = "wait"
    /\ Program[p].op = "get" => p < Len(Program) /\ Program[p + 1].op = "combine"
    /\ Program[p].op = "wait" => p > 1 /\ Program[p - 1].op = "reach"
    /\ Program[p].op = "combine" => p > 1 /\ Program[p - 1].op = "get"
    /\ Program[p].op \in {"enter", "reach", "wait", "get", "combine"} => Depth[p] = 0
    /\ Program[p].op = "exit" => Depth[p] = 1 /\ Depth[p + 1] = 0
    /\ Program[p].op = "enter" => Depth[p + 1] = 1
    /\ Program[p].op \notin {"enter", "exit"} => Depth[p + 1] = Depth[p]
    /\ Program[p].op = "get" => Depth[p + 2] = 0
    /\ Program[p].op = "combine" => Depth[p - 1] = 0

\* What the assumption on the region says of a position and its neighbours.
LEMMA ProgramFacts ==
    /\ Len(Program) \in Nat
    /\ \A p \in 1 .. Len(Program) : Around(p)
    /\ Depth[1] = 0 /\ Depth[Len(Program) + 1] = 0
<1>0. Len(Program) \in Nat  BY ProgramAssumption
<1>1. Depth[1] = 0
    <2>1. 1 \in 1 .. Len(Program) + 1  BY <1>0
    <2>2. \A o : {i \in 1 .. 1 - 1 : Program[i].op = o} = {}  OBVIOUS
    <2>3. Depth[1] = Cardinality({i \in 1 .. 1 - 1 : Program[i].op = "enter"})
                     - Cardinality({i \in 1 .. 1 - 1 : Program[i].op = "exit"})
        BY <2>1 DEF Depth
    <2>4. Depth[1] = Cardinality({}) - Cardinality({})  BY <2>2, <2>3
    <2> QED  BY <2>4, FS_EmptySet
<1>2. ASSUME NEW p \in 1 .. Len(Program) PROVE Around(p)
    <2>1. Program[p].op \in Ops
        <3> DEFINE R == [op : Ops, list : SUBSET Nat]
        <3>1. Program \in Seq(R)  BY ProgramAssumption
        <3> HIDE DEF R
        <3>2. Program[p] \in R  BY <3>1
        <3> QED  BY <3>2 DEF R
    <2>2. /\ Program[p].op = "exit" => Depth[p] = 1
          /\ Program[p].op \in {"enter", "reach", "wait", "get", "combine"} => Depth[p] = 0
          /\ Program[p].op = "reach" => p < Len(Program) /\ Program[p + 1].op = "wait"
          /\ Program[p].op = "get" => p < Len(Program) /\ Program[p + 1].op = "combine"
        BY ProgramAssumption
    <2>3. Program[p].op \in {"wait", "combine"} => p > 1
        <3>1. Program # <<>>  BY <1>0
        <3> QED  BY <3>1, ProgramAssumption
    <2>4. p > 1 => /\ Program[p].op = "wait" => Program[p - 1].op = "reach"
                   /\ Program[p].op = "combine" => Program[p - 1].op = "get"
        <3> SUFFICES ASSUME p > 1
                     PROVE  /\ Program[p].op = "wait" => Program[p - 1].op = "reach"
                            /\ Program[p].op = "combine" => Program[p - 1].op = "get"
            OBVIOUS
        <3>1. p - 1 \in 1 .. Len(Program) /\ p - 1 < Len(Program) /\ (p - 1) + 1 = p  BY <1>0
        <3> QED  BY <3>1, ProgramAssumption
    <2>5. Program[p].op = "combine" => Depth[p - 1] = 0
        <3> SUFFICES ASSUME Program[p].op = "combine" PROVE Depth[p - 1] = 0  OBVIOUS
        <3>1. p - 1 \in 1 .. Len(Program) /\ Program[p - 1].op = "get"  BY <1>0, <2>3, <2>4
        <3> QED  BY <3>1, ProgramAssumption
    <2>6. Program[p].op = "get" => Depth[p + 2] = 0
        <3> SUFFICES ASSUME Program[p].op = "get" PROVE Depth[p + 2] = 0  OBVIOUS
        <3>1. p + 1 \in 1 .. Len(Program) /\ Program[p + 1].op = "combine" /\ (p + 1) + 1 = p + 2
            BY <1>0, <2>2
        <3>2. Depth[p + 1] = 0  BY <3>1, ProgramAssumption
        <3>3. Depth[(p + 1) + 1] = Depth[p + 1]  BY <3>1, DepthStep
        <3> QED  BY <3>1, <3>2, <3>3
    <2>7. /\ Program[p].op = "exit" => Depth[p + 1] = 0
          /\ Program[p].op = "enter" => Depth[p + 1] = 1
          /\ Program[p].op \notin {"enter", "exit"} => Depth[p + 1] = Depth[p]
        BY <2>2, DepthStep
    <2> QED  BY <2>1, <2>2, <2>3, <2>4, <2>5, <2>6, <2>7 DEF Around
<1> QED  BY <1>0, <1>1, <1>2, ProgramAssumption
-----------------------------------------------------------------------------
(* One cycle, seen from a core and from a thread.                          *)

Switches(a, issued) == CsNext(a, CsCondition(a, issued))
Target(a) == <<a, NewTid(a)>>

\* What the invariant says of the selected contexts.
LEMMA CurFacts ==
    ASSUME Types
    PROVE  /\ \A a \in Core : Cur(a) \in Thread /\ Cur(a)[1] = a /\ Selected(Cur(a))
           /\ \A t \in Thread : Selected(t) <=> t = Cur(t[1])
           /\ \A t \in Thread : Op(t) \in Ops \cup {"end"}
           /\ \A t \in Thread : Op(t) # "end" => pc[t] \in 1 .. Len(Program) /\ Op(t) = Program[pc[t]].op
<1>1. \A a \in Core : Cur(a) \in Thread /\ Cur(a)[1] = a  BY DEF Types, Cur
<1>2. ASSUME NEW t \in Thread
      PROVE  /\ Op(t) \in Ops \cup {"end"}
             /\ Op(t) # "end" => pc[t] \in 1 .. Len(Program) /\ Op(t) = Program[pc[t]].op
    <2>1. pc[t] \in 1 .. Len(Program) + 1  BY DEF Types
    <2>2. CASE pc[t] = Len(Program) + 1  BY <2>2 DEF Op
    <2>3. CASE pc[t] # Len(Program) + 1
        <3>1. pc[t] \in 1 .. Len(Program)  BY <2>1, <2>3, ProgramFacts
        <3>2. Op(t) = Program[pc[t]].op  BY <2>3 DEF Op
        <3>3. Program[pc[t]].op \in Ops  BY <3>1, ProgramFacts DEF Around
        <3> QED  BY <3>1, <3>2, <3>3
    <2> QED  BY <2>2, <2>3
<1> QED  BY <1>1, <1>2 DEF Selected

\* The context a core switches to is a ready one, and somebody asked for the switch.
LEMMA TargetFacts ==
    ASSUME Types, NEW issued, NEW a \in Core, Switches(a, issued)
    PROVE  /\ Target(a) \in Thread /\ Target(a)[1] = a /\ Target(a) \in thread_ready
           /\ NewTid(a) \in 0 .. Ncontext - 1
           /\ CsCondition(a, issued) \/ a \in cs_condition_reg
<1>1. /\ ReadyOf(a) # {}
      /\ CsCondition(a, issued) \/ a \in cs_condition_reg
    BY DEF Switches, CsNext, ThreadReadyValid
<1>2. ReadyOf(a) \in SUBSET Thread  BY DEF ReadyOf, Types
<1>3. First(ReadyOf(a)) \in ReadyOf(a)  BY <1>1, <1>2, FirstIn
<1>4. First(ReadyOf(a)) \in Thread /\ First(ReadyOf(a))[1] = a /\ First(ReadyOf(a)) \in thread_ready
    <2>1. First(ReadyOf(a)) \in thread_ready /\ First(ReadyOf(a)) \in ThreadsOf[a]  BY <1>3 DEF ReadyOf
    <2> QED  BY <2>1, ThreadFacts
<1>5. Target(a) = First(ReadyOf(a)) /\ NewTid(a) \in 0 .. Ncontext - 1
    BY <1>4, ThreadFacts DEF Target, NewTid
<1> QED  BY <1>1, <1>4, <1>5

\* At most one request is granted in a cycle, and one is when the lock is free and somebody
\* asks (kmp_bambu_fork_call_critical_manager with an encoder of 4, 8, 32 or 64 inputs).
LEMMA GrantedFacts ==
    ASSUME RegSize # 16, Types
    PROVE  /\ Granted \subseteq lock_request /\ Granted \subseteq Thread
           /\ \A t, u \in Granted : t = u
           /\ Granted # {} => lock_free
           /\ lock_free /\ lock_request # {} => Granted # {}
<1>1. lock_request \in SUBSET Thread  BY DEF Types
<1>2. lock_request # {} => First(lock_request) \in lock_request  BY <1>1, FirstIn
<1>3. Encoded(lock_request) = First(lock_request)  BY DEF Encoded, Misled
<1> QED  BY <1>1, <1>2, <1>3 DEF Granted

\* A core issues the operation of its running context, or nothing.
LEMMA Choosing ==
    ASSUME NEW issued \in Issuable, NEW a \in Core
    PROVE  \/ issued[a] = "none"
           \/ /\ a \in started /\ wait[Cur(a)] = "no"
              /\ \/ issued[a] = Op(Cur(a))
                 \/ issued[a] = "skip" /\ Op(Cur(a)) = "load"
<1>1. issued[a] \in CoreChoices(a)  BY Zenon DEF Issuable
<1>2. CASE ~CanMove(a)  BY <1>1, <1>2 DEF CoreChoices
<1>3. CASE CanMove(a)
    <2>1. issued[a] \in {"none", Op(Cur(a))} \cup (IF Op(Cur(a)) = "load" THEN {"skip"} ELSE {})
        BY <1>1, <1>3, Zenon DEF CoreChoices
    <2>2. issued[a] = "none" \/ issued[a] = Op(Cur(a)) \/ (issued[a] = "skip" /\ Op(Cur(a)) = "load")
        <3>1. CASE Op(Cur(a)) = "load"  BY <2>1, <3>1
        <3>2. CASE Op(Cur(a)) # "load"  BY <2>1, <3>2
        <3> QED  BY <3>1, <3>2
    <2> QED  BY <1>3, <2>2 DEF CanMove
<1> QED  BY <1>2, <1>3

\* The registers of the context switch manager after the cycle.
CsStep(t, issued, rdy) ==
    /\ Selected(t)' <=> IF Switches(t[1], issued) THEN t = Target(t[1]) ELSE Selected(t)
    /\ t \in thread_ready' <=>
         /\ \/ t \in thread_ready
            \/ t[1] \in started /\ (t \in rdy \/ t \in Granted \/ WaitAllThreads)
         /\ ~(Switches(t[1], issued) /\ t = Target(t[1]))
    /\ answer_type'[t] = IF t[1] \in started /\ t \in rdy THEN "data"
                         ELSE IF t[1] \in started /\ t \in Granted THEN "lock"
                         ELSE IF t[1] \in started /\ WaitAllThreads THEN "barrier"
                         ELSE answer_type[t]
CoreStep(a, issued) ==
    /\ Cur(a)' = IF Switches(a, issued) THEN Target(a) ELSE Cur(a)
    /\ answer_out'[a] = IF Switches(a, issued) THEN answer_type[Target(a)] ELSE "none"
    /\ a \in thread_ready_empty' <=> ReadyOf(a) = {}
    /\ a \in cs_condition_reg' <=>
         (CsCondition(a, issued) \/ a \in cs_condition_reg) /\ ~Switches(a, issued)

\* The registers of the context switch manager after a cycle, thread by thread and core by
\* core.
LEMMA Switched ==
    ASSUME Types, NEW issued, NEW rdy, CsManager(issued, rdy)
    PROVE  /\ \A t \in Thread : CsStep(t, issued, rdy)
           /\ \A a \in Core : CoreStep(a, issued)
<1> DEFINE cond == {a \in Core : CsCondition(a, issued)}
           next == {a \in Core : CsNext(a, a \in cond)}
           datardy == {t \in rdy : t[1] \in started}
           lock    == {t \in Granted : t[1] \in started}
           waitall == IF WaitAllThreads THEN {t \in Thread : t[1] \in started} ELSE {}
<1>1. /\ current_tid' = [a \in Core |-> IF a \in next THEN NewTid(a) ELSE current_tid[a]]
      /\ thread_ready' = {t \in Thread :
                           /\ t \in thread_ready \/ t \in datardy \/ t \in waitall \/ t \in lock
                           /\ ~(t[1] \in next /\ t[2] = NewTid(t[1]))}
      /\ thread_ready_empty' = {a \in Core : ReadyOf(a) = {}}
      /\ cs_condition_reg' = {a \in Core : (a \in cond \/ a \in cs_condition_reg) /\ a \notin next}
      /\ answer_type' = [t \in Thread |->
                           CASE t \in datardy -> "data"
                             [] t \in lock \ datardy -> "lock"
                             [] t \in waitall \ (datardy \cup lock) -> "barrier"
                             [] OTHER -> answer_type[t]]
      /\ answer_out' = [a \in Core |->
                           IF a \in next THEN answer_type[<<a, NewTid(a)>>] ELSE "none"]
    BY Zenon DEF CsManager
<1>2. \A a \in Core : a \in cond <=> CsCondition(a, issued)  OBVIOUS
<1>3. \A a \in Core : a \in next <=> Switches(a, issued)
    <2> TAKE a \in Core
    <2>1. (a \in cond) = CsCondition(a, issued)  BY <1>2 DEF CsCondition
    <2>2. a \in next <=> CsNext(a, a \in cond)  OBVIOUS
    <2> HIDE DEF cond, next
    <2> QED  BY <2>1, <2>2 DEF Switches
<1>4. /\ \A t : t \in datardy <=> t \in rdy /\ t[1] \in started
      /\ \A t : t \in lock <=> t \in Granted /\ t[1] \in started
      /\ \A t \in Thread : t \in waitall <=> WaitAllThreads /\ t[1] \in started
    OBVIOUS
<1> HIDE DEF cond, next, datardy, lock, waitall
<1>5. ASSUME NEW a \in Core PROVE CoreStep(a, issued)
    <2>1. Cur(a)' = <<a, current_tid'[a]>>  BY DEF Cur
    <2>2. current_tid'[a] = IF Switches(a, issued) THEN NewTid(a) ELSE current_tid[a]
        BY <1>1, <1>3
    <2>3. Cur(a)' = IF Switches(a, issued) THEN Target(a) ELSE Cur(a)
        BY <2>1, <2>2 DEF Cur, Target
    <2>4. answer_out'[a] = IF Switches(a, issued) THEN answer_type[Target(a)] ELSE "none"
        BY <1>1, <1>3 DEF Target
    <2>5. a \in thread_ready_empty' <=> ReadyOf(a) = {}  BY <1>1
    <2>6. a \in cs_condition_reg' <=>
            (CsCondition(a, issued) \/ a \in cs_condition_reg) /\ ~Switches(a, issued)
        BY <1>1, <1>2, <1>3
    <2> QED  BY <2>3, <2>4, <2>5, <2>6 DEF CoreStep
<1>6. ASSUME NEW t \in Thread PROVE CsStep(t, issued, rdy)
    <2>0. t[1] \in Core /\ t = <<t[1], t[2]>>  BY ThreadFacts
    <2>1. Cur(t[1])' = IF Switches(t[1], issued) THEN Target(t[1]) ELSE Cur(t[1])
        BY <1>5, <2>0 DEF CoreStep
    <2>2. Selected(t)' <=> IF Switches(t[1], issued) THEN t = Target(t[1]) ELSE Selected(t)
        BY <2>1 DEF Selected
    <2>3. t[2] = NewTid(t[1]) <=> t = Target(t[1])  BY <2>0 DEF Target
    <2>4. t \in thread_ready' <=>
            /\ \/ t \in thread_ready
               \/ t[1] \in started /\ (t \in rdy \/ t \in Granted \/ WaitAllThreads)
            /\ ~(Switches(t[1], issued) /\ t = Target(t[1]))
        BY <1>1, <1>3, <1>4, <2>0, <2>3
    <2>5. answer_type'[t] = IF t[1] \in started /\ t \in rdy THEN "data"
                            ELSE IF t[1] \in started /\ t \in Granted THEN "lock"
                            ELSE IF t[1] \in started /\ WaitAllThreads THEN "barrier"
                            ELSE answer_type[t]
        BY <1>1, <1>4
    <2> QED  BY <2>2, <2>4, <2>5 DEF CsStep
<1> QED  BY <1>5, <1>6

\* What a cycle may do to a thread: it is resumed by its answer, it is started, it goes on to
\* its next operation, it is suspended until an answer of a kind comes, it ends, or the cycle
\* leaves it where it is.
Resumed(t, issued) ==
    /\ wait[t] \in Answers /\ OnWires(t, wait[t]) /\ issued[t[1]] = "none"
    /\ wait'[t] = "no"
    /\ pc'[t] = IF Op(t) = "combine" /\ MoreToCombine THEN pc[t] - 1 ELSE pc[t] + 1
Begun(t, issued) ==
    /\ wait[t] = "idle" /\ StartPortOut(t) /\ issued[t[1]] = "none"
    /\ wait'[t] = "no" /\ pc'[t] = pc[t]
GoesOn(t, issued) ==
    /\ wait[t] = "no" /\ Selected(t)
    /\ \/ issued[t[1]] = Op(t) /\ Op(t) \in {"exit", "reach", "set", "get"}
       \/ issued[t[1]] = "skip" /\ Op(t) = "load"
    /\ wait'[t] = "no"
    /\ Op(t) # "get" => pc'[t] = pc[t] + 1
    /\ Op(t) = "get" => pc'[t] = IF t = Master THEN pc[t] + 1 ELSE pc[t] + 2
Suspends(t, issued, kind) ==
    /\ wait[t] = "no" /\ Selected(t)
    /\ issued[t[1]] = Op(t) /\ Op(t) \in Asker(kind)
    /\ wait'[t] = kind /\ pc'[t] = pc[t]
Ends(t, issued) ==
    /\ wait[t] = "no" /\ Selected(t)
    /\ issued[t[1]] = "end" /\ Op(t) = "end"
    /\ wait'[t] = "done" /\ pc'[t] = pc[t]
Still(t, issued) ==
    /\ ~(t[1] \in started /\ wait[t] \in Answers /\ OnWires(t, wait[t])) /\ ~StartPortOut(t)
    /\ Selected(t) => issued[t[1]] = "none"
    /\ wait'[t] = wait[t] /\ pc'[t] = pc[t]

\* What may become of a context in a cycle.
LEMMA Fates ==
    ASSUME Types, NEW issued \in Issuable, Contexts(issued), NEW t \in Thread,
           t \in start_reg => wait[t] = "idle"
    PROVE  \/ Resumed(t, issued) \/ Begun(t, issued) \/ GoesOn(t, issued)
           \/ \E kind \in Answers : Suspends(t, issued, kind)
           \/ Ends(t, issued) \/ Still(t, issued)
<1>0. pc'[t] = NextPc(t, issued) /\ wait'[t] = NextWait(t, issued)  BY DEF Contexts
<1>1. t[1] \in Core /\ (Selected(t) <=> t = Cur(t[1]))  BY CurFacts, ThreadFacts
<1>2. /\ wait[t] \in Answers \cup {"no", "idle", "done"}
      /\ answer_out[t[1]] \in Answers \cup {"none"}
      /\ Op(t) \in Ops \cup {"end"}
    BY <1>1, CurFacts DEF Types
<1>3. Selected(t) /\ issued[t[1]] # "none" =>
        /\ t[1] \in started /\ wait[t] = "no"
        /\ issued[t[1]] = Op(t) \/ (issued[t[1]] = "skip" /\ Op(t) = "load")
    BY <1>1, Choosing
<1>4. CASE Resumes(t)
    <2>1. wait[t] \in Answers /\ OnWires(t, wait[t]) /\ t[1] \in started /\ Selected(t)
        BY <1>2, <1>4 DEF Resumes, OnWires, Answers
    <2>2. issued[t[1]] = "none"  BY <1>3, <2>1 DEF Answers
    <2>3. wait'[t] = "no"  BY <1>0, <1>4, <2>2 DEF NextWait, Issues
    <2>4. pc'[t] = IF Op(t) = "combine" /\ MoreToCombine THEN pc[t] - 1 ELSE pc[t] + 1
        <3> DEFINE New == IF Op(t) = "combine" /\ MoreToCombine THEN pc[t] - 1 ELSE pc[t] + 1
        <3>1. \A o : ~Issues(t, o, issued) \/ "none" \in o  BY <2>2 DEF Issues
        <3>2. NextPc(t, issued) = New
            <4>1. ~Issues(t, {"skip", "exit", "reach", "set"}, issued) /\ ~Issues(t, {"get"}, issued)
                BY <3>1
            <4> HIDE DEF New
            <4> QED  BY <1>4, <4>1 DEF NextPc, New
        <3> QED  BY <1>0, <3>2
    <2> QED  BY <2>1, <2>2, <2>3, <2>4 DEF Resumed
<1>5. CASE ~Resumes(t) /\ StartPortOut(t)
    <2>1. wait[t] = "idle" /\ issued[t[1]] = "none"  BY <1>3, <1>5 DEF StartPortOut
    <2>2. pc'[t] = pc[t] /\ wait'[t] = "no"
        BY <1>0, <1>5, <2>1 DEF NextPc, NextWait, Issues
    <2> QED  BY <1>5, <2>1, <2>2 DEF Begun
<1>6. CASE ~Resumes(t) /\ ~StartPortOut(t) /\ Selected(t) /\ issued[t[1]] # "none"
    <2>1. wait[t] = "no"
        /\ (issued[t[1]] = Op(t) \/ (issued[t[1]] = "skip" /\ Op(t) = "load"))
        BY <1>3, <1>6
    <2>2. \A o : Issues(t, o, issued) <=> issued[t[1]] \in o  BY <1>6 DEF Issues
    <2>3. CASE issued[t[1]] \in {"skip", "exit", "reach", "set"}
        <3>1. pc'[t] = pc[t] + 1 /\ wait'[t] = wait[t]
            BY <1>0, <1>6, <2>2, <2>3 DEF NextPc, NextWait
        <3> QED  BY <1>2, <1>6, <2>1, <2>3, <3>1 DEF GoesOn, Ops
    <2>4. CASE issued[t[1]] = "get"
        <3>1. pc'[t] = (IF t = Master THEN pc[t] + 1 ELSE pc[t] + 2) /\ wait'[t] = wait[t]
            BY <1>0, <1>6, <2>2, <2>4 DEF NextPc, NextWait
        <3> QED  BY <1>2, <1>6, <2>1, <2>4, <3>1 DEF GoesOn, Ops
    <2>5. CASE issued[t[1]] \in {"load", "combine"}
        <3>1. pc'[t] = pc[t] /\ wait'[t] = "data"
            BY <1>0, <1>6, <2>2, <2>5 DEF NextPc, NextWait
        <3>2. Suspends(t, issued, "data")
            BY <1>6, <2>1, <2>5, <3>1 DEF Suspends, Asker
        <3> QED  BY <3>2 DEF Answers
    <2>6. CASE issued[t[1]] = "enter"
        <3>1. pc'[t] = pc[t] /\ wait'[t] = "lock"
            BY <1>0, <1>6, <2>2, <2>6 DEF NextPc, NextWait
        <3>2. Suspends(t, issued, "lock")
            BY <1>6, <2>1, <2>6, <3>1 DEF Suspends, Asker
        <3> QED  BY <3>2 DEF Answers
    <2>7. CASE issued[t[1]] = "wait"
        <3>1. pc'[t] = pc[t] /\ wait'[t] = "barrier"
            BY <1>0, <1>6, <2>2, <2>7 DEF NextPc, NextWait
        <3>2. Suspends(t, issued, "barrier")
            BY <1>6, <2>1, <2>7, <3>1 DEF Suspends, Asker
        <3> QED  BY <3>2 DEF Answers
    <2>8. CASE issued[t[1]] = "end"
        <3>1. pc'[t] = pc[t] /\ wait'[t] = "done"
            BY <1>0, <1>6, <2>2, <2>8 DEF NextPc, NextWait
        <3> QED  BY <1>6, <2>1, <2>8, <3>1 DEF Ends
    <2> QED  BY <1>2, <2>1, <2>3, <2>4, <2>5, <2>6, <2>7, <2>8 DEF Ops
<1>7. CASE ~Resumes(t) /\ ~StartPortOut(t) /\ ~(Selected(t) /\ issued[t[1]] # "none")
    <2>1. \A o : Issues(t, o, issued) => issued[t[1]] = "none" /\ "none" \in o  BY <1>7 DEF Issues
    <2>2. pc'[t] = pc[t] /\ wait'[t] = wait[t]
        BY <1>0, <1>7, <2>1 DEF NextPc, NextWait
    <2>3. ~(t[1] \in started /\ wait[t] \in Answers /\ OnWires(t, wait[t]))
        BY <1>7 DEF Resumes, OnWires
    <2> QED  BY <1>7, <2>2, <2>3 DEF Still
<1> QED  BY <1>4, <1>5, <1>6, <1>7
-----------------------------------------------------------------------------
(* What the invariant says in a state.                                     *)

\* The parts of the invariant that are about one thread and its core.
LEMMA Parts ==
    ASSUME Inductive, NEW t \in Thread
    PROVE  /\ Types /\ ContextState(t) /\ Requests(t)
           /\ t[1] \in Core /\ CoreState(t[1]) /\ Counted(t[1])
           /\ wait[t] \in Answers \cup {"no", "idle", "done"}
           /\ answer_out[t[1]] \in Answers \cup {"none"}
           /\ answer_type[t] \in Answers \cup {"none"}
           /\ pc[t] \in 1 .. Len(Program) + 1
<1>1. t[1] \in Core  BY ThreadFacts
<1>2. Types /\ ContextState(t) /\ Requests(t) /\ CoreState(t[1]) /\ Counted(t[1])  BY <1>1 DEF Inductive
<1> QED  BY <1>1, <1>2 DEF Types

\* A thread that runs or is suspended keeps its core started; its request is neither ready nor
\* answered while it is in flight; a thread that is released is at the wait of a barrier.
LEMMA StateFacts ==
    ASSUME Inductive, NEW t \in Thread
    PROVE  /\ wait[t] \in Answers \cup {"no"} => t[1] \in started /\ t \notin done_reg
           /\ t \in mem => wait[t] = "data" /\ t \notin thread_ready /\ ~OnWires(t, "data")
           /\ t \in lock_request => wait[t] = "lock" /\ t \notin thread_ready /\ ~OnWires(t, "lock")
           /\ Released(t) => Op(t) = "wait" /\ wait[t] \in {"no", "barrier"}
           /\ wait[t] = "no" => Selected(t) /\ t[1] \notin cs_condition_reg /\ answer_out[t[1]] = "none"
           /\ wait[t] = "no" /\ t \in thread_ready => Op(t) = "wait" /\ answer_type[t] = "barrier"
           /\ wait[t] \in Answers /\ t \in thread_ready => answer_type[t] = wait[t] /\ ~OnWires(t, wait[t])
           /\ wait[t] \in Answers => Op(t) \in Asker(wait[t])
<1>0. /\ Types /\ ContextState(t) /\ Requests(t) /\ t[1] \in Core /\ CoreState(t[1])
      /\ wait[t] \in Answers \cup {"no", "idle", "done"}
    BY Parts
<1>1. wait[t] \in Answers => Suspended(t, wait[t])  BY <1>0 DEF ContextState
<1>2. wait[t] \in Answers \cup {"no"} => t[1] \in started /\ t \notin done_reg
    BY <1>0, <1>1 DEF ContextState, Running, Suspended, Answers
<1>3. t \in mem => wait[t] = "data" /\ t \notin thread_ready /\ ~OnWires(t, "data")
    BY <1>0, <1>1 DEF Requests, Pending, InReady, Suspended, Answers
<1>4. t \in lock_request => wait[t] = "lock" /\ t \notin thread_ready /\ ~OnWires(t, "lock")
    BY <1>0, <1>1 DEF Requests, Pending, InReady, Suspended, Answers
<1>5. /\ wait[t] = "no" => Selected(t) /\ t[1] \notin cs_condition_reg /\ answer_out[t[1]] = "none"
      /\ wait[t] = "no" /\ t \in thread_ready => Op(t) = "wait" /\ answer_type[t] = "barrier"
    BY <1>0 DEF ContextState, Running
<1>6. /\ wait[t] \in Answers /\ t \in thread_ready => answer_type[t] = wait[t] /\ ~OnWires(t, wait[t])
      /\ wait[t] \in Answers => Op(t) \in Asker(wait[t])
    BY <1>1 DEF Suspended
<1>7. ASSUME Released(t) PROVE Op(t) = "wait" /\ wait[t] \in {"no", "barrier"}
    <2>1. CASE InReady(t, "barrier")
        <3>1. t \in thread_ready /\ answer_type[t] = "barrier"  BY <2>1 DEF InReady
        <3>2. wait[t] # "idle" /\ wait[t] # "done"  BY <1>0, <3>1 DEF ContextState, NotBegun, Over
        <3>3. wait[t] \in Answers => wait[t] = "barrier"  BY <1>6, <3>1
        <3>4. wait[t] = "barrier" => Op(t) = "wait"  BY <1>6 DEF Asker, Answers
        <3> QED  BY <1>0, <1>5, <3>1, <3>2, <3>3, <3>4
    <2>2. CASE OnWires(t, "barrier")
        <3>1. t = Cur(t[1]) /\ answer_out[t[1]] = "barrier"  BY <2>2 DEF OnWires, Selected
        <3>2. wait[t] = "barrier"  BY <1>0, <3>1 DEF CoreState
        <3> QED  BY <1>6, <3>2 DEF Asker, Answers
    <2> QED  BY <1>7, <2>1, <2>2 DEF Released
<1> QED  BY <1>2, <1>3, <1>4, <1>5, <1>6, <1>7

\* When the release of a barrier is on the wires every thread is at the same wait, and no
\* thread is ready, answered or released.
LEMMA PulseFacts ==
    ASSUME Inductive, WaitAllThreads, NEW t \in Thread
    PROVE  /\ Op(t) = "wait" /\ ~Released(t) /\ wait[t] \in {"no", "barrier"}
           /\ t[1] \in started /\ t \notin thread_ready /\ t \notin mem /\ t \notin lock_request
           /\ answer_out[t[1]] = "none"
           /\ ReadyOf(t[1]) = {}
<1>1. ASSUME NEW u \in Thread
      PROVE  /\ Op(u) = "wait" /\ ~Released(u) /\ wait[u] \in {"no", "barrier"}
             /\ u[1] \in started /\ u \notin thread_ready
    <2>1. u[1] \in barrier_done /\ u[1] \in Core  BY Parts DEF WaitAllThreads
    <2>2. u \in Arrivals(u[1])
        <3>1. Arrivals(u[1]) = ThreadsOf[u[1]]  BY <2>1, Parts DEF Counted
        <3>2. u \in ThreadsOf[u[1]]  BY <2>1, ThreadFacts
        <3> QED  BY <3>1, <3>2
    <2>3. Op(u) = "wait" /\ ~Released(u)  BY <2>2 DEF Arrivals, Arrived
    <2>4. wait[u] # "idle"
        <3> SUFFICES ASSUME wait[u] = "idle" PROVE FALSE  OBVIOUS
        <3>1. pc[u] = 1  BY Parts DEF ContextState, NotBegun
        <3>2. pc[u] \in 1 .. Len(Program) /\ Op(u) = Program[pc[u]].op  BY <2>3, CurFacts, Parts
        <3>3. Around(1) /\ Program[1].op = "wait"  BY <2>3, <3>1, <3>2, ProgramFacts
        <3> QED  BY <3>3 DEF Around
    <2>5. wait[u] # "done"
        <3> SUFFICES ASSUME wait[u] = "done" PROVE FALSE  OBVIOUS
        <3>1. pc[u] = Len(Program) + 1  BY Parts DEF ContextState, Over
        <3> QED  BY <2>3, <3>1 DEF Op
    <2>6. wait[u] \in {"no", "barrier"}
        <3>1. wait[u] \in Answers => wait[u] = "barrier"
            BY <2>3, StateFacts DEF Asker, Answers
        <3> QED  BY <2>4, <2>5, <3>1, Parts
    <2>7. u[1] \in started  BY <2>6, StateFacts DEF Answers
    <2>8. u \notin thread_ready
        <3>1. u \in thread_ready => answer_type[u] = "barrier"  BY <2>6, StateFacts DEF Answers
        <3> QED  BY <2>3, <3>1 DEF Released, InReady
    <2> QED  BY <2>3, <2>6, <2>7, <2>8
<1>2. t \notin mem /\ t \notin lock_request  BY <1>1, StateFacts
<1>3. t[1] \in Core /\ Types  BY Parts
<1>4. answer_out[t[1]] = "none"
    <2>1. Cur(t[1]) \in Thread /\ Cur(t[1])[1] = t[1] /\ Selected(Cur(t[1]))  BY <1>3, CurFacts
    <2>2. wait[Cur(t[1])] = "no" => answer_out[t[1]] = "none"  BY <2>1, StateFacts
    <2>3. ~Released(Cur(t[1])) /\ wait[Cur(t[1])] \in {"no", "barrier"}  BY <1>1, <2>1
    <2>4. answer_out[t[1]] # "barrier"  BY <2>1, <2>3 DEF Released, OnWires
    <2>5. answer_out[t[1]] # "none" => wait[Cur(t[1])] = answer_out[t[1]]
        BY Parts DEF CoreState
    <2> QED  BY <2>2, <2>3, <2>4, <2>5
<1>5. ReadyOf(t[1]) = {}
    <2>1. \A u \in ReadyOf(t[1]) : u \in Thread /\ u \in thread_ready  BY <1>3, ThreadFacts DEF ReadyOf
    <2> QED  BY <1>1, <2>1
<1> QED  BY <1>1, <1>2, <1>4, <1>5

-----------------------------------------------------------------------------
(* A cycle from a state of the invariant.                                  *)

Cycles(issued, rdy) == issued \in Issuable /\ rdy \in Rdys /\ Tick(issued, rdy)

Fate(t, issued) ==
    \/ Resumed(t, issued) \/ Begun(t, issued) \/ GoesOn(t, issued)
    \/ \E kind \in Answers : Suspends(t, issued, kind)
    \/ Ends(t, issued) \/ Still(t, issued)

\* A core that switches has a thread to switch to, and the thread that was selected asks for
\* the switch, or asked before.
LEMMA SwitchFacts ==
    ASSUME Inductive, NEW issued, NEW rdy, Cycles(issued, rdy), NEW a \in Core
    PROVE  /\ Switches(a, issued) =>
                /\ Target(a) \in Thread /\ Target(a)[1] = a /\ Target(a) \in thread_ready
                /\ a \in started /\ ~ComponentDone(a) /\ ~WaitAllThreads
                /\ wait[Cur(a)] \in Answers \cup {"done", "no"}
                /\ answer_out[a] = "none"
           /\ wait[Cur(a)] = "no" /\ ~CsCondition(a, issued) => ~Switches(a, issued) /\ a \notin cs_condition_reg
           /\ answer_out[a] # "none" => ~CsCondition(a, issued) /\ ~Switches(a, issued) /\ a \notin cs_condition_reg
           /\ CsCondition(a, issued) => wait[Cur(a)] = "no" /\ a \in started /\ issued[a] = Op(Cur(a))
           /\ ComponentDone(a) => \A t \in ThreadsOf[a] : wait[t] = "done" /\ t \notin thread_ready
<1>0. issued \in Issuable /\ Types /\ CoreState(a)  BY DEF Cycles, Inductive
<1>1. Cur(a) \in Thread /\ Cur(a)[1] = a  BY <1>0, CurFacts
<1>2. CsCondition(a, issued) => wait[Cur(a)] = "no" /\ a \in started /\ issued[a] = Op(Cur(a))
    BY <1>0, Choosing DEF CsCondition
<1>3. wait[Cur(a)] = "no" => answer_out[a] = "none" /\ a \notin cs_condition_reg  BY <1>1, StateFacts
<1>4. ComponentDone(a) => \A t \in ThreadsOf[a] : wait[t] = "done" /\ t \notin thread_ready
    <2> SUFFICES ASSUME ComponentDone(a), NEW t \in ThreadsOf[a]
                 PROVE  wait[t] = "done" /\ t \notin thread_ready
        OBVIOUS
    <2>1. t \in Thread /\ t \in done_reg  BY ThreadFacts DEF ComponentDone
    <2> QED  BY <2>1, Parts DEF ContextState, Over
<1>5. ASSUME Switches(a, issued)
      PROVE  /\ Target(a) \in Thread /\ Target(a)[1] = a /\ Target(a) \in thread_ready
             /\ a \in started /\ ~ComponentDone(a) /\ ~WaitAllThreads
             /\ wait[Cur(a)] \in Answers \cup {"done", "no"}
             /\ answer_out[a] = "none"
    <2>1. /\ Target(a) \in Thread /\ Target(a)[1] = a /\ Target(a) \in thread_ready
          /\ CsCondition(a, issued) \/ a \in cs_condition_reg
        BY <1>0, <1>5, TargetFacts
    <2>2. Target(a) \in ThreadsOf[a] /\ Target(a) \in ReadyOf(a)  BY <2>1, ThreadFacts DEF ReadyOf
    <2>3. ~ComponentDone(a)  BY <1>4, <2>1, <2>2
    <2>4. a \in cs_condition_reg => /\ wait[Cur(a)] \in Answers \cup {"done"}
                                    /\ answer_out[a] = "none" /\ a \in started
        BY <1>0, <2>2 DEF CoreState
    <2>5. ~WaitAllThreads  BY <2>1, <2>2, PulseFacts
    <2> QED  BY <1>2, <1>3, <2>1, <2>3, <2>4, <2>5
<1>6. wait[Cur(a)] = "no" /\ ~CsCondition(a, issued) => ~Switches(a, issued) /\ a \notin cs_condition_reg
    BY <1>0, <1>3, TargetFacts
<1>7. answer_out[a] # "none" => ~CsCondition(a, issued) /\ ~Switches(a, issued) /\ a \notin cs_condition_reg
    BY <1>2, <1>3, <1>5, <1>0 DEF CoreState
<1> QED  BY <1>2, <1>4, <1>5, <1>6, <1>7

\* What a cycle does to a thread, to the registers its wake-up passes through and to the flags
\* of its core.
Wakes(t, issued, rdy) ==
    /\ Fate(t, issued) /\ CsStep(t, issued, rdy) /\ CoreStep(t[1], issued)
    /\ t \in rdy => t \in mem
    /\ t \in Granted => t \in lock_request
    /\ t \in start_reg' <=> t \in start_reg /\ ~StartPortOut(t)
    /\ t \in done_reg' <=> /\ t \in done_reg \/ (Selected(t) /\ issued[t[1]] = "end")
                           /\ ~ComponentDone(t[1])
    /\ t[1] \in started' <=> t[1] \in started /\ ~ComponentDone(t[1])
    /\ ComponentDone(t[1]) => t \in done_reg
    /\ t \in mem' <=> (t \in mem /\ t \notin rdy) \/ (Selected(t) /\ issued[t[1]] \in {"load", "combine"})
    /\ t \in lock_request' <=> /\ t \in lock_request \/ (Selected(t) /\ issued[t[1]] = "enter")
                               /\ t \notin Granted

\* In a cycle a thread has one of the fates, and its requests and answers move accordingly.
LEMMA Waking ==
    ASSUME Inductive, NEW issued, NEW rdy, Cycles(issued, rdy), NEW t \in Thread
    PROVE  Wakes(t, issued, rdy)
<1>0. /\ issued \in Issuable /\ rdy \in Rdys /\ Types /\ t[1] \in Core
      /\ Contexts(issued) /\ StartDone(issued) /\ CsManager(issued, rdy)
      /\ CriticalManager(issued) /\ Memory(issued, rdy)
    BY Parts DEF Cycles, Tick
<1>1. Fate(t, issued)
    <2>1. t \in start_reg => wait[t] = "idle"  BY Parts DEF ContextState
    <2> QED  BY <1>0, <2>1, Fates DEF Fate
<1>2. CsStep(t, issued, rdy) /\ CoreStep(t[1], issued)  BY <1>0, Switched
<1>3. /\ t \in rdy => t \in mem
      /\ t \in Granted => t \in lock_request
    BY <1>0, GrantedFacts DEF Rdys, Inductive
<1>4. /\ t \in start_reg' <=> t \in start_reg /\ ~StartPortOut(t)
      /\ t \in done_reg' <=> /\ t \in done_reg \/ (Selected(t) /\ issued[t[1]] = "end")
                             /\ ~ComponentDone(t[1])
      /\ t[1] \in started' <=> t[1] \in started /\ ~ComponentDone(t[1])
    BY <1>0 DEF StartDone, Issues
<1>5. ComponentDone(t[1]) => t \in done_reg  BY <1>0, ThreadFacts DEF ComponentDone
<1>6. /\ t \in mem' <=> (t \in mem /\ t \notin rdy) \/ (Selected(t) /\ issued[t[1]] \in {"load", "combine"})
      /\ t \in lock_request' <=> /\ t \in lock_request \/ (Selected(t) /\ issued[t[1]] = "enter")
                                 /\ t \notin Granted
    BY <1>0 DEF Memory, CriticalManager, Issues
<1> QED  BY <1>1, <1>2, <1>3, <1>4, <1>5, <1>6 DEF Wakes
\* A thread that does not move on is at the same operation.
LEMMA OpStep ==
    ASSUME NEW t \in Thread, pc'[t] = pc[t]
    PROVE  Op(t)' = Op(t)
BY DEF Op

\* The ready vector takes in a thread with its answer, or with the release of a barrier; what
\* is in it stays until the thread is switched to.
LEMMA ReadyStep ==
    ASSUME Inductive, NEW issued, NEW rdy, Cycles(issued, rdy), NEW t \in Thread
    PROVE  /\ t \in thread_ready' =>
                \/ t \in thread_ready /\ answer_type'[t] = answer_type[t]
                \/ wait[t] = "data" /\ t \in rdy /\ answer_type'[t] = "data"
                \/ wait[t] = "lock" /\ t \in Granted /\ answer_type'[t] = "lock"
                \/ WaitAllThreads /\ answer_type'[t] = "barrier"
           /\ t \in thread_ready' => ~(Switches(t[1], issued) /\ t = Target(t[1]))
           /\ t \in thread_ready /\ ~(Switches(t[1], issued) /\ t = Target(t[1])) =>
                t \in thread_ready' /\ answer_type'[t] = answer_type[t]
           /\ t \in rdy =>
                t \in thread_ready' /\ answer_type'[t] = "data" /\ ~(Switches(t[1], issued) /\ t = Target(t[1]))
           /\ t \in Granted =>
                t \in thread_ready' /\ answer_type'[t] = "lock" /\ ~(Switches(t[1], issued) /\ t = Target(t[1]))
           /\ WaitAllThreads => t \in thread_ready' /\ answer_type'[t] = "barrier"
           /\ wait[t] \in {"idle", "done"} => answer_type'[t] = answer_type[t] /\ ~WaitAllThreads
           /\ ~Switches(t[1], issued) => answer_out'[t[1]] = "none"
           /\ Selected(t)' <=> IF Switches(t[1], issued) THEN t = Target(t[1]) ELSE Selected(t)
           /\ Switches(t[1], issued) /\ t = Target(t[1]) => t \in thread_ready /\ answer_out'[t[1]] = answer_type[t]
<1>1. /\ CsStep(t, issued, rdy) /\ CoreStep(t[1], issued)
      /\ t \in rdy => t \in mem
      /\ t \in Granted => t \in lock_request
    BY Waking DEF Wakes
<1>2. /\ t \in mem => wait[t] = "data" /\ t \notin thread_ready /\ t[1] \in started
      /\ t \in lock_request => wait[t] = "lock" /\ t \notin thread_ready /\ t[1] \in started
    BY StateFacts DEF Answers
<1>3. WaitAllThreads => /\ t[1] \in started /\ t \notin thread_ready /\ t \notin mem
                        /\ t \notin lock_request /\ wait[t] \in {"no", "barrier"}
    BY PulseFacts
<1>4. Switches(t[1], issued) => Target(t[1]) \in thread_ready /\ ~WaitAllThreads
    BY SwitchFacts, Parts
<1> QED  BY <1>1, <1>2, <1>3, <1>4 DEF CsStep, CoreStep

\* What is preserved for one thread: the state of the context (the state machine of the
\* outlined function and the registers of kmp_bambu_cs_manager that describe it).
LEMMA KeepsContextState ==
    ASSUME Inductive, NEW issued, NEW rdy, Cycles(issued, rdy), NEW t \in Thread
    PROVE  ContextState(t)'
<1> DEFINE a == t[1]
<1>0. /\ Types /\ ContextState(t) /\ a \in Core /\ CoreState(a)
      /\ wait[t] \in Answers \cup {"no", "idle", "done"}
    BY Parts
<1>1. Wakes(t, issued, rdy)  BY Waking
<1>2. Selected(t) => t = Cur(a)  BY DEF Selected
<1>3. a \in started' <=> a \in started /\ ~ComponentDone(a)  BY <1>1 DEF Wakes
<1>4. wait[t] \in Answers \cup {"no"} => a \in started /\ a \in started' /\ t \notin done_reg
    BY <1>1, StateFacts DEF Wakes
<1>5. ASSUME Resumed(t, issued) PROVE ContextState(t)'
    <2>1. wait[t] \in Answers /\ Selected(t) /\ answer_out[a] = wait[t] /\ issued[a] = "none" /\ wait'[t] = "no"
        BY <1>5 DEF Resumed, OnWires
    <2>2. ~CsCondition(a, issued) /\ ~Switches(a, issued) /\ a \notin cs_condition_reg
        BY <1>0, <2>1, SwitchFacts DEF Answers
    <2>3. t \notin thread_ready /\ t \notin rdy /\ t \notin Granted /\ ~WaitAllThreads
        BY <1>1, <2>1, StateFacts, PulseFacts DEF Wakes, OnWires, Answers
    <2>4. t \notin thread_ready'  BY <2>3, ReadyStep
    <2>5. Running(t)'
        BY <1>1, <1>4, <2>1, <2>2, <2>4, ReadyStep DEF Running, Wakes, CoreStep
    <2>6. t \notin done_reg' /\ t \notin start_reg'
        BY <1>0, <1>1, <1>4, <2>1 DEF Wakes, ContextState, Answers
    <2> QED  BY <2>1, <2>5, <2>6 DEF ContextState, Answers
<1>6. ASSUME Begun(t, issued) PROVE ContextState(t)'
    <2>1. wait[t] = "idle" /\ Selected(t) /\ a \in started /\ ~ComponentDone(a) /\ issued[a] = "none"
          /\ wait'[t] = "no"
        BY <1>6 DEF Begun, StartPortOut
    <2>2. ~CsCondition(a, issued) /\ ~Switches(a, issued) /\ a \notin cs_condition_reg
        <3>1. ~CsCondition(a, issued)  BY <2>1 DEF CsCondition
        <3>2. ~Switches(a, issued)  BY <1>0, <1>2, <2>1, SwitchFacts DEF Answers
        <3>3. a \notin cs_condition_reg  BY <1>0, <1>2, <2>1 DEF CoreState, Answers
        <3> QED  BY <3>1, <3>2, <3>3
    <2>3. t \notin thread_ready  BY <1>0, <2>1 DEF ContextState, NotBegun
    <2>4. t \notin thread_ready'  BY <2>1, <2>3, ReadyStep
    <2>5. Running(t)'
        BY <1>1, <1>3, <2>1, <2>2, <2>4, ReadyStep DEF Running, Wakes, CoreStep
    <2>6. t \notin done_reg' /\ t \notin start_reg'
        <3>1. t \notin start_reg'  BY <1>1, <1>6 DEF Wakes, Begun
        <3>2. t \notin done_reg  BY <1>0, <2>1 DEF ContextState
        <3>3. t \notin done_reg'  BY <1>1, <2>1, <3>2 DEF Wakes
        <3> QED  BY <3>1, <3>3
    <2> QED  BY <2>1, <2>5, <2>6 DEF ContextState, Answers
<1>7. ASSUME GoesOn(t, issued) PROVE ContextState(t)'
    <2>1. /\ wait[t] = "no" /\ Selected(t) /\ wait'[t] = "no" /\ Op(t) # "wait"
          /\ ~CsCondition(a, issued) /\ issued[a] # "end"
        BY <1>7 DEF GoesOn, CsCondition
    <2>2. ~Switches(a, issued) /\ a \notin cs_condition_reg  BY <1>0, <1>2, <2>1, SwitchFacts
    <2>3. t \notin thread_ready /\ ~WaitAllThreads  BY <2>1, StateFacts, PulseFacts
    <2>4. t \notin thread_ready'  BY <2>1, <2>3, ReadyStep
    <2>5. Running(t)'
        BY <1>1, <1>4, <2>1, <2>2, <2>4, ReadyStep DEF Running, Wakes, CoreStep
    <2>6. t \notin done_reg' /\ t \notin start_reg'
        BY <1>0, <1>1, <1>4, <2>1 DEF Wakes, ContextState
    <2> QED  BY <2>1, <2>5, <2>6 DEF ContextState, Answers
<1>8. ASSUME NEW kind \in Answers, Suspends(t, issued, kind) PROVE ContextState(t)'
    <2>1. /\ wait[t] = "no" /\ Selected(t) /\ wait'[t] = kind /\ Op(t) \in Asker(kind) /\ Op(t)' = Op(t)
          /\ issued[a] = Op(t) /\ Op(t) # "end"
        <3>1. Op(t)' = Op(t)  BY <1>8, OpStep DEF Suspends
        <3>2. Op(t) \in Asker(kind) => Op(t) # "end"  BY DEF Asker, Answers
        <3> QED  BY <1>8, <3>1, <3>2 DEF Suspends
    <2>2. ASSUME t \in thread_ready' PROVE answer_type'[t] = kind
        <3>1. Op(t) = "wait" /\ answer_type'[t] = "barrier"
            BY <2>1, <2>2, ReadyStep, StateFacts, PulseFacts
        <3> QED  BY <2>1, <3>1 DEF Asker, Answers
    <2>3. ASSUME t \in thread_ready' PROVE ~OnWires(t, kind)'
        <3>1. CASE Switches(a, issued)
            BY <2>3, <3>1, ReadyStep DEF OnWires
        <3>2. CASE ~Switches(a, issued)
            <4>1. answer_out'[t[1]] = "none"  BY <3>2, ReadyStep
            <4> QED  BY <4>1 DEF OnWires, Answers
        <3> QED  BY <3>1, <3>2
    <2>4. Suspended(t, kind)'  BY <1>4, <2>1, <2>2, <2>3 DEF Suspended
    <2>5. t \notin done_reg' /\ t \notin start_reg'
        BY <1>0, <1>1, <1>4, <2>1 DEF Wakes, ContextState
    <2> QED  BY <2>1, <2>4, <2>5 DEF ContextState, Answers
<1>9. ASSUME Ends(t, issued) PROVE ContextState(t)'
    <2>1. wait[t] = "no" /\ Selected(t) /\ issued[a] = "end" /\ Op(t) = "end" /\ wait'[t] = "done"
          /\ pc'[t] = pc[t]
        BY <1>9 DEF Ends
    <2>2. pc'[t] = Len(Program) + 1
        <3>1. pc[t] # Len(Program) + 1 => pc[t] \in 1 .. Len(Program)  BY Parts, ProgramFacts
        <3>2. \A p \in 1 .. Len(Program) : Program[p].op # "end"  BY ProgramFacts DEF Around, Ops
        <3> QED  BY <2>1, <3>1, <3>2 DEF Op
    <2>3. t \notin thread_ready /\ ~WaitAllThreads  BY <2>1, StateFacts, PulseFacts
    <2>4. t \notin thread_ready'  BY <2>1, <2>3, ReadyStep
    <2>5. Over(t)'  BY <1>1, <1>4, <2>1, <2>2, <2>4 DEF Over, Wakes
    <2>6. t \notin start_reg'  BY <1>0, <1>1, <2>1 DEF Wakes, ContextState
    <2> QED  BY <2>1, <2>5, <2>6 DEF ContextState, Answers
<1>10. ASSUME Still(t, issued) PROVE ContextState(t)'
    <2>1. wait'[t] = wait[t] /\ pc'[t] = pc[t] /\ Op(t)' = Op(t) /\ ~StartPortOut(t)
          /\ (Selected(t) => issued[a] = "none")
        BY <1>10, OpStep DEF Still
    <2>2. ASSUME wait[t] = "idle" PROVE NotBegun(t)'
        <3>1. pc[t] = 1 /\ answer_type[t] = "none" /\ (t \notin thread_ready <=> Selected(t))
              /\ (a \in started => t \in start_reg)
            BY <1>0, <2>2 DEF ContextState, NotBegun
        <3>2. answer_type'[t] = "none"  BY <2>2, <3>1, ReadyStep
        <3>3. t \notin thread_ready' <=> Selected(t)'
            <4>1. CASE Switches(a, issued)
                <5>1. ~Selected(t)  BY <1>0, <1>2, <2>2, <4>1, SwitchFacts DEF Answers
                <5>2. t \in thread_ready  BY <3>1, <5>1
                <5> QED  BY <4>1, <5>2, ReadyStep
            <4>2. CASE ~Switches(a, issued)
                <5>1. t \in thread_ready' <=> t \in thread_ready  BY <2>2, <4>2, ReadyStep
                <5> QED  BY <3>1, <4>2, <5>1, ReadyStep
            <4> QED  BY <4>1, <4>2
        <3>4. a \in started' => t \in start_reg'  BY <1>1, <1>3, <2>1, <3>1 DEF Wakes
        <3> QED  BY <2>1, <3>1, <3>2, <3>3, <3>4 DEF NotBegun
    <2>3. ASSUME wait[t] = "no" PROVE Running(t)'
        <3>1. Selected(t) /\ issued[a] = "none" /\ ~CsCondition(a, issued)
            BY <2>1, <2>3, StateFacts DEF CsCondition
        <3>2. ~Switches(a, issued) /\ a \notin cs_condition_reg  BY <1>0, <1>2, <2>3, <3>1, SwitchFacts
        <3>3. t \in thread_ready' => Op(t) = "wait" /\ answer_type'[t] = "barrier"
            BY <2>3, StateFacts, PulseFacts, ReadyStep
        <3>4. Selected(t)' /\ answer_out'[a] = "none"  BY <3>1, <3>2, ReadyStep
        <3>5. a \notin cs_condition_reg'  BY <1>1, <3>1, <3>2 DEF Wakes, CoreStep
        <3> QED  BY <1>4, <2>1, <2>3, <3>3, <3>4, <3>5 DEF Running
    <2>4. ASSUME NEW kind \in Answers, wait[t] = kind PROVE Suspended(t, kind)'
        <3>1. t \in thread_ready' => answer_type'[t] = kind
            BY <2>4, StateFacts, PulseFacts, ReadyStep DEF Answers
        <3>2. ASSUME t \in thread_ready' PROVE ~OnWires(t, kind)'
            <4>1. CASE Switches(a, issued)
                BY <3>2, <4>1, ReadyStep DEF OnWires
            <4>2. CASE ~Switches(a, issued)
                <5>1. answer_out'[t[1]] = "none"  BY <4>2, ReadyStep
                <5> QED  BY <5>1 DEF OnWires, Answers
            <4> QED  BY <4>1, <4>2
        <3>3. Op(t) \in Asker(kind)  BY <2>4, StateFacts
        <3> QED  BY <1>4, <2>1, <2>4, <3>1, <3>2, <3>3 DEF Suspended
    <2>5. ASSUME wait[t] = "done" PROVE Over(t)'
        <3>1. pc[t] = Len(Program) + 1 /\ t \notin thread_ready /\ (a \in started <=> t \in done_reg)
            BY <1>0, <2>5 DEF ContextState, Over
        <3>2. t \notin thread_ready'  BY <2>5, <3>1, ReadyStep
        <3>3. a \in started' <=> t \in done_reg'  BY <1>1, <2>1, <3>1 DEF Wakes
        <3> QED  BY <2>1, <3>1, <3>2, <3>3 DEF Over
    <2>6. (t \in done_reg' => wait[t] = "done") /\ (t \in start_reg' => wait[t] = "idle")
        <3>1. t \in done_reg' => t \in done_reg  BY <1>1, <2>1 DEF Wakes
        <3> QED  BY <1>0, <1>1, <3>1 DEF Wakes, ContextState
    <2> QED  BY <2>1, <2>2, <2>3, <2>4, <2>5, <2>6 DEF ContextState
<1> HIDE DEF a
<1>11. Fate(t, issued)  BY <1>1 DEF Wakes
<1> QED  BY <1>5, <1>6, <1>7, <1>8, <1>9, <1>10, <1>11 DEF Fate
\* A wake-up of any kind stays in the ready vector, or goes from there to the wires.
LEMMA WokenStep ==
    ASSUME Inductive, NEW issued, NEW rdy, Cycles(issued, rdy), NEW t \in Thread, NEW kind \in Answers
    PROVE  /\ InReady(t, kind) => InReady(t, kind)' \/ OnWires(t, kind)'
           /\ OnWires(t, kind)' => InReady(t, kind)
           /\ InReady(t, kind)' =>
                \/ InReady(t, kind)
                \/ kind = "data" /\ t \in rdy
                \/ kind = "lock" /\ t \in Granted
                \/ kind = "barrier" /\ WaitAllThreads
           /\ kind = "data" /\ t \in rdy => InReady(t, kind)'
           /\ kind = "lock" /\ t \in Granted => InReady(t, kind)'
           /\ kind = "barrier" /\ WaitAllThreads => InReady(t, kind)'
<1>1. InReady(t, kind) => InReady(t, kind)' \/ OnWires(t, kind)'
    <2> SUFFICES ASSUME InReady(t, kind) PROVE InReady(t, kind)' \/ OnWires(t, kind)'  OBVIOUS
    <2>1. t \in thread_ready /\ answer_type[t] = kind  BY DEF InReady
    <2>2. CASE Switches(t[1], issued) /\ t = Target(t[1])
        BY <2>1, <2>2, ReadyStep DEF OnWires
    <2>3. CASE ~(Switches(t[1], issued) /\ t = Target(t[1]))
        BY <2>1, <2>3, ReadyStep DEF InReady
    <2> QED  BY <2>2, <2>3
<1>2. OnWires(t, kind)' => InReady(t, kind)
    <2> SUFFICES ASSUME OnWires(t, kind)' PROVE InReady(t, kind)  OBVIOUS
    <2>1. Selected(t)' /\ answer_out'[t[1]] = kind  BY DEF OnWires
    <2>2. Switches(t[1], issued)  BY <2>1, ReadyStep DEF Answers
    <2>3. t = Target(t[1])  BY <2>1, <2>2, ReadyStep
    <2> QED  BY <2>1, <2>2, <2>3, ReadyStep DEF InReady
<1>3. InReady(t, kind)' =>
        \/ InReady(t, kind)
        \/ kind = "data" /\ t \in rdy
        \/ kind = "lock" /\ t \in Granted
        \/ kind = "barrier" /\ WaitAllThreads
    <2>1. InReady(t, kind)' <=> t \in thread_ready' /\ answer_type'[t] = kind  BY DEF InReady
    <2> QED  BY <2>1, ReadyStep DEF InReady
<1>4. /\ kind = "data" /\ t \in rdy => InReady(t, kind)'
      /\ kind = "lock" /\ t \in Granted => InReady(t, kind)'
      /\ kind = "barrier" /\ WaitAllThreads => InReady(t, kind)'
    <2>1. InReady(t, kind)' <=> t \in thread_ready' /\ answer_type'[t] = kind  BY DEF InReady
    <2> QED  BY <2>1, ReadyStep
<1> QED  BY <1>1, <1>2, <1>3, <1>4

\* A request stays with the memory or the lock manager until the cycle in which it is answered.
LEMMA KeepsRequests ==
    ASSUME Inductive, NEW issued, NEW rdy, Cycles(issued, rdy), NEW t \in Thread
    PROVE  Requests(t)'
<1> USE DEF Answers
<1>0. Requests(t) /\ ContextState(t) /\ t[1] \in Core  BY Parts
<1>1. Wakes(t, issued, rdy)  BY Waking
<1>2. /\ t \in mem' <=> (t \in mem /\ t \notin rdy) \/ (Selected(t) /\ issued[t[1]] \in {"load", "combine"})
      /\ t \in lock_request' <=> /\ t \in lock_request \/ (Selected(t) /\ issued[t[1]] = "enter")
                                 /\ t \notin Granted
      /\ t \in rdy => t \in mem
      /\ t \in Granted => t \in lock_request
    BY <1>1 DEF Wakes
<1>3. /\ t \in mem <=> Pending(t, "data")
      /\ t \in lock_request <=> Pending(t, "lock")
    BY <1>0 DEF Requests
<1>4. ASSUME NEW kind \in {"data", "lock"}
      PROVE  Pending(t, kind)' <=> wait'[t] = kind /\ ~InReady(t, kind)' /\ ~OnWires(t, kind)'
    BY DEF Pending
<1>5. ASSUME wait'[t] # "data", wait'[t] # "lock",
             ~(Selected(t) /\ issued[t[1]] \in {"load", "combine", "enter"}),
             t \notin mem, t \notin lock_request
      PROVE  Requests(t)'
    BY <1>2, <1>4, <1>5 DEF Requests
<1>6. ASSUME Resumed(t, issued) PROVE Requests(t)'
    <2>1. t \notin mem /\ t \notin lock_request  BY <1>6, StateFacts DEF Resumed
    <2> QED  BY <1>5, <1>6, <2>1 DEF Resumed
<1>7. ASSUME Begun(t, issued) \/ GoesOn(t, issued) \/ Ends(t, issued) PROVE Requests(t)'
    <2>1. t \notin mem /\ t \notin lock_request  BY <1>7, StateFacts DEF Begun, GoesOn, Ends
    <2>2. /\ wait'[t] # "data" /\ wait'[t] # "lock"
          /\ ~(Selected(t) /\ issued[t[1]] \in {"load", "combine", "enter"})
        BY <1>7 DEF Begun, GoesOn, Ends
    <2> QED  BY <1>5, <2>1, <2>2
<1>8. ASSUME NEW kind \in Answers, Suspends(t, issued, kind) PROVE Requests(t)'
    <2>1. wait[t] = "no" /\ Selected(t) /\ issued[t[1]] = Op(t) /\ Op(t) \in Asker(kind) /\ wait'[t] = kind
        BY <1>8 DEF Suspends
    <2>2. t \notin mem /\ t \notin lock_request  BY <2>1, StateFacts
    <2>3. CASE kind = "barrier"  BY <1>5, <2>1, <2>2, <2>3 DEF Asker
    <2>4. CASE kind # "barrier"
        <3>1. Op(t) # "wait" /\ t \notin thread_ready  BY <2>1, <2>4, StateFacts DEF Asker
        <3>2. ~InReady(t, kind)' /\ ~OnWires(t, kind)'
            BY <1>2, <2>2, <2>4, <3>1, WokenStep DEF InReady
        <3>3. kind = "data" => issued[t[1]] \in {"load", "combine"} /\ issued[t[1]] # "enter"
            BY <2>1 DEF Asker
        <3>4. kind = "lock" => issued[t[1]] = "enter"
            BY <2>1 DEF Asker
        <3> QED  BY <1>2, <1>4, <2>1, <2>2, <2>4, <3>2, <3>3, <3>4 DEF Requests
    <2> QED  BY <2>3, <2>4
<1>9. ASSUME Still(t, issued) PROVE Requests(t)'
    <2>1. /\ wait'[t] = wait[t] /\ (Selected(t) => issued[t[1]] = "none")
          /\ ~(t[1] \in started /\ wait[t] \in Answers /\ OnWires(t, wait[t]))
        BY <1>9 DEF Still
    <2>2. ASSUME NEW kind \in Answers, wait[t] = kind PROVE ~OnWires(t, kind)
        BY <2>1, <2>2, StateFacts
    <2>3. t \in mem' <=> Pending(t, "data")'
        <3>1. CASE wait[t] = "data"
            <4>1. t \in mem <=> ~InReady(t, "data")  BY <1>3, <2>2, <3>1 DEF Pending
            <4>2. InReady(t, "data")' \/ OnWires(t, "data")' <=> InReady(t, "data") \/ t \in rdy
                BY WokenStep
            <4> QED  BY <1>2, <1>4, <2>1, <3>1, <4>1, <4>2
        <3>2. CASE wait[t] # "data"  BY <1>2, <1>4, <2>1, <3>2, StateFacts
        <3> QED  BY <3>1, <3>2
    <2>4. t \in lock_request' <=> Pending(t, "lock")'
        <3>1. CASE wait[t] = "lock"
            <4>1. t \in lock_request <=> ~InReady(t, "lock")  BY <1>3, <2>2, <3>1 DEF Pending
            <4>2. InReady(t, "lock")' \/ OnWires(t, "lock")' <=> InReady(t, "lock") \/ t \in Granted
                BY WokenStep
            <4> QED  BY <1>2, <1>4, <2>1, <3>1, <4>1, <4>2
        <3>2. CASE wait[t] # "lock"  BY <1>2, <1>4, <2>1, <3>2, StateFacts
        <3> QED  BY <3>1, <3>2
    <2> QED  BY <2>3, <2>4 DEF Requests
<1>10. Fate(t, issued)  BY <1>1 DEF Wakes
<1> QED  BY <1>6, <1>7, <1>8, <1>9, <1>10 DEF Fate

\* What is preserved for one core: a switch that is owed, and the answer on the wires.
LEMMA KeepsCoreState ==
    ASSUME Inductive, NEW issued, NEW rdy, Cycles(issued, rdy), NEW a \in Core
    PROVE  CoreState(a)'
<1> DEFINE c == Cur(a)
           n == Target(a)
<1>0. Types /\ CoreState(a)  BY DEF Inductive
<1>1. c \in Thread /\ c[1] = a /\ Selected(c)  BY <1>0, CurFacts
<1>2. Wakes(c, issued, rdy) /\ CoreStep(a, issued)  BY <1>1, Waking DEF Wakes
<1>3. a \in started' <=> a \in started /\ ~ComponentDone(a)  BY <1>1, <1>2 DEF Wakes
<1>4. ASSUME a \in cs_condition_reg'
      PROVE  /\ a \in thread_ready_empty' /\ answer_out'[a] = "none"
             /\ wait'[Cur(a)'] \in Answers \cup {"done"}
             /\ a \notin started' => ReadyOf(a)' = {}
    <2>1. (CsCondition(a, issued) \/ a \in cs_condition_reg) /\ ~Switches(a, issued)
        BY <1>2, <1>4 DEF CoreStep
    <2>2. ReadyOf(a) = {}
        BY <1>0, <2>1 DEF Switches, CsNext, ThreadReadyValid, CoreState
    <2>3. a \in thread_ready_empty' /\ answer_out'[a] = "none" /\ Cur(a)' = c
        BY <1>2, <2>1, <2>2 DEF CoreStep
    <2>4. wait'[c] \in Answers \cup {"done"}
        <3>1. CASE CsCondition(a, issued)
            <4>1. wait[c] = "no" /\ issued[a] \in {"load", "combine", "enter", "wait", "end"}
                BY <3>1, SwitchFacts DEF CsCondition
            <4>2. Fate(c, issued)  BY <1>2 DEF Wakes
            <4>3. ~Still(c, issued) /\ ~GoesOn(c, issued) /\ ~Begun(c, issued) /\ ~Resumed(c, issued)
                BY <1>1, <4>1 DEF Still, GoesOn, Begun, Resumed
            <4> QED  BY <4>2, <4>3 DEF Fate, Suspends, Ends
        <3>2. CASE ~CsCondition(a, issued)
            <4>1. wait[c] \in Answers \cup {"done"} /\ answer_out[a] = "none"
                BY <1>0, <2>1, <3>2 DEF CoreState
            <4>2. Fate(c, issued)  BY <1>2 DEF Wakes
            <4>3. Still(c, issued)
                BY <1>1, <4>1, <4>2 DEF Fate, Resumed, Begun, GoesOn, Suspends, Ends, OnWires, Answers
            <4> QED  BY <4>1, <4>3 DEF Still
        <3> QED  BY <3>1, <3>2
    <2>5. ASSUME a \notin started' PROVE ReadyOf(a)' = {}
        <3>1. ASSUME NEW t \in ThreadsOf[a] PROVE t \notin thread_ready'
            <4>1. t \in Thread /\ t[1] = a  BY ThreadFacts
            <4>2. t \notin thread_ready  BY <2>2 DEF ReadyOf
            <4>3. wait[t] \notin Answers \cup {"no"}
                BY <1>3, <2>5, <4>1, StateFacts, SwitchFacts DEF Answers
            <4>4. ~WaitAllThreads  BY <4>1, <4>3, PulseFacts DEF Answers
            <4> QED  BY <4>1, <4>2, <4>3, <4>4, ReadyStep DEF Answers
        <3> QED  BY <3>1 DEF ReadyOf
    <2> QED  BY <2>3, <2>4, <2>5
<1>5. ASSUME answer_out'[a] # "none"
      PROVE  a \in started' /\ a \notin cs_condition_reg' /\ wait'[Cur(a)'] = answer_out'[a]
    <2>1. Switches(a, issued)  BY <1>2, <1>5 DEF CoreStep
    <2>2. /\ n \in Thread /\ n[1] = a /\ n \in thread_ready
          /\ a \in started /\ ~ComponentDone(a)
          /\ CsCondition(a, issued) \/ a \in cs_condition_reg
        BY <1>0, <2>1, SwitchFacts, TargetFacts
    <2>3. a \in started' /\ a \notin cs_condition_reg' /\ Cur(a)' = n /\ answer_out'[a] = answer_type[n]
        BY <1>2, <1>3, <2>1, <2>2 DEF CoreStep
    <2> HIDE DEF n
    <2>4. wait'[n] = answer_type[n]
        <3>1. Fate(n, issued) /\ ContextState(n) /\ wait[n] \in Answers \cup {"no", "idle", "done"}
            BY <2>2, Waking, Parts DEF Wakes
        <3>2. wait[n] # "idle" /\ wait[n] # "done"
            BY <1>5, <2>2, <2>3, <3>1 DEF ContextState, NotBegun, Over
        <3>3. CASE wait[n] = "no"
            <4>1. Op(n) = "wait" /\ answer_type[n] = "barrier" /\ n = c /\ a \notin cs_condition_reg
                BY <2>2, <3>3, StateFacts DEF Selected
            <4>2. issued[a] = "wait"  BY <2>2, <4>1, SwitchFacts
            <4>3. PICK kind \in Answers : Suspends(n, issued, kind)
                BY <1>1, <2>2, <3>1, <3>3, <4>1, <4>2 DEF Fate, Still, GoesOn, Begun, Resumed, Ends, Answers
            <4>4. kind = "barrier"  BY <4>1, <4>3 DEF Suspends, Asker, Answers
            <4> QED  BY <4>1, <4>3, <4>4 DEF Suspends
        <3>4. CASE wait[n] \in Answers
            <4>1. answer_type[n] = wait[n] /\ ~OnWires(n, wait[n])  BY <2>2, <3>4, StateFacts
            <4>2. Still(n, issued)
                BY <3>1, <3>4, <4>1 DEF Fate, Resumed, Begun, GoesOn, Suspends, Ends, Answers
            <4> QED  BY <4>1, <4>2 DEF Still
        <3> QED  BY <3>1, <3>2, <3>3, <3>4
    <2> QED  BY <2>3, <2>4
<1> QED  BY <1>4, <1>5 DEF CoreState
-----------------------------------------------------------------------------
(* The way of a thread through the program.                                *)

\* The operation of a thread and its surroundings in the program.
LEMMA OpAround ==
    ASSUME Inductive, NEW t \in Thread
    PROVE  /\ Op(t) = "end" => pc[t] = Len(Program) + 1
           /\ Op(t) # "end" =>
                pc[t] \in 1 .. Len(Program) /\ Op(t) = Program[pc[t]].op /\ Around(pc[t])
<1>1. Types /\ pc[t] \in 1 .. Len(Program) + 1  BY Parts
<1>2. Op(t) # "end" => pc[t] \in 1 .. Len(Program) /\ Op(t) = Program[pc[t]].op  BY <1>1, CurFacts
<1>3. Op(t) = "end" => pc[t] = Len(Program) + 1
    <2>1. pc[t] # Len(Program) + 1 => pc[t] \in 1 .. Len(Program)  BY <1>1, ProgramFacts
    <2>2. \A p \in 1 .. Len(Program) : Program[p].op # "end"  BY ProgramFacts DEF Around, Ops
    <2> QED  BY <2>1, <2>2 DEF Op
<1> QED  BY <1>2, <1>3, ProgramFacts

\* What a suspended thread waits with.
LEMMA Askers ==
    /\ Asker("data") = {"load", "combine"}
    /\ Asker("lock") = {"enter"}
    /\ Asker("barrier") = {"wait"}
BY DEF Asker

\* No thread leaves the region.
LEMMA KeepsPc ==
    ASSUME Inductive, NEW issued, NEW rdy, Cycles(issued, rdy), NEW t \in Thread
    PROVE  pc'[t] \in 1 .. Len(Program) + 1
<1>0. Len(Program) \in Nat /\ pc[t] \in 1 .. Len(Program) + 1  BY Parts, ProgramFacts
<1>1. Fate(t, issued)  BY Waking DEF Wakes
<1>2. ASSUME Resumed(t, issued) PROVE pc'[t] \in 1 .. Len(Program) + 1
    <2>1. /\ Op(t) \in {"load", "combine", "enter", "wait"}
          /\ pc'[t] = pc[t] + 1 \/ (Op(t) = "combine" /\ pc'[t] = pc[t] - 1)
        <3>1. wait[t] \in Answers  BY <1>2 DEF Resumed
        <3>2. Op(t) \in Asker(wait[t])  BY <3>1, StateFacts
        <3>3. Op(t) \in {"load", "combine", "enter", "wait"}  BY <3>1, <3>2, Askers DEF Answers
        <3> QED  BY <1>2, <3>3 DEF Resumed
    <2> QED  BY <1>0, <2>1, OpAround DEF Around
<1>3. ASSUME GoesOn(t, issued) PROVE pc'[t] \in 1 .. Len(Program) + 1
    <2>1. /\ Op(t) \in {"exit", "reach", "set", "get", "load"}
          /\ pc'[t] = pc[t] + 1 \/ (Op(t) = "get" /\ pc'[t] = pc[t] + 2)
        BY <1>3 DEF GoesOn
    <2> QED  BY <1>0, <2>1, OpAround DEF Around
<1> QED  BY <1>0, <1>1, <1>2, <1>3 DEF Fate, Begun, Suspends, Ends, Still

\* A thread is at a wait when its next position is one.
LEMMA OpNext ==
    ASSUME Inductive, NEW issued, NEW rdy, Cycles(issued, rdy), NEW t \in Thread
    PROVE  Op(t)' = "wait" <=> pc'[t] \in 1 .. Len(Program) /\ Program[pc'[t]].op = "wait"
<1>1. pc'[t] \in 1 .. Len(Program) + 1 /\ Len(Program) \in Nat  BY KeepsPc, ProgramFacts
<1>2. Op(t)' = IF pc'[t] = Len(Program) + 1 THEN "end" ELSE Program[pc'[t]].op  BY DEF Op
<1> QED  BY <1>1, <1>2

\* A cycle without the release of a barrier takes no thread past a wait, or one that was
\* released, and a thread arrives at a barrier exactly when it issues reach.
LEMMA FrontierStep ==
    ASSUME Inductive, NEW issued, NEW rdy, Cycles(issued, rdy), NEW t \in Thread, ~WaitAllThreads
    PROVE  /\ \A p \in 1 .. Len(Program) :
                Program[p].op = "wait" => (Frontier(t)' > p <=> Frontier(t) > p)
           /\ Arrived(t)' <=> Arrived(t) \/ (Selected(t) /\ issued[t[1]] = "reach")
           /\ Selected(t) /\ issued[t[1]] = "reach" => ~Arrived(t)
<1>0. Len(Program) \in Nat /\ pc[t] \in 1 .. Len(Program) + 1 /\ t[1] \in Core  BY Parts, ProgramFacts
<1>1. Fate(t, issued)  BY Waking DEF Wakes
<1>2. Released(t)' <=> InReady(t, "barrier")
    <2>1. Released(t)' <=> InReady(t, "barrier")' \/ OnWires(t, "barrier")'  BY DEF Released
    <2> QED  BY <2>1, WokenStep DEF Answers
<1>3. /\ Frontier(t)' = IF Released(t)' THEN pc'[t] + 1 ELSE pc'[t]
      /\ Frontier(t) = IF Released(t) THEN pc[t] + 1 ELSE pc[t]
      /\ Arrived(t)' <=> Op(t)' = "wait" /\ ~Released(t)'
      /\ Arrived(t) <=> Op(t) = "wait" /\ ~Released(t)
    BY DEF Frontier, Arrived
<1>4. /\ Op(t)' = "wait" <=> pc'[t] \in 1 .. Len(Program) /\ Program[pc'[t]].op = "wait"
      /\ pc'[t] \in 1 .. Len(Program) + 1
    BY OpNext, KeepsPc
<1>5. Released(t) => Op(t) = "wait"  BY StateFacts
<1>6. Selected(t) /\ issued[t[1]] = "reach" => wait[t] = "no" /\ Op(t) = "reach"
    <2>1. issued \in Issuable  BY DEF Cycles
    <2>2. Selected(t) => t = Cur(t[1])  BY DEF Selected
    <2> QED  BY <1>0, <2>1, <2>2, Choosing
<1>7. ASSUME Resumed(t, issued)
      PROVE  /\ \A p \in 1 .. Len(Program) :
                  Program[p].op = "wait" => (Frontier(t)' > p <=> Frontier(t) > p)
             /\ Arrived(t)' <=> Arrived(t) \/ (Selected(t) /\ issued[t[1]] = "reach")
    <2>1. /\ wait[t] \in Answers /\ Selected(t) /\ answer_out[t[1]] = wait[t] /\ issued[t[1]] = "none"
          /\ OnWires(t, wait[t])
          /\ pc'[t] = pc[t] + 1 \/ (Op(t) = "combine" /\ pc'[t] = pc[t] - 1)
        BY <1>7 DEF Resumed, OnWires
    <2>2. t \notin thread_ready  BY <2>1, StateFacts
    <2>3. ~Released(t)'  BY <1>2, <2>2 DEF InReady
    <2>4. Op(t) \in Asker(wait[t])  BY <2>1, StateFacts
    <2>5. CASE wait[t] = "barrier"
        <3>1. Released(t) /\ Op(t) = "wait"  BY <2>1, <2>5, StateFacts DEF Released
        <3>2. pc'[t] = pc[t] + 1 /\ Frontier(t)' = Frontier(t)  BY <1>3, <2>1, <2>3, <3>1
        <3>3. pc[t] \in 1 .. Len(Program) /\ Program[pc[t]].op = "wait"  BY <3>1, OpAround
        <3>4. Op(t)' # "wait"
            <4> SUFFICES ASSUME Op(t)' = "wait" PROVE FALSE  OBVIOUS
            <4>1. pc'[t] \in 1 .. Len(Program) /\ Program[pc'[t]].op = "wait"  BY <1>4
            <4>2. Around(pc'[t]) /\ pc'[t] - 1 = pc[t]  BY <1>0, <3>2, <4>1, ProgramFacts
            <4> QED  BY <3>3, <4>1, <4>2 DEF Around
        <3> QED  BY <1>3, <2>1, <3>1, <3>2, <3>4
    <2>6. CASE wait[t] # "barrier"
        <3>1. Op(t) \in {"load", "combine", "enter"}  BY <2>1, <2>4, <2>6, Askers DEF Answers
        <3>2. ~Released(t) /\ Frontier(t) = pc[t] /\ Frontier(t)' = pc'[t]  BY <1>3, <1>5, <2>3, <3>1
        <3>3. pc[t] \in 1 .. Len(Program) /\ Op(t) = Program[pc[t]].op /\ Around(pc[t])
            BY <3>1, OpAround
        <3>4. CASE pc'[t] = pc[t] + 1
            <4>1. Op(t)' # "wait"
                <5> SUFFICES ASSUME Op(t)' = "wait" PROVE FALSE  OBVIOUS
                <5>1. pc'[t] \in 1 .. Len(Program) /\ Program[pc'[t]].op = "wait"  BY <1>4
                <5>2. Around(pc'[t]) /\ pc'[t] - 1 = pc[t]  BY <1>0, <3>4, <5>1, ProgramFacts
                <5> QED  BY <3>1, <3>3, <5>1, <5>2 DEF Around
            <4>2. \A p \in 1 .. Len(Program) :
                    Program[p].op = "wait" => (Frontier(t)' > p <=> Frontier(t) > p)
                BY <1>0, <3>1, <3>2, <3>3, <3>4
            <4> QED  BY <1>3, <2>1, <3>1, <4>1, <4>2
        <3>5. CASE Op(t) = "combine" /\ pc'[t] = pc[t] - 1
            <4>1. pc[t] > 1 /\ Program[pc[t] - 1].op = "get"  BY <3>3, <3>5 DEF Around
            <4>2. \A p \in 1 .. Len(Program) :
                    Program[p].op = "wait" => (Frontier(t)' > p <=> Frontier(t) > p)
                BY <1>0, <3>2, <3>5, <4>1
            <4>3. Op(t)' # "wait"  BY <1>4, <3>5, <4>1
            <4> QED  BY <1>3, <2>1, <3>1, <4>2, <4>3
        <3> QED  BY <2>1, <3>4, <3>5
    <2> QED  BY <2>5, <2>6
<1>8. ASSUME GoesOn(t, issued)
      PROVE  /\ \A p \in 1 .. Len(Program) :
                  Program[p].op = "wait" => (Frontier(t)' > p <=> Frontier(t) > p)
             /\ Arrived(t)' <=> Arrived(t) \/ (Selected(t) /\ issued[t[1]] = "reach")
    <2>1. /\ wait[t] = "no" /\ Selected(t) /\ Op(t) \in {"exit", "reach", "set", "get", "load"}
          /\ issued[t[1]] = "reach" <=> Op(t) = "reach"
          /\ pc'[t] = pc[t] + 1 \/ (Op(t) = "get" /\ pc'[t] = pc[t] + 2)
        BY <1>8 DEF GoesOn
    <2>2. ~Released(t)  BY <1>5, <2>1
    <2>3. ~Released(t)'  BY <1>2, <2>2 DEF Released
    <2>4. Frontier(t) = pc[t] /\ Frontier(t)' = pc'[t]  BY <1>3, <2>2, <2>3
    <2>5. pc[t] \in 1 .. Len(Program) /\ Op(t) = Program[pc[t]].op /\ Around(pc[t])
        BY <2>1, OpAround
    <2>6. \A p \in 1 .. Len(Program) :
            Program[p].op = "wait" => (Frontier(t)' > p <=> Frontier(t) > p)
        <3>1. CASE pc'[t] = pc[t] + 1  BY <1>0, <2>1, <2>4, <2>5, <3>1
        <3>2. CASE Op(t) = "get" /\ pc'[t] = pc[t] + 2
            <4>1. Program[pc[t] + 1].op = "combine"  BY <2>5, <3>2 DEF Around
            <4>2. ASSUME NEW p \in 1 .. Len(Program), Program[p].op = "wait"
                  PROVE  p # pc[t] /\ p # pc[t] + 1
                BY <2>1, <2>5, <3>2, <4>1, <4>2
            <4> QED  BY <1>0, <2>4, <3>2, <4>2
        <3> QED  BY <2>1, <3>1, <3>2
    <2>7. Op(t)' = "wait" <=> Op(t) = "reach"
        <3>1. ASSUME Op(t) = "reach" PROVE Op(t)' = "wait"
            <4>1. pc[t] + 1 \in 1 .. Len(Program) /\ Program[pc[t] + 1].op = "wait" /\ pc'[t] = pc[t] + 1
                BY <1>0, <2>1, <2>5, <3>1 DEF Around
            <4> QED  BY <1>4, <4>1
        <3>2. ASSUME Op(t)' = "wait" PROVE Op(t) = "reach"
            <4>1. pc'[t] \in 1 .. Len(Program) /\ Program[pc'[t]].op = "wait"  BY <1>4, <3>2
            <4>2. Around(pc'[t])  BY <4>1, ProgramFacts
            <4>3. Program[pc'[t] - 1].op = "reach"  BY <4>1, <4>2 DEF Around
            <4>4. CASE pc'[t] = pc[t] + 1
                <5>1. pc'[t] - 1 = pc[t]  BY <1>0, <4>4
                <5> QED  BY <2>5, <4>3, <5>1
            <4>5. CASE Op(t) = "get" /\ pc'[t] = pc[t] + 2
                <5>1. pc'[t] - 1 = pc[t] + 1  BY <1>0, <4>5
                <5> QED  BY <2>5, <4>3, <4>5, <5>1 DEF Around
            <4> QED  BY <2>1, <4>4, <4>5
        <3> QED  BY <3>1, <3>2
    <2> QED  BY <1>3, <2>1, <2>3, <2>6, <2>7
<1>9. ASSUME Begun(t, issued) \/ Ends(t, issued) \/ Still(t, issued)
             \/ \E kind \in Answers : Suspends(t, issued, kind)
      PROVE  /\ \A p \in 1 .. Len(Program) :
                  Program[p].op = "wait" => (Frontier(t)' > p <=> Frontier(t) > p)
             /\ Arrived(t)' <=> Arrived(t) \/ (Selected(t) /\ issued[t[1]] = "reach")
    <2>1. pc'[t] = pc[t]  BY <1>9 DEF Begun, Ends, Still, Suspends
    <2>2. Op(t)' = Op(t)  BY <2>1, OpStep
    <2>3. ~(Selected(t) /\ issued[t[1]] = "reach")
        <3> SUFFICES ASSUME Selected(t), issued[t[1]] = "reach" PROVE FALSE  OBVIOUS
        <3>1. wait[t] = "no" /\ Op(t) = "reach"  BY <1>6
        <3>2. PICK kind \in Answers : Suspends(t, issued, kind)
            BY <1>9, <3>1 DEF Begun, Ends, Still
        <3> QED  BY <3>1, <3>2, Askers DEF Suspends, Answers
    <2>4. ~OnWires(t, "barrier")
        <3> SUFFICES ASSUME OnWires(t, "barrier") PROVE FALSE  OBVIOUS
        <3>1. wait[t] = "barrier" /\ t[1] \in started
            <4>1. t = Cur(t[1]) /\ answer_out[t[1]] = "barrier"  BY DEF OnWires, Selected
            <4> QED  BY <4>1, Parts DEF CoreState
        <3> QED  BY <1>9, <3>1 DEF Begun, Ends, Still, Suspends, Answers
    <2>5. Released(t)' <=> Released(t)  BY <1>2, <2>4 DEF Released
    <2> QED  BY <1>3, <2>1, <2>2, <2>3, <2>5
<1>10. /\ \A p \in 1 .. Len(Program) :
            Program[p].op = "wait" => (Frontier(t)' > p <=> Frontier(t) > p)
       /\ Arrived(t)' <=> Arrived(t) \/ (Selected(t) /\ issued[t[1]] = "reach")
    BY <1>1, <1>7, <1>8, <1>9 DEF Fate
<1> QED  BY <1>3, <1>6, <1>10
\* The cycle of the release: nobody moves, and everybody is released.
LEMMA PulseStep ==
    ASSUME Inductive, NEW issued, NEW rdy, Cycles(issued, rdy), NEW t \in Thread, WaitAllThreads
    PROVE  pc'[t] = pc[t] /\ Released(t)' /\ ~Arrived(t)' /\ Frontier(t)' = pc[t] + 1
<1>1. Op(t) = "wait" /\ answer_out[t[1]] = "none" /\ wait[t] \in {"no", "barrier"}  BY PulseFacts
<1>2. Fate(t, issued)  BY Waking DEF Wakes
<1>3. pc'[t] = pc[t]
    BY <1>1, <1>2 DEF Fate, Resumed, OnWires, Begun, GoesOn, Suspends, Ends, Still, Answers
<1>4. Released(t)'
    <2>1. InReady(t, "barrier")'  BY WokenStep DEF Answers
    <2> QED  BY <2>1 DEF Released
<1>5. Frontier(t)' = pc'[t] + 1 /\ ~Arrived(t)'  BY <1>4 DEF Frontier, Arrived
<1> QED  BY <1>3, <1>4, <1>5

\* The threads stay in the same round: only the release of a barrier, which reaches all of
\* them in one cycle, takes anybody past it.
LEMMA KeepsSameRound ==
    ASSUME Inductive, NEW issued, NEW rdy, Cycles(issued, rdy)
    PROVE  SameRound'
<1>0. SameRound  BY DEF Inductive
<1>1. CASE ~WaitAllThreads
    <2>1. \A t \in Thread : \A p \in 1 .. Len(Program) :
            Program[p].op = "wait" => (Frontier(t)' > p <=> Frontier(t) > p)
        BY <1>1, FrontierStep
    <2>2. \A t, u \in Thread : \A p \in 1 .. Len(Program) :
            Program[p].op = "wait" => (Frontier(t)' > p <=> Frontier(u)' > p)
        BY <1>0, <2>1 DEF SameRound
    <2> QED  BY <2>2 DEF SameRound
<1>2. CASE WaitAllThreads
    <2>1. ASSUME NEW t \in Thread, NEW u \in Thread PROVE pc[t] =< pc[u]
        <3>1. /\ Frontier(t) = pc[t] /\ Frontier(u) = pc[u]
              /\ Op(t) = "wait"
            BY <1>2, PulseFacts DEF Frontier
        <3>2. pc[t] \in 1 .. Len(Program) /\ Program[pc[t]].op = "wait"  BY <3>1, OpAround
        <3>3. Frontier(t) > pc[t] <=> Frontier(u) > pc[t]  BY <1>0, <3>2 DEF SameRound
        <3>4. pc[u] \in 1 .. Len(Program) + 1 /\ Len(Program) \in Nat  BY Parts, ProgramFacts
        <3>5. Frontier(u) > pc[t] => FALSE
            <4> SUFFICES ASSUME pc[u] > pc[t] PROVE FALSE  BY <3>1
            <4>1. pc[t] > pc[t]  BY <3>1, <3>3
            <4> QED  BY <3>2, <4>1
        <3>6. Op(u) = "wait" /\ pc[u] \in 1 .. Len(Program) /\ Program[pc[u]].op = "wait"
            BY <1>2, PulseFacts, OpAround
        <3>7. Frontier(t) > pc[u] <=> Frontier(u) > pc[u]  BY <1>0, <3>6 DEF SameRound
        <3>8. ~(pc[t] > pc[u])  BY <3>1, <3>6, <3>7
        <3> QED  BY <3>2, <3>6, <3>8
    <2>2. \A t, u \in Thread : pc[t] = pc[u]
        <3> TAKE t, u \in Thread
        <3>1. pc[t] =< pc[u] /\ pc[u] =< pc[t]  BY <2>1
        <3>2. pc[t] \in 1 .. Len(Program) + 1 /\ pc[u] \in 1 .. Len(Program) + 1 /\ Len(Program) \in Nat
            BY Parts, ProgramFacts
        <3> QED  BY <3>1, <3>2
    <2>3. \A t \in Thread : Frontier(t)' = pc[t] + 1  BY <1>2, PulseStep
    <2>4. \A t, u \in Thread : Frontier(t)' = Frontier(u)'  BY <2>2, <2>3
    <2> QED  BY <2>4 DEF SameRound
<1> QED  BY <1>1, <1>2

\* The register of a core goes on counting the contexts that arrived at the barrier, modulo
\* the number of contexts, and the core is done when they are all there
\* (kmp_bambu_barrier_register).
LEMMA KeepsCounted ==
    ASSUME Inductive, NEW issued, NEW rdy, Cycles(issued, rdy), NEW a \in Core
    PROVE  Counted(a)' /\ register'[a] \in 0 .. ContextNumber - 1
<1>0. /\ Counted(a) /\ Types /\ BarrierRegister(issued)
      /\ register[a] \in 0 .. ContextNumber - 1
    BY DEF Inductive, Cycles, Tick, Types
<1>n. ContextNumber \in Nat /\ ContextNumber > 0  BY ContextNumberFacts, TeamAssumption
<1>1. CASE WaitAllThreads
    <2>1. a \notin barrier_done' /\ register'[a] = 0  BY <1>0, <1>1 DEF BarrierRegister
    <2>2. \A t \in ThreadsOf[a] : ~Arrived(t)'  BY <1>1, ThreadFacts, PulseStep
    <2>3. Arrivals(a)' = {}  BY <2>2 DEF Arrivals
    <2>4. Cardinality(Arrivals(a)') = 0  BY <2>3, FS_EmptySet
    <2> QED  BY <1>n, <2>1, <2>4 DEF Counted
<1>2. CASE ~WaitAllThreads
    <2>0. /\ register'[a] = (register[a] + (IF Arrives(a, issued) THEN 1 ELSE 0)) % ContextNumber
          /\ a \in barrier_done' <=>
               a \in barrier_done \/ (Arrives(a, issued) /\ register[a] = ContextNumber - 1)
        BY <1>0, <1>2 DEF BarrierRegister
    <2>1. Cur(a) \in Thread /\ Cur(a)[1] = a /\ Selected(Cur(a)) /\ Cur(a) \in ThreadsOf[a]
        BY <1>0, CurFacts, ThreadFacts
    <2>2. Arrives(a, issued) <=> issued[a] = "reach"  BY <2>1 DEF Arrives, Issues
    <2>3. \A t \in ThreadsOf[a] : /\ t \in Thread
                                  /\ Arrived(t)' <=> Arrived(t) \/ (t = Cur(a) /\ issued[a] = "reach")
        <3> TAKE t \in ThreadsOf[a]
        <3>1. t \in Thread /\ t[1] = a  BY ThreadFacts
        <3>2. Selected(t) <=> t = Cur(a)  BY <3>1 DEF Selected
        <3> QED  BY <1>2, <3>1, <3>2, FrontierStep
    <2>4. \A t : /\ t \in Arrivals(a)' <=> t \in ThreadsOf[a] /\ Arrived(t)'
                 /\ t \in Arrivals(a) <=> t \in ThreadsOf[a] /\ Arrived(t)
        BY DEF Arrivals
    <2>5. IsFiniteSet(ThreadsOf[a]) /\ Cardinality(ThreadsOf[a]) \in Nat
          /\ Cardinality(ThreadsOf[a]) =< ContextNumber
        BY ThreadsCounted
    <2>6. CASE issued[a] # "reach"
        <3>1. Arrivals(a)' = Arrivals(a)  BY <2>3, <2>4, <2>6
        <3>2. register'[a] = register[a] /\ (a \in barrier_done' <=> a \in barrier_done)
            <4>1. register'[a] = (register[a] + 0) % ContextNumber  BY <2>0, <2>2, <2>6
            <4>2. (register[a] + 0) % ContextNumber = register[a]  BY <1>0, <1>n
            <4> QED  BY <2>0, <2>2, <2>6, <4>1, <4>2
        <3> QED  BY <1>0, <3>1, <3>2 DEF Counted
    <2>7. CASE issued[a] = "reach"
        <3>1. Cur(a) \notin Arrivals(a)  BY <1>2, <2>1, <2>4, <2>7, FrontierStep
        <3>2. Arrivals(a)' = Arrivals(a) \cup {Cur(a)}  BY <2>1, <2>3, <2>4, <2>7
        <3>3. a \notin barrier_done  BY <1>0, <2>1, <3>1 DEF Counted
        <3>4. register[a] = Cardinality(Arrivals(a))  BY <1>0, <3>3 DEF Counted
        <3>5. IsFiniteSet(Arrivals(a)) /\ Arrivals(a)' \subseteq ThreadsOf[a]
            BY <2>4, <2>5, FS_Subset
        <3>6. Cardinality(Arrivals(a)') = register[a] + 1
            <4>1. Cardinality(Arrivals(a) \cup {Cur(a)}) = Cardinality(Arrivals(a)) + 1
                BY <3>1, <3>5, FS_AddElement
            <4> QED  BY <3>2, <3>4, <4>1
        <3>7. CASE register[a] = ContextNumber - 1
            <4>1. a \in barrier_done' /\ register'[a] = (register[a] + 1) % ContextNumber
                BY <2>0, <2>2, <2>7, <3>7
            <4>2. register'[a] = 0
                <5>1. register[a] + 1 = ContextNumber  BY <1>n, <3>7
                <5>2. ContextNumber % ContextNumber = 0  BY <1>n
                <5> QED  BY <4>1, <5>1, <5>2
            <4>3. Cardinality(Arrivals(a)') = ContextNumber  BY <1>n, <3>6, <3>7
            <4>4. Arrivals(a)' = ThreadsOf[a]
                <5>1. Cardinality(Arrivals(a)') =< Cardinality(ThreadsOf[a])
                    BY <2>5, <3>5, FS_Subset
                <5>2. Cardinality(Arrivals(a)') = Cardinality(ThreadsOf[a])
                    BY <1>n, <2>5, <4>3, <5>1
                <5> QED  BY <2>5, <3>5, <5>2, FS_Subset
            <4>5. a \in barrier_done' => Arrivals(a)' = ThreadsOf[a] /\ register'[a] = 0  BY <4>2, <4>4
            <4> QED  BY <1>n, <4>1, <4>2, <4>5 DEF Counted
        <3>8. CASE register[a] # ContextNumber - 1
            <4>1. a \notin barrier_done' /\ register'[a] = (register[a] + 1) % ContextNumber
                BY <2>0, <2>2, <2>7, <3>3, <3>8
            <4>2. register[a] + 1 \in 0 .. ContextNumber - 1  BY <1>0, <1>n, <3>8
            <4>3. (register[a] + 1) % ContextNumber = register[a] + 1  BY <1>n, <4>2
            <4> QED  BY <3>6, <4>1, <4>2, <4>3 DEF Counted
        <3> QED  BY <3>7, <3>8
    <2> QED  BY <2>6, <2>7
<1> QED  BY <1>1, <1>2

-----------------------------------------------------------------------------
(* The lock.                                                               *)

\* A thread takes the lock by being granted it, and gives it back by leaving the section.
LEMMA HoldsStep ==
    ASSUME Inductive, NEW issued, NEW rdy, Cycles(issued, rdy), NEW t \in Thread
    PROVE  /\ Holds(t)' <=> \/ Holds(t) /\ ~(Selected(t) /\ issued[t[1]] = "exit")
                            \/ t \in Granted
           /\ Selected(t) /\ issued[t[1]] = "exit" => Holds(t)
           /\ t \in Granted => ~Holds(t)
<1>0. /\ Len(Program) \in Nat /\ pc[t] \in 1 .. Len(Program) + 1 /\ t[1] \in Core
      /\ Depth[1] = 0 /\ Depth[Len(Program) + 1] = 0
    BY Parts, ProgramFacts
<1>1. Wakes(t, issued, rdy)  BY Waking
<1>2. Fate(t, issued)  BY <1>1 DEF Wakes
<1>3. /\ Holds(t)' <=> Depth[pc'[t]] = 1 \/ (wait'[t] = "lock" /\ t \notin lock_request')
      /\ Holds(t) <=> Depth[pc[t]] = 1 \/ (wait[t] = "lock" /\ t \notin lock_request)
    BY DEF Holds
<1>4. /\ t \in lock_request' <=> /\ t \in lock_request \/ (Selected(t) /\ issued[t[1]] = "enter")
                                 /\ t \notin Granted
      /\ t \in Granted => t \in lock_request /\ wait[t] = "lock"
    BY <1>1, StateFacts DEF Wakes
<1>5. /\ Op(t) = "end" => Depth[pc[t]] = 0
      /\ Op(t) # "end" => Around(pc[t]) /\ Op(t) = Program[pc[t]].op
    BY <1>0, OpAround
<1>6. wait[t] = "lock" => Op(t) = "enter" /\ Depth[pc[t]] = 0
    BY <1>5, StateFacts, Askers DEF Answers, Around
<1>7. Selected(t) /\ issued[t[1]] = "exit" => Holds(t) /\ wait[t] = "no" /\ Op(t) = "exit"
    <2>1. issued \in Issuable  BY DEF Cycles
    <2>2. Selected(t) => t = Cur(t[1])  BY DEF Selected
    <2>3. Selected(t) /\ issued[t[1]] = "exit" => Op(t) = "exit" /\ wait[t] = "no"
        BY <1>0, <2>1, <2>2, Choosing
    <2> QED  BY <1>3, <1>5, <2>3 DEF Around
<1>8. t \in Granted => ~Holds(t)  BY <1>3, <1>4, <1>6
<1> DEFINE Goal == Holds(t)' <=> \/ Holds(t) /\ ~(Selected(t) /\ issued[t[1]] = "exit")
                                 \/ t \in Granted
<1>9. ASSUME Resumed(t, issued) PROVE Goal
    <2>1. /\ wait[t] \in Answers /\ OnWires(t, wait[t]) /\ issued[t[1]] = "none" /\ wait'[t] = "no"
          /\ pc'[t] = IF Op(t) = "combine" /\ MoreToCombine THEN pc[t] - 1 ELSE pc[t] + 1
        BY <1>9 DEF Resumed
    <2>2. t \notin lock_request /\ t \notin Granted  BY <1>4, <2>1, StateFacts
    <2>3. Op(t) \in Asker(wait[t])  BY <2>1, StateFacts
    <2>4. CASE wait[t] = "lock"
        <3>1. Op(t) = "enter"  BY <2>3, <2>4, Askers
        <3>2. Depth[pc'[t]] = 1  BY <1>5, <2>1, <3>1 DEF Around
        <3> QED  BY <1>3, <2>1, <2>2, <2>4, <3>2
    <2>5. CASE wait[t] # "lock"
        <3>1. Op(t) \in {"load", "combine", "wait"}  BY <2>1, <2>3, <2>5, Askers DEF Answers
        <3>2. Depth[pc'[t]] = Depth[pc[t]]  BY <1>5, <2>1, <3>1 DEF Around
        <3> QED  BY <1>3, <2>1, <2>2, <2>5, <3>2
    <2> QED  BY <2>4, <2>5
<1>10. ASSUME GoesOn(t, issued) PROVE Goal
    <2>1. /\ wait[t] = "no" /\ Selected(t) /\ wait'[t] = "no"
          /\ Op(t) \in {"exit", "reach", "set", "get", "load"}
          /\ issued[t[1]] = "exit" <=> Op(t) = "exit"
          /\ pc'[t] = pc[t] + 1 \/ (Op(t) = "get" /\ pc'[t] = pc[t] + 2)
        BY <1>10 DEF GoesOn
    <2>2. t \notin Granted  BY <1>4, <2>1
    <2>3. Op(t) = "exit" => Depth[pc'[t]] = 0  BY <1>5, <2>1 DEF Around
    <2>4. Op(t) # "exit" => Depth[pc'[t]] = Depth[pc[t]]  BY <1>5, <2>1 DEF Around
    <2> QED  BY <1>3, <2>1, <2>2, <2>3, <2>4
<1>11. ASSUME NEW kind \in Answers, Suspends(t, issued, kind) PROVE Goal
    <2>1. /\ wait[t] = "no" /\ Selected(t) /\ wait'[t] = kind /\ pc'[t] = pc[t]
          /\ issued[t[1]] = Op(t) /\ Op(t) \in Asker(kind)
        BY <1>11 DEF Suspends
    <2>2. t \notin Granted /\ issued[t[1]] # "exit"  BY <1>4, <2>1, Askers DEF Answers
    <2>3. kind = "lock" => t \in lock_request'  BY <1>4, <2>1, <2>2, Askers
    <2> QED  BY <1>3, <2>1, <2>2, <2>3
<1>12. ASSUME Begun(t, issued) \/ Ends(t, issued) PROVE Goal
    <2>1. /\ wait[t] \in {"idle", "no"} /\ wait'[t] \in {"no", "done"} /\ pc'[t] = pc[t]
          /\ issued[t[1]] # "exit"
        BY <1>12 DEF Begun, Ends
    <2>2. t \notin Granted  BY <1>4, <2>1
    <2> QED  BY <1>3, <2>1, <2>2
<1>13. ASSUME Still(t, issued) PROVE Goal
    <2>1. /\ wait'[t] = wait[t] /\ pc'[t] = pc[t]
          /\ ~(Selected(t) /\ issued[t[1]] = "exit") /\ ~(Selected(t) /\ issued[t[1]] = "enter")
        BY <1>13 DEF Still
    <2> QED  BY <1>3, <1>4, <2>1
<1>14. Goal
    <2> HIDE DEF Goal
    <2> QED  BY <1>2, <1>9, <1>10, <1>11, <1>12, <1>13 DEF Fate
<1> QED  BY <1>7, <1>8, <1>14

\* A grant is given only when nobody is in a critical section or on the way into one.
LEMMA KeepsMutualExclusion ==
    ASSUME Inductive, NEW issued, NEW rdy, Cycles(issued, rdy)
    PROVE  MutualExclusion'
<1>0. /\ Types /\ CriticalManager(issued)
      /\ \A t, u \in Thread : Holds(t) /\ Holds(u) => t = u
      /\ lock_free <=> \A t \in Thread : ~Holds(t)
    BY DEF Inductive, MutualExclusion, Cycles, Tick
<1> DEFINE Exits(t) == Selected(t) /\ issued[t[1]] = "exit"
<1>1. \A t \in Thread : /\ Holds(t)' <=> (Holds(t) /\ ~Exits(t)) \/ t \in Granted
                        /\ Exits(t) => Holds(t)
                        /\ t \in Granted => ~Holds(t)
    BY HoldsStep
<1>2. lock_free' <=> (lock_free /\ lock_request = {}) \/ \E t \in Thread : Exits(t)
    BY <1>0 DEF CriticalManager, Issues
<1>3. /\ Granted \subseteq lock_request /\ Granted \subseteq Thread
      /\ \A t, u \in Granted : t = u
      /\ Granted # {} => lock_free
      /\ lock_free /\ lock_request # {} => Granted # {}
    BY <1>0, GrantedFacts DEF Inductive
<1> HIDE DEF Exits
<1>4. \A t, u \in Thread : Holds(t)' /\ Holds(u)' => t = u  BY <1>0, <1>1, <1>3
<1>5. ASSUME lock_free', NEW t \in Thread PROVE ~Holds(t)'
    <2>1. CASE lock_free /\ lock_request = {}  BY <1>0, <1>1, <1>3, <2>1
    <2>2. CASE \E u \in Thread : Exits(u)
        <3>1. PICK u \in Thread : Exits(u)  BY <2>2
        <3> QED  BY <1>0, <1>1, <1>3, <3>1
    <2> QED  BY <1>2, <1>5, <2>1, <2>2
<1>6. ASSUME \A t \in Thread : ~Holds(t)' PROVE lock_free'
    <2>1. CASE lock_free
        <3>1. Granted = {}  BY <1>1, <1>3, <1>6
        <3> QED  BY <1>2, <1>3, <2>1, <3>1
    <2>2. CASE ~lock_free
        <3>1. PICK t \in Thread : Holds(t)  BY <1>0, <2>2
        <3>2. Exits(t)  BY <1>1, <1>6, <3>1
        <3> QED  BY <1>2, <3>2
    <2> QED  BY <2>1, <2>2
<1> QED  BY <1>4, <1>5, <1>6 DEF MutualExclusion
-----------------------------------------------------------------------------
(* The invariant.                                                          *)

\* A cycle keeps every register in its range.
LEMMA KeepsTypes ==
    ASSUME Inductive, NEW issued, NEW rdy, Cycles(issued, rdy)
    PROVE  Types'
<1>0. /\ Types /\ issued \in Issuable /\ rdy \in Rdys
      /\ Contexts(issued) /\ StartDone(issued) /\ CsManager(issued, rdy)
      /\ CriticalManager(issued) /\ BarrierRegister(issued) /\ Memory(issued, rdy)
    BY DEF Inductive, Cycles, Tick
<1>1. pc' \in [Thread -> 1 .. Len(Program) + 1]
    <2>1. pc' = [t \in Thread |-> NextPc(t, issued)]  BY <1>0 DEF Contexts
    <2>2. \A t \in Thread : pc'[t] \in 1 .. Len(Program) + 1  BY KeepsPc
    <2> QED  BY <2>1, <2>2
<1>2. wait' \in [Thread -> Answers \cup {"no", "idle", "done"}]
    <2>1. wait' = [t \in Thread |-> NextWait(t, issued)]  BY <1>0 DEF Contexts
    <2>2. ASSUME NEW t \in Thread PROVE wait'[t] \in Answers \cup {"no", "idle", "done"}
        <3>1. Fate(t, issued) /\ wait[t] \in Answers \cup {"no", "idle", "done"}
            BY Waking, Parts DEF Wakes
        <3> QED  BY <3>1 DEF Fate, Resumed, Begun, GoesOn, Suspends, Ends, Still
    <2> QED  BY <2>1, <2>2
<1>3. start_reg' \subseteq Thread /\ started' \subseteq Core /\ done_reg' \subseteq Thread
    BY <1>0 DEF StartDone, Types
<1>4. \A a \in Core : Cur(a)' \in Thread
    <2> TAKE a \in Core
    <2>1. CoreStep(a, issued)  BY <1>0, Switched
    <2>2. Cur(a) \in Thread /\ (Switches(a, issued) => Target(a) \in Thread)
        BY <1>0, CurFacts, SwitchFacts
    <2> QED  BY <2>1, <2>2 DEF CoreStep
<1>5. current_tid' \in [Core -> 0 .. Ncontext - 1]
    <2>1. \E f : current_tid' = [a \in Core |-> f[a]]
        <3> DEFINE next == {a \in Core : CsNext(a, a \in {b \in Core : CsCondition(b, issued)})}
                   g == [a \in Core |-> IF a \in next THEN NewTid(a) ELSE current_tid[a]]
        <3>1. current_tid' = g  BY <1>0 DEF CsManager
        <3>2. g = [a \in Core |-> g[a]]  OBVIOUS
        <3> HIDE DEF g
        <3> QED  BY <3>1, <3>2
    <2>2. ASSUME NEW a \in Core PROVE current_tid'[a] \in 0 .. Ncontext - 1
        <3>1. Cur(a)' = <<a, current_tid'[a]>>  BY DEF Cur
        <3>2. Cur(a)'[2] \in 0 .. Ncontext - 1  BY <1>4, ThreadFacts
        <3> QED  BY <3>1, <3>2
    <2> QED  BY <2>1, <2>2
<1>6. thread_ready' \subseteq Thread /\ thread_ready_empty' \subseteq Core /\ cs_condition_reg' \subseteq Core
    BY <1>0 DEF CsManager
<1>7. answer_type' \in [Thread -> Answers \cup {"none"}]
    <2>1. \E f : answer_type' = [t \in Thread |-> f[t]]
        <3> DEFINE datardy == {t \in rdy : t[1] \in started}
                   lock == {t \in Granted : t[1] \in started}
                   waitall == IF WaitAllThreads THEN {t \in Thread : t[1] \in started} ELSE {}
                   g == [t \in Thread |->
                           CASE t \in datardy -> "data"
                             [] t \in lock \ datardy -> "lock"
                             [] t \in waitall \ (datardy \cup lock) -> "barrier"
                             [] OTHER -> answer_type[t]]
        <3>1. answer_type' = g  BY <1>0, Zenon DEF CsManager
        <3>2. g = [t \in Thread |-> g[t]]  OBVIOUS
        <3> HIDE DEF g
        <3> QED  BY <3>1, <3>2
    <2>2. ASSUME NEW t \in Thread PROVE answer_type'[t] \in Answers \cup {"none"}
        <3>1. CsStep(t, issued, rdy) /\ answer_type[t] \in Answers \cup {"none"}  BY Waking, Parts DEF Wakes
        <3> QED  BY <3>1 DEF CsStep, Answers
    <2> QED  BY <2>1, <2>2
<1>8. answer_out' \in [Core -> Answers \cup {"none"}]
    <2>1. \E f : answer_out' = [a \in Core |-> f[a]]
        <3> DEFINE next == {a \in Core : CsNext(a, a \in {b \in Core : CsCondition(b, issued)})}
                   g == [a \in Core |-> IF a \in next THEN answer_type[<<a, NewTid(a)>>] ELSE "none"]
        <3>1. answer_out' = g  BY <1>0 DEF CsManager
        <3>2. g = [a \in Core |-> g[a]]  OBVIOUS
        <3> HIDE DEF g
        <3> QED  BY <3>1, <3>2
    <2>2. ASSUME NEW a \in Core PROVE answer_out'[a] \in Answers \cup {"none"}
        <3>1. CoreStep(a, issued)  BY <1>0, Switched
        <3>2. Switches(a, issued) => Target(a) \in Thread  BY SwitchFacts
        <3> QED  BY <1>0, <3>1, <3>2 DEF CoreStep, Types
    <2> QED  BY <2>1, <2>2
<1>9. lock_request' \subseteq Thread /\ lock_free' \in BOOLEAN /\ mem' \subseteq Thread
    BY <1>0 DEF CriticalManager, Memory, Types
<1>10. register' \in [Core -> 0 .. ContextNumber - 1] /\ barrier_done' \subseteq Core
    <2>1. \A a \in Core : register'[a] \in 0 .. ContextNumber - 1  BY KeepsCounted
    <2>2. CASE WaitAllThreads
        <3>1. register' = [a \in Core |-> 0] /\ barrier_done' = {}  BY <1>0, <2>2 DEF BarrierRegister
        <3> QED  BY <2>1, <3>1
    <2>3. CASE ~WaitAllThreads
        <3>1. /\ register' = [a \in Core |->
                    (register[a] + (IF Arrives(a, issued) THEN 1 ELSE 0)) % ContextNumber]
              /\ barrier_done' \subseteq Core
            BY <1>0, <2>3 DEF BarrierRegister
        <3> QED  BY <2>1, <3>1
    <2> QED  BY <2>2, <2>3
<1> QED  BY <1>1, <1>2, <1>3, <1>4, <1>5, <1>6, <1>7, <1>8, <1>9, <1>10 DEF Types

\* A cycle preserves the invariant.
LEMMA KeepsCycle ==
    ASSUME Inductive, Cycle
    PROVE  Inductive'
<1>1. PICK issued \in Issuable, rdy \in Rdys : Tick(issued, rdy)  BY DEF Cycle
<1>2. Cycles(issued, rdy)  BY <1>1 DEF Cycles
<1>3. Types'  BY <1>2, KeepsTypes
<1>4. \A t \in Thread : ContextState(t)' /\ Requests(t)'  BY <1>2, KeepsContextState, KeepsRequests
<1>5. \A a \in Core : CoreState(a)' /\ Counted(a)'  BY <1>2, KeepsCoreState, KeepsCounted
<1>6. SameRound' /\ MutualExclusion'  BY <1>2, KeepsSameRound, KeepsMutualExclusion
<1> QED  BY <1>3, <1>4, <1>5, <1>6 DEF Inductive

\* The registers of the cores at reset and at the start pulse of a fork, and the shared
\* managers at rest, which the fork finds and does not reset.
Pulsed ==
    /\ current_tid = [a \in Core |-> 0]
    /\ thread_ready = {t \in Thread : t[2] # 0}
    /\ thread_ready_empty = {} /\ cs_condition_reg = {}
    /\ answer_type = [t \in Thread |-> "none"]
    /\ answer_out = [a \in Core |-> "none"]
    /\ pc = [t \in Thread |-> 1] /\ wait = [t \in Thread |-> "idle"]
    /\ start_reg \subseteq Thread /\ started \subseteq Core
    /\ \A t \in Thread : t[1] \in started => t \in start_reg
AtRest ==
    /\ done_reg = {} /\ lock_request = {} /\ lock_free = TRUE
    /\ register = [a \in Core |-> 0] /\ barrier_done = {}
    /\ mem = {}
Begins == RegSize # 16 /\ Pulsed /\ AtRest

\* The registers at rest, with the start pulse given, satisfy the invariant.
LEMMA Starting ==
    ASSUME Begins
    PROVE  Inductive
<1> USE DEF Begins, Pulsed, AtRest, Answers
<1>1. Types
    <2>1. \A a \in Core : Cur(a) \in Thread  BY ThreadFacts DEF Cur
    <2>2. 0 \in 0 .. Ncontext - 1 /\ 0 \in 0 .. ContextNumber - 1
        BY TeamAssumption, ContextNumberFacts
    <2>3. 1 \in 1 .. Len(Program) + 1  BY ProgramFacts
    <2> QED  BY <2>1, <2>2, <2>3 DEF Types
<1>2. ASSUME NEW t \in Thread
      PROVE  /\ wait[t] = "idle" /\ pc[t] = 1 /\ answer_type[t] = "none" /\ answer_out[t[1]] = "none"
             /\ t[1] \in Core /\ (t \notin thread_ready <=> Selected(t)) /\ Op(t) # "wait"
             /\ ~Released(t) /\ Depth[pc[t]] = 0
    <2>1. t[1] \in Core /\ t = <<t[1], t[2]>>  BY ThreadFacts
    <2>2. current_tid[t[1]] = 0  BY <2>1
    <2>3. Selected(t) <=> t[2] = 0  BY <2>1, <2>2 DEF Selected, Cur
    <2>4. Op(t) # "wait"
        <3>1. Op(t) = IF 1 = Len(Program) + 1 THEN "end" ELSE Program[1].op  BY DEF Op
        <3>2. Len(Program) \in Nat /\ (Len(Program) >= 1 => Around(1))  BY ProgramFacts
        <3> QED  BY <3>1, <3>2 DEF Around
    <2>5. ~Released(t)  BY <2>1 DEF Released, InReady, OnWires
    <2> QED  BY <2>1, <2>3, <2>4, <2>5, ProgramFacts
<1>3. ASSUME NEW t \in Thread PROVE ContextState(t) /\ Requests(t)
    <2>1. NotBegun(t)  BY <1>2 DEF NotBegun
    <2>2. ContextState(t)  BY <1>2, <2>1 DEF ContextState
    <2>3. Requests(t)  BY <1>2 DEF Requests, Pending
    <2> QED  BY <2>2, <2>3
<1>4. ASSUME NEW a \in Core PROVE CoreState(a) /\ Counted(a)
    <2>1. CoreState(a)  BY DEF CoreState
    <2>2. Arrivals(a) = {}  BY <1>2, ThreadFacts DEF Arrivals, Arrived
    <2>3. Counted(a)  BY <2>2, FS_EmptySet DEF Counted
    <2> QED  BY <2>1, <2>3
<1>5. SameRound
    <2>1. \A t \in Thread : Frontier(t) = 1  BY <1>2 DEF Frontier
    <2> QED  BY <2>1 DEF SameRound
<1>6. MutualExclusion
    <2>1. \A t \in Thread : ~Holds(t)  BY <1>2 DEF Holds
    <2> QED  BY <2>1 DEF MutualExclusion
<1> QED  BY <1>1, <1>3, <1>4, <1>5, <1>6 DEF Inductive

\* Once the last core is done the shared managers are at rest: the lock is free, no request is
\* in flight and the barrier counts nobody, so the next fork may start without a reset.
LEMMA RestsBetweenForks ==
    ASSUME Inductive, started = {}
    PROVE  AtRest
<1>1. ASSUME NEW t \in Thread
      PROVE  /\ wait[t] \in {"idle", "done"} /\ t \notin done_reg /\ t \notin mem /\ t \notin lock_request
             /\ Op(t) # "wait" /\ ~Holds(t)
    <2>1. wait[t] \in {"idle", "done"}  BY StateFacts, Parts
    <2>2. t \notin mem /\ t \notin lock_request  BY <2>1, StateFacts
    <2>3. t \notin done_reg  BY <2>1, Parts DEF ContextState, Over
    <2>4. pc[t] = 1 \/ pc[t] = Len(Program) + 1
        BY <2>1, Parts DEF ContextState, NotBegun, Over
    <2>5. Depth[pc[t]] = 0  BY <2>4, ProgramFacts
    <2>6. ~Holds(t)  BY <2>1, <2>5 DEF Holds
    <2>7. Op(t) # "wait"
        <3> SUFFICES ASSUME Op(t) = "wait" PROVE FALSE  OBVIOUS
        <3>1. pc[t] \in 1 .. Len(Program) /\ Around(pc[t]) /\ Program[pc[t]].op = "wait"  BY OpAround
        <3>2. pc[t] > 1 /\ pc[t] < Len(Program) + 1  BY <3>1, ProgramFacts DEF Around
        <3> QED  BY <2>4, <3>2, ProgramFacts
    <2> QED  BY <2>1, <2>2, <2>3, <2>6, <2>7
<1>2. Types  BY DEF Inductive
<1>3. done_reg = {} /\ mem = {} /\ lock_request = {}  BY <1>1, <1>2 DEF Types
<1>4. lock_free = TRUE  BY <1>1, <1>2 DEF Inductive, MutualExclusion, Types
<1>5. ASSUME NEW a \in Core PROVE a \notin barrier_done /\ register[a] = 0
    <2>1. Counted(a)  BY DEF Inductive
    <2>2. Arrivals(a) = {}  BY <1>1, ThreadFacts DEF Arrivals, Arrived
    <2>3. <<a, 0>> \in ThreadsOf[a]  BY ThreadFacts
    <2> QED  BY <2>1, <2>2, <2>3, FS_EmptySet DEF Counted
<1>6. barrier_done = {}  BY <1>2, <1>5 DEF Types
<1>7. register = [a \in Core |-> 0]  BY <1>2, <1>5 DEF Types
<1> QED  BY <1>3, <1>4, <1>6, <1>7 DEF AtRest

\* A fork preserves the invariant, because the registers are at rest when it is made.
LEMMA KeepsFork ==
    ASSUME Inductive, Fork
    PROVE  Inductive'
<1>1. AtRest  BY RestsBetweenForks DEF Fork
<1>2. AtRest'  BY <1>1 DEF Fork, AtRest, lockVars, barrierVars
<1>3. Pulsed'  BY DEF Fork, Pulsed
<1>4. Begins'  BY <1>2, <1>3 DEF Inductive, Begins
<1>5. Begins' => Inductive'  BY Starting, PTL
<1> QED  BY <1>4, <1>5

\* A step that changes nothing preserves the invariant.
LEMMA KeepsStutter ==
    ASSUME Inductive, UNCHANGED vars
    PROVE  Inductive'
<1> USE DEF vars, threadVars, csVars, lockVars, barrierVars, reduceVars
<1>1. Types'  BY DEF Inductive, Types, Cur
<1>2. ASSUME NEW t \in Thread PROVE ContextState(t)' /\ Requests(t)'
    <2>1. ContextState(t)'
        BY Parts DEF ContextState, NotBegun, Running, Suspended, Over, OnWires, Selected, Cur, Op
    <2>2. Requests(t)'  BY Parts DEF Requests, Pending, InReady, OnWires, Selected, Cur
    <2> QED  BY <2>1, <2>2
<1>3. \A t \in Thread : /\ Arrived(t)' = Arrived(t) /\ Frontier(t)' = Frontier(t)
                        /\ Holds(t)' = Holds(t)
    BY DEF Arrived, Frontier, Released, InReady, OnWires, Selected, Cur, Op, Holds
<1>4. ASSUME NEW a \in Core PROVE CoreState(a)' /\ Counted(a)'
    <2>1. CoreState(a)'  BY DEF Inductive, CoreState, Cur, ReadyOf
    <2>2. Arrivals(a)' = Arrivals(a)  BY <1>3, ThreadFacts DEF Arrivals
    <2>3. Counted(a)'  BY <2>2 DEF Inductive, Counted
    <2> QED  BY <2>1, <2>3
<1>5. SameRound' /\ MutualExclusion'  BY <1>3 DEF Inductive, SameRound, MutualExclusion
<1> QED  BY <1>1, <1>2, <1>4, <1>5 DEF Inductive

\* The inductive invariant holds in every state of the cores and their managers.
THEOREM InductiveHolds ==
    ASSUME RegSize # 16
    PROVE  Spec => []Inductive
<1>1. Init => Inductive
    <2> SUFFICES ASSUME Init PROVE Inductive  OBVIOUS
    <2>1. Begins  BY DEF Init, Begins, Pulsed, AtRest
    <2> QED  BY <2>1, Starting
<1>2. Inductive /\ [Next]_vars => Inductive'
    <2> SUFFICES ASSUME Inductive, [Next]_vars PROVE Inductive'  OBVIOUS
    <2>1. CASE Fork  BY <2>1, KeepsFork
    <2>2. CASE Cycle  BY <2>2, KeepsCycle
    <2>3. CASE UNCHANGED vars  BY <2>3, KeepsStutter
    <2> QED  BY <2>1, <2>2, <2>3 DEF Next
<1> QED  BY <1>1, <1>2, PTL DEF Spec

-----------------------------------------------------------------------------
(* The properties.                                                         *)

\* Critical sections exclude each other over all cores and contexts, also while the owner is
\* switched out or its grant is on the way, and the lock register is free exactly when nobody
\* holds the lock (kmp_bambu_fork_call_critical_manager), for every program and every team
\* whose contexts are not 16: the encoder of 16 inputs can grant the lock to a context that
\* did not ask for it, and then the lock is taken with no holder.
THEOREM MutualExclusionHolds ==
    ASSUME RegSize # 16
    PROVE  Spec => []MutualExclusion
<1>1. Inductive => MutualExclusion  BY DEF Inductive
<1> QED  BY <1>1, InductiveHolds, PTL

\* Threads in the same round do not overtake each other at a barrier.
LEMMA BarrierFrom ==
    ASSUME Inductive
    PROVE  BarrierHolds
<1> SUFFICES ASSUME NEW t \in Thread, NEW u \in Thread, NEW p \in 1 .. Len(Program),
                    Program[p].op = "wait", pc[t] > p
             PROVE  pc[u] >= p
    BY DEF BarrierHolds
<1>1. /\ pc[t] \in 1 .. Len(Program) + 1 /\ pc[u] \in 1 .. Len(Program) + 1
      /\ Len(Program) \in Nat
    BY Parts, ProgramFacts
<1>2. Frontier(t) > p <=> Frontier(u) > p  BY DEF Inductive, SameRound
<1> QED  BY <1>1, <1>2 DEF Frontier

\* No thread leaves a barrier that another thread of the team has not reached, whatever the
\* switches on the way and however many barriers follow each other
\* (kmp_bambu_wait_all_threads_rd, kmp_bambu_barrier_register).
THEOREM BarrierHoldsAlways ==
    ASSUME RegSize # 16
    PROVE  Spec => []BarrierHolds
<1>1. Inductive => BarrierHolds  BY BarrierFrom
<1> QED  BY <1>1, InductiveHolds, PTL

\* Exactly one of three places.
LEMMA OnceOf ==
    ASSUME NEW t, NEW kind, NEW asked \in BOOLEAN, InReady(t, kind) => ~OnWires(t, kind),
           asked <=> ~InReady(t, kind) /\ ~OnWires(t, kind)
    PROVE  Once(t, kind, asked)
<1> DEFINE r == InReady(t, kind)
           w == OnWires(t, kind)
           S == {i \in 1 .. 3 : <<asked, r, w>>[i]}
<1>0. r \in BOOLEAN /\ w \in BOOLEAN  BY DEF InReady, OnWires
<1>1. Once(t, kind, asked) <=> Cardinality(S) = 1  BY DEF Once
<1>2. (r => ~w) /\ (asked <=> ~r /\ ~w)  OBVIOUS
<1> HIDE DEF r, w
<1>3. \A i : i \in S <=> \/ i = 1 /\ asked
                         \/ i = 2 /\ r
                         \/ i = 3 /\ w
    <2>1. \A i : i \in 1 .. 3 <=> i = 1 \/ i = 2 \/ i = 3  OBVIOUS
    <2>2. <<asked, r, w>>[1] = asked /\ <<asked, r, w>>[2] = r /\ <<asked, r, w>>[3] = w  OBVIOUS
    <2> QED  BY <2>1, <2>2
<1> HIDE DEF S
<1>4. \E i : S = {i}
    <2>1. CASE r
        <3>1. S = {2}  BY <1>2, <1>3, <2>1
        <3> QED  BY <3>1
    <2>2. CASE w
        <3>1. S = {3}  BY <1>2, <1>3, <2>2
        <3> QED  BY <3>1
    <2>3. CASE ~r /\ ~w
        <3>1. S = {1}  BY <1>2, <1>3, <2>3
        <3> QED  BY <3>1
    <2> QED  BY <2>1, <2>2, <2>3
<1>5. Cardinality(S) = 1  BY <1>4, FS_Singleton
<1> QED  BY <1>1, <1>5

\* The wake-up of a suspended context is in exactly one place, whatever the program: with the
\* memory, with the lock manager or at the barrier, in the ready vector under its own kind of
\* answer, or on the wires to the selected context (kmp_bambu_cs_manager).  The contexts are
\* not 16, of which the lock manager can wake one that did not ask; and they fill the cores:
\* the barrier register of a core with fewer contexts counts to the number of the others and
\* never completes (OMPCGExt.cpp, compute_current_threads).
THEOREM WakeUpOnceHolds ==
    ASSUME RegSize # 16, Nthread % Ncontext = 0
    PROVE  Spec => []WakeUpOnce
<1>1. Inductive => WakeUpOnce
    <2> SUFFICES ASSUME Inductive, NEW t \in Thread
                 PROVE  /\ wait[t] = "no" /\ t[1] \in started => Selected(t)
                        /\ wait[t] = "data" => Once(t, "data", t \in mem)
                        /\ wait[t] = "lock" => Once(t, "lock", t \in lock_request)
                        /\ wait[t] = "barrier" =>
                             Once(t, "barrier", WaitAllThreads \/ \E u \in Thread : pc[u] < pc[t])
                        /\ wait[t] = "idle" /\ t[1] \in started =>
                             t \in start_reg /\ (Selected(t) <=> t \notin thread_ready)
                        /\ t \in mem => wait[t] = "data"
                        /\ t \in lock_request => wait[t] = "lock"
                        /\ \A kind \in Answers : OnWires(t, kind) => wait[t] = kind
        BY DEF WakeUpOnce
    <2>1. wait[t] \in Answers /\ InReady(t, wait[t]) => ~OnWires(t, wait[t])
        BY StateFacts DEF InReady
    <2>2. wait[t] = "data" => Once(t, "data", t \in mem)
        <3> SUFFICES ASSUME wait[t] = "data" PROVE Once(t, "data", t \in mem)  OBVIOUS
        <3>1. InReady(t, "data") => ~OnWires(t, "data")  BY <2>1 DEF Answers
        <3>2. t \in mem <=> ~InReady(t, "data") /\ ~OnWires(t, "data")  BY Parts DEF Requests, Pending
        <3> DEFINE asked == t \in mem
        <3>3. asked \in BOOLEAN /\ (asked <=> ~InReady(t, "data") /\ ~OnWires(t, "data"))  BY <3>2
        <3> HIDE DEF asked
        <3>4. Once(t, "data", asked)  BY <3>1, <3>3, OnceOf
        <3> QED  BY <3>4 DEF asked
    <2>3. wait[t] = "lock" => Once(t, "lock", t \in lock_request)
        <3> SUFFICES ASSUME wait[t] = "lock" PROVE Once(t, "lock", t \in lock_request)  OBVIOUS
        <3>1. InReady(t, "lock") => ~OnWires(t, "lock")  BY <2>1 DEF Answers
        <3>2. t \in lock_request <=> ~InReady(t, "lock") /\ ~OnWires(t, "lock")
            BY Parts DEF Requests, Pending
        <3> DEFINE asked == t \in lock_request
        <3>3. asked \in BOOLEAN /\ (asked <=> ~InReady(t, "lock") /\ ~OnWires(t, "lock"))  BY <3>2
        <3> HIDE DEF asked
        <3>4. Once(t, "lock", asked)  BY <3>1, <3>3, OnceOf
        <3> QED  BY <3>4 DEF asked
    <2>4. wait[t] = "barrier" =>
            Once(t, "barrier", WaitAllThreads \/ \E u \in Thread : pc[u] < pc[t])
        <3> SUFFICES ASSUME wait[t] = "barrier"
                     PROVE  Once(t, "barrier", WaitAllThreads \/ \E u \in Thread : pc[u] < pc[t])
            OBVIOUS
        <3> DEFINE asked == WaitAllThreads \/ \E u \in Thread : pc[u] < pc[t]
        <3>0. Op(t) = "wait"  BY StateFacts, Askers DEF Answers
        <3>1. InReady(t, "barrier") => ~OnWires(t, "barrier")  BY <2>1 DEF Answers
        <3>2. pc[t] \in 1 .. Len(Program) /\ Program[pc[t]].op = "wait" /\ Len(Program) \in Nat
            BY <3>0, OpAround, ProgramFacts
        <3>3. \A u \in Thread : Frontier(t) > pc[t] <=> Frontier(u) > pc[t]
            BY <3>2 DEF Inductive, SameRound
        <3>4. \A u \in Thread : pc[u] \in 1 .. Len(Program) + 1  BY Parts
        <3>5. ASSUME Released(t) PROVE ~asked
            <4>1. ~WaitAllThreads  BY <3>5, PulseFacts
            <4>2. Frontier(t) > pc[t]  BY <3>2, <3>5 DEF Frontier
            <4>3. ASSUME NEW u \in Thread PROVE ~(pc[u] < pc[t])
                <5>1. Frontier(u) > pc[t]  BY <3>3, <4>2
                <5> QED  BY <3>2, <3>4, <5>1 DEF Frontier
            <4> QED  BY <4>1, <4>3
        <3>6. ASSUME ~Released(t), \A u \in Thread : ~(pc[u] < pc[t]) PROVE WaitAllThreads
            <4>1. ~(Frontier(t) > pc[t])  BY <3>2, <3>6 DEF Frontier
            <4>2. ASSUME NEW u \in Thread PROVE Arrived(u)
                <5>1. ~(Frontier(u) > pc[t])  BY <3>3, <4>1
                <5>2. pc[u] = pc[t] /\ ~Released(u)  BY <3>2, <3>4, <3>6, <5>1 DEF Frontier
                <5>3. Op(u) = Op(t)  BY <5>2 DEF Op
                <5> QED  BY <3>0, <5>2, <5>3 DEF Arrived
            <4>3. ASSUME NEW a \in Core, a \notin barrier_done PROVE FALSE
                <5>1. Arrivals(a) = ThreadsOf[a]  BY <4>2, ThreadFacts DEF Arrivals
                <5>2. register[a] = Cardinality(ThreadsOf[a])  BY <4>3, <5>1 DEF Inductive, Counted
                <5>3. Cardinality(ThreadsOf[a]) = Ncontext  BY ThreadsCounted DEF ComputeCurrentThreads
                <5>4. register[a] \in 0 .. ContextNumber - 1  BY DEF Inductive, Types
                <5> QED  BY <5>2, <5>3, <5>4, ContextNumberFacts, TeamAssumption
            <4>4. Types  BY DEF Inductive
            <4> QED  BY <4>3, <4>4 DEF WaitAllThreads, Types
        <3>7. asked <=> ~InReady(t, "barrier") /\ ~OnWires(t, "barrier")
            BY <3>5, <3>6 DEF Released
        <3>8. asked \in BOOLEAN  BY DEF WaitAllThreads
        <3> HIDE DEF asked
        <3>9. Once(t, "barrier", asked)  BY <3>1, <3>7, <3>8, OnceOf
        <3> QED  BY <3>9 DEF asked
    <2>5. wait[t] = "idle" /\ t[1] \in started =>
            t \in start_reg /\ (Selected(t) <=> t \notin thread_ready)
        BY Parts DEF ContextState, NotBegun
    <2>6. \A kind \in Answers : OnWires(t, kind) => wait[t] = kind
        <3> SUFFICES ASSUME NEW kind \in Answers, OnWires(t, kind) PROVE wait[t] = kind  OBVIOUS
        <3>1. t = Cur(t[1]) /\ answer_out[t[1]] = kind  BY DEF OnWires, Selected
        <3> QED  BY <3>1, Parts DEF CoreState, Answers
    <2> QED  BY <2>2, <2>3, <2>4, <2>5, <2>6, StateFacts
<1> QED  BY <1>1, InductiveHolds, PTL

\* The cores end with the shared managers at rest, so that a fork, which resets none of them,
\* finds the lock free, the barrier empty and no request in flight.
THEOREM ForksNeedNoReset ==
    ASSUME RegSize # 16
    PROVE  Spec => [](started = {} => AtRest)
<1>1. Inductive => (started = {} => AtRest)  BY RestsBetweenForks
<1> QED  BY <1>1, InductiveHolds, PTL
-----------------------------------------------------------------------------
(* The reduction.                                                          *)

\* The place of a context in the order of cores and contexts.
Rank(t) == IF t[1] = 0 THEN t[2] ELSE ComputeCurrentThreads(0) + (t[1] - 1) * Ncontext + t[2]

\* Ranks number the threads from 0 to Nthread - 1 in the order of cores and contexts.
LEMMA RankFacts ==
    /\ \A t \in Thread : Rank(t) \in 0 .. Nthread - 1
    /\ \A t, u \in Thread : u[1] < t[1] \/ (u[1] = t[1] /\ u[2] < t[2]) <=> Rank(u) < Rank(t)
    /\ \A n \in 0 .. Nthread - 1 : \E t \in Thread : Rank(t) = n
<1> DEFINE k == ComputeCurrentThreads(0)
<1>0. /\ Nthread \in Nat /\ Nthread > 1 /\ Ncore \in Nat /\ Ncore > 0
      /\ Ncontext \in {2, 4, 8} /\ k \in 1 .. Ncontext
    BY Contexted, TeamAssumption
<1>1. k + (Ncore - 1) * Ncontext = Nthread
    <2>1. CASE Ncontext = 2  BY <1>0, <2>1 DEF Ncore, ComputeCurrentThreads
    <2>2. CASE Ncontext = 4  BY <1>0, <2>2 DEF Ncore, ComputeCurrentThreads
    <2>3. CASE Ncontext = 8  BY <1>0, <2>3 DEF Ncore, ComputeCurrentThreads
    <2> QED  BY <1>0, <2>1, <2>2, <2>3
<1>2. \A t : t \in Thread <=>
        \E a \in 0 .. Ncore - 1 : \E c \in 0 .. Ncontext - 1 :
          t = <<a, c>> /\ (a = 0 => c < k)
    <2>1. \A a \in 0 .. Ncore - 1 : a # 0 => ComputeCurrentThreads(a) = Ncontext
        BY DEF ComputeCurrentThreads
    <2> HIDE DEF k
    <2>2. ComputeCurrentThreads(0) = k  BY DEF k
    <2>3. \A a \in 0 .. Ncore - 1 : \A c \in 0 .. Ncontext - 1 :
            c < ComputeCurrentThreads(a) <=> (a = 0 => c < k)
        BY <1>0, <2>1, <2>2
    <2>4. \A t : t \in Thread <=>
            \E a \in 0 .. Ncore - 1 : \E c \in 0 .. Ncontext - 1 :
              t = <<a, c>> /\ c < ComputeCurrentThreads(a)
        BY DEF Thread, Core
    <2> QED  BY <2>3, <2>4
<1>3. \A t : Rank(t) = IF t[1] = 0 THEN t[2] ELSE k + (t[1] - 1) * Ncontext + t[2]  BY DEF Rank
<1> HIDE DEF k
<1>4. \A t \in Thread : t[1] \in 0 .. Ncore - 1 /\ t[2] \in 0 .. Ncontext - 1 /\ (t[1] = 0 => t[2] < k)
    BY <1>2
<1>5. ASSUME NEW t \in Thread PROVE Rank(t) \in 0 .. Nthread - 1
    <2>1. CASE Ncontext = 2  BY <1>0, <1>1, <1>3, <1>4, <2>1
    <2>2. CASE Ncontext = 4  BY <1>0, <1>1, <1>3, <1>4, <2>2
    <2>3. CASE Ncontext = 8  BY <1>0, <1>1, <1>3, <1>4, <2>3
    <2> QED  BY <1>0, <2>1, <2>2, <2>3
<1>6. ASSUME NEW t \in Thread, NEW u \in Thread
      PROVE  u[1] < t[1] \/ (u[1] = t[1] /\ u[2] < t[2]) <=> Rank(u) < Rank(t)
    <2>1. CASE Ncontext = 2  BY <1>0, <1>3, <1>4, <2>1
    <2>2. CASE Ncontext = 4  BY <1>0, <1>3, <1>4, <2>2
    <2>3. CASE Ncontext = 8  BY <1>0, <1>3, <1>4, <2>3
    <2> QED  BY <1>0, <2>1, <2>2, <2>3
<1>7. ASSUME NEW n \in 0 .. Nthread - 1 PROVE \E t \in Thread : Rank(t) = n
    <2>1. CASE n < k
        <3>1. <<0, n>> \in Thread  BY <1>0, <1>2, <2>1
        <3>2. Rank(<<0, n>>) = n  BY <1>3
        <3> QED  BY <3>1, <3>2
    <2>2. CASE n >= k
        <3> DEFINE a == (n - k) \div Ncontext + 1
                   c == (n - k) % Ncontext
        <3>1. /\ a \in 1 .. Ncore - 1 /\ c \in 0 .. Ncontext - 1
              /\ k + (a - 1) * Ncontext + c = n
            <4>1. CASE Ncontext = 2  BY <1>0, <1>1, <2>2, <4>1
            <4>2. CASE Ncontext = 4  BY <1>0, <1>1, <2>2, <4>2
            <4>3. CASE Ncontext = 8  BY <1>0, <1>1, <2>2, <4>3
            <4> QED  BY <1>0, <4>1, <4>2, <4>3
        <3> HIDE DEF a, c
        <3>2. a \in 0 .. Ncore - 1 /\ a # 0  BY <1>0, <3>1
        <3>3. <<a, c>> \in Thread  BY <1>2, <3>1, <3>2
        <3>4. Rank(<<a, c>>) = n  BY <1>3, <3>1, <3>2
        <3> QED  BY <3>3, <3>4
    <2> QED  BY <1>0, <2>1, <2>2
<1> QED  BY <1>5, <1>6, <1>7

\* Every number below the size of the team is the tid of a thread.
LEMMA TidOnto ==
    ASSUME NEW n \in 0 .. Nthread - 1
    PROVE  ThreadOf(n) \in Thread /\ Tid(ThreadOf(n)) = n
<1>0. Nthread \in Nat  BY TeamAssumption
<1>1. PICK t \in Thread : Rank(t) = n  BY RankFacts
<1> DEFINE Before == {u \in Thread : u[1] < t[1] \/ (u[1] = t[1] /\ u[2] < t[2])}
           f == [u \in Before |-> Rank(u)]
<1>2. \A u : u \in Before <=> u \in Thread /\ Rank(u) < n
    <2>1. \A u : u \in Before <=> u \in Thread /\ (u[1] < t[1] \/ (u[1] = t[1] /\ u[2] < t[2]))
        OBVIOUS
    <2> HIDE DEF Before
    <2> QED  BY <1>1, <2>1, RankFacts
<1>3. Tid(t) = Cardinality(Before)  BY DEF Tid
<1> HIDE DEF Before
<1>4. f \in Bijection(Before, 0 .. n - 1)
    <2>1. f \in [Before -> 0 .. n - 1]
        <3>1. \A u \in Before : Rank(u) \in 0 .. n - 1  BY <1>0, <1>2, RankFacts
        <3> QED  BY <3>1
    <2>2. \A u, v \in Before : f[u] = f[v] => u = v
        <3> SUFFICES ASSUME NEW u \in Before, NEW v \in Before, Rank(u) = Rank(v) PROVE u = v  OBVIOUS
        <3>1. u \in Thread /\ v \in Thread  BY <1>2
        <3>2. Rank(u) \in Int /\ ~(Rank(u) < Rank(v)) /\ ~(Rank(v) < Rank(u))  BY <1>0, <3>1, RankFacts
        <3>3. ~(u[1] < v[1]) /\ ~(v[1] < u[1])  BY <3>1, <3>2, RankFacts
        <3>4. u[1] \in Int /\ v[1] \in Int /\ u[2] \in Int /\ v[2] \in Int
            BY <3>1, ThreadFacts, Contexted, TeamAssumption DEF Core
        <3>5. u[1] = v[1]  BY <3>3, <3>4
        <3>6. ~(u[2] < v[2]) /\ ~(v[2] < u[2])  BY <3>1, <3>2, <3>5, RankFacts
        <3>7. u[2] = v[2]  BY <3>4, <3>6
        <3>8. u = <<u[1], u[2]>> /\ v = <<v[1], v[2]>>  BY <3>1, ThreadFacts
        <3> QED  BY <3>5, <3>7, <3>8
    <2>3. \A m \in 0 .. n - 1 : \E u \in Before : f[u] = m
        <3> TAKE m \in 0 .. n - 1
        <3>1. m \in 0 .. Nthread - 1 /\ m < n  BY <1>0
        <3>2. PICK u \in Thread : Rank(u) = m  BY <3>1, RankFacts
        <3>3. u \in Before  BY <1>2, <3>1, <3>2
        <3> QED  BY <3>2, <3>3
    <2> HIDE DEF f
    <2> QED  BY <2>1, <2>2, <2>3 DEF Bijection, Injection, IsInjective, Surjection
<1> HIDE DEF f
<1>5. IsFiniteSet(0 .. n - 1) /\ Cardinality(0 .. n - 1) = n  BY <1>0, FS_Interval
<1>6. ExistsBijection(Before, 0 .. n - 1)  BY <1>4 DEF ExistsBijection
<1>7. ExistsBijection(0 .. n - 1, Before)  BY <1>6, Fun_ExistsBijSymmetric, Zenon
<1>8. Cardinality(Before) = n  BY <1>5, <1>7, FS_Bijection
<1>9. \E u \in Thread : Tid(u) = n  BY <1>3, <1>8
<1> QED  BY <1>9 DEF ThreadOf

\* The master is a thread of the team.
LEMMA MasterIn == Master \in Thread /\ Master[1] \in Core
BY ThreadFacts, Contexted DEF Master

\* A thread resumes exactly when its answer is on the wires.
LEMMA ResumesFacts ==
    ASSUME Inductive, NEW issued, NEW rdy, Cycles(issued, rdy), NEW t \in Thread
    PROVE  Resumes(t) <=> Resumed(t, issued)
<1>0. /\ Fate(t, issued) /\ wait[t] \in Answers \cup {"no", "idle", "done"}
      /\ answer_out[t[1]] \in Answers \cup {"none"}
    BY Waking, Parts DEF Wakes
<1>1. ASSUME Resumed(t, issued) PROVE Resumes(t)
    <2>1. wait[t] \in Answers /\ OnWires(t, wait[t])  BY <1>1 DEF Resumed
    <2>2. t[1] \in started  BY <2>1, StateFacts
    <2> QED  BY <2>1, <2>2 DEF Resumes, OnWires
<1>2. ASSUME Resumes(t) PROVE Resumed(t, issued)
    <2>1. wait[t] \in Answers /\ OnWires(t, wait[t]) /\ t[1] \in started
        BY <1>0, <1>2 DEF Resumes, OnWires, Answers
    <2> QED  BY <1>0, <2>1 DEF Fate, Begun, GoesOn, Suspends, Ends, Still, Answers
<1> QED  BY <1>1, <1>2

\* The operation of a thread after the cycle, in terms of the one before.
LEMMA OpAfter ==
    ASSUME Inductive, NEW issued, NEW rdy, Cycles(issued, rdy), NEW t \in Thread
    PROVE  /\ pc'[t] = pc[t] => Op(t)' = Op(t)
           /\ Op(t)' = "combine" /\ pc'[t] = pc[t] + 1 => Op(t) = "get"
           /\ Op(t) = "get" /\ pc'[t] = pc[t] + 1 => Op(t)' = "combine"
           /\ Op(t) = "combine" /\ pc'[t] = pc[t] - 1 => Op(t)' = "get"
<1>0. /\ Len(Program) \in Nat /\ pc[t] \in 1 .. Len(Program) + 1
      /\ pc'[t] \in 1 .. Len(Program) + 1
    BY KeepsPc, Parts, ProgramFacts
<1>1. Op(t)' = IF pc'[t] = Len(Program) + 1 THEN "end" ELSE Program[pc'[t]].op  BY DEF Op
<1>2. pc'[t] = pc[t] => Op(t)' = Op(t)  BY OpStep
<1>3. ASSUME Op(t)' = "combine", pc'[t] = pc[t] + 1 PROVE Op(t) = "get"
    <2>1. pc'[t] \in 1 .. Len(Program) /\ Program[pc'[t]].op = "combine" /\ pc'[t] - 1 = pc[t]
        BY <1>0, <1>1, <1>3
    <2>2. Around(pc'[t])  BY <2>1, ProgramFacts
    <2>3. Program[pc[t]].op = "get"  BY <2>1, <2>2 DEF Around
    <2>4. pc[t] # Len(Program) + 1  BY <1>0, <2>1
    <2> QED  BY <2>3, <2>4 DEF Op
<1>4. ASSUME Op(t) = "get", pc'[t] = pc[t] + 1 PROVE Op(t)' = "combine"
    <2>1. pc[t] < Len(Program) /\ Program[pc[t] + 1].op = "combine"  BY <1>4, OpAround DEF Around
    <2> QED  BY <1>0, <1>1, <1>4, <2>1
<1>5. ASSUME Op(t) = "combine", pc'[t] = pc[t] - 1 PROVE Op(t)' = "get"
    <2>1. pc[t] > 1 /\ Program[pc[t] - 1].op = "get"  BY <1>5, OpAround DEF Around
    <2> QED  BY <1>0, <1>1, <1>5, <2>1
<1> QED  BY <1>2, <1>3, <1>4, <1>5

\* The master counts the workers it has fetched from, and fetches from one that exists.
LEMMA KeepsReducing ==
    ASSUME Inductive, Reducing, NEW issued, NEW rdy, Cycles(issued, rdy)
    PROVE  Reducing'
<1> DEFINE m == Master
<1>0. /\ m \in Thread /\ Nthread \in Nat /\ Nthread > 1
      /\ ReduceManager(issued) /\ forks' = forks
      /\ forks \in 0 .. MaxForks
      /\ base_addr \in [Thread -> SUBSET AddressBits] /\ got \subseteq AddressBits
      /\ combined \in 0 .. Nthread - 1
      /\ Op(m) = "get" => combined < Nthread - 1
      /\ Op(m) = "combine" => combined > 0
      /\ Op(m) \notin {"get", "combine"} => combined = 0
    BY MasterIn, TeamAssumption DEF Reducing, Cycles, Tick
<1>1. base_addr' \in [Thread -> SUBSET AddressBits]
    <2>1. \A t \in Thread : Or(base_addr[t], Program[pc[t]].list) \in SUBSET AddressBits  BY DEF Or
    <2> QED  BY <1>0, <2>1 DEF ReduceManager
<1>2. /\ Fate(m, issued)
      /\ Resumes(m) <=> Resumed(m, issued)
      /\ pc'[m] = pc[m] => Op(m)' = Op(m)
      /\ Op(m)' = "combine" /\ pc'[m] = pc[m] + 1 => Op(m) = "get"
      /\ Op(m) = "get" /\ pc'[m] = pc[m] + 1 => Op(m)' = "combine"
      /\ Op(m) = "combine" /\ pc'[m] = pc[m] - 1 => Op(m)' = "get"
    BY <1>0, Waking, ResumesFacts, OpAfter DEF Wakes
<1>3. Issues(m, {"get"}, issued) <=> GoesOn(m, issued) /\ Op(m) = "get"
    <2>1. Issues(m, {"get"}, issued) <=> Selected(m) /\ issued[m[1]] = "get"  BY DEF Issues
    <2>2. ASSUME Selected(m), issued[m[1]] = "get" PROVE GoesOn(m, issued) /\ Op(m) = "get"
        <3>1. Op(m) = "get"
            <4>1. issued \in Issuable /\ m[1] \in Core /\ m = Cur(m[1])
                BY <2>2, MasterIn DEF Cycles, Selected
            <4> QED  BY <2>2, <4>1, Choosing
        <3>2. \A kind \in Answers : ~Suspends(m, issued, kind)
            BY <2>2, Askers DEF Suspends, Answers
        <3> QED  BY <1>2, <2>2, <3>1, <3>2 DEF Fate, Resumed, Begun, Ends, Still
    <2> QED  BY <2>1, <2>2 DEF GoesOn
<1>4. /\ got' \subseteq AddressBits /\ combined' \in 0 .. Nthread - 1
      /\ Op(m)' = "get" => combined' < Nthread - 1
      /\ Op(m)' = "combine" => combined' > 0
      /\ Op(m)' \notin {"get", "combine"} => combined' = 0
    <2>1. CASE Issues(m, {"get"}, issued)
        <3>1. combined' = combined + 1 /\ got' = base_addr[ThreadOf(combined + 1)]
            BY <1>0, <2>1 DEF ReduceManager
        <3>2. combined < Nthread - 1 /\ pc'[m] = pc[m] + 1  BY <1>0, <1>3, <2>1 DEF GoesOn
        <3>3. Op(m)' = "combine"  BY <1>2, <1>3, <2>1, <3>2
        <3>4. combined + 1 \in 0 .. Nthread - 1  BY <1>0, <3>2
        <3>5. ThreadOf(combined + 1) \in Thread  BY <3>4, TidOnto
        <3>6. got' \subseteq AddressBits  BY <1>0, <3>1, <3>5
        <3> QED  BY <1>0, <3>1, <3>3, <3>4, <3>6
    <2>2. CASE ~Issues(m, {"get"}, issued)
        <3>1. /\ got' = got
              /\ combined' = IF Resumes(m) /\ Op(m) = "combine" /\ ~MoreToCombine THEN 0 ELSE combined
            BY <1>0, <2>2 DEF ReduceManager
        <3>2. CASE Resumed(m, issued) /\ Op(m) = "combine"
            <4>1. pc'[m] = IF MoreToCombine THEN pc[m] - 1 ELSE pc[m] + 1  BY <3>2 DEF Resumed
            <4>2. CASE MoreToCombine
                <5>1. Op(m)' = "get" /\ combined' = combined  BY <1>2, <3>1, <3>2, <4>1, <4>2
                <5> QED  BY <1>0, <3>1, <4>2, <5>1 DEF MoreToCombine
            <4>3. CASE ~MoreToCombine
                <5>1. Op(m)' # "combine" /\ combined' = 0  BY <1>2, <3>1, <3>2, <4>1, <4>3
                <5> QED  BY <1>0, <3>1, <5>1
            <4> QED  BY <4>2, <4>3
        <3>3. CASE Resumed(m, issued) /\ Op(m) # "combine"
            <4>1. Op(m) # "get"
                <5>1. Op(m) \in Asker(wait[m]) /\ wait[m] \in Answers  BY <1>0, <3>3, StateFacts DEF Resumed
                <5> QED  BY <5>1, Askers DEF Answers
            <4>2. pc'[m] = pc[m] + 1 /\ combined' = combined /\ combined = 0
                BY <1>0, <3>1, <3>3, <4>1 DEF Resumed
            <4> QED  BY <1>0, <1>2, <3>1, <4>1, <4>2
        <3>4. CASE GoesOn(m, issued)
            <4>1. Op(m) \notin {"get", "combine"} /\ pc'[m] = pc[m] + 1
                BY <1>3, <2>2, <3>4 DEF GoesOn
            <4>2. combined' = combined /\ combined = 0  BY <1>0, <3>1, <4>1
            <4> QED  BY <1>0, <1>2, <3>1, <4>1, <4>2
        <3>5. CASE ~Resumed(m, issued) /\ ~GoesOn(m, issued)
            <4>1. pc'[m] = pc[m]  BY <1>2, <3>5 DEF Fate, Begun, Suspends, Ends, Still
            <4>2. Op(m)' = Op(m) /\ combined' = combined  BY <1>2, <3>1, <3>5, <4>1
            <4> QED  BY <1>0, <3>1, <4>2
        <3> QED  BY <3>2, <3>3, <3>4, <3>5
    <2> QED  BY <2>1, <2>2
<1> QED  BY <1>0, <1>1, <1>4 DEF Reducing

\* A fork starts the master outside of every reduction.
LEMMA ForkReducing ==
    ASSUME Inductive, Reducing, Fork
    PROVE  Reducing' /\ Op(Master)' # "combine"
<1>0. /\ Master \in Thread /\ Nthread \in Nat /\ Nthread > 1 /\ MaxForks \in Nat
      /\ combined' = combined /\ base_addr' = base_addr /\ got' = got
      /\ forks' \in 0 .. MaxForks
      /\ pc'[Master] = 1
    BY MasterIn, TeamAssumption DEF Fork, reduceVars, Reducing
<1>1. Op(Master)' = IF 1 = Len(Program) + 1 THEN "end" ELSE Program[1].op  BY <1>0 DEF Op
<1>2. Op(Master)' # "combine"
    <2>1. Len(Program) \in Nat /\ (Len(Program) >= 1 => Around(1))  BY ProgramFacts
    <2> QED  BY <1>1, <2>1 DEF Around
<1>3. wait[Master] \in {"idle", "done"}  BY <1>0, StateFacts, Parts DEF Fork
<1>4. pc[Master] = 1 \/ pc[Master] = Len(Program) + 1
    BY <1>0, <1>3, Parts DEF ContextState, NotBegun, Over
<1>5. CASE pc[Master] = 1
    <2>1. Op(Master)' = Op(Master)  BY <1>1, <1>5 DEF Op
    <2> QED  BY <1>0, <1>2, <2>1 DEF Reducing
<1>6. CASE pc[Master] = Len(Program) + 1
    <2>1. Op(Master) = "end"  BY <1>6 DEF Op
    <2>2. combined = 0  BY <2>1 DEF Reducing
    <2> QED  BY <1>0, <1>2, <2>2 DEF Reducing
<1> QED  BY <1>4, <1>5, <1>6

\* The master fetches from each worker at most once in a reduction.
LEMMA ReducingHolds ==
    ASSUME RegSize # 16
    PROVE  Spec => []Reducing
<1>1. Init => Reducing
    <2> SUFFICES ASSUME Init PROVE Reducing  OBVIOUS
    <2>0. Master \in Thread /\ Nthread \in Nat /\ Nthread > 1 /\ MaxForks \in Nat
        BY MasterIn, TeamAssumption
    <2>1. Op(Master) # "combine"
        <3>1. Op(Master) = IF 1 = Len(Program) + 1 THEN "end" ELSE Program[1].op
            BY <2>0 DEF Op, Init
        <3>2. Len(Program) \in Nat /\ (Len(Program) >= 1 => Around(1))  BY ProgramFacts
        <3> QED  BY <3>1, <3>2 DEF Around
    <2> QED  BY <2>0, <2>1 DEF Reducing, Init
<1>2. Inductive /\ Reducing /\ [Next]_vars => Reducing'
    <2> SUFFICES ASSUME Inductive, Reducing, [Next]_vars PROVE Reducing'  OBVIOUS
    <2>1. CASE Fork  BY <2>1, ForkReducing
    <2>2. CASE Cycle
        <3>1. PICK issued \in Issuable, rdy \in Rdys : Tick(issued, rdy)  BY <2>2 DEF Cycle
        <3>2. Cycles(issued, rdy)  BY <3>1 DEF Cycles
        <3> QED  BY <3>2, KeepsReducing
    <2>3. CASE UNCHANGED vars  BY <2>3 DEF Reducing, Op, vars, threadVars, reduceVars
    <2> QED  BY <2>1, <2>2, <2>3 DEF Next
<1> QED  BY <1>1, <1>2, InductiveHolds, PTL DEF Spec

\* The registers keep their types: the master never counts past the last worker, and the list
\* it fetches is always one of a thread that exists (kmp_bambu_reduce_manager).
THEOREM TypeCorrect ==
    ASSUME RegSize # 16
    PROVE  Spec => []TypeOK
<1>1. Inductive /\ Reducing => TypeOK
    <2> SUFFICES ASSUME Inductive, Reducing PROVE TypeOK  OBVIOUS
    <2>1. Types  BY DEF Inductive
    <2> QED  BY <2>1 DEF Types, Reducing, TypeOK, Cur
<1> QED  BY <1>1, InductiveHolds, ReducingHolds, PTL

\* A cycle leaves in the pointer registers nothing but the one list of the region.
LEMMA KeepsStored ==
    ASSUME NEW L, OneList(L), Inductive, Reducing, Stored(L), NEW issued, NEW rdy, Cycles(issued, rdy)
    PROVE  Stored(L)'
<1>0. /\ ReduceManager(issued) /\ issued \in Issuable
      /\ Master \in Thread
    BY MasterIn DEF Cycles, Tick
<1>1. ASSUME NEW t \in Thread
      PROVE  /\ base_addr[t] \in {{}, L}
             /\ Issues(t, {"set"}, issued) => base_addr'[t] = L /\ Op(t) = "set"
             /\ ~Issues(t, {"set"}, issued) => base_addr'[t] = base_addr[t]
    <2>1. base_addr'[t] = IF Issues(t, {"set"}, issued)
                          THEN Or(base_addr[t], Program[pc[t]].list) ELSE base_addr[t]
        BY <1>0 DEF ReduceManager
    <2>2. base_addr[t] \in {{}, L}  BY DEF Stored
    <2>3. ASSUME Issues(t, {"set"}, issued) PROVE base_addr'[t] = L /\ Op(t) = "set"
        <3>1. t[1] \in Core /\ t = Cur(t[1]) /\ issued[t[1]] = "set"
            BY <2>3, ThreadFacts DEF Issues, Selected
        <3>2. Op(t) = "set"  BY <1>0, <3>1, Choosing
        <3>3. pc[t] \in 1 .. Len(Program) /\ Program[pc[t]].op = "set"  BY <3>2, OpAround
        <3>4. Program[pc[t]].list = L  BY <3>3 DEF OneList
        <3>5. \A b \in L : b \in AddressBits  BY <3>3, <3>4 DEF AddressBits
        <3>6. Or(base_addr[t], L) = L  BY <2>2, <3>5 DEF Or
        <3> QED  BY <2>1, <2>3, <3>2, <3>4, <3>6
    <2> QED  BY <2>1, <2>2, <2>3
<1>2. \A t \in Thread : base_addr'[t] \in {{}, L}  BY <1>1
<1>3. ASSUME NEW t \in Thread, NEW p \in 1 .. Len(Program), Program[p].op = "set", pc'[t] > p
      PROVE  base_addr'[t] = L
    <2>0. Len(Program) \in Nat /\ pc[t] \in 1 .. Len(Program) + 1 /\ pc'[t] \in 1 .. Len(Program) + 1
        BY KeepsPc, Parts, ProgramFacts
    <2>1. CASE pc[t] > p
        <3>1. base_addr[t] = L  BY <1>3, <2>1 DEF Stored
        <3> QED  BY <1>1, <3>1
    <2>2. CASE ~(pc[t] > p)
        <3>1. Fate(t, issued)  BY Waking DEF Wakes
        <3>2. CASE GoesOn(t, issued)
            <4>1. CASE Op(t) = "get"
                <5>1. pc[t] \in 1 .. Len(Program) /\ Program[pc[t]].op = "get" /\ Program[pc[t] + 1].op = "combine"
                    BY <4>1, OpAround DEF Around
                <5>2. pc'[t] = pc[t] + 1 \/ pc'[t] = pc[t] + 2  BY <3>2, <4>1 DEF GoesOn
                <5>3. p = pc[t] \/ p = pc[t] + 1  BY <1>3, <2>0, <2>2, <5>2
                <5> QED  BY <1>3, <5>1, <5>3
            <4>2. CASE Op(t) # "get"
                <5>1. pc'[t] = pc[t] + 1  BY <3>2, <4>2 DEF GoesOn
                <5>2. p = pc[t]  BY <1>3, <2>0, <2>2, <5>1
                <5>3. Op(t) = "set"  BY <1>3, <2>0, <5>2 DEF Op
                <5>4. Issues(t, {"set"}, issued)  BY <3>2, <5>3 DEF GoesOn, Issues
                <5> QED  BY <1>1, <5>4
            <4> QED  BY <4>1, <4>2
        <3>3. CASE Resumed(t, issued)
            <4>1. pc'[t] = pc[t] + 1 \/ pc'[t] = pc[t] - 1  BY <3>3 DEF Resumed
            <4>2. p = pc[t]  BY <1>3, <2>0, <2>2, <4>1
            <4>3. Op(t) = "set"  BY <1>3, <2>0, <4>2 DEF Op
            <4>4. Op(t) \in Asker(wait[t]) /\ wait[t] \in Answers  BY <3>3, StateFacts DEF Resumed
            <4> QED  BY <4>3, <4>4, Askers DEF Answers
        <3>4. CASE ~GoesOn(t, issued) /\ ~Resumed(t, issued)
            <4>1. pc'[t] = pc[t]  BY <3>1, <3>4 DEF Fate, Begun, Suspends, Ends, Still
            <4> QED  BY <1>3, <2>2, <4>1
        <3> QED  BY <3>2, <3>3, <3>4
    <2> QED  BY <2>1, <2>2
<1>4. ASSUME Op(Master)' = "combine" PROVE got' = L
    <2>1. CASE Issues(Master, {"get"}, issued)
        <3>1. got' = base_addr[ThreadOf(combined + 1)]  BY <1>0, <2>1 DEF ReduceManager
        <3>2. Op(Master) = "get"
            <4>1. Master[1] \in Core /\ Master = Cur(Master[1]) /\ issued[Master[1]] = "get"
                BY <2>1, MasterIn DEF Issues, Selected
            <4> QED  BY <1>0, <4>1, Choosing
        <3>3. combined + 1 \in 0 .. Nthread - 1  BY <3>2, TeamAssumption DEF Reducing
        <3> DEFINE u == ThreadOf(combined + 1)
                   p == pc[Master]
        <3>4. u \in Thread  BY <3>3, TidOnto
        <3>5. p \in 1 .. Len(Program) /\ Program[p].op = "get" /\ Len(Program) \in Nat
            BY <1>0, <3>2, OpAround, ProgramFacts
        <3> HIDE DEF u
        <3>6. PICK q \in 1 .. p - 1, w \in 1 .. p - 1 :
                q < w /\ Program[q].op = "set" /\ Program[w].op = "wait"
            BY <3>5 DEF OneList
        <3>7. q \in 1 .. Len(Program) /\ w \in 1 .. Len(Program) /\ pc[Master] > w  BY <3>5, <3>6
        <3>8. pc[u] >= w  BY <1>0, <3>4, <3>6, <3>7, BarrierFrom DEF BarrierHolds
        <3>9. pc[u] > q  BY <3>4, <3>6, <3>7, <3>8, Parts, ProgramFacts
        <3>10. base_addr[u] = L  BY <3>4, <3>6, <3>7, <3>9 DEF Stored
        <3> QED  BY <3>1, <3>10 DEF u
    <2>2. CASE ~Issues(Master, {"get"}, issued)
        <3>1. got' = got  BY <1>0, <2>2 DEF ReduceManager
        <3>2. /\ Fate(Master, issued)
              /\ pc'[Master] = pc[Master] => Op(Master)' = Op(Master)
              /\ pc'[Master] = pc[Master] + 1 => Op(Master) = "get"
              /\ Op(Master) = "combine" /\ pc'[Master] = pc[Master] - 1 => Op(Master)' = "get"
            BY <1>0, <1>4, Waking, OpAfter DEF Wakes
        <3>3. ~GoesOn(Master, issued)
            <4> SUFFICES ASSUME GoesOn(Master, issued) PROVE FALSE  OBVIOUS
            <4>1. pc'[Master] = pc[Master] + 1  BY DEF GoesOn
            <4>2. Op(Master) = "get"  BY <3>2, <4>1
            <4> QED  BY <2>2, <4>2 DEF GoesOn, Issues
        <3>4. ~Resumed(Master, issued)
            <4> SUFFICES ASSUME Resumed(Master, issued) PROVE FALSE  OBVIOUS
            <4>1. Op(Master) \in Asker(wait[Master]) /\ wait[Master] \in Answers
                BY <1>0, StateFacts DEF Resumed
            <4>2. Op(Master) # "get"  BY <4>1, Askers DEF Answers
            <4>3. Op(Master) = "combine" /\ pc'[Master] = pc[Master] - 1  BY <3>2, <4>2 DEF Resumed
            <4> QED  BY <1>4, <3>2, <4>3
        <3>5. Op(Master)' = Op(Master)
            BY <3>2, <3>3, <3>4 DEF Fate, Begun, Suspends, Ends, Still
        <3> QED  BY <1>4, <3>1, <3>5 DEF Stored
    <2> QED  BY <2>1, <2>2
<1> QED  BY <1>2, <1>3, <1>4 DEF Stored

\* The list the master combines is the one the worker gave for this reduction, for every team
\* and every region whose reductions use one list, each with a set and a barrier before its get
\* (__kmp_barrier of kmp_barrier.cpp sets the pointer, waits for all threads, and only then
\* lets the master get the pointers).  With a second list the registers hold the union of the
\* two addresses, and the statement fails.
THEOREM ReduceReadsHolds ==
    ASSUME RegSize # 16, NEW L, OneList(L)
    PROVE  Spec => []ReduceReads
<1>1. Init => Stored(L)
    <2> SUFFICES ASSUME Init PROVE Stored(L)  OBVIOUS
    <2>1. Op(Master) # "combine"
        <3>1. Op(Master) = IF 1 = Len(Program) + 1 THEN "end" ELSE Program[1].op
            BY MasterIn DEF Op, Init
        <3>2. Len(Program) \in Nat /\ (Len(Program) >= 1 => Around(1))  BY ProgramFacts
        <3> QED  BY <3>1, <3>2 DEF Around
    <2> QED  BY <2>1 DEF Stored, Init
<1>2. Inductive /\ Reducing /\ Stored(L) /\ [Next]_vars => Stored(L)'
    <2> SUFFICES ASSUME Inductive, Reducing, Stored(L), [Next]_vars PROVE Stored(L)'  OBVIOUS
    <2>1. CASE Fork
        <3>1. Op(Master)' # "combine"  BY <2>1, ForkReducing
        <3>2. base_addr' = base_addr /\ pc' = [t \in Thread |-> 1]  BY <2>1 DEF Fork, reduceVars
        <3> QED  BY <3>1, <3>2 DEF Stored
    <2>2. CASE Cycle
        <3>1. PICK issued \in Issuable, rdy \in Rdys : Tick(issued, rdy)  BY <2>2 DEF Cycle
        <3>2. Cycles(issued, rdy)  BY <3>1 DEF Cycles
        <3> QED  BY <3>2, KeepsStored
    <2>3. CASE UNCHANGED vars  BY <2>3 DEF Stored, Op, vars, threadVars, reduceVars
    <2> QED  BY <2>1, <2>2, <2>3 DEF Next
<1>3. Inductive /\ Stored(L) => ReduceReads
    <2> SUFFICES ASSUME Inductive, Stored(L), Op(Master) = "combine"
                 PROVE  got = Program[pc[Master] - 1].list
        BY DEF ReduceReads
    <2>1. pc[Master] \in 1 .. Len(Program) /\ pc[Master] > 1 /\ Program[pc[Master] - 1].op = "get"
        BY MasterIn, OpAround DEF Around
    <2>2. pc[Master] - 1 \in 1 .. Len(Program)  BY <2>1, ProgramFacts
    <2> QED  BY <2>1, <2>2 DEF Stored, OneList
<1> QED  BY <1>1, <1>2, <1>3, InductiveHolds, ReducingHolds, PTL DEF Spec
=============================================================================
