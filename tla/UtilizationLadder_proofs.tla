----------------------- MODULE UtilizationLadder_proofs -----------------------
(***************************************************************************)
(* Proofs about UtilizationLadder, for any number of designs and of runs,  *)
(* any ladder, and runs killed at any point.                               *)
(***************************************************************************)
EXTENDS UtilizationLadder, InductionFacts

-----------------------------------------------------------------------------
(* Rungs                                                                   *)

\* Rungs, and their absence, are natural numbers.
LEMMA RungIsNat ==
    ASSUME NEW r \in Rungs \cup {NoRung}
    PROVE  r \in Nat
<1>1. CASE r \in Rungs  BY <1>1, LadderAssumption
<1>2. CASE r = NoRung  BY <1>2 DEF NoRung
<1> QED  BY <1>1, <1>2

\* The rungs of a ladder have a highest one, which Max yields.
LEMMA Highest ==
    ASSUME NEW S \in SUBSET Rungs, S # {}
    PROVE  Max(S) \in S /\ Max(S) \in Nat /\ \A r \in S : r <= Max(S)
<1> DEFINE T == {100 - r : r \in S}
<1>1. S \subseteq 1 .. 100  BY LadderAssumption
<1>2. T \in SUBSET Nat /\ T # {}
    <2>1. PICK r \in S : TRUE  OBVIOUS
    <2>2. 100 - r \in T  BY <2>1
    <2>3. \A x \in T : x \in Nat  BY <1>1
    <2> QED  BY <2>2, <2>3
<1>3. PICK x \in T : \A y \in T : x <= y  BY <1>2, Least
<1>4. PICK m \in S : x = 100 - m  BY <1>3
<1>5. \A r \in S : m >= r  BY <1>1, <1>3, <1>4
<1>6. Max(S) \in S /\ \A r \in S : Max(S) >= r
    BY <1>5 DEF Max
<1>7. Max(S) \in 1 .. 100  BY <1>1, <1>6
<1>8. \A r \in S : r \in 1 .. 100  BY <1>1
<1> QED  BY <1>6, <1>7, <1>8

\* Every ladder contains the lowest rung, and resuming never skips it: a run always has a
\* rung to try.
LEMMA Resumes ==
    ASSUME TypeOK, NEW d \in Designs, NEW start \in Starts
    PROVE  /\ Ladder(start) \in SUBSET Rungs
           /\ FromCheckpoint(d, Ladder(start)) \in SUBSET Rungs
           /\ FromCheckpoint(d, Ladder(start)) # {}
<1>1. Rungs \in SUBSET Nat /\ Rungs # {} /\ start \in Nat  BY LadderAssumption
<1>2. PICK low \in Rungs : \A r \in Rungs : low <= r  BY <1>1, Least
<1>3. low \in Ladder(start)
    <2>1. CASE start = 0 \/ {r \in Rungs : r <= start} = {}  BY <2>1 DEF Ladder
    <2>2. CASE start # 0 /\ {r \in Rungs : r <= start} # {}
        <3>1. PICK r \in Rungs : r <= start  BY <2>2
        <3>2. low <= start  BY <1>1, <1>2, <3>1
        <3> QED  BY <2>2, <3>2 DEF Ladder
    <2> QED  BY <2>1, <2>2
<1>4. checkpoint[d] \in Rungs \cup {NoRung}  BY DEF TypeOK, Table
<1>5. low \in FromCheckpoint(d, Ladder(start))  BY <1>1, <1>2, <1>3, <1>4 DEF FromCheckpoint
<1> QED  BY <1>5 DEF Ladder, FromCheckpoint

-----------------------------------------------------------------------------
(* The inductive invariant                                                 *)

LEMMA InitInductive == Init => Inductive
<1> SUFFICES ASSUME Init PROVE Inductive  OBVIOUS
<1>1. TypeOK
    <2>1. NoEntries \in Table  BY DEF NoEntries, Table
    <2>2. 0 \in 0 .. MaxRuns /\ 0 \in 0 .. MaxKills  BY LadderAssumption
    <2> QED  BY <2>1, <2>2 DEF Init, TypeOK, Stopped
<1>2. LockHeld
    BY LadderAssumption DEF Init, LockHeld, Locking
<1>3. AtRung /\ OnlySuccesses /\ NothingLost /\ BelowCongested
    BY DEF Init, NoEntries, NoRung, AtRung, Trying, OnlySuccesses, NothingLost, BelowCongested
<1> QED  BY <1>1, <1>2, <1>3 DEF Inductive

\* Every action keeps the types.
LEMMA KeepsTypes ==
    ASSUME Inductive, NEW d \in Designs,
           (\E start \in Starts : Launch(d, start)) \/ Step(d) \/ Kill(d)
    PROVE  TypeOK'
<1> USE DEF Inductive
<1>1. ASSUME NEW start \in Starts, Launch(d, start) PROVE TypeOK'
    <2> DEFINE todo == FromCheckpoint(d, Ladder(start))
    <2>1. Max(todo) \in Rungs  BY Resumes, Highest
    <2>2. Ladder(start) \in SUBSET Rungs  BY Resumes
    <2>3. runs[d] + 1 \in 0 .. MaxRuns  BY <1>1, LadderAssumption DEF Launch, TypeOK
    <2> QED  BY <1>1, <2>1, <2>2, <2>3 DEF Launch, TypeOK, Table, table, ghosts, Running, Stopped
<1>2. CASE TruncateCheckpoint(d)
    BY <1>2 DEF TruncateCheckpoint, Goto, TypeOK, Table, NoEntries, ladder, table, ghosts, Running, Stopped
<1>3. CASE WriteCheckpoint(d)
    BY <1>3 DEF WriteCheckpoint, Goto, TypeOK, Table, NoEntries, ladder, table, ghosts, Running, Stopped
<1>4. CASE FlowFits(d)
    BY <1>4 DEF FlowFits, Goto, TypeOK, Table, NoEntries, ladder, table, ghosts, Running, Stopped
<1>5. CASE FlowCongested(d)
    <2> DEFINE lower == {r \in rungs[d] : r < util[d]}
    <2>1. lower \in SUBSET Rungs  BY DEF TypeOK
    <2>2. lower # {} => Max(lower) \in Rungs  BY <2>1, Highest
    <2>3. util[d] \in Rungs  BY <1>5 DEF TypeOK, AtRung, FlowCongested, Goto, Trying
    <2>4. congested' \in [Designs -> SUBSET Rungs]  BY <1>5, <2>3 DEF TypeOK, FlowCongested
    <2>5. util' \in Table /\ pc' \in [Designs -> Stopped \cup Running]
        BY <1>5, <2>2 DEF TypeOK, FlowCongested, Goto, Table, Stopped, Running
    <2> QED  BY <1>5, <2>4, <2>5 DEF FlowCongested, TypeOK, table
<1>6. CASE FlowFails(d)
    BY <1>6 DEF FlowFails, Goto, TypeOK, ladder, table, ghosts, Running, Stopped
<1>7. CASE FinishFails(d)
    BY <1>7 DEF FinishFails, Goto, TypeOK, ladder, table, ghosts, Running, Stopped
<1>8. CASE FinishSucceeds(d)
    BY <1>8 DEF FinishSucceeds, Goto, TypeOK, AtRung, ladder, table, Running, Stopped
<1>9. CASE Lock(d)
    BY <1>9 DEF Lock, Goto, TypeOK, Table, NoEntries, ladder, table, ghosts, Running, Stopped
<1>10. CASE ReadTable(d)
    BY <1>10 DEF ReadTable, Goto, TypeOK, Table, NoEntries, ladder, table, ghosts, Running, Stopped
<1>11. CASE TruncateTable(d)
    BY <1>11 DEF TruncateTable, Goto, TypeOK, Table, NoEntries, ladder, table, ghosts, Running, Stopped
<1>12. CASE WriteTable(d)
    BY <1>12 DEF WriteTable, Goto, TypeOK, Table, NoEntries, ladder, table, ghosts, Running, Stopped
<1>13. CASE Unlock(d)
    BY <1>13 DEF Unlock, Goto, TypeOK, Table, NoEntries, ladder, table, ghosts, Running, Stopped
<1>14. CASE Returned(d)
    BY <1>14 DEF Returned, Goto, TypeOK, ladder, table, ghosts, Running, Stopped
<1>15. CASE Kill(d)
    <2>1. kills + 1 \in 0 .. MaxKills  BY <1>15, LadderAssumption DEF Kill, TypeOK
    <2> QED  BY <1>15, <2>1 DEF Kill, TypeOK, ladder, Running, Stopped
<1> QED  BY <1>1, <1>2, <1>3, <1>4, <1>5, <1>6, <1>7, <1>8, <1>9, <1>10, <1>11, <1>12, <1>13, <1>14, <1>15 DEF Step

\* The lock is taken before the file is used and released after it, also by a kill.
LEMMA KeepsLock ==
    ASSUME Inductive, NEW d \in Designs,
           (\E start \in Starts : Launch(d, start)) \/ Step(d) \/ Kill(d)
    PROVE  LockHeld'
<1> USE DEF Inductive
<1>1. ASSUME NEW start \in Starts, Launch(d, start) PROVE LockHeld'
    BY <1>1 DEF Launch, TypeOK, LockHeld, Locking, Running, ladder, table, ghosts
<1>2. CASE TruncateCheckpoint(d)
    BY <1>2 DEF TruncateCheckpoint, Goto, TypeOK, LockHeld, Locking, Running, ladder, table, ghosts
<1>3. CASE WriteCheckpoint(d)
    BY <1>3 DEF WriteCheckpoint, Goto, TypeOK, LockHeld, Locking, Running, ladder, table, ghosts
<1>4. CASE FlowFits(d)
    BY <1>4 DEF FlowFits, Goto, TypeOK, LockHeld, Locking, Running, ladder, table, ghosts
<1>5. CASE FlowCongested(d)
    BY <1>5 DEF FlowCongested, Goto, TypeOK, LockHeld, Locking, Running, ladder, table, ghosts
<1>6. CASE FlowFails(d)
    BY <1>6 DEF FlowFails, Goto, TypeOK, LockHeld, Locking, Running, ladder, table, ghosts
<1>7. CASE FinishFails(d)
    BY <1>7 DEF FinishFails, Goto, TypeOK, LockHeld, Locking, Running, ladder, table, ghosts
<1>8. CASE FinishSucceeds(d)
    BY <1>8 DEF FinishSucceeds, Goto, TypeOK, LockHeld, Locking, Running, ladder, table, ghosts
<1>9. CASE Lock(d)
    BY <1>9, LadderAssumption DEF Lock, Goto, TypeOK, LockHeld, Locking, Running, ladder, table
<1>10. CASE ReadTable(d)
    BY <1>10 DEF ReadTable, Goto, TypeOK, LockHeld, Locking, Running, ladder, table, ghosts
<1>11. CASE TruncateTable(d)
    BY <1>11 DEF TruncateTable, Goto, TypeOK, LockHeld, Locking, Running, ladder, table, ghosts
<1>12. CASE WriteTable(d)
    BY <1>12 DEF WriteTable, Goto, TypeOK, LockHeld, Locking, Running, ladder, table, ghosts
<1>13. CASE Unlock(d)
    BY <1>13, LadderAssumption DEF Unlock, Goto, TypeOK, LockHeld, Locking, Running, ladder, table
<1>14. CASE Returned(d)
    BY <1>14 DEF Returned, Goto, TypeOK, LockHeld, Locking, Running, ladder, table, ghosts
<1>15. CASE Kill(d)
    BY <1>15, LadderAssumption DEF Kill, Goto, TypeOK, LockHeld, Locking, Running, ladder, table
<1> QED  BY <1>1, <1>2, <1>3, <1>4, <1>5, <1>6, <1>7, <1>8, <1>9, <1>10, <1>11, <1>12, <1>13, <1>14, <1>15 DEF Step

\* A run stays on its ladder.
LEMMA KeepsRung ==
    ASSUME Inductive, NEW d \in Designs,
           (\E start \in Starts : Launch(d, start)) \/ Step(d) \/ Kill(d)
    PROVE  AtRung'
<1> USE DEF Inductive
<1>1. ASSUME NEW start \in Starts, Launch(d, start) PROVE AtRung'
    <2> DEFINE todo == FromCheckpoint(d, Ladder(start))
    <2>1. Max(todo) \in todo  BY Resumes, Highest
    <2>2. Max(todo) \in Ladder(start)  BY <2>1 DEF FromCheckpoint
    <2> QED  BY <1>1, <2>2 DEF Launch, TypeOK, Table, AtRung, Trying
<1>2. CASE TruncateCheckpoint(d)
    BY <1>2 DEF TruncateCheckpoint, Goto, TypeOK, Table, AtRung, Trying, NoRung, Running, ladder, table, ghosts
<1>3. CASE WriteCheckpoint(d)
    BY <1>3 DEF WriteCheckpoint, Goto, TypeOK, Table, AtRung, Trying, NoRung, Running, ladder, table, ghosts
<1>4. CASE FlowFits(d)
    BY <1>4 DEF FlowFits, Goto, TypeOK, Table, AtRung, Trying, NoRung, Running, ladder, table, ghosts
<1>5. CASE FlowCongested(d)
    <2> DEFINE lower == {r \in rungs[d] : r < util[d]}
    <2>1. lower \in SUBSET Rungs  BY DEF TypeOK
    <2>2. lower # {} => Max(lower) \in rungs[d]  BY <2>1, Highest
    <2> QED  BY <1>5, <2>2 DEF FlowCongested, Goto, TypeOK, Table, AtRung, Trying
<1>6. CASE FlowFails(d)
    BY <1>6 DEF FlowFails, Goto, TypeOK, Table, AtRung, Trying, NoRung, Running, ladder, table, ghosts
<1>7. CASE FinishFails(d)
    BY <1>7 DEF FinishFails, Goto, TypeOK, Table, AtRung, Trying, NoRung, Running, ladder, table, ghosts
<1>8. CASE FinishSucceeds(d)
    BY <1>8 DEF FinishSucceeds, Goto, TypeOK, Table, AtRung, Trying, NoRung, Running, ladder, table, ghosts
<1>9. CASE Lock(d)
    BY <1>9 DEF Lock, Goto, TypeOK, Table, AtRung, Trying, NoRung, Running, ladder, table, ghosts
<1>10. CASE ReadTable(d)
    BY <1>10 DEF ReadTable, Goto, TypeOK, Table, AtRung, Trying, NoRung, Running, ladder, table, ghosts
<1>11. CASE TruncateTable(d)
    BY <1>11 DEF TruncateTable, Goto, TypeOK, Table, AtRung, Trying, NoRung, Running, ladder, table, ghosts
<1>12. CASE WriteTable(d)
    BY <1>12 DEF WriteTable, Goto, TypeOK, Table, AtRung, Trying, NoRung, Running, ladder, table, ghosts
<1>13. CASE Unlock(d)
    BY <1>13 DEF Unlock, Goto, TypeOK, Table, AtRung, Trying, NoRung, Running, ladder, table, ghosts
<1>14. CASE Returned(d)
    BY <1>14 DEF Returned, Goto, TypeOK, Table, AtRung, Trying, NoRung, Running, ladder, table, ghosts
<1>15. CASE Kill(d)
    BY <1>15 DEF Kill, Goto, TypeOK, Table, AtRung, Trying, NoRung, Running, ladder, table, ghosts
<1> QED  BY <1>1, <1>2, <1>3, <1>4, <1>5, <1>6, <1>7, <1>8, <1>9, <1>10, <1>11, <1>12, <1>13, <1>14, <1>15 DEF Step

\* Only complete successes reach the file.
LEMMA KeepsSuccesses ==
    ASSUME Inductive, NEW d \in Designs,
           (\E start \in Starts : Launch(d, start)) \/ Step(d) \/ Kill(d)
    PROVE  OnlySuccesses'
<1> USE DEF Inductive
<1>1. ASSUME NEW start \in Starts, Launch(d, start) PROVE OnlySuccesses'
    BY <1>1 DEF Launch, TypeOK, Table, OnlySuccesses, NoRung, NoEntries, Running, ladder, table, ghosts
<1>2. CASE TruncateCheckpoint(d)
    BY <1>2 DEF TruncateCheckpoint, Goto, TypeOK, Table, OnlySuccesses, NoRung, NoEntries, Running, ladder, table, ghosts
<1>3. CASE WriteCheckpoint(d)
    BY <1>3 DEF WriteCheckpoint, Goto, TypeOK, Table, OnlySuccesses, NoRung, NoEntries, Running, ladder, table, ghosts
<1>4. CASE FlowFits(d)
    BY <1>4 DEF FlowFits, Goto, TypeOK, Table, OnlySuccesses, NoRung, NoEntries, Running, ladder, table, ghosts
<1>5. CASE FlowCongested(d)
    BY <1>5 DEF FlowCongested, Goto, TypeOK, Table, OnlySuccesses, NoRung, NoEntries, Running, ladder, table, ghosts
<1>6. CASE FlowFails(d)
    BY <1>6 DEF FlowFails, Goto, TypeOK, Table, OnlySuccesses, NoRung, NoEntries, Running, ladder, table, ghosts
<1>7. CASE FinishFails(d)
    BY <1>7 DEF FinishFails, Goto, TypeOK, Table, OnlySuccesses, NoRung, NoEntries, Running, ladder, table, ghosts
<1>8. CASE FinishSucceeds(d)
    BY <1>8 DEF FinishSucceeds, Goto, TypeOK, Table, OnlySuccesses, NoRung, NoEntries, Running, ladder, table, ghosts
<1>9. CASE Lock(d)
    BY <1>9 DEF Lock, Goto, TypeOK, Table, OnlySuccesses, NoRung, NoEntries, Running, ladder, table, ghosts
<1>10. CASE ReadTable(d)
    BY <1>10 DEF ReadTable, Goto, TypeOK, Table, OnlySuccesses, NoRung, NoEntries, Running, ladder, table, ghosts
<1>11. CASE TruncateTable(d)
    BY <1>11 DEF TruncateTable, Goto, TypeOK, Table, OnlySuccesses, NoRung, NoEntries, Running, ladder, table, ghosts
<1>12. CASE WriteTable(d)
    BY <1>12 DEF WriteTable, Goto, TypeOK, Table, OnlySuccesses, NoRung, NoEntries, Running, ladder, table, ghosts
<1>13. CASE Unlock(d)
    BY <1>13 DEF Unlock, Goto, TypeOK, Table, OnlySuccesses, NoRung, NoEntries, Running, ladder, table, ghosts
<1>14. CASE Returned(d)
    BY <1>14 DEF Returned, Goto, TypeOK, Table, OnlySuccesses, NoRung, NoEntries, Running, ladder, table, ghosts
<1>15. CASE Kill(d)
    BY <1>15 DEF Kill, Goto, TypeOK, Table, OnlySuccesses, NoRung, NoEntries, Running, ladder, table, ghosts
<1> QED  BY <1>1, <1>2, <1>3, <1>4, <1>5, <1>6, <1>7, <1>8, <1>9, <1>10, <1>11, <1>12, <1>13, <1>14, <1>15 DEF Step

\* Whoever holds the lock is alone with the file.
LEMMA KeepsEntries ==
    ASSUME Inductive, NEW d \in Designs,
           (\E start \in Starts : Launch(d, start)) \/ Step(d) \/ Kill(d)
    PROVE  NothingLost'
<1> USE DEF Inductive
<1>1. ASSUME NEW start \in Starts, Launch(d, start) PROVE NothingLost'
    BY <1>1 DEF Launch, TypeOK, Table, LockHeld, Locking, NothingLost, NoRung, NoEntries, Running, ladder, table, ghosts
<1>2. CASE TruncateCheckpoint(d)
    BY <1>2 DEF TruncateCheckpoint, Goto, TypeOK, Table, LockHeld, Locking, NothingLost, NoRung, NoEntries, Running, ladder, table, ghosts
<1>3. CASE WriteCheckpoint(d)
    BY <1>3 DEF WriteCheckpoint, Goto, TypeOK, Table, LockHeld, Locking, NothingLost, NoRung, NoEntries, Running, ladder, table, ghosts
<1>4. CASE FlowFits(d)
    BY <1>4 DEF FlowFits, Goto, TypeOK, Table, LockHeld, Locking, NothingLost, NoRung, NoEntries, Running, ladder, table, ghosts
<1>5. CASE FlowCongested(d)
    BY <1>5 DEF FlowCongested, Goto, TypeOK, Table, LockHeld, Locking, NothingLost, NoRung, NoEntries, Running, ladder, table, ghosts
<1>6. CASE FlowFails(d)
    BY <1>6 DEF FlowFails, Goto, TypeOK, Table, LockHeld, Locking, NothingLost, NoRung, NoEntries, Running, ladder, table, ghosts
<1>7. CASE FinishFails(d)
    BY <1>7 DEF FinishFails, Goto, TypeOK, Table, LockHeld, Locking, NothingLost, NoRung, NoEntries, Running, ladder, table, ghosts
<1>8. CASE FinishSucceeds(d)
    BY <1>8 DEF FinishSucceeds, Goto, TypeOK, Table, LockHeld, Locking, NothingLost, NoRung, NoEntries, Running, ladder, table, ghosts
<1>9. CASE Lock(d)
    BY <1>9 DEF Lock, Goto, TypeOK, Table, LockHeld, Locking, NothingLost, NoRung, NoEntries, Running, ladder, table, ghosts
<1>10. CASE ReadTable(d)
    BY <1>10 DEF ReadTable, Goto, TypeOK, Table, LockHeld, Locking, NothingLost, NoRung, NoEntries, Running, ladder, table, ghosts
<1>11. CASE TruncateTable(d)
    BY <1>11 DEF TruncateTable, Goto, TypeOK, Table, LockHeld, Locking, NothingLost, NoRung, NoEntries, Running, ladder, table, ghosts
<1>12. CASE WriteTable(d)
    BY <1>12 DEF WriteTable, Goto, TypeOK, Table, LockHeld, Locking, NothingLost, NoRung, NoEntries, Running, ladder, table, ghosts
<1>13. CASE Unlock(d)
    BY <1>13 DEF Unlock, Goto, TypeOK, Table, LockHeld, Locking, NothingLost, NoRung, NoEntries, Running, ladder, table, ghosts
<1>14. CASE Returned(d)
    BY <1>14 DEF Returned, Goto, TypeOK, Table, LockHeld, Locking, NothingLost, NoRung, NoEntries, Running, ladder, table, ghosts
<1>15. CASE Kill(d)
    BY <1>15 DEF Kill, Goto, TypeOK, Table, LockHeld, Locking, NothingLost, NoRung, NoEntries, Running, ladder, table, ghosts
<1> QED  BY <1>1, <1>2, <1>3, <1>4, <1>5, <1>6, <1>7, <1>8, <1>9, <1>10, <1>11, <1>12, <1>13, <1>14, <1>15 DEF Step

\* No run climbs back above a rung that did not fit.
LEMMA KeepsBelow ==
    ASSUME Inductive, NEW d \in Designs,
           (\E start \in Starts : Launch(d, start)) \/ Step(d) \/ Kill(d)
    PROVE  BelowCongested'
<1> USE DEF Inductive
<1>1. ASSUME NEW start \in Starts, Launch(d, start) PROVE BelowCongested'
    <2> DEFINE todo == FromCheckpoint(d, Ladder(start))
    <2>1. Max(todo) \in todo  BY Resumes, Highest
    <2>2. checkpoint[d] # NoRung => Max(todo) <= checkpoint[d]  BY <2>1 DEF FromCheckpoint
    <2>3. Max(todo) \in Nat /\ checkpoint[d] \in Nat /\ congested[d] \in SUBSET Nat
        <3>1. Rungs \subseteq Nat  BY LadderAssumption
        <3>2. Max(todo) \in Nat  BY Resumes, Highest
        <3>3. checkpoint[d] \in Rungs \cup {NoRung} /\ congested[d] \subseteq Rungs  BY DEF TypeOK, Table
        <3>4. congested[d] \in SUBSET Nat  BY <3>1, <3>3
        <3>5. checkpoint[d] \in Nat  BY <3>3, RungIsNat
        <3> QED  BY <3>2, <3>4, <3>5
    <2>4. pc[d] \in {"new", "failed", "killed"}  BY <1>1 DEF Launch
    <2>5. ~lost[d] => \A r \in congested[d] : Max(todo) <= r
        BY <2>2, <2>3, <2>4 DEF BelowCongested
    <2> QED  BY <1>1, <2>4, <2>5 DEF Launch, TypeOK, Table, BelowCongested, Trying, table, ghosts
<1>2. CASE TruncateCheckpoint(d)
    BY <1>2 DEF TruncateCheckpoint, Goto, TypeOK, Table, AtRung, BelowCongested, Trying, NoRung, Running, ladder, table, ghosts
<1>3. CASE WriteCheckpoint(d)
    <2>1. util[d] \in Rungs /\ util[d] # NoRung
        BY <1>3, LadderAssumption DEF WriteCheckpoint, Goto, TypeOK, AtRung, Trying, NoRung
    <2> QED  BY <1>3, <2>1 DEF WriteCheckpoint, Goto, TypeOK, Table, BelowCongested, Trying, ghosts
<1>4. CASE FlowFits(d)
    BY <1>4 DEF FlowFits, Goto, TypeOK, Table, AtRung, BelowCongested, Trying, NoRung, Running, ladder, table, ghosts
<1>5. CASE FlowCongested(d)
    <2> DEFINE lower == {r \in rungs[d] : r < util[d]}
    <2>1. lower \in SUBSET Rungs  BY DEF TypeOK
    <2>2. lower # {} => Max(lower) \in lower  BY <2>1, Highest
    <2>3. util[d] \in Rungs /\ checkpoint[d] = util[d] /\ util[d] # NoRung
        BY <1>5, LadderAssumption DEF FlowCongested, Goto, TypeOK, AtRung, Trying, NoRung
    <2>4. Rungs \subseteq Nat  BY LadderAssumption
    <2>5. ~lost[d] => \A r \in congested[d] \cup {util[d]} : util[d] <= r
        BY <1>5, <2>3, <2>4 DEF FlowCongested, Goto, TypeOK, BelowCongested, Trying
    <2>6. lower # {} /\ ~lost[d] => \A r \in congested[d] \cup {util[d]} : Max(lower) <= r
        <3>1. congested[d] \subseteq Nat  BY <2>4 DEF TypeOK
        <3>2. lower # {} => Max(lower) \in Nat /\ Max(lower) < util[d]  BY <2>1, <2>2, <2>4
        <3> SUFFICES ASSUME lower # {}, ~lost[d], NEW r \in congested[d] \cup {util[d]}
                     PROVE  Max(lower) <= r
            OBVIOUS
        <3>3. r \in Nat /\ util[d] \in Nat /\ util[d] <= r  BY <2>3, <2>4, <2>5, <3>1
        <3> HIDE DEF lower
        <3> QED  BY <3>2, <3>3
    <2> QED  BY <1>5, <2>3, <2>5, <2>6 DEF FlowCongested, Goto, TypeOK, Table, BelowCongested, Trying
<1>6. CASE FlowFails(d)
    BY <1>6 DEF FlowFails, Goto, TypeOK, Table, AtRung, BelowCongested, Trying, NoRung, Running, ladder, table, ghosts
<1>7. CASE FinishFails(d)
    BY <1>7 DEF FinishFails, Goto, TypeOK, Table, AtRung, BelowCongested, Trying, NoRung, Running, ladder, table, ghosts
<1>8. CASE FinishSucceeds(d)
    BY <1>8 DEF FinishSucceeds, Goto, TypeOK, Table, AtRung, BelowCongested, Trying, NoRung, Running, ladder, table, ghosts
<1>9. CASE Lock(d)
    BY <1>9 DEF Lock, Goto, TypeOK, Table, AtRung, BelowCongested, Trying, NoRung, Running, ladder, table, ghosts
<1>10. CASE ReadTable(d)
    BY <1>10 DEF ReadTable, Goto, TypeOK, Table, AtRung, BelowCongested, Trying, NoRung, Running, ladder, table, ghosts
<1>11. CASE TruncateTable(d)
    BY <1>11 DEF TruncateTable, Goto, TypeOK, Table, AtRung, BelowCongested, Trying, NoRung, Running, ladder, table, ghosts
<1>12. CASE WriteTable(d)
    BY <1>12 DEF WriteTable, Goto, TypeOK, Table, AtRung, BelowCongested, Trying, NoRung, Running, ladder, table, ghosts
<1>13. CASE Unlock(d)
    BY <1>13 DEF Unlock, Goto, TypeOK, Table, AtRung, BelowCongested, Trying, NoRung, Running, ladder, table, ghosts
<1>14. CASE Returned(d)
    BY <1>14 DEF Returned, Goto, TypeOK, Table, AtRung, BelowCongested, Trying, NoRung, Running, ladder, table, ghosts
<1>15. CASE Kill(d)
    BY <1>15 DEF Kill, Goto, TypeOK, Table, AtRung, BelowCongested, Trying, NoRung, Running, ladder, table, ghosts
<1> QED  BY <1>1, <1>2, <1>3, <1>4, <1>5, <1>6, <1>7, <1>8, <1>9, <1>10, <1>11, <1>12, <1>13, <1>14, <1>15 DEF Step

LEMMA KeepsInductive == Inductive /\ [Next]_vars => Inductive'
<1> SUFFICES ASSUME Inductive, [Next]_vars PROVE Inductive'  OBVIOUS
<1>1. ASSUME NEW d \in Designs, (\E start \in Starts : Launch(d, start)) \/ Step(d) \/ Kill(d)
      PROVE  Inductive'
    BY <1>1, KeepsTypes, KeepsLock, KeepsRung, KeepsSuccesses, KeepsEntries, KeepsBelow DEF Inductive
<1>2. CASE UNCHANGED vars
    BY <1>2 DEF Inductive, TypeOK, Table, LockHeld, AtRung, OnlySuccesses, NothingLost, BelowCongested,
                vars, ladder, table, ghosts
<1> QED  BY <1>1, <1>2 DEF Next

LEMMA InductiveHolds == Spec => []Inductive
BY InitInductive, KeepsInductive, PTL DEF Spec

-----------------------------------------------------------------------------
(* Theorems                                                                *)

\* launch.sh keeps its files well formed, whatever runs are killed.
THEOREM TypeCorrect == Spec => []TypeOK
<1>1. Inductive => TypeOK  BY DEF Inductive
<1> QED  BY <1>1, InductiveHolds, PTL

\* record_successful_util only ever writes complete successes.
THEOREM LookupSoundHolds == Spec => []LookupSound
<1>1. Inductive => LookupSound  BY DEF Inductive, OnlySuccesses, LookupSound
<1> QED  BY <1>1, InductiveHolds, PTL

\* Parallel runs lose no entry of the lookup file, unless one is killed while it writes.
THEOREM LookupCompleteHolds == Spec => []LookupComplete
<1>1. Inductive => LookupComplete
    BY LadderAssumption DEF Inductive, NothingLost, LockHeld, Locking, LookupComplete
<1> QED  BY <1>1, InductiveHolds, PTL

\* A resumed run of run_core_util_ladder does not climb back, whatever LADDER_START_UTIL is.
THEOREM NeverClimbsHolds == Spec => []NeverClimbs
<1>1. Inductive => NeverClimbs  BY DEF Inductive, BelowCongested, Trying, NeverClimbs
<1> QED  BY <1>1, InductiveHolds, PTL

-----------------------------------------------------------------------------
(* Runs that do not set LADDER_START_UTIL                                  *)

\* No rung is skipped that was not tried.
LEMMA KeepsAbove ==
    ASSUME Starts = {0}, Inductive, InductiveUnset, NEW d \in Designs,
           (\E start \in Starts : Launch(d, start)) \/ Step(d) \/ Kill(d)
    PROVE  InductiveUnset'
<1> USE DEF Inductive
<1>1. ASSUME NEW start \in Starts, Launch(d, start) PROVE InductiveUnset'
    <2> DEFINE todo == FromCheckpoint(d, Ladder(start))
    <2>1. Ladder(start) = Rungs  BY DEF Ladder
    <2>2. Max(todo) \in todo /\ \A r \in todo : r <= Max(todo)  BY Resumes, Highest
    <2>3. Rungs \subseteq Nat  BY LadderAssumption
    <2>4. checkpoint[d] \in Rungs \cup {NoRung}  BY DEF TypeOK, Table
    <2>5. ASSUME NEW r \in Rungs, r > Max(todo) PROVE r \in congested[d]
        <3>1. Max(todo) \in Nat /\ r \in Nat /\ checkpoint[d] \in Nat
            <4>1. Max(todo) \in Nat  BY Resumes, Highest
            <4>2. r \in Nat  BY <2>3
            <4>3. checkpoint[d] \in Nat  BY <2>4, RungIsNat
            <4> QED  BY <4>1, <4>2, <4>3
        <3>2. r \notin todo  BY <2>2, <2>5, <3>1
        <3>3. checkpoint[d] # NoRung /\ r > checkpoint[d]  BY <2>1, <3>1, <3>2 DEF FromCheckpoint
        <3> QED  BY <3>3 DEF InductiveUnset, AboveCongested
    <2> QED  BY <1>1, <2>1, <2>5 DEF Launch, TypeOK, Table, InductiveUnset, AboveCongested, WinnerIsHighest, Trying, ghosts
<1>2. CASE TruncateCheckpoint(d)
    BY <1>2 DEF TruncateCheckpoint, Goto, TypeOK, Table, AtRung, InductiveUnset, AboveCongested, WinnerIsHighest, Trying, NoRung, Running, ladder, table, ghosts
<1>3. CASE WriteCheckpoint(d)
    BY <1>3 DEF WriteCheckpoint, Goto, TypeOK, Table, AtRung, InductiveUnset, AboveCongested, WinnerIsHighest, Trying, NoRung, Running, ladder, table, ghosts
<1>4. CASE FlowFits(d)
    BY <1>4 DEF FlowFits, Goto, TypeOK, Table, AtRung, InductiveUnset, AboveCongested, WinnerIsHighest, Trying, NoRung, Running, ladder, table, ghosts
<1>5. CASE FlowCongested(d)
    <2> DEFINE lower == {r \in rungs[d] : r < util[d]}
    <2>1. lower \in SUBSET Rungs  BY DEF TypeOK
    <2>2. lower # {} => Max(lower) \in lower /\ \A r \in lower : r <= Max(lower)  BY <2>1, Highest
    <2>3. util[d] \in Rungs /\ rungs[d] = Rungs
        BY <1>5 DEF FlowCongested, Goto, TypeOK, AtRung, InductiveUnset, AboveCongested, Trying
    <2>4. Rungs \subseteq Nat  BY LadderAssumption
    <2>5. ASSUME lower # {}, NEW r \in Rungs, r > Max(lower) PROVE r \in congested[d] \cup {util[d]}
        <3>1. r \in Nat /\ Max(lower) \in Nat /\ util[d] \in Nat  BY <2>1, <2>2, <2>3, <2>4, <2>5
        <3>2. r \notin lower  BY <2>2, <2>5, <3>1
        <3>3. ~(r < util[d])  BY <2>3, <3>2
        <3>4. r = util[d] \/ r > util[d]  BY <3>1, <3>3
        <3> QED  BY <1>5, <3>4 DEF FlowCongested, Goto, InductiveUnset, AboveCongested, Trying
    <2> QED
        BY <1>5, <2>3, <2>5
        DEF FlowCongested, Goto, TypeOK, Table, InductiveUnset, AboveCongested, WinnerIsHighest, Trying
<1>6. CASE FlowFails(d)
    BY <1>6 DEF FlowFails, Goto, TypeOK, Table, AtRung, InductiveUnset, AboveCongested, WinnerIsHighest, Trying, NoRung, Running, ladder, table, ghosts
<1>7. CASE FinishFails(d)
    BY <1>7 DEF FinishFails, Goto, TypeOK, Table, AtRung, InductiveUnset, AboveCongested, WinnerIsHighest, Trying, NoRung, Running, ladder, table, ghosts
<1>8. CASE FinishSucceeds(d)
    BY <1>8 DEF FinishSucceeds, Goto, TypeOK, Table, AtRung, InductiveUnset, AboveCongested, WinnerIsHighest, Trying, NoRung, Running, ladder, table, ghosts
<1>9. CASE Lock(d)
    BY <1>9 DEF Lock, Goto, TypeOK, Table, AtRung, InductiveUnset, AboveCongested, WinnerIsHighest, Trying, NoRung, Running, ladder, table, ghosts
<1>10. CASE ReadTable(d)
    BY <1>10 DEF ReadTable, Goto, TypeOK, Table, AtRung, InductiveUnset, AboveCongested, WinnerIsHighest, Trying, NoRung, Running, ladder, table, ghosts
<1>11. CASE TruncateTable(d)
    BY <1>11 DEF TruncateTable, Goto, TypeOK, Table, AtRung, InductiveUnset, AboveCongested, WinnerIsHighest, Trying, NoRung, Running, ladder, table, ghosts
<1>12. CASE WriteTable(d)
    BY <1>12 DEF WriteTable, Goto, TypeOK, Table, AtRung, InductiveUnset, AboveCongested, WinnerIsHighest, Trying, NoRung, Running, ladder, table, ghosts
<1>13. CASE Unlock(d)
    BY <1>13 DEF Unlock, Goto, TypeOK, Table, AtRung, InductiveUnset, AboveCongested, WinnerIsHighest, Trying, NoRung, Running, ladder, table, ghosts
<1>14. CASE Returned(d)
    BY <1>14 DEF Returned, Goto, TypeOK, Table, AtRung, InductiveUnset, AboveCongested, WinnerIsHighest, Trying, NoRung, Running, ladder, table, ghosts
<1>15. CASE Kill(d)
    BY <1>15 DEF Kill, Goto, TypeOK, Table, AtRung, InductiveUnset, AboveCongested, WinnerIsHighest, Trying, NoRung, Running, ladder, table, ghosts
<1> QED  BY <1>1, <1>2, <1>3, <1>4, <1>5, <1>6, <1>7, <1>8, <1>9, <1>10, <1>11, <1>12, <1>13, <1>14, <1>15 DEF Step

\* When LADDER_START_UTIL is never set, the utilization a run wins is the highest one of the
\* ladder that fits, however often the design was killed and resumed before.
THEOREM WinnerIsHighestHolds == Starts = {0} => (Spec => []WinnerIsHighest)
<1> SUFFICES ASSUME Starts = {0} PROVE Spec => []WinnerIsHighest  OBVIOUS
<1>1. Init => InductiveUnset
    BY DEF Init, InductiveUnset, AboveCongested, WinnerIsHighest, NoEntries, NoRung, Trying
<1>2. Inductive /\ InductiveUnset /\ [Next]_vars => InductiveUnset'
    <2> SUFFICES ASSUME Inductive, InductiveUnset, [Next]_vars PROVE InductiveUnset'  OBVIOUS
    <2>1. CASE UNCHANGED vars
        BY <2>1 DEF InductiveUnset, AboveCongested, WinnerIsHighest, vars, ladder, ghosts
    <2> QED  BY <2>1, KeepsAbove DEF Next
<1>3. InductiveUnset => WinnerIsHighest  BY DEF InductiveUnset
<1> QED  BY <1>1, <1>2, <1>3, InductiveHolds, PTL DEF Spec

=============================================================================
