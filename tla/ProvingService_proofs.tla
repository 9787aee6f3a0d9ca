------------------------ MODULE ProvingService_proofs -----------------------
(***************************************************************************)
(* Proofs about ProvingService, for every finite set of calls and every    *)
(* MaxConcurrency.  The inductive invariant IInv has three parts: the      *)
(* types, the agreement of the channel and of the counter with the program *)
(* points of the calls, and CallInv, what is known of one call.  A step    *)
(* other than a crash belongs to one call, so the second part needs to     *)
(* know only how that call moves (Moves) and the third only what the step  *)
(* does to that call.                                                      *)
(***************************************************************************)
EXTENDS ProvingService, FiniteSetTheorems, TLAPS

(* The channel has room for at least one token. *)
LEMMA CapacityType == Capacity \in Nat /\ Capacity >= 1
BY MaxConcurrencyInt DEF Capacity

-----------------------------------------------------------------------------
(* The slots.                                                              *)

In(point, P) == IF point \in P THEN 1 ELSE 0

(* A step of call j moves it from one program point to another, and the    *)
(* channel and the counter move with it.                                   *)
Moves(j) ==
  \E from, to \in Points :
    /\ Step(j, from, to)
    /\ slots' = slots + In(to, Holding) - In(from, Holding)
    /\ inflight' = inflight + In(to, Counting) - In(from, Counting)

(* How the number of calls at a set P of program points changes when one   *)
(* call moves.                                                             *)
LEMMA StepCardinality ==
  ASSUME NEW j \in Jobs, NEW from \in Points, NEW to \in Points, NEW P,
         pc \in [Jobs -> Points], Step(j, from, to)
  PROVE  Cardinality({i \in Jobs : pc'[i] \in P})
           = Cardinality({i \in Jobs : pc[i] \in P}) + In(to, P) - In(from, P)
<1> DEFINE old == {i \in Jobs : pc[i] \in P}
           new == {i \in Jobs : pc'[i] \in P}
<1> SUFFICES Cardinality(new) = Cardinality(old) + In(to, P) - In(from, P)
  OBVIOUS
<1>1. IsFiniteSet(old) /\ Cardinality(old) \in Nat
  BY JobsFinite, FS_Subset, FS_CardinalityType
<1>2. pc[j] = from /\ pc'[j] = to /\ \A i \in Jobs \ {j} : pc'[i] = pc[i]
  BY DEF Step
<1>3. new = IF to \in P THEN old \cup {j} ELSE old \ {j}
  BY <1>2
<1>4. j \in old <=> from \in P
  BY <1>2
<1> HIDE DEF old, new
<1>5. Cardinality(old \cup {j})
        = IF j \in old THEN Cardinality(old) ELSE Cardinality(old) + 1
  BY <1>1, FS_AddElement
<1>6. Cardinality(old \ {j})
        = IF j \in old THEN Cardinality(old) - 1 ELSE Cardinality(old)
  BY <1>1, FS_RemoveElement
<1> QED
  BY <1>1, <1>3, <1>4, <1>5, <1>6 DEF In

(* A call at one of the program points of P makes its number positive. *)
LEMMA Occupied ==
  ASSUME NEW j \in Jobs, NEW P, pc[j] \in P
  PROVE  /\ Cardinality({i \in Jobs : pc[i] \in P}) \in Nat
         /\ Cardinality({i \in Jobs : pc[i] \in P}) > 0
<1> DEFINE S == {i \in Jobs : pc[i] \in P}
<1>1. IsFiniteSet(S) /\ Cardinality(S) \in Nat
  BY JobsFinite, FS_Subset, FS_CardinalityType
<1>2. j \in S
  OBVIOUS
<1>3. Cardinality(S) # 0
  BY <1>1, <1>2, FS_EmptySet
<1> QED
  BY <1>1, <1>3

(* A call that moves keeps the accounts. *)
LEMMA MovesAccounting ==
  ASSUME NEW j \in Jobs, pc \in [Jobs -> Points], SlotAccounting, Moves(j)
  PROVE  SlotAccounting'
<1>1. PICK from \in Points, to \in Points :
        /\ Step(j, from, to)
        /\ slots' = slots + In(to, Holding) - In(from, Holding)
        /\ inflight' = inflight + In(to, Counting) - In(from, Counting)
  BY DEF Moves
<1>2. Cardinality({i \in Jobs : pc'[i] \in Holding}) = slots'
  BY <1>1, StepCardinality DEF SlotAccounting, Holders
<1>3. Cardinality({i \in Jobs : pc'[i] \in Counting}) = inflight'
  BY <1>1, StepCardinality DEF SlotAccounting, Counted
<1> QED
  BY <1>2, <1>3 DEF SlotAccounting, Holders, Counted

(* Every step of a goroutine keeps the channel and the counter in line     *)
(* with its program point; release always finds a token to receive.        *)
LEMMA GoroutineMoves ==
  ASSUME NEW j \in Jobs, TypeOK, SlotAccounting, Goroutine(j) \/ Call(j) \/ Refuse(j)
  PROVE  Moves(j)
<1> USE DEF Moves, Points, Holding, Counting, Working, In
<1>0. slots \in Nat /\ inflight \in Nat
  BY CapacityType DEF TypeOK
<1>1. CASE Call(j)
  BY <1>0, <1>1 DEF Call
<1>2. CASE Refuse(j)
  BY <1>0, <1>2 DEF Refuse
<1>3. CASE Acquire(j)
  BY <1>0, <1>3 DEF Acquire
<1>4. CASE Abandon(j)
  BY <1>0, <1>4 DEF Abandon
<1>5. CASE Count(j)
  BY <1>0, <1>5 DEF Count
<1>6. CASE CreateRequestFile(j)
  BY <1>0, <1>6 DEF CreateRequestFile
<1>7. CASE EncodeRequest(j)
  BY <1>0, <1>7 DEF EncodeRequest
<1>8. CASE CreateOutputFile(j)
  BY <1>0, <1>8 DEF CreateOutputFile
<1>9. CASE StartCommand(j)
  BY <1>0, <1>9 DEF StartCommand
<1>10. CASE StartFails(j)
  BY <1>0, <1>10 DEF StartFails
<1>11. CASE CommandSucceeds(j)
  BY <1>0, <1>11 DEF CommandSucceeds
<1>12. CASE CommandFails(j)
  BY <1>0, <1>12 DEF CommandFails
<1>13. CASE ReadResponse(j)
  BY <1>0, <1>13 DEF ReadResponse
<1>14. CASE RemoveOutput(j)
  BY <1>0, <1>14 DEF RemoveOutput
<1>15. CASE RemoveRequest(j)
  BY <1>0, <1>15 DEF RemoveRequest
<1>16. CASE Release(j)
  <2>1. slots > 0
    BY <1>16, <1>0, Occupied DEF SlotAccounting, Holders, Release, Step
  <2>2. Step(j, "release", "uncount") /\ slots' = slots - 1 /\ inflight' = inflight
    BY <1>16, <2>1 DEF Release
  <2> QED
    BY <1>0, <2>2
<1>17. CASE Uncount(j)
  BY <1>0, <1>17 DEF Uncount
<1> QED
  BY <1>1, <1>2, <1>3, <1>4, <1>5, <1>6, <1>7, <1>8, <1>9, <1>10, <1>11, <1>12, <1>13,
     <1>14, <1>15, <1>16, <1>17 DEF Goroutine

-----------------------------------------------------------------------------
(* The inductive invariant.                                                *)

(* Init establishes it. *)
LEMMA InitIInv == Init => IInv
<1> SUFFICES ASSUME Init PROVE IInv
  OBVIOUS
<1>1. TypeOK
  BY CapacityType DEF Init, TypeOK, Points, Contexts
<1>2. Holders = {} /\ Counted = {}
  BY DEF Init, Holders, Counted, Holding, Counting, Working
<1>3. SlotAccounting
  BY <1>2, FS_EmptySet DEF Init, SlotAccounting
<1>4. CallInv
  BY DEF Init, CallInv, ProcessesOf, FilesOf, ProofOf, BeforeStart, Alive, ChildStages, OwnStages
<1> QED
  BY <1>1, <1>3, <1>4 DEF IInv

(* Every step of a call keeps the types; that slots stays within Capacity  *)
(* is the guard of Acquire, that inflight does not fall below zero is the  *)
(* accounting.                                                             *)
LEMMA StepTypes ==
  ASSUME NEW j \in Jobs, TypeOK, SlotAccounting',
         Goroutine(j) \/ Processes(j) \/ Environment(j) \/ Timer(j)
  PROVE  TypeOK'
<1> USE DEF TypeOK, Step, Answer
<1>0. /\ Capacity \in Nat
      /\ inflight' \in Nat
  <2>1. IsFiniteSet(Counted')
    BY JobsFinite, FS_Subset DEF Counted
  <2> QED
    BY <2>1, CapacityType, FS_CardinalityType DEF SlotAccounting
<1>1. CASE Call(j)
  BY <1>0, <1>1 DEF Call, cliVars, Points, Holding, Counting, Working
<1>2. CASE Refuse(j)
  BY <1>0, <1>2 DEF Refuse, cliVars, Points, Holding, Counting, Working, Errors
<1>3. CASE Acquire(j)
  BY <1>0, <1>3 DEF Acquire, cliVars, Points, Holding, Counting, Working
<1>4. CASE Abandon(j)
  BY <1>0, <1>4 DEF Abandon, cliVars, Points, Holding, Counting, Working, Errors
<1>5. CASE Count(j)
  BY <1>0, <1>5 DEF Count, cliVars, Points, Holding, Counting, Working
<1>6. CASE CreateRequestFile(j)
  BY <1>0, <1>6 DEF CreateRequestFile, cliVars, Points, Holding, Counting, Working, Errors, Requests
<1>7. CASE EncodeRequest(j)
  BY <1>0, <1>7 DEF EncodeRequest, cliVars, Points, Holding, Counting, Working, Errors
<1>8. CASE CreateOutputFile(j)
  BY <1>0, <1>8 DEF CreateOutputFile, cliVars, Points, Holding, Counting, Working, Errors, Requests
<1>9. CASE StartCommand(j)
  BY <1>0, <1>9 DEF StartCommand, cliVars, Points, Holding, Counting, Working, Alive, OwnStages
<1>10. CASE StartFails(j)
  BY <1>0, <1>10 DEF StartFails, cliVars, Points, Holding, Counting, Working, Errors
<1>11. CASE CommandSucceeds(j)
  BY <1>0, <1>11 DEF CommandSucceeds, cliVars, Points, Holding, Counting, Working
<1>12. CASE CommandFails(j)
  BY <1>0, <1>12 DEF CommandFails, cliVars, Points, Holding, Counting, Working, Errors
<1>13. CASE ReadResponse(j)
  BY <1>0, <1>13 DEF ReadResponse, cliVars, Points, Holding, Counting, Working, Errors
<1>14. CASE RemoveOutput(j)
  BY <1>0, <1>14 DEF RemoveOutput, cliVars, Points, Holding, Counting, Working
<1>15. CASE RemoveRequest(j)
  BY <1>0, <1>15 DEF RemoveRequest, cliVars, Points, Holding, Counting, Working
<1>16. CASE Release(j)
  BY <1>0, <1>16 DEF Release, cliVars, Points, Holding, Counting, Working
<1>17. CASE Uncount(j)
  BY <1>0, <1>17 DEF Uncount, cliVars, Points, Holding, Counting, Working
<1>18. CASE Disconnect(j)
  BY <1>0, <1>18 DEF Disconnect, Running, cliVars, Contexts
<1>19. CASE Deadline(j)
  BY <1>0, <1>19 DEF Deadline, cliVars, Contexts
<1>20. CASE ContextKills(j)
  BY <1>0, <1>20 DEF ContextKills, goVars, Alive, Dead, Killed, ChildStages, OwnStages
<1>21. CASE CliSpawns(j)
  BY <1>0, <1>21 DEF CliSpawns, goVars, Alive, Dead, Killed, ChildStages, OwnStages, Spawns
<1>22. CASE ChildSucceeds(j)
  BY <1>0, <1>22 DEF ChildSucceeds, goVars, Alive, Dead, Killed, ChildStages, OwnStages, After
<1>23. CASE ChildFails(j)
  BY <1>0, <1>23 DEF ChildFails, goVars, Alive, Dead, Killed, ChildStages, OwnStages
<1>24. CASE OrphanEnds(j)
  BY <1>0, <1>24 DEF OrphanEnds, goVars, Alive, Dead, Killed, ChildStages, OwnStages
<1>25. CASE CliWrites(j)
  BY <1>0, <1>25 DEF CliWrites, goVars, Alive, Dead, Killed, ChildStages, OwnStages
<1>26. CASE CliExits(j)
  BY <1>0, <1>26 DEF CliExits, goVars, Alive, Dead, Killed, ChildStages, OwnStages
<1>27. CASE CliFails(j)
  BY <1>0, <1>27 DEF CliFails, goVars, Alive, Dead, Killed, ChildStages, OwnStages
<1>28. CASE KernelKills(j)
  BY <1>0, <1>28 DEF KernelKills, goVars, Alive, Dead, Killed, ChildStages, OwnStages
<1> QED
  BY <1>1, <1>2, <1>3, <1>4, <1>5, <1>6, <1>7, <1>8, <1>9, <1>10, <1>11, <1>12, <1>13,
     <1>14, <1>15, <1>16, <1>17, <1>18, <1>19, <1>20, <1>21, <1>22, <1>23, <1>24, <1>25,
     <1>26, <1>27, <1>28
  DEF Goroutine, Processes, Environment, Timer

(* What is known of every call survives a step of one of them. *)
LEMMA StepCalls ==
  ASSUME NEW j \in Jobs, TypeOK, CallInv,
         Goroutine(j) \/ Processes(j) \/ Environment(j) \/ Timer(j)
  PROVE  CallInv'
<1> SUFFICES ASSUME NEW i \in Jobs
             PROVE  (ProcessesOf(i) /\ FilesOf(i) /\ ProofOf(i))'
  BY DEF CallInv
<1>0. ProcessesOf(i) /\ FilesOf(i) /\ ProofOf(i)
  BY DEF CallInv
<1> USE DEF TypeOK, ProcessesOf, FilesOf, ProofOf, BeforeStart, AfterRead,
            Alive, Dead, Killed, ChildStages, OwnStages, Step, Answer
<1>1. CASE Call(j)
  BY <1>0, <1>1 DEF Call, cliVars
<1>2. CASE Refuse(j)
  BY <1>0, <1>2 DEF Refuse, cliVars
<1>3. CASE Acquire(j)
  BY <1>0, <1>3 DEF Acquire, cliVars
<1>4. CASE Abandon(j)
  BY <1>0, <1>4 DEF Abandon, cliVars
<1>5. CASE Count(j)
  BY <1>0, <1>5 DEF Count, cliVars
<1>6. CASE CreateRequestFile(j)
  BY <1>0, <1>6 DEF CreateRequestFile, cliVars
<1>7. CASE EncodeRequest(j)
  BY <1>0, <1>7 DEF EncodeRequest, cliVars
<1>8. CASE CreateOutputFile(j)
  BY <1>0, <1>8 DEF CreateOutputFile, cliVars
<1>9. CASE StartCommand(j)
  BY <1>0, <1>9 DEF StartCommand, cliVars
<1>10. CASE StartFails(j)
  BY <1>0, <1>10 DEF StartFails, cliVars
<1>11. CASE CommandSucceeds(j)
  BY <1>0, <1>11 DEF CommandSucceeds, cliVars
<1>12. CASE CommandFails(j)
  BY <1>0, <1>12 DEF CommandFails, cliVars
<1>13. CASE ReadResponse(j)
  BY <1>0, <1>13 DEF ReadResponse, cliVars
<1>14. CASE RemoveOutput(j)
  BY <1>0, <1>14 DEF RemoveOutput, cliVars
<1>15. CASE RemoveRequest(j)
  BY <1>0, <1>15 DEF RemoveRequest, cliVars
<1>16. CASE Release(j)
  BY <1>0, <1>16 DEF Release, cliVars
<1>17. CASE Uncount(j)
  BY <1>0, <1>17 DEF Uncount, cliVars
<1>18. CASE Disconnect(j)
  BY <1>0, <1>18 DEF Disconnect, cliVars
<1>19. CASE Deadline(j)
  BY <1>0, <1>19 DEF Deadline, cliVars
<1>20. CASE ContextKills(j)
  BY <1>0, <1>20 DEF ContextKills, goVars
<1>21. CASE CliSpawns(j)
  <2>1. /\ cli[j] \in {"load", "solve", "proved"} /\ Spawns[cli[j]] \in ChildStages
        /\ cli' = [cli EXCEPT ![j] = Spawns[cli[j]]]
        /\ child' = [child EXCEPT ![j] = Spawns[cli[j]]]
    BY <1>21 DEF CliSpawns, Spawns
  <2>2. CASE i = j
    BY <1>0, <1>21, <2>1, <2>2 DEF CliSpawns, goVars
  <2>3. CASE i # j
    BY <1>0, <1>21, <2>1, <2>3 DEF CliSpawns, goVars
  <2> QED
    BY <2>2, <2>3
<1>22. CASE ChildSucceeds(j)
  BY <1>0, <1>22 DEF ChildSucceeds, goVars, After
<1>23. CASE ChildFails(j)
  BY <1>0, <1>23 DEF ChildFails, goVars
<1>24. CASE OrphanEnds(j)
  BY <1>0, <1>24 DEF OrphanEnds, goVars
<1>25. CASE CliWrites(j)
  BY <1>0, <1>25 DEF CliWrites, goVars
<1>26. CASE CliExits(j)
  BY <1>0, <1>26 DEF CliExits, goVars
<1>27. CASE CliFails(j)
  BY <1>0, <1>27 DEF CliFails, goVars
<1>28. CASE KernelKills(j)
  BY <1>0, <1>28 DEF KernelKills, goVars
<1> QED
  BY <1>1, <1>2, <1>3, <1>4, <1>5, <1>6, <1>7, <1>8, <1>9, <1>10, <1>11, <1>12, <1>13,
     <1>14, <1>15, <1>16, <1>17, <1>18, <1>19, <1>20, <1>21, <1>22, <1>23, <1>24, <1>25,
     <1>26, <1>27, <1>28
  DEF Goroutine, Processes, Environment, Timer

(* A crash leaves no call with a slot, and what is known of a lost call is *)
(* what was known of it before: its processes may go on or are killed.     *)
LEMMA CrashIInv ==
  ASSUME IInv, Crash
  PROVE  IInv'
<1> USE DEF IInv
<1>0. /\ pc' = [j \in Jobs |-> IF j \in Running THEN "lost" ELSE pc[j]]
      /\ \A j \in Jobs : pc'[j] \in {"idle", "returned", "lost"}
  BY DEF Crash, Running
<1>1. SlotAccounting'
  <2>1. Holders' = {} /\ Counted' = {}
    BY <1>0 DEF Holders, Counted, Holding, Counting, Working
  <2> QED
    BY <2>1, FS_EmptySet DEF SlotAccounting, Crash
<1>2. TypeOK'
  BY <1>0, CapacityType DEF TypeOK, Crash, Points, Holding, Counting, Working, Dead, Killed,
       Alive, OwnStages, ChildStages
<1>3. ASSUME NEW j \in Jobs
      PROVE  (ProcessesOf(j) /\ FilesOf(j) /\ ProofOf(j))'
  <2>1. ProcessesOf(j) /\ FilesOf(j) /\ ProofOf(j)
    BY DEF CallInv
  <2>2. \/ pc'[j] = pc[j] /\ pc[j] \in {"idle", "returned", "lost"}
        \/ pc'[j] = "lost"
    BY <1>0
  <2>3. \/ cli'[j] = cli[j] /\ child'[j] = child[j]
        \/ child'[j] = "none" /\ cli'[j] = cli[j] /\ cli[j] \notin Alive
        \/ child'[j] = "none" /\ cli'[j] = "killedByKernel" /\ cli[j] \in Alive
    BY DEF Crash
  <2>4. UNCHANGED <<tmp, result, scratch, verdict, out>>
    BY DEF Crash
  <2> QED
    BY <2>1, <2>2, <2>3, <2>4 DEF TypeOK, ProcessesOf, FilesOf, ProofOf, BeforeStart, AfterRead,
         Alive, Dead, Killed, ChildStages, OwnStages
<1> QED
  BY <1>1, <1>2, <1>3 DEF CallInv

(* IInv is inductive. *)
LEMMA NextIInv == IInv /\ [Next]_vars => IInv'
<1> SUFFICES ASSUME IInv, [Next]_vars PROVE IInv'
  OBVIOUS
<1> USE DEF IInv
<1>1. CASE UNCHANGED vars
  <2>1. TypeOK' /\ CallInv'
    BY <1>1 DEF vars, TypeOK, CallInv, ProcessesOf, FilesOf, ProofOf
  <2>2. SlotAccounting'
    BY <1>1 DEF vars, SlotAccounting, Holders, Counted
  <2> QED
    BY <2>1, <2>2
<1>2. ASSUME NEW j \in Jobs,
             Goroutine(j) \/ Processes(j) \/ Environment(j) \/ Timer(j)
      PROVE  IInv'
  <2>1. SlotAccounting'
    <3>1. CASE Goroutine(j) \/ Call(j) \/ Refuse(j)
      BY <3>1, GoroutineMoves, MovesAccounting DEF TypeOK
    <3>2. CASE Processes(j) \/ Timer(j) \/ Disconnect(j) \/ KernelKills(j)
      <4>1. UNCHANGED <<pc, slots, inflight>>
        BY <3>2 DEF Processes, Timer, Disconnect, KernelKills, Deadline, ContextKills,
             CliSpawns, ChildSucceeds, ChildFails, OrphanEnds, CliWrites, CliExits,
             CliFails, goVars
      <4> QED
        BY <4>1 DEF SlotAccounting, Holders, Counted
    <3> QED
      BY <1>2, <3>1, <3>2 DEF Environment
  <2>2. TypeOK'
    BY <1>2, <2>1, StepTypes
  <2>3. CallInv'
    BY <1>2, StepCalls
  <2> QED
    BY <2>1, <2>2, <2>3
<1> QED
  BY <1>1, <1>2, CrashIInv DEF Next

(* IInv holds in every reachable state. *)
THEOREM Invariance == Spec => []IInv
BY InitIInv, NextIInv, PTL DEF Spec

-----------------------------------------------------------------------------
(* The properties.                                                         *)

(* The variables keep their types: in particular slots stays within the    *)
(* capacity of the channel and inflight (service.go:80) is never negative. *)
THEOREM TypeCorrect == Spec => []TypeOK
BY Invariance, PTL DEF IInv

(* Every token of Service.slots belongs to exactly one call of Aggregate,  *)
(* and inflight counts the calls between acquire and release               *)
(* (service.go:118-121, 251-267).                                          *)
THEOREM SlotsAccounted == Spec => []SlotAccounting
BY Invariance, PTL DEF IInv

(* The calls whose prover-cli runs, or whose bb does, own a slot unless    *)
(* they belong to the set X of calls that are accounted for apart, so      *)
(* their number is bounded by the capacity and the size of X.              *)
LEMMA SlotsBound ==
  ASSUME IInv, NEW S, NEW X, X \subseteq Jobs, S \subseteq Holders \cup X
  PROVE  Cardinality(S) <= Capacity + Cardinality(X)
<1>1. IsFiniteSet(Holders) /\ IsFiniteSet(X)
  BY JobsFinite, FS_Subset DEF Holders
<1>2. /\ IsFiniteSet(Holders \cup X)
      /\ Cardinality(Holders \cup X) =
           Cardinality(Holders) + Cardinality(X) - Cardinality(Holders \cap X)
  BY <1>1, FS_Union
<1>3. IsFiniteSet(S) /\ Cardinality(S) <= Cardinality(Holders \cup X)
  BY <1>2, FS_Subset
<1>4. Cardinality(Holders \cap X) \in Nat
  BY <1>1, FS_Subset, FS_CardinalityType
<1>5. Cardinality(S) \in Nat /\ Cardinality(X) \in Nat /\ Cardinality(Holders) \in Nat
  BY <1>1, <1>3, FS_CardinalityType
<1>6. Cardinality(Holders) <= Capacity /\ Capacity \in Nat
  BY CapacityType DEF IInv, TypeOK, SlotAccounting
<1> QED
  BY <1>2, <1>3, <1>4, <1>5, <1>6

(* At most MaxConcurrency prover-cli processes run (service.go:84-97),     *)
(* besides those that outlive their server (main.go:187).                  *)
THEOREM CommandsStayBounded == Spec => []CommandsBounded
<1>1. IInv => CommandsBounded
  <2> SUFFICES ASSUME IInv PROVE CommandsBounded
    OBVIOUS
  <2>1. {j \in Jobs : cli[j] \in Alive} \subseteq Holders \cup Lost
    BY DEF IInv, CallInv, ProcessesOf, Holders, Holding, Working, Lost
  <2> QED
    BY <2>1, SlotsBound DEF CommandsBounded, Lost
<1> QED
  BY <1>1, Invariance, PTL

(* A call that has returned leaves no file, and a process or a directory   *)
(* only after a SIGKILL of its prover-cli (service.go:121-150).            *)
THEOREM ReturnsClean == Spec => []CleanReturn
<1>1. IInv => CleanReturn
  BY DEF IInv, CallInv, ProcessesOf, FilesOf, TypeOK, CleanReturn, Requests, Alive,
         ChildStages, Killed, OwnStages
<1> QED
  BY <1>1, Invariance, PTL

(* Aggregate returns a proof only if `bb verify` accepted it               *)
(* (service.go:226, main.rs:807-817).                                      *)
THEOREM ProofsVerified == Spec => []OnlyVerifiedProofs
<1>1. IInv => OnlyVerifiedProofs
  BY DEF IInv, CallInv, ProofOf, OnlyVerifiedProofs
<1> QED
  BY <1>1, Invariance, PTL

(* bb processes exceed MaxConcurrency by at most the number of calls whose *)
(* prover-cli was SIGKILLed or whose server died (service.go:152,          *)
(* proving.rs:138, main.go:187).                                           *)
THEOREM BbExcess == Spec => []BbExcessExplained
<1>1. IInv => BbExcessExplained
  <2> SUFFICES ASSUME IInv PROVE BbExcessExplained
    OBVIOUS
  <2> DEFINE apart == Lost \cup {j \in Jobs : cli[j] \in Killed}
  <2>1. LiveBb \subseteq {j \in Jobs : cli[j] \in Alive} \cup apart
    BY DEF IInv, CallInv, ProcessesOf, TypeOK, LiveBb, Alive, ChildStages
  <2>2. {j \in Jobs : cli[j] \in Alive} \subseteq Holders \cup Lost
    BY DEF IInv, CallInv, ProcessesOf, Holders, Holding, Working, Lost
  <2>3. apart \subseteq Jobs /\ LiveBb \subseteq Holders \cup apart
    BY <2>1, <2>2 DEF Lost
  <2> QED
    BY <2>3, SlotsBound DEF BbExcessExplained
<1> QED
  BY <1>1, Invariance, PTL

-----------------------------------------------------------------------------
(* Refinement.                                                             *)

(* The phases change with the program point of the call that moves. *)
LEMMA PhaseMoves ==
  ASSUME NEW j \in Jobs, NEW from, NEW to, pc \in [Jobs -> Points], Step(j, from, to)
  PROVE  /\ Phase' = [Phase EXCEPT ![j] = PhaseAt(to)]
         /\ Phase[j] = PhaseAt(from)
BY DEF Step, Phase

(* The calls in the phase "proving" are those that own a slot. *)
LEMMA ProvingHolders ==
  ASSUME TypeOK
  PROVE  Promise!Proving = Holders
<1>1. \A point \in Points : PhaseAt(point) = "proving" <=> point \in Holding
  BY DEF PhaseAt, Points, Holding, Counting, Working
<1> QED
  BY <1>1 DEF TypeOK, Promise!Proving, Holders, Phase

(* A step of a goroutine between two points where it owns a slot is not    *)
(* seen in the promise.                                                    *)
LEMMA SilentMoves ==
  ASSUME NEW j \in Jobs, NEW from \in Holding, NEW to \in Holding,
         pc \in [Jobs -> Points], Step(j, from, to), UNCHANGED verdict,
         \A i \in Jobs \ {j} : result'[i] = result[i]
  PROVE  UNCHANGED Promise!vars
<1>1. UNCHANGED Phase
  <2>1. PhaseAt(from) = "proving" /\ PhaseAt(to) = "proving"
    BY DEF PhaseAt, Holding, Working
  <2> QED
    BY <2>1, PhaseMoves DEF Phase, Step
<1>2. UNCHANGED Verified
  BY DEF Verified
<1>3. UNCHANGED Proven
  BY DEF Proven, Step, Holding, Working
<1> QED
  BY <1>1, <1>2, <1>3 DEF Promise!vars

(* What a step of the goroutine of j is to the promise: the call enters,   *)
(* is turned away, begins, finishes, or nothing is to be seen.             *)
LEMMA GoroutineRefines ==
  ASSUME NEW j \in Jobs, IInv, Goroutine(j) \/ Call(j) \/ Refuse(j)
  PROVE  [Promise!Next]_(Promise!vars)
<1> USE DEF IInv, TypeOK
<1>1. CASE Call(j)
  <2>1. Step(j, "idle", "queue") /\ UNCHANGED <<verdict, result>>
    BY <1>1 DEF Call, cliVars
  <2>2. Phase[j] = "idle" /\ Phase' = [Phase EXCEPT ![j] = "waiting"]
    BY <2>1, PhaseMoves DEF PhaseAt, Holding, Working
  <2>3. UNCHANGED Verified
    BY <2>1 DEF Verified
  <2>4. UNCHANGED Proven
    BY <2>1 DEF Proven, Step, Holding, Working
  <2> QED
    BY <2>2, <2>3, <2>4 DEF Promise!Next, Promise!Enter
<1>2. CASE Refuse(j) \/ Abandon(j)
  <2>1. PICK from \in {"idle", "queue"}, r \in {"invalid", "cancelled"} :
          Step(j, from, "returned") /\ Answer(j, r) /\ UNCHANGED verdict
    BY <1>2 DEF Refuse, Abandon, cliVars
  <2>2. Phase[j] \in {"idle", "waiting"} /\ Phase' = [Phase EXCEPT ![j] = "answered"]
    BY <2>1, PhaseMoves DEF PhaseAt, Holding, Working
  <2>3. result[j] # "ok"
    BY <2>1 DEF Step, CallInv, ProofOf, AfterRead
  <2>4. UNCHANGED <<Verified, Proven>>
    BY <2>1, <2>3 DEF Verified, Proven, Step, Answer, Holding, Working
  <2> QED
    BY <2>2, <2>4 DEF Promise!Next, Promise!TurnAway
<1>3. CASE Acquire(j)
  <2>1. Step(j, "queue", "admitted") /\ slots < Capacity /\ UNCHANGED <<verdict, result>>
    BY <1>3 DEF Acquire, cliVars
  <2>2. Phase[j] = "waiting" /\ Phase' = [Phase EXCEPT ![j] = "proving"]
    BY <2>1, PhaseMoves DEF PhaseAt, Holding, Working
  <2>3. Promise!Cardinality(Promise!Proving) < Capacity
    <3>1. Promise!Cardinality(Promise!Proving) = Cardinality(Promise!Proving)
      BY DEF Promise!Cardinality, Cardinality
    <3> QED
      BY <2>1, <3>1, ProvingHolders DEF SlotAccounting
  <2>4. result[j] # "ok"
    BY <2>1 DEF Step, CallInv, ProofOf, AfterRead
  <2>5. UNCHANGED <<Verified, Proven>>
    BY <2>1, <2>4 DEF Verified, Proven, Step, Holding, Working
  <2>6. Promise!Begin(j)
    BY <2>2, <2>3, <2>5 DEF Promise!Begin
  <2> QED
    BY <2>6 DEF Promise!Next
<1>4. CASE Release(j)
  <2>1. slots > 0
    <3>1. pc[j] \in Holding
      BY <1>4 DEF Release, Step, Holding, Working
    <3> QED
      BY <3>1, Occupied DEF SlotAccounting, Holders
  <2>2. Step(j, "release", "uncount") /\ UNCHANGED <<verdict, result>>
    BY <1>4, <2>1 DEF Release, cliVars
  <2>3. Phase[j] = "proving" /\ Phase' = [Phase EXCEPT ![j] = "finished"]
    BY <2>2, PhaseMoves DEF PhaseAt, Holding, Working
  <2>4. UNCHANGED <<Verified, Proven>>
    BY <2>2 DEF Verified, Proven, Step
  <2> QED
    BY <2>3, <2>4 DEF Promise!Next, Promise!Finish
<1>5. ASSUME NEW from \in Points, NEW to \in Points,
             Step(j, from, to), from \in Holding, to \in Holding, UNCHANGED verdict,
             \A i \in Jobs \ {j} : result'[i] = result[i]
      PROVE  UNCHANGED Promise!vars
  BY <1>5, SilentMoves
<1>6. CASE Uncount(j)
  <2>1. Step(j, "uncount", "returned") /\ UNCHANGED <<verdict, result>>
    BY <1>6 DEF Uncount, cliVars
  <2>2. Phase[j] = "finished" /\ Phase' = [Phase EXCEPT ![j] = "answered"]
    BY <2>1, PhaseMoves DEF PhaseAt, Holding, Working
  <2>3. UNCHANGED Verified
    BY <2>1 DEF Verified
  <2>4. Proven' = IF result[j] = "ok" THEN Proven \cup {j} ELSE Proven
    BY <2>1 DEF Proven, Step
  <2>5. result[j] = "ok" => j \in Verified
    BY DEF CallInv, ProofOf, Verified
  <2> QED
    BY <2>2, <2>3, <2>4, <2>5 DEF Promise!Next, Promise!Answer
<1>7. CASE \/ Count(j) \/ CreateRequestFile(j) \/ EncodeRequest(j) \/ CreateOutputFile(j)
           \/ StartCommand(j) \/ StartFails(j) \/ CommandSucceeds(j) \/ CommandFails(j)
           \/ ReadResponse(j) \/ RemoveOutput(j) \/ RemoveRequest(j)
  <2>1. PICK from \in Working \cup {"admitted"}, to \in Working : Step(j, from, to)
    BY <1>7 DEF Count, CreateRequestFile, EncodeRequest, CreateOutputFile, StartCommand,
         StartFails, CommandSucceeds, CommandFails, ReadResponse, RemoveOutput,
         RemoveRequest, Working
  <2>2. UNCHANGED verdict /\ \A i \in Jobs \ {j} : result'[i] = result[i]
    BY <1>7 DEF Count, CreateRequestFile, EncodeRequest, CreateOutputFile, StartCommand,
         StartFails, CommandSucceeds, CommandFails, ReadResponse, RemoveOutput,
         RemoveRequest, cliVars, Answer
  <2> QED
    BY <1>5, <2>1, <2>2 DEF Points, Holding
<1> QED
  BY <1>1, <1>2, <1>3, <1>4, <1>6, <1>7 DEF Goroutine

(* What the processes and the clock do is seen in the promise only when    *)
(* `bb verify` accepts a proof.                                            *)
LEMMA ProcessesRefine ==
  ASSUME NEW j \in Jobs, IInv,
         Processes(j) \/ Timer(j) \/ Disconnect(j) \/ KernelKills(j)
  PROVE  [Promise!Next]_(Promise!vars)
<1> USE DEF IInv, TypeOK
<1>1. UNCHANGED <<pc, result>>
  BY DEF Processes, Timer, Disconnect, KernelKills, Deadline, ContextKills,
       CliSpawns, ChildSucceeds, ChildFails, OrphanEnds, CliWrites, CliExits,
       CliFails, goVars
<1>2. UNCHANGED <<Phase, Proven>>
  BY <1>1 DEF Phase, Proven
<1>3. CASE ChildSucceeds(j) /\ child[j] = "bbVerify"
  <2>1. Verified' = Verified \cup {j}
    BY <1>3 DEF ChildSucceeds, Verified
  <2>2. pc[j] \in {"wait", "lost"}
    BY <1>3 DEF ChildSucceeds, CallInv, ProcessesOf, Alive, ChildStages
  <2>3. Phase[j] \in {"proving", "lost"}
    BY <2>2 DEF Phase, PhaseAt, Holding, Working
  <2> QED
    BY <1>2, <2>1, <2>3 DEF Promise!Next, Promise!Verify
<1>4. CASE ChildFails(j) /\ child[j] = "bbVerify"
  <2>1. verdict[j] = "none" /\ verdict' = [verdict EXCEPT ![j] = "invalid"]
    BY <1>4 DEF ChildFails, CallInv, ProofOf, Dead, Killed
  <2>2. UNCHANGED Verified
    BY <2>1 DEF Verified
  <2> QED
    BY <1>2, <2>2 DEF Promise!vars
<1>5. CASE UNCHANGED verdict
  BY <1>2, <1>5 DEF Promise!vars, Verified
<1> QED
  BY <1>3, <1>4, <1>5
  DEF Processes, Timer, Disconnect, KernelKills, Deadline, ContextKills,
      CliSpawns, ChildSucceeds, ChildFails, OrphanEnds, CliWrites, CliExits,
      CliFails, cliVars

(* A crash of the server is one of the promise. *)
LEMMA CrashRefines ==
  ASSUME IInv, Crash
  PROVE  Promise!Crash
<1> USE DEF IInv, TypeOK
<1>1. Phase' = [j \in Jobs |-> IF Phase[j] \in {"waiting", "proving", "finished"}
                               THEN "lost" ELSE Phase[j]]
  <2>1. ASSUME NEW j \in Jobs
        PROVE  PhaseAt(pc'[j]) = IF PhaseAt(pc[j]) \in {"waiting", "proving", "finished"}
                                 THEN "lost" ELSE PhaseAt(pc[j])
    <3>1. pc[j] \in Points
      OBVIOUS
    <3>2. pc'[j] = IF pc[j] \in {"idle", "returned", "lost"} THEN pc[j] ELSE "lost"
      BY DEF Crash, Running
    <3> QED
      BY <3>1, <3>2 DEF PhaseAt, Points, Holding, Counting, Working
  <2> QED
    BY <2>1 DEF Phase
<1>2. UNCHANGED Verified
  BY DEF Crash, Verified
<1>3. UNCHANGED Proven
  BY DEF Crash, Proven, Running
<1> QED
  BY <1>1, <1>2, <1>3 DEF Promise!Crash

(* Aggregate implements the bounded prover (service.go:101-238): at most   *)
(* MaxConcurrency calls between acquire and release, and proofs only for   *)
(* calls whose proof was verified before they were answered.               *)
THEOREM Refinement == Spec => KeepsPromise
<1>1. Init => Promise!Init
  <2> SUFFICES ASSUME Init PROVE Promise!Init
    OBVIOUS
  <2>1. Phase = [j \in Jobs |-> "idle"]
    BY DEF Init, Phase, PhaseAt, Holding, Working
  <2>2. Verified = {} /\ Proven = {}
    BY DEF Init, Verified, Proven
  <2> QED
    BY <2>1, <2>2 DEF Promise!Init
<1>2. IInv /\ [Next]_vars => [Promise!Next]_(Promise!vars)
  <2> SUFFICES ASSUME IInv, [Next]_vars PROVE [Promise!Next]_(Promise!vars)
    OBVIOUS
  <2>1. CASE UNCHANGED vars
    BY <2>1 DEF vars, Promise!vars, Phase, Verified, Proven
  <2>2. ASSUME NEW j \in Jobs,
               Goroutine(j) \/ Processes(j) \/ Environment(j) \/ Timer(j)
        PROVE  [Promise!Next]_(Promise!vars)
    BY <2>2, GoroutineRefines, ProcessesRefine DEF Environment
  <2>3. CASE Crash
    BY <2>3, CrashRefines DEF Promise!Next
  <2> QED
    BY <2>1, <2>2, <2>3 DEF Next
<1> QED
  BY <1>1, <1>2, Invariance, PTL DEF Spec, KeepsPromise, Promise!Spec

=============================================================================
