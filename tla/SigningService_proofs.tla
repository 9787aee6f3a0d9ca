----------------------- MODULE SigningService_proofs ------------------------
(***************************************************************************)
(* Proofs about SigningService, for every finite set of requests and every *)
(* number of slots.  Each of its steps is one of the handlers, one of the  *)
(* prover, or both, so what is proved of either holds of the whole; on top *)
(* of that ServiceInv relates the two.                                     *)
(***************************************************************************)
EXTENDS SigningService, PetitionSigning_proofs

-----------------------------------------------------------------------------
(* The whole behaves as its parts.                                         *)

(* A step of the whole is a step of the handlers or leaves them alone. *)
LEMMA StepsHandlers ==
  ASSUME [ServiceNext]_serviceVars
  PROVE  [Next]_vars
<1>1. CASE UNCHANGED serviceVars
  BY <1>1 DEF serviceVars
<1>2. CASE Elsewhere
  BY <1>2 DEF Elsewhere, Next
<1>3. ASSUME NEW r \in Requests, Waits(r) \/ Begins(r) \/ Verifies(r) \/ Finishes(r)
      PROVE  [Next]_vars
  <2>1. Database(r) \/ AggregateFails(r) \/ AggregateSucceeds(r) \/ UNCHANGED vars
    BY <1>3 DEF Waits, AsksDatabase, Enters, TurnedAway, Returns, Begins, Verifies, Finishes
  <2> QED
    BY <2>1 DEF Next, Handler, Aggregate
<1>4. CASE ServerDies
  BY <1>4 DEF ServerDies, Next
<1> QED
  BY <1>1, <1>2, <1>3, <1>4 DEF ServiceNext

(* And a step of the prover, or leaves it alone. *)
LEMMA StepsProver ==
  ASSUME [ServiceNext]_serviceVars
  PROVE  [Prover!Next]_(Prover!vars)
<1> USE DEF proverVars, Prover!vars
<1>1. CASE UNCHANGED serviceVars
  BY <1>1 DEF serviceVars
<1>2. CASE Elsewhere
  BY <1>2 DEF Elsewhere
<1>3. ASSUME NEW r \in Requests, Waits(r) \/ Begins(r) \/ Verifies(r) \/ Finishes(r)
      PROVE  [Prover!Next]_(Prover!vars)
  BY <1>3 DEF Waits, AsksDatabase, Enters, TurnedAway, Returns, Begins, Verifies, Finishes,
       Prover!Next
<1>4. CASE ServerDies
  BY <1>4 DEF ServerDies, Prover!Next
<1> QED
  BY <1>1, <1>2, <1>3, <1>4 DEF ServiceNext

(* The server implements its handlers and the promise of its service       *)
(* (server.go:268): nothing that was shown of either gets lost where they  *)
(* meet.                                                                   *)
THEOREM Composition == ServiceSpec => Spec /\ Prover!Spec
BY StepsHandlers, StepsProver, PTL DEF ServiceSpec, ServiceInit, Spec, Prover!Spec

(* In particular the collections hold what PetitionSigning promises of     *)
(* them, with any number of slots and calls that wait (server.go:188-318). *)
THEOREM ServiceSigns ==
  ServiceSpec => /\ []OneSignatureEach /\ []ErrorsHonest /\ []SignaturesValidated
                 /\ []CountAgrees /\ []OkMeansSigned /\ KeepsLedger
BY Composition, SignsOnce, ErrorsAreHonest, Validates, CountsAgree, OkIsSigned, Refinement, PTL

-----------------------------------------------------------------------------
(* The inductive invariant.                                                *)

LEMMA InitServiceInv == ServiceInit => ServiceInv
<1> SUFFICES ASSUME ServiceInit PROVE ServiceInv
  OBVIOUS
<1>1. IInv
  BY InitIInv DEF ServiceInit
<1>2. ServiceTypeOK
  BY DEF ServiceInit, Prover!Init, ServiceTypeOK, Phases
<1>3. proven \subseteq verified
  BY DEF ServiceInit, Prover!Init
<1>4. ASSUME NEW r \in Requests
      PROVE  CallOf(r)
  BY DEF ServiceInit, Init, Prover!Init, CallOf, Unchecked, StoredBy
<1> QED
  BY <1>1, <1>2, <1>3, <1>4 DEF ServiceInv

(* What was validated stays so: a request is fixed, petitions are created  *)
(* once and their requirements never change.                               *)
LEMMA StaysValidated ==
  ASSUME IInv, [Next]_vars, NEW r \in Requests, Validated(r),
         req[r].petition \in created \cup {"unknown", "none"}
  PROVE  (Validated(r) /\ req[r].petition \in created \cup {"unknown", "none"})'
<1> USE DEF IInv, TypeOK
<1>1. req' = req /\ created \subseteq created' /\ failed \subseteq failed'
  BY DEF Next, vars, CreatePetition, Receive, RefuseBody, Handler, Database, Lookup, Check,
     Aggregate, AggregateFails, AggregateSucceeds, InsertStores, InsertRefused, InsertFails,
     Increment, IncrementFails, Disconnect, Crash, dbVars, Fail
<1>2. \A p \in created : required'[p] = required[p]
  BY DEF Next, vars, CreatePetition, Receive, RefuseBody, Handler, Database, Lookup, Check,
     Aggregate, AggregateFails, AggregateSucceeds, InsertStores, InsertRefused, InsertFails,
     Increment, IncrementFails, Disconnect, Crash, dbVars
<1>3. created' \subseteq Petitions
  BY NextIInv
<1> QED
  BY <1>1, <1>2, <1>3, IdsDistinct DEF Validated

(* What the steps that leave the prover alone do to a handler: none takes  *)
(* it to Aggregate's far side or away from its near side, and only a       *)
(* handler that is past Aggregate stores or answers 200.                   *)
LEMMA ElsewhereKeeps ==
  ASSUME IInv, Elsewhere \/ \E r \in Requests : AsksDatabase(r), NEW i \in Requests
  PROVE  /\ pc[i] = "aggregate" => pc'[i] = "aggregate"
         /\ pc[i] = "lost" => pc'[i] = "lost"
         /\ pc[i] \in {"insert", "increment", "answered"} =>
              pc'[i] \in {"insert", "increment", "answered"}
         /\ pc'[i] \in {"idle", "lookup", "check"} => pc[i] \in {"idle", "lookup", "check"}
         /\ pc'[i] \in {"insert", "increment"} => pc[i] \in {"insert", "increment"}
         /\ StoredBy(i)' => StoredBy(i) \/ pc[i] = "insert"
         /\ status'[i] = "ok" => status[i] = "ok" \/ pc[i] \in {"insert", "increment"}
<1> USE DEF IInv, TypeOK, StoredBy, Signature
<1>1. ASSUME NEW p \in Petitions, CreatePetition(p)
      PROVE  UNCHANGED <<pc, status, docs>>
  BY <1>1 DEF CreatePetition
<1>2. ASSUME NEW r \in Requests, Receive(r)
      PROVE  Step(r, "idle", "aggregate") \/ Step(r, "idle", "lookup")
  BY <1>2 DEF Receive
<1>3. ASSUME NEW r \in Requests, Receive(r) \/ Disconnect(r)
      PROVE  UNCHANGED <<status, docs>>
  BY <1>3 DEF Receive, Disconnect, dbVars
<1>4. ASSUME NEW r \in Requests, RefuseBody(r)
      PROVE  Reply(r, "idle", "badRequest") /\ UNCHANGED docs
  BY <1>4 DEF RefuseBody, dbVars
<1>5. CASE Elsewhere
  BY <1>1, <1>2, <1>3, <1>4, <1>5 DEF Elsewhere, Reply, Step, Disconnect
<1>6. ASSUME NEW r \in Requests, Lookup(r)
      PROVE  /\ UNCHANGED docs
             /\ \/ Reply(r, "lookup", "badRequest")
                \/ Step(r, "lookup", AfterLookup(r)) /\ UNCHANGED status
  BY <1>6 DEF Lookup, dbVars
<1>7. ASSUME NEW r \in Requests, Check(r)
      PROVE  /\ UNCHANGED docs
             /\ \/ Reply(r, "check", "conflict")
                \/ Step(r, "check", "aggregate") /\ UNCHANGED status
  BY <1>7, CheckSteps
<1>8. ASSUME NEW r \in Requests,
             \/ InsertStores(r) \/ InsertRefused(r) \/ InsertFails(r)
             \/ Increment(r) \/ IncrementFails(r)
      PROVE  /\ \/ UNCHANGED docs
                \/ pc[r] = "insert" /\ docs' = docs \cup {Signature(r)}
             /\ \/ Reply(r, "insert", "ok") \/ Reply(r, "increment", "ok")
                \/ Step(r, "insert", "increment") /\ UNCHANGED status
  BY <1>8 DEF InsertStores, InsertRefused, InsertFails, Increment, IncrementFails, Reply, Step,
     dbVars
<1>9. ASSUME NEW r \in Requests, AsksDatabase(r)
      PROVE  \/ Lookup(r) \/ Check(r)
             \/ \/ InsertStores(r) \/ InsertRefused(r) \/ InsertFails(r)
                \/ Increment(r) \/ IncrementFails(r)
  BY <1>9 DEF AsksDatabase, Database
<1>10. ASSUME NEW r \in Requests, Lookup(r)
       PROVE  /\ UNCHANGED docs
              /\ \/ Reply(r, "lookup", "badRequest")
                 \/ Step(r, "lookup", "aggregate") /\ UNCHANGED status
                 \/ Step(r, "lookup", "check") /\ UNCHANGED status
  BY <1>6, <1>10 DEF AfterLookup
<1> QED
  BY <1>5, <1>7, <1>8, <1>9, <1>10 DEF Reply, Step

(* Steps that leave the prover alone keep what relates it to the handlers. *)
LEMMA ElsewhereInv ==
  ASSUME ServiceInv, [Next]_vars, Elsewhere \/ \E r \in Requests : AsksDatabase(r)
  PROVE  ServiceTypeOK' /\ \A i \in Requests : CallOf(i)'
<1>1. UNCHANGED <<phase, verified, proven>>
  BY DEF Elsewhere, AsksDatabase, proverVars
<1>2. ServiceTypeOK'
  BY <1>1, ElsewhereKeeps DEF ServiceInv, ServiceTypeOK
<1>3. ASSUME NEW i \in Requests
      PROVE  CallOf(i)'
  <2>1. CallOf(i)
    BY DEF ServiceInv
  <2>2. phase'[i] # "idle" =>
          (Validated(i) /\ req[i].petition \in created \cup {"unknown", "none"})'
    BY <1>1, <2>1, StaysValidated DEF ServiceInv, CallOf, Unchecked
  <2> QED
    BY <1>1, <2>1, <2>2, ElsewhereKeeps DEF ServiceInv, CallOf, Unchecked
<1> QED
  BY <1>2, <1>3

(* So do the steps of a call of Aggregate: its result alone decides where  *)
(* the handler goes on.                                                    *)
LEMMA CallKeeps ==
  ASSUME ServiceInv, [Next]_vars, NEW r \in Requests,
         Enters(r) \/ TurnedAway(r) \/ Begins(r) \/ Verifies(r) \/ Finishes(r) \/ Returns(r)
  PROVE  /\ ServiceTypeOK' /\ (proven \subseteq verified)'
         /\ \A i \in Requests : CallOf(i)'
<1>1. /\ pc \in [Requests -> Points] /\ status \in [Requests -> Statuses]
      /\ \A i \in Requests : status[i] = "none" <=> pc[i] # "answered"
      /\ ServiceTypeOK /\ proven \subseteq verified
      /\ \A i \in Requests : CallOf(i) /\ HandlerOf(i)
  BY DEF ServiceInv, IInv, TypeOK, HandlersInv
<1>2. pc[r] = "aggregate" => Validated(r) /\ req[r].petition \in created \cup {"unknown", "none"}
  BY <1>1 DEF HandlerOf, Active
<1>3. ASSUME NEW i \in Requests, phase[i] # "idle" \/ (pc[i] = "aggregate" /\ i = r)
      PROVE  (Validated(i) /\ req[i].petition \in created \cup {"unknown", "none"})'
  <2>1. Validated(i) /\ req[i].petition \in created \cup {"unknown", "none"}
    BY <1>1, <1>2, <1>3 DEF CallOf, Unchecked
  <2> QED
    BY <2>1, StaysValidated DEF ServiceInv
<1>4. CASE Enters(r) \/ Begins(r) \/ Finishes(r)
  <2>1. /\ pc[r] = "aggregate" /\ UNCHANGED <<vars, verified, proven>>
        /\ \E new \in {"waiting", "proving", "finished"} : phase' = [phase EXCEPT ![r] = new]
    BY <1>1, <1>4 DEF Enters, Begins, Finishes, Prover!Enter, Prover!Begin, Prover!Finish,
         ServiceTypeOK
  <2>2. UNCHANGED <<pc, status, docs>>
    BY <2>1 DEF vars
  <2>3. ServiceTypeOK'
    BY <1>1, <2>1, <2>2 DEF ServiceTypeOK, Phases
  <2>4. ASSUME NEW i \in Requests
        PROVE  CallOf(i)'
    <3>1. phase'[i] # "idle" => phase[i] # "idle" \/ (pc[i] = "aggregate" /\ i = r)
      BY <1>1, <2>1 DEF ServiceTypeOK
    <3>2. pc[i] \in {"idle", "lookup", "check"} => i # r
      BY <1>1, <2>1
    <3>3. i # r => phase'[i] = phase[i]
      BY <1>1, <2>1 DEF ServiceTypeOK
    <3> QED
      BY <1>1, <1>3, <2>1, <2>2, <3>1, <3>2, <3>3 DEF CallOf, Unchecked, StoredBy
  <2> QED
    BY <1>1, <2>1, <2>3, <2>4
<1>5. CASE Verifies(r)
  <2>1. UNCHANGED <<pc, status, docs, phase, proven>> /\ verified' = verified \cup {r}
    BY <1>5 DEF Verifies, Prover!Verify, vars
  <2>2. ASSUME NEW i \in Requests
        PROVE  CallOf(i)'
    BY <1>1, <1>3, <2>1 DEF CallOf, Unchecked, StoredBy
  <2> QED
    BY <1>1, <2>1, <2>2 DEF ServiceTypeOK
<1>6. CASE TurnedAway(r) \/ Returns(r)
  <2>1. /\ pc[r] = "aggregate" /\ UNCHANGED <<docs, verified>>
        /\ phase' = [phase EXCEPT ![r] = "answered"]
        /\ proven \subseteq proven' /\ proven' \subseteq proven \cup {r}
        /\ proven' \subseteq verified
        /\ \/ Reply(r, "aggregate", "badRequest")
           \/ r \in proven' /\ Reply(r, "aggregate", "ok")
           \/ r \in proven' /\ Step(r, "aggregate", "insert") /\ UNCHANGED status
    BY <1>1, <1>6 DEF TurnedAway, Returns, Prover!TurnAway, Prover!Answer, AggregateFails,
         AggregateSucceeds, Reply, Step, dbVars
  <2>2. /\ \A i \in Requests \ {r} :
            pc'[i] = pc[i] /\ status'[i] = status[i] /\ phase'[i] = phase[i]
        /\ pc'[r] \in {"answered", "insert"} /\ phase'[r] = "answered"
        /\ status'[r] \in {"badRequest", "ok", "none"}
        /\ pc'[r] = "insert" \/ status'[r] = "ok" => r \in proven'
    BY <1>1, <2>1 DEF Reply, Step, ServiceTypeOK
  <2>3. ServiceTypeOK'
    BY <1>1, <2>1, <2>2 DEF ServiceTypeOK, Phases
  <2>4. ~StoredBy(r)
    BY <2>1 DEF ServiceInv, IInv, HandlersInv, DocOf, StoredBy
  <2>5. ASSUME NEW i \in Requests
        PROVE  CallOf(i)'
    <3>1. StoredBy(i)' <=> StoredBy(i)
      BY <2>1 DEF StoredBy
    <3>2. CASE i = r
      BY <1>3, <2>1, <2>2, <2>4, <3>1, <3>2 DEF CallOf, Unchecked
    <3>3. CASE i # r
      BY <1>1, <1>3, <2>1, <2>2, <3>1, <3>3 DEF CallOf, Unchecked
    <3> QED
      BY <3>2, <3>3
  <2> QED
    BY <2>1, <2>3, <2>5
<1> QED
  BY <1>4, <1>5, <1>6

(* A crash loses the calls that were under way with their handlers. *)
LEMMA DeathKeeps ==
  ASSUME ServiceInv, [Next]_vars, ServerDies
  PROVE  ServiceTypeOK' /\ \A i \in Requests : CallOf(i)'
<1>1. /\ UNCHANGED <<status, docs, verified, proven>>
      /\ pc' = [r \in Requests |-> IF pc[r] \in Active THEN "lost" ELSE pc[r]]
      /\ phase' = [r \in Requests |-> IF phase[r] \in {"waiting", "proving", "finished"}
                                      THEN "lost" ELSE phase[r]]
  BY DEF ServerDies, Crash, Prover!Crash, dbVars
<1>2. ServiceTypeOK'
  BY <1>1 DEF ServiceInv, ServiceTypeOK, Phases, Active
<1>3. ASSUME NEW i \in Requests
      PROVE  CallOf(i)'
  <2>1. CallOf(i)
    BY DEF ServiceInv
  <2>2. phase'[i] # "idle" => phase[i] # "idle"
    BY <1>1 DEF ServiceInv, ServiceTypeOK
  <2>3. phase'[i] # "idle" =>
          (Validated(i) /\ req[i].petition \in created \cup {"unknown", "none"})'
    BY <2>1, <2>2, StaysValidated DEF ServiceInv, CallOf, Unchecked
  <2>4. pc[i] = "idle" => phase[i] = "idle"
    BY <2>1 DEF CallOf, Unchecked
  <2>5. StoredBy(i)' <=> StoredBy(i)
    BY <1>1 DEF StoredBy
  <2>6. pc'[i] \in {"idle", "lookup", "check"} => pc[i] = "idle"
    BY <1>1 DEF Active
  <2>7. pc'[i] \notin {"insert", "increment"}
    BY <1>1 DEF Active
  <2> QED
    BY <1>1, <2>1, <2>3, <2>4, <2>5, <2>6, <2>7 DEF CallOf, Unchecked
<1> QED
  BY <1>2, <1>3

(* ServiceInv is inductive. *)
LEMMA NextServiceInv == ServiceInv /\ [ServiceNext]_serviceVars => ServiceInv'
<1> SUFFICES ASSUME ServiceInv, [ServiceNext]_serviceVars PROVE ServiceInv'
  OBVIOUS
<1>1. [Next]_vars
  BY StepsHandlers
<1>2. IInv'
  BY <1>1, NextIInv DEF ServiceInv
<1>3. CASE UNCHANGED serviceVars
  BY <1>2, <1>3 DEF serviceVars, proverVars, vars, ServiceInv, ServiceTypeOK, CallOf, Unchecked,
     StoredBy, Validated
<1>4. CASE Elsewhere \/ \E r \in Requests : AsksDatabase(r)
  <2>1. (proven \subseteq verified)'
    BY <1>4 DEF ServiceInv, Elsewhere, AsksDatabase, proverVars
  <2> QED
    BY <1>1, <1>2, <1>4, <2>1, ElsewhereInv DEF ServiceInv
<1>5. ASSUME NEW r \in Requests,
             \/ Enters(r) \/ TurnedAway(r) \/ Begins(r) \/ Verifies(r) \/ Finishes(r)
             \/ Returns(r)
      PROVE  ServiceInv'
  BY <1>1, <1>2, <1>5, CallKeeps DEF ServiceInv
<1>6. CASE ServerDies
  <2>1. (proven \subseteq verified)'
    BY <1>6 DEF ServiceInv, ServerDies, Prover!Crash
  <2> QED
    BY <1>1, <1>2, <1>6, <2>1, DeathKeeps DEF ServiceInv
<1> QED
  BY <1>3, <1>4, <1>5, <1>6 DEF ServiceNext, Waits

(* ServiceInv holds in every reachable state. *)
THEOREM ServiceInvariance == ServiceSpec => []ServiceInv
BY InitServiceInv, NextServiceInv, PTL DEF ServiceSpec

-----------------------------------------------------------------------------
(* The properties.                                                         *)

(* The phase of a call and the point of its handler go together: a slot is *)
(* waited for and held inside of Aggregate only (server.go:268).           *)
THEOREM ServiceTypes == ServiceSpec => []ServiceTypeOK
BY ServiceInvariance, PTL DEF ServiceInv

(* Every signature and every 200 rests on an accepted proof of that very   *)
(* request (server.go:268-318, service.go:226).                            *)
THEOREM SignaturesVerified == ServiceSpec => []SignedOnVerified
<1>1. ServiceInv => SignedOnVerified
  BY DEF ServiceInv, CallOf, SignedOnVerified
<1> QED
  BY <1>1, ServiceInvariance, PTL

(* A repetition that is not checked yet, and what becomes of it: it is     *)
(* answered or lost outside of the service, unless its check fails.        *)
Kept(r) ==
  \/ Unchecked(r) /\ Repeated(r)
  \/ pc[r] \in {"answered", "lost"} /\ phase[r] = "idle"
  \/ <<r, "check">> \in failed

(* Nothing makes a repetition another one: signatures stay, a request is   *)
(* fixed, and a failed check is remembered.                                *)
LEMMA StaysRepeated ==
  ASSUME IInv, [Next]_vars, NEW r \in Requests
  PROVE  /\ Repeated(r) => Repeated(r)'
         /\ <<r, "check">> \in failed => <<r, "check">> \in failed'
<1>1. req' = req /\ docs \subseteq docs' /\ failed \subseteq failed'
  BY DEF Next, vars, CreatePetition, Receive, RefuseBody, Handler, Database, Lookup, Check,
     Aggregate, AggregateFails, AggregateSucceeds, InsertStores, InsertRefused, InsertFails,
     Increment, IncrementFails, Disconnect, Crash, dbVars, Fail
<1> QED
  BY <1>1 DEF Repeated, Indexed, SameKey

(* A step of the handler of r that is not to be checked again. *)
LEMMA KeptByHandlers ==
  ASSUME ServiceInv, Elsewhere \/ (\E i \in Requests : AsksDatabase(i)), [Next]_vars,
         NEW r \in Requests, Kept(r)
  PROVE  Kept(r)'
<1> USE DEF ServiceInv, IInv, TypeOK
<1>1. phase' = phase
  BY DEF Elsewhere, AsksDatabase, proverVars
<1>2. CASE <<r, "check">> \in failed
  BY <1>2, StaysRepeated DEF Kept
<1>3. CASE pc[r] \in {"answered", "lost"} /\ phase[r] = "idle"
  <2>1. pc'[r] = pc[r]
    <3>1. ASSUME NEW i \in Requests, AsksDatabase(i)
          PROVE  pc[i] \in {"lookup", "check", "insert", "increment"}
                   /\ \E to \in Points : pc' = [pc EXCEPT ![i] = to]
      <4>1. \/ Lookup(i) \/ InsertStores(i) \/ InsertRefused(i) \/ InsertFails(i)
            \/ Increment(i) \/ IncrementFails(i) \/ Check(i)
        BY <3>1 DEF AsksDatabase, Database
      <4>2. AfterLookup(i) \in Points /\ {"answered", "aggregate", "increment"} \subseteq Points
        BY DEF AfterLookup, Points
      <4> QED
        BY <4>1, <4>2, CheckSteps
        DEF Lookup, InsertStores, InsertRefused, InsertFails, Increment, IncrementFails,
            Reply, Step
    <3>2. CASE Elsewhere
      BY <1>3, <3>2
      DEF Elsewhere, CreatePetition, Receive, RefuseBody, Disconnect, Reply, Step
    <3> QED
      BY <1>3, <3>1, <3>2
  <2> QED
    BY <1>1, <1>3, <2>1 DEF Kept
<1>4. CASE Unchecked(r) /\ Repeated(r)
  <2>1. phase[r] = "idle" /\ Repeated(r)'
    BY <1>4, StaysRepeated DEF CallOf
  <2>2. req[r].claim = "canonical" /\ req[r].petition # "none"
    BY <1>4, IdsDistinct DEF Repeated, Indexed, SameKey
  <2>3. \/ pc'[r] \in {"idle", "lookup", "check", "answered"}
        \/ <<r, "check">> \in failed'
    <3>1. ASSUME NEW i \in Requests, AsksDatabase(i)
          PROVE  i # r => pc'[r] = pc[r]
      BY <3>1, CheckSteps
      DEF AsksDatabase, Database, Lookup, InsertStores, InsertRefused, InsertFails, Increment,
          IncrementFails, Reply, Step
    <3>2. CASE AsksDatabase(r)
      <4>1. Lookup(r) \/ Check(r)
        BY <1>4, <3>2 DEF AsksDatabase, Database, InsertStores, InsertRefused, InsertFails,
           Increment, IncrementFails, Reply, Step, Unchecked
      <4>2. CASE Lookup(r)
        BY <2>2, <4>2 DEF Lookup, AfterLookup, Reply, Step
      <4>3. CASE Check(r)
        BY <1>4, <4>3 DEF Check, Reply, Step, Fail
      <4> QED
        BY <4>1, <4>2, <4>3
    <3>3. CASE Elsewhere
      BY <1>4, <2>2, <3>3
      DEF Elsewhere, CreatePetition, Receive, RefuseBody, Disconnect, Reply, Step, Unchecked
    <3> QED
      BY <1>4, <3>1, <3>2, <3>3 DEF Unchecked
  <2> QED
    BY <1>1, <2>1, <2>3 DEF Kept, Unchecked
<1> QED
  BY <1>2, <1>3, <1>4 DEF Kept

(* Kept is stable: a call of Aggregate begins where Kept cannot be, and a  *)
(* crash loses the handler outside of the service.                         *)
LEMMA KeptStays ==
  ASSUME ServiceInv, [ServiceNext]_serviceVars, NEW r \in Requests, Kept(r)
  PROVE  Kept(r)'
<1>0. [Next]_vars
  BY StepsHandlers
<1>1. CASE <<r, "check">> \in failed
  BY <1>0, <1>1, StaysRepeated DEF ServiceInv, Kept
<1>2. CASE UNCHANGED serviceVars
  BY <1>2 DEF serviceVars, proverVars, vars, Kept, Unchecked, Repeated, Indexed, SameKey
<1>3. CASE Elsewhere \/ \E i \in Requests : AsksDatabase(i)
  BY <1>0, <1>3, KeptByHandlers
<1>4. ASSUME NEW i \in Requests, <<r, "check">> \notin failed,
             \/ Enters(i) \/ TurnedAway(i) \/ Begins(i) \/ Verifies(i) \/ Finishes(i)
             \/ Returns(i)
      PROVE  Kept(r)'
  <2>1. phase[r] = "idle" /\ pc[r] # "aggregate"
    BY <1>4 DEF Kept, ServiceInv, CallOf, Unchecked
  <2>2. \/ phase' = phase /\ UNCHANGED pc
        \/ /\ pc[i] = "aggregate"
           /\ \E new \in Phases : phase' = [phase EXCEPT ![i] = new]
           /\ UNCHANGED pc \/ \E to \in Points : pc' = [pc EXCEPT ![i] = to]
    BY <1>4 DEF Enters, TurnedAway, Begins, Verifies, Finishes, Returns, Prover!Enter,
       Prover!TurnAway, Prover!Begin, Prover!Verify, Prover!Finish, Prover!Answer, vars,
       ServiceInv, ServiceTypeOK, Phases, Points, AggregateFails, AggregateSucceeds, Reply, Step
  <2>3. phase'[r] = phase[r] /\ pc'[r] = pc[r]
    BY <2>1, <2>2 DEF ServiceInv, ServiceTypeOK, IInv, TypeOK
  <2> QED
    BY <1>0, <1>4, <2>1, <2>3, StaysRepeated DEF ServiceInv, Kept, Unchecked
<1>5. CASE ServerDies /\ <<r, "check">> \notin failed
  <2>1. phase[r] = "idle"
    BY <1>5 DEF Kept, ServiceInv, CallOf, Unchecked
  <2>2. phase'[r] = "idle"
    BY <1>5, <2>1 DEF ServerDies, Prover!Crash, ServiceInv, ServiceTypeOK
  <2>3. pc'[r] = pc[r] \/ pc'[r] = "lost"
    BY <1>5 DEF ServerDies, Crash
  <2> QED
    BY <1>0, <1>5, <2>2, <2>3, StaysRepeated DEF ServiceInv, Kept, Unchecked
<1> QED
  BY <1>1, <1>2, <1>3, <1>4, <1>5 DEF ServiceNext, Waits

(* What the handler can refuse costs no proof (server.go:234-263): a       *)
(* repetition found by no check never enters, nor does a request that      *)
(* lacks a required field.                                                 *)
THEOREM RefusalsUnproved == ServiceSpec => RefusedUnproved
<1>1. ASSUME NEW r \in Requests
      PROVE  ServiceSpec =>
               [](Unchecked(r) /\ Repeated(r)
                    => [](phase[r] = "idle" \/ <<r, "check">> \in failed))
  <2>1. ServiceInv /\ Kept(r) /\ [ServiceNext]_serviceVars => Kept(r)'
    BY KeptStays
  <2>2. Unchecked(r) /\ Repeated(r) => Kept(r)
    BY DEF Kept
  <2>3. ServiceInv /\ Kept(r) => phase[r] = "idle" \/ <<r, "check">> \in failed
    BY DEF Kept, ServiceInv, CallOf
  <2> QED
    BY <2>1, <2>2, <2>3, ServiceInvariance, PTL DEF ServiceSpec
<1>2. ASSUME NEW r \in Requests
      PROVE  ServiceSpec => [](phase[r] # "idle" => Validated(r))
  <2>1. ServiceInv => (phase[r] # "idle" => Validated(r))
    BY DEF ServiceInv, CallOf
  <2> QED
    BY <2>1, ServiceInvariance, PTL
<1> QED
  BY <1>1, <1>2 DEF RefusedUnproved

=============================================================================
