----------------------- MODULE PetitionSigning_proofs ------------------------
(***************************************************************************)
(* Proofs about PetitionSigning, for every finite set of requests, every   *)
(* set of petitions, nullifiers and fields, and every number of crashes.   *)
(* The inductive invariant IInv joins the types, the unique index, what is *)
(* known of a stored document and of a handler at each of its points, and  *)
(* the bounds between the count and the documents.                         *)
(***************************************************************************)
EXTENDS PetitionSigning, FiniteSetTheorems, TLAPS

(* The steps of one request. *)
RequestStep(r) == Receive(r) \/ RefuseBody(r) \/ Handler(r) \/ Disconnect(r)

-----------------------------------------------------------------------------
(* Types.                                                                  *)

(* The initial values have their types. *)
LEMMA InitTypes == Init => TypeOK
BY MaxCrashesNat DEF Init, TypeOK, Points, Statuses

(* What a step between two calls, and one that answers, do to the types.   *)
LEMMA StepTypes ==
  ASSUME NEW r \in Requests, NEW from \in Active, NEW to \in Points \ {"answered"},
         TypeOK, Step(r, from, to), status' = status
  PROVE  /\ pc' \in [Requests -> Points] /\ status' \in [Requests -> Statuses]
         /\ \A x \in Requests : status'[x] = "none" <=> pc'[x] # "answered"
<1>1. /\ pc \in [Requests -> Points] /\ status \in [Requests -> Statuses]
      /\ \A x \in Requests : status[x] = "none" <=> pc[x] # "answered"
  BY DEF TypeOK
<1>2. pc[r] = from /\ pc' = [pc EXCEPT ![r] = to] /\ from # "answered"
  BY DEF Step, Active
<1> QED
  BY ONLY <1>1, <1>2, status' = status, to \in Points \ {"answered"}

LEMMA ReplyTypes ==
  ASSUME NEW r \in Requests, NEW from, NEW s \in Statuses \ {"none"},
         TypeOK, Reply(r, from, s)
  PROVE  /\ pc' \in [Requests -> Points] /\ status' \in [Requests -> Statuses]
         /\ \A x \in Requests : status'[x] = "none" <=> pc'[x] # "answered"
<1>1. /\ pc \in [Requests -> Points] /\ status \in [Requests -> Statuses]
      /\ \A x \in Requests : status[x] = "none" <=> pc[x] # "answered"
      /\ "answered" \in Points
  BY DEF TypeOK, Points
<1>2. pc' = [pc EXCEPT ![r] = "answered"] /\ status' = [status EXCEPT ![r] = s]
  BY DEF Reply, Step
<1> QED
  BY ONLY <1>1, <1>2, s \in Statuses \ {"none"}

(* The check finds a repetition and ends the handler, or lets it go on.    *)
LEMMA CheckSteps ==
  ASSUME NEW r \in Requests, Check(r)
  PROVE  /\ \/ Indexed(r) /\ Reply(r, "check", "conflict") /\ failed' = failed
            \/ /\ Step(r, "check", "aggregate") /\ status' = status
               /\ failed' = failed \/ failed' = failed \cup {<<r, "check">>}
         /\ UNCHANGED <<req, gone, created, required, count, docs, crashes>>
BY DEF Check, Repeated, Fail, dbVars

(* The types survive a step of a request: a status is set only by a step    *)
(* that ends the handler.                                                  *)
LEMMA RequestTypes ==
  ASSUME NEW r \in Requests, TypeOK, RequestStep(r), HandlerOf(r)
  PROVE  TypeOK'
<1> USE DEF TypeOK, Points, Active, Statuses, Calls, HandlerOf, RequestData
<1>1. CASE Receive(r)
  BY <1>1 DEF Receive, Step, dbVars
<1>2. CASE RefuseBody(r)
  BY <1>2 DEF RefuseBody, Reply, Step, dbVars
<1>3. CASE Lookup(r)
  <2>1. \/ Reply(r, "lookup", "badRequest")
        \/ Step(r, "lookup", AfterLookup(r)) /\ status' = status
    BY ONLY <1>3 DEF Lookup
  <2>2. /\ failed' = failed \/ failed' = failed \cup {<<r, "lookup">>}
        /\ UNCHANGED <<req, gone, created, required, count, docs, crashes>>
    BY ONLY <1>3 DEF Lookup, Fail, dbVars
  <2>3. AfterLookup(r) \in Points \ {"answered"}
    BY DEF AfterLookup
  <2>4. /\ pc' \in [Requests -> Points] /\ status' \in [Requests -> Statuses]
        /\ \A x \in Requests : status'[x] = "none" <=> pc'[x] # "answered"
    BY <2>1, <2>3, StepTypes, ReplyTypes
  <2>5. failed' \subseteq Requests \X Calls
    BY <2>2
  <2> QED
    BY <2>2, <2>4, <2>5
<1>4. CASE Check(r)
  <2>1. \/ Reply(r, "check", "conflict")
        \/ Step(r, "check", "aggregate") /\ status' = status
    BY ONLY <1>4, CheckSteps
  <2>2. /\ failed' = failed \/ failed' = failed \cup {<<r, "check">>}
        /\ UNCHANGED <<req, gone, created, required, count, docs, crashes>>
    BY ONLY <1>4, CheckSteps
  <2>3. /\ pc' \in [Requests -> Points] /\ status' \in [Requests -> Statuses]
        /\ \A x \in Requests : status'[x] = "none" <=> pc'[x] # "answered"
    BY <2>1, StepTypes, ReplyTypes
  <2>4. failed' \subseteq Requests \X Calls
    BY <2>2
  <2> QED
    BY <2>2, <2>3, <2>4
<1>5. CASE Aggregate(r)
  <2>1. \/ Reply(r, "aggregate", "badRequest") \/ Reply(r, "aggregate", "ok")
        \/ Step(r, "aggregate", "insert") /\ status' = status
    BY ONLY <1>5 DEF Aggregate, AggregateFails, AggregateSucceeds
  <2>2. UNCHANGED <<req, gone, created, required, count, docs, failed, crashes>>
    BY ONLY <1>5 DEF Aggregate, AggregateFails, AggregateSucceeds, dbVars
  <2>3. /\ pc' \in [Requests -> Points] /\ status' \in [Requests -> Statuses]
        /\ \A x \in Requests : status'[x] = "none" <=> pc'[x] # "answered"
    BY <2>1, StepTypes, ReplyTypes
  <2> QED
    BY <2>2, <2>3
<1>6. CASE InsertStores(r)
  BY <1>6 DEF InsertStores, Step, Indexed, Signature
<1>7. CASE InsertRefused(r)
  BY <1>7 DEF InsertRefused, Reply, Step, dbVars
<1>8. CASE InsertFails(r)
  BY <1>8 DEF InsertFails, Reply, Step, Fail, Indexed, Signature
<1>9. CASE Increment(r)
  BY <1>9 DEF Increment, CountUp, Reply, Step
<1>10. CASE IncrementFails(r)
  BY <1>10 DEF IncrementFails, CountUp, Reply, Step, Fail
<1>11. CASE Disconnect(r)
  BY <1>11 DEF Disconnect, dbVars
<1> QED
  BY <1>1, <1>2, <1>3, <1>4, <1>5, <1>6, <1>7, <1>8, <1>9, <1>10, <1>11 DEF RequestStep, Handler, Database

(* The unique index keeps the documents apart. *)
LEMMA RequestUnique ==
  ASSUME NEW r \in Requests, RequestStep(r), TypeOK, OneSignatureEach
  PROVE  OneSignatureEach'
<1>1. \/ docs' = docs
      \/ ~Indexed(r) /\ docs' = docs \cup {Signature(r)}
  BY DEF RequestStep, Handler, Database, Receive, RefuseBody, Lookup, Check, Aggregate,
     AggregateFails, AggregateSucceeds, InsertStores,
     InsertRefused, InsertFails, Increment, IncrementFails, Disconnect, dbVars
<1>2. CASE docs' = docs
  BY <1>2 DEF OneSignatureEach
<1>3. CASE ~Indexed(r) /\ docs' = docs \cup {Signature(r)}
  BY <1>3 DEF OneSignatureEach, Indexed, SameKey, Signature
<1> QED
  BY <1>1, <1>2, <1>3

-----------------------------------------------------------------------------
(* Documents and handlers.                                                 *)

(* What is known of the stored documents survives a step of a request. *)
LEMMA RequestDocs ==
  ASSUME NEW r \in Requests, RequestStep(r), TypeOK, HandlersInv
  PROVE  \A d \in docs' : DocOf(d)'
<1> SUFFICES ASSUME NEW d \in docs'
             PROVE  DocOf(d)'
  OBVIOUS
<1>0. HandlerOf(r) /\ (d \in docs => DocOf(d))
  BY DEF HandlersInv
<1> USE DEF DocOf, HandlerOf, Validated, TypeOK, Active, Signature, SameKey
<1>1. CASE Receive(r)
  BY SMTT(20), <1>0, <1>1 DEF Receive, Step, dbVars
<1>2. CASE RefuseBody(r)
  BY SMTT(20), <1>0, <1>2 DEF RefuseBody, Reply, Step, dbVars
<1>3. CASE Lookup(r)
  BY SMTT(20), <1>0, <1>3 DEF Lookup, MissingFields, AfterLookup, Reply, Step, Fail, dbVars
<1>4. CASE Check(r)
  BY SMTT(20), <1>0, <1>4, CheckSteps DEF Reply, Step
<1>5. CASE Aggregate(r)
  BY SMTT(20), <1>0, <1>5 DEF Aggregate, AggregateFails, AggregateSucceeds, Reply, Step, dbVars
<1>6. CASE InsertStores(r)
  BY SMTT(20), <1>0, <1>6 DEF InsertStores, Step, Indexed, Signature
<1>7. CASE InsertRefused(r)
  BY SMTT(20), <1>0, <1>7 DEF InsertRefused, Reply, Step, dbVars
<1>8. CASE InsertFails(r)
  BY SMTT(20), <1>0, <1>8 DEF InsertFails, Reply, Step, Fail, Indexed, Signature
<1>9. CASE Increment(r)
  BY SMTT(20), <1>0, <1>9 DEF Increment, CountUp, Reply, Step
<1>10. CASE IncrementFails(r)
  BY SMTT(20), <1>0, <1>10 DEF IncrementFails, CountUp, Reply, Step, Fail
<1>11. CASE Disconnect(r)
  BY SMTT(20), <1>0, <1>11 DEF Disconnect, dbVars
<1> QED
  BY <1>1, <1>2, <1>3, <1>4, <1>5, <1>6, <1>7, <1>8, <1>9, <1>10, <1>11 DEF RequestStep, Handler, Database

(* What is known of the handlers survives a step of a request. *)
LEMMA RequestHandlers ==
  ASSUME NEW r \in Requests, RequestStep(r), TypeOK, HandlersInv
  PROVE  \A i \in Requests : HandlerOf(i)'
<1> SUFFICES ASSUME NEW i \in Requests
             PROVE  HandlerOf(i)'
  OBVIOUS
<1>0. HandlerOf(r) /\ HandlerOf(i) /\ \A d \in docs : DocOf(d)
  BY DEF HandlersInv
<1> USE DEF DocOf, HandlerOf, Validated, TypeOK, Active, Indexed, Signature,
           SameKey
<1>1. CASE Receive(r)
  BY SMTT(20), <1>0, <1>1, IdsDistinct DEF Receive, Step, dbVars
<1>2. CASE RefuseBody(r)
  BY SMTT(20), <1>0, <1>2 DEF RefuseBody, Reply, Step, dbVars
<1>3. CASE Lookup(r)
  BY SMTT(20), <1>0, <1>3 DEF Lookup, MissingFields, AfterLookup, Reply, Step, Fail, dbVars
<1>4. CASE Check(r)
  BY SMTT(20), <1>0, <1>4, CheckSteps DEF Reply, Step
<1>5. CASE Aggregate(r)
  BY SMTT(20), <1>0, <1>5 DEF Aggregate, AggregateFails, AggregateSucceeds, Reply, Step, dbVars
<1>6. CASE InsertStores(r)
  BY SMTT(20), <1>0, <1>6 DEF InsertStores, Step, Indexed, Signature
<1>7. CASE InsertRefused(r)
  BY SMTT(20), <1>0, <1>7 DEF InsertRefused, Reply, Step, dbVars
<1>8. CASE InsertFails(r)
  BY SMTT(20), <1>0, <1>8 DEF InsertFails, Reply, Step, Fail, Indexed, Signature
<1>9. CASE Increment(r)
  BY SMTT(20), <1>0, <1>9 DEF Increment, CountUp, Reply, Step
<1>10. CASE IncrementFails(r)
  BY SMTT(20), <1>0, <1>10 DEF IncrementFails, CountUp, Reply, Step, Fail
<1>11. CASE Disconnect(r)
  BY SMTT(20), <1>0, <1>11 DEF Disconnect, dbVars
<1> QED
  BY <1>1, <1>2, <1>3, <1>4, <1>5, <1>6, <1>7, <1>8, <1>9, <1>10, <1>11 DEF RequestStep, Handler, Database

-----------------------------------------------------------------------------
(* The count.                                                              *)

(* Sets of requests are finite, and one more or one less request changes   *)
(* their cardinality by one.                                               *)
LEMMA RequestSets ==
  ASSUME NEW S, S \subseteq Requests
  PROVE  /\ IsFiniteSet(S) /\ Cardinality(S) \in Nat
         /\ \A T : T \subseteq S => Cardinality(T) \in Nat /\ Cardinality(T) <= Cardinality(S)
         /\ \A r \in Requests \ S : Cardinality(S \cup {r}) = Cardinality(S) + 1
         /\ \A r \in S : Cardinality(S \ {r}) = Cardinality(S) - 1
<1>1. IsFiniteSet(S)
  BY RequestsFinite, FS_Subset
<1>2. \A T : T \subseteq S => IsFiniteSet(T) /\ Cardinality(T) <= Cardinality(S)
  BY <1>1, FS_Subset
<1> QED
  BY <1>1, <1>2, FS_CardinalityType, FS_AddElement, FS_RemoveElement

(* The sets the count is compared with are sets of requests. *)
LEMMA CountedSets ==
  ASSUME TypeOK, NEW p
  PROVE  /\ Signers(p) \subseteq Requests
         /\ Pending(p) \subseteq Requests
         /\ Uncounted(p) \subseteq Requests
BY DEF TypeOK, Signers, Pending, Uncounted

(* A step that stores and counts nothing, takes no handler to the count or *)
(* away from it and forgets no failure keeps the bounds.                   *)
LEMMA QuietCount ==
  ASSUME TypeOK, TypeOK', NEW p \in Petitions, CountOf(p),
         Signers(p)' = Signers(p), count'[p] = count[p],
         Pending(p)' \subseteq Pending(p), Uncounted(p) \subseteq Uncounted(p)'
  PROVE  CountOf(p)'
<1>1. /\ Cardinality(Pending(p)) \in Nat /\ Cardinality(Pending(p)') \in Nat
      /\ Cardinality(Pending(p)') <= Cardinality(Pending(p))
  BY CountedSets, RequestSets
<1>2. Uncounted(p)' \subseteq Requests
  BY DEF Uncounted
<1>3. /\ Cardinality(Uncounted(p)) \in Nat /\ Cardinality(Uncounted(p)') \in Nat
      /\ Cardinality(Uncounted(p)) <= Cardinality(Uncounted(p)')
  BY <1>2, RequestSets
<1>4. Cardinality(Signers(p)) \in Nat /\ count[p] \in Nat
  BY CountedSets, RequestSets DEF TypeOK
<1> QED
  BY <1>1, <1>3, <1>4 DEF CountOf

(* The bounds survive a step of a request. *)
LEMMA RequestCounts ==
  ASSUME NEW r \in Requests, RequestStep(r), TypeOK, TypeOK', HandlersInv,
         NEW p \in created, CountOf(p)
  PROVE  CountOf(p)'
<1>0. p \in Petitions /\ p \notin {"unknown", "none"}
  BY IdsDistinct DEF TypeOK
<1>1. HandlerOf(r) /\ \A d \in docs : DocOf(d)
  BY DEF HandlersInv
<1>2. /\ Signers(p) \subseteq Requests /\ Pending(p) \subseteq Requests
      /\ Uncounted(p) \subseteq Requests
  BY CountedSets
<1>3. /\ Cardinality(Signers(p)) \in Nat /\ Cardinality(Pending(p)) \in Nat
      /\ Cardinality(Uncounted(p)) \in Nat /\ count[p] \in Nat
  BY <1>0, <1>2, RequestSets DEF TypeOK
<1>4. CASE \/ Receive(r) \/ RefuseBody(r) \/ Lookup(r) \/ Check(r) \/ Aggregate(r)
           \/ InsertRefused(r) \/ Disconnect(r)
  <2>1. UNCHANGED <<docs, count, req>> /\ failed \subseteq failed'
    BY <1>4 DEF Receive, RefuseBody, Lookup, Check, Aggregate,
         AggregateFails, AggregateSucceeds, InsertRefused, Disconnect,
         dbVars, Fail
  <2>2. \A i \in Requests : /\ pc'[i] = "increment" <=> pc[i] = "increment"
                            /\ pc[i] = "lost" => pc'[i] = "lost"
    BY <1>4 DEF Receive, RefuseBody, Lookup, Check, Aggregate,
         AggregateFails, AggregateSucceeds, InsertRefused, Disconnect,
         AfterLookup, Reply, Step, TypeOK
  <2>3. Signers(p)' = Signers(p)
    BY <2>1 DEF Signers
  <2>4. Pending(p)' \subseteq Pending(p)
    BY <2>1, <2>2 DEF Pending
  <2>5. Uncounted(p) \subseteq Uncounted(p)'
    BY <2>1, <2>2 DEF Uncounted
  <2> QED
    BY <1>0, <2>1, <2>3, <2>4, <2>5, QuietCount
<1>5. ASSUME pc[r] = "insert", docs' = docs \cup {Signature(r)}, req' = req,
             req[r].petition = p
      PROVE  Cardinality(Signers(p)') = Cardinality(Signers(p)) + 1
  <2>1. r \notin Signers(p)
    BY <1>1, <1>5 DEF Signers, DocOf
  <2>2. Signers(p)' = Signers(p) \cup {r}
    <3>1. Signature(r).by = r /\ Signature(r).petition = p
      BY <1>5 DEF Signature
    <3>2. {e \in docs' : e.petition = p} = {e \in docs : e.petition = p} \cup {Signature(r)}
      BY <1>5, <3>1
    <3> QED
      BY <3>1, <3>2 DEF Signers
  <2> QED
    BY <1>2, <2>1, <2>2, RequestSets
<1>6. ASSUME docs' = docs \cup {Signature(r)}, req' = req, req[r].petition # p
      PROVE  Signers(p)' = Signers(p)
  BY <1>6 DEF Signers, Signature
<1>7. CASE InsertStores(r)
  <2>1. /\ Step(r, "insert", "increment") /\ docs' = docs \cup {Signature(r)}
        /\ UNCHANGED <<req, count, failed>>
    BY <1>7 DEF InsertStores
  <2>2. CASE req[r].petition = p
    <3>1. r \notin Pending(p) /\ Pending(p)' = Pending(p) \cup {r}
      BY <2>1, <2>2 DEF Pending, Step, TypeOK
    <3>2. r \notin Uncounted(p) /\ Uncounted(p)' = Uncounted(p) \cup {r}
      BY <1>1, <2>1, <2>2 DEF Uncounted, Step, TypeOK, HandlerOf
    <3>3. /\ Cardinality(Pending(p)') = Cardinality(Pending(p)) + 1
          /\ Cardinality(Uncounted(p)') = Cardinality(Uncounted(p)) + 1
      BY <1>2, <3>1, <3>2, RequestSets
    <3>4. Cardinality(Signers(p)') = Cardinality(Signers(p)) + 1
      BY <1>5, <2>1, <2>2 DEF Step
    <3> QED
      BY <1>3, <2>1, <3>3, <3>4 DEF CountOf
  <2>3. CASE req[r].petition # p
    <3>1. Signers(p)' = Signers(p)
      BY <1>6, <2>1, <2>3
    <3>2. Pending(p)' \subseteq Pending(p) /\ Uncounted(p) \subseteq Uncounted(p)'
      BY <2>1, <2>3 DEF Pending, Uncounted, Step, TypeOK
    <3> QED
      BY <1>0, <2>1, <3>1, <3>2, QuietCount
  <2> QED
    BY <2>2, <2>3
<1>8. CASE InsertFails(r)
  <2>1. /\ Step(r, "insert", "answered") /\ failed' = failed \cup {<<r, "insert">>}
        /\ docs' = docs \/ docs' = docs \cup {Signature(r)}
        /\ UNCHANGED <<req, count>>
    BY <1>8 DEF InsertFails, Reply, Fail
  <2>2. Pending(p)' \subseteq Pending(p) /\ Uncounted(p) \subseteq Uncounted(p)'
    BY <2>1 DEF Pending, Uncounted, Step, TypeOK
  <2>3. CASE Signers(p)' = Signers(p)
    BY <1>0, <2>1, <2>2, <2>3, QuietCount
  <2>4. CASE Signers(p)' # Signers(p)
    <3>1. docs' = docs \cup {Signature(r)}
      BY <2>1, <2>4 DEF Signers
    <3>2. req[r].petition = p
      BY <1>6, <2>1, <2>4, <3>1
    <3>3. Cardinality(Signers(p)') = Cardinality(Signers(p)) + 1
      BY <1>5, <2>1, <3>1, <3>2 DEF Step
    <3>4. r \notin Uncounted(p) /\ Uncounted(p)' = Uncounted(p) \cup {r}
      BY <1>1, <2>1, <3>2 DEF Uncounted, Step, TypeOK, HandlerOf
    <3>5. Cardinality(Uncounted(p)') = Cardinality(Uncounted(p)) + 1
      BY <1>2, <3>4, RequestSets
    <3>6. /\ Cardinality(Pending(p)') \in Nat
          /\ Cardinality(Pending(p)') <= Cardinality(Pending(p))
      BY <1>2, <2>2, RequestSets
    <3> QED
      BY <1>3, <2>1, <3>3, <3>5, <3>6 DEF CountOf
  <2> QED
    BY <2>3, <2>4
<1>9. CASE Increment(r) \/ IncrementFails(r)
  <2>1. /\ Step(r, "increment", "answered") /\ UNCHANGED <<req, docs, created>>
        /\ failed \subseteq failed'
        /\ CountUp(r) \/ (UNCHANGED count /\ failed' = failed \cup {<<r, "increment">>})
    BY <1>9 DEF dbVars, Increment, IncrementFails, Reply, Fail
  <2>2. Signers(p)' = Signers(p)
    BY <2>1 DEF Signers
  <2>3. Pending(p)' = Pending(p) \ {r}
    BY <2>1 DEF Pending, Step, TypeOK
  <2>4. CASE count'[p] = count[p] + 1
    <3>1. req[r].petition = p
      BY <1>0, <1>3, <2>1, <2>4 DEF CountUp
    <3>2. r \in Pending(p) /\ r \in Uncounted(p)
      BY <2>1, <3>1 DEF Pending, Uncounted, Step
    <3>3. Uncounted(p) \ {r} \subseteq Uncounted(p)'
      BY <2>1 DEF Uncounted, Step, TypeOK
    <3>4. Uncounted(p)' \subseteq Requests
      BY DEF Uncounted
    <3>5. /\ Cardinality(Pending(p)') = Cardinality(Pending(p)) - 1
          /\ Cardinality(Uncounted(p) \ {r}) = Cardinality(Uncounted(p)) - 1
      BY <1>2, <2>3, <3>2, RequestSets
    <3>6. /\ Cardinality(Uncounted(p)') \in Nat
          /\ Cardinality(Uncounted(p) \ {r}) <= Cardinality(Uncounted(p)')
      BY <3>3, <3>4, RequestSets
    <3> QED
      BY <1>3, <2>2, <2>4, <3>5, <3>6 DEF CountOf
  <2>5. CASE count'[p] = count[p]
    <3>1. Uncounted(p) \subseteq Uncounted(p)'
      <4>1. req[r].petition = p => <<r, "increment">> \in failed'
        BY <1>0, <1>3, <2>1, <2>5 DEF CountUp
      <4> QED
        BY <2>1, <4>1 DEF Uncounted, Step, TypeOK
    <3> QED
      BY <1>0, <2>2, <2>3, <2>5, <3>1, QuietCount
  <2> QED
    BY <1>0, <2>1, <2>4, <2>5 DEF CountUp
<1> QED
  BY <1>4, <1>7, <1>8, <1>9 DEF RequestStep, Handler, Database

-----------------------------------------------------------------------------
(* The steps that are not those of one request.                            *)

(* A new petition has no signature and no handler works for it yet. *)
LEMMA CreateKeeps ==
  ASSUME NEW q \in Petitions, CreatePetition(q), IInv
  PROVE  IInv'
<1> USE DEF IInv
<1>1. TypeOK'
  BY DEF TypeOK, CreatePetition
<1>2. OneSignatureEach'
  BY DEF OneSignatureEach, CreatePetition
<1>3. q # "unknown" /\ q # "none"
  BY IdsDistinct
<1>4. \A d \in docs : d.petition # q /\ d.petition = req[d.by].petition
  BY <1>3 DEF HandlersInv, DocOf, Signature, CreatePetition
<1>5. HandlersInv'
  <2>1. ASSUME NEW d \in docs' PROVE DocOf(d)'
    <3>1. d \in docs /\ DocOf(d)
      BY <2>1 DEF HandlersInv, CreatePetition
    <3> QED
      BY <1>4, <3>1 DEF CreatePetition, DocOf, Validated, Signature, TypeOK
  <2>2. ASSUME NEW r \in Requests PROVE HandlerOf(r)'
    <3>1. HandlerOf(r)
      BY DEF HandlersInv
    <3>2. pc[r] \in Active => req[r].petition # q
      BY <1>3, <3>1 DEF HandlerOf, CreatePetition
    <3> QED
      BY <3>1, <3>2 DEF CreatePetition, HandlerOf, Validated, Signature, SameKey, Indexed,
         Active, TypeOK
  <2> QED
    BY <2>1, <2>2 DEF HandlersInv
<1>6. ASSUME NEW p \in created' PROVE CountOf(p)'
  <2>1. UNCHANGED <<req, pc, docs, failed>> /\ p \in Petitions
    BY <1>6, <1>1 DEF CreatePetition, TypeOK
  <2>2. /\ Signers(p)' = Signers(p) /\ Pending(p)' = Pending(p)
        /\ Uncounted(p)' = Uncounted(p)
    BY <2>1 DEF Signers, Pending, Uncounted
  <2>3. CASE p \in created
    <3>1. count'[p] = count[p]
      BY <2>1, <2>3 DEF CreatePetition, TypeOK
    <3> QED
      BY <2>2, <2>3, <3>1 DEF CountInv, CountOf
  <2>4. CASE p = q
    <3>1. count'[p] = 0
      BY <2>4 DEF CreatePetition, TypeOK
    <3>2. Signers(p) = {}
      BY <1>4, <2>4 DEF Signers
    <3>3. Pending(p) = {}
      BY <1>3, <2>4 DEF Pending, HandlersInv, HandlerOf, Active, CreatePetition
    <3>4. Cardinality({}) = 0
      BY FS_EmptySet
    <3>5. Cardinality(Uncounted(p)) \in Nat
      BY CountedSets, RequestSets
    <3> QED
      BY <2>2, <3>1, <3>2, <3>3, <3>4, <3>5 DEF CountOf
  <2> QED
    BY <1>6, <2>3, <2>4 DEF CreatePetition
<1> QED
  BY <1>1, <1>2, <1>5, <1>6 DEF CountInv

(* A crash between two steps of SaveSignature leaves an uncounted          *)
(* signature, which Uncounted allows for.                                  *)
LEMMA CrashKeeps ==
  ASSUME Crash, IInv
  PROVE  IInv'
<1> USE DEF IInv
<1>0. UNCHANGED <<req, status, gone, created, required, count, docs, failed>>
  BY DEF Crash, dbVars
<1>1. \A r \in Requests : /\ pc[r] \in Active => pc'[r] = "lost"
                          /\ pc[r] \notin Active => pc'[r] = pc[r]
  BY DEF Crash
<1>2. TypeOK'
  BY <1>0, <1>1, MaxCrashesNat DEF Crash, TypeOK, Active, Points
<1>3. OneSignatureEach'
  BY <1>0 DEF OneSignatureEach
<1>4. ASSUME NEW d \in docs' PROVE DocOf(d)'
  BY <1>0, <1>1, <1>4 DEF HandlersInv, DocOf, Validated, Signature, TypeOK, Active
<1>5. ASSUME NEW r \in Requests PROVE HandlerOf(r)'
  <2>1. HandlerOf(r)
    BY DEF HandlersInv
  <2> QED
    BY <1>0, <1>1, <2>1 DEF HandlerOf, Validated, Signature, SameKey, Indexed, Active
<1>6. ASSUME NEW p \in created' PROVE CountOf(p)'
  <2>1. p \in Petitions /\ CountOf(p)
    BY <1>0, <1>6 DEF TypeOK, CountInv
  <2>2. Signers(p)' = Signers(p)
    BY <1>0 DEF Signers
  <2>3. Pending(p)' \subseteq Pending(p) /\ Uncounted(p) \subseteq Uncounted(p)'
    BY <1>0, <1>1 DEF Pending, Uncounted, Active
  <2> QED
    BY <1>0, <1>2, <2>1, <2>2, <2>3, QuietCount
<1> QED
  BY <1>2, <1>3, <1>4, <1>5, <1>6 DEF HandlersInv, CountInv

-----------------------------------------------------------------------------
(* The inductive invariant.                                                *)

(* It holds initially: nothing is stored, counted or running. *)
LEMMA InitIInv == Init => IInv
<1> SUFFICES ASSUME Init PROVE IInv
  OBVIOUS
<1>1. HandlersInv
  BY DEF Init, HandlersInv, HandlerOf, Active
<1>2. OneSignatureEach /\ CountInv
  BY DEF Init, OneSignatureEach, CountInv
<1> QED
  BY <1>1, <1>2, InitTypes DEF IInv

(* It is inductive. *)
LEMMA NextIInv == IInv /\ [Next]_vars => IInv'
<1> SUFFICES ASSUME IInv, [Next]_vars PROVE IInv'
  OBVIOUS
<1>1. CASE UNCHANGED vars
  <2>1. TypeOK' /\ OneSignatureEach'
    BY <1>1 DEF vars, IInv, TypeOK, OneSignatureEach
  <2>2. HandlersInv'
    BY <1>1 DEF vars, IInv, HandlersInv, DocOf, HandlerOf, Validated, SameKey, Indexed,
       Signature
  <2>3. ASSUME NEW p \in created' PROVE CountOf(p)'
    <3>1. /\ Signers(p)' = Signers(p) /\ Pending(p)' = Pending(p)
          /\ Uncounted(p)' = Uncounted(p)
      BY <1>1 DEF vars, Signers, Pending, Uncounted
    <3> QED
      BY <1>1, <2>3, <3>1 DEF vars, IInv, CountInv, CountOf
  <2> QED
    BY <2>1, <2>2, <2>3 DEF IInv, CountInv
<1>2. ASSUME NEW q \in Petitions, CreatePetition(q) PROVE IInv'
  BY <1>2, CreateKeeps
<1>3. ASSUME NEW r \in Requests, RequestStep(r) PROVE IInv'
  <2>1. TypeOK'
    BY <1>3, RequestTypes DEF IInv, HandlersInv
  <2>2. OneSignatureEach'
    BY <1>3, RequestUnique DEF IInv
  <2>3. HandlersInv'
    BY <1>3, RequestDocs, RequestHandlers DEF IInv, HandlersInv
  <2>4. created' = created
    BY <1>3 DEF RequestStep, Handler, Database, Receive, RefuseBody, Lookup, Check, Aggregate,
     AggregateFails, AggregateSucceeds,
       InsertStores, InsertRefused, InsertFails, Increment, IncrementFails, Disconnect, dbVars
  <2>5. CountInv'
    BY <1>3, <2>1, <2>4, RequestCounts DEF IInv, CountInv
  <2> QED
    BY <2>1, <2>2, <2>3, <2>5 DEF IInv
<1>4. CASE Crash
  BY <1>4, CrashKeeps
<1> QED
  BY <1>1, <1>2, <1>3, <1>4 DEF Next, RequestStep

(* IInv holds in every reachable state. *)
THEOREM Invariance == Spec => []IInv
BY InitIInv, NextIInv, PTL DEF Spec

-----------------------------------------------------------------------------
(* The properties.                                                         *)

(* The variables keep their types, and a status is set exactly when the    *)
(* handler has answered (server.go:188-318).                               *)
THEOREM TypeCorrect == Spec => []TypeOK
BY Invariance, PTL DEF IInv

(* A nullifier signs a petition once, whatever requests race between the   *)
(* check and the insert (server.go:250-263, mongodb.go:147-154).           *)
THEOREM SignsOnce == Spec => []OneSignatureEach
BY Invariance, PTL DEF IInv

(* An error answer leaves no signature of the request behind, and 409 is   *)
(* an answer to a repetition only (server.go:245, 260, 274).               *)
THEOREM ErrorsAreHonest == Spec => []ErrorsHonest
<1>1. IInv => ErrorsHonest
  <2> SUFFICES ASSUME IInv, NEW r \in Requests
               PROVE  /\ status[r] \in {"badRequest", "conflict"} => ~StoredBy(r)
                      /\ status[r] = "conflict" => \E d \in docs : d.by # r /\ SameKey(d, r)
    BY DEF ErrorsHonest, SameKey
  <2>1. \A d \in docs : status[d.by] \in {"none", "ok"}
    BY DEF IInv, HandlersInv, DocOf
  <2>2. HandlerOf(r)
    BY DEF IInv, HandlersInv
  <2> QED
    BY <2>1, <2>2 DEF HandlerOf, StoredBy
<1> QED
  BY <1>1, Invariance, PTL

(* A stored signature discloses what its petition requires, unless the     *)
(* petition could not be looked up (server.go:234-248).                    *)
THEOREM Validates == Spec => []SignaturesValidated
<1>1. IInv => SignaturesValidated
  BY DEF IInv, HandlersInv, DocOf, Validated, Signature, SignaturesValidated
<1> QED
  BY <1>1, Invariance, PTL

(* signature_count is at most the number of signatures, and is short of it *)
(* by requests that were interrupted only (mongodb.go:147-168).            *)
THEOREM CountsAgree == Spec => []CountAgrees
<1>1. IInv => CountAgrees
  <2> SUFFICES ASSUME IInv, NEW p \in created
               PROVE  /\ count[p] <= Cardinality(Signers(p))
                      /\ Cardinality(Signers(p)) <= count[p] + Cardinality(Uncounted(p))
    BY DEF CountAgrees
  <2>1. /\ Cardinality(Pending(p)) \in Nat /\ Cardinality(Signers(p)) \in Nat
        /\ count[p] \in Nat
    BY CountedSets, RequestSets DEF IInv, TypeOK
  <2> QED
    BY <2>1 DEF IInv, CountInv, CountOf
<1> QED
  BY <1>1, Invariance, PTL

(* 200 means that the nullifier is among the signatures, unless the insert *)
(* failed (server.go:279-307).                                             *)
THEOREM OkIsSigned == Spec => []OkMeansSigned
<1>1. IInv => OkMeansSigned
  BY DEF IInv, HandlersInv, HandlerOf, Indexed, SameKey, OkMeansSigned
<1> QED
  BY <1>1, Invariance, PTL

-----------------------------------------------------------------------------
(* Refinement.                                                             *)

(* A document stored by the handler of r is a signature of the ledger. *)
LEMMA StoringSigns ==
  ASSUME NEW r \in Requests, IInv, pc[r] = "insert", ~Indexed(r),
         docs' = docs \cup {Signature(r)}, req' = req, Refused' = Refused
  PROVE  Ledger!Next
<1>1. status[r] = "none"
  BY DEF IInv, TypeOK
<1>2. \A d \in docs : d.by # r
  BY DEF IInv, HandlersInv, DocOf
<1>3. \A d \in docs : Ledger!Key(d) # Ledger!KeyOf(r)
  BY DEF Indexed, SameKey, Ledger!Key, Ledger!KeyOf
<1>4. Ledger!Sign(r)
  BY <1>1, <1>2, <1>3 DEF Ledger!Sign, Refused, Signature
<1> QED
  BY <1>4 DEF Ledger!Next

(* Every step of a request is a step of the ledger or not seen by it. *)
LEMMA RequestRefines ==
  ASSUME NEW r \in Requests, RequestStep(r), IInv
  PROVE  [Ledger!Next]_(Ledger!vars)
<1> USE DEF IInv, TypeOK
<1>1. CASE Check(r) /\ status' # status
  <2>1. /\ pc[r] = "check" /\ Indexed(r) /\ status' = [status EXCEPT ![r] = "conflict"]
        /\ UNCHANGED <<req, docs>>
    BY <1>1, CheckSteps DEF Reply, Step
  <2>2. \A d \in docs : d.by # r
    BY <2>1 DEF HandlersInv, DocOf
  <2>3. \E d \in docs : Ledger!Key(d) = Ledger!KeyOf(r)
    BY <2>1 DEF Indexed, SameKey, Ledger!Key, Ledger!KeyOf
  <2>4. Refused' = Refused \cup {r}
    BY <2>1 DEF Refused
  <2>5. Ledger!TurnDown(r)
    BY <2>1, <2>2, <2>3, <2>4 DEF Ledger!TurnDown, Ledger!Made, Refused
  <2> QED
    BY <2>5 DEF Ledger!Next
<1>2. CASE InsertStores(r) \/ (InsertFails(r) /\ docs' # docs)
  <2>1. /\ pc[r] = "insert" /\ ~Indexed(r) /\ docs' = docs \cup {Signature(r)}
        /\ req' = req
    BY <1>2 DEF InsertStores, InsertFails, Reply, Step
  <2>2. status[r] = "none" /\ (status' = status \/ status' = [status EXCEPT ![r] = "ok"])
    BY <1>2, <2>1 DEF InsertStores, InsertFails, Reply
  <2>3. Refused' = Refused
    BY <2>2 DEF Refused
  <2> QED
    BY <2>1, <2>3, StoringSigns
<1>3. CASE ~(Check(r) /\ status' # status) /\ docs' = docs
  <2>1. /\ req' = req
        /\ \/ status' = status
           \/ /\ status[r] = "none"
              /\ \E s \in {"ok", "badRequest"} : status' = [status EXCEPT ![r] = s]
    BY <1>3 DEF RequestStep, Handler, Database, Receive, RefuseBody, Lookup, Check, Aggregate,
     AggregateFails, AggregateSucceeds,
       InsertStores, InsertRefused, InsertFails, Increment, IncrementFails, Disconnect,
       Reply, Step, dbVars
  <2>2. Refused' = Refused
    BY <2>1 DEF Refused
  <2> QED
    <3>1. req' = req /\ docs' = docs
      BY <1>3, <2>1
    <3> HIDE DEF IInv, TypeOK
    <3>2. UNCHANGED Ledger!vars
      BY <2>2, <3>1 DEF Ledger!vars
    <3> QED
      BY <3>2
<1> QED
  BY <1>1, <1>2, <1>3 DEF RequestStep, Handler, Database, Receive, RefuseBody, Lookup, Check,
     Aggregate, AggregateFails, AggregateSucceeds, InsertRefused, Increment, IncrementFails, Disconnect, dbVars

(* The handler and the collections implement the ledger                    *)
(* (server.go:250-307): a pair of a petition and a nullifier is entered    *)
(* once, and 409 is only said of a pair another request has entered.       *)
THEOREM Refinement == Spec => KeepsLedger
<1>1. Init => Ledger!Init
  BY DEF Init, Ledger!Init, Refused
<1>2. IInv /\ [Next]_vars => [Ledger!Next]_(Ledger!vars)
  <2> SUFFICES ASSUME IInv, [Next]_vars PROVE [Ledger!Next]_(Ledger!vars)
    OBVIOUS
  <2>1. CASE UNCHANGED vars \/ Crash \/ \E q \in Petitions : CreatePetition(q)
    <3>1. UNCHANGED <<req, docs, status>>
      BY <2>1 DEF vars, Crash, CreatePetition, dbVars
    <3> QED
      BY <3>1 DEF Ledger!vars, Refused
  <2>2. ASSUME NEW r \in Requests, RequestStep(r)
        PROVE  [Ledger!Next]_(Ledger!vars)
    BY <2>2, RequestRefines
  <2> QED
    BY <2>1, <2>2 DEF Next, RequestStep
<1> QED
  BY <1>1, <1>2, Invariance, PTL DEF Spec, KeepsLedger, Ledger!Spec

=============================================================================
