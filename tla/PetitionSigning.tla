-------------------------- MODULE PetitionSigning ---------------------------
(***************************************************************************)
(* POST /api/proofs/aggregate (api/server.go, handleAggregateProofs) and   *)
(* the MongoDB documents it reads and writes (storage/mongodb.go).         *)
(*                                                                         *)
(* Every request is one member of Requests.  A step is one blocking call   *)
(* of its handler: a database operation or Aggregate, which ProvingService *)
(* models in detail.  A database operation can fail although it was        *)
(* applied, and fails without being applied once the client is gone, since *)
(* every operation uses the context of the HTTP request.                   *)
(***************************************************************************)
EXTENDS Integers, FiniteSets

CONSTANTS
  Requests,    \* the HTTP requests
  Petitions,   \* the identifiers CreatePetition generates
  Nullifiers,  \* the scoped nullifiers, as prover-cli formats them
  Zero,        \* the one that is zero
  Fields,      \* the names a query can disclose
  MaxCrashes   \* bound on the crashes of the server

ASSUME RequestsFinite == IsFiniteSet(Requests)
ASSUME IdsDistinct == {"unknown", "none"} \cap Petitions = {}
ASSUME MaxCrashesNat == MaxCrashes \in Nat

(* What a request carries: the petition, if any ("unknown" is an id that   *)
(* no petition has), the nullifier its proof commits to, the string the    *)
(* handler extracts before proving (the prover's own format, another one,  *)
(* or none) and the fields its query discloses.                            *)
RequestData ==
  {d \in [petition : Petitions \cup {"unknown", "none"}, nullifier : Nullifiers,
          claim : {"canonical", "variant", "empty"}, fields : SUBSET Fields] :
     d.nullifier = Zero => d.claim # "canonical"}

VARIABLES
  req,       \* req[r]: the data of request r
  pc,        \* pc[r]: the call the handler of r is about to make
  status,    \* status[r]: the HTTP status class answered
  gone,      \* requests whose client has disconnected
  created,   \* petitions collection: the identifiers present,
  required,  \*   their disclosed_fields
  count,     \*   and their signature_count
  docs,      \* signatures collection
  failed,    \* database calls that returned a failure: <<r, call>>
  crashes    \* number of crashes so far

dbVars == <<created, required, count, docs>>
vars   == <<req, pc, status, gone, created, required, count, docs, failed, crashes>>

Points == {"idle", "lookup", "check", "aggregate", "insert", "increment",
           "answered", "lost"}
Active == {"lookup", "check", "aggregate", "insert", "increment"}
Statuses == {"none", "ok", "badRequest", "conflict"}
Calls == {"lookup", "check", "insert", "increment"}

Init ==
  /\ req \in [Requests -> RequestData]
  /\ pc = [r \in Requests |-> "idle"]
  /\ status = [r \in Requests |-> "none"]
  /\ gone = {}
  /\ created = {}
  /\ required = [p \in Petitions |-> {}]
  /\ count = [p \in Petitions |-> 0]
  /\ docs = {}
  /\ failed = {}
  /\ crashes = 0

-----------------------------------------------------------------------------
(* The signature a request would store, and the unique index on            *)
(* (petition_id, nullifier).                                               *)
Signature(r) ==
  [by |-> r, petition |-> req[r].petition, nullifier |-> req[r].nullifier]

(* Faulty variant: an index on the nullifier alone. *)
SameKeyNullifierOnly(d, r) == d.nullifier = req[r].nullifier

(* Faulty variant: a unique index that never meets a second request. *)
SameKeyOfRequest(d, r) == d.by = r

SameKey(d, r) == d.petition = req[r].petition /\ d.nullifier = req[r].nullifier

Indexed(r) == \E d \in docs : SameKey(d, r)

Step(r, from, to) == pc[r] = from /\ pc' = [pc EXCEPT ![r] = to]
Reply(r, from, s) == Step(r, from, "answered") /\ status' = [status EXCEPT ![r] = s]
Fail(r, call) == failed' = failed \cup {<<r, call>>}

-----------------------------------------------------------------------------
(* POST /api/petitions: an identifier is generated, the required fields    *)
(* are taken from the query and the count starts at zero.                  *)
CreatePetition(p) ==
  /\ p \notin created
  /\ created' = created \cup {p}
  /\ \E f \in SUBSET Fields : required' = [required EXCEPT ![p] = f]
  /\ count' = [count EXCEPT ![p] = 0]
  /\ UNCHANGED <<req, pc, status, gone, docs, failed, crashes>>

(* The handler starts.  Without a petition it goes straight to Aggregate;  *)
(* an identifier that exists was generated before.                         *)
Receive(r) ==
  /\ req[r].petition \in created \cup {"unknown", "none"}
  /\ Step(r, "idle", IF req[r].petition = "none" THEN "aggregate" ELSE "lookup")
  /\ UNCHANGED <<req, status, gone, dbVars, failed, crashes>>

(* The body cannot be decoded. *)
RefuseBody(r) ==
  /\ Reply(r, "idle", "badRequest")
  /\ UNCHANGED <<req, gone, dbVars, failed, crashes>>

(* The pre-check of the nullifier is skipped when none was extracted. *)
AfterLookup(r) == IF req[r].claim = "empty" THEN "aggregate" ELSE "check"

(* Faulty variant: the inclusion is tested the other way round. *)
ExtraFields(r) ==
  /\ req[r].petition \in created
  /\ ~ req[r].fields \subseteq required[req[r].petition]

(* validateDisclosedFieldsAgainstPetition, for a petition that was found. *)
MissingFields(r) ==
  /\ req[r].petition \in created
  /\ ~ required[req[r].petition] \subseteq req[r].fields

(* Faulty variant: a failed lookup is retried for ever. *)
LookupRetrying(r) ==
  /\ \/ /\ r \notin gone
        /\ IF MissingFields(r) THEN Reply(r, "lookup", "badRequest")
           ELSE Step(r, "lookup", AfterLookup(r)) /\ UNCHANGED status
        /\ UNCHANGED failed
     \/ /\ Step(r, "lookup", "lookup")
        /\ Fail(r, "lookup")
        /\ UNCHANGED status
  /\ UNCHANGED <<req, gone, dbVars, crashes>>

(* GetPetition: a missing petition and a failed lookup both let the        *)
(* request pass without validation.                                        *)
Lookup(r) ==
  /\ \/ /\ r \notin gone
        /\ IF MissingFields(r) THEN Reply(r, "lookup", "badRequest")
           ELSE Step(r, "lookup", AfterLookup(r)) /\ UNCHANGED status
        /\ UNCHANGED failed
     \/ /\ Step(r, "lookup", AfterLookup(r))
        /\ Fail(r, "lookup")
        /\ UNCHANGED status
  /\ UNCHANGED <<req, gone, dbVars, crashes>>

(* What SignatureExists is asked for: the extracted string matches a       *)
(* stored one only in the prover's format.                                 *)
Repeated(r) == req[r].claim = "canonical" /\ Indexed(r)

(* Faulty variant: the 409 is written but the handler does not return. *)
CheckGoingOn(r) ==
  /\ Step(r, "check", "aggregate")
  /\ \/ /\ r \notin gone /\ Repeated(r)
        /\ status' = [status EXCEPT ![r] = "conflict"] /\ UNCHANGED failed
     \/ ~ Repeated(r) /\ UNCHANGED <<status, failed>>
     \/ Repeated(r) /\ Fail(r, "check") /\ UNCHANGED status
  /\ UNCHANGED <<req, gone, dbVars, crashes>>

(* An error of SignatureExists is only logged; it is recorded where it     *)
(* lets a repetition pass.                                                 *)
Check(r) ==
  /\ \/ /\ r \notin gone /\ Repeated(r)
        /\ Reply(r, "check", "conflict") /\ UNCHANGED failed
     \/ /\ Step(r, "check", "aggregate") /\ UNCHANGED status
        /\ IF Repeated(r) THEN Fail(r, "check") ELSE UNCHANGED failed
  /\ UNCHANGED <<req, gone, dbVars, crashes>>

(* Faulty variant: the extracted nullifier decides whether to save. *)
AggregateByClaim(r) ==
  /\ \/ Reply(r, "aggregate", "badRequest")
     \/ IF req[r].petition = "none" \/ req[r].claim = "empty"
        THEN Reply(r, "aggregate", "ok")
        ELSE Step(r, "aggregate", "insert") /\ UNCHANGED status
  /\ UNCHANGED <<req, gone, dbVars, failed, crashes>>

(* Aggregate fails, or returns a proof and its nullifier: also to a client *)
(* that went away after the command had ended.  The nullifier is never     *)
(* empty (server.go:279): every outer circuit has the two public inputs    *)
(* that outer_nullifier (main.rs:1187) asks for.                           *)
AggregateFails(r) ==
  /\ Reply(r, "aggregate", "badRequest")
  /\ UNCHANGED <<req, gone, dbVars, failed, crashes>>

AggregateSucceeds(r) ==
  /\ IF req[r].petition = "none" THEN Reply(r, "aggregate", "ok")
     ELSE Step(r, "aggregate", "insert") /\ UNCHANGED status
  /\ UNCHANGED <<req, gone, dbVars, failed, crashes>>

Aggregate(r) == AggregateFails(r) \/ AggregateSucceeds(r)

-----------------------------------------------------------------------------
(* SaveSignature: InsertOne, then $inc of the petition's signature_count.  *)

(* The document is stored: the count is still to be incremented. *)
InsertStores(r) ==
  /\ r \notin gone /\ ~Indexed(r)
  /\ Step(r, "insert", "increment")
  /\ docs' = docs \cup {Signature(r)}
  /\ UNCHANGED <<req, status, gone, created, required, count, failed, crashes>>

(* Faulty variant: a document that exists already is counted again. *)
InsertCounting(r) ==
  /\ r \notin gone /\ Indexed(r)
  /\ Step(r, "insert", "increment")
  /\ UNCHANGED <<req, status, gone, dbVars, failed, crashes>>

(* The unique index refuses.  The text of the error SaveSignature returns  *)
(* does not contain "duplicate", so the handler logs it and answers 200.   *)
InsertRefused(r) ==
  /\ r \notin gone /\ Indexed(r)
  /\ Reply(r, "insert", "ok")
  /\ UNCHANGED <<req, gone, dbVars, failed, crashes>>

(* Another error: the document is stored or not, the answer is 200. *)
InsertFails(r) ==
  /\ Reply(r, "insert", "ok")
  /\ Fail(r, "insert")
  /\ \/ UNCHANGED docs
     \/ r \notin gone /\ ~Indexed(r) /\ docs' = docs \cup {Signature(r)}
  /\ UNCHANGED <<req, gone, created, required, count, crashes>>

(* The filter matches no document when the petition does not exist. *)
CountUp(r) ==
  count' = [p \in Petitions |->
             IF p = req[r].petition /\ p \in created THEN count[p] + 1 ELSE count[p]]

Increment(r) ==
  /\ r \notin gone
  /\ Reply(r, "increment", "ok")
  /\ CountUp(r)
  /\ UNCHANGED <<req, gone, created, required, docs, failed, crashes>>

(* An error is logged and answered with 200; the update may be applied. *)
IncrementFails(r) ==
  /\ Reply(r, "increment", "ok")
  /\ Fail(r, "increment")
  /\ \/ UNCHANGED count
     \/ r \notin gone /\ CountUp(r)
  /\ UNCHANGED <<req, gone, created, required, docs, crashes>>

-----------------------------------------------------------------------------
(* The client goes away while the handler runs: the context is cancelled. *)
Disconnect(r) ==
  /\ pc[r] \in Active /\ r \notin gone
  /\ gone' = gone \cup {r}
  /\ UNCHANGED <<req, pc, status, dbVars, failed, crashes>>

(* The server dies and is started again: the handlers that ran are lost,   *)
(* the collections stay as they are.                                       *)
Crash ==
  /\ crashes < MaxCrashes
  /\ crashes' = crashes + 1
  /\ pc' = [r \in Requests |-> IF pc[r] \in Active THEN "lost" ELSE pc[r]]
  /\ UNCHANGED <<req, status, gone, dbVars, failed>>

(* The calls the handler of r makes: to the database, and to Aggregate. *)
Database(r) ==
  \/ Lookup(r) \/ Check(r)
  \/ InsertStores(r) \/ InsertRefused(r) \/ InsertFails(r)
  \/ Increment(r) \/ IncrementFails(r)

Handler(r) == Database(r) \/ Aggregate(r)

Next ==
  \/ \E p \in Petitions : CreatePetition(p)
  \/ \E r \in Requests : Receive(r) \/ RefuseBody(r) \/ Handler(r) \/ Disconnect(r)
  \/ Crash

Spec == Init /\ [][Next]_vars

(* A handler's goroutine is scheduled, and each call it makes ends: an     *)
(* operation of the driver with an answer or an error, Aggregate because   *)
(* of its timeout (EveryCallReturns of ProvingService).                    *)
FairSpec == Spec /\ \A r \in Requests : WF_vars(Handler(r))

-----------------------------------------------------------------------------
(* Properties.                                                             *)

(* The types of the variables; a status is set exactly when answered. *)
TypeOK ==
  /\ req \in [Requests -> RequestData]
  /\ pc \in [Requests -> Points]
  /\ status \in [Requests -> Statuses]
  /\ \A r \in Requests : status[r] = "none" <=> pc[r] # "answered"
  /\ gone \subseteq Requests
  /\ created \subseteq Petitions
  /\ required \in [Petitions -> SUBSET Fields]
  /\ count \in [Petitions -> Nat]
  /\ docs \subseteq [by : Requests, petition : Petitions \cup {"unknown"},
                     nullifier : Nullifiers]
  /\ failed \subseteq Requests \X Calls
  /\ crashes \in 0 .. MaxCrashes

StoredBy(r) == \E d \in docs : d.by = r
Signers(p) == {d.by : d \in {e \in docs : e.petition = p}}

(* A person signs a petition once (server.go:250-263, mongodb.go:150-154), *)
(* whatever requests race between the check and the insert.                *)
OneSignatureEach ==
  \A d, e \in docs : d.petition = e.petition /\ d.nullifier = e.nullifier => d = e

(* An error answer (server.go:245, 260, 274, 295) leaves no signature of   *)
(* the request behind, and 409 is given only if another request has signed *)
(* that petition with that nullifier.                                      *)
ErrorsHonest ==
  \A r \in Requests :
    /\ status[r] \in {"badRequest", "conflict"} => ~StoredBy(r)
    /\ status[r] = "conflict" =>
         \E d \in docs : d.by # r /\ d.petition = req[r].petition
                                 /\ d.nullifier = req[r].nullifier

(* A stored signature discloses every field its petition requires          *)
(* (server.go:234-248, 389-411), although the petition is read long before *)
(* the signature is written; a failed lookup is the only way around it.    *)
SignaturesValidated ==
  \A d \in docs : d.petition \in created =>
    \/ required[d.petition] \subseteq req[d.by].fields
    \/ <<d.by, "lookup">> \in failed

(* Requests whose signature may be stored without being counted. *)
Uncounted(p) ==
  {r \in Requests : /\ req[r].petition = p
                    /\ \/ pc[r] \in {"increment", "lost"}
                       \/ <<r, "insert">> \in failed
                       \/ <<r, "increment">> \in failed}

(* signature_count (mongodb.go:158-165) never exceeds the signatures of    *)
(* the petition, and falls short of them only by requests that are about   *)
(* to count, were lost in a crash or saw a database call fail.             *)
CountAgrees ==
  \A p \in created :
    /\ count[p] <= Cardinality(Signers(p))
    /\ Cardinality(Signers(p)) <= count[p] + Cardinality(Uncounted(p))

(* A request for a petition that is answered 200 finds its nullifier among *)
(* the signatures (server.go:279-307), its own or an earlier one, unless   *)
(* the insert failed, which the handler answers with 200 all the same.  A  *)
(* response without a nullifier would be another exception: the handler    *)
(* saves nothing then, but no outer circuit gives one.                     *)
OkMeansSigned ==
  \A r \in Requests :
    status[r] = "ok" /\ req[r].petition # "none" /\ <<r, "insert">> \notin failed
      => \E d \in docs : d.petition = req[r].petition /\ d.nullifier = req[r].nullifier

(* server.go:289: "If save fails due to duplicate (race condition),        *)
(* reject".  A request answered 200 whose insert met no other error has    *)
(* then stored its own signature.  The handler looks for "duplicate" in an *)
(* error text that says "already exists", so this does not hold.           *)
DuplicateRejected ==
  \A r \in Requests :
    status[r] = "ok" /\ req[r].petition # "none" /\ <<r, "insert">> \notin failed
      => StoredBy(r)

(* Every request that reached a handler is answered (server.go:188-318)    *)
(* unless the server dies, whatever calls fail and whoever goes away.      *)
EveryRequestAnswered ==
  \A r \in Requests : pc[r] \in Active ~> pc[r] \in {"answered", "lost"}

-----------------------------------------------------------------------------
(* The inductive invariant behind the properties.                          *)

(* The petition r signs was found with its required fields disclosed, or   *)
(* could not be looked up.                                                 *)
Validated(r) ==
  req[r].petition \in created =>
    required[req[r].petition] \subseteq req[r].fields \/ <<r, "lookup">> \in failed

(* A stored signature is that of a request past its insert that was not    *)
(* told an error, and signs a petition that existed before.                *)
DocOf(d) ==
  /\ d = Signature(d.by)
  /\ pc[d.by] \in {"increment", "answered", "lost"}
  /\ status[d.by] \in {"none", "ok"}
  /\ d.petition \in created \cup {"unknown"}
  /\ Validated(d.by)

(* What the handler of r has established at each of its points. *)
HandlerOf(r) ==
  /\ pc[r] \in Active => req[r].petition \in created \cup {"unknown", "none"}
  /\ pc[r] \in {"check", "aggregate", "insert", "increment"} => Validated(r)
  /\ pc[r] \in Active \ {"aggregate"} => req[r].petition # "none"
  /\ pc[r] = "increment" => Signature(r) \in docs
  /\ pc[r] \in {"idle", "lookup", "check", "aggregate", "insert"} =>
       <<r, "insert">> \notin failed /\ <<r, "increment">> \notin failed
  /\ status[r] = "conflict" => \E d \in docs : d.by # r /\ SameKey(d, r)
  /\ status[r] = "ok" /\ req[r].petition # "none" /\ <<r, "insert">> \notin failed
       => Indexed(r)

(* The handlers of p that have stored their signature and not counted it.  *)
Pending(p) == {r \in Requests : req[r].petition = p /\ pc[r] = "increment"}

(* The bounds of CountAgrees, the first strengthened: what is still        *)
(* to be counted has its signature already.                                *)
CountOf(p) ==
  /\ count[p] + Cardinality(Pending(p)) <= Cardinality(Signers(p))
  /\ Cardinality(Signers(p)) <= count[p] + Cardinality(Uncounted(p))

HandlersInv == (\A d \in docs : DocOf(d)) /\ (\A r \in Requests : HandlerOf(r))
CountInv == \A p \in created : CountOf(p)

IInv == TypeOK /\ OneSignatureEach /\ HandlersInv /\ CountInv

-----------------------------------------------------------------------------
(* The requests that were told their signature exists already. *)
Refused == {r \in Requests : status[r] = "conflict"}

Ledger == INSTANCE SignatureLedger WITH data <- req, ledger <- docs, refused <- Refused

(* The signatures and the 409 answers are those of a ledger that every     *)
(* pair of a petition and a nullifier enters once (server.go:250-307).     *)
KeepsLedger == Ledger!Spec

=============================================================================
