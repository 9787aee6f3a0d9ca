--------------------------- MODULE SigningService ---------------------------
(***************************************************************************)
(* The server as a whole: the handlers and collections of PetitionSigning  *)
(* together with the proving service they share.  The service is taken by  *)
(* its promise, BoundedProver, which ProvingService is shown to keep; here *)
(* a call of Aggregate is no single step, but enters the service, waits    *)
(* for a slot, is worked on and returns, while other handlers run.         *)
(***************************************************************************)
EXTENDS PetitionSigning

CONSTANT Capacity  \* the slots of the service

ASSUME CapacityPositive == Capacity \in Nat \ {0}

VARIABLES
  phase,     \* phase[r]: what the service does for the call of r
  verified,  \* the requests whose proof `bb verify` accepted
  proven     \* the requests whose Aggregate returned a proof

proverVars  == <<phase, verified, proven>>
serviceVars == <<vars, proverVars>>

Prover == INSTANCE BoundedProver WITH Calls <- Requests

ServiceInit == Init /\ Prover!Init

-----------------------------------------------------------------------------
(* What a handler does apart from its call of Aggregate, and what happens  *)
(* to it, leaves the service alone: acquire is called inside of Aggregate, *)
(* so no slot is waited for or held while the database is asked.           *)
Elsewhere ==
  /\ \/ \E p \in Petitions : CreatePetition(p)
     \/ \E r \in Requests : Receive(r) \/ RefuseBody(r) \/ Disconnect(r)
  /\ UNCHANGED proverVars

AsksDatabase(r) == Database(r) /\ UNCHANGED proverVars

-----------------------------------------------------------------------------
(* The call of Aggregate.                                                  *)

(* The request passes the checks and queues for a slot. *)
Enters(r) ==
  /\ pc[r] = "aggregate"
  /\ Prover!Enter(r)
  /\ UNCHANGED vars

(* Its checks fail, or its client leaves the queue: Aggregate returns an   *)
(* error and the handler answers 400.                                      *)
TurnedAway(r) ==
  /\ phase[r] = "waiting" => r \in gone
  /\ Prover!TurnAway(r)
  /\ AggregateFails(r)

Begins(r) == Prover!Begin(r) /\ UNCHANGED vars
Verifies(r) == Prover!Verify(r) /\ UNCHANGED vars

(* Faulty variant: a command that hangs is never killed. *)
FinishesVerified(r) == r \in verified /\ Prover!Finish(r) /\ UNCHANGED vars

Finishes(r) == Prover!Finish(r) /\ UNCHANGED vars

(* Faulty variant: the error Aggregate returns is only logged. *)
ReturnsTrusted(r) ==
  /\ Prover!Answer(r)
  /\ AggregateSucceeds(r) \/ (r \notin proven' /\ AggregateFails(r))

(* Aggregate returns a proof or an error, and the handler goes on. *)
Returns(r) ==
  /\ Prover!Answer(r)
  /\ IF r \in proven' THEN AggregateSucceeds(r) ELSE AggregateFails(r)

(* The handlers and the service are one process. *)
ServerDies == Crash /\ Prover!Crash

-----------------------------------------------------------------------------
Waits(r) == AsksDatabase(r) \/ Enters(r) \/ TurnedAway(r) \/ Returns(r)

ServiceNext ==
  \/ Elsewhere
  \/ \E r \in Requests : Waits(r) \/ Begins(r) \/ Verifies(r) \/ Finishes(r)
  \/ ServerDies

ServiceSpec == ServiceInit /\ [][ServiceNext]_serviceVars

(* Every call a handler makes ends; a call that can take a slot takes it   *)
(* (the senders on a Go channel are served in order, so none is overtaken  *)
(* for ever), and a call that has one gives it back (EveryCallReturns of   *)
(* ProvingService, with a timeout).  Nothing is ever verified by itself.   *)
FairServiceSpec ==
  /\ ServiceSpec
  /\ \A r \in Requests : /\ WF_serviceVars(Waits(r))
                         /\ WF_serviceVars(Begins(r))
                         /\ WF_serviceVars(Finishes(r))

-----------------------------------------------------------------------------
(* Properties.                                                             *)

Phases == {"idle", "waiting", "proving", "finished", "answered", "lost"}

(* The types, and where the handler is at each phase of its call.          *)
ServiceTypeOK ==
  /\ phase \in [Requests -> Phases]
  /\ verified \subseteq Requests
  /\ proven \subseteq Requests
  /\ \A r \in Requests :
       /\ phase[r] \in {"waiting", "proving", "finished"} => pc[r] = "aggregate"
       /\ phase[r] = "answered" => pc[r] \in {"insert", "increment", "answered", "lost"}
       /\ phase[r] = "lost" => pc[r] = "lost"

(* A signature is stored, and a request is answered 200, only if `bb       *)
(* verify` accepted the proof of this very request (server.go:268-318,     *)
(* service.go:226): no crash, disconnect, race or failing call makes a     *)
(* handler go on with anything else.                                       *)
SignedOnVerified ==
  \A r \in Requests : StoredBy(r) \/ status[r] = "ok" => r \in proven \cap verified

(* What the handler can refuse costs no proof (server.go:250, "BEFORE      *)
(* running expensive aggregation").  A request whose nullifier has signed  *)
(* its petition before it is checked never enters the service, whatever    *)
(* happens meanwhile, unless the check itself failed; a repetition that    *)
(* arises only after the check is not meant, and is for the insert to find *)
(* (server.go:289).  A request that entered discloses what its petition    *)
(* requires, unless the petition could not be looked up.                   *)
Unchecked(r) == pc[r] \in {"idle", "lookup", "check"}
RefusedUnproved ==
  \A r \in Requests :
    /\ [](Unchecked(r) /\ Repeated(r) => [](phase[r] = "idle" \/ <<r, "check">> \in failed))
    /\ [](phase[r] # "idle" => Validated(r))

(* Every request is answered although the slots are shared                 *)
(* (server.go:188-318, service.go:251-259): whoever holds a slot gives it  *)
(* back, and a crash frees the slots of the calls it loses.                *)
EveryRequestServed ==
  \A r \in Requests : pc[r] \in Active ~> pc[r] \in {"answered", "lost"}

-----------------------------------------------------------------------------
(* The inductive invariant behind the properties, with IInv of the         *)
(* handlers.                                                               *)

(* What is known of the call of r at each point of its handler. *)
CallOf(r) ==
  /\ Unchecked(r) => phase[r] = "idle"
  /\ pc[r] \in {"insert", "increment"} \/ StoredBy(r) \/ status[r] = "ok" => r \in proven
  /\ phase[r] # "idle" =>
       req[r].petition \in created \cup {"unknown", "none"} /\ Validated(r)

ServiceInv == IInv /\ ServiceTypeOK /\ proven \subseteq verified /\ \A r \in Requests : CallOf(r)

=============================================================================
