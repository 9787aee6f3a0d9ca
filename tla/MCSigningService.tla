-------------------------- MODULE MCSigningService --------------------------
(* Instances of SigningService for TLC.                                      *)
EXTENDS SigningService, MCPetitionSigning

(* Two requests for one petition, with the same nullifier or not, spelled as *)
(* the prover does or not extracted; what else they can carry is the subject *)
(* of the runs of PetitionSigning.                                           *)
MCServiceInit ==
  /\ MCInit /\ Prover!Init
  /\ \A r \in Requests : req[r].petition \in Petitions /\ req[r].claim # "variant"

MCFairServiceSpec ==
  /\ MCServiceInit /\ [][ServiceNext]_serviceVars
  /\ \A r \in Requests : /\ WF_serviceVars(Waits(r))
                         /\ WF_serviceVars(Begins(r))
                         /\ WF_serviceVars(Finishes(r))
=============================================================================
