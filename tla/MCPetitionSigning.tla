-------------------------- MODULE MCPetitionSigning --------------------------
(* Instances of PetitionSigning for the model checker.                       *)
EXTENDS PetitionSigning, TLC

(* The requests are interchangeable.                                         *)
Symmetry == Permutations(Requests)

(* The same reduction for a run that checks liveness, where TLC cannot use a *)
(* symmetry set: of two requests with different data, the first in an        *)
(* arbitrary order of the requests has the data of the lower rank.  Every    *)
(* other initial state is a renaming of one of these, and so are its         *)
(* behaviours.                                                               *)
Rank(d) ==
  LET petition == CASE d.petition = "none" -> 0 [] d.petition = "unknown" -> 1 [] OTHER -> 2
      nullifier == IF d.nullifier = Zero THEN 0 ELSE 1
      claim == CASE d.claim = "canonical" -> 0 [] d.claim = "variant" -> 1 [] OTHER -> 2
  IN ((petition * 2 + nullifier) * 3 + claim) * 2 + Cardinality(d.fields)
First == CHOOSE r \in Requests : TRUE
MCInit == Init /\ \A r \in Requests : Rank(req[First]) <= Rank(req[r])
MCFairSpec == MCInit /\ [][Next]_vars /\ \A r \in Requests : WF_vars(Handler(r))
=============================================================================
