-------------------------- MODULE MCProvingService --------------------------
(* Instances of ProvingService for TLC. *)
EXTENDS ProvingService, TLC

Symmetry == Permutations(Jobs)

=============================================================================
