----------------------------- MODULE MCFixtureRun -----------------------------
(* Symmetry for the runs of FixtureRun: they are interchangeable ids.        *)
EXTENDS FixtureRun, TLC
Symmetry == Permutations(Runs)
==============================================================================
