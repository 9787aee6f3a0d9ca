-------------------------- MODULE MCCircuitRegistry --------------------------
(* A small registry: two circuits; two versions, one of them published in   *)
(* three ways (another root, or the same root over other nodes); a manifest *)
(* without circuit 2; and a package rebuilt with another compiler under the *)
(* same hash.                                                               *)
EXTENDS CircuitRegistry, TLC

Node(hash) == [hash |-> hash, size |-> 1]
Manifest(version, root, circuits) ==
  [version |-> version, root |-> root, circuits |-> circuits]
MCManifests ==
  {Manifest("v1", "r1", 1 :> Node("a") @@ 2 :> Node("b")),
   Manifest("v1", "r1", 1 :> Node("a") @@ 2 :> Node("c")),
   Manifest("v1", "r3", 1 :> Node("c")),
   Manifest("v2", "r2", 1 :> Node("c") @@ 2 :> Node("b"))}
Package(hash, noir) ==
  [hash |-> hash, vkey |-> hash, noir |-> noir, bb |-> "bb"]
MCPackages ==
  {Package(h, "old") : h \in {"a", "b", "c"}} \cup {Package("b", "new")}
Pin(version, root, n, hash) ==
  [version |-> version, root |-> root,
   circuits |-> n :> [hash |-> hash, size |-> 1, vkey |-> hash,
                      noir |-> "old", bb |-> "bb"]]
MCKept == {Pin("v1", "r1", 1, "a"), Pin("v2", "r2", 2, "b")}
Symmetry == Permutations(Clients)

\* Bound: the registry starts with the first of the manifests of v1 and the
\* packages of the old compiler; every change of it is a step.
MCInit ==
  /\ Init /\ published["v1"] = Manifest("v1", "r1", 1 :> Node("a") @@ 2 :> Node("b"))
  /\ \A h \in Hashes : served[h].noir = "old"
MCSpec == MCInit /\ [][Next]_vars
==============================================================================
