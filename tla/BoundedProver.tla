--------------------------- MODULE BoundedProver ----------------------------
(***************************************************************************)
(* What the proving service promises its callers, without queue, files or  *)
(* processes: at most Capacity calls are worked on at a time, a call is    *)
(* answered once and after its work is finished, and a call that is given  *)
(* a proof is one whose proof was verified before.  The service can die    *)
(* with all its calls; what it started may go on and even be verified.     *)
(***************************************************************************)
EXTENDS Integers, FiniteSets

CONSTANTS Calls, Capacity

VARIABLES
  phase,     \* phase[c]: "idle", "waiting", "proving", "finished", "answered", "lost"
  verified,  \* the calls whose proof has been verified
  proven     \* the calls that were answered with a proof

vars == <<phase, verified, proven>>

Init ==
  /\ phase = [c \in Calls |-> "idle"]
  /\ verified = {}
  /\ proven = {}

Proving == {c \in Calls : phase[c] = "proving"}

Enter(c) ==
  /\ phase[c] = "idle"
  /\ phase' = [phase EXCEPT ![c] = "waiting"]
  /\ UNCHANGED <<verified, proven>>

(* Refused at once, or given up while waiting. *)
TurnAway(c) ==
  /\ phase[c] \in {"idle", "waiting"}
  /\ phase' = [phase EXCEPT ![c] = "answered"]
  /\ UNCHANGED <<verified, proven>>

Begin(c) ==
  /\ phase[c] = "waiting"
  /\ Cardinality(Proving) < Capacity
  /\ phase' = [phase EXCEPT ![c] = "proving"]
  /\ UNCHANGED <<verified, proven>>

Verify(c) ==
  /\ phase[c] \in {"proving", "lost"}
  /\ verified' = verified \cup {c}
  /\ UNCHANGED <<phase, proven>>

Finish(c) ==
  /\ phase[c] = "proving"
  /\ phase' = [phase EXCEPT ![c] = "finished"]
  /\ UNCHANGED <<verified, proven>>

Answer(c) ==
  /\ phase[c] = "finished"
  /\ phase' = [phase EXCEPT ![c] = "answered"]
  /\ \/ c \in verified /\ proven' = proven \cup {c}
     \/ UNCHANGED proven
  /\ UNCHANGED verified

(* Every call under way is lost. *)
Crash ==
  /\ phase' = [c \in Calls |-> IF phase[c] \in {"waiting", "proving", "finished"}
                               THEN "lost" ELSE phase[c]]
  /\ UNCHANGED <<verified, proven>>

Next ==
  \/ \E c \in Calls : \/ Enter(c) \/ TurnAway(c) \/ Begin(c) \/ Verify(c)
                      \/ Finish(c) \/ Answer(c)
  \/ Crash

Spec == Init /\ [][Next]_vars

=============================================================================
