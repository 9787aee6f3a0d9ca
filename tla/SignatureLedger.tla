-------------------------- MODULE SignatureLedger ---------------------------
(***************************************************************************)
(* What signing a petition promises, without database calls or handlers:   *)
(* a ledger that only grows, holds each pair of a petition and a nullifier *)
(* once, and turns a request away as a repetition only for a pair that     *)
(* another request has signed.                                             *)
(***************************************************************************)
CONSTANT Requests

VARIABLES
  data,       \* data[r]: the petition and the nullifier request r is about
  ledger,     \* the signatures, each with the request that made it
  refused     \* the requests that were told "already signed"

vars == <<data, ledger, refused>>

Key(s) == <<s.petition, s.nullifier>>
Made(r) == {s \in ledger : s.by = r}
KeyOf(r) == <<data[r].petition, data[r].nullifier>>

Init == ledger = {} /\ refused = {}

Sign(r) ==
  /\ r \notin refused
  /\ \A s \in ledger : s.by # r /\ Key(s) # KeyOf(r)
  /\ ledger' = ledger \cup
       {[by |-> r, petition |-> data[r].petition, nullifier |-> data[r].nullifier]}
  /\ UNCHANGED <<data, refused>>

TurnDown(r) ==
  /\ Made(r) = {}
  /\ \E s \in ledger : Key(s) = KeyOf(r)
  /\ refused' = refused \cup {r}
  /\ UNCHANGED <<data, ledger>>

Next == \E r \in Requests : Sign(r) \/ TurnDown(r)

Spec == Init /\ [][Next]_vars

=============================================================================
