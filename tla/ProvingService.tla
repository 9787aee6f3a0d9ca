--------------------------- MODULE ProvingService ---------------------------
(***************************************************************************)
(* proving.Service of the Go server, together with the process tree one    *)
(* call of Aggregate starts: prover-cli (crates/prover-cli) and the child  *)
(* prover-cli is blocked on (node, `bb prove`, `bb verify`).               *)
(*                                                                         *)
(* Every call of Aggregate is one member of Jobs and runs in the goroutine *)
(* of its HTTP request.  A step is what other goroutines, the children or  *)
(* the kernel can interleave with: a channel operation, the update of the  *)
(* atomic counter, a file-system call, the start and the exit of a process.*)
(* The server can die at any time and be started again: its channel and    *)
(* counter start afresh, its calls are lost, its processes may go on.      *)
(***************************************************************************)
EXTENDS Integers, FiniteSets

CONSTANTS
  Jobs,            \* the calls of Aggregate, one goroutine each
  MaxConcurrency,  \* Config.MaxConcurrency, any integer
  TimeoutSet       \* TRUE iff Config.Timeout > 0

ASSUME JobsFinite == IsFiniteSet(Jobs)
ASSUME MaxConcurrencyInt == MaxConcurrency \in Int
ASSUME TimeoutSetBool == TimeoutSet \in BOOLEAN

VARIABLES
  pc,        \* pc[j]: where the goroutine of j stands in Aggregate
  slots,     \* number of tokens in the channel Service.slots
  inflight,  \* Service.inflight
  ctx,       \* ctx[j]: "live", "cancelled" (client gone), "expired" (deadline)
  tmp,       \* the temporary files of the Go side that exist: <<j, kind>>
  result,    \* result[j]: what Aggregate returned to its caller
  cli,       \* cli[j]: the stage of j's prover-cli, or how it ended
  child,     \* child[j]: the live process started by j's prover-cli
  scratch,   \* jobs whose prover-cli left or keeps a temporary directory
  verdict,   \* verdict[j]: exit status of j's `bb verify`
  out        \* out[j]: proof_verified in the response file prover-cli wrote

goVars  == <<pc, slots, inflight, ctx, tmp, result>>
cliVars == <<cli, child, scratch, verdict, out>>
vars    == <<pc, slots, inflight, ctx, tmp, result, cli, child, scratch, verdict, out>>

-----------------------------------------------------------------------------
(* The capacity NewService gives the channel. *)
Capacity == IF MaxConcurrency <= 0 THEN 1 ELSE MaxConcurrency

(* The program points at which the goroutine owns a token of the channel,  *)
(* those at which inflight counts it, and those at which its deadline runs.*)
Working  == {"requestFile", "encode", "outputFile", "exec", "wait", "read",
             "removeOutput", "removeRequest", "release"}
Holding  == Working \cup {"admitted"}
Counting == Working \cup {"uncount"}
Points   == {"idle", "queue", "returned", "lost"} \cup Holding \cup Counting

Holders == {j \in Jobs : pc[j] \in Holding}
Counted == {j \in Jobs : pc[j] \in Counting}
Running == {j \in Jobs : pc[j] \notin {"idle", "returned", "lost"}}
Lost    == {j \in Jobs : pc[j] = "lost"}

(* The stages in which prover-cli is blocked on a child, named after it,   *)
(* and the stages in between.                                              *)
ChildStages == {"node", "bbProve", "bbVerify"}
OwnStages   == {"load", "solve", "proved", "write", "exiting"}
Alive       == ChildStages \cup OwnStages
Killed      == {"killedByContext", "killedByKernel"}
Dead        == Killed \cup {"exited", "failed"}

Requests  == {"request", "response"}
Errors    == {"invalid", "cancelled", "ioError", "failed", "likelyOOM",
              "badResponse", "unverified"}
Contexts  == {"live", "cancelled", "expired"}
CtxDone(j) == ctx[j] # "live"

Init ==
  /\ pc = [j \in Jobs |-> "idle"]
  /\ slots = 0
  /\ inflight = 0
  /\ ctx = [j \in Jobs |-> "live"]
  /\ tmp = {}
  /\ result = [j \in Jobs |-> "none"]
  /\ cli = [j \in Jobs |-> "none"]
  /\ child = [j \in Jobs |-> "none"]
  /\ scratch = {}
  /\ verdict = [j \in Jobs |-> "none"]
  /\ out = [j \in Jobs |-> "none"]

-----------------------------------------------------------------------------
(* Aggregate: the checks on the request and the acquisition of a slot.     *)

Step(j, from, to) == pc[j] = from /\ pc' = [pc EXCEPT ![j] = to]
Answer(j, r) == result' = [result EXCEPT ![j] = r]

(* The request passes the checks and the goroutine blocks in acquire. *)
Call(j) ==
  /\ Step(j, "idle", "queue")
  /\ UNCHANGED <<slots, inflight, ctx, tmp, result, cliVars>>

(* Version, inner proofs, disclosures or the configuration are missing. *)
Refuse(j) ==
  /\ Step(j, "idle", "returned")
  /\ Answer(j, "invalid")
  /\ UNCHANGED <<slots, inflight, ctx, tmp, cliVars>>

(* Faulty variant: the channel is not bounded. *)
AcquireUnbounded(j) ==
  /\ Step(j, "queue", "admitted")
  /\ slots' = slots + 1
  /\ UNCHANGED <<inflight, ctx, tmp, result, cliVars>>

(* The select takes the channel; a done context does not prevent it. *)
Acquire(j) ==
  /\ Step(j, "queue", "admitted")
  /\ slots < Capacity
  /\ slots' = slots + 1
  /\ UNCHANGED <<inflight, ctx, tmp, result, cliVars>>

(* Faulty variant: the release is deferred before the acquisition. *)
AbandonReleasing(j) ==
  /\ Step(j, "queue", "release")
  /\ CtxDone(j)
  /\ Answer(j, "cancelled")
  /\ UNCHANGED <<slots, inflight, ctx, tmp, cliVars>>

(* Faulty variant: acquire does not listen to the context. *)
AbandonDeaf(j) == FALSE /\ UNCHANGED vars

(* The select takes ctx.Done(). *)
Abandon(j) ==
  /\ Step(j, "queue", "returned")
  /\ CtxDone(j)
  /\ Answer(j, "cancelled")
  /\ UNCHANGED <<slots, inflight, ctx, tmp, cliVars>>

Count(j) ==
  /\ Step(j, "admitted", "requestFile")
  /\ inflight' = inflight + 1
  /\ UNCHANGED <<slots, ctx, tmp, result, cliVars>>

-----------------------------------------------------------------------------
(* Aggregate: the temporary files and the command.                         *)

CreateRequestFile(j) ==
  /\ \/ /\ Step(j, "requestFile", "encode")
        /\ tmp' = tmp \cup {<<j, "request">>}
        /\ UNCHANGED result
     \/ /\ Step(j, "requestFile", "release")
        /\ Answer(j, "ioError")
        /\ UNCHANGED tmp
  /\ UNCHANGED <<slots, inflight, ctx, cliVars>>

(* Faulty variant: the removal of the file is deferred after the encoding. *)
EncodeBeforeDefer(j) ==
  /\ \/ /\ Step(j, "encode", "outputFile")
        /\ UNCHANGED result
     \/ /\ Step(j, "encode", "release")
        /\ Answer(j, "ioError")
  /\ UNCHANGED <<slots, inflight, ctx, tmp, cliVars>>

EncodeRequest(j) ==
  /\ \/ /\ Step(j, "encode", "outputFile")
        /\ UNCHANGED result
     \/ /\ Step(j, "encode", "removeRequest")
        /\ Answer(j, "ioError")
  /\ UNCHANGED <<slots, inflight, ctx, tmp, cliVars>>

(* Faulty variant: an early return that forgets to release the slot. *)
CreateOutputLosingSlot(j) ==
  /\ \/ /\ Step(j, "outputFile", "exec")
        /\ tmp' = tmp \cup {<<j, "response">>}
        /\ UNCHANGED result
     \/ /\ Step(j, "outputFile", "returned")
        /\ Answer(j, "ioError")
        /\ tmp' = tmp \ {<<j, "request">>}
  /\ UNCHANGED <<slots, inflight, ctx, cliVars>>

CreateOutputFile(j) ==
  /\ \/ /\ Step(j, "outputFile", "exec")
        /\ tmp' = tmp \cup {<<j, "response">>}
        /\ UNCHANGED result
     \/ /\ Step(j, "outputFile", "removeRequest")
        /\ Answer(j, "ioError")
        /\ UNCHANGED tmp
  /\ UNCHANGED <<slots, inflight, ctx, cliVars>>

(* cmd.Start refuses a context that is done; otherwise prover-cli runs. *)
StartCommand(j) ==
  /\ ~CtxDone(j)
  /\ Step(j, "exec", "wait")
  /\ cli' = [cli EXCEPT ![j] = "load"]
  /\ UNCHANGED <<slots, inflight, ctx, tmp, result, child, scratch, verdict, out>>

(* cmd.Start fails: the context is done, or the binary cannot be run. *)
StartFails(j) ==
  /\ Step(j, "exec", "removeOutput")
  /\ Answer(j, "failed")
  /\ UNCHANGED <<slots, inflight, ctx, tmp, cliVars>>

(* Faulty variant: exec.Command, which knows no context. *)
NoContextKills(j) == FALSE /\ UNCHANGED vars

(* The goroutine of CommandContext sends SIGKILL, to prover-cli only. *)
ContextKills(j) ==
  /\ CtxDone(j)
  /\ pc[j] = "wait" /\ cli[j] \in Alive
  /\ cli' = [cli EXCEPT ![j] = "killedByContext"]
  /\ UNCHANGED <<goVars, child, scratch, verdict, out>>

(* CombinedOutput returns nil: prover-cli exited 0. *)
CommandSucceeds(j) ==
  /\ Step(j, "wait", "read")
  /\ cli[j] = "exited"
  /\ UNCHANGED <<slots, inflight, ctx, tmp, result, cliVars>>

(* Faulty variant: the goroutine leaves on ctx.Done() without reaping. *)
CommandAbandoned(j) ==
  /\ Step(j, "wait", "removeOutput")
  /\ CtxDone(j) \/ cli[j] \in Dead
  /\ Answer(j, "failed")
  /\ UNCHANGED <<slots, inflight, ctx, tmp, cliVars>>

(* CombinedOutput returns an error.  A child ended by SIGKILL is reported  *)
(* as a likely OOM kill, whoever sent the signal.  A context that ends     *)
(* while a prover-cli that exited 0 is being reaped also yields an error.  *)
CommandFails(j) ==
  /\ Step(j, "wait", "removeOutput")
  /\ \/ cli[j] \in Killed /\ Answer(j, "likelyOOM")
     \/ cli[j] = "failed" /\ Answer(j, "failed")
     \/ cli[j] = "exited" /\ CtxDone(j) /\ Answer(j, "failed")
  /\ UNCHANGED <<slots, inflight, ctx, tmp, cliVars>>

(* Faulty variant: exit status 0 is taken for a verified proof. *)
ReadTrusting(j) ==
  /\ Step(j, "read", "removeOutput")
  /\ Answer(j, "ok") \/ Answer(j, "badResponse")
  /\ UNCHANGED <<slots, inflight, ctx, tmp, cliVars>>

(* The response file is read back and its proof_verified flag decides. *)
ReadResponse(j) ==
  /\ Step(j, "read", "removeOutput")
  /\ \/ Answer(j, IF out[j] = "valid" THEN "ok" ELSE "unverified")
     \/ Answer(j, "badResponse")
  /\ UNCHANGED <<slots, inflight, ctx, tmp, cliVars>>

-----------------------------------------------------------------------------
(* Aggregate: the deferred calls, last registered first.                   *)

RemoveOutput(j) ==
  /\ Step(j, "removeOutput", "removeRequest")
  /\ tmp' = tmp \ {<<j, "response">>}
  /\ UNCHANGED <<slots, inflight, ctx, result, cliVars>>

RemoveRequest(j) ==
  /\ Step(j, "removeRequest", "release")
  /\ tmp' = tmp \ {<<j, "request">>}
  /\ UNCHANGED <<slots, inflight, ctx, result, cliVars>>

(* release receives a token; with an empty channel it would do nothing. *)
Release(j) ==
  /\ IF slots > 0
     THEN Step(j, "release", "uncount") /\ slots' = slots - 1
     ELSE Step(j, "release", "returned") /\ UNCHANGED slots
  /\ UNCHANGED <<inflight, ctx, tmp, result, cliVars>>

Uncount(j) ==
  /\ Step(j, "uncount", "returned")
  /\ inflight' = inflight - 1
  /\ UNCHANGED <<slots, ctx, tmp, result, cliVars>>

-----------------------------------------------------------------------------
(* The contexts.                                                           *)

(* net/http cancels the request's context when the client goes away. *)
Disconnect(j) ==
  /\ j \in Running
  /\ ctx[j] = "live"
  /\ ctx' = [ctx EXCEPT ![j] = "cancelled"]
  /\ UNCHANGED <<pc, slots, inflight, tmp, result, cliVars>>

(* The timer of context.WithTimeout, armed only once the slot is owned. *)
Deadline(j) ==
  /\ TimeoutSet
  /\ pc[j] \in Working
  /\ ctx[j] = "live"
  /\ ctx' = [ctx EXCEPT ![j] = "expired"]
  /\ UNCHANGED <<pc, slots, inflight, tmp, result, cliVars>>

-----------------------------------------------------------------------------
(* prover-cli aggregate-request and its children.                          *)

(* The stage reached by starting the next child, and by its success. *)
Spawns == [load |-> "node", solve |-> "bbProve", proved |-> "bbVerify"]
After  == [node |-> "solve", bbProve |-> "proved", bbVerify |-> "write"]

(* A temporary file or directory is made, the child started and awaited. *)
CliSpawns(j) ==
  /\ cli[j] \in DOMAIN Spawns
  /\ cli' = [cli EXCEPT ![j] = Spawns[cli[j]]]
  /\ child' = [child EXCEPT ![j] = Spawns[cli[j]]]
  /\ scratch' = scratch \cup {j}
  /\ UNCHANGED <<goVars, verdict, out>>

(* The awaited child exits 0: prover-cli reads its output, drops the       *)
(* temporary directory and goes on.                                        *)
ChildSucceeds(j) ==
  /\ child[j] # "none" /\ cli[j] = child[j]
  /\ cli' = [cli EXCEPT ![j] = After[child[j]]]
  /\ verdict' = IF child[j] = "bbVerify" THEN [verdict EXCEPT ![j] = "valid"]
                                         ELSE verdict
  /\ child' = [child EXCEPT ![j] = "none"]
  /\ scratch' = scratch \ {j}
  /\ UNCHANGED <<goVars, out>>

(* The awaited child fails, or is killed for memory.  For `bb verify` this *)
(* is the verdict "not verified"; for the others prover-cli exits 1.       *)
ChildFails(j) ==
  /\ child[j] # "none" /\ cli[j] = child[j]
  /\ cli' = [cli EXCEPT ![j] = IF child[j] = "bbVerify" THEN "write" ELSE "failed"]
  /\ verdict' = IF child[j] = "bbVerify" THEN [verdict EXCEPT ![j] = "invalid"]
                                         ELSE verdict
  /\ child' = [child EXCEPT ![j] = "none"]
  /\ scratch' = scratch \ {j}
  /\ UNCHANGED <<goVars, out>>

(* A child whose prover-cli is dead ends some day. *)
OrphanEnds(j) ==
  /\ child[j] # "none" /\ cli[j] # child[j]
  /\ child' = [child EXCEPT ![j] = "none"]
  /\ UNCHANGED <<goVars, cli, scratch, verdict, out>>

(* The response file is written whatever the verdict is. *)
CliWrites(j) ==
  /\ cli[j] = "write"
  /\ cli' = [cli EXCEPT ![j] = "exiting"]
  /\ out' = [out EXCEPT ![j] = verdict[j]]
  /\ UNCHANGED <<goVars, child, scratch, verdict>>

CliExits(j) ==
  /\ cli[j] = "exiting"
  /\ cli' = [cli EXCEPT ![j] = "exited"]
  /\ UNCHANGED <<goVars, child, scratch, verdict, out>>

(* A `?` between two children: matrix, circuit, witness, key, output file. *)
(* The response is printed last, into a pipe that dies with the server.    *)
CliFails(j) ==
  /\ cli[j] \in OwnStages
  /\ cli[j] = "exiting" => pc[j] = "lost"
  /\ cli' = [cli EXCEPT ![j] = "failed"]
  /\ UNCHANGED <<goVars, child, scratch, verdict, out>>

(* The kernel kills prover-cli itself, which solves the outer witness. *)
KernelKills(j) ==
  /\ cli[j] \in Alive
  /\ cli' = [cli EXCEPT ![j] = "killedByKernel"]
  /\ UNCHANGED <<goVars, child, scratch, verdict, out>>

-----------------------------------------------------------------------------
(* The server dies: 15 s after a signal (Shutdown does not wait longer for *)
(* its handlers), by a fatal error, or by a SIGKILL.  It is started again  *)
(* with an empty channel.  Its processes go on, or are killed with it if   *)
(* they run in a container it is the first process of.  No file is removed.*)
Crash ==
  /\ Running # {}
  /\ pc' = [j \in Jobs |-> IF j \in Running THEN "lost" ELSE pc[j]]
  /\ slots' = 0
  /\ inflight' = 0
  /\ \/ UNCHANGED <<cli, child>>
     \/ /\ cli' = [j \in Jobs |-> IF cli[j] \in Alive THEN "killedByKernel" ELSE cli[j]]
        /\ child' = [j \in Jobs |-> "none"]
  /\ UNCHANGED <<ctx, tmp, result, scratch, verdict, out>>

-----------------------------------------------------------------------------
(* What the goroutine of j does by itself. *)
Goroutine(j) ==
  \/ Acquire(j) \/ Abandon(j) \/ Count(j)
  \/ CreateRequestFile(j) \/ EncodeRequest(j) \/ CreateOutputFile(j)
  \/ StartCommand(j) \/ StartFails(j) \/ CommandSucceeds(j) \/ CommandFails(j)
  \/ ReadResponse(j) \/ RemoveOutput(j) \/ RemoveRequest(j)
  \/ Release(j) \/ Uncount(j)

(* What the processes of j do by themselves. *)
Processes(j) ==
  \/ CliSpawns(j) \/ ChildSucceeds(j) \/ ChildFails(j) \/ OrphanEnds(j)
  \/ CliWrites(j) \/ CliExits(j) \/ CliFails(j)

Environment(j) ==
  \/ Call(j) \/ Refuse(j) \/ Disconnect(j) \/ KernelKills(j)

Timer(j) == Deadline(j) \/ ContextKills(j)

Next ==
  \/ \E j \in Jobs : Goroutine(j) \/ Processes(j) \/ Environment(j) \/ Timer(j)
  \/ Crash

Spec == Init /\ [][Next]_vars

(* The Go scheduler runs every goroutine that can run, those of the        *)
(* runtime that watch a context included.  Nothing is assumed of           *)
(* prover-cli, node or bb: they may hang for ever.                         *)
FairSpec ==
  /\ Spec
  /\ \A j \in Jobs : WF_vars(Goroutine(j)) /\ WF_vars(ContextKills(j))

(* The timer of a call that owns a slot fires, when there is one. *)
TimersFire == \A j \in Jobs : WF_vars(Deadline(j))

-----------------------------------------------------------------------------
(* Properties.                                                             *)

(* The types of the variables, whatever the order of the calls' steps. *)
TypeOK ==
  /\ pc \in [Jobs -> Points]
  /\ slots \in 0 .. Capacity
  /\ inflight \in Nat
  /\ ctx \in [Jobs -> Contexts]
  /\ tmp \subseteq Jobs \X Requests
  /\ result \in [Jobs -> Errors \cup {"none", "ok"}]
  /\ cli \in [Jobs -> Alive \cup Dead \cup {"none"}]
  /\ child \in [Jobs -> ChildStages \cup {"none"}]
  /\ scratch \subseteq Jobs
  /\ verdict \in [Jobs -> {"none", "valid", "invalid"}]
  /\ out \in [Jobs -> {"none", "valid", "invalid"}]

(* Every token of the channel belongs to exactly one call, on every path   *)
(* through Aggregate (service.go:118-121, 251-267): no early return loses  *)
(* a slot and none gives back a slot of another call.  The counter agrees  *)
(* with the calls it counts although it is updated apart from the channel. *)
SlotAccounting ==
  /\ slots = Cardinality(Holders)
  /\ inflight = Cardinality(Counted)

(* The prover-cli processes outnumber MaxConcurrency (service.go:84-97) at *)
(* most by those of calls lost with an earlier server process, which does  *)
(* not wait for them (main.go:187): a slot is given back only when the     *)
(* command that ran under it is dead, whether it ended, failed, was killed *)
(* or never ran.                                                           *)
CommandsBounded ==
  Cardinality({j \in Jobs : cli[j] \in Alive}) <= Capacity + Cardinality(Lost)

(* A call that has returned leaves nothing behind (service.go:121-150):    *)
(* its two temporary files are gone and its prover-cli is dead.  A process *)
(* or a directory of prover-cli remains only if prover-cli was SIGKILLed.  *)
CleanReturn ==
  \A j \in Jobs : pc[j] = "returned" =>
    /\ \A k \in Requests : <<j, k>> \notin tmp
    /\ cli[j] \notin Alive
    /\ child[j] # "none" \/ j \in scratch => cli[j] \in Killed

(* A proof is returned only if `bb verify` of this very call accepted it   *)
(* (service.go:226, main.rs:807-817): the verdict crosses from bb to       *)
(* prover-cli, to the response file and to the Go side, and prover-cli     *)
(* exits 0 even for a proof that did not verify.                           *)
OnlyVerifiedProofs ==
  \A j \in Jobs : result[j] = "ok" => verdict[j] = "valid" /\ cli[j] = "exited"

LiveBb == {j \in Jobs : child[j] \in {"bbProve", "bbVerify"}}

(* The excess of bb processes over MaxConcurrency is never more than the   *)
(* number of calls whose prover-cli was SIGKILLed (service.go:152,         *)
(* proving.rs:138) or whose server died (main.go:187): without a kill or a *)
(* crash the limit holds for bb too.                                       *)
BbExcessExplained ==
  Cardinality(LiveBb) <= Capacity + Cardinality(Lost \cup {j \in Jobs : cli[j] \in Killed})

(* README.md:136 describes MaxConcurrency as "Max concurrent proofs".  A   *)
(* bb that outlives its killed prover-cli still computes its proof while   *)
(* its slot already serves another call, so this does not hold.            *)
BbBounded == Cardinality(LiveBb) <= Capacity

(* service.go:197 takes a SIGKILL of the subprocess for an OOM kill.  The  *)
(* deadline and the disconnect of the client end prover-cli with the same  *)
(* signal, so this does not hold.                                          *)
OOMReportHonest == \A j \in Jobs : result[j] = "likelyOOM" => cli[j] = "killedByKernel"

(* With a timeout configured every call that enters the queue returns      *)
(* (service.go:118, 123-127), even if every prover-cli and bb hangs, those *)
(* of an earlier server included: the deadline starts only with the slot,  *)
(* and the queue moves on deadlines.  Only a crash of the server loses it. *)
EveryCallReturns ==
  TimeoutSet /\ TimersFire => \A j \in Jobs : pc[j] = "queue" ~> pc[j] \in {"returned", "lost"}

(* A call whose client went away returns (service.go:152, 256), queued or  *)
(* running, even if no timer ever fires and every process hangs, unless    *)
(* the server dies.                                                        *)
DisconnectedReturns ==
  \A j \in Jobs : ctx[j] = "cancelled" ~> pc[j] \in {"returned", "lost"}

-----------------------------------------------------------------------------
(* The inductive invariant behind the properties: what is known of a call  *)
(* at each of its program points.                                          *)

BeforeStart == {"idle", "queue", "admitted", "requestFile", "encode", "outputFile", "exec"}
AfterRead   == {"removeOutput", "removeRequest", "release", "uncount", "returned", "lost"}

(* prover-cli runs only while its goroutine waits for it or after it was   *)
(* lost, and a child or a directory without a live prover-cli is what a    *)
(* SIGKILL left.                                                           *)
ProcessesOf(j) ==
  /\ cli[j] \in Alive => pc[j] \in {"wait", "lost"}
  /\ pc[j] \in BeforeStart => cli[j] = "none"
  /\ child[j] # "none" => cli[j] = child[j] \/ cli[j] \in Killed
  /\ cli[j] \in ChildStages => child[j] = cli[j]
  /\ j \in scratch => cli[j] \in ChildStages \cup Killed

(* The temporary files exist only between their creation and the deferred  *)
(* call that removes them, which a crash prevents.                         *)
FilesOf(j) ==
  /\ <<j, "request">> \in tmp =>
       pc[j] \in {"encode", "outputFile", "exec", "wait", "read", "removeOutput",
                 "removeRequest", "lost"}
  /\ <<j, "response">> \in tmp => pc[j] \in {"exec", "wait", "read", "removeOutput", "lost"}

(* A proof in the result goes back to an accepting `bb verify`. *)
ProofOf(j) ==
  /\ pc[j] = "read" => cli[j] = "exited"
  /\ verdict[j] # "none" => cli[j] \in Dead \cup {"write", "exiting"}
  /\ out[j] = "valid" => verdict[j] = "valid" /\ cli[j] \in Dead \cup {"exiting"}
  /\ result[j] = "ok" => out[j] = "valid" /\ cli[j] = "exited" /\ pc[j] \in AfterRead

CallInv == \A j \in Jobs : ProcessesOf(j) /\ FilesOf(j) /\ ProofOf(j)

IInv == TypeOK /\ SlotAccounting /\ CallInv

-----------------------------------------------------------------------------
(* What the service promises, and the view of this state that keeps it. *)

(* A call is worked on while it owns a slot, then finished and answered. *)
PhaseAt(point) == CASE point = "idle"  -> "idle"
                    [] point = "queue" -> "waiting"
                    [] point \in Holding -> "proving"
                    [] point = "uncount" -> "finished"
                    [] point = "returned" -> "answered"
                    [] point = "lost" -> "lost"

Phase    == [j \in Jobs |-> PhaseAt(pc[j])]
Verified == {j \in Jobs : verdict[j] = "valid"}
Proven   == {j \in Jobs : pc[j] = "returned" /\ result[j] = "ok"}

Promise == INSTANCE BoundedProver WITH
  Calls <- Jobs, phase <- Phase, verified <- Verified, proven <- Proven

(* Aggregate implements a prover that works on at most MaxConcurrency      *)
(* calls at a time and hands out verified proofs only (service.go:101-238).*)
KeepsPromise == Promise!Spec

=============================================================================
