------------------------------ MODULE FixtureRun ------------------------------
(***************************************************************************)
(* The fixture commands of crates/prover-cli/src/main.rs:                  *)
(*   solve  SolveFixtureWitnesses   witnesses of the inner circuits        *)
(*   inner  ProveFixtureInner       their proofs                           *)
(*   outer  ProveFixtureOuter       the outer proof over the inner ones    *)
(* Runs of the three share one directory, the default outputs/<fixture>/   *)
(* proofs (solve only when --output-dir says so), and meet through files   *)
(* alone: a run writes one file after the other, summary.json last; an     *)
(* outer run reads summary.json and then proof.bin and public_inputs.bin   *)
(* of every circuit listed in it.  fs::write truncates first, so a file is *)
(* Torn in between, and stays so when the run dies there.                  *)
(*                                                                         *)
(* What a file holds is the run that wrote it.  The circuit solver, bb and *)
(* the scripts are external: each may fail.  A proof that does not verify  *)
(* is no error, its run goes on and only records it, so the verdict is not *)
(* part of the model.  The key a proof comes with is the packaged one it   *)
(* is compared with (proving.rs:434), so generated_vk.bin is never written.*)
(***************************************************************************)
EXTENDS Naturals, FiniteSets

CONSTANTS
  Runs,          \* runs of the commands, each started at most once
  Base,          \* the circuits every summary must list: dsc, id_data, integrity
  Disclosures,   \* the disclosure circuits; numbers, in the order of the jobs
  NoFile, Torn,  \* no such file; a truncated one
  MaxDisclosed,  \* bound: disclosure circuits of one run
  MaxOverlapped, \* bound: runs started when one of them overlaps another
  MaxAborts,     \* bound: runs that fail or are killed
  MaxEdits       \* bound: changes of the certificates, in the registry or in
                 \* the file given

Circuits == Base \cup Disclosures
ASSUME FixtureAssumption ==
  /\ Circuits \subseteq Nat \ {0} /\ IsFiniteSet(Runs) /\ MaxAborts \in Nat
  /\ NoFile \notin Runs /\ Torn \notin Runs /\ NoFile # Torn

Paths == (Circuits \X {"inputs", "witness", "proof", "vk", "public"})
  \cup ({0} \X {"summary", "bundle", "outer_inputs", "witness", "proof", "vk",
                "public", "result"})
Summary == <<0, "summary">>

VARIABLES
  file,     \* [Paths -> NoFile, Torn or the run whose content it is]
  run,      \* what each run holds
  certs,    \* the present version of the certificates
  overlap,  \* history: did two runs work at the same time?
  aborts    \* how many runs have failed

vars == <<file, run, certs, overlap, aborts>>

New == [kind |-> "none", pc |-> "new", given |-> FALSE, since |-> 0, jobs |-> {},
        todo |-> {}, path |-> Summary, env |-> "unset", asked |-> "legacy",
        witness |-> "none", rust |-> 0, same |-> TRUE,
        summary |-> NoFile, bundle |-> {}]
\* What matters of a run that is over.
Done(record) == [New EXCEPT !.kind = record.kind, !.pc = "done",
                   !.since = record.since, !.jobs = record.jobs]

Init ==
  /\ file = [p \in Paths |-> NoFile] /\ run = [r \in Runs |-> New]
  /\ certs = 1 /\ overlap = FALSE /\ aborts = 0

Started == Cardinality({r \in Runs : run[r].pc # "new"})
Ended(r) == run[r].pc \in {"done", "failed"}
Busy(r) == run[r].pc # "new" /\ ~Ended(r)
AtRest == \A r \in Runs : ~Busy(r)
Circuit(r) == CHOOSE n \in run[r].todo : \A k \in run[r].todo : n <= k
Set(r, record) == run' = [run EXCEPT ![r] = record]
\* A file that another run reads is truncated in a step of its own.
Shared == {Summary} \cup (Circuits \X {"proof", "public"})
Write(record, n, name) ==
  [record EXCEPT !.pc = IF <<n, name>> \in Shared THEN "open" ELSE "fill",
                 !.path = <<n, name>>]

\* The next circuit of solve_fixture_jobs, or its summary.
NextJob(record) ==
  IF record.todo = {} THEN Write(record, 0, "summary")
                      ELSE [record EXCEPT !.pc = "solve"]

------------------------------------------------------------------------------
(* What the three commands do before they write.                           *)

\* No lock keeps two runs from writing the same files at once, and their
\* contents are then mixed without order: such runs are left out, and only an
\* outer run and one that writes what it reads may overlap.
\* The process inherits the environment of its parent.
Start(r, kind, given, asked) ==
  /\ run[r].pc = "new"
  /\ overlap' = (overlap \/ \E q \in Runs : Busy(q))
  /\ overlap' => Started < MaxOverlapped
  /\ \A q \in Runs : Busy(q) => (run[q].kind = "outer") # (kind = "outer")
  /\ \E env \in {"unset", "msgpack"} :
       Set(r, [New EXCEPT !.kind = kind, !.given = given, !.asked = asked, !.env = env,
                 !.since = Started + 1,
                 !.pc = IF kind = "outer" THEN "readSummary" ELSE "certificates"])
  /\ UNCHANGED <<file, certs, aborts>>

StartCommand(r) ==
  \/ \E given \in BOOLEAN : Start(r, "inner", given, "legacy")
  \/ \E given \in BOOLEAN : Start(r, "solve", given, "compact")
  \/ \E asked \in {"legacy", "compact"} : Start(r, "outer", FALSE, asked)

\* materialize_certificates_path: the file given, or the registry's, kept in a
\* temporary file for the script.
LoadCertificates(r) ==
  /\ run[r].pc = "certificates"
  /\ Set(r, [run[r] EXCEPT !.pc = "script", !.rust = certs])
  /\ UNCHANGED <<file, certs, overlap, aborts>>

\* run_reference_inputs_script: the script reads the certificates again, from
\* the path it is given.  (Mutant: it fetches them itself.)  Then the jobs:
\* the three base circuits, and the disclosures the script planned.
ScriptFetches(r) == certs
ScriptReads(r) == IF run[r].given THEN certs ELSE run[r].rust

CollectJobs(r) ==
  LET same == ScriptReads(r) = run[r].rust IN
  /\ run[r].pc = "script"
  /\ \E ds \in SUBSET Disclosures :
       /\ ds # {} /\ Cardinality(ds) <= MaxDisclosed
       /\ Set(r, NextJob([run[r] EXCEPT !.same = same, !.rust = 0,
                            !.given = @ /\ ~same,
                            !.jobs = Base \cup ds, !.todo = Base \cup ds]))
  /\ UNCHANGED <<file, certs, overlap, aborts>>

\* outer-inputs.cjs: the circuits are those of summary.json.  (Mutant: those
\* with a proof.bin in the directory.)
ListedByFiles(r) == {n \in Circuits : file[<<n, "proof">>] # NoFile}
Listed(r) == run[file[Summary]].jobs

ReadSummary(r) ==
  /\ run[r].pc = "readSummary" /\ file[Summary] \in Runs
  /\ Set(r, [run[r] EXCEPT !.pc = "read", !.summary = file[Summary],
               !.todo = Listed(r)])
  /\ UNCHANGED <<file, certs, overlap, aborts>>

\* proof.bin, then public_inputs.bin.  A truncated file is noticed only when
\* its length is not a multiple of 32 bytes.
Wanted(r) ==
  LET n == Circuit(r)
  IN <<n, IF \E t \in run[r].bundle : t[1] = n THEN "public" ELSE "proof">>

ReadFile(r) ==
  LET p == Wanted(r) IN
  /\ run[r].pc = "read" /\ run[r].todo # {} /\ file[p] # NoFile
  /\ Set(r, [run[r] EXCEPT
       !.bundle = @ \cup {<<p[1], p[2], file[p]>>},
       !.todo = IF p[2] = "public" THEN @ \ {p[1]} ELSE @])
  /\ UNCHANGED <<file, certs, overlap, aborts>>

\* The bundle is on its way to the circuit: what it was read from is forgotten.
WriteBundle(r) ==
  /\ run[r].pc = "read" /\ run[r].todo = {}
  /\ Set(r, Write([run[r] EXCEPT !.bundle = {}, !.summary = NoFile], 0, "bundle"))
  /\ UNCHANGED <<file, certs, overlap, aborts>>

------------------------------------------------------------------------------
(* Solving, proving, and the files.                                        *)

\* The serialization format is an environment variable: solving sets it or
\* removes it.  (Mutant: the legacy format leaves it as it is.)
FormatSetOnly(asked, env) ==
  IF asked = "compact" THEN "msgpack" ELSE env
Format(asked, env) == IF asked = "compact" THEN "msgpack" ELSE "unset"

Solve(r) ==
  LET env == Format(run[r].asked, run[r].env)
      solved == [run[r] EXCEPT !.env = env, !.witness =
                   IF env = "unset" THEN "legacy" ELSE "compact"]
  IN
  /\ run[r].pc = "solve"
  /\ Set(r, IF run[r].kind = "outer" THEN Write(solved, 0, "witness")
                                     ELSE Write(solved, Circuit(r), "inputs"))
  /\ UNCHANGED <<file, certs, overlap, aborts>>

\* bb prove and bb verify.
Prove(r) ==
  /\ run[r].pc = "prove" /\ Set(r, Write(run[r], run[r].path[1], "proof"))
  /\ UNCHANGED <<file, certs, overlap, aborts>>

OpenFile(r) ==
  /\ run[r].pc = "open"
  /\ file' = [file EXCEPT ![run[r].path] = Torn]
  /\ Set(r, [run[r] EXCEPT !.pc = "fill"])
  /\ UNCHANGED <<certs, overlap, aborts>>

\* The order of the files: those of solve_fixture_jobs and
\* persist_proof_artifacts, and those of ProveFixtureOuter.  (Mutants: solve
\* goes on to prove; the public inputs are forgotten.)
AfterWitnessProve(record, n) == [record EXCEPT !.pc = "prove"]
AfterWitness(record, n) ==
  IF record.kind = "solve" THEN NextJob([record EXCEPT !.todo = @ \ {n}])
                           ELSE [record EXCEPT !.pc = "prove"]
AfterPublic(record, n) ==
  IF n = 0 THEN Write(record, 0, "result")
           ELSE NextJob([record EXCEPT !.todo = @ \ {n}])
AfterVkDone(record, n) == AfterPublic(record, n)
AfterVk(record, n) == Write(record, n, "public")

Following(r) ==
  LET record == run[r]
      n == record.path[1]
  IN CASE record.path[2] = "inputs" -> Write(record, n, "witness")
       [] record.path[2] = "witness" -> AfterWitness(record, n)
       [] record.path[2] = "proof" -> Write(record, n, "vk")
       [] record.path[2] = "vk" -> AfterVk(record, n)
       [] record.path[2] = "public" -> AfterPublic(record, n)
       [] record.path[2] = "bundle" -> Write(record, 0, "outer_inputs")
       [] record.path[2] = "outer_inputs" -> [record EXCEPT !.pc = "solve"]
       [] OTHER -> Done(record)

FillFile(r) ==
  /\ run[r].pc = "fill"
  /\ file' = [file EXCEPT ![run[r].path] = r]
  /\ Set(r, Following(r))
  /\ UNCHANGED <<certs, overlap, aborts>>

------------------------------------------------------------------------------
\* A step fails or the process is killed; what is written stays.  An outer run
\* that finds no summary, or no proof, ends the same way.
Fail(r) ==
  /\ Set(r, [New EXCEPT !.pc = "failed", !.since = run[r].since])
  /\ UNCHANGED <<file, certs, overlap>>

Abort(r) == Busy(r) /\ aborts < MaxAborts /\ aborts' = aborts + 1 /\ Fail(r)

Missing(r) ==
  \/ run[r].pc = "readSummary" /\ file[Summary] \in {NoFile, Torn}
  \/ /\ run[r].pc = "read" /\ run[r].todo # {}
     /\ file[Wanted(r)] \in {NoFile, Torn}

ReadMissing(r) == Missing(r) /\ Fail(r) /\ UNCHANGED aborts

\* External: the registry or the certificates file is updated.
Edit ==
  /\ certs <= MaxEdits /\ certs' = certs + 1
  /\ UNCHANGED <<file, run, overlap, aborts>>

Next ==
  \/ \E r \in Runs :
       \/ StartCommand(r) \/ LoadCertificates(r) \/ CollectJobs(r)
       \/ ReadSummary(r) \/ ReadFile(r) \/ WriteBundle(r)
       \/ Solve(r) \/ Prove(r) \/ OpenFile(r) \/ FillFile(r)
       \/ Abort(r) \/ ReadMissing(r)
  \/ Edit

Spec == Init /\ [][Next]_vars

------------------------------------------------------------------------------
(* Properties.                                                             *)

\* Every path is absent, torn, or written by a run of a kind that writes it.
TypeOK ==
  /\ \A p \in Paths : file[p] \in Runs \cup {NoFile, Torn}
  /\ aborts <= MaxAborts
  /\ \A r \in Runs :
       /\ run[r].path \in Paths /\ run[r].todo \subseteq Circuits
       /\ run[r].pc \in {"open", "fill"} /\ run[r].kind = "solve"
            => run[r].path[2] \in {"inputs", "witness", "summary"}
       /\ run[r].bundle # {} => run[r].kind = "outer"

\* bb gets each witness in the format the command asked for, although the
\* format is process-wide state, inherited from whoever started prover-cli and
\* left behind by the circuit before (witness.rs:57).
WitnessFormatRight ==
  \A r \in Runs : run[r].pc = "prove" => run[r].witness = run[r].asked

\* The script builds its inputs from the certificates the CSCA is chosen from,
\* even when the registry changes in between; only a file given on the command
\* line is read twice.
SameCertificates ==
  \A r \in Runs : run[r].same \/ run[r].given

\* summary.json and outer_result.json are written last: while nobody runs and
\* unless two overlapped, the files of the circuits they list are of their own
\* run, whatever earlier runs left, or were begun by a later run that died.
\* In particular nothing of an earlier run is ever listed.
FilesOf(n) == {<<n, "witness">>, <<n, "proof">>, <<n, "vk">>, <<n, "public">>}
DiedAfter(r) ==
  {q \in Runs : run[q].pc = "failed" /\ run[q].since > run[r].since}
Current(r, p) ==
  \/ file[p] = r
  \/ DiedAfter(r) # {} /\ file[p] \in DiedAfter(r) \cup {Torn}
IndexWhole ==
  AtRest /\ ~overlap =>
    /\ \A r \in Runs :
         file[Summary] = r /\ run[r].kind = "inner" =>
           \A n \in run[r].jobs : \A p \in FilesOf(n) : Current(r, p)
    /\ \A r \in Runs :
         file[<<0, "result">>] = r =>
           \A p \in FilesOf(0) \cup {<<0, "bundle">>} : Current(r, p)

\* An outer proof is made from the proofs and public inputs of one inner run,
\* the one that wrote the summary, unless two runs overlapped, the summary was
\* written by a solve run over older proofs, or a later run died midway; then
\* only what that run wrote is mixed in.
BundleOfOneRun ==
  \A r \in Runs :
    LET s == run[r].summary IN
    \/ overlap
    \/ s \in Runs /\ run[s].kind = "solve"
    \/ \A t \in run[r].bundle :
         t[3] = s \/ (DiedAfter(s) # {} /\ t[3] \in DiedAfter(s) \cup {Torn})
==============================================================================
