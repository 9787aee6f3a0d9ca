-------------------------- MODULE FixtureRun_proofs --------------------------
(***************************************************************************)
(* Proofs about FixtureRun, for every finite set of runs and every set of  *)
(* circuits, without the bounds on overlaps and on edits.                  *)
(*                                                                         *)
(* IInv joins what a run is at (PointOf), how runs overlap (Exclusive,     *)
(* Numbered, Alone), the files a run has written of the circuit it is at   *)
(* and of those it is done with (OwnFiles), what may have become of the    *)
(* files an index lists (Indexes), and what an outer run has read so far   *)
(* (Reading).                                                              *)
(***************************************************************************)
EXTENDS FixtureRun, LeastNatural, FiniteSetTheorems


------------------------------------------------------------------------------
(* The inductive invariant behind these properties.                        *)

Contents == Runs \cup {NoFile, Torn}
Record ==
  [kind : {"none", "inner", "solve", "outer"},
   pc : {"new", "certificates", "script", "readSummary", "read", "solve",
         "prove", "open", "fill", "done", "failed"},
   given : BOOLEAN, since : Nat, jobs : SUBSET Circuits, todo : SUBSET Circuits,
   path : Paths, env : {"unset", "msgpack"},
   asked : {"legacy", "compact"}, witness : {"none", "legacy", "compact"},
   rust : Nat, same : BOOLEAN, summary : Runs \cup {NoFile},
   bundle : SUBSET (Circuits \X {"proof", "public"} \X Contents)]
Typed ==
  /\ file \in [Paths -> Contents] /\ run \in [Runs -> Record]
  /\ certs \in Nat /\ overlap \in BOOLEAN
  /\ aborts \in Nat /\ aborts <= MaxAborts

\* What a run is at: the kinds that get to a point, and the file next written.
AtCircuit(record) ==
  /\ record.path[1] \in record.todo
  /\ record.path[2] \in IF record.kind = "solve" THEN {"inputs", "witness"}
                        ELSE {"inputs", "witness", "proof", "vk", "public"}
AtFile(record) ==
  IF record.kind = "outer"
  THEN record.path \in {0} \X {"bundle", "outer_inputs", "witness", "proof", "vk",
                               "public", "result"}
  ELSE \/ record.path = Summary /\ record.todo = {}
       \/ AtCircuit(record)
PointOf(record) ==
  /\ record.todo \subseteq record.jobs \/ record.kind = "outer"
  /\ record.pc \in {"new", "failed"} <=> record.kind = "none"
  /\ record.pc \in {"certificates", "script"} => record.kind # "outer"
  /\ record.pc \in {"readSummary", "read"} => record.kind = "outer"
  /\ record.pc = "solve" => record.kind = "outer" \/ record.todo # {}
  /\ record.pc = "prove" => /\ record.kind # "solve" /\ AtFile(record)
                            /\ record.path[2] = "witness"
                            /\ record.witness = record.asked
  /\ record.pc \in {"open", "fill"} =>
       /\ AtFile(record)
       /\ record.path[2] \in {"inputs", "witness"} => record.witness = record.asked
  /\ record.pc # "read" => record.bundle = {}
  /\ record.same \/ record.given

\* Two runs at work are one that writes the circuits and one outer; without an
\* overlap there is one, the last that was started.
Exclusive ==
  \A q, r \in Runs :
    Busy(q) /\ Busy(r) /\ q # r => (run[q].kind = "outer") # (run[r].kind = "outer")
Numbered ==
  \A r \in Runs : /\ run[r].pc # "new" => run[r].since <= Started
                  /\ run[r].pc = "new" => run[r].since = 0
Alone ==
  ~overlap =>
    \A q, r \in Runs : Busy(r) /\ q # r => ~Busy(q) /\ run[q].since < run[r].since

\* The files of its circuit, or of the outer proof, that a run has written.
Earlier(name) ==
  CASE name \in {"outer_inputs", "witness"} -> {"bundle"}
    [] name = "proof" -> {"bundle", "witness"}
    [] name = "vk" -> {"bundle", "witness", "proof"}
    [] name = "public" -> {"bundle", "witness", "proof", "vk"}
    [] name = "result" -> {"bundle", "witness", "proof", "vk", "public"}
    [] OTHER -> {}
Written(record) ==
  CASE record.pc \in {"open", "fill"} -> Earlier(record.path[2])
    [] record.pc = "prove" -> {"bundle", "witness"}
    [] record.pc = "solve" /\ record.kind = "outer" -> {"bundle"}
    [] OTHER -> {}
OwnFiles(r) ==
  /\ \A name \in Written(run[r]) :
       LET p == <<IF run[r].kind = "outer" THEN 0 ELSE run[r].path[1], name>>
       IN p \in Paths => file[p] = r
  /\ run[r].kind = "inner" /\ run[r].pc \in {"solve", "prove", "open", "fill"} =>
       \A n \in run[r].jobs \ run[r].todo : \A p \in FilesOf(n) : file[p] = r

\* The runs that may have overwritten what r left.
Overwriters(r, outer) ==
  {q \in Runs : /\ run[q].since > run[r].since
                /\ \/ run[q].pc = "failed"
                   \/ Busy(q) /\ (run[q].kind = "outer") = outer}
Kept(r, p, outer) ==
  \/ file[p] = r
  \/ Overwriters(r, outer) # {} /\ file[p] \in Overwriters(r, outer) \cup {Torn}
Indexes ==
  \A r \in Runs :
    /\ file[Summary] = r => run[r].pc = "done" /\ run[r].kind \in {"inner", "solve"}
    /\ file[<<0, "result">>] = r => run[r].pc = "done" /\ run[r].kind = "outer"
    /\ ~overlap /\ file[Summary] = r /\ run[r].kind = "inner" =>
         \A n \in run[r].jobs : \A p \in FilesOf(n) : Kept(r, p, FALSE)
    /\ ~overlap /\ file[<<0, "result">>] = r =>
         \A p \in FilesOf(0) \cup {<<0, "bundle">>} : Kept(r, p, TRUE)

\* What an outer run has read so far is what the directory still holds.
Reading(r) ==
  LET s == run[r].summary IN
  ~overlap /\ run[r].pc = "read" =>
    /\ s \in Runs /\ file[Summary] = s /\ run[r].todo \subseteq run[s].jobs
    /\ \A t \in run[r].bundle :
         /\ t[1] \in run[s].jobs /\ t[3] # NoFile /\ t[3] = file[<<t[1], t[2]>>]

IInv ==
  /\ Typed /\ \A r \in Runs : PointOf(run[r])
  /\ Exclusive /\ Numbered /\ Alone
  /\ \A r \in Runs : OwnFiles(r) /\ Reading(r)
  /\ Indexes

------------------------------------------------------------------------------
(* The steps.                                                              *)

\* The steps of a run after its start, by what they do to the files.
Quiet(r) == \/ LoadCertificates(r) \/ CollectJobs(r) \/ ReadSummary(r)
            \/ ReadFile(r) \/ WriteBundle(r) \/ Solve(r) \/ Prove(r)
Die(r) == Abort(r) \/ ReadMissing(r)
Goes(r) == Quiet(r) \/ OpenFile(r) \/ FillFile(r) \/ Die(r)

LEMMA Steps ==
  Next <=> Edit \/ \E r \in Runs : StartCommand(r) \/ Goes(r)
BY DEF Next, Goes, Quiet, Die

LEMMA CircuitChosen ==
  ASSUME NEW r \in Runs, Typed, run[r].todo # {}
  PROVE  Circuit(r) \in run[r].todo
<1>1. run[r].todo \subseteq Nat
  BY FixtureAssumption DEF Typed, Record
<1>2. \E n \in run[r].todo : \A k \in run[r].todo : n <= k
  BY <1>1, Least, Zenon
<1> QED
  BY <1>2 DEF Circuit

------------------------------------------------------------------------------
(* Types.                                                                  *)

LEMMA NewTyped == New \in Record
BY DEF New, Record, Paths, Summary

LEMMA WriteTyped ==
  ASSUME NEW record \in Record, NEW n, NEW name, <<n, name>> \in Paths
  PROVE  Write(record, n, name) \in Record
BY DEF Write, Record

LEMMA NextJobTyped ==
  ASSUME NEW record \in Record
  PROVE  NextJob(record) \in Record
<1>1. <<0, "summary">> \in Paths
  BY DEF Paths
<1>2. CASE record.todo = {}
  BY <1>1, <1>2, WriteTyped DEF NextJob
<1>3. CASE record.todo # {}
  BY <1>3 DEF NextJob, Record
<1> QED
  BY <1>2, <1>3

(* A record stays one when a field changes. *)
LEMMA Update ==
  ASSUME NEW f \in Record
  PROVE  /\ \A x \in {"none", "inner", "solve", "outer"} : [f EXCEPT !.kind = x] \in Record
         /\ \A x \in Nat : [f EXCEPT !.since = x] \in Record
         /\ \A x \in SUBSET Circuits : [f EXCEPT !.jobs = x] \in Record
         /\ [f EXCEPT !.pc = "done"] \in Record
BY DEF Record

LEMMA SolvedTyped ==
  ASSUME NEW f \in Record, NEW env \in {"unset", "msgpack"}, NEW x \in {"legacy", "compact"}
  PROVE  [f EXCEPT !.env = env, !.witness = x] \in Record
BY DEF Record

LEMMA DoneTyped ==
  ASSUME NEW record \in Record
  PROVE  Done(record) \in Record
<1> DEFINE a == [New EXCEPT !.kind = record.kind]
           b == [a EXCEPT !.pc = "done"]
           c == [b EXCEPT !.since = record.since]
           d == [c EXCEPT !.jobs = record.jobs]
<1>1. /\ record.kind \in {"none", "inner", "solve", "outer"}
      /\ record.since \in Nat /\ record.jobs \in SUBSET Circuits
  BY DEF Record
<1>2. a \in Record
  BY <1>1, Update, NewTyped
<1>3. b \in Record
  <2> HIDE DEF a
  <2> QED
    BY <1>2, Update
<1>4. c \in Record
  <2> HIDE DEF b
  <2> QED
    BY <1>1, <1>3, Update
<1>5. d \in Record
  <2> HIDE DEF c
  <2> QED
    BY <1>1, <1>4, Update
<1> QED
  BY <1>5 DEF Done

\* A step gives one run a new record of the right type.
LEMMA SetTyped ==
  ASSUME Typed, NEW r \in Runs, NEW record \in Record, Set(r, record)
  PROVE  /\ run' \in [Runs -> Record] /\ run'[r] = record
         /\ \A q \in Runs \ {r} : run'[q] = run[q]
BY DEF Typed, Set

LEMMA StartTyped ==
  ASSUME Typed, NEW r \in Runs, StartCommand(r)
  PROVE  Typed'
<1>1. PICK kind \in {"inner", "solve", "outer"}, given \in BOOLEAN, asked \in {"legacy", "compact"} :
        Start(r, kind, given, asked)
  BY DEF StartCommand
<1>2. PICK env \in {"unset", "msgpack"} :
        Set(r, [New EXCEPT !.kind = kind, !.given = given, !.asked = asked, !.env = env,
                 !.since = Started + 1,
                 !.pc = IF kind = "outer" THEN "readSummary" ELSE "certificates"])
  BY <1>1 DEF Start
<1>3. Started + 1 \in Nat
  BY FS_Subset, FS_CardinalityType, FixtureAssumption DEF Started
<1>4. [New EXCEPT !.kind = kind, !.given = given, !.asked = asked, !.env = env,
                 !.since = Started + 1,
                 !.pc = IF kind = "outer" THEN "readSummary" ELSE "certificates"] \in Record
  <2> DEFINE a == [New EXCEPT !.kind = kind, !.given = given]
             b == [a EXCEPT !.asked = asked, !.env = env]
             c == [b EXCEPT !.since = Started + 1]
             d == [c EXCEPT !.pc = IF kind = "outer" THEN "readSummary" ELSE "certificates"]
  <2>1. a \in Record
    BY NewTyped DEF Record
  <2>2. b \in Record
    <3> HIDE DEF a
    <3> QED
      BY <2>1 DEF Record
  <2>3. c \in Record
    <3> HIDE DEF b
    <3> QED
      BY <1>3, <2>2, Update
  <2>4. d \in Record
    <3> HIDE DEF c
    <3> QED
      BY <2>3 DEF Record
  <2> QED
    BY <2>4
<1> QED
  BY <1>1, <1>2, <1>4, SetTyped DEF Typed, Start

LEMMA QuietTyped ==
  ASSUME Typed, NEW r \in Runs, PointOf(run[r]), Quiet(r)
  PROVE  Typed'
<1>0. run[r] \in Record
  BY DEF Typed
<1>1. CASE LoadCertificates(r)
  <2>1. [run[r] EXCEPT !.pc = "script", !.rust = certs] \in Record
    BY <1>0 DEF Typed, Record
  <2> QED
    BY <1>1, <2>1, SetTyped DEF Typed, LoadCertificates
<1>2. CASE CollectJobs(r)
  <2> DEFINE same == ScriptReads(r) = run[r].rust
  <2>1. PICK ds \in SUBSET Disclosures :
          Set(r, NextJob([run[r] EXCEPT !.same = same, !.rust = 0, !.given = @ /\ ~same,
                            !.jobs = Base \cup ds, !.todo = Base \cup ds]))
    BY <1>2 DEF CollectJobs
  <2>2. [run[r] EXCEPT !.same = same, !.rust = 0, !.given = @ /\ ~same,
                            !.jobs = Base \cup ds, !.todo = Base \cup ds] \in Record
    BY <1>0 DEF Record, Circuits
  <2>3. NextJob([run[r] EXCEPT !.same = same, !.rust = 0, !.given = @ /\ ~same,
                            !.jobs = Base \cup ds, !.todo = Base \cup ds]) \in Record
    BY <2>2, NextJobTyped
  <2> QED
    BY <1>2, <2>1, <2>3, SetTyped DEF Typed, CollectJobs
<1>3. CASE ReadSummary(r)
  <2>1. [run[r] EXCEPT !.pc = "read", !.summary = file[Summary], !.todo = Listed(r)] \in Record
    BY <1>0, <1>3 DEF Typed, Record, Listed, ReadSummary
  <2> QED
    BY <1>3, <2>1, SetTyped DEF Typed, ReadSummary
<1>4. CASE ReadFile(r)
  <2> DEFINE p == Wanted(r)
  <2>1. Circuit(r) \in Circuits
    BY <1>4, CircuitChosen DEF Typed, Record, ReadFile
  <2>2. p \in Circuits \X {"proof", "public"} /\ file[p] \in Contents
    BY <2>1 DEF Wanted, Typed, Paths
  <2>3. [run[r] EXCEPT !.bundle = @ \cup {<<p[1], p[2], file[p]>>},
                       !.todo = IF p[2] = "public" THEN @ \ {p[1]} ELSE @] \in Record
    <3> DEFINE more == run[r].bundle \cup {<<p[1], p[2], file[p]>>}
               left == IF p[2] = "public" THEN run[r].todo \ {p[1]} ELSE run[r].todo
    <3>1. more \in SUBSET (Circuits \X {"proof", "public"} \X Contents)
      <4> HIDE DEF p
      <4> QED
        BY <1>0, <2>2 DEF Record
    <3>2. left \in SUBSET Circuits
      BY <1>0 DEF Record
    <3>3. [run[r] EXCEPT !.bundle = more, !.todo = left] \in Record
      <4> HIDE DEF more, left
      <4> QED
        BY <1>0, <3>1, <3>2 DEF Record
    <3> QED
      BY <3>3
  <2> QED
    BY <1>4, <2>3, SetTyped DEF Typed, ReadFile
<1>5. CASE WriteBundle(r)
  <2>1. [run[r] EXCEPT !.bundle = {}, !.summary = NoFile] \in Record
    BY <1>0 DEF Record
  <2>2. <<0, "bundle">> \in Paths
    BY DEF Paths
  <2> QED
    BY <1>5, <2>1, <2>2, WriteTyped, SetTyped DEF Typed, WriteBundle
<1>6. CASE Solve(r)
  <2> DEFINE env == Format(run[r].asked, run[r].env)
             solved == [run[r] EXCEPT !.env = env,
                          !.witness = IF env = "unset" THEN "legacy" ELSE "compact"]
  <2>1. solved \in Record
    <3>1. env \in {"unset", "msgpack"}
      BY <1>0 DEF Record, Format
    <3> HIDE DEF env
    <3> QED
      BY <1>0, <3>1, SolvedTyped
  <2>2. run[r].todo # {} => <<Circuit(r), "inputs">> \in Paths
    BY CircuitChosen DEF Typed, Record, Paths
  <2>3. <<0, "witness">> \in Paths
    BY DEF Paths
  <2>4. CASE run[r].kind = "outer"
    <3>1. Set(r, Write(solved, 0, "witness"))
      BY <1>6, <2>4 DEF Solve
    <3> HIDE DEF solved
    <3> QED
      BY <1>6, <2>1, <2>3, <3>1, WriteTyped, SetTyped DEF Typed, Solve
  <2>5. CASE run[r].kind # "outer"
    <3>1. Set(r, Write(solved, Circuit(r), "inputs"))
      BY <1>6, <2>5 DEF Solve
    <3>2. run[r].todo # {}
      BY <1>6, <2>5 DEF Solve, PointOf
    <3> HIDE DEF solved
    <3> QED
      BY <1>6, <2>1, <2>2, <3>1, <3>2, WriteTyped, SetTyped DEF Typed, Solve
  <2> QED
    BY <2>4, <2>5
<1>7. CASE Prove(r)
  <2>1. <<run[r].path[1], "proof">> \in Paths
    BY <1>0 DEF Record, Paths, Summary
  <2> QED
    BY <1>0, <1>7, <2>1, WriteTyped, SetTyped DEF Typed, Prove
<1> QED
  BY <1>1, <1>2, <1>3, <1>4, <1>5, <1>6, <1>7 DEF Quiet

LEMMA OpenTyped ==
  ASSUME Typed, NEW r \in Runs, OpenFile(r)
  PROVE  Typed'
<1>1. [run[r] EXCEPT !.pc = "fill"] \in Record
  BY DEF Typed, Record
<1> QED
  BY <1>1, SetTyped DEF Typed, OpenFile, Contents

LEMMA DieTyped ==
  ASSUME Typed, NEW r \in Runs, Die(r)
  PROVE  Typed'
<1>1. run[r].since \in Nat
  BY DEF Typed, Record
<1>2. [New EXCEPT !.pc = "failed", !.since = run[r].since] \in Record
  BY <1>1, NewTyped DEF Record
<1>3. Set(r, [New EXCEPT !.pc = "failed", !.since = run[r].since])
  BY DEF Die, Abort, ReadMissing, Fail
<1> QED
  BY <1>2, <1>3, SetTyped, FixtureAssumption DEF Typed, Die, Abort, ReadMissing, Fail

(* What comes after a file, by the file's name. *)
LEMMA AfterFile ==
  ASSUME NEW r \in Runs
  PROVE  /\ run[r].path[2] = "inputs" => Following(r) = Write(run[r], run[r].path[1], "witness")
         /\ run[r].path[2] = "witness" => Following(r) = AfterWitness(run[r], run[r].path[1])
         /\ run[r].path[2] = "proof" => Following(r) = Write(run[r], run[r].path[1], "vk")
         /\ run[r].path[2] = "vk" => Following(r) = Write(run[r], run[r].path[1], "public")
         /\ run[r].path[2] = "public" => Following(r) = AfterPublic(run[r], run[r].path[1])
         /\ run[r].path[2] = "bundle" => Following(r) = Write(run[r], 0, "outer_inputs")
         /\ run[r].path[2] = "outer_inputs" => Following(r) = [run[r] EXCEPT !.pc = "solve"]
         /\ run[r].path[2] \in {"summary", "result"} => Following(r) = Done(run[r])
BY DEF Following, AfterVk

LEMMA FillTyped ==
  ASSUME Typed, NEW r \in Runs, FillFile(r)
  PROVE  Typed'
<1> DEFINE record == run[r]
           n == record.path[1]
           name == record.path[2]
<1>0. record \in Record
  BY DEF Typed
<1>1. record.path \in Paths
  BY <1>0 DEF Record
<1>2. /\ n \in Circuits \cup {0}
      /\ name \in {"inputs", "witness", "proof", "vk", "public", "summary", "bundle",
                   "outer_inputs", "result"}
      /\ name \in {"inputs", "proof", "vk"} => <<n, "witness">> \in Paths /\ <<n, "vk">> \in Paths
                                              /\ <<n, "public">> \in Paths
      /\ <<0, "outer_inputs">> \in Paths /\ <<0, "result">> \in Paths
  BY <1>1 DEF Paths
<1>3. \A x \in {"solve", "prove"} : [record EXCEPT !.pc = x] \in Record
  BY <1>0 DEF Record
<1>4. NextJob([record EXCEPT !.todo = @ \ {n}]) \in Record
  <2>1. [record EXCEPT !.todo = @ \ {n}] \in Record
    BY <1>0 DEF Record
  <2> QED
    BY <2>1, NextJobTyped
<1>5. Following(r) \in Record
  <2>1. CASE name \in {"inputs", "proof", "vk", "bundle"}
    BY <1>0, <1>2, <2>1, WriteTyped, AfterFile
  <2>2. CASE name = "witness"
    BY <1>3, <1>4, <2>2, AfterFile DEF AfterWitness
  <2>3. CASE name = "public"
    BY <1>0, <1>2, <1>4, <2>3, WriteTyped, AfterFile DEF AfterPublic
  <2>4. CASE name = "outer_inputs"
    BY <1>3, <2>4, AfterFile
  <2>5. CASE name \in {"summary", "result"}
    BY <1>0, <2>5, DoneTyped, AfterFile
  <2> QED
    BY <1>2, <2>1, <2>2, <2>3, <2>4, <2>5
<1>6. Set(r, Following(r))
  BY DEF FillFile
<1> HIDE DEF record, n, name
<1> QED
  BY <1>5, <1>6, SetTyped DEF Typed, FillFile, Contents

LEMMA TypedStep ==
  ASSUME IInv, Next
  PROVE  Typed'
<1>0. Typed /\ \A r \in Runs : PointOf(run[r])
  BY DEF IInv
<1>1. CASE Edit
  BY <1>0, <1>1 DEF Edit, Typed
<1>2. ASSUME NEW r \in Runs, StartCommand(r) \/ Goes(r)
      PROVE  Typed'
  BY <1>0, <1>2, StartTyped, QuietTyped, OpenTyped, FillTyped, DieTyped DEF Goes
<1> QED
  BY <1>1, <1>2, Steps

------------------------------------------------------------------------------
(* What a run is at.                                                       *)

(* A step of one run leaves the others as they are. *)
LEMMA OthersStay ==
  ASSUME Typed, NEW r \in Runs, StartCommand(r) \/ Goes(r)
  PROVE  \A q \in Runs \ {r} : run'[q] = run[q]
<1>1. \E record : run' = [run EXCEPT ![r] = record]
  BY DEF Goes, Quiet, Die, StartCommand, Start, LoadCertificates, CollectJobs, ReadSummary,
         ReadFile, WriteBundle, Solve, Prove, OpenFile, FillFile, Abort, ReadMissing, Fail, Set
<1> QED
  BY <1>1 DEF Typed

LEMMA NextJobFields ==
  ASSUME NEW record \in Record, NEW w, w = NextJob(record)
  PROVE  /\ record.todo = {} => w.path = Summary /\ w.pc = "open"
         /\ record.todo # {} => w.pc = "solve"
         /\ w.kind = record.kind /\ w.todo = record.todo /\ w.jobs = record.jobs
         /\ w.same = record.same /\ w.given = record.given
         /\ w.bundle = record.bundle /\ w.since = record.since
<1>1. CASE record.todo = {}
  <2>1. w = Write(record, 0, "summary") /\ <<0, "summary">> \in Shared
    BY <1>1 DEF NextJob, Shared, Summary
  <2> QED
    BY <1>1, <2>1 DEF Summary, Write, Record
<1>2. CASE record.todo # {}
  BY <1>2 DEF NextJob, Record
<1> QED
  BY <1>1, <1>2

(* A run that goes on to a file, or to the next circuit, is where it may be. *)
LEMMA WritePoint ==
  ASSUME NEW record \in Record, NEW n, NEW name, NEW w, w = Write(record, n, name),
         record.todo \subseteq record.jobs \/ record.kind = "outer",
         record.kind # "none", record.bundle = {}, record.same \/ record.given,
         AtFile(w), name \in {"inputs", "witness"} => record.witness = record.asked
  PROVE  PointOf(w)
<1>1. /\ w.path[2] = name /\ w.pc \in {"open", "fill"}
      /\ w.kind = record.kind /\ w.todo = record.todo /\ w.jobs = record.jobs
      /\ w.asked = record.asked /\ w.witness = record.witness
      /\ w.same = record.same /\ w.given = record.given /\ w.bundle = record.bundle
  BY DEF Write, Record
<1> QED
  BY <1>1 DEF PointOf

LEMMA NextJobPoint ==
  ASSUME NEW record \in Record, NEW w, w = NextJob(record),
         record.todo \subseteq record.jobs, record.kind \in {"inner", "solve"},
         record.bundle = {}, record.same \/ record.given
  PROVE  PointOf(w)
<1>1. record.todo = {} => w.path = Summary /\ w.pc = "open"
  BY NextJobFields
<1>2. Summary[2] = "summary"
  BY DEF Summary
<1> QED
  BY <1>1, <1>2, NextJobFields DEF PointOf, AtFile

LEMMA StartPoint ==
  ASSUME Typed, NEW r \in Runs, StartCommand(r)
  PROVE  /\ PointOf(run'[r]) /\ run[r].pc = "new"
         /\ run'[r].pc \in {"readSummary", "certificates"}
         /\ run'[r].since = Started + 1 /\ run'[r].kind # "none"
         /\ \A q \in Runs \ {r} : run'[q] = run[q]
<1>1. PICK kind \in {"inner", "solve", "outer"}, given \in BOOLEAN, asked \in {"legacy", "compact"} :
        Start(r, kind, given, asked)
  BY DEF StartCommand
<1>2. PICK env \in {"unset", "msgpack"} :
        Set(r, [New EXCEPT !.kind = kind, !.given = given, !.asked = asked, !.env = env,
                 !.since = Started + 1,
                 !.pc = IF kind = "outer" THEN "readSummary" ELSE "certificates"])
  BY <1>1 DEF Start
<1>3. /\ run'[r].kind = kind /\ run'[r].since = Started + 1
      /\ run'[r].pc = (IF kind = "outer" THEN "readSummary" ELSE "certificates")
      /\ run'[r].todo = {} /\ run'[r].bundle = {} /\ run'[r].same = TRUE
      /\ \A q \in Runs \ {r} : run'[q] = run[q]
  BY <1>2 DEF Typed, Set, New
<1> QED
  BY <1>1, <1>3 DEF PointOf, Start

LEMMA QuietPoint ==
  ASSUME Typed, Typed', NEW r \in Runs, PointOf(run[r]), Quiet(r)
  PROVE  PointOf(run'[r])
<1>0. run[r] \in Record /\ run'[r] \in Record
  BY DEF Typed
<1>1. CASE LoadCertificates(r)
  <2>1. run'[r] = [run[r] EXCEPT !.pc = "script", !.rust = certs]
    BY <1>1 DEF LoadCertificates, Set, Typed
  <2> QED
    BY <1>0, <1>1, <2>1 DEF LoadCertificates, PointOf, Record
<1>2. CASE CollectJobs(r)
  <2> DEFINE same == ScriptReads(r) = run[r].rust
  <2>1. PICK ds \in SUBSET Disclosures :
          Set(r, NextJob([run[r] EXCEPT !.same = same, !.rust = 0, !.given = @ /\ ~same,
                            !.jobs = Base \cup ds, !.todo = Base \cup ds]))
    BY <1>2 DEF CollectJobs
  <2> DEFINE record == [run[r] EXCEPT !.same = same, !.rust = 0, !.given = @ /\ ~same,
                            !.jobs = Base \cup ds, !.todo = Base \cup ds]
  <2>2. record \in Record
    <3>1. same \in BOOLEAN /\ Base \cup ds \in SUBSET Circuits
      BY DEF Circuits
    <3> HIDE DEF same
    <3>2. (run[r].given /\ ~same) \in BOOLEAN
      OBVIOUS
    <3> DEFINE given == run[r].given /\ ~same
    <3> DEFINE planned == Base \cup ds
    <3> HIDE DEF given, planned
    <3>3. [run[r] EXCEPT !.same = same, !.rust = 0, !.given = given,
             !.jobs = planned, !.todo = planned] \in Record
      BY <1>0, <3>1, <3>2 DEF Record, given, planned
    <3> QED
      BY <3>3 DEF given, planned
  <2>3. /\ record.todo = record.jobs /\ record.kind = run[r].kind
        /\ record.bundle = run[r].bundle
        /\ record.same = same /\ record.given = (run[r].given /\ ~same)
    BY <1>0 DEF Record
  <2>4. record.same \/ record.given
    BY <2>3, <1>0 DEF ScriptReads, Record
  <2>5. record.kind \in {"inner", "solve"} /\ record.bundle = {}
    BY <1>0, <1>2, <2>3 DEF CollectJobs, PointOf, Record
  <2>6. run'[r] = NextJob(record)
    BY <2>1 DEF Set, Typed
  <2> HIDE DEF record, same
  <2> QED
    BY <2>2, <2>3, <2>4, <2>5, <2>6, NextJobPoint
<1>3. CASE ReadSummary(r)
  <2>1. run'[r] = [run[r] EXCEPT !.pc = "read", !.summary = file[Summary], !.todo = Listed(r)]
    BY <1>3 DEF ReadSummary, Set, Typed
  <2> QED
    BY <1>0, <1>3, <2>1 DEF ReadSummary, PointOf, Record
<1>4. CASE ReadFile(r)
  <2>1. /\ run'[r].pc = "read" /\ run'[r].kind = run[r].kind
        /\ run'[r].same = run[r].same /\ run'[r].given = run[r].given
    BY <1>0, <1>4 DEF ReadFile, Set, Typed, Record
  <2> QED
    BY <1>4, <2>1 DEF PointOf, ReadFile
<1>5. CASE WriteBundle(r)
  <2> DEFINE record == [run[r] EXCEPT !.bundle = {}, !.summary = NoFile]
  <2>1. record \in Record
    BY <1>0 DEF Record
  <2>2. run'[r] = Write(record, 0, "bundle")
    BY <1>5 DEF WriteBundle, Set, Typed
  <2>3. /\ record.kind = "outer" /\ record.bundle = {} /\ record.same = run[r].same
        /\ record.given = run[r].given
    BY <1>0, <1>5 DEF WriteBundle, PointOf, Record
  <2>4. AtFile(run'[r])
    <3> HIDE DEF record
    <3>1. run'[r].path = <<0, "bundle">> /\ run'[r].kind = "outer"
      BY <2>1, <2>2, <2>3 DEF Write, Record
    <3> QED
      BY <3>1 DEF AtFile
  <2> HIDE DEF record
  <2> QED
    BY <2>1, <2>2, <2>3, <2>4, WritePoint DEF PointOf
<1>6. CASE Solve(r)
  <2> DEFINE env == Format(run[r].asked, run[r].env)
             solved == [run[r] EXCEPT !.env = env,
                          !.witness = IF env = "unset" THEN "legacy" ELSE "compact"]
  <2>1. solved \in Record
    <3>1. env \in {"unset", "msgpack"}
      BY <1>0 DEF Record, Format
    <3> HIDE DEF env
    <3> QED
      BY <1>0, <3>1, SolvedTyped
  <2>2. solved.witness = solved.asked
    BY <1>0 DEF Record, Format
  <2>3. /\ solved.kind = run[r].kind /\ solved.todo = run[r].todo /\ solved.jobs = run[r].jobs
        /\ solved.bundle = run[r].bundle /\ solved.same = run[r].same
        /\ solved.given = run[r].given
    BY <1>0 DEF Record
  <2>4. run[r].bundle = {} /\ run[r].kind # "none"
    BY <1>6 DEF Solve, PointOf
  <2>5. CASE run[r].kind = "outer"
    <3>1. run'[r] = Write(solved, 0, "witness")
      BY <1>6, <2>5 DEF Solve, Set, Typed
    <3> HIDE DEF solved
    <3>2. AtFile(run'[r])
      <4>1. run'[r].path = <<0, "witness">> /\ run'[r].kind = "outer"
        BY <2>1, <2>3, <2>5, <3>1 DEF Write, Record
      <4> QED
        BY <4>1 DEF AtFile
    <3> QED
      BY <2>1, <2>2, <2>3, <2>4, <2>5, <3>1, <3>2, WritePoint DEF PointOf
  <2>6. CASE run[r].kind # "outer"
    <3>1. run'[r] = Write(solved, Circuit(r), "inputs")
      BY <1>6, <2>6 DEF Solve, Set, Typed
    <3>2. Circuit(r) \in run[r].todo
      BY <1>6, <2>6, CircuitChosen DEF Solve, PointOf
    <3> HIDE DEF solved
    <3>3. AtFile(run'[r])
      <4>1. /\ run'[r].path = <<Circuit(r), "inputs">> /\ run'[r].kind = run[r].kind
            /\ run'[r].todo = run[r].todo
        BY <2>1, <2>3, <3>1 DEF Write, Record
      <4> QED
        BY <2>6, <3>2, <4>1 DEF AtFile, AtCircuit
    <3> QED
      BY <2>1, <2>2, <2>3, <2>4, <2>6, <3>1, <3>3, WritePoint DEF PointOf
  <2> QED
    BY <2>5, <2>6
<1>7. CASE Prove(r)
  <2>1. run'[r] = Write(run[r], run[r].path[1], "proof")
    BY <1>7 DEF Prove, Set, Typed
  <2>2. AtFile(run'[r])
    <3>1. /\ run'[r].path = <<run[r].path[1], "proof">> /\ run'[r].kind = run[r].kind
          /\ run'[r].todo = run[r].todo
      BY <1>0, <2>1 DEF Write, Record
    <3>2. /\ run[r].kind # "solve" /\ run[r].path[2] = "witness" /\ AtFile(run[r])
      BY <1>7 DEF Prove, PointOf
    <3>3. CASE run[r].kind = "outer"
      BY <3>1, <3>2, <3>3 DEF AtFile
    <3>4. CASE run[r].kind # "outer"
      <4>1. run[r].path[1] \in run[r].todo
        BY <3>2, <3>4 DEF AtFile, AtCircuit, Summary
      <4> QED
        BY <3>1, <3>2, <3>4, <4>1 DEF AtFile, AtCircuit
    <3> QED
      BY <3>3, <3>4
  <2>3. run[r].kind # "none" /\ run[r].bundle = {}
    BY <1>7 DEF Prove, PointOf
  <2> QED
    BY <1>0, <2>1, <2>2, <2>3, WritePoint DEF PointOf
<1> QED
  BY <1>1, <1>2, <1>3, <1>4, <1>5, <1>6, <1>7 DEF Quiet

LEMMA OpenPoint ==
  ASSUME Typed, NEW r \in Runs, PointOf(run[r]), OpenFile(r)
  PROVE  /\ PointOf(run'[r])
         /\ run'[r] = [run[r] EXCEPT !.pc = "fill"] /\ run'[r].pc = "fill"
<1>1. run'[r] = [run[r] EXCEPT !.pc = "fill"] /\ run[r] \in Record
  BY DEF OpenFile, Set, Typed
<1>2. /\ run'[r].pc = "fill" /\ run'[r].kind = run[r].kind /\ run'[r].todo = run[r].todo
      /\ run'[r].jobs = run[r].jobs /\ run'[r].path = run[r].path
      /\ run'[r].witness = run[r].witness /\ run'[r].asked = run[r].asked
      /\ run'[r].bundle = run[r].bundle /\ run'[r].same = run[r].same
      /\ run'[r].given = run[r].given
  BY <1>1 DEF Record
<1> QED
  BY <1>1, <1>2 DEF PointOf, AtFile, AtCircuit, OpenFile

LEMMA DiePoint ==
  ASSUME Typed, NEW r \in Runs, Die(r)
  PROVE  /\ PointOf(run'[r]) /\ run'[r].pc = "failed" /\ run'[r].since = run[r].since
         /\ run'[r].kind = "none"
<1>1. run'[r] = [New EXCEPT !.pc = "failed", !.since = run[r].since]
  BY DEF Die, Abort, ReadMissing, Fail, Set, Typed
<1>2. /\ run'[r].pc = "failed" /\ run'[r].since = run[r].since /\ run'[r].kind = "none"
      /\ run'[r].todo = {} /\ run'[r].bundle = {} /\ run'[r].same = TRUE
  BY <1>1 DEF New
<1> QED
  BY <1>2 DEF PointOf

(* The file a run writes next. *)
LEMMA Place ==
  ASSUME Typed, NEW r \in Runs, AtFile(run[r])
  PROVE  /\ run[r].path = <<run[r].path[1], run[r].path[2]>>
         /\ run[r].kind = "outer" =>
              /\ run[r].path[1] = 0
              /\ run[r].path[2] \in {"bundle", "outer_inputs", "witness", "proof", "vk",
                                     "public", "result"}
         /\ run[r].kind # "outer" =>
              \/ run[r].path = Summary /\ run[r].path[2] = "summary" /\ run[r].todo = {}
              \/ /\ run[r].path[1] \in run[r].todo /\ run[r].path[1] \in Circuits
                 /\ run[r].path[1] # 0 /\ run[r].path # Summary
                 /\ run[r].path[2] \in {"inputs", "witness", "proof", "vk", "public"}
                 /\ run[r].kind = "solve" => run[r].path[2] \in {"inputs", "witness"}
<1>1. run[r].path \in Paths /\ run[r].todo \subseteq Circuits /\ 0 \notin Circuits
  BY FixtureAssumption DEF Typed, Record
<1>2. run[r].path = <<run[r].path[1], run[r].path[2]>>
  BY <1>1 DEF Paths
<1>3. CASE run[r].kind = "outer"
  <2>1. run[r].path \in {0} \X {"bundle", "outer_inputs", "witness", "proof", "vk",
                               "public", "result"}
    BY <1>3 DEF AtFile
  <2> QED
    BY <1>2, <1>3, <2>1
<1>4. CASE run[r].kind # "outer"
  BY <1>1, <1>2, <1>4 DEF AtFile, AtCircuit, Summary
<1> QED
  BY <1>2, <1>3, <1>4

LEMMA FillPoint ==
  ASSUME Typed, NEW r \in Runs, PointOf(run[r]), FillFile(r)
  PROVE  PointOf(run'[r])
<1> DEFINE record == run[r]
           n == record.path[1]
           name == record.path[2]
           next == run'[r]
<1>0. /\ record \in Record /\ next = Following(r)
      /\ AtFile(record) /\ record.kind # "none" /\ record.bundle = {}
      /\ record.same \/ record.given
      /\ record.todo \subseteq record.jobs \/ record.kind = "outer"
      /\ name \in {"inputs", "witness"} => record.witness = record.asked
  BY DEF Typed, FillFile, Set, PointOf
<1>1. /\ record.kind = "outer" =>
           n = 0 /\ name \in {"bundle", "outer_inputs", "witness", "proof", "vk", "public", "result"}
      /\ record.kind # "outer" =>
           \/ name = "summary"
           \/ /\ n \in record.todo /\ n # 0
              /\ name \in {"inputs", "witness", "proof", "vk", "public"}
              /\ record.kind = "solve" => name \in {"inputs", "witness"}
  BY <1>0, Place
<1>2. CASE name \in {"inputs", "proof", "vk", "bundle"} \/ (name = "public" /\ n = 0)
  <2> DEFINE k == IF name = "bundle" THEN 0 ELSE n
             new == CASE name = "inputs" -> "witness" [] name = "proof" -> "vk"
                      [] name = "vk" -> "public" [] name = "bundle" -> "outer_inputs"
                      [] OTHER -> "result"
  <2>1. next = Write(record, k, new)
    BY <1>0, <1>2, AfterFile DEF AfterPublic
  <2>2. next.path = <<k, new>> /\ next.kind = record.kind /\ next.todo = record.todo
    BY <1>0, <2>1 DEF Write, Record
  <2>3. AtFile(next)
    <3>1. CASE record.kind = "outer"
      <4>1. next.path \in {0} \X {"bundle", "outer_inputs", "witness", "proof", "vk",
                                  "public", "result"}
        BY <1>1, <1>2, <2>2, <3>1
      <4> QED
        BY <2>2, <3>1, <4>1 DEF AtFile
    <3>2. CASE record.kind # "outer"
      <4>1. next.path[1] \in next.todo /\ next.path[2] \in {"witness", "vk", "public"}
            /\ (next.kind = "solve" => next.path[2] = "witness")
        BY <1>1, <1>2, <2>2, <3>2
      <4> QED
        BY <2>2, <3>2, <4>1 DEF AtFile, AtCircuit
    <3> QED
      BY <3>1, <3>2
  <2>4. new \in {"inputs", "witness"} => record.witness = record.asked
    BY <1>0, <1>2
  <2> HIDE DEF record, k, new
  <2> QED
    BY <1>0, <2>1, <2>3, <2>4, WritePoint
<1>3. CASE name = "witness" /\ record.kind # "solve"
  <2>1. next = [record EXCEPT !.pc = "prove"]
    BY <1>0, <1>3, AfterFile DEF AfterWitness
  <2>2. /\ next.pc = "prove" /\ next.kind = record.kind /\ next.todo = record.todo
        /\ next.jobs = record.jobs /\ next.path = record.path
        /\ next.witness = record.witness /\ next.asked = record.asked
        /\ next.bundle = record.bundle /\ next.same = record.same
        /\ next.given = record.given
    BY <1>0, <2>1 DEF Record
  <2> QED
    BY <1>0, <1>3, <2>2 DEF PointOf, AtFile, AtCircuit
<1>4. CASE (name = "witness" /\ record.kind = "solve") \/ (name = "public" /\ n # 0)
  <2> DEFINE less == [record EXCEPT !.todo = @ \ {n}]
  <2>1. next = NextJob(less)
    BY <1>0, <1>4, AfterFile DEF AfterWitness, AfterPublic
  <2>2. /\ less \in Record /\ less.todo = record.todo \ {n} /\ less.jobs = record.jobs
        /\ less.kind = record.kind /\ less.bundle = {} /\ less.same = record.same
        /\ less.given = record.given
    BY <1>0 DEF Record
  <2>3. record.kind \in {"inner", "solve"}
    BY <1>0, <1>1, <1>4 DEF Record
  <2> HIDE DEF record, less
  <2> QED
    BY <1>0, <2>1, <2>2, <2>3, NextJobPoint
<1>5. CASE name = "outer_inputs"
  <2>1. next = [record EXCEPT !.pc = "solve"] /\ record.kind = "outer"
    BY <1>0, <1>1, <1>5, AfterFile
  <2>2. /\ next.pc = "solve" /\ next.kind = record.kind
        /\ next.bundle = record.bundle /\ next.same = record.same
        /\ next.given = record.given
    BY <1>0, <2>1 DEF Record
  <2> QED
    BY <1>0, <2>1, <2>2 DEF PointOf
<1>6. CASE name \in {"summary", "result"}
  <2>1. next = Done(record)
    BY <1>0, <1>6, AfterFile
  <2>2. /\ next.pc = "done" /\ next.kind = record.kind /\ next.todo = {} /\ next.bundle = {}
        /\ next.same = TRUE
    BY <1>0, <2>1 DEF Done, New
  <2> QED
    BY <1>0, <2>2 DEF PointOf
<1> QED
  BY <1>1, <1>2, <1>3, <1>4, <1>5, <1>6

LEMMA PointStep ==
  ASSUME IInv, Next
  PROVE  (\A r \in Runs : PointOf(run[r]))'
<1>0. Typed /\ Typed' /\ \A r \in Runs : PointOf(run[r])
  BY TypedStep DEF IInv
<1>1. CASE Edit
  BY <1>0, <1>1 DEF Edit
<1>2. ASSUME NEW r \in Runs, StartCommand(r) \/ Goes(r)
      PROVE  \A q \in Runs : PointOf(run'[q])
  <2>1. PointOf(run'[r])
    BY <1>0, <1>2, StartPoint, QuietPoint, OpenPoint, FillPoint, DiePoint DEF Goes
  <2>2. \A q \in Runs \ {r} : run'[q] = run[q]
    BY <1>0, <1>2, OthersStay
  <2> QED
    BY <1>0, <2>1, <2>2
<1> QED
  BY <1>1, <1>2, Steps

------------------------------------------------------------------------------
(* How runs overlap.                                                       *)

(* A run that goes on keeps its number, and its kind until it fails. *)
LEMMA QuietEffects ==
  ASSUME Typed, NEW r \in Runs, Quiet(r)
  PROVE  /\ Busy(r) /\ overlap' = overlap /\ file' = file
         /\ run'[r].since = run[r].since /\ run'[r].kind = run[r].kind
         /\ run'[r].pc \notin {"new", "done", "failed"}
         /\ run'[r].pc = "read" => ReadSummary(r) \/ ReadFile(r)
<1>0. run[r] \in Record
  BY DEF Typed
<1>1. CASE LoadCertificates(r) \/ ReadSummary(r) \/ ReadFile(r)
  <2>1. CASE LoadCertificates(r)
    BY <1>0, <2>1 DEF LoadCertificates, Set, Typed, Record, Busy, Ended
  <2>2. CASE ReadSummary(r)
    BY <1>0, <2>2 DEF ReadSummary, Set, Typed, Record, Busy, Ended
  <2>3. CASE ReadFile(r)
    BY <1>0, <2>3 DEF ReadFile, Set, Typed, Record, Busy, Ended
  <2> QED
    BY <1>1, <2>1, <2>2, <2>3
<1>2. CASE CollectJobs(r)
  <2> DEFINE same == ScriptReads(r) = run[r].rust
  <2>1. PICK ds \in SUBSET Disclosures :
          Set(r, NextJob([run[r] EXCEPT !.same = same, !.rust = 0, !.given = @ /\ ~same,
                            !.jobs = Base \cup ds, !.todo = Base \cup ds]))
    BY <1>2 DEF CollectJobs
  <2> DEFINE record == [run[r] EXCEPT !.same = same, !.rust = 0, !.given = @ /\ ~same,
                            !.jobs = Base \cup ds, !.todo = Base \cup ds]
  <2>2. record \in Record
    BY <1>0 DEF Record, Circuits
  <2>3. record.since = run[r].since /\ record.kind = run[r].kind
    BY <1>0 DEF Record
  <2>4. run'[r] = NextJob(record)
    BY <2>1 DEF Set, Typed
  <2> HIDE DEF record, same
  <2>5. /\ run'[r].pc \in {"open", "solve"}
        /\ run'[r].since = record.since /\ run'[r].kind = record.kind
    BY <2>2, <2>4, NextJobFields
  <2> QED
    BY <1>2, <2>3, <2>5 DEF CollectJobs, Busy, Ended
<1>3. CASE WriteBundle(r)
  <2>1. run'[r] = Write([run[r] EXCEPT !.bundle = {}, !.summary = NoFile], 0, "bundle")
    BY <1>3 DEF WriteBundle, Set, Typed
  <2> QED
    BY <1>0, <1>3, <2>1 DEF WriteBundle, Write, Record, Busy, Ended
<1>4. CASE Solve(r)
  <2> DEFINE env == Format(run[r].asked, run[r].env)
             solved == [run[r] EXCEPT !.env = env,
                          !.witness = IF env = "unset" THEN "legacy" ELSE "compact"]
  <2>1. PICK n, name : run'[r] = Write(solved, n, name)
    BY <1>4 DEF Solve, Set, Typed
  <2> QED
    BY <1>0, <1>4, <2>1 DEF Solve, Write, Record, Busy, Ended
<1>5. CASE Prove(r)
  <2>1. run'[r] = Write(run[r], run[r].path[1], "proof")
    BY <1>5 DEF Prove, Set, Typed
  <2> QED
    BY <1>0, <1>5, <2>1 DEF Prove, Write, Record, Busy, Ended
<1> QED
  BY <1>1, <1>2, <1>3, <1>4, <1>5 DEF Quiet

LEMMA FillEffects ==
  ASSUME Typed, NEW r \in Runs, PointOf(run[r]), FillFile(r)
  PROVE  /\ Busy(r) /\ overlap' = overlap
         /\ run'[r].since = run[r].since /\ run'[r].kind = run[r].kind
         /\ run'[r].pc \notin {"new", "failed", "read"}
         /\ run'[r].pc = "done" <=> run[r].path[2] \in {"summary", "result"}
         /\ run'[r].pc = "done" => run'[r].jobs = run[r].jobs
<1> DEFINE n == run[r].path[1]
           name == run[r].path[2]
<1>0. /\ run[r] \in Record /\ run'[r] = Following(r)
      /\ name \in {"inputs", "witness", "proof", "vk", "public", "summary", "bundle",
                   "outer_inputs", "result"}
  BY DEF Typed, Record, Paths, FillFile, Set
<1>1. CASE name \in {"inputs", "proof", "vk", "bundle"} \/ (name = "public" /\ n = 0)
  <2>1. PICK k, new : run'[r] = Write(run[r], k, new)
    <3>1. CASE name \in {"inputs", "proof", "vk", "bundle"}
      <4>1. \/ run'[r] = Write(run[r], n, "witness") \/ run'[r] = Write(run[r], n, "vk")
            \/ run'[r] = Write(run[r], n, "public") \/ run'[r] = Write(run[r], 0, "outer_inputs")
        BY <1>0, <3>1, AfterFile
      <4> QED
        BY <4>1
    <3>2. CASE name = "public" /\ n = 0
      <4>1. run'[r] = Write(run[r], 0, "result")
        BY <1>0, <3>2, AfterFile DEF AfterPublic
      <4> QED
        BY <4>1
    <3> QED
      BY <1>1, <3>1, <3>2
  <2> QED
    BY <1>0, <1>1, <2>1 DEF FillFile, Write, Record, Busy, Ended
<1>2. CASE (name = "witness" /\ run[r].kind # "solve") \/ name = "outer_inputs"
  <2>1. run'[r] = [run[r] EXCEPT !.pc = "prove"] \/ run'[r] = [run[r] EXCEPT !.pc = "solve"]
    BY <1>0, <1>2, AfterFile DEF AfterWitness
  <2> QED
    BY <1>0, <1>2, <2>1 DEF FillFile, Record, Busy, Ended
<1>3. CASE (name = "witness" /\ run[r].kind = "solve") \/ (name = "public" /\ n # 0)
  <2> DEFINE less == [run[r] EXCEPT !.todo = @ \ {n}]
  <2>1. run'[r] = NextJob(less)
    BY <1>0, <1>3, AfterFile DEF AfterWitness, AfterPublic
  <2>2. less \in Record /\ less.kind = run[r].kind /\ less.since = run[r].since
    BY <1>0 DEF Record
  <2> HIDE DEF less
  <2>3. /\ run'[r].pc \in {"open", "solve"} /\ run'[r].kind = less.kind
        /\ run'[r].since = less.since
    BY <2>1, <2>2, NextJobFields
  <2> QED
    BY <1>3, <2>2, <2>3 DEF FillFile, Busy, Ended
<1>4. CASE name \in {"summary", "result"}
  <2>1. run'[r] = Done(run[r])
    BY <1>0, <1>4, AfterFile
  <2> QED
    BY <1>0, <1>4, <2>1 DEF FillFile, Done, New, Busy, Ended
<1> QED
  BY <1>0, <1>1, <1>2, <1>3, <1>4

LEMMA Effects ==
  ASSUME Typed, NEW r \in Runs, PointOf(run[r]), Goes(r)
  PROVE  /\ Busy(r) /\ overlap' = overlap
         /\ run'[r].since = run[r].since /\ run'[r].pc # "new"
         /\ run'[r].pc # "failed" => run'[r].kind = run[r].kind
<1>0. run[r] \in Record
  BY DEF Typed
<1>1. CASE OpenFile(r)
  BY <1>0, <1>1, OpenPoint DEF OpenFile, Record, Busy, Ended
<1>2. CASE Die(r)
  BY <1>2, DiePoint DEF Die, Abort, ReadMissing, Fail, Missing, Busy, Ended
<1> QED
  BY <1>1, <1>2, QuietEffects, FillEffects DEF Goes

LEMMA StartedBefore ==
  ASSUME Typed
  PROVE  Started \in Nat
BY FS_Subset, FS_CardinalityType, FixtureAssumption DEF Started

LEMMA StartedGrows ==
  ASSUME Typed, NEW r \in Runs, StartCommand(r)
  PROVE  Started' = Started + 1
<1> DEFINE S == {q \in Runs : run[q].pc # "new"}
<1>1. S' = S \cup {r} /\ r \notin S
  BY StartPoint
<1>2. IsFiniteSet(S)
  BY FS_Subset, FixtureAssumption
<1> HIDE DEF S
<1>3. Cardinality(S \cup {r}) = Cardinality(S) + 1
  BY <1>1, <1>2, FS_AddElement
<1> QED
  BY <1>1, <1>3 DEF Started, S

LEMMA StartedStays ==
  ASSUME Typed, NEW r \in Runs, PointOf(run[r]), Goes(r)
  PROVE  Started' = Started
<1>1. \A q \in Runs : run'[q].pc # "new" <=> run[q].pc # "new"
  BY OthersStay, Effects DEF Busy
<1>2. {q \in Runs : run'[q].pc # "new"} = {q \in Runs : run[q].pc # "new"}
  BY <1>1
<1> QED
  BY <1>2 DEF Started

LEMMA OrderStep ==
  ASSUME IInv, Next
  PROVE  Exclusive' /\ Numbered' /\ Alone'
<1>0. /\ Typed /\ Typed' /\ \A r \in Runs : PointOf(run[r])
      /\ Exclusive /\ Numbered /\ Alone
  BY TypedStep DEF IInv
<1>1. CASE Edit
  BY <1>0, <1>1 DEF Edit, Exclusive, Numbered, Alone, Busy, Ended, Started
<1>2. ASSUME NEW r \in Runs, StartCommand(r)
      PROVE  Exclusive' /\ Numbered' /\ Alone'
  <2>1. PICK kind \in {"inner", "solve", "outer"}, given \in BOOLEAN, asked \in {"legacy", "compact"} :
          Start(r, kind, given, asked)
    BY <1>2 DEF StartCommand
  <2>2. run'[r].kind = kind
    BY <2>1, <1>0 DEF Start, Set, New, Typed
  <2>3. /\ run[r].pc = "new" /\ run'[r].pc \in {"readSummary", "certificates"}
        /\ run'[r].since = Started + 1 /\ \A q \in Runs \ {r} : run'[q] = run[q]
    BY <1>0, <1>2, StartPoint
  <2>4. /\ overlap' = (overlap \/ \E q \in Runs : Busy(q))
        /\ \A q \in Runs : Busy(q) => (run[q].kind = "outer") # (kind = "outer")
    BY <2>1 DEF Start
  <2>5. /\ Busy(r)' /\ ~Busy(r)
        /\ \A q \in Runs \ {r} : Busy(q)' = Busy(q)
    BY <2>3 DEF Busy, Ended
  <2>6. Started \in Nat /\ Started' = Started + 1
    BY <1>0, <1>2, StartedBefore, StartedGrows
  <2>7. Exclusive'
    BY <1>0, <2>2, <2>3, <2>4, <2>5 DEF Exclusive
  <2>8. \A q \in Runs \ {r} : run[q].since <= Started
    BY <1>0, <2>6 DEF Numbered, Typed, Record
  <2>9. \A q \in Runs : run[q].since \in Nat
    BY <1>0 DEF Typed, Record
  <2>10. Numbered'
    BY <1>0, <2>3, <2>6, <2>8, <2>9 DEF Numbered
  <2>11. Alone'
    <3>1. ASSUME NEW q \in Runs, NEW s \in Runs, ~overlap', Busy(s)', q # s
          PROVE  ~Busy(q)' /\ run'[q].since < run'[s].since
      <4>1. s = r
        BY <2>4, <2>5, <3>1
      <4>2. run'[q].since = run[q].since /\ run[q].since <= Started /\ run[q].since \in Nat
        BY <2>3, <2>8, <2>9, <3>1, <4>1
      <4>3. run'[q].since < run'[s].since
        BY <2>3, <2>6, <4>1, <4>2
      <4>4. ~Busy(q)'
        BY <2>4, <2>5, <3>1, <4>1
      <4> QED
        BY <4>3, <4>4
    <3> QED
      BY <3>1 DEF Alone
  <2> QED
    BY <2>7, <2>10, <2>11
<1>3. ASSUME NEW r \in Runs, Goes(r)
      PROVE  Exclusive' /\ Numbered' /\ Alone'
  <2>1. /\ Busy(r) /\ overlap' = overlap
        /\ run'[r].since = run[r].since /\ run'[r].pc # "new"
        /\ run'[r].pc # "failed" => run'[r].kind = run[r].kind
        /\ \A q \in Runs \ {r} : run'[q] = run[q]
    BY <1>0, <1>3, Effects, OthersStay
  <2>2. \A q \in Runs : /\ Busy(q)' => Busy(q) /\ run'[q].kind = run[q].kind
                        /\ run'[q].since = run[q].since
                        /\ run'[q].pc = "new" <=> run[q].pc = "new"
    BY <2>1 DEF Busy, Ended
  <2>3. Started' = Started
    BY <1>0, <1>3, StartedStays
  <2>4. Exclusive'
    BY <1>0, <2>2 DEF Exclusive
  <2>5. Numbered'
    BY <1>0, <2>2, <2>3 DEF Numbered
  <2>6. Alone'
    BY <1>0, <2>1, <2>2 DEF Alone
  <2> QED
    BY <2>4, <2>5, <2>6
<1> QED
  BY <1>1, <1>2, <1>3, Steps

------------------------------------------------------------------------------
(* The files of a run at work.                                             *)

LEMMA EarlierFiles ==
  /\ Earlier("inputs") = {} /\ Earlier("bundle") = {} /\ Earlier("summary") = {}
  /\ Earlier("outer_inputs") = {"bundle"} /\ Earlier("witness") = {"bundle"}
  /\ Earlier("proof") = {"bundle", "witness"}
  /\ Earlier("vk") = {"bundle", "witness", "proof"}
  /\ Earlier("public") = {"bundle", "witness", "proof", "vk"}
  /\ Earlier("result") = {"bundle", "witness", "proof", "vk", "public"}
BY DEF Earlier

LEMMA WrittenFiles ==
  ASSUME NEW record
  PROVE  /\ record.pc \in {"open", "fill"} => Written(record) = Earlier(record.path[2])
         /\ record.pc = "prove" => Written(record) = {"bundle", "witness"}
         /\ record.pc = "solve" /\ record.kind = "outer" => Written(record) = {"bundle"}
         /\ record.pc = "solve" /\ record.kind # "outer" => Written(record) = {}
         /\ record.pc \notin {"solve", "prove", "open", "fill"} => Written(record) = {}
BY DEF Written

(* A file is written by one run at a time, and neither a file of a run that is *)
(* at work nor one of the circuits it is done with is truncated by another.   *)
LEMMA OwnedApart ==
  ASSUME Typed, Exclusive, NEW q \in Runs, NEW r \in Runs, q # r, Busy(q), Busy(r),
         PointOf(run[q]), PointOf(run[r]), run[r].pc \in {"open", "fill"}
  PROVE  /\ \A name \in Written(run[q]) :
              LET p == <<IF run[q].kind = "outer" THEN 0 ELSE run[q].path[1], name>>
              IN p \in Paths => p # run[r].path
         /\ run[q].kind = "inner" =>
              \A n \in run[q].jobs \ run[q].todo : \A p \in FilesOf(n) : p # run[r].path
<1>0. AtFile(run[r]) /\ (run[q].kind = "outer") # (run[r].kind = "outer")
  BY DEF PointOf, Exclusive
<1>1. /\ run[r].path = <<run[r].path[1], run[r].path[2]>>
      /\ run[r].kind = "outer" => run[r].path[1] = 0 /\ run[r].path[2] # "summary"
      /\ run[r].kind # "outer" => run[r].path = <<0, "summary">> \/ run[r].path[1] # 0
  BY <1>0, Place DEF Summary
<1>2. \A name \in Written(run[q]) : name # "summary"
  <2>1. run[q].path[2] \in {"inputs", "witness", "proof", "vk", "public", "summary", "bundle",
                            "outer_inputs", "result"}
    BY DEF Typed, Record, Paths
  <2> QED
    BY <2>1, EarlierFiles, WrittenFiles
<1>3. run[q].kind # "outer" /\ Written(run[q]) # {} => run[q].path[1] # 0
  <2>1. ASSUME run[q].kind # "outer", Written(run[q]) # {}
        PROVE  run[q].path[1] # 0
    <3>1. /\ run[q].pc \in {"prove", "open", "fill"}
          /\ run[q].pc \in {"open", "fill"} => Earlier(run[q].path[2]) # {}
      BY <2>1, WrittenFiles
    <3>2. AtFile(run[q]) /\ run[q].path[2] # "summary"
      BY <3>1, EarlierFiles DEF PointOf
    <3> QED
      BY <2>1, <3>2, Place
  <2> QED
    BY <2>1
<1>4. 0 \notin run[q].jobs
  BY FixtureAssumption DEF Typed, Record
<1>5. ASSUME NEW name \in Written(run[q]), run[q].kind = "outer"
      PROVE  <<0, name>> # run[r].path
  BY <1>0, <1>1, <1>2, <1>5
<1>6. ASSUME NEW name \in Written(run[q]), run[q].kind # "outer"
      PROVE  <<run[q].path[1], name>> # run[r].path
  BY <1>0, <1>1, <1>3, <1>6
<1>7. ASSUME run[q].kind = "inner", NEW n \in run[q].jobs, NEW p \in FilesOf(n)
      PROVE  p # run[r].path
  BY <1>0, <1>1, <1>4, <1>7 DEF FilesOf
<1> QED
  BY <1>5, <1>6, <1>7

(* The only file a step changes is the one its run is at. *)
LEMMA FileEffects ==
  ASSUME Typed, NEW r \in Runs, PointOf(run[r]), Goes(r)
  PROVE  \/ file' = file
         \/ /\ run[r].pc \in {"open", "fill"} /\ AtFile(run[r])
            /\ run[r].path \in Paths
            /\ \A p \in Paths : p # run[r].path => file'[p] = file[p]
            /\ FillFile(r) => file'[run[r].path] = r
            /\ ~FillFile(r) => file'[run[r].path] = Torn
<1>0. run[r].path \in Paths
  BY DEF Typed, Record
<1>1. CASE OpenFile(r)
  BY <1>0, <1>1 DEF OpenFile, FillFile, Typed, PointOf
<1>2. CASE FillFile(r)
  BY <1>0, <1>2 DEF FillFile, Typed, PointOf
<1>3. CASE Die(r)
  BY <1>3 DEF Die, Abort, ReadMissing, Fail
<1> QED
  BY <1>1, <1>2, <1>3, QuietEffects DEF Goes

LEMMA OwnOthers ==
  ASSUME Typed, Exclusive, NEW r \in Runs, Goes(r), NEW q \in Runs, q # r,
         PointOf(run[r]), PointOf(run[q]), OwnFiles(q)
  PROVE  OwnFiles(q)'
<1>1. run'[q] = run[q]
  BY OthersStay
<1>2. CASE file' = file
  BY <1>1, <1>2 DEF OwnFiles, FilesOf
<1>3. CASE file' # file /\ Busy(q)
  <2>1. /\ run[r].pc \in {"open", "fill"} /\ Busy(r)
        /\ \A p \in Paths : p # run[r].path => file'[p] = file[p]
    BY <1>3, FileEffects, Effects
  <2>2. \A n \in run[q].jobs : FilesOf(n) \subseteq Paths
    BY DEF FilesOf, Typed, Record, Paths
  <2> QED
    BY <1>1, <1>3, <2>1, <2>2, OwnedApart DEF OwnFiles, FilesOf
<1>4. CASE ~Busy(q)
  <2>1. run'[q].pc \notin {"solve", "prove", "open", "fill"}
    BY <1>1, <1>4 DEF Busy, Ended
  <2>2. Written(run'[q]) = {}
    BY <2>1, WrittenFiles
  <2> QED
    BY <2>1, <2>2 DEF OwnFiles
<1> QED
  BY <1>2, <1>3, <1>4

LEMMA OwnQuiet ==
  ASSUME Typed, NEW r \in Runs, PointOf(run[r]), OwnFiles(r), Quiet(r)
  PROVE  OwnFiles(r)'
<1>0. run[r] \in Record /\ file' = file
  BY QuietEffects DEF Typed
<1>1. CASE LoadCertificates(r) \/ ReadSummary(r) \/ ReadFile(r)
  <2>1. run'[r].pc \in {"script", "read"}
    <3>1. CASE LoadCertificates(r)
      BY <1>0, <3>1 DEF LoadCertificates, Set, Typed, Record
    <3>2. CASE ReadSummary(r)
      BY <1>0, <3>2 DEF ReadSummary, Set, Typed, Record
    <3>3. CASE ReadFile(r)
      BY <1>0, <3>3 DEF ReadFile, Set, Typed, Record
    <3> QED
      BY <1>1, <3>1, <3>2, <3>3
  <2>2. Written(run'[r]) = {}
    BY <2>1, WrittenFiles
  <2> QED
    BY <2>1, <2>2 DEF OwnFiles
<1>2. CASE CollectJobs(r)
  <2> DEFINE same == ScriptReads(r) = run[r].rust
  <2>1. PICK ds \in SUBSET Disclosures :
          Set(r, NextJob([run[r] EXCEPT !.same = same, !.rust = 0, !.given = @ /\ ~same,
                            !.jobs = Base \cup ds, !.todo = Base \cup ds]))
    BY <1>2 DEF CollectJobs
  <2> DEFINE record == [run[r] EXCEPT !.same = same, !.rust = 0, !.given = @ /\ ~same,
                            !.jobs = Base \cup ds, !.todo = Base \cup ds]
  <2>2. record \in Record /\ record.todo = record.jobs /\ record.kind # "outer"
    BY <1>0, <1>2 DEF Record, Circuits, CollectJobs, PointOf
  <2>3. run'[r] = NextJob(record)
    BY <2>1 DEF Set, Typed
  <2> HIDE DEF record, same
  <2>4. /\ run'[r].todo = run'[r].jobs /\ run'[r].kind # "outer"
        /\ \/ run'[r].pc = "solve"
           \/ run'[r].pc = "open" /\ run'[r].path[2] = "summary"
    BY <2>2, <2>3, NextJobFields DEF Summary
  <2>5. Written(run'[r]) = {}
    BY <2>4, WrittenFiles, EarlierFiles
  <2> QED
    BY <2>4, <2>5 DEF OwnFiles
<1>3. CASE WriteBundle(r)
  <2>1. run'[r] = Write([run[r] EXCEPT !.bundle = {}, !.summary = NoFile], 0, "bundle")
    BY <1>3 DEF WriteBundle, Set, Typed
  <2>2. run'[r].path[2] = "bundle" /\ run'[r].pc \in {"open", "fill"} /\ run'[r].kind = "outer"
    BY <1>0, <1>3, <2>1 DEF WriteBundle, PointOf, Write, Record
  <2>3. Written(run'[r]) = {}
    BY <2>2, WrittenFiles, EarlierFiles
  <2> QED
    BY <2>2, <2>3 DEF OwnFiles
<1>4. CASE Solve(r)
  <2> DEFINE env == Format(run[r].asked, run[r].env)
             solved == [run[r] EXCEPT !.env = env,
                          !.witness = IF env = "unset" THEN "legacy" ELSE "compact"]
  <2>1. CASE run[r].kind = "outer"
    <3>1. run'[r] = Write(solved, 0, "witness")
      BY <1>4, <2>1 DEF Solve, Set, Typed
    <3>2. /\ run'[r].path[2] = "witness" /\ run'[r].pc \in {"open", "fill"}
          /\ run'[r].kind = "outer"
      BY <1>0, <2>1, <3>1 DEF Write, Record
    <3>3. Written(run'[r]) = {"bundle"} /\ Written(run[r]) = {"bundle"}
      BY <1>4, <2>1, <3>2, WrittenFiles, EarlierFiles DEF Solve
    <3> QED
      BY <1>0, <2>1, <3>2, <3>3 DEF OwnFiles
  <2>2. CASE run[r].kind # "outer"
    <3>1. run'[r] = Write(solved, Circuit(r), "inputs")
      BY <1>4, <2>2 DEF Solve, Set, Typed
    <3>2. /\ run'[r].path[2] = "inputs" /\ run'[r].pc \in {"open", "fill"}
          /\ run'[r].kind = run[r].kind /\ run'[r].jobs = run[r].jobs
          /\ run'[r].todo = run[r].todo
      BY <1>0, <3>1 DEF Write, Record
    <3>3. Written(run'[r]) = {}
      BY <3>2, WrittenFiles, EarlierFiles
    <3>4. run[r].pc = "solve"
      BY <1>4 DEF Solve
    <3> QED
      BY <1>0, <3>2, <3>3, <3>4 DEF OwnFiles, FilesOf
  <2> QED
    BY <2>1, <2>2
<1>5. CASE Prove(r)
  <2>1. run'[r] = Write(run[r], run[r].path[1], "proof") /\ run[r].pc = "prove"
    BY <1>5 DEF Prove, Set, Typed
  <2>2. /\ run'[r].path[2] = "proof" /\ run'[r].pc \in {"open", "fill"}
        /\ run'[r].path[1] = run[r].path[1]
        /\ run'[r].kind = run[r].kind /\ run'[r].jobs = run[r].jobs
        /\ run'[r].todo = run[r].todo
    BY <1>0, <2>1 DEF Write, Record
  <2>3. Written(run'[r]) = {"bundle", "witness"} /\ Written(run[r]) = {"bundle", "witness"}
    BY <2>1, <2>2, WrittenFiles, EarlierFiles
  <2> QED
    BY <1>0, <2>1, <2>2, <2>3 DEF OwnFiles, FilesOf
<1> QED
  BY <1>1, <1>2, <1>3, <1>4, <1>5 DEF Quiet

LEMMA OwnOpen ==
  ASSUME Typed, NEW r \in Runs, PointOf(run[r]), OwnFiles(r), OpenFile(r)
  PROVE  OwnFiles(r)'
<1>0. /\ AtFile(run[r]) /\ run[r].pc = "open" /\ run[r] \in Record
      /\ run'[r] = [run[r] EXCEPT !.pc = "fill"]
      /\ run[r].path \in Paths
  BY OpenPoint DEF OpenFile, PointOf, Typed, Record
<1>1. /\ run'[r].pc = "fill" /\ run'[r].kind = run[r].kind /\ run'[r].todo = run[r].todo
      /\ run'[r].jobs = run[r].jobs /\ run'[r].path = run[r].path
  BY <1>0 DEF Record
<1>2. Written(run'[r]) = Written(run[r]) /\ Written(run[r]) = Earlier(run[r].path[2])
  <2>1. Written(run'[r]) = Earlier(run'[r].path[2])
    BY <1>1, WrittenFiles
  <2>2. Written(run[r]) = Earlier(run[r].path[2])
    BY <1>0, WrittenFiles
  <2> QED
    BY <1>1, <2>1, <2>2
<1>3. \A p \in Paths : p # run[r].path => file'[p] = file[p]
  BY <1>0 DEF OpenFile, Typed
<1>4. run[r].path[2] \notin Earlier(run[r].path[2])
  <2>1. run[r].path[2] \in {"inputs", "witness", "proof", "vk", "public", "summary", "bundle",
                            "outer_inputs", "result"}
    BY <1>0 DEF Paths
  <2> QED
    BY <2>1, EarlierFiles
<1>5. ASSUME NEW n \in run[r].jobs \ run[r].todo, NEW p \in FilesOf(n), run[r].kind = "inner"
      PROVE  p \in Paths /\ p # run[r].path
  <2>1. p \in Paths /\ p[1] = n /\ n # 0
    BY FixtureAssumption DEF FilesOf, Paths, Typed, Record
  <2>2. run[r].path[1] \in run[r].todo \/ run[r].path[1] = 0
    BY <1>0, <1>5, Place DEF Summary
  <2> QED
    BY <1>5, <2>1, <2>2
<1> QED
  BY <1>0, <1>1, <1>2, <1>3, <1>4, <1>5 DEF OwnFiles

(* After a file is filled, everything before it and itself is written.     *)
LEMMA FilledFiles ==
  ASSUME Typed, NEW r \in Runs, PointOf(run[r]), OwnFiles(r), FillFile(r)
  PROVE  /\ \A name \in Earlier(run[r].path[2]) \cup {run[r].path[2]} :
              LET p == <<run[r].path[1], name>> IN p \in Paths => file'[p] = r
         /\ run[r].kind = "inner" =>
              \A n \in run[r].jobs \ run[r].todo : \A p \in FilesOf(n) : file'[p] = r
<1>0. /\ AtFile(run[r]) /\ run[r].pc = "fill" /\ run[r] \in Record
      /\ run[r].path \in Paths
      /\ \A p \in Paths : file'[p] = IF p = run[r].path THEN r ELSE file[p]
  BY DEF FillFile, PointOf, Typed, Record
<1>1. Written(run[r]) = Earlier(run[r].path[2])
  BY <1>0, WrittenFiles
<1>2. run[r].kind = "outer" => run[r].path[1] = 0
  BY <1>0, Place
<1>3. run[r].path = <<run[r].path[1], run[r].path[2]>>
  BY <1>0, Place
<1>4. ASSUME NEW n \in run[r].jobs, NEW p \in FilesOf(n)
      PROVE  p \in Paths
  BY DEF FilesOf, Paths, Typed, Record
<1> QED
  BY <1>0, <1>1, <1>2, <1>3, <1>4 DEF OwnFiles

LEMMA OwnFill ==
  ASSUME Typed, NEW r \in Runs, PointOf(run[r]), OwnFiles(r), FillFile(r)
  PROVE  OwnFiles(r)'
<1> DEFINE n == run[r].path[1]
           name == run[r].path[2]
<1>a. /\ run[r] \in Record /\ run'[r] = Following(r) /\ AtFile(run[r])
      /\ name \in {"inputs", "witness", "proof", "vk", "public", "summary", "bundle",
                   "outer_inputs", "result"}
  BY DEF Typed, Record, Paths, FillFile, Set, PointOf
<1>b. /\ \A x \in Earlier(name) \cup {name} : <<n, x>> \in Paths => file'[<<n, x>>] = r
      /\ run[r].kind = "inner" =>
           \A k \in run[r].jobs \ run[r].todo : \A p \in FilesOf(k) : file'[p] = r
  BY FilledFiles
<1>0. /\ run[r] \in Record /\ run'[r] = Following(r) /\ AtFile(run[r])
      /\ name \in {"inputs", "witness", "proof", "vk", "public", "summary", "bundle",
                   "outer_inputs", "result"}
      /\ \A x \in Earlier(name) \cup {name} : <<n, x>> \in Paths => file'[<<n, x>>] = r
      /\ run[r].kind = "inner" =>
           \A k \in run[r].jobs \ run[r].todo : \A p \in FilesOf(k) : file'[p] = r
  BY <1>a, <1>b
<1>1. /\ run[r].kind = "outer" => n = 0 /\ name # "inputs"
      /\ name \in {"bundle", "outer_inputs"} \/ (name = "public" /\ n = 0) => run[r].kind = "outer"
      /\ run[r].kind # "outer" /\ name # "summary" => n # 0 /\ n \in run[r].todo
      /\ name \in {"proof", "vk", "public"} => run[r].kind # "solve"
  BY <1>0, Place DEF Summary
<1>2. CASE name \in {"inputs", "proof", "vk", "bundle"} \/ (name = "public" /\ n = 0)
  <2> DEFINE new == CASE name = "inputs" -> "witness" [] name = "proof" -> "vk"
                      [] name = "vk" -> "public" [] name = "bundle" -> "outer_inputs"
                      [] OTHER -> "result"
  <2>1. run'[r] = Write(run[r], n, new)
    <3>1. CASE name \in {"inputs", "proof", "vk"}
      BY <1>0, <3>1, AfterFile
    <3>2. CASE name = "bundle"
      BY <1>0, <1>1, <3>2, AfterFile
    <3>3. CASE name = "public" /\ n = 0
      BY <1>0, <3>3, AfterFile DEF AfterPublic
    <3> QED
      BY <1>2, <3>1, <3>2, <3>3
  <2>2. /\ run'[r].path[2] = new /\ run'[r].path[1] = n /\ run'[r].pc \in {"open", "fill"}
        /\ run'[r].kind = run[r].kind /\ run'[r].jobs = run[r].jobs
        /\ run'[r].todo = run[r].todo
    BY <1>0, <2>1 DEF Write, Record
  <2>3. Written(run'[r]) = Earlier(new)
    BY <2>2, WrittenFiles
  <2>4. Earlier(new) \subseteq Earlier(name) \cup {name} \cup {"bundle"}
    BY <1>2, EarlierFiles
  <2>5. name = "inputs" => <<n, "bundle">> \notin Paths
    <3>1. name = "inputs" => n # 0
      BY <1>1
    <3>2. <<n, "bundle">> \in Paths => n = 0
      BY DEF Paths
    <3> QED
      BY <3>1, <3>2
  <2>6. name # "inputs" => "bundle" \in Earlier(name) \cup {name}
    BY <1>2, EarlierFiles
  <2>7. \A x \in Earlier(new) : <<n, x>> \in Paths => file'[<<n, x>>] = r
    BY <1>0, <2>4, <2>5, <2>6
  <2> HIDE DEF new
  <2> QED
    BY <1>0, <1>1, <2>2, <2>3, <2>7 DEF OwnFiles, FilesOf
<1>3. CASE name = "witness" /\ run[r].kind # "solve"
  <2>1. run'[r] = [run[r] EXCEPT !.pc = "prove"]
    BY <1>0, <1>3, AfterFile DEF AfterWitness
  <2>2. /\ run'[r].pc = "prove" /\ run'[r].kind = run[r].kind /\ run'[r].todo = run[r].todo
        /\ run'[r].jobs = run[r].jobs /\ run'[r].path = run[r].path
    BY <1>0, <2>1 DEF Record
  <2>3. Written(run'[r]) = {"bundle", "witness"} /\ Earlier(name) = {"bundle"}
    BY <1>3, <2>2, WrittenFiles, EarlierFiles
  <2> QED
    BY <1>0, <1>1, <1>3, <2>2, <2>3 DEF OwnFiles, FilesOf
<1>4. CASE (name = "witness" /\ run[r].kind = "solve") \/ (name = "public" /\ n # 0)
  <2> DEFINE less == [run[r] EXCEPT !.todo = @ \ {n}]
  <2>1. run'[r] = NextJob(less)
    BY <1>0, <1>4, AfterFile DEF AfterWitness, AfterPublic
  <2>2. /\ less \in Record /\ less.todo = run[r].todo \ {n} /\ less.jobs = run[r].jobs
        /\ less.kind = run[r].kind
    BY <1>0 DEF Record
  <2> HIDE DEF less
  <2>3. /\ run'[r].kind = run[r].kind /\ run'[r].jobs = run[r].jobs
        /\ run'[r].todo = run[r].todo \ {n}
        /\ \/ run'[r].pc = "solve"
           \/ run'[r].pc = "open" /\ run'[r].path[2] = "summary"
    BY <2>1, <2>2, NextJobFields DEF Summary
  <2>4. run[r].kind # "outer"
    BY <1>1, <1>4
  <2>5. Written(run'[r]) = {}
    BY <2>3, <2>4, WrittenFiles, EarlierFiles
  <2>6. ASSUME run[r].kind = "inner"
        PROVE  \A p \in FilesOf(n) : file'[p] = r
    <3>1. name = "public" /\ n \in Circuits
      BY <1>0, <1>1, <1>4, <2>6 DEF Typed, Record
    <3>2. FilesOf(n) \subseteq Paths
      BY <3>1 DEF FilesOf, Paths
    <3> QED
      BY <1>0, <3>1, <3>2, EarlierFiles DEF FilesOf
  <2> QED
    BY <1>0, <2>3, <2>5, <2>6 DEF OwnFiles, FilesOf
<1>5. CASE name = "outer_inputs"
  <2>1. run'[r] = [run[r] EXCEPT !.pc = "solve"] /\ run[r].kind = "outer"
    BY <1>0, <1>1, <1>5, AfterFile
  <2>2. run'[r].pc = "solve" /\ run'[r].kind = "outer"
    BY <1>0, <2>1 DEF Record
  <2>3. Written(run'[r]) = {"bundle"} /\ Earlier(name) = {"bundle"}
    BY <1>5, <2>2, WrittenFiles, EarlierFiles
  <2> QED
    BY <1>0, <1>1, <2>1, <2>2, <2>3 DEF OwnFiles
<1>6. CASE name \in {"summary", "result"}
  <2>1. run'[r] = Done(run[r])
    BY <1>0, <1>6, AfterFile
  <2>2. run'[r].pc = "done"
    BY <2>1 DEF Done, New
  <2>3. Written(run'[r]) = {}
    BY <2>2, WrittenFiles
  <2> QED
    BY <2>2, <2>3 DEF OwnFiles
<1> QED
  BY <1>0, <1>2, <1>3, <1>4, <1>5, <1>6

LEMMA OwnStep ==
  ASSUME IInv, Next
  PROVE  (\A r \in Runs : OwnFiles(r))'
<1>0. /\ Typed /\ Exclusive
      /\ \A r \in Runs : PointOf(run[r]) /\ OwnFiles(r)
  BY DEF IInv
<1>1. CASE Edit
  BY <1>0, <1>1 DEF Edit, OwnFiles, FilesOf
<1>2. ASSUME NEW r \in Runs, StartCommand(r)
      PROVE  \A q \in Runs : OwnFiles(q)'
  <2>1. /\ run'[r].pc \in {"readSummary", "certificates"}
        /\ \A q \in Runs \ {r} : run'[q] = run[q]
    BY <1>0, <1>2, StartPoint
  <2>2. file' = file
    BY <1>2 DEF StartCommand, Start
  <2>3. Written(run'[r]) = {}
    BY <2>1, WrittenFiles
  <2>4. OwnFiles(r)'
    BY <2>1, <2>3 DEF OwnFiles
  <2>5. \A q \in Runs \ {r} : OwnFiles(q)'
    BY <1>0, <2>1, <2>2 DEF OwnFiles, FilesOf
  <2> QED
    BY <2>4, <2>5
<1>3. ASSUME NEW r \in Runs, Goes(r)
      PROVE  \A q \in Runs : OwnFiles(q)'
  <2>1. CASE Die(r)
    <3>1. run'[r].pc = "failed"
      BY <1>0, <2>1, DiePoint
    <3>2. Written(run'[r]) = {}
      BY <3>1, WrittenFiles
    <3> QED
      BY <1>0, <1>3, <3>1, <3>2, OwnOthers DEF OwnFiles
  <2>2. CASE ~Die(r)
    BY <1>0, <1>3, <2>2, OwnOthers, OwnQuiet, OwnOpen, OwnFill DEF Goes
  <2> QED
    BY <2>1, <2>2
<1> QED
  BY <1>1, <1>2, <1>3, Steps

------------------------------------------------------------------------------
(* What an index lists.                                                    *)

\* A run that may have overwritten a file stays one, until it writes an index
\* of its own.
LEMMA OverwritersStay ==
  ASSUME Typed, NEW r \in Runs, StartCommand(r) \/ Goes(r), PointOf(run[r]),
         NEW q \in Runs \ {r}, NEW outer \in BOOLEAN,
         run'[r].pc = "done" => (run[r].kind = "outer") # outer
  PROVE  Overwriters(q, outer) \subseteq Overwriters(q, outer)'
<1>1. \A s \in Runs \ {r} : run'[s] = run[s]
  BY OthersStay
<1>2. ASSUME NEW s \in Overwriters(q, outer)
      PROVE  s \in Overwriters(q, outer)'
  <2>1. CASE s # r
    BY <1>1, <1>2, <2>1 DEF Overwriters, Busy, Ended
  <2>2. CASE s = r /\ StartCommand(r)
    BY <1>2, <2>2, StartPoint DEF Overwriters, Busy
  <2>3. CASE s = r /\ Goes(r)
    <3>1. /\ Busy(r) /\ run'[r].since = run[r].since /\ run'[r].pc # "new"
          /\ run'[r].pc # "failed" => run'[r].kind = run[r].kind
      BY <2>3, Effects
    <3>2. (run[r].kind = "outer") = outer
      BY <1>2, <2>3, <3>1 DEF Overwriters, Busy, Ended
    <3> QED
      BY <1>1, <1>2, <2>3, <3>1, <3>2 DEF Overwriters, Busy, Ended
  <2> QED
    BY <1>2, <2>1, <2>2, <2>3
<1> QED
  BY <1>2

(* A step keeps a file of an ended run, or its run is one of those that may *)
(* have overwritten it.                                                     *)
LEMMA KeptStays ==
  ASSUME Typed, Alone, ~overlap, NEW r \in Runs, Goes(r), PointOf(run[r]),
         NEW q \in Runs \ {r}, NEW outer \in BOOLEAN, NEW p \in Paths,
         p[1] = 0 => outer, p[1] # 0 => ~outer,
         p[2] \in {"bundle", "witness", "proof", "vk", "public"}, Kept(q, p, outer),
         run'[r].pc = "done" => (run[r].kind = "outer") # outer
  PROVE  Kept(q, p, outer)'
<1>1. Overwriters(q, outer) \subseteq Overwriters(q, outer)'
  BY OverwritersStay
<1>2. CASE file'[p] = file[p]
  BY <1>1, <1>2 DEF Kept
<1>3. CASE file'[p] # file[p]
  <2>1. /\ run[r].pc \in {"open", "fill"} /\ AtFile(run[r]) /\ p = run[r].path
        /\ file'[p] \in {r, Torn} /\ ~Die(r) /\ ~Quiet(r)
    <3>1. ~Die(r) /\ ~Quiet(r)
      BY <1>3, QuietEffects DEF Die, Abort, ReadMissing, Fail
    <3> QED
      BY <1>3, <3>1, FileEffects
  <2>2. run[r].kind = "outer" <=> outer
    <3>1. /\ run[r].kind = "outer" => run[r].path[1] = 0
          /\ run[r].kind # "outer" => run[r].path[1] # 0 \/ run[r].path[2] = "summary"
      BY <2>1, Place
    <3> QED
      BY <2>1, <3>1
  <2>3. /\ Busy(r) /\ run'[r].since = run[r].since /\ run'[r].kind = run[r].kind
        /\ run'[r].pc \notin {"new", "failed", "done"}
    <3>1. OpenFile(r) \/ FillFile(r)
      BY <2>1 DEF Goes
    <3>2. CASE OpenFile(r)
      <4>1. run'[r].pc = "fill"
        BY <3>2, OpenPoint
      <4> QED
        BY <3>2, <4>1, Effects
    <3>3. CASE FillFile(r)
      BY <2>1, <3>3, FillEffects
    <3> QED
      BY <3>1, <3>2, <3>3
  <2>4. run[q].since < run[r].since /\ run'[q] = run[q]
    BY <2>3, OthersStay DEF Alone
  <2>5. r \in Overwriters(q, outer)'
    BY <2>2, <2>3, <2>4 DEF Overwriters, Busy, Ended
  <2> QED
    BY <2>1, <2>5 DEF Kept
<1> QED
  BY <1>2, <1>3

(* When a run writes an index, all it lists is its own. *)
LEMMA IndexFresh ==
  ASSUME Typed, NEW r \in Runs, PointOf(run[r]), OwnFiles(r), FillFile(r)
  PROVE  /\ run[r].path = Summary =>
              /\ run'[r].pc = "done" /\ run'[r].kind \in {"inner", "solve"}
              /\ run'[r].kind = "inner" =>
                   \A n \in run'[r].jobs : \A p \in FilesOf(n) : file'[p] = r
         /\ run[r].path = <<0, "result">> =>
              /\ run'[r].pc = "done" /\ run'[r].kind = "outer"
              /\ \A p \in FilesOf(0) \cup {<<0, "bundle">>} : file'[p] = r
<1>0. /\ AtFile(run[r]) /\ run[r].kind \in {"inner", "solve", "outer"}
      /\ run'[r].kind = run[r].kind
      /\ run'[r].pc = "done" <=> run[r].path[2] \in {"summary", "result"}
      /\ run'[r].pc = "done" => run'[r].jobs = run[r].jobs
  BY FillEffects DEF FillFile, PointOf, Typed, Record
<1>1. ASSUME run[r].path = Summary
      PROVE  /\ run'[r].pc = "done" /\ run'[r].kind \in {"inner", "solve"}
             /\ run'[r].kind = "inner" =>
                  \A n \in run'[r].jobs : \A p \in FilesOf(n) : file'[p] = r
  <2>1. run[r].path[2] = "summary" /\ run[r].kind # "outer" /\ run[r].todo = {}
    BY <1>0, <1>1, Place DEF Summary
  <2>2. run[r].kind = "inner" =>
          \A n \in run[r].jobs \ run[r].todo : \A p \in FilesOf(n) : file'[p] = r
    BY FilledFiles
  <2> QED
    BY <1>0, <2>1, <2>2
<1>2. ASSUME run[r].path = <<0, "result">>
      PROVE  /\ run'[r].pc = "done" /\ run'[r].kind = "outer"
             /\ \A p \in FilesOf(0) \cup {<<0, "bundle">>} : file'[p] = r
  <2>1. run[r].path[1] = 0 /\ run[r].path[2] = "result"
    BY <1>2
  <2>2. run[r].kind = "outer"
    BY <1>0, <2>1, Place DEF Summary
  <2>3. \A name \in Earlier("result") : <<0, name>> \in Paths => file'[<<0, name>>] = r
    BY <2>1, FilledFiles
  <2>4. \A name \in {"bundle", "witness", "proof", "vk", "public"} : file'[<<0, name>>] = r
    BY <2>3, EarlierFiles DEF Paths
  <2> QED
    BY <1>0, <2>1, <2>2, <2>4 DEF FilesOf
<1> QED
  BY <1>1, <1>2

LEMMA IndexGoes ==
  ASSUME IInv, NEW r \in Runs, Goes(r), NEW q \in Runs, q # r
  PROVE  /\ file'[Summary] = q => run'[q].pc = "done" /\ run'[q].kind \in {"inner", "solve"}
         /\ file'[<<0, "result">>] = q => run'[q].pc = "done" /\ run'[q].kind = "outer"
         /\ ~overlap' /\ file'[Summary] = q /\ run'[q].kind = "inner" =>
              \A n \in run'[q].jobs : \A p \in FilesOf(n) : Kept(q, p, FALSE)'
         /\ ~overlap' /\ file'[<<0, "result">>] = q =>
              \A p \in FilesOf(0) \cup {<<0, "bundle">>} : Kept(q, p, TRUE)'
<1>0. /\ Typed /\ Alone /\ PointOf(run[r]) /\ Indexes
      /\ run'[q] = run[q] /\ overlap' = overlap
      /\ Summary \in Paths /\ <<0, "result">> \in Paths
  BY OthersStay, Effects DEF IInv, Paths, Summary
<1>1. \A p \in Paths : file'[p] = q => file[p] = q
  BY <1>0, FileEffects, FixtureAssumption
<1>2. run[q].jobs \subseteq Circuits /\ 0 \notin Circuits
  BY <1>0, FixtureAssumption DEF Typed, Record
<1>3. run'[r].pc = "done" =>
        \/ run[r].kind = "outer" /\ file'[<<0, "result">>] = r
        \/ run[r].kind # "outer" /\ file'[Summary] = r
  <2>1. ASSUME run'[r].pc = "done"
        PROVE  \/ run[r].kind = "outer" /\ file'[<<0, "result">>] = r
               \/ run[r].kind # "outer" /\ file'[Summary] = r
    <3>1. FillFile(r)
      BY <1>0, <2>1, QuietEffects, OpenPoint, DiePoint DEF Goes
    <3>2. run[r].path[2] \in {"summary", "result"} /\ AtFile(run[r])
      BY <1>0, <2>1, <3>1, FillEffects DEF FillFile, PointOf
    <3>3. file'[run[r].path] = r
      BY <1>0, <3>1 DEF FillFile, Typed, Record
    <3> QED
      BY <1>0, <3>2, <3>3, Place DEF Summary
  <2> QED
    BY <2>1
<1>4. ASSUME ~overlap', file'[Summary] = q, run'[q].kind = "inner",
             NEW n \in run'[q].jobs, NEW p \in FilesOf(n)
      PROVE  Kept(q, p, FALSE)'
  <2>1. /\ ~overlap /\ n \in run[q].jobs /\ Kept(q, p, FALSE)
        /\ p \in Paths /\ p[1] # 0 /\ p[2] \in {"witness", "proof", "vk", "public"}
    <3>1. ~overlap /\ file[Summary] = q /\ run[q].kind = "inner" /\ n \in run[q].jobs
      BY <1>0, <1>1, <1>4
    <3>2. Kept(q, p, FALSE)
      BY <1>0, <1>4, <3>1 DEF Indexes
    <3>3. n \in Circuits /\ n # 0
      BY <1>2, <3>1
    <3>4. p \in Paths /\ p[1] # 0 /\ p[2] \in {"witness", "proof", "vk", "public"}
      BY <1>4, <3>3 DEF FilesOf, Paths
    <3> QED
      BY <3>1, <3>2, <3>4
  <2>2. run'[r].pc = "done" => run[r].kind = "outer"
    BY <1>3, <1>4
  <2> QED
    BY <1>0, <2>1, <2>2, KeptStays
<1>5. ASSUME ~overlap', file'[<<0, "result">>] = q,
             NEW p \in FilesOf(0) \cup {<<0, "bundle">>}
      PROVE  Kept(q, p, TRUE)'
  <2>1. /\ ~overlap /\ Kept(q, p, TRUE)
        /\ p \in Paths /\ p[1] = 0
        /\ p[2] \in {"bundle", "witness", "proof", "vk", "public"}
    <3>1. ~overlap /\ file[<<0, "result">>] = q
      BY <1>0, <1>1, <1>5
    <3>2. Kept(q, p, TRUE)
      BY <1>0, <1>5, <3>1 DEF Indexes
    <3>3. p \in Paths /\ p[1] = 0 /\ p[2] \in {"bundle", "witness", "proof", "vk", "public"}
      BY <1>5 DEF FilesOf, Paths
    <3> QED
      BY <3>1, <3>2, <3>3
  <2>2. run'[r].pc = "done" => run[r].kind # "outer"
    BY <1>3, <1>5
  <2> QED
    BY <1>0, <2>1, <2>2, KeptStays
<1>6. file'[Summary] = q => run'[q].pc = "done" /\ run'[q].kind \in {"inner", "solve"}
  BY <1>0, <1>1 DEF Indexes
<1>7. file'[<<0, "result">>] = q => run'[q].pc = "done" /\ run'[q].kind = "outer"
  BY <1>0, <1>1 DEF Indexes
<1> QED
  BY <1>4, <1>5, <1>6, <1>7

LEMMA IndexOwn ==
  ASSUME IInv, NEW r \in Runs, Goes(r)
  PROVE  /\ file'[Summary] = r => run'[r].pc = "done" /\ run'[r].kind \in {"inner", "solve"}
         /\ file'[<<0, "result">>] = r => run'[r].pc = "done" /\ run'[r].kind = "outer"
         /\ file'[Summary] = r /\ run'[r].kind = "inner" =>
              \A n \in run'[r].jobs : \A p \in FilesOf(n) : file'[p] = r
         /\ file'[<<0, "result">>] = r =>
              \A p \in FilesOf(0) \cup {<<0, "bundle">>} : file'[p] = r
<1>0. /\ Typed /\ PointOf(run[r]) /\ OwnFiles(r) /\ Busy(r)
      /\ file[Summary] # r /\ file[<<0, "result">>] # r
      /\ Summary \in Paths /\ <<0, "result">> \in Paths
  BY Effects DEF IInv, Indexes, Busy, Ended, Paths, Summary
<1>1. CASE FillFile(r)
  <2>1. \A p \in Paths : p # run[r].path => file'[p] = file[p]
    BY <1>0, <1>1 DEF FillFile, Typed
  <2>2. /\ file'[Summary] = r => run[r].path = Summary
        /\ file'[<<0, "result">>] = r => run[r].path = <<0, "result">>
    BY <1>0, <2>1
  <2> QED
    BY <1>0, <1>1, <2>2, IndexFresh
<1>2. CASE ~FillFile(r)
  <2>1. file'[Summary] # r /\ file'[<<0, "result">>] # r
    BY <1>0, <1>2, FileEffects, FixtureAssumption
  <2> QED
    BY <2>1
<1> QED
  BY <1>1, <1>2

LEMMA IndexStep ==
  ASSUME IInv, Next
  PROVE  Indexes'
<1>0. Typed /\ Indexes /\ \A r \in Runs : PointOf(run[r])
  BY DEF IInv
<1>1. CASE Edit
  BY <1>0, <1>1 DEF Edit, Indexes, Kept, Overwriters, Busy, Ended, FilesOf
<1>2. ASSUME NEW r \in Runs, StartCommand(r)
      PROVE  Indexes'
  <2>1. /\ run[r].pc = "new" /\ file' = file /\ (overlap => overlap')
        /\ run'[r].pc # "done" /\ \A q \in Runs \ {r} : run'[q] = run[q]
    BY <1>0, <1>2, StartPoint DEF StartCommand, Start
  <2>2. file[Summary] # r /\ file[<<0, "result">>] # r
    BY <1>0, <2>1 DEF Indexes
  <2>3. \A q \in Runs \ {r} : \A outer \in BOOLEAN :
          Overwriters(q, outer) \subseteq Overwriters(q, outer)'
    BY <1>0, <1>2, <2>1, OverwritersStay
  <2>4. ASSUME NEW q \in Runs \ {r}, NEW p, NEW outer \in BOOLEAN, Kept(q, p, outer)
        PROVE  Kept(q, p, outer)'
    BY <2>1, <2>3, <2>4 DEF Kept
  <2> QED
    BY <1>0, <2>1, <2>2, <2>4 DEF Indexes, FilesOf
<1>3. ASSUME NEW r \in Runs, Goes(r)
      PROVE  Indexes'
  <2>1. ASSUME NEW p, NEW outer \in BOOLEAN, file'[p] = r
        PROVE  Kept(r, p, outer)'
    BY <2>1 DEF Kept
  <2>2. ASSUME NEW q \in Runs
        PROVE  /\ file'[Summary] = q => run'[q].pc = "done" /\ run'[q].kind \in {"inner", "solve"}
               /\ file'[<<0, "result">>] = q => run'[q].pc = "done" /\ run'[q].kind = "outer"
               /\ ~overlap' /\ file'[Summary] = q /\ run'[q].kind = "inner" =>
                    \A n \in run'[q].jobs : \A p \in FilesOf(n) : Kept(q, p, FALSE)'
               /\ ~overlap' /\ file'[<<0, "result">>] = q =>
                    \A p \in FilesOf(0) \cup {<<0, "bundle">>} : Kept(q, p, TRUE)'
    <3>1. CASE q = r
      <4>1. /\ file'[Summary] = r => run'[r].pc = "done" /\ run'[r].kind \in {"inner", "solve"}
            /\ file'[<<0, "result">>] = r => run'[r].pc = "done" /\ run'[r].kind = "outer"
        BY <1>3, IndexOwn
      <4>2. ASSUME file'[Summary] = r, run'[r].kind = "inner",
                   NEW n \in run'[r].jobs, NEW p \in FilesOf(n)
            PROVE  Kept(r, p, FALSE)'
        <5>1. file'[p] = r
          BY <1>3, <4>2, IndexOwn
        <5> QED
          BY <5>1, <2>1
      <4>3. ASSUME file'[<<0, "result">>] = r, NEW p \in FilesOf(0) \cup {<<0, "bundle">>}
            PROVE  Kept(r, p, TRUE)'
        <5>1. file'[p] = r
          BY <1>3, <4>3, IndexOwn
        <5> QED
          BY <5>1, <2>1
      <4> QED
        BY <3>1, <4>1, <4>2, <4>3
    <3>2. CASE q # r
      BY <1>3, <3>2, IndexGoes
    <3> QED
      BY <3>1, <3>2
  <2> QED
    BY <2>2 DEF Indexes, FilesOf
<1> QED
  BY <1>1, <1>2, <1>3, Steps

------------------------------------------------------------------------------
(* What an outer run has read.                                             *)

LEMMA ReadingStep ==
  ASSUME IInv, Next
  PROVE  (\A r \in Runs : Reading(r))'
<1>0. /\ Typed /\ Alone /\ Indexes
      /\ \A r \in Runs : PointOf(run[r]) /\ Reading(r)
  BY DEF IInv
<1>1. CASE Edit
  BY <1>0, <1>1 DEF Edit, Reading
<1>2. ASSUME NEW r \in Runs, StartCommand(r)
      PROVE  \A q \in Runs : Reading(q)'
  <2>1. /\ run'[r].pc # "read" /\ \A q \in Runs \ {r} : run'[q] = run[q]
        /\ overlap' = (overlap \/ \E q \in Runs : Busy(q))
    BY <1>0, <1>2, StartPoint DEF StartCommand, Start
  <2> QED
    BY <2>1 DEF Reading, Busy, Ended
<1>3. ASSUME NEW r \in Runs, Goes(r), NEW q \in Runs, q # r
      PROVE  Reading(q)'
  <2>1. Busy(r) /\ overlap' = overlap /\ run'[q] = run[q]
    BY <1>0, <1>3, Effects, OthersStay
  <2>2. run[q].pc = "read" => overlap
    BY <1>0, <1>3, <2>1 DEF Alone, Busy, Ended
  <2> QED
    BY <2>1, <2>2 DEF Reading
<1>4. ASSUME NEW r \in Runs, Goes(r)
      PROVE  Reading(r)'
  <2>0. run[r] \in Record /\ Busy(r) /\ overlap' = overlap
    BY <1>0, <1>4, Effects DEF Typed
  <2>1. CASE ReadSummary(r)
    <3>1. /\ run'[r] = [run[r] EXCEPT !.pc = "read", !.summary = file[Summary], !.todo = Listed(r)]
          /\ file[Summary] \in Runs /\ file' = file /\ run[r].bundle = {}
      BY <1>0, <2>1 DEF ReadSummary, Set, Typed, PointOf
    <3>2. run'[r].summary = file[Summary] /\ run'[r].todo = Listed(r) /\ run'[r].bundle = {}
      BY <2>0, <3>1 DEF Record
    <3>3. file[Summary] # r
      BY <1>0, <2>0, <3>1 DEF Indexes, Busy, Ended
    <3>4. run'[file[Summary]] = run[file[Summary]]
      BY <1>0, <1>4, <3>1, <3>3, OthersStay
    <3> QED
      BY <3>1, <3>2, <3>4 DEF Reading, Listed
  <2>2. CASE ReadFile(r)
    <3> DEFINE p == Wanted(r)
    <3>1. /\ run[r].pc = "read" /\ file[p] # NoFile /\ file' = file
          /\ run'[r] = [run[r] EXCEPT !.bundle = @ \cup {<<p[1], p[2], file[p]>>},
                          !.todo = IF p[2] = "public" THEN @ \ {p[1]} ELSE @]
          /\ Circuit(r) \in run[r].todo
      BY <1>0, <2>2, CircuitChosen DEF ReadFile, Set, Typed
    <3>2. p = <<p[1], p[2]>> /\ p[1] = Circuit(r)
      BY DEF Wanted
    <3> HIDE DEF p
    <3>3. /\ run'[r].summary = run[r].summary /\ run'[r].todo \subseteq run[r].todo
          /\ run'[r].bundle = run[r].bundle \cup {<<p[1], p[2], file[p]>>}
      BY <2>0, <3>1 DEF Record
    <3>4. SUFFICES ASSUME ~overlap
                   PROVE  Reading(r)'
      BY <2>0 DEF Reading
    <3> DEFINE s == run[r].summary
    <3>5. /\ s \in Runs /\ file[Summary] = s /\ run[r].todo \subseteq run[s].jobs
          /\ \A t \in run[r].bundle :
               /\ t[1] \in run[s].jobs /\ t[3] # NoFile /\ t[3] = file[<<t[1], t[2]>>]
      BY <1>0, <3>1, <3>4 DEF Reading
    <3>6. s # r
      BY <1>0, <2>0, <3>5 DEF Indexes, Busy, Ended
    <3>7. run'[s] = run[s]
      BY <1>0, <1>4, <3>5, <3>6, OthersStay
    <3> HIDE DEF s
    <3>8. \A t \in run'[r].bundle :
            /\ t[1] \in run[s].jobs /\ t[3] # NoFile /\ t[3] = file[<<t[1], t[2]>>]
      <4>1. ASSUME NEW t \in run[r].bundle
            PROVE  /\ t[1] \in run[s].jobs /\ t[3] # NoFile /\ t[3] = file[<<t[1], t[2]>>]
        BY <3>5
      <4>2. ASSUME NEW t, t = <<p[1], p[2], file[p]>>
            PROVE  /\ t[1] \in run[s].jobs /\ t[3] # NoFile /\ t[3] = file[<<t[1], t[2]>>]
        <5>1. t[1] = p[1] /\ t[2] = p[2] /\ t[3] = file[p]
          BY <4>2
        <5> QED
          BY <3>1, <3>2, <3>5, <5>1
      <4> QED
        BY <3>3, <4>1, <4>2
    <3> QED
      BY <3>1, <3>3, <3>5, <3>7, <3>8 DEF Reading, s
  <2>3. CASE ~ReadSummary(r) /\ ~ReadFile(r)
    <3>1. run'[r].pc # "read"
      BY <1>0, <1>4, <2>3, QuietEffects, OpenPoint, FillEffects, DiePoint DEF Goes
    <3> QED
      BY <3>1 DEF Reading
  <2> QED
    BY <2>1, <2>2, <2>3
<1> QED
  BY <1>1, <1>2, <1>3, <1>4, Steps

------------------------------------------------------------------------------
(* The invariant.                                                          *)

LEMMA InitInv == Init => IInv
<1> SUFFICES ASSUME Init PROVE IInv
  OBVIOUS
<1>1. /\ run = [r \in Runs |-> New] /\ file = [p \in Paths |-> NoFile]
      /\ certs = 1 /\ overlap = FALSE /\ aborts = 0
  BY DEF Init
<1>2. New \in Record
  BY DEF New, Record, Paths, Summary
<1>3. Typed
  <2>1. run \in [Runs -> Record]
    BY <1>1, <1>2
  <2>2. file \in [Paths -> Contents]
    BY <1>1 DEF Contents
  <2>3. 0 \in Nat /\ 0 <= MaxAborts /\ 1 \in Nat
    BY FixtureAssumption
  <2> QED
    BY <1>1, <2>1, <2>2, <2>3 DEF Typed
<1>4. /\ New.pc = "new" /\ New.kind = "none" /\ New.todo = {} /\ New.jobs = {}
      /\ New.same /\ New.bundle = {} /\ New.since = 0
  BY DEF New
<1>5. PointOf(New)
  BY <1>4 DEF PointOf
<1>6. \A r \in Runs : run[r] = New /\ ~Busy(r)
  BY <1>1, <1>4 DEF Busy, Ended
<1>7. Exclusive /\ Alone
  BY <1>6 DEF Exclusive, Alone
<1>8. Numbered
  BY <1>4, <1>6 DEF Numbered
<1>9. \A r \in Runs : OwnFiles(r) /\ Reading(r)
  BY <1>4, <1>6 DEF OwnFiles, Reading, Written
<1>10. Summary \in Paths /\ <<0, "result">> \in Paths
  BY DEF Paths, Summary
<1>11. file[Summary] \notin Runs /\ file[<<0, "result">>] \notin Runs
  BY <1>1, <1>10, FixtureAssumption
<1>12. Indexes
  BY <1>11 DEF Indexes
<1> QED
  BY <1>3, <1>5, <1>6, <1>7, <1>8, <1>9, <1>12 DEF IInv

LEMMA StepInv == IInv /\ [Next]_vars => IInv'
<1> SUFFICES ASSUME IInv, [Next]_vars PROVE IInv'
  OBVIOUS
<1>1. CASE Next
  BY <1>1, TypedStep, PointStep, OrderStep, OwnStep, IndexStep, ReadingStep DEF IInv
<1>2. CASE UNCHANGED vars
  <2>1. file' = file /\ run' = run /\ certs' = certs /\ overlap' = overlap /\ aborts' = aborts
    BY <1>2 DEF vars
  <2>2. Typed' /\ (\A r \in Runs : PointOf(run[r]))'
    BY <2>1 DEF IInv, Typed
  <2>3. Exclusive' /\ Numbered' /\ Alone'
    BY <2>1 DEF IInv, Exclusive, Numbered, Alone, Busy, Ended, Started
  <2>4. (\A r \in Runs : OwnFiles(r) /\ Reading(r))'
    BY <2>1 DEF IInv, OwnFiles, Reading, FilesOf
  <2>5. Indexes'
    BY <2>1 DEF IInv, Indexes, Kept, Overwriters, Busy, Ended, FilesOf
  <2> QED
    BY <2>2, <2>3, <2>4, <2>5 DEF IInv
<1> QED
  BY <1>1, <1>2

(* In every state the files an index lists are accounted for, and whatever *)
(* a run is about to write follows from what it has written.               *)
THEOREM Invariance == Spec => []IInv
BY InitInv, StepInv, PTL DEF Spec

------------------------------------------------------------------------------
(* The properties.                                                         *)

(* A file is absent, torn or of a run, and a run is at a file its command  *)
(* writes.                                                                 *)
THEOREM TypeCorrect == Spec => []TypeOK
<1>1. IInv => TypeOK
  <2> SUFFICES ASSUME IInv PROVE TypeOK
    OBVIOUS
  <2>1. Typed /\ \A r \in Runs : PointOf(run[r])
    BY DEF IInv
  <2>2. ASSUME NEW r \in Runs
        PROVE  /\ run[r].path \in Paths /\ run[r].todo \subseteq Circuits
               /\ run[r].pc \in {"open", "fill"} /\ run[r].kind = "solve"
                    => run[r].path[2] \in {"inputs", "witness", "summary"}
               /\ run[r].bundle # {} => run[r].kind = "outer"
    <3>1. run[r] \in Record
      BY <2>1 DEF Typed
    <3>2. run[r].path \in Paths /\ run[r].todo \subseteq Circuits
      BY <3>1 DEF Record
    <3>3. run[r].pc \in {"open", "fill"} /\ run[r].kind = "solve"
            => run[r].path[2] \in {"inputs", "witness", "summary"}
      BY <2>1 DEF PointOf, AtFile, AtCircuit, Summary
    <3>4. run[r].bundle # {} => run[r].kind = "outer"
      BY <2>1 DEF PointOf
    <3> QED
      BY <3>2, <3>3, <3>4
  <2> QED
    BY <2>1, <2>2 DEF TypeOK, Typed, Contents
<1> QED
  BY <1>1, Invariance, PTL

(* bb gets each witness in the format the command asked for, although the  *)
(* format is a variable of the process (witness.rs:57).                    *)
THEOREM FormatRight == Spec => []WitnessFormatRight
<1>1. IInv => WitnessFormatRight
  BY DEF IInv, PointOf, WitnessFormatRight
<1> QED
  BY <1>1, Invariance, PTL

(* The script builds its inputs from the certificates the CSCA is chosen   *)
(* from, unless they come from a file given (main.rs).                     *)
THEOREM CertificatesAgree == Spec => []SameCertificates
<1>1. IInv => SameCertificates
  BY DEF IInv, PointOf, SameCertificates
<1> QED
  BY <1>1, Invariance, PTL

(* What summary.json and outer_result.json list is whole: an index is of a *)
(* run that is over, and what was overwritten since was by a run that died *)
(* (main.rs writes them last).                                             *)
THEOREM ListedIsWhole == Spec => []IndexWhole
<1>1. IInv => IndexWhole
  <2> SUFFICES ASSUME IInv, AtRest, ~overlap
               PROVE  /\ \A r \in Runs :
                           file[Summary] = r /\ run[r].kind = "inner" =>
                             \A n \in run[r].jobs : \A p \in FilesOf(n) : Current(r, p)
                      /\ \A r \in Runs :
                           file[<<0, "result">>] = r =>
                             \A p \in FilesOf(0) \cup {<<0, "bundle">>} : Current(r, p)
    BY DEF IndexWhole
  <2>1. ASSUME NEW r \in Runs, NEW outer \in BOOLEAN
        PROVE  Overwriters(r, outer) = DiedAfter(r)
    BY DEF Overwriters, DiedAfter, AtRest
  <2>2. ASSUME NEW r \in Runs, NEW outer \in BOOLEAN, NEW p, Kept(r, p, outer)
        PROVE  Current(r, p)
    BY <2>1, <2>2 DEF Kept, Current
  <2>3. Indexes
    BY DEF IInv
  <2>4. ASSUME NEW r \in Runs, file[Summary] = r, run[r].kind = "inner",
               NEW n \in run[r].jobs, NEW p \in FilesOf(n)
        PROVE  Current(r, p)
    <3>1. Kept(r, p, FALSE)
      BY <2>3, <2>4 DEF Indexes
    <3> QED
      BY <2>2, <3>1
  <2>5. ASSUME NEW r \in Runs, file[<<0, "result">>] = r,
               NEW p \in FilesOf(0) \cup {<<0, "bundle">>}
        PROVE  Current(r, p)
    <3>1. Kept(r, p, TRUE)
      BY <2>3, <2>5 DEF Indexes
    <3> QED
      BY <2>2, <3>1
  <2> QED
    BY <2>4, <2>5
<1> QED
  BY <1>1, Invariance, PTL

(* An outer proof is made from the proofs of the run that wrote the        *)
(* summary, or of one that died over them (outer-inputs.cjs reads them by  *)
(* the names in summary.json).                                             *)
THEOREM OuterOfOneRun == Spec => []BundleOfOneRun
<1>1. IInv => BundleOfOneRun
  <2> SUFFICES ASSUME IInv, NEW r \in Runs, NEW t \in run[r].bundle, ~overlap,
                      ~(run[r].summary \in Runs /\ run[run[r].summary].kind = "solve")
               PROVE  \/ t[3] = run[r].summary
                      \/ /\ DiedAfter(run[r].summary) # {}
                         /\ t[3] \in DiedAfter(run[r].summary) \cup {Torn}
    BY DEF BundleOfOneRun
  <2> DEFINE s == run[r].summary
  <2>1. run[r].pc = "read" /\ run[r].kind = "outer" /\ Busy(r)
    BY DEF IInv, PointOf, Busy, Ended
  <2>2. /\ s \in Runs /\ file[Summary] = s
        /\ t[1] \in run[s].jobs /\ t[3] = file[<<t[1], t[2]>>]
    BY <2>1 DEF IInv, Reading
  <2>3. t[2] \in {"proof", "public"}
    <3>1. run[r] \in Record
      BY DEF IInv, Typed
    <3> QED
      BY <3>1 DEF Record
  <2> HIDE DEF s
  <2>4. run[s].kind = "inner"
    BY <2>2 DEF IInv, Indexes, s
  <2>5. <<t[1], t[2]>> \in FilesOf(t[1])
    BY <2>3 DEF FilesOf
  <2>6. Kept(s, <<t[1], t[2]>>, FALSE)
    BY <2>2, <2>4, <2>5 DEF IInv, Indexes
  <2>7. \A q \in Runs : Busy(q) => q = r
    BY <2>1 DEF IInv, Alone
  <2>8. Overwriters(s, FALSE) \subseteq DiedAfter(s)
    BY <2>1, <2>7 DEF Overwriters, DiedAfter
  <2> QED
    BY <2>2, <2>6, <2>8 DEF Kept, s
<1> QED
  BY <1>1, Invariance, PTL
==============================================================================
