# TLA+ verification of vocdoni-passport-prover

The repository proves statements about passports: a Go server takes inner
proofs from a phone, lets a Rust command line program aggregate them into one
outer proof with the `bb` prover, and stores the result as a signature of a
petition. This directory holds the TLA+ models of that program, the TLC
configurations that check them and the TLAPS proofs about them. Line numbers
are those of the sources the models were translated from.

## 1. Inventory

| component | state | operations | interacts with |
|---|---|---|---|
| proving service, `server-go/proving/service.go` | channel `slots`, counter `inflight`, temporary files, one prover-cli per call | `Aggregate`, `acquire`, `release` | called by the aggregate handler; starts prover-cli |
| prover-cli `aggregate-request`, `crates/prover-cli`, `crates/prover-core/src/proving.rs` | a temporary file or directory per child, the response file | matrix, inputs script (node), witness, `bb prove`, `bb verify`, response | started and killed by the service |
| aggregate handler, `server-go/api/server.go` | one goroutine per request | `handleAggregateProofs` | storage, service, client |
| petition storage, `server-go/storage/mongodb.go` | collections `petitions` (with `signature_count`) and `signatures`, unique indexes | `CreatePetition`, `GetPetition`, `SignatureExists`, `SaveSignature`, listings | the handlers |
| server lifecycle, `server-go/cmd/main.go` | HTTP server, signal channel | start, shutdown within 15 s, HTTP timeouts | all of the above |
| presets, `server-go/presets` | an embedded table | `GetPreset`, `ListPresets`, `GetPresetByCountry`, field listings | handlers and pages |
| bb binary, `proving.rs:155-331` | a cache directory, a source checkout, a build | find, download, copy, chmod; clone, build | every prover-cli |
| registry and artifacts, `registry.rs`, `artifacts.rs` | an output or artifact directory | fetch, snapshot, materialise, load | prover-cli, the circuit registry |
| fixture commands, `crates/prover-cli/src/main.rs` | a directory of witnesses, proofs and indexes per fixture | solve, prove inner, prove outer | scripts, registry, bb; each other through the directory |
| planning, resolution, certificates, `planning.rs`, `resolution.rs`, `certificates.rs`, `analysis.rs` | none | from a query and a document to circuits | prover-cli fixture commands |
| witness, JNI bridge, `witness.rs`, `acvm-witness-jni` | a process-wide environment variable; buffers crossing the FFI | solve | prover-cli, the Android application |
| pages and deep links, `request.go`, `templates.go`, `deeplinks.go` | none | formatting | the browser |
| scripts, `scripts/*.cjs` | none | inner proofs to outer inputs | prover-cli, developers |

What is hard. In the server: many requests run at once and each is a tree of
processes; a deadline, a disconnecting client and the kernel may each SIGKILL a
part of the tree at any time; the slot, the counter and the files of a call must
be given back on every path. The petition handler reads the database minutes
before it writes it, several requests race for the same unique key, each
database call can fail before or after it was applied, and the server can die
between the two writes of a signature. On the command line: processes share
directories without any lock, write files that are truncated first and filled
later, and die between any two of them; a registry changes while it is read
circuit by circuit; two planners, in two languages, must come to the same number
of proofs. The whole list, at its lines, is `hazards` in `PROJECT.json`.

What makes each component correct:

* service: a slot belongs to exactly one call; commands stay within the limit;
  a call that returned left nothing behind; only verified proofs are returned;
  every call returns when a timeout is set, and when its client leaves;
* handler and storage: a nullifier signs a petition once; an error answer means
  that nothing was stored; a stored signature was validated; the count is never
  too high, and too low only by interrupted requests; 200 means signed; every
  request is answered;
* bb: the bb that runs is the pinned one, and a good cache or build stays good;
* registry: a snapshot is of one manifest, a materialised directory is the
  snapshot, and a circuit that is loaded is the one its manifest names;
* fixture: an index lists files of the run that wrote it, an outer proof is made
  of the inner proofs of one run, witnesses have the format asked for;
* document: the circuits are those for the hashes, keys and certificates of the
  document, and the outer circuit is the one for the proofs there are.

## 2. Modules

| module | what it is |
|---|---|
| `BoundedProver` | abstract: at most `Capacity` calls are proved at a time, only verified proofs are given out, and a crash loses the calls that have not returned |
| `ProvingService` | `Aggregate`, the processes it starts and the crash of the server; refines `BoundedProver` |
| `MCProvingService` | adds symmetry for TLC |
| `ProvingService_proofs` | TLAPS proofs |
| `SignatureLedger` | abstract: a growing ledger with each (petition, nullifier) once |
| `PetitionSigning` | `handleAggregateProofs` and the collections; refines `SignatureLedger` |
| `MCPetitionSigning` | adds symmetry, or the same reduction where liveness is checked |
| `PetitionSigning_proofs` | TLAPS proofs |
| `SigningService` | the server: the handlers of `PetitionSigning` and the service, by its promise `BoundedProver` |
| `MCSigningService` | the requests TLC takes, and the fairness |
| `SigningService_proofs` | TLAPS proofs |
| `BbBinary` | how several prover-cli processes find, download or build bb |
| `BbBinary_proofs` | TLAPS proofs |
| `CircuitRegistry` | registry client and artifact store on one directory |
| `MCCircuitRegistry` | a small registry for TLC |
| `CircuitRegistry_proofs` | TLAPS proofs |
| `FixtureRun` | the solve, inner and outer commands, file by file |
| `MCFixtureRun` | adds symmetry for TLC |
| `FixtureRun_proofs` | TLAPS proofs |
| `DocumentCircuits` | from a query and a document to the circuits |
| `MCDocumentCircuits` | the queries, documents, certificates and manifests for TLC |
| `DocumentCircuits_proofs` | TLAPS proofs |
| `LeastNatural` | a lemma both proofs about loops over sorted names use |

### ProvingService

One member of `Jobs` is one call of `Aggregate`. `pc[j]` is the point its
goroutine is at; a step is what other goroutines or processes can interleave
with: a channel operation, the update of `inflight`, a file operation, the
start or the end of a process. `slots` is the number of tokens in the channel,
`tmp` the Go side's temporary files, `ctx` the state of the call's context,
`cli` the stage of prover-cli, `child` the process it is blocked on, `scratch`
the temporary directories of prover-cli, `verdict` the exit of `bb verify` and
`out` the flag `proof_verified` in the response file.

The deferred calls of `Aggregate` are points of their own (`removeOutput`,
`removeRequest`, `release`, `uncount`), in the order Go runs them. The context
of `exec.CommandContext` kills prover-cli and not its child; the kernel may
kill prover-cli at any stage (it solves the outer witness) and a child (which
is one way of failing). A select with both cases ready may take either, so a
cancelled call may still acquire a slot.

`Crash` ends the server's process: 15 s after a signal, by a fatal error, or
by SIGKILL (`cmd/main.go:180-190`). Calls that have not returned are `lost`;
their prover-cli and its children either go on, or end with the container whose
first process the server is. Nobody deletes the files; the next server starts
with an empty channel and no count.

Abstracted: the contents of requests, proofs and keys, and what a child
computes (it succeeds or fails). The environment passed to prover-cli is left
out and bb is taken to be present, as `BB_BINARY_PATH` says in the server's
image; `BbBinary` models what happens without that variable.

### PetitionSigning

One member of `Requests` is one HTTP request, with the data it carries:
petition, the nullifier its proof commits to, how the nullifier the handler
extracts before proving is spelled (`claim`), and the disclosed fields. A step
is one blocking call of its handler. `Aggregate` is one step here: it fails or
succeeds, and it may succeed although the client has left, when prover-cli ended
before. A database call may fail without having been applied, fail although
it was applied, or be refused because the client is gone (all of them use the
request's context). `Crash` ends all running handlers and keeps the
collections. `failed` and the `by` field of a document are history variables:
the properties need them, the program does not read them.

A `SignatureExists` that fails is recorded in `failed` where it lets a repeated
signature pass. The nullifier that comes back with a proof is never empty: the
handler answers 200 without saving when it is (server.go:279), but every outer
circuit has the two public inputs from which `outer_nullifier` (main.rs:1187)
takes one. Storage is taken to be configured. Without `VOCDONI_MONGODB_URI` the
handler skips all three calls: the lookup and the check both lie in the block
of `if s.storage != nil` (server.go:232 to 264), the save behind its own test
(server.go:279), so every request then does what the model's requests with no
petition do.

### SigningService

The two models meet in the call of `Aggregate`. `SigningService` takes the
handlers and collections as they are and replaces that one step by a call of
`BoundedProver`, whose `Calls` are the requests: `Enters`, `Begins`, `Verifies`
and `Finishes` are steps of the service between which the other handlers, and
disconnects, go on; `TurnedAway` and `Returns` are steps of both, and
`ServerDies` is both crashes at once. A request is turned away from the queue
only when its client has left (`acquire` waits for nothing else). That
`ProvingService` implements `BoundedProver` is `Refinement` of
`ProvingService_proofs`, so the processes need not be in this model.

### BbBinary

`ensure_bb_binary` is called by every prover-cli before `bb prove` and again
before `bb verify`, when `BB_BINARY_PATH` is not set. One member of `Provers` is
a prover-cli that is started again whenever it has ended. `cache[v]` is the file
of the release cache for version `v`: its data, its mode and the last process
that truncated it; `tree` is the source checkout, `built` the bb of the build
directory, `pin` the version in the compatibility matrix, which `MovePin` may
update at any time. The steps are those another process can come between: the
test for the file, the second reading of the matrix for the URL, the truncating
open, the end of the copy, the chmod, the execution; in the source build, the
clone, the checkout, the configuration, the link. `Quit` is an error or a kill
between the steps; `Orphan` is a kill while git, cmake or bb goes on.

External: the kernel refuses to execute a file that is open for writing and to
open for writing a file that is executing; git refuses to clone into a directory
that is not empty; a file that is not whole does not run. `mishaps` is a history
variable. Left out: `BB_BINARY_DOWNLOAD_URL`, `VOCDONI_AZTEC_PACKAGES_CPP_DIR`
and a mirror named in `bb_binary_source`, with which the operator answers for
the version.

### CircuitRegistry

One member of `Clients` is a prover-cli; clients share one directory, as an
output directory of `materialize` is the artifacts directory of others. A step is
one request to the registry or one half of a file write (`open`, which truncates,
and `fill`). `published` and `served` are the registry, which is external and
changes between any two requests (`Publish`, `Replace`). A snapshot keeps the
manifest's node and the package's vkey, noir and bb versions
(`Fingerprint`); materialising compares all of them. `Refuse` is every error of
the code's own checks, `Abort` every other one and a kill. `mishaps` is history:
"overlap" (another client used the directory while one wrote), "unfinished" (a
writer failed), "leftover" (the directory held circuits the snapshot does not
have) and "republished" (a manifest changed while someone read). Abstracted:
bytes, sizes, gzip, the contents of circuits; the root is a value of the manifest,
as nothing in the repository computes it.

### FixtureRun

One member of `Runs` is one process of `SolveFixtureWitnesses`,
`ProveFixtureInner` or `ProveFixtureOuter` on one fixture. A file holds the run
that wrote it, `Torn` or `NoFile`; files another process reads are truncated
in a step of their own. The order of the files is that of the code, with the
index (`summary.json`, `outer_result.json`) last. A run keeps the process's
`NOIR_SERIALIZATION_FORMAT`, inherited from whoever started it. An outer run
reads the summary first and then two files per circuit. `Abort` is any error or
kill, and nothing is cleaned up. Left out: two runs that write the same files at
the same time. Nothing in the code prevents it and then no property of the
directory holds; an inner and an outer run may overlap, and the properties
say what that costs. `generated_vk_matches_packaged` compares a key with itself
(proving.rs:434), so the branch that writes `generated_vk.bin` is never taken.

### DocumentCircuits

A sequential pipeline of functions, so the states are its inputs and results:
the script's planner, the analysis of the SOD, the choice of the CSCA, the
planner in Rust, the names of the circuits and the manifest. What is kept of the
bytes is what the code decides by: tags and positions of children, OIDs as arcs
with the code's substring tests turned into tests on decimal digits, key sizes
in whole bytes, key identifiers, countries. The code's loops that keep some
elements of a list are `Filter`, which is defined by the positions it keeps. The
reference definitions are the standards' (`TrueHash`), an order of preference
(`CscaBest`) and the other planner (`OuterCountsJobs`).

## 3. Runs

| run | instance | what it shows |
|---|---|---|
| `service_safety` | 2 calls, `MaxConcurrency` 0 (raised to 1), any crashes | `TypeOK`, `SlotAccounting`, `CommandsBounded`, `CleanReturn`, `OnlyVerifiedProofs`, `BbExcessExplained`, the refinement `KeepsPromise`, `EveryCallReturns` and `DisconnectedReturns` |
| `bb_limit` | 2 calls, 1 slot | `BbBounded` fails: two bb processes run under one slot |
| `oom_report` | 2 calls, 1 slot | `OOMReportHonest` fails: a deadline is reported as an OOM kill |
| `signing_safety` | 2 requests with all data, 1 petition, 2 nullifiers, 1 field, 1 crash | `TypeOK`, `OneSignatureEach`, `ErrorsHonest`, `SignaturesValidated`, `CountAgrees`, `OkMeansSigned`, the refinement `KeepsLedger`, and `EveryRequestAnswered` |
| `service` | 2 requests for one petition, their nullifier spelled as the prover does or not extracted, with all other data, 2 nullifiers, 1 field, 1 slot, 1 crash | `SignedOnVerified`, `RefusedUnproved`, and `EveryRequestServed` |
| `signing_race` | 2 requests, no crash | `DuplicateRejected` fails: the loser of the race is answered 200 |
| `bb_download` | 2 provers, 2 versions, bb not executable in the archive | `RunsPinned`, `DamageExplained`, `WarmStays` |
| `bb_source` | 2 provers, 2 versions | `TypeOK`, `RunsPinned`, `WarmBuildStays` |
| `bb_drift` | 2 provers, 2 versions | `BuildsPinned` fails: the default branch is built |
| `registry` | 2 clients, 2 circuits, 4 manifests of 2 versions, 4 packages; 3 commands, 1 change of a manifest, 1 of a package, 1 abort | `TypeOK`, `SnapshotConsistent`, `DirectoryExplained`, `LoadExplained`, `MaterializedFaithful` |
| `fixture` | 3 runs, 1 base and up to 2 disclosure circuits, 2 aborts, 1 change of the certificates | `TypeOK`, `WitnessFormatRight`, `SameCertificates`, `IndexWhole`, `BundleOfOneRun` |
| `document` | every layout of a SOD, every signature OID the code tells apart, certificate files of two entries, all values of two keys of a field | `SodReadRight`, `HashesExplained`, `CscaBest`, `OuterCountsJobs` |

Bounds. Two calls are enough for every conflict the code can have over a slot
(one holds it, one waits) and with one slot all the process trees of an earlier
call overlap a later one. Two requests suffice for the race on the unique index,
as each document conflicts with at most one other. The requests carry every
combination of data, so one petition stands for all. Each call runs once;
`MaxCrashes` bounds the crashes. In `service` one slot and two requests let one
wait for the other's slot, and a crash take both; a request without a petition
or with another spelling of the nullifier is covered by `signing_safety`. Two
provers and two versions give one writer against another, against one that
executes, and one move of the pin between any two steps; a prover is restarted
without bound. In `registry` three commands are a snapshot or a kept one, a
materialisation, and one more that overlaps or follows; the registry starts with
one manifest per version and old packages, so that each change of it is a step.
In `fixture` three runs are one that leaves files, one that dies over them and
one that reads; `MaxOverlapped` bounds only how late an overlap may begin, and
one base circuit stands for the three, which are treated alike. The proofs
remove all of these bounds; those of the registry and the fixture commands hold
for any number of circuits, and those of `document` for certificate files of any
length. The inputs of that run are the combinations the code tells apart (one
curve with a token and one without stand for the others).

A system in which every call or request has been answered stops, so deadlock
is not an error (`CHECK_DEADLOCK FALSE`).

The four violations are findings, described in `PROJECT.json`:

* `bb_limit` — the README promises `VOCDONI_PROVER_MAX_CONCURRENCY` "Max
  concurrent proofs"; a bb that outlives its killed prover-cli still proves
  while its slot serves the next call. `BbExcessExplained` says how bad it gets:
  one more bb per killed prover-cli, and one per call that a crash lost.
* `oom_report` — any SIGKILL is taken for an OOM kill, also those of the
  deadline and of the disconnect.
* `signing_race` — the handler looks for "duplicate" in an error whose text is
  "already exists", so the branch its comment announces is never taken. The
  signature of the winner is there (`OkMeansSigned` holds); the loser is told
  that it signed.
* `bb_drift` — the comment promises that the source build always matches the
  pinned release, but an existing checkout is built whatever it is at: that of a
  prover between clone and checkout, that of one whose checkout failed, that of
  an older pin. `RunsPinned` says that nothing else can make it differ.

`DamageExplained` also tells what the code does not do: a copy cut short stays
under the final name and every later prover takes it for a good bb.

## 4. Fairness

`FairSpec` of `ProvingService` has weak fairness of each goroutine's own steps
(the Go scheduler runs what can run) and of the kill that follows a done context
(a goroutine of the runtime); it does not weaken the safety properties of the
same run. `EveryCallReturns` assumes that the deadline's timers fire
(`TimersFire`), when a timeout is configured; `DisconnectedReturns` does not, so
it also covers a server without one. Nothing is assumed of prover-cli, node or
bb: they may hang for ever, and the properties hold all the same. `FairSpec` of
`PetitionSigning` has weak fairness of each handler: database calls end with an
answer or an error, and `Aggregate` ends because of `EveryCallReturns`, which
needs a timeout (there is one by default: `cmd/main.go:107`). Without a timeout
`DisconnectedReturns` is all that is promised. In both a call may also end with
the server. `FairServiceSpec` of `SigningService` has weak fairness of what a
handler does, of `Begins` (the channel serves its senders in order, so a waiting
call is not overtaken for ever) and of `Finishes` (`EveryCallReturns` again: the
deadline ends a command that hangs). Nothing is assumed of `Verifies`.
`MCFairSpec` is the same fairness, with the reduction of the initial states that
replaces symmetry. The other components promise no progress: their commands fail
or are killed at any step, and nothing retries.

## 5. Proofs

All theorems hold for every finite set of calls, requests or runs and every
value of the other constants. The assumptions are the named `ASSUME`s of the
modules: finiteness, types, that "unknown" and "none" are no petition; for
`SigningService` that there is at least one slot; for `BbBinary` that the
markers of a file are no versions; for `FixtureRun` and `CircuitRegistry` that
the markers are no runs, manifests or packages; for `CircuitRegistry` also that
the registry serves a package for every node of a manifest (if not, the request
fails, which is an abort) and that snapshots kept from earlier are each of one
manifest; for `DocumentCircuits` that a document is signed with one of the
signature OIDs of the standards, that a certificate file is a list and that
`None` is no record. Nothing is assumed of the queries.

`ProvingService_proofs`: the invariant `IInv` is `TypeOK`, `SlotAccounting` and
`CallInv`. The last says of each call what is known at each program point:
prover-cli lives only while its goroutine waits, a child or directory without
live prover-cli goes back to a SIGKILL, files exist only between creation and
deferred removal, and the verdict is handed from bb to the response in order.
`CommandsBounded` is not inductive alone: it needs that a living prover-cli's
call holds a slot (`ProcessesOf`) and that slots are counted (`SlotAccounting`).
The counting rests on `StepCardinality`: a step moves one call from one point to
another, and the number of calls in a set of points changes accordingly. A crash
takes every call that has not returned to a point without a slot, which is why
the channel may start empty (`CrashIInv`). `Refinement` follows: a goroutine
step is one of `BoundedProver` or is not seen by it, `Acquire` finds fewer than
`Capacity` calls proving because tokens and holders agree (`SlotsBound`), and
the two crashes lose the same calls (`CrashRefines`).

`PetitionSigning_proofs`: `IInv` is `TypeOK`, the unique index, `HandlersInv`
(what is known of a document's request and of a handler at each point) and
`CountInv`, which strengthens `CountAgrees` by the handlers that have stored and
not yet counted. Validation survives the long gap between the lookup and the
insert because a petition's requirements never change once it exists and a
handler only works for petitions that existed before. `Refinement` shows that
storing is `Sign` and the 409 of the pre-check is `TurnDown`.

`SigningService_proofs`: every step of the composition is a step of the handlers
or none to them (`StepsHandlers`), and the same for the service (`StepsProver`).
So `Composition` holds: `ServiceSpec` implements both specifications, and each
theorem about `PetitionSigning` is one about the server, where `Aggregate` is no
longer one step (`ServiceSigns`). What neither part can say, that a signature or
a 200 goes back to an accepting `bb verify` for this request and that what can
be refused costs no proof, needs `ServiceInv`: at each point of a handler, what
is known of its call (`CallOf`). It uses `IInv` for the requests that entered the
service, whose petition existed and keeps its requirements (`StaysValidated`).
`RefusedUnproved` speaks of two moments, so `RefusalsUnproved` carries a fact
from one to the other: once a request that has not been checked repeats a
signature, it stays outside of the service or its check has failed (`Kept`, kept
by every step because signatures are never removed). A 409 after the proof, which
server.go:289 intends for a repetition that arises after the check, and which
`signing_race` shows is never given, is not excluded by it. With
`Refinement` of the service this reaches from the row in the collection to the
exit code of the process.

`BbBinary_proofs`: `IInv` is `TypeOK`, `RunsPinned`, `Orphaned` (what may go on
without its prover) and, by the mode, `DownloadInv` or `SourceInv`. The first says
that what a prover is about to write is the version it wants and that a file
which is not whole has a writer, the last to have truncated it, or lost one; the
second that one prover clones at a time, that a finished checkout is never undone,
and that everything compiled since is the pinned version. `WarmForEver` and
`WarmBuildForEver` are about every step, also with several provers on their way
to write the same file and with compilers whose prover is dead: while there is a
good bb nobody joins them, and only they can touch it. They need the types and
which prover a step moves (`CacheKeeps`, `Moves`).

`FixtureRun_proofs`: what an index promises is not inductive alone, since
between the files of a circuit and the index there are many steps. `IInv` adds
what a run is at (`PointOf`), that without an overlap one run works, the last
that was started (`Alone`, `Numbered`), that the files of the circuits a run is
done with, and those it has written of the present one, are its own
(`OwnFiles`), what may have become of listed files (`Indexes`: still the
lister's, or of later runs that failed or are at work) and that what an outer
run has read is what the directory still holds (`Reading`). When nobody works,
`Indexes` is `IndexWhole`; when an outer run reads alone, `Reading` and
`Indexes` give `BundleOfOneRun`.

`CircuitRegistry_proofs`: `IInv` says what a command holds at each point (`Fit`: a
snapshot under way is of the manifest fetched once; the circuit about to be
written was compared with its fingerprint), that without an overlap a writer is
alone (`Apart`), that the circuits it is done with are in place (`Held`), what
explains a file when nobody writes (`Filed`) and what a reader has read
(`Loading`; without a local directory only the registry can disturb it,
`Excuses`). `MaterializesSnapshot` follows from `Held` when nothing is left to
do.

`DocumentCircuits_proofs`: `IInv` says from what each variable was computed, so
the theorems are about the functions. What needs an argument is the choice of
the CSCA: `Filter` keeps the positions of a set, and `Nth` is an order
isomorphism from their ranks to them (`Ranks`, `FilterPositions`), so that the
first certificate of a group is the first of the file with its property; with
`HeadOfSorted`, on the concatenated groups, `ChosenIsBest` follows. `SodRead`
takes the layouts of a SOD one by one, `HashIsTrue` the OIDs (`OidsApart` keeps
the families of OIDs apart). `PlannersAgree` compares the two planners field by
field; outside `OddValue` they ask for the same proofs.

`LeastNatural` shows that a set of naturals has a least element, from the
well-foundedness of `<`: the loops over sorted names take the least one left.

The invariants of `ProvingService`, `PetitionSigning`, `SigningService` and
`BbBinary` are in the modules themselves; those of `FixtureRun` and
`CircuitRegistry`, which are long, are at the head of the proofs, that of
`DocumentCircuits` before its theorems. All of them were checked with TLC on the
instances above before they were proved.

## 6. Only model-checked

`EveryCallReturns`, `DisconnectedReturns`, `EveryRequestAnswered` and
`EveryRequestServed`: liveness is beyond the proof system. Everything else that
a passing run checks is proved.

## 7. Observations

Met while modelling, and not counted as findings because no run refutes a
statement of the repository:

* `outer-inputs.cjs:78` reads `bundle.json` of the fixture; the layout in
  `fixtures/README.md` does not list that file.
* `analysis.rs:113` takes the hash of the DSC's signature from its OID alone. For
  RSA-PSS, ECDSA with SHA-1 or SHA-224 the OID does not tell, and SHA-256 is
  assumed; `1.3.14.3.2.29`, SHA-1 with RSA, holds the text "4.3.2" and is read as
  SHA-256. The exception `Unclear` of `HashesExplained` names exactly these.
* A materialisation that is refused halfway leaves the new `manifest.json` over
  old circuits ("unfinished" in `DirectoryExplained`) until one returns Ok
  (`MaterializedFaithful` holds over what others left), circuits of an earlier
  snapshot are never removed ("leftover"), and a local manifest is
  used whatever version was asked for (`LoadExplained`).
* The two planners disagree about falsy, null and merely truthy values
  (`OddValue`): the outer circuit then counts other proofs than there are jobs.
* `circuit.rs` sets the serialization format too, but nothing calls it.

## 8. Not modelled

* Request and petition pages, deep links, QR codes, shared types: formatting of
  values without state.
* Presets: a lookup in a table that is never changed after the start.
* Listings: a count and a page are two reads; nothing depends on them.
* Server lifecycle, apart from its end: a shutdown that does not wait for handlers
  is the `Crash` of `ProvingService`, `PetitionSigning` and `SigningService`, and
  the kill of prover-cli in `BbBinary`. Flags and start are read once; the write
  timeout of the HTTP server decides only what the client sees.
* JNI bridge: one function per call, nothing outlives it, nothing interleaves.
* ACVM, `bb`, node's libraries, the circuits, MongoDB, the registry: external.
* The byte arithmetic of the TLV decoder and the reading of the MRZ.
* The Solidity check (`scripts/`) runs a generated verifier against a local chain.
