------------------------------ MODULE BbBinary ------------------------------
(* How a prover-cli finds the bb executable it runs: ensure_bb_binary and    *)
(* ensure_downloaded_bb_binary of prover-core, called once by                *)
(* prove_circuit_with_witness and once by verify_circuit_proof.              *)
(*                                                                           *)
(* Several prover-cli processes share the release cache, the source checkout *)
(* and the build directory; no lock protects them.  A process may fail or be *)
(* killed at any step; a command it waits for (git, cmake, bb) survives it.  *)
(* The kernel refuses to execute a file that is open for writing and to open *)
(* for writing a file that is being executed (ETXTBSY).                      *)
(*                                                                           *)
(* With BB_BINARY_PATH set none of this happens: the path is used as it is.  *)
EXTENDS Naturals

CONSTANTS Provers,           \* prover-cli processes, each restarted for ever
          Versions,          \* the values bb_version takes in the matrix
          Newest,            \* the last of them
          SourceBuild,       \* VOCDONI_ALLOW_BB_SOURCE_BUILD = "1"
          ArchiveExecutable, \* the mode of bb in the release archive
          Absent, Partial,   \* no file, a file that is not whole
          Head               \* the default branch of the repository of bb

ASSUME BbAssumption == /\ Versions \subseteq Nat
                       /\ Newest \in Versions
                       /\ {Absent, Partial, Head} \cap Versions = {}
                       /\ Head \notin {Absent, Partial}
                       /\ Absent # Partial
                       /\ SourceBuild \in BOOLEAN
                       /\ ArchiveExecutable \in BOOLEAN

VARIABLES pin,      \* bb_version of the compatibility matrix on disk
          cache,    \* the bb file of the release cache, by version directory
          tree,     \* the source checkout
          built,    \* bin/bb of the build directory
          stage,    \* where each prover is
          alive,    \* FALSE when only the command it started is left
          call,     \* which of its two uses of bb a prover is at
          wanted,   \* the version a prover has read from the matrix
          source,   \* what it downloads or compiles
          ran,      \* the version of the bb it started
          mishaps   \* history: what has disturbed the shared files so far

files == <<cache, tree, built>>
vars == <<pin, cache, tree, built, stage, alive, call, wanted, source, ran, mishaps>>

Refs    == Versions \cup {Head}
Files   == Refs \cup {Absent, Partial}

DownloadStages == {"look", "url", "fetch", "open", "copying", "chmod", "exec", "running"}
SourceStages   == {"look", "clone", "cloning", "checkout", "build", "configure", "compile",
                   "linking", "exec", "running"}

\* The stages in which a command of its own goes on when a prover-cli is killed,
\* and those of them that begin with the command already running.
ChildStages == {"cloning", "checkout", "compile", "linking", "running"}
Spawned     == {"cloning", "linking", "running"}

\* Mutant: one cache directory for all versions.
OneSlot(v) == Newest

\* The directory that holds the bb of a version.
CacheSlot(v) == v

\* Provers that have found no binary and will write one.
Fetching(s) == {p \in Provers : stage[p] \in {"url", "fetch", "open", "copying", "chmod"}
                                /\ CacheSlot(wanted[p]) = s}
Writing(s)  == {p \in Provers : stage[p] = "copying" /\ CacheSlot(wanted[p]) = s}
Running(s)  == {p \in Provers : stage[p] = "running" /\ CacheSlot(wanted[p]) = s}
Building    == {p \in Provers : stage[p] \in {"configure", "compile", "linking"}}

Init == /\ pin \in Versions
        /\ cache = [s \in Versions |-> [data |-> Absent, exec |-> FALSE, last |-> {}]]
        /\ tree = Absent
        /\ built = Absent
        /\ stage = [p \in Provers |-> "idle"]
        /\ alive = [p \in Provers |-> TRUE]
        /\ call = [p \in Provers |-> "prove"]
        /\ wanted = [p \in Provers |-> pin]
        /\ source = [p \in Provers |-> Head]
        /\ ran = [p \in Provers |-> Head]
        /\ mishaps = {}

-----------------------------------------------------------------------------
(* A prover moves on, unless it was killed and only its command has ended.  *)

Goto(p, s) == stage' = [stage EXCEPT ![p] = IF alive[p] THEN s ELSE "idle"]

Start(p) == /\ stage[p] = "idle"
            /\ stage' = [stage EXCEPT ![p] = "look"]
            /\ alive' = [alive EXCEPT ![p] = TRUE]
            /\ call' = [call EXCEPT ![p] = "prove"]
            /\ UNCHANGED <<pin, files, wanted, source, ran, mishaps>>

\* A step before which the prover returns an error, or is killed.  A copy that
\* is cut short stays in the cache as it is.
Quit(p) == /\ stage[p] \notin Spawned \cup {"idle"}
           /\ stage' = [stage EXCEPT ![p] = "idle"]
           /\ mishaps' = IF stage[p] \in {"copying", "chmod"}
                         THEN mishaps \cup {"copy cut short"}
                         ELSE IF stage[p] = "checkout"
                         THEN mishaps \cup {"checkout failed"}
                         ELSE mishaps
           /\ UNCHANGED <<pin, files, alive, call, wanted, source, ran>>

\* The prover is killed while it waits for a command, which goes on.
Orphan(p) == /\ stage[p] \in ChildStages
             /\ alive[p]
             /\ alive' = [alive EXCEPT ![p] = FALSE]
             /\ mishaps' = IF stage[p] = "cloning" THEN mishaps \cup {"checkout failed"}
                           ELSE mishaps
             /\ UNCHANGED <<pin, files, stage, call, wanted, source, ran>>

\* The repository is updated to the next release of bb.
MovePin == /\ pin < Newest
           /\ pin' \in {v \in Versions : v > pin}
           /\ mishaps' = IF SourceBuild \/ \E p \in Provers : stage[p] = "url"
                         THEN mishaps \cup {"pin moved"} ELSE mishaps
           /\ UNCHANGED <<files, stage, alive, call, wanted, source, ran>>

-----------------------------------------------------------------------------
(* The release cache.                                                       *)

\* Mutants: VOCDONI_ALLOW_BB_SOURCE_BUILD is not looked at; a bb that is already
\* there is downloaded again.
LookInCacheAlways(p) ==
    /\ stage[p] = "look"
    /\ wanted' = [wanted EXCEPT ![p] = pin]
    /\ Goto(p, IF cache[CacheSlot(pin)].data # Absent THEN "exec" ELSE "url")
    /\ UNCHANGED <<pin, files, alive, call, source, ran, mishaps>>
LookInCacheBlind(p) ==
    /\ ~SourceBuild
    /\ stage[p] = "look"
    /\ wanted' = [wanted EXCEPT ![p] = pin]
    /\ Goto(p, "url")
    /\ UNCHANGED <<pin, files, alive, call, source, ran, mishaps>>

LookInCache(p) ==
    /\ ~SourceBuild
    /\ stage[p] = "look"
    /\ wanted' = [wanted EXCEPT ![p] = pin]
    /\ Goto(p, IF cache[CacheSlot(pin)].data # Absent THEN "exec" ELSE "url")
    /\ UNCHANGED <<pin, files, alive, call, source, ran, mishaps>>

\* bb_release_url reads the matrix again.
ReadUrl(p) == /\ stage[p] = "url"
              /\ source' = [source EXCEPT ![p] = pin]
              /\ Goto(p, "fetch")
              /\ UNCHANGED <<pin, files, alive, call, wanted, ran, mishaps>>

\* curl and tar, into a directory of the prover's own.
Fetch(p) == /\ stage[p] = "fetch"
            /\ Goto(p, "open")
            /\ UNCHANGED <<pin, files, alive, call, wanted, source, ran, mishaps>>

\* fs::copy truncates the file and gives it the mode of the extracted one.
OpenBinary(p) ==
    LET s == CacheSlot(wanted[p])
    IN  /\ stage[p] = "open"
        /\ Running(s) = {}
        /\ cache' = [cache EXCEPT ![s] = [data |-> Partial, exec |-> ArchiveExecutable,
                                          last |-> {p}]]
        /\ Goto(p, "copying")
        /\ UNCHANGED <<pin, tree, built, alive, call, wanted, source, ran, mishaps>>

\* What a writer wrote before another one truncated the file is lost, so only the
\* last to open it is sure to leave it whole.
FinishCopy(p) ==
    LET s == CacheSlot(wanted[p])
    IN  /\ stage[p] = "copying"
        /\ \/ cache' = [cache EXCEPT ![s].data = source[p]]
           \/ p \notin cache[s].last /\ UNCHANGED cache
        /\ Goto(p, "chmod")
        /\ UNCHANGED <<pin, tree, built, alive, call, wanted, source, ran, mishaps>>

\* Mutant: the mode is left as the archive has it.
ChmodForgotten(p) == /\ stage[p] = "chmod"
                     /\ Goto(p, "exec")
                     /\ UNCHANGED <<pin, files, alive, call, wanted, source, ran, mishaps>>

Chmod(p) == /\ stage[p] = "chmod"
            /\ cache' = [cache EXCEPT ![CacheSlot(wanted[p])].exec = TRUE]
            /\ Goto(p, "exec")
            /\ UNCHANGED <<pin, tree, built, alive, call, wanted, source, ran, mishaps>>

-----------------------------------------------------------------------------
(* The source build.                                                        *)

LookForCheckout(p) ==
    /\ SourceBuild
    /\ stage[p] = "look"
    /\ wanted' = [wanted EXCEPT ![p] = pin]
    /\ Goto(p, IF tree # Absent THEN "build" ELSE "clone")
    /\ mishaps' = IF tree \in {Partial, Head} THEN mishaps \cup {"checkout overtaken"}
                  ELSE mishaps
    /\ UNCHANGED <<pin, files, alive, call, source, ran>>

\* git refuses to clone into a directory that is not empty.
BeginClone(p) == /\ stage[p] = "clone"
                 /\ tree = Absent
                 /\ tree' = Partial
                 /\ Goto(p, "cloning")
                 /\ UNCHANGED <<pin, cache, built, alive, call, wanted, source, ran, mishaps>>

\* The clone is at the default branch; one that fails may leave its directory.
EndClone(p) == /\ stage[p] = "cloning"
               /\ \/ tree' = Head /\ Goto(p, "checkout")
                  \/ tree' \in {Absent, Partial} /\ Goto(p, "idle")
               /\ UNCHANGED <<pin, cache, built, alive, call, wanted, source, ran, mishaps>>

\* Mutant: git checkout runs in another directory.
CheckoutElsewhere(p) == /\ stage[p] = "checkout"
                        /\ Goto(p, "build")
                        /\ UNCHANGED <<pin, files, alive, call, wanted, source, ran, mishaps>>

Checkout(p) == /\ stage[p] = "checkout"
               /\ tree' = wanted[p]
               /\ Goto(p, "build")
               /\ UNCHANGED <<pin, cache, built, alive, call, wanted, source, ran, mishaps>>

\* Mutant: a bb that is already there is built again.
LookForBuildBlind(p) == /\ stage[p] = "build"
                        /\ Goto(p, "configure")
                        /\ UNCHANGED <<pin, files, alive, call, wanted, source, ran, mishaps>>

LookForBuild(p) == /\ stage[p] = "build"
                   /\ Goto(p, IF built # Absent THEN "exec" ELSE "configure")
                   /\ UNCHANGED <<pin, files, alive, call, wanted, source, ran, mishaps>>

\* cmake configures, and begins to compile, the tree it finds.
Configure(p) == /\ stage[p] = "configure"
                /\ tree \in Refs
                /\ source' = [source EXCEPT ![p] = tree]
                /\ Goto(p, "compile")
                /\ UNCHANGED <<pin, files, alive, call, wanted, ran, mishaps>>

BeginLink(p) == /\ stage[p] = "compile"
                /\ built' = Partial
                /\ stage' = [stage EXCEPT ![p] = "linking"]
                /\ UNCHANGED <<pin, cache, tree, alive, call, wanted, source, ran, mishaps>>

\* A checkout may have changed the tree under the compiler.
EndLink(p) == /\ stage[p] = "linking"
              /\ \/ /\ built' \in {source[p]} \cup ({tree} \cap Refs)
                    /\ Goto(p, "exec")
                 \/ /\ built' = Absent
                    /\ Goto(p, "idle")
              /\ UNCHANGED <<pin, cache, tree, alive, call, wanted, source, ran, mishaps>>

-----------------------------------------------------------------------------
(* Command::new(&bb): prove, then verify with whatever bb is found then.     *)

Runnable(s) == cache[s].data \in Refs /\ cache[s].exec

ExecBb(p) == /\ stage[p] = "exec"
             /\ IF SourceBuild
                THEN /\ built \in Refs
                     /\ ran' = [ran EXCEPT ![p] = built]
                ELSE LET s == CacheSlot(wanted[p])
                     IN  /\ Runnable(s)
                         /\ Writing(s) = {}
                         /\ ran' = [ran EXCEPT ![p] = cache[s].data]
             /\ Goto(p, "running")
             /\ UNCHANGED <<pin, files, alive, call, wanted, source, mishaps>>

EndBb(p) == /\ stage[p] = "running"
            /\ \/ call[p] = "prove" /\ Goto(p, "look") /\ call' = [call EXCEPT ![p] = "verify"]
               \/ Goto(p, "idle") /\ UNCHANGED call
            /\ UNCHANGED <<pin, files, alive, wanted, source, ran, mishaps>>

Next == \/ MovePin
        \/ \E p \in Provers :
              \/ Start(p) \/ Quit(p) \/ Orphan(p)
              \/ LookInCache(p) \/ ReadUrl(p) \/ Fetch(p)
              \/ OpenBinary(p) \/ FinishCopy(p) \/ Chmod(p)
              \/ LookForCheckout(p) \/ BeginClone(p) \/ EndClone(p) \/ Checkout(p)
              \/ LookForBuild(p) \/ Configure(p) \/ BeginLink(p) \/ EndLink(p)
              \/ ExecBb(p) \/ EndBb(p)

Spec == Init /\ [][Next]_vars

-----------------------------------------------------------------------------
(* Properties.                                                              *)

\* Every variable has its type, and a prover takes the way its environment
\* variable VOCDONI_ALLOW_BB_SOURCE_BUILD chose, and no other.
TypeOK == /\ pin \in Versions
          /\ cache \in [Versions -> [data : Versions \cup {Absent, Partial},
                                    exec : BOOLEAN, last : SUBSET Provers]]
          /\ tree \in Files
          /\ built \in Files
          /\ stage \in [Provers -> {"idle"} \cup
                         (IF SourceBuild THEN SourceStages ELSE DownloadStages)]
          /\ alive \in [Provers -> BOOLEAN]
          /\ call \in [Provers -> {"prove", "verify"}]
          /\ wanted \in [Provers -> Versions]
          /\ source \in [Provers -> Refs]
          /\ ran \in [Provers -> Refs]
          /\ mishaps \subseteq {"copy cut short", "checkout failed", "checkout overtaken",
                                "pin moved"}

\* What can put a bb of another version in the place of the pinned one.
Drifted == IF SourceBuild
           THEN mishaps \cap {"checkout failed", "checkout overtaken", "pin moved"} # {}
           ELSE "pin moved" \in mishaps

\* A bb that runs is the one of the version its prover read from the matrix, however
\* the downloads, copies, clones and builds of other provers interleave with its own,
\* unless the matrix changed between the two times a download reads it, or a checkout
\* failed or was overtaken.
RunsPinned == \A p \in Provers : stage[p] = "running" => ran[p] = wanted[p] \/ Drifted

\* A file in the cache can be executed, or someone is writing it, or a copy of it was
\* cut short: ensure_downloaded_bb_binary takes every existing file for a good one, so
\* a prover about to execute bb relies on this.
DamageExplained ==
    \A s \in Versions :
        (cache[s].data # Absent \/ \E p \in Provers : /\ ~SourceBuild
                                                      /\ stage[p] = "exec"
                                                      /\ CacheSlot(wanted[p]) = s)
        => \/ Runnable(s)
           \/ \E p \in Fetching(s) : stage[p] \in {"copying", "chmod"}
           \/ "copy cut short" \in mishaps

\* The test for an existing file protects a good bb: while there is one, no further
\* prover sets out to write it, so their number only falls, and nothing damages it but
\* one of those that found none before, which truncates it.
KeepsBb(s) == Runnable(s) => /\ Fetching(s)' \subseteq Fetching(s)
                             /\ \/ Runnable(s)'
                                \/ \E p \in Fetching(s) : stage[p] = "open"
WarmStays == [][\A s \in Versions : KeepsBb(s)]_vars

\* The same of the build directory, whatever happens to the source tree, and although
\* compilers outlive the provers that started them: a bb that is there is replaced only
\* by builds that began without one.
KeepsBuild == built \in Refs => /\ Building' \subseteq Building
                                /\ \/ built' = built
                                   \/ \E p \in Building : stage[p] \in {"compile", "linking"}
WarmBuildStays == [][KeepsBuild]_vars

\* The comment at proving.rs:265 says that the fork and tag are derived from the matrix
\* "so the source-build fallback always matches the pinned bb release".
BuildsPinned == \A p \in Provers : SourceBuild /\ stage[p] = "running" => ran[p] = wanted[p]

-----------------------------------------------------------------------------
(* The strengthening that makes RunsPinned and DamageExplained inductive.   *)

\* Only a command that was running when its prover was killed goes on alone.
Orphaned == \A p \in Provers :
               \/ alive[p]
               \/ stage[p] \in {"idle", "running"}
               \/ SourceBuild /\ stage[p] \in ChildStages

CacheDir(s) ==
    /\ cache[s].data \in Refs => cache[s].data = s \/ Drifted
    /\ cache[s].data = Partial =>
          \/ "copy cut short" \in mishaps
          \/ \E q \in Provers : /\ stage[q] = "copying"
                               /\ wanted[q] = s
                               /\ cache[s].last = {q}
    /\ cache[s].data \in Refs /\ ~cache[s].exec =>
          \/ "copy cut short" \in mishaps
          \/ \E q \in Provers : stage[q] \in {"copying", "chmod"} /\ wanted[q] = s

Downloader(p) ==
    /\ stage[p] = "url" => wanted[p] = pin \/ Drifted
    /\ stage[p] \in {"fetch", "open", "copying"} =>
          source[p] \in Versions /\ (source[p] = wanted[p] \/ Drifted)
    /\ stage[p] \in {"copying", "chmod", "exec", "running"} => cache[wanted[p]].data # Absent

DownloadInv == /\ \A s \in Versions : CacheDir(s)
               /\ \A p \in Provers : Downloader(p)

SourceFiles ==
    /\ \A s \in Versions : cache[s].data = Absent
    /\ tree \in Versions => tree = pin \/ Drifted
    /\ built \in Refs => built = pin \/ Drifted

SourceProver(p) ==
    /\ wanted[p] = pin \/ Drifted
    /\ stage[p] = "cloning" => tree = Partial /\ (alive[p] \/ Drifted)
    /\ stage[p] = "checkout" => tree \in Refs
    /\ stage[p] \in {"compile", "linking"} => source[p] = pin \/ Drifted
    /\ stage[p] \in {"build", "configure", "compile", "linking"} =>
          tree \in Versions \/ Drifted

OneCloner == \A p, q \in Provers : stage[p] = "cloning" /\ stage[q] = "cloning" => p = q

SourceInv == SourceFiles /\ OneCloner /\ \A p \in Provers : SourceProver(p)

IInv == /\ TypeOK
        /\ RunsPinned
        /\ Orphaned
        /\ IF SourceBuild THEN SourceInv ELSE DownloadInv
=============================================================================
