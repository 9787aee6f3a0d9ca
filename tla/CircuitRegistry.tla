--------------------------- MODULE CircuitRegistry ---------------------------
(***************************************************************************)
(* The circuit registry client and the local artifact store:               *)
(* crates/prover-core/src/registry.rs and artifacts.rs, driven by the      *)
(* commands FetchManifest, InspectCircuit, SnapshotRegistry and            *)
(* MaterializeSnapshot of crates/prover-cli/src/main.rs.                   *)
(*                                                                         *)
(* A snapshot pins, for some circuits of one manifest, what the registry   *)
(* served.  Materialising it downloads the same circuits again, compares   *)
(* each with its fingerprint and writes manifest.json and circuits/        *)
(* <name>.json into a directory.  Later commands read that directory first *)
(* and the registry second, file by file.                                  *)
(*                                                                         *)
(* The registry is external: it may publish another manifest for a version *)
(* or serve another package under a hash between any two requests.         *)
(* fs::write truncates and then writes, so a file is Torn in between, and  *)
(* stays so when the command dies there.                                   *)
(***************************************************************************)
EXTENDS Naturals, FiniteSets

CONSTANTS
  Clients,       \* processes of prover-cli sharing one artifacts directory
  Names,         \* circuit names, numbers: the code sorts the names
  Manifests,     \* the manifests the registry may publish
  Packages,      \* the packaged circuits it may serve
  Kept,          \* snapshot files of an earlier time (fixtures/README.md:38)
  NoFile, Torn,  \* a path that does not exist; a truncated file
  MaxCommands,   \* bound: commands started
  MaxPublished,  \* bound: changes of a published manifest
  MaxReplaced,   \* bound: changes of a served package
  MaxAborts      \* bound: commands that fail for a reason outside the model

Versions == {m.version : m \in Manifests}
Hashes == {p.hash : p \in Packages}

\* What a snapshot says of a circuit: the manifest's node and the package.
Fingerprint(m, n, p) ==
  [hash |-> m.circuits[n].hash, size |-> m.circuits[n].size,
   vkey |-> p.vkey, noir |-> p.noir, bb |-> p.bb]
Fingerprints ==
  UNION {{Fingerprint(m, n, p) : n \in DOMAIN m.circuits, p \in Packages} :
           m \in Manifests}
Snapshots ==
  [version : Versions, root : {m.root : m \in Manifests},
   circuits : UNION {[names -> Fingerprints] : names \in SUBSET Names}]

\* A snapshot says of some circuits what one manifest says of them.
Listed(m, n) == n \in DOMAIN m.circuits
OneManifest(s) ==
  \E m \in Manifests :
    /\ m.version = s.version /\ m.root = s.root
    /\ \A n \in DOMAIN s.circuits :
         Listed(m, n) /\ s.circuits[n].hash = m.circuits[n].hash
                      /\ s.circuits[n].size = m.circuits[n].size

\* A package that is not served fails the command: an abort.
ASSUME RegistryAssumption ==
  /\ Names \subseteq Nat
  /\ \A m \in Manifests : /\ DOMAIN m.circuits \subseteq Names
                          /\ \A n \in DOMAIN m.circuits : m.circuits[n].hash \in Hashes
  /\ Kept \subseteq Snapshots /\ \A s \in Kept : OneManifest(s)
  /\ {NoFile, Torn} \cap (Manifests \cup Packages) = {} /\ NoFile # Torn
  /\ {MaxCommands, MaxPublished, MaxReplaced, MaxAborts} \subseteq Nat

VARIABLES
  published,    \* [Versions -> Manifests]: <base>/<version>/manifest.json
  served,       \* [Hashes -> Packages]: <base>/<hash>.json
  manifestFile, \* the directory's manifest.json
  circuitFile,  \* the directory's circuits/<name>.json
  snapshots,    \* the snapshot files
  job,          \* what each process is running
  mishaps,      \* history: what may have left the directory inconsistent
  spent         \* how much of each bound is used

vars == <<published, served, manifestFile, circuitFile, snapshots, job,
          mishaps, spent>>

Kinds == {"commands", "published", "replaced", "aborts"}
Limit == [commands |-> MaxCommands, published |-> MaxPublished,
          replaced |-> MaxReplaced, aborts |-> MaxAborts]
Spend(kind) == /\ spent[kind] < Limit[kind]
               /\ spent' = [spent EXCEPT ![kind] = @ + 1]

NoSnapshot == [version |-> NoFile, root |-> NoFile, circuits |-> << >>]
NoJob == [pc |-> "idle", command |-> "none", ok |-> FALSE, version |-> NoFile,
          local |-> FALSE, names |-> {}, todo |-> {}, manifest |-> NoFile,
          package |-> NoFile, snapshot |-> NoSnapshot]

\* The circuit a command is at.
Circuit(c) == CHOOSE n \in job[c].todo : \A k \in job[c].todo : n <= k

\* The package served for circuit n of manifest m.
Served(m, n) == served[m.circuits[n].hash]

Set(c, record) == job' = [job EXCEPT ![c] = record]
Goto(c, pc) == Set(c, [job[c] EXCEPT !.pc = pc])
Finish(c) == Set(c, [NoJob EXCEPT !.command = job[c].command, !.ok = TRUE])
Directory == <<manifestFile, circuitFile>>
Registry == <<published, served>>

Writing == {"openManifest", "fillManifest", "checkCircuit",
            "fillCircuit"}
Reading == {"loadManifest", "loadCircuit", "fetchCircuit"}
Writer(c) == job[c].pc \in Writing
Reader(c) == job[c].pc \in Reading

Init ==
  /\ published \in [Versions -> Manifests]
  /\ \A v \in Versions : published[v].version = v
  /\ served \in [Hashes -> Packages] /\ \A h \in Hashes : served[h].hash = h
  /\ manifestFile = NoFile /\ circuitFile = [n \in Names |-> NoFile]
  /\ snapshots = Kept /\ job = [c \in Clients |-> NoJob]
  /\ mishaps = {} /\ spent = [k \in Kinds |-> 0]

------------------------------------------------------------------------------
(* The registry.                                                           *)

\* The manifest of a version changes.  The root is not computed from the
\* nodes by anything in this repository, so it may change or not.
Publish(m) ==
  /\ Spend("published") /\ published[m.version] # m
  /\ published' = [published EXCEPT ![m.version] = m]
  /\ mishaps' = mishaps \cup (IF \E c \in Clients : Reader(c)
                              THEN {"republished"} ELSE {})
  /\ UNCHANGED <<served, Directory, snapshots, job>>

\* Another build is served under the hash of an old one.
Replace(p) ==
  /\ Spend("replaced") /\ served[p.hash] # p
  /\ served' = [served EXCEPT ![p.hash] = p]
  /\ UNCHANGED <<published, Directory, snapshots, job, mishaps>>

------------------------------------------------------------------------------
(* SnapshotRegistry.                                                       *)

\* The names are sorted and deduplicated: a set, taken from the least up.
StartSnapshot(c, v, names) ==
  /\ job[c].pc = "idle" /\ Spend("commands") /\ names # {}
  /\ Set(c, [NoJob EXCEPT !.pc = "fetchManifest", !.command = "snapshot",
                          !.version = v, !.names = names, !.todo = names])
  /\ UNCHANGED <<Registry, Directory, snapshots, mishaps>>

FetchSnapshotManifest(c) ==
  /\ job[c].pc = "fetchManifest"
  /\ LET m == published[job[c].version] IN
     Set(c, [job[c] EXCEPT !.pc = "fingerprint", !.manifest = m,
               !.snapshot = [version |-> m.version, root |-> m.root,
                             circuits |-> << >>]])
  /\ UNCHANGED <<Registry, Directory, snapshots, mishaps, spent>>

\* The manifest is fetched once.  (Mutant: once per circuit.)
PinnedManifestRefetched(c) == published[job[c].version]
PinnedManifest(c) == job[c].manifest

FingerprintCircuit(c) ==
  LET j == job[c]
      m == PinnedManifest(c)
      n == Circuit(c)
      old == j.snapshot.circuits
      new == Fingerprint(m, n, Served(m, n))
  IN
  /\ j.pc = "fingerprint" /\ j.todo # {} /\ Listed(m, n)
  /\ Set(c, [j EXCEPT !.todo = @ \ {n},
               !.snapshot.circuits = [k \in DOMAIN old \cup {n} |->
                                        IF k = n THEN new ELSE old[k]]])
  /\ UNCHANGED <<Registry, Directory, snapshots, mishaps, spent>>

WriteSnapshot(c) ==
  /\ job[c].pc = "fingerprint" /\ job[c].todo = {}
  /\ snapshots' = snapshots \cup {job[c].snapshot}
  /\ Finish(c)
  /\ UNCHANGED <<Registry, Directory, mishaps, spent>>

------------------------------------------------------------------------------
(* MaterializeSnapshot.                                                    *)

StartMaterialize(c, s) ==
  /\ job[c].pc = "idle" /\ Spend("commands")
  /\ Set(c, [NoJob EXCEPT !.pc = "checkRoot", !.command = "materialize",
                          !.version = s.version, !.snapshot = s,
                          !.names = DOMAIN s.circuits,
                          !.todo = DOMAIN s.circuits])
  /\ UNCHANGED <<Registry, Directory, snapshots, mishaps>>

CheckRoot(c) ==
  LET m == published[job[c].version] IN
  /\ job[c].pc = "checkRoot" /\ m.root = job[c].snapshot.root
  /\ Set(c, [job[c] EXCEPT !.pc = "openManifest", !.manifest = m])
  /\ mishaps' = mishaps \cup
       (IF \E d \in Clients \ {c} : Writer(d) \/ Reader(d)
        THEN {"overlap"} ELSE {})
  /\ UNCHANGED <<Registry, Directory, snapshots, spent>>

\* manifest.json is written before any circuit is checked.  (Mutants: a
\* manifest.json that is there is kept; the snapshot is written in its place.)
OpenManifestOnce(c) ==
  /\ job[c].pc = "openManifest"
  /\ IF manifestFile = NoFile
     THEN manifestFile' = Torn /\ Goto(c, "fillManifest")
     ELSE Goto(c, "checkCircuit") /\ UNCHANGED manifestFile
  /\ UNCHANGED <<Registry, circuitFile, snapshots, mishaps, spent>>
FillManifestPinned(c) ==
  /\ job[c].pc = "fillManifest"
  /\ manifestFile' = job[c].snapshot /\ Goto(c, "checkCircuit")
  /\ UNCHANGED <<Registry, circuitFile, snapshots, mishaps, spent>>

OpenManifest(c) ==
  /\ job[c].pc = "openManifest"
  /\ manifestFile' = Torn /\ Goto(c, "fillManifest")
  /\ mishaps' = mishaps \cup
       (IF \E n \in Names \ job[c].names : circuitFile[n] # NoFile
        THEN {"leftover"} ELSE {})
  /\ UNCHANGED <<Registry, circuitFile, snapshots, spent>>

FillManifest(c) ==
  /\ job[c].pc = "fillManifest"
  /\ manifestFile' = job[c].manifest /\ Goto(c, "checkCircuit")
  /\ UNCHANGED <<Registry, circuitFile, snapshots, mishaps, spent>>

\* The node must be the pinned one, and so must vkey, noir and bb of the
\* package downloaded for it (mutant: the node only); then the file is opened.
SameNode(c, p) ==
  job[c].manifest.circuits[Circuit(c)].hash
    = job[c].snapshot.circuits[Circuit(c)].hash
SameAsPinned(c, p) ==
  Fingerprint(job[c].manifest, Circuit(c), p) = job[c].snapshot.circuits[Circuit(c)]

CheckCircuit(c) ==
  LET j == job[c]
      n == Circuit(c)
      p == Served(j.manifest, n)
  IN
  /\ j.pc = "checkCircuit" /\ j.todo # {} /\ Listed(j.manifest, n)
  /\ SameAsPinned(c, p)
  /\ Set(c, [j EXCEPT !.pc = "fillCircuit", !.package = p])
  /\ circuitFile' = [circuitFile EXCEPT ![n] = Torn]
  /\ UNCHANGED <<Registry, manifestFile, snapshots, mishaps, spent>>

FillCircuit(c) ==
  /\ job[c].pc = "fillCircuit"
  /\ circuitFile' = [circuitFile EXCEPT ![Circuit(c)] = job[c].package]
  /\ Set(c, [job[c] EXCEPT !.pc = "checkCircuit", !.todo = @ \ {Circuit(c)}])
  /\ UNCHANGED <<Registry, manifestFile, snapshots, mishaps, spent>>

Materialized(c) ==
  /\ job[c].pc = "checkCircuit" /\ job[c].todo = {}
  /\ Finish(c)
  /\ UNCHANGED <<Registry, Directory, snapshots, mishaps, spent>>

------------------------------------------------------------------------------
(* FetchManifest, InspectCircuit and every command that loads circuits     *)
(* through ArtifactStore: the manifest, then a circuit.                    *)

StartInspect(c, v, n, local) ==
  /\ job[c].pc = "idle" /\ Spend("commands")
  /\ Set(c, [NoJob EXCEPT !.pc = "loadManifest", !.command = "inspect",
               !.version = v, !.local = local, !.names = {n}, !.todo = {n}])
  /\ mishaps' = mishaps \cup (IF \E d \in Clients : Writer(d)
                              THEN {"overlap"} ELSE {})
  /\ UNCHANGED <<Registry, Directory, snapshots>>

\* load_manifest: the local file whatever version was asked for, otherwise
\* the registry.  A torn file does not parse: no step, the command fails.
Loadable(c) ==
  IF job[c].local /\ manifestFile # NoFile
  THEN {manifestFile} \ {Torn}
  ELSE {published[job[c].version]}

LoadManifest(c) ==
  /\ job[c].pc = "loadManifest"
  /\ \E m \in Loadable(c) :
       Set(c, [job[c] EXCEPT !.pc = "loadCircuit", !.manifest = m])
  /\ UNCHANGED <<Registry, Directory, snapshots, mishaps, spent>>

\* load_packaged_circuit: the local file whatever the manifest says of it;
\* otherwise the manifest is loaded a second time, for the download only (the
\* hash of its node stands in package), and the package is fetched.
FallbackRemote(c) == {published[job[c].version]}  \* (Mutant.)
Fallback(c) == Loadable(c)
IsLocal(c) == job[c].local /\ circuitFile[Circuit(c)] # NoFile

LoadLocalCircuit(c) ==
  /\ job[c].pc = "loadCircuit" /\ IsLocal(c)
  /\ circuitFile[Circuit(c)] # Torn
  /\ Set(c, [job[c] EXCEPT !.pc = "idle", !.ok = TRUE,
                           !.package = circuitFile[Circuit(c)]])
  /\ UNCHANGED <<Registry, Directory, snapshots, mishaps, spent>>

LoadAgain(c) ==
  /\ job[c].pc = "loadCircuit" /\ ~IsLocal(c)
  /\ \E m \in Fallback(c) :
       /\ Listed(m, Circuit(c))
       /\ Set(c, [job[c] EXCEPT !.pc = "fetchCircuit",
                                !.package = m.circuits[Circuit(c)].hash])
  /\ UNCHANGED <<Registry, Directory, snapshots, mishaps, spent>>

FetchCircuit(c) ==
  /\ job[c].pc = "fetchCircuit"
  /\ Set(c, [job[c] EXCEPT !.pc = "idle", !.ok = TRUE,
                           !.package = served[job[c].package]])
  /\ UNCHANGED <<Registry, Directory, snapshots, mishaps, spent>>

------------------------------------------------------------------------------
\* A check above refused: the root, a missing node, a fingerprint, a file
\* that does not parse.
Refused(c) ==
  LET j == job[c]
      missing(m) == ~Listed(m, Circuit(c))
  IN
  \/ j.pc = "checkRoot" /\ published[j.version].root # j.snapshot.root
  \/ j.pc = "fingerprint" /\ j.todo # {} /\ missing(j.manifest)
  \/ /\ j.pc = "checkCircuit" /\ j.todo # {}
     /\ \/ missing(j.manifest)
        \/ ~SameAsPinned(c, Served(j.manifest, Circuit(c)))
  \/ j.pc = "loadManifest" /\ Loadable(c) = {}
  \/ /\ j.pc = "loadCircuit"
     /\ IF IsLocal(c) THEN circuitFile[Circuit(c)] = Torn
                      ELSE \A m \in Fallback(c) : missing(m)

\* Nothing that was written is taken back.
GiveUp(c) ==
  /\ Set(c, NoJob)
  /\ mishaps' = mishaps \cup (IF Writer(c) THEN {"unfinished"} ELSE {})
  /\ UNCHANGED <<Registry, Directory, snapshots>>

Refuse(c) == Refused(c) /\ GiveUp(c) /\ UNCHANGED spent

\* A request or a write fails, or the process is killed, at any point.
Abort(c) == job[c].pc # "idle" /\ Spend("aborts") /\ GiveUp(c)

Step(c) ==
  \/ FetchSnapshotManifest(c) \/ FingerprintCircuit(c) \/ WriteSnapshot(c)
  \/ CheckRoot(c) \/ OpenManifest(c) \/ FillManifest(c) \/ CheckCircuit(c)
  \/ FillCircuit(c) \/ Materialized(c)
  \/ LoadManifest(c) \/ LoadLocalCircuit(c) \/ LoadAgain(c) \/ FetchCircuit(c)
  \/ Refuse(c) \/ Abort(c)

Start(c) ==
  \/ \E v \in Versions, names \in SUBSET Names : StartSnapshot(c, v, names)
  \/ \E s \in snapshots : StartMaterialize(c, s)
  \/ \E v \in Versions, n \in Names, local \in BOOLEAN :
       StartInspect(c, v, n, local)

Next ==
  \/ \E m \in Manifests : Publish(m)
  \/ \E p \in Packages : Replace(p)
  \/ \E c \in Clients : Start(c) \/ Step(c)

Spec == Init /\ [][Next]_vars

------------------------------------------------------------------------------
(* Properties.                                                             *)

\* Files hold what was published or served, or are torn; the bounds hold.
TypeOK ==
  /\ published \in [Versions -> Manifests]
  /\ served \in [Hashes -> Packages]
  /\ manifestFile \in Manifests \cup {NoFile, Torn}
  /\ circuitFile \in [Names -> Packages \cup {NoFile, Torn}]
  /\ spent \in [Kinds -> Nat]
  /\ \A k \in Kinds : spent[k] <= Limit[k]
  /\ \A c \in Clients : job[c].todo \subseteq job[c].names

\* All fingerprints of a snapshot are of one manifest, the one whose version
\* and root it names, although the registry is asked once per circuit and may
\* publish another manifest in between (snapshot_circuits).
SnapshotConsistent == \A s \in snapshots : OneManifest(s)

\* When materialize_snapshot returns Ok and nobody else wrote meanwhile, the
\* directory is the snapshot: its root, and for each of its circuits a package
\* with the pinned hash, vkey, noir and bb versions, whatever the registry
\* replaced since the snapshot and during the downloads.
Matches(s) ==
  /\ manifestFile \in Manifests /\ manifestFile.root = s.root
  /\ \A n \in DOMAIN s.circuits :
       /\ circuitFile[n] \in Packages /\ Listed(manifestFile, n)
       /\ Fingerprint(manifestFile, n, circuitFile[n]) = s.circuits[n]
MaterializedFaithful ==
  [][\A c \in Clients :
       /\ job[c].command = "materialize" /\ ~job[c].ok /\ job'[c].ok
       /\ "overlap" \notin mishaps
       => Matches(job[c].snapshot)]_vars

\* While nobody writes, every circuit file is the package manifest.json names
\* for it, unless a materialisation died halfway, two overlapped, or the file
\* is a leftover of an earlier snapshot that the later one does not contain.
\* The first is the case at registry.rs:167: the new manifest is in place
\* before the circuits are, and nothing is removed.
DirectoryExplained ==
  \/ \E c \in Clients : Writer(c)
  \/ mishaps \cap {"unfinished", "overlap", "leftover"} # {}
  \/ \A n \in Names :
       circuitFile[n] # NoFile =>
         /\ circuitFile[n] \in Packages /\ manifestFile \in Manifests
         /\ Listed(manifestFile, n)
         /\ circuitFile[n].hash = manifestFile.circuits[n].hash

\* What InspectCircuit prints belongs together: the package is the one the
\* printed manifest names, unless the registry published another manifest
\* between the two loads or, with a local directory, one of the mishaps above
\* happened; a load without a local directory is not excused by what others did
\* to it.  The printed manifest is of the version asked for unless a local
\* directory was given (artifacts.rs:37 never looks at the version of the local
\* file).
Excuses(local) == IF local THEN mishaps ELSE mishaps \cap {"republished"}
LoadExplained ==
  \A c \in Clients :
    job[c].command = "inspect" /\ job[c].ok =>
      LET n == Circuit(c) IN
      /\ \/ Excuses(job[c].local) # {}
         \/ /\ Listed(job[c].manifest, n)
            /\ job[c].package.hash = job[c].manifest.circuits[n].hash
      /\ \/ job[c].manifest.version = job[c].version
         \/ job[c].local /\ manifestFile # NoFile
==============================================================================
