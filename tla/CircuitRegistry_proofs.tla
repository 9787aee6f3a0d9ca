------------------------ MODULE CircuitRegistry_proofs ------------------------
(***************************************************************************)
(* Proofs about CircuitRegistry, for any set of clients, circuits,         *)
(* manifests and packages and for every bound.                             *)
(*                                                                         *)
(* IInv joins what a command holds at each step (Fit), that without an     *)
(* overlap a client that writes is alone (Apart), what it has written so   *)
(* far (Held), what explains a file when nobody writes (Filed), and what a *)
(* command that reads has read (Loading).                                  *)
(***************************************************************************)
EXTENDS CircuitRegistry, LeastNatural

------------------------------------------------------------------------------
(* The inductive invariant behind the properties.                          *)

Jobs ==
  [pc : {"idle", "fetchManifest", "fingerprint", "checkRoot", "openManifest",
         "fillManifest", "checkCircuit", "fillCircuit", "loadManifest",
         "loadCircuit", "fetchCircuit"},
   command : {"none", "snapshot", "materialize", "inspect"}, ok : BOOLEAN,
   version : Versions \cup {NoFile}, local : BOOLEAN,
   names : SUBSET Names, todo : SUBSET Names,
   manifest : Manifests \cup {NoFile},
   package : Packages \cup Hashes \cup {NoFile},
   snapshot : Snapshots \cup {NoSnapshot}]
Typed ==
  /\ published \in [Versions -> Manifests]
  /\ \A v \in Versions : published[v].version = v
  /\ served \in [Hashes -> Packages] /\ \A h \in Hashes : served[h].hash = h
  /\ manifestFile \in Manifests \cup {NoFile, Torn}
  /\ circuitFile \in [Names -> Packages \cup {NoFile, Torn}]
  /\ snapshots \subseteq Snapshots /\ job \in [Clients -> Jobs]
  /\ spent \in [Kinds -> Nat] /\ \A k \in Kinds : spent[k] <= Limit[k]

\* What a command holds.
First(S) == CHOOSE n \in S : \A k \in S : n <= k
PackageOf(m, n, p) ==
  p \in Packages /\ Listed(m, n) /\ p.hash = m.circuits[n].hash
Pinned(j, n, p) ==
  PackageOf(j.manifest, n, p) /\ Fingerprint(j.manifest, n, p) = j.snapshot.circuits[n]
SnapshotOf(s, m) ==
  /\ m \in Manifests /\ s \in Snapshots /\ s.version = m.version /\ s.root = m.root
  /\ \A n \in DOMAIN s.circuits :
       Listed(m, n) /\ s.circuits[n].hash = m.circuits[n].hash
                    /\ s.circuits[n].size = m.circuits[n].size
Fit(j) ==
  /\ j.todo \subseteq j.names
  /\ j.pc # "idle" => j.version \in Versions
  /\ j.pc \in {"fetchManifest", "fingerprint"} => j.command = "snapshot"
  /\ j.pc = "fingerprint" => SnapshotOf(j.snapshot, j.manifest)
  /\ j.pc \in Writing \cup {"checkRoot"} =>
       /\ j.command = "materialize" /\ j.snapshot \in Snapshots
       /\ j.names = DOMAIN j.snapshot.circuits
  /\ j.pc \in Writing => j.manifest \in Manifests /\ j.manifest.root = j.snapshot.root
  /\ j.pc = "fillCircuit" => j.todo # {} /\ Pinned(j, First(j.todo), j.package)
  /\ j.pc \in {"checkRoot", "openManifest", "fillManifest"} => j.todo = j.names
  /\ j.pc \in Reading => j.command = "inspect" /\ ~j.ok /\ j.todo # {}
  /\ j.pc \in {"loadCircuit", "fetchCircuit"} => j.manifest \in Manifests
  /\ j.pc = "fetchCircuit" => j.package \in Hashes

\* Without an overlap nobody else writes or reads while one writes.
Apart ==
  "overlap" \notin mishaps =>
    \A c, d \in Clients : Writer(c) /\ (Writer(d) \/ Reader(d)) => c = d

\* What the command that writes has written.
Held(c) ==
  "overlap" \notin mishaps /\ job[c].pc \in {"checkCircuit", "fillCircuit"} =>
    /\ manifestFile = job[c].manifest
    /\ \A n \in job[c].names \ job[c].todo : Pinned(job[c], n, circuitFile[n])

\* Without a mishap every circuit file is explained by manifest.json, or will
\* be replaced by the command that is writing.
Amid(c) == job[c].pc \in {"fillManifest", "checkCircuit", "fillCircuit"}
Explained(n) ==
  circuitFile[n] # NoFile =>
    manifestFile \in Manifests /\ PackageOf(manifestFile, n, circuitFile[n])
Filed ==
  mishaps \cap {"unfinished", "overlap", "leftover"} = {} =>
    /\ (\A c \in Clients : ~Amid(c)) => \A n \in Names : Explained(n)
    /\ \A c \in Clients : Amid(c) =>
         \A n \in Names : circuitFile[n] # NoFile => n \in job[c].names

\* What the command that reads has read.
Loading(c) ==
  LET j == job[c] IN
  /\ j.pc \in {"loadCircuit", "fetchCircuit"} \/ (j.command = "inspect" /\ j.ok) =>
       j.manifest.version = j.version \/ (j.local /\ manifestFile # NoFile)
  /\ Excuses(j.local) = {} =>
       /\ j.pc = "loadCircuit" => Loadable(c) = {j.manifest}
       /\ j.pc = "fetchCircuit" => /\ Listed(j.manifest, First(j.todo))
                                   /\ j.package = j.manifest.circuits[First(j.todo)].hash
       /\ j.command = "inspect" /\ j.ok => /\ Listed(j.manifest, First(j.todo))
                                           /\ j.package.hash = j.manifest.circuits[First(j.todo)].hash

IInv ==
  /\ Typed /\ \A c \in Clients : Fit(job[c]) /\ Held(c) /\ Loading(c)
  /\ SnapshotConsistent /\ Apart /\ Filed

------------------------------------------------------------------------------
(* The circuits are taken in order, and jobs are what Jobs says.           *)

LEMMA FirstIn ==
  ASSUME NEW S \in SUBSET Names, S # {}
  PROVE  First(S) \in S
<1>1. S \subseteq Nat
  BY RegistryAssumption
<1>2. \E n \in S : \A k \in S : n <= k
  BY <1>1, Least
<1> QED
  BY <1>2 DEF First

LEMMA Idle ==
  /\ NoJob \in Jobs /\ NoJob.pc = "idle" /\ NoJob.command = "none" /\ ~NoJob.ok
  /\ NoJob.todo = {} /\ NoJob.names = {}
  /\ << >> \in [{} -> Fingerprints]
<1>1. << >> \in [{} -> Fingerprints]
  OBVIOUS
<1>2. NoJob.snapshot = NoSnapshot
  BY DEF NoJob
<1> QED
  BY <1>1 DEF NoJob, Jobs

LEMMA PrintsListed ==
  ASSUME NEW m \in Manifests, NEW n \in DOMAIN m.circuits, NEW p \in Packages
  PROVE  /\ Fingerprint(m, n, p) \in Fingerprints
         /\ Fingerprint(m, n, p).hash = m.circuits[n].hash
         /\ Fingerprint(m, n, p).size = m.circuits[n].size
         /\ n \in Names /\ m.circuits[n].hash \in Hashes
  BY RegistryAssumption DEF Fingerprints, Fingerprint

LEMMA SnapshotFields ==
  ASSUME NEW s \in Snapshots
  PROVE  /\ s.version \in Versions /\ s.root \in {m.root : m \in Manifests}
         /\ DOMAIN s.circuits \in SUBSET Names
         /\ s.circuits \in [DOMAIN s.circuits -> Fingerprints]
<1>1. s.circuits \in UNION {[names -> Fingerprints] : names \in SUBSET Names}
  BY DEF Snapshots
<1>2. PICK names \in SUBSET Names : s.circuits \in [names -> Fingerprints]
  BY <1>1
<1> QED
  BY <1>2 DEF Snapshots

LEMMA ServedPackage ==
  ASSUME Typed, NEW m \in Manifests, NEW n \in DOMAIN m.circuits
  PROVE  PackageOf(m, n, Served(m, n))
  BY PrintsListed, RegistryAssumption DEF Typed, PackageOf, Served, Listed

------------------------------------------------------------------------------
(* What a command holds fits, step by step.                                *)

LEMMA SetJob ==
  ASSUME Typed, NEW c \in Clients, NEW record, Set(c, record)
  PROVE  job'[c] = record /\ \A d \in Clients \ {c} : job'[d] = job[d]
  BY DEF Typed, Set

LEMMA SnapshotFit ==
  ASSUME Typed, NEW c \in Clients, Fit(job[c]),
         \/ \E v \in Versions, names \in SUBSET Names : StartSnapshot(c, v, names)
         \/ FetchSnapshotManifest(c) \/ FingerprintCircuit(c)
  PROVE  job'[c] \in Jobs /\ Fit(job'[c])
<1>0. job[c] \in Jobs
  BY DEF Typed
<1>1. ASSUME NEW v \in Versions, NEW names \in SUBSET Names, StartSnapshot(c, v, names)
      PROVE  job'[c] \in Jobs /\ Fit(job'[c])
  <2>1. job'[c] = [NoJob EXCEPT !.pc = "fetchManifest", !.command = "snapshot",
                          !.version = v, !.names = names, !.todo = names]
    BY <1>1, SetJob DEF StartSnapshot
  <2>2. job'[c] \in Jobs /\ job'[c].pc = "fetchManifest" /\ job'[c].command = "snapshot"
        /\ job'[c].version = v /\ job'[c].todo = job'[c].names
    BY <2>1, Idle DEF Jobs
  <2> QED
    BY <2>2 DEF Fit, Writing, Reading
<1>2. CASE FetchSnapshotManifest(c)
  <2> DEFINE m == published[job[c].version]
  <2> DEFINE s == [version |-> m.version, root |-> m.root, circuits |-> << >>]
  <2>1. job'[c] = [job[c] EXCEPT !.pc = "fingerprint", !.manifest = m, !.snapshot = s]
        /\ job[c].pc = "fetchManifest"
    BY <1>2, SetJob DEF FetchSnapshotManifest
  <2>2. m \in Manifests /\ m.version \in Versions
    BY <1>0, <2>1 DEF Typed, Fit, Versions
  <2>3. s \in Snapshots
    BY <2>2, Idle DEF Snapshots
  <2>4. SnapshotOf(s, m)
    BY <2>2, <2>3 DEF SnapshotOf
  <2> HIDE DEF m, s
  <2>5. /\ job'[c] \in Jobs /\ job'[c].pc = "fingerprint" /\ job'[c].command = job[c].command
        /\ job'[c].version = job[c].version /\ job'[c].todo = job[c].todo
        /\ job'[c].names = job[c].names /\ job'[c].manifest = m /\ job'[c].snapshot = s
    BY <1>0, <2>1, <2>2, <2>3 DEF Jobs
  <2> QED
    BY <2>1, <2>4, <2>5 DEF Fit, Writing, Reading
<1>3. CASE FingerprintCircuit(c)
  <2> DEFINE m == job[c].manifest
  <2> DEFINE n == Circuit(c)
  <2> DEFINE old == job[c].snapshot.circuits
  <2> DEFINE new == Fingerprint(m, n, Served(m, n))
  <2> DEFINE circuits == [k \in DOMAIN old \cup {n} |-> IF k = n THEN new ELSE old[k]]
  <2>1. /\ job'[c] = [job[c] EXCEPT !.todo = @ \ {n}, !.snapshot.circuits = circuits]
        /\ job[c].pc = "fingerprint" /\ n \in DOMAIN m.circuits
    BY <1>3, SetJob DEF FingerprintCircuit, PinnedManifest, Listed
  <2>2. SnapshotOf(job[c].snapshot, m) /\ m \in Manifests /\ job[c].snapshot \in Snapshots
    BY <2>1 DEF Fit, SnapshotOf
  <2>3. Served(m, n) \in Packages
    BY <2>1, <2>2, ServedPackage DEF PackageOf
  <2> HIDE DEF n
  <2>4. new \in Fingerprints /\ new.hash = m.circuits[n].hash /\ new.size = m.circuits[n].size
        /\ n \in Names
    BY <2>1, <2>2, <2>3, PrintsListed
  <2> HIDE DEF new
  <2>5. DOMAIN old \in SUBSET Names /\ old \in [DOMAIN old -> Fingerprints]
    BY <2>2, SnapshotFields
  <2>6. /\ \A k \in DOMAIN old : Listed(m, k) /\ old[k].hash = m.circuits[k].hash
                                 /\ old[k].size = m.circuits[k].size
        /\ job[c].snapshot.version = m.version /\ job[c].snapshot.root = m.root
    BY <2>2 DEF SnapshotOf
  <2>7. \A k \in DOMAIN circuits : Listed(m, k) /\ circuits[k].hash = m.circuits[k].hash
                                   /\ circuits[k].size = m.circuits[k].size
    <3> HIDE DEF old
    <3> QED
      BY <2>1, <2>4, <2>6 DEF Listed
  <2>8. circuits \in [DOMAIN old \cup {n} -> Fingerprints] /\ DOMAIN old \cup {n} \in SUBSET Names
    <3> HIDE DEF old
    <3> QED
      BY <2>4, <2>5
  <2> DEFINE s == [job[c].snapshot EXCEPT !.circuits = circuits]
  <2>9. s \in Snapshots /\ s.version = m.version /\ s.root = m.root /\ s.circuits = circuits
    <3> HIDE DEF circuits, m
    <3>1. circuits \in UNION {[names -> Fingerprints] : names \in SUBSET Names}
      BY <2>8
    <3> QED
      BY <2>2, <2>6, <3>1 DEF Snapshots
  <2> HIDE DEF circuits
  <2>10. SnapshotOf(s, m)
    <3> HIDE DEF s, m
    <3> QED
      BY <2>2, <2>7, <2>9 DEF SnapshotOf
  <2>11. job'[c] = [job[c] EXCEPT !.todo = @ \ {n}, !.snapshot = s]
    BY <1>0, <2>1 DEF Jobs
  <2> HIDE DEF s, m
  <2>12. /\ job'[c] \in Jobs /\ job'[c].pc = "fingerprint" /\ job'[c].command = job[c].command
         /\ job'[c].version = job[c].version /\ job'[c].todo \subseteq job[c].todo
         /\ job'[c].names = job[c].names /\ job'[c].manifest = m /\ job'[c].snapshot = s
    <3> DEFINE left == job[c].todo \ {n}
    <3>1. left \in SUBSET Names /\ left \subseteq job[c].todo
      BY <1>0 DEF Jobs
    <3>2. job'[c] = [job[c] EXCEPT !.todo = left, !.snapshot = s]
      BY <2>11
    <3>3. s \in Snapshots /\ job[c].pc = "fingerprint"
      BY <2>1, <2>9
    <3> HIDE DEF left
    <3> QED
      BY <1>0, <3>1, <3>2, <3>3 DEF Jobs, m
  <2> QED
    BY <2>1, <2>10, <2>12 DEF Fit, Writing, Reading
<1> QED
  BY <1>1, <1>2, <1>3

LEMMA MaterializeFit ==
  ASSUME Typed, NEW c \in Clients, Fit(job[c]),
         \/ \E s \in snapshots : StartMaterialize(c, s)
         \/ CheckRoot(c) \/ OpenManifest(c) \/ FillManifest(c)
         \/ CheckCircuit(c) \/ FillCircuit(c)
  PROVE  job'[c] \in Jobs /\ Fit(job'[c])
<1>0. job[c] \in Jobs
  BY DEF Typed
<1>1. ASSUME NEW s \in snapshots, StartMaterialize(c, s)
      PROVE  job'[c] \in Jobs /\ Fit(job'[c])
  <2>0. s \in Snapshots /\ s.version \in Versions /\ DOMAIN s.circuits \in SUBSET Names
    BY SnapshotFields DEF Typed
  <2> DEFINE names == DOMAIN s.circuits
  <2>1. job'[c] = [NoJob EXCEPT !.pc = "checkRoot", !.command = "materialize",
                          !.version = s.version, !.snapshot = s,
                          !.names = names, !.todo = names]
    BY <1>1, SetJob DEF StartMaterialize
  <2> HIDE DEF names
  <2>2. /\ job'[c] \in Jobs /\ job'[c].pc = "checkRoot" /\ job'[c].command = "materialize"
        /\ job'[c].version = s.version /\ job'[c].snapshot = s
        /\ job'[c].names = names /\ job'[c].todo = names
    BY <2>0, <2>1, Idle DEF Jobs, names
  <2> QED
    BY <2>0, <2>2 DEF Fit, Writing, Reading, names
<1>2. CASE CheckRoot(c)
  <2> DEFINE m == published[job[c].version]
  <2>1. /\ job'[c] = [job[c] EXCEPT !.pc = "openManifest", !.manifest = m]
        /\ job[c].pc = "checkRoot" /\ m.root = job[c].snapshot.root
    BY <1>2, SetJob DEF CheckRoot
  <2>2. m \in Manifests
    BY <2>1 DEF Typed, Fit
  <2> HIDE DEF m
  <2>3. /\ job'[c] \in Jobs /\ job'[c].pc = "openManifest" /\ job'[c].command = job[c].command
        /\ job'[c].version = job[c].version /\ job'[c].snapshot = job[c].snapshot
        /\ job'[c].names = job[c].names /\ job'[c].todo = job[c].todo /\ job'[c].manifest = m
    BY <1>0, <2>1, <2>2 DEF Jobs
  <2> QED
    BY <2>1, <2>2, <2>3 DEF Fit, Writing, Reading
<1>3. ASSUME NEW pc \in {"fillManifest", "checkCircuit"}, Writer(c),
             pc = "checkCircuit" \/ job[c].pc = "openManifest",
             job'[c] = [job[c] EXCEPT !.pc = pc]
      PROVE  job'[c] \in Jobs /\ Fit(job'[c])
  <2>1. /\ job'[c] \in Jobs /\ job'[c].pc = pc /\ job'[c].command = job[c].command
        /\ job'[c].version = job[c].version /\ job'[c].snapshot = job[c].snapshot
        /\ job'[c].names = job[c].names /\ job'[c].todo = job[c].todo
        /\ job'[c].manifest = job[c].manifest
    BY <1>0, <1>3 DEF Jobs
  <2> QED
    BY <1>3, <2>1 DEF Fit, Writing, Reading, Writer
<1>4. CASE OpenManifest(c)
  BY <1>3, <1>4, SetJob DEF OpenManifest, Goto, Writer, Writing
<1>5. CASE FillManifest(c)
  BY <1>3, <1>5, SetJob DEF FillManifest, Goto, Writer, Writing
<1>6. CASE CheckCircuit(c)
  <2> DEFINE n == Circuit(c)
  <2> DEFINE p == Served(job[c].manifest, n)
  <2>1. /\ job'[c] = [job[c] EXCEPT !.pc = "fillCircuit", !.package = p]
        /\ job[c].pc = "checkCircuit" /\ job[c].todo # {} /\ n \in DOMAIN job[c].manifest.circuits
        /\ Fingerprint(job[c].manifest, n, p) = job[c].snapshot.circuits[n]
    BY <1>6, SetJob DEF CheckCircuit, SameAsPinned, Listed
  <2>2. job[c].manifest \in Manifests
    BY <2>1 DEF Fit, Writing
  <2>3. PackageOf(job[c].manifest, n, p)
    BY <2>1, <2>2, ServedPackage
  <2>4. n = First(job[c].todo)
    BY DEF Circuit, First
  <2> HIDE DEF n, p
  <2>5. p \in Packages
    BY <2>3 DEF PackageOf
  <2>6. /\ job'[c] \in Jobs /\ job'[c].pc = "fillCircuit" /\ job'[c].command = job[c].command
        /\ job'[c].version = job[c].version /\ job'[c].snapshot = job[c].snapshot
        /\ job'[c].names = job[c].names /\ job'[c].todo = job[c].todo
        /\ job'[c].manifest = job[c].manifest /\ job'[c].package = p
    BY <1>0, <2>1, <2>5 DEF Jobs
  <2>7. Pinned(job'[c], First(job'[c].todo), job'[c].package)
    BY <2>1, <2>3, <2>4, <2>6 DEF Pinned
  <2> QED
    BY <2>1, <2>6, <2>7 DEF Fit, Writing, Reading
<1>7. CASE FillCircuit(c)
  <2> DEFINE left == job[c].todo \ {Circuit(c)}
  <2>1. job'[c] = [job[c] EXCEPT !.pc = "checkCircuit", !.todo = left]
        /\ job[c].pc = "fillCircuit"
    BY <1>7, SetJob DEF FillCircuit
  <2>2. left \in SUBSET Names /\ left \subseteq job[c].todo
    BY <1>0 DEF Jobs
  <2> HIDE DEF left
  <2>3. /\ job'[c] \in Jobs /\ job'[c].pc = "checkCircuit" /\ job'[c].command = job[c].command
        /\ job'[c].version = job[c].version /\ job'[c].snapshot = job[c].snapshot
        /\ job'[c].names = job[c].names /\ job'[c].todo = left
        /\ job'[c].manifest = job[c].manifest
    BY <1>0, <2>1, <2>2 DEF Jobs
  <2> QED
    BY <2>1, <2>2, <2>3 DEF Fit, Writing, Reading
<1> QED
  BY <1>1, <1>2, <1>4, <1>5, <1>6, <1>7

LEMMA LoadableManifests ==
  ASSUME Typed, NEW c \in Clients, job[c].version \in Versions
  PROVE  Loadable(c) \subseteq Manifests
<1>1. published[job[c].version] \in Manifests
  BY DEF Typed
<1>2. manifestFile # NoFile => {manifestFile} \ {Torn} \subseteq Manifests
  BY DEF Typed
<1> QED
  BY <1>1, <1>2 DEF Loadable

LEMMA InspectFit ==
  ASSUME Typed, NEW c \in Clients, Fit(job[c]),
         \/ \E v \in Versions, n \in Names, local \in BOOLEAN : StartInspect(c, v, n, local)
         \/ LoadManifest(c) \/ LoadLocalCircuit(c) \/ LoadAgain(c) \/ FetchCircuit(c)
  PROVE  job'[c] \in Jobs /\ Fit(job'[c])
<1>0. job[c] \in Jobs
  BY DEF Typed
<1>1. ASSUME NEW v \in Versions, NEW n \in Names, NEW local \in BOOLEAN,
             StartInspect(c, v, n, local)
      PROVE  job'[c] \in Jobs /\ Fit(job'[c])
  <2> DEFINE names == {n}
  <2>1. job'[c] = [NoJob EXCEPT !.pc = "loadManifest", !.command = "inspect",
               !.version = v, !.local = local, !.names = names, !.todo = names]
    BY <1>1, SetJob DEF StartInspect
  <2>2. names \in SUBSET Names /\ names # {}
    OBVIOUS
  <2> HIDE DEF names
  <2>3. /\ job'[c] \in Jobs /\ job'[c].pc = "loadManifest" /\ job'[c].command = "inspect"
        /\ job'[c].version = v /\ job'[c].names = names /\ job'[c].todo = names
        /\ ~job'[c].ok
    BY <2>1, <2>2, Idle DEF Jobs
  <2> QED
    BY <2>2, <2>3 DEF Fit, Writing, Reading
<1>2. CASE LoadManifest(c)
  <2>1. PICK m \in Loadable(c) :
          job'[c] = [job[c] EXCEPT !.pc = "loadCircuit", !.manifest = m]
    BY <1>2, SetJob DEF LoadManifest
  <2>2. job[c].pc = "loadManifest" /\ m \in Manifests
    <3>1. job[c].pc = "loadManifest"
      BY <1>2 DEF LoadManifest
    <3>2. job[c].version \in Versions
      BY <3>1 DEF Fit
    <3> QED
      BY <2>1, <3>1, <3>2, LoadableManifests
  <2>3. /\ job'[c] \in Jobs /\ job'[c].pc = "loadCircuit" /\ job'[c].command = job[c].command
        /\ job'[c].version = job[c].version /\ job'[c].names = job[c].names
        /\ job'[c].todo = job[c].todo /\ job'[c].manifest = m /\ job'[c].ok = job[c].ok
    BY <1>0, <2>1, <2>2 DEF Jobs
  <2> QED
    BY <2>2, <2>3 DEF Fit, Writing, Reading
<1>3. CASE LoadLocalCircuit(c)
  <2> DEFINE p == circuitFile[Circuit(c)]
  <2>1. /\ job'[c] = [job[c] EXCEPT !.pc = "idle", !.ok = TRUE, !.package = p]
        /\ job[c].pc = "loadCircuit" /\ p # NoFile /\ p # Torn
    BY <1>3, SetJob DEF LoadLocalCircuit, IsLocal
  <2>2. Circuit(c) \in Names
    BY <1>0, <2>1, FirstIn DEF Jobs, Fit, Reading, Circuit, First
  <2>3. p \in Packages
    BY <2>1, <2>2 DEF Typed
  <2> HIDE DEF p
  <2>4. /\ job'[c] \in Jobs /\ job'[c].pc = "idle" /\ job'[c].names = job[c].names
        /\ job'[c].todo = job[c].todo
    BY <1>0, <2>1, <2>3 DEF Jobs
  <2> QED
    BY <2>4 DEF Fit, Writing, Reading
<1>4. CASE LoadAgain(c)
  <2>1. PICK m \in Loadable(c) :
          /\ Circuit(c) \in DOMAIN m.circuits
          /\ job'[c] = [job[c] EXCEPT !.pc = "fetchCircuit",
                                      !.package = m.circuits[Circuit(c)].hash]
    BY <1>4, SetJob DEF LoadAgain, Fallback, Listed
  <2>2. job[c].pc = "loadCircuit" /\ m \in Manifests
    <3>1. job[c].pc = "loadCircuit"
      BY <1>4 DEF LoadAgain
    <3>2. job[c].version \in Versions
      BY <3>1 DEF Fit
    <3> QED
      BY <2>1, <3>1, <3>2, LoadableManifests
  <2> DEFINE h == m.circuits[Circuit(c)].hash
  <2>3. h \in Hashes
    BY <2>1, <2>2, RegistryAssumption
  <2>4. job'[c] = [job[c] EXCEPT !.pc = "fetchCircuit", !.package = h]
    BY <2>1
  <2> HIDE DEF h
  <2>5. /\ job'[c] \in Jobs /\ job'[c].pc = "fetchCircuit" /\ job'[c].command = job[c].command
        /\ job'[c].version = job[c].version /\ job'[c].names = job[c].names
        /\ job'[c].todo = job[c].todo /\ job'[c].manifest = job[c].manifest
        /\ job'[c].package = h /\ job'[c].ok = job[c].ok
    BY <1>0, <2>3, <2>4 DEF Jobs
  <2> QED
    BY <2>2, <2>3, <2>5 DEF Fit, Writing, Reading
<1>5. CASE FetchCircuit(c)
  <2> DEFINE p == served[job[c].package]
  <2>1. /\ job'[c] = [job[c] EXCEPT !.pc = "idle", !.ok = TRUE, !.package = p]
        /\ job[c].pc = "fetchCircuit"
    BY <1>5, SetJob DEF FetchCircuit
  <2>2. p \in Packages
    BY <2>1 DEF Typed, Fit
  <2> HIDE DEF p
  <2>3. /\ job'[c] \in Jobs /\ job'[c].pc = "idle" /\ job'[c].names = job[c].names
        /\ job'[c].todo = job[c].todo
    BY <1>0, <2>1, <2>2 DEF Jobs
  <2> QED
    BY <2>3 DEF Fit, Writing, Reading
<1> QED
  BY <1>1, <1>2, <1>3, <1>4, <1>5

LEMMA OverFit ==
  ASSUME Typed, NEW c \in Clients, Fit(job[c]),
         WriteSnapshot(c) \/ Materialized(c) \/ Refuse(c) \/ Abort(c)
  PROVE  /\ job'[c] \in Jobs /\ Fit(job'[c]) /\ job'[c].pc = "idle"
         /\ job'[c].command = "inspect" => ~job'[c].ok
         /\ job'[c].ok => WriteSnapshot(c) \/ Materialized(c)
<1>0. job[c] \in Jobs
  BY DEF Typed
<1>1. CASE WriteSnapshot(c) \/ Materialized(c)
  <2>1. job'[c] = [NoJob EXCEPT !.command = job[c].command, !.ok = TRUE]
        /\ job[c].pc \in {"fingerprint", "checkCircuit"}
    BY <1>1, SetJob DEF WriteSnapshot, Materialized, Finish
  <2>2. job[c].command \in {"snapshot", "materialize"}
    BY <2>1 DEF Fit, Writing
  <2>3. /\ job'[c] \in Jobs /\ job'[c].pc = "idle" /\ job'[c].names = {} /\ job'[c].todo = {}
        /\ job'[c].command = job[c].command
    BY <1>0, <2>1, Idle DEF Jobs
  <2> QED
    BY <1>1, <2>2, <2>3 DEF Fit, Writing, Reading
<1>2. CASE Refuse(c) \/ Abort(c)
  <2>1. job'[c] = NoJob
    BY <1>2, SetJob DEF Refuse, Abort, GiveUp
  <2> QED
    BY <2>1, Idle DEF Fit, Writing, Reading
<1> QED
  BY <1>1, <1>2

LEMMA Steps ==
  ASSUME Next
  PROVE  \/ \E m \in Manifests : Publish(m)
         \/ \E p \in Packages : Replace(p)
         \/ \E c \in Clients : Start(c) \/ Step(c)
  BY DEF Next

LEMMA JobStep ==
  ASSUME Typed, NEW c \in Clients, Fit(job[c]), Start(c) \/ Step(c)
  PROVE  job'[c] \in Jobs /\ Fit(job'[c])
<1>1. CASE Start(c)
  BY <1>1, SnapshotFit, MaterializeFit, InspectFit DEF Start
<1>2. CASE Step(c)
  BY <1>2, SnapshotFit, MaterializeFit, InspectFit, OverFit DEF Step
<1> QED
  BY <1>1, <1>2

LEMMA OthersStay ==
  ASSUME Typed, NEW c \in Clients, Start(c) \/ Step(c)
  PROVE  /\ job' = [job EXCEPT ![c] = job'[c]]
         /\ \A d \in Clients \ {c} : job'[d] = job[d]
         /\ published' = published /\ served' = served
<1>1. ASSUME NEW record, Set(c, record)
      PROVE  /\ job' = [job EXCEPT ![c] = job'[c]]
             /\ \A d \in Clients \ {c} : job'[d] = job[d]
  BY <1>1 DEF Typed, Set
<1>2. CASE Start(c)
  BY <1>1, <1>2 DEF Start, StartSnapshot, StartMaterialize, StartInspect, Registry
<1>3. CASE FetchSnapshotManifest(c) \/ FingerprintCircuit(c) \/ WriteSnapshot(c)
  BY <1>1, <1>3 DEF FetchSnapshotManifest, FingerprintCircuit, WriteSnapshot, Finish, Registry
<1>4. CASE CheckRoot(c) \/ OpenManifest(c) \/ FillManifest(c) \/ CheckCircuit(c)
             \/ FillCircuit(c) \/ Materialized(c)
  BY <1>1, <1>4 DEF CheckRoot, OpenManifest, FillManifest, CheckCircuit, FillCircuit,
       Materialized, Finish, Goto, Registry
<1>5. CASE LoadManifest(c) \/ LoadLocalCircuit(c) \/ LoadAgain(c) \/ FetchCircuit(c)
  BY <1>1, <1>5 DEF LoadManifest, LoadLocalCircuit, LoadAgain, FetchCircuit, Registry
<1>6. CASE Refuse(c) \/ Abort(c)
  BY <1>1, <1>6 DEF Refuse, Abort, GiveUp, Registry
<1> QED
  BY <1>2, <1>3, <1>4, <1>5, <1>6 DEF Step

LEMMA BudgetKept ==
  ASSUME Typed, Next
  PROVE  (spent \in [Kinds -> Nat] /\ \A k \in Kinds : spent[k] <= Limit[k])'
<1>1. \A k \in Kinds : Limit[k] \in Nat
  BY RegistryAssumption DEF Kinds, Limit
<1>2. ASSUME NEW kind \in Kinds, Spend(kind)
      PROVE  (spent \in [Kinds -> Nat] /\ \A k \in Kinds : spent[k] <= Limit[k])'
  BY <1>1, <1>2 DEF Spend, Typed
<1>3. {"commands", "published", "replaced", "aborts"} \subseteq Kinds
  BY DEF Kinds
<1>4. spent' = spent \/ \E kind \in Kinds : Spend(kind)
  <2>1. ASSUME NEW c \in Clients, Start(c) \/ Step(c)
        PROVE  spent' = spent \/ Spend("commands") \/ Spend("aborts")
    BY <2>1 DEF Start, StartSnapshot, StartMaterialize, StartInspect, Step,
         FetchSnapshotManifest, FingerprintCircuit, WriteSnapshot, CheckRoot, OpenManifest,
         FillManifest, CheckCircuit, FillCircuit, Materialized, LoadManifest,
         LoadLocalCircuit, LoadAgain, FetchCircuit, Refuse, Abort
  <2> QED
    BY <1>3, <2>1, Steps DEF Publish, Replace
<1> QED
  BY <1>2, <1>4 DEF Typed

LEMMA FilesStay ==
  ASSUME Next
  PROVE  /\ manifestFile' = manifestFile \/ \E c \in Clients : OpenManifest(c) \/ FillManifest(c)
         /\ circuitFile' = circuitFile \/ \E c \in Clients : CheckCircuit(c) \/ FillCircuit(c)
         /\ snapshots' = snapshots \/ \E c \in Clients : WriteSnapshot(c)
<1>1. ASSUME NEW c \in Clients, Start(c) \/ Step(c)
      PROVE  /\ manifestFile' = manifestFile \/ OpenManifest(c) \/ FillManifest(c)
             /\ circuitFile' = circuitFile \/ CheckCircuit(c) \/ FillCircuit(c)
             /\ snapshots' = snapshots \/ WriteSnapshot(c)
  <2>1. CASE Start(c)
    BY <2>1 DEF Start, StartSnapshot, StartMaterialize, StartInspect, Directory
  <2>2. CASE FetchSnapshotManifest(c) \/ FingerprintCircuit(c) \/ WriteSnapshot(c)
    BY <2>2 DEF FetchSnapshotManifest, FingerprintCircuit, WriteSnapshot, Directory
  <2>3. CASE CheckRoot(c) \/ OpenManifest(c) \/ FillManifest(c) \/ CheckCircuit(c)
               \/ FillCircuit(c) \/ Materialized(c)
    BY <2>3 DEF CheckRoot, OpenManifest, FillManifest, CheckCircuit, FillCircuit,
         Materialized, Directory
  <2>4. CASE LoadManifest(c) \/ LoadLocalCircuit(c) \/ LoadAgain(c) \/ FetchCircuit(c)
    BY <2>4 DEF LoadManifest, LoadLocalCircuit, LoadAgain, FetchCircuit, Directory
  <2>5. CASE Refuse(c) \/ Abort(c)
    BY <2>5 DEF Refuse, Abort, GiveUp, Directory
  <2> QED
    BY <1>1, <2>1, <2>2, <2>3, <2>4, <2>5 DEF Step
<1> QED
  BY <1>1, Steps DEF Publish, Replace, Directory

LEMMA TypedStep ==
  ASSUME Typed, \A c \in Clients : Fit(job[c]), Next
  PROVE  Typed' /\ (\A c \in Clients : Fit(job[c]))'
<1>1. (/\ published \in [Versions -> Manifests]
       /\ \A v \in Versions : published[v].version = v
       /\ served \in [Hashes -> Packages] /\ \A h \in Hashes : served[h].hash = h)'
  <2>1. ASSUME NEW m \in Manifests, Publish(m)
        PROVE  (published \in [Versions -> Manifests] /\ \A v \in Versions : published[v].version = v)'
               /\ served' = served
    BY <2>1 DEF Publish, Typed, Versions
  <2>2. ASSUME NEW p \in Packages, Replace(p)
        PROVE  (served \in [Hashes -> Packages] /\ \A h \in Hashes : served[h].hash = h)'
               /\ published' = published
    BY <2>2 DEF Replace, Typed, Hashes
  <2>3. ASSUME NEW c \in Clients, Start(c) \/ Step(c)
        PROVE  published' = published /\ served' = served
    BY <2>3, OthersStay
  <2> QED
    BY <2>1, <2>2, <2>3, Steps DEF Typed
<1>2. manifestFile' \in Manifests \cup {NoFile, Torn}
  <2>1. ASSUME NEW c \in Clients, FillManifest(c)
        PROVE  manifestFile' \in Manifests
    BY <2>1 DEF FillManifest, Fit, Writing
  <2>2. ASSUME NEW c \in Clients, OpenManifest(c)
        PROVE  manifestFile' = Torn
    BY <2>2 DEF OpenManifest
  <2> QED
    BY <2>1, <2>2, FilesStay DEF Typed
<1>3. circuitFile' \in [Names -> Packages \cup {NoFile, Torn}]
  <2>1. ASSUME NEW c \in Clients, FillCircuit(c)
        PROVE  circuitFile' = [circuitFile EXCEPT ![Circuit(c)] = job[c].package]
               /\ job[c].package \in Packages
    BY <2>1 DEF FillCircuit, Fit, Pinned, PackageOf
  <2>2. ASSUME NEW c \in Clients, CheckCircuit(c)
        PROVE  circuitFile' = [circuitFile EXCEPT ![Circuit(c)] = Torn]
    BY <2>2 DEF CheckCircuit
  <2> QED
    BY <2>1, <2>2, FilesStay DEF Typed
<1>4. snapshots' \subseteq Snapshots
  <2>1. ASSUME NEW c \in Clients, WriteSnapshot(c)
        PROVE  snapshots' = snapshots \cup {job[c].snapshot} /\ job[c].snapshot \in Snapshots
    BY <2>1 DEF WriteSnapshot, Fit, SnapshotOf
  <2> QED
    BY <2>1, FilesStay DEF Typed
<1>5. job' \in [Clients -> Jobs] /\ \A c \in Clients : Fit(job'[c])
  <2>1. ASSUME NEW c \in Clients, Start(c) \/ Step(c)
        PROVE  job' \in [Clients -> Jobs] /\ \A d \in Clients : Fit(job'[d])
    <3>1. job'[c] \in Jobs /\ Fit(job'[c])
      BY <2>1, JobStep
    <3>2. job' = [job EXCEPT ![c] = job'[c]] /\ \A d \in Clients \ {c} : job'[d] = job[d]
      BY <2>1, OthersStay
    <3> QED
      BY <3>1, <3>2 DEF Typed
  <2> QED
    BY <2>1, Steps DEF Publish, Replace, Typed
<1> QED
  BY <1>1, <1>2, <1>3, <1>4, <1>5, BudgetKept DEF Typed

LEMMA ConsistentStep ==
  ASSUME Typed, \A c \in Clients : Fit(job[c]), SnapshotConsistent, Next
  PROVE  SnapshotConsistent'
<1>1. ASSUME NEW c \in Clients, WriteSnapshot(c)
      PROVE  snapshots' = snapshots \cup {job[c].snapshot} /\ OneManifest(job[c].snapshot)
  <2>1. SnapshotOf(job[c].snapshot, job[c].manifest)
    BY <1>1 DEF WriteSnapshot, Fit
  <2>2. job[c].manifest \in Manifests
    BY <2>1 DEF SnapshotOf
  <2> QED
    BY <1>1, <2>1, <2>2 DEF WriteSnapshot, SnapshotOf, OneManifest
<1> QED
  BY <1>1, FilesStay DEF SnapshotConsistent

------------------------------------------------------------------------------
(* The directory.                                                          *)

LEMMA MishapsGrow ==
  ASSUME Next
  PROVE  mishaps \subseteq mishaps'
<1>1. ASSUME NEW c \in Clients, Start(c) \/ Step(c)
      PROVE  mishaps \subseteq mishaps'
  BY <1>1 DEF Start, StartSnapshot, StartMaterialize, StartInspect, Step,
       FetchSnapshotManifest, FingerprintCircuit, WriteSnapshot, CheckRoot, OpenManifest,
       FillManifest, CheckCircuit, FillCircuit, Materialized, LoadManifest,
       LoadLocalCircuit, LoadAgain, FetchCircuit, Refuse, Abort, GiveUp
<1> QED
  BY <1>1, Steps DEF Publish, Replace

\* A command goes on with what it has.
Same(j, k) ==
  /\ k.command = j.command /\ k.version = j.version /\ k.names = j.names
  /\ k.manifest = j.manifest /\ k.snapshot = j.snapshot /\ k.ok = j.ok

LEMMA WriterMoves ==
  ASSUME Typed, NEW c \in Clients
  PROVE  /\ OpenManifest(c) => /\ job[c].pc = "openManifest" /\ job'[c].pc = "fillManifest"
                               /\ Same(job[c], job'[c]) /\ job'[c].todo = job[c].todo
         /\ FillManifest(c) => /\ job[c].pc = "fillManifest" /\ job'[c].pc = "checkCircuit"
                               /\ Same(job[c], job'[c]) /\ job'[c].todo = job[c].todo
         /\ CheckCircuit(c) => /\ job[c].pc = "checkCircuit" /\ job'[c].pc = "fillCircuit"
                               /\ Same(job[c], job'[c]) /\ job'[c].todo = job[c].todo
         /\ FillCircuit(c) => /\ job[c].pc = "fillCircuit" /\ job'[c].pc = "checkCircuit"
                              /\ Same(job[c], job'[c])
                              /\ job'[c].todo = job[c].todo \ {Circuit(c)}
<1>0. job[c] \in Jobs
  BY DEF Typed
<1>1. ASSUME NEW pc, job'[c] = [job[c] EXCEPT !.pc = pc]
      PROVE  job'[c].pc = pc /\ Same(job[c], job'[c]) /\ job'[c].todo = job[c].todo
  BY <1>0, <1>1 DEF Jobs, Same
<1>2. CASE OpenManifest(c)
  BY <1>1, <1>2, SetJob DEF OpenManifest, Goto, FillManifest, CheckCircuit, FillCircuit
<1>3. CASE FillManifest(c)
  BY <1>1, <1>3, SetJob DEF OpenManifest, Goto, FillManifest, CheckCircuit, FillCircuit
<1>4. CASE CheckCircuit(c)
  <2> DEFINE p == Served(job[c].manifest, Circuit(c))
  <2>1. job'[c] = [job[c] EXCEPT !.pc = "fillCircuit", !.package = p]
        /\ job[c].pc = "checkCircuit"
    BY <1>4, SetJob DEF CheckCircuit
  <2> HIDE DEF p
  <2>2. job'[c].pc = "fillCircuit" /\ Same(job[c], job'[c]) /\ job'[c].todo = job[c].todo
    BY <1>0, <2>1 DEF Jobs, Same
  <2> QED
    BY <2>1, <2>2 DEF OpenManifest, FillManifest, FillCircuit
<1>5. CASE FillCircuit(c)
  <2> DEFINE left == job[c].todo \ {Circuit(c)}
  <2>1. job'[c] = [job[c] EXCEPT !.pc = "checkCircuit", !.todo = left]
        /\ job[c].pc = "fillCircuit"
    BY <1>5, SetJob DEF FillCircuit
  <2> HIDE DEF left
  <2>2. job'[c].pc = "checkCircuit" /\ Same(job[c], job'[c]) /\ job'[c].todo = left
    BY <1>0, <2>1 DEF Jobs, Same
  <2> QED
    BY <2>1, <2>2 DEF OpenManifest, FillManifest, CheckCircuit, left
<1> QED
  BY <1>2, <1>3, <1>4, <1>5

LEMMA ReaderMoves ==
  ASSUME Typed, NEW c \in Clients
  PROVE  /\ \A v \in Versions, n \in Names, local \in BOOLEAN :
              StartInspect(c, v, n, local) =>
                job[c].pc = "idle" /\ job'[c].pc = "loadManifest" /\ ~job'[c].ok
         /\ LoadManifest(c) =>
              \E m \in Loadable(c) :
                /\ job[c].pc = "loadManifest" /\ job'[c].pc = "loadCircuit"
                /\ job'[c].version = job[c].version /\ job'[c].local = job[c].local
                /\ job'[c].todo = job[c].todo /\ job'[c].ok = job[c].ok
                /\ job'[c].manifest = m
         /\ LoadLocalCircuit(c) =>
              /\ job[c].pc = "loadCircuit" /\ job'[c].pc = "idle"
              /\ job'[c].version = job[c].version /\ job'[c].local = job[c].local
              /\ job'[c].todo = job[c].todo /\ job'[c].manifest = job[c].manifest
              /\ job'[c].package = circuitFile[Circuit(c)]
         /\ LoadAgain(c) =>
              \E m \in Loadable(c) :
                /\ job[c].pc = "loadCircuit" /\ job'[c].pc = "fetchCircuit"
                /\ job'[c].version = job[c].version /\ job'[c].local = job[c].local
                /\ job'[c].todo = job[c].todo /\ job'[c].manifest = job[c].manifest
                /\ job'[c].ok = job[c].ok
                /\ Listed(m, Circuit(c)) /\ job'[c].package = m.circuits[Circuit(c)].hash
         /\ FetchCircuit(c) =>
              /\ job[c].pc = "fetchCircuit" /\ job'[c].pc = "idle"
              /\ job'[c].version = job[c].version /\ job'[c].local = job[c].local
              /\ job'[c].todo = job[c].todo /\ job'[c].manifest = job[c].manifest
              /\ job'[c].package = served[job[c].package]
<1>0. job[c] \in Jobs
  BY DEF Typed
<1>1. ASSUME NEW v \in Versions, NEW n \in Names, NEW local \in BOOLEAN,
             StartInspect(c, v, n, local)
      PROVE  job[c].pc = "idle" /\ job'[c].pc = "loadManifest" /\ ~job'[c].ok
  <2> DEFINE names == {n}
  <2>1. job'[c] = [NoJob EXCEPT !.pc = "loadManifest", !.command = "inspect",
               !.version = v, !.local = local, !.names = names, !.todo = names]
    BY <1>1, SetJob DEF StartInspect
  <2> HIDE DEF names
  <2> QED
    BY <1>1, <2>1, Idle DEF Jobs, StartInspect
<1>2. ASSUME LoadManifest(c)
      PROVE  \E m \in Loadable(c) :
                /\ job[c].pc = "loadManifest" /\ job'[c].pc = "loadCircuit"
                /\ job'[c].version = job[c].version /\ job'[c].local = job[c].local
                /\ job'[c].todo = job[c].todo /\ job'[c].ok = job[c].ok
                /\ job'[c].manifest = m
  <2>1. PICK m \in Loadable(c) :
          job'[c] = [job[c] EXCEPT !.pc = "loadCircuit", !.manifest = m]
    BY <1>2, SetJob DEF LoadManifest
  <2>2. /\ job'[c].pc = "loadCircuit"
        /\ job'[c].version = job[c].version /\ job'[c].local = job[c].local
        /\ job'[c].todo = job[c].todo /\ job'[c].ok = job[c].ok
        /\ job'[c].manifest = m
    BY <1>0, <2>1 DEF Jobs
  <2> QED
    BY <1>2, <2>2 DEF LoadManifest
<1>3. ASSUME LoadLocalCircuit(c)
      PROVE   /\ job[c].pc = "loadCircuit" /\ job'[c].pc = "idle"
              /\ job'[c].version = job[c].version /\ job'[c].local = job[c].local
              /\ job'[c].todo = job[c].todo /\ job'[c].manifest = job[c].manifest
              /\ job'[c].package = circuitFile[Circuit(c)]
  <2> DEFINE p == circuitFile[Circuit(c)]
  <2>1. /\ job'[c] = [job[c] EXCEPT !.pc = "idle", !.ok = TRUE, !.package = p]
        /\ job[c].pc = "loadCircuit"
    BY <1>3, SetJob DEF LoadLocalCircuit
  <2> HIDE DEF p
  <2>2. /\ job'[c].pc = "idle" /\ job'[c].package = p
        /\ job'[c].version = job[c].version /\ job'[c].local = job[c].local
        /\ job'[c].todo = job[c].todo /\ job'[c].manifest = job[c].manifest
    BY <1>0, <2>1 DEF Jobs
  <2> QED
    BY <2>1, <2>2 DEF p
<1>4. ASSUME LoadAgain(c)
      PROVE  \E m \in Loadable(c) :
                /\ job[c].pc = "loadCircuit" /\ job'[c].pc = "fetchCircuit"
                /\ job'[c].version = job[c].version /\ job'[c].local = job[c].local
                /\ job'[c].todo = job[c].todo /\ job'[c].manifest = job[c].manifest
                /\ job'[c].ok = job[c].ok
                /\ Listed(m, Circuit(c)) /\ job'[c].package = m.circuits[Circuit(c)].hash
  <2>1. PICK m \in Loadable(c) :
          /\ Listed(m, Circuit(c))
          /\ job'[c] = [job[c] EXCEPT !.pc = "fetchCircuit",
                                      !.package = m.circuits[Circuit(c)].hash]
    BY <1>4, SetJob DEF LoadAgain, Fallback
  <2> DEFINE h == m.circuits[Circuit(c)].hash
  <2>2. job'[c] = [job[c] EXCEPT !.pc = "fetchCircuit", !.package = h]
    BY <2>1
  <2> HIDE DEF h
  <2>3. /\ job'[c].pc = "fetchCircuit" /\ job'[c].package = h
        /\ job'[c].version = job[c].version /\ job'[c].local = job[c].local
        /\ job'[c].todo = job[c].todo /\ job'[c].manifest = job[c].manifest
        /\ job'[c].ok = job[c].ok
    BY <1>0, <2>2 DEF Jobs
  <2> QED
    BY <1>4, <2>1, <2>3 DEF LoadAgain, h
<1>5. ASSUME FetchCircuit(c)
      PROVE   /\ job[c].pc = "fetchCircuit" /\ job'[c].pc = "idle"
              /\ job'[c].version = job[c].version /\ job'[c].local = job[c].local
              /\ job'[c].todo = job[c].todo /\ job'[c].manifest = job[c].manifest
              /\ job'[c].package = served[job[c].package]
  <2> DEFINE p == served[job[c].package]
  <2>1. /\ job'[c] = [job[c] EXCEPT !.pc = "idle", !.ok = TRUE, !.package = p]
        /\ job[c].pc = "fetchCircuit"
    BY <1>5, SetJob DEF FetchCircuit
  <2> HIDE DEF p
  <2>2. /\ job'[c].pc = "idle" /\ job'[c].package = p
        /\ job'[c].version = job[c].version /\ job'[c].local = job[c].local
        /\ job'[c].todo = job[c].todo /\ job'[c].manifest = job[c].manifest
    BY <1>0, <2>1 DEF Jobs
  <2> QED
    BY <2>1, <2>2 DEF p
<1> QED
  BY <1>1, <1>2, <1>3, <1>4, <1>5

LEMMA RootMoves ==
  ASSUME Typed, NEW c \in Clients, CheckRoot(c)
  PROVE  /\ job[c].pc = "checkRoot" /\ job'[c].pc = "openManifest"
         /\ job'[c].names = job[c].names /\ job'[c].ok = job[c].ok
         /\ job'[c].command = job[c].command
<1>0. job[c] \in Jobs
  BY DEF Typed
<1> DEFINE m == published[job[c].version]
<1>1. job'[c] = [job[c] EXCEPT !.pc = "openManifest", !.manifest = m]
      /\ job[c].pc = "checkRoot"
  BY SetJob DEF CheckRoot
<1> HIDE DEF m
<1> QED
  BY <1>0, <1>1 DEF Jobs

LEMMA QuietMoves ==
  ASSUME Typed, NEW c \in Clients, Fit(job[c]),
         \/ \E v \in Versions, names \in SUBSET Names : StartSnapshot(c, v, names)
         \/ \E s \in snapshots : StartMaterialize(c, s)
         \/ FetchSnapshotManifest(c) \/ FingerprintCircuit(c)
         \/ WriteSnapshot(c) \/ Materialized(c) \/ Refuse(c) \/ Abort(c)
  PROVE  /\ job'[c].pc \in {"idle", "fetchManifest", "fingerprint", "checkRoot"}
         /\ job'[c].command = "inspect" => ~job'[c].ok
         /\ ~job[c].ok /\ job'[c].ok => WriteSnapshot(c) \/ Materialized(c)
<1>0. job[c] \in Jobs
  BY DEF Typed
<1>1. ASSUME NEW v \in Versions, NEW names \in SUBSET Names, StartSnapshot(c, v, names)
      PROVE  job'[c].pc = "fetchManifest" /\ ~job'[c].ok
  <2>1. job'[c] = [NoJob EXCEPT !.pc = "fetchManifest", !.command = "snapshot",
                          !.version = v, !.names = names, !.todo = names]
    BY <1>1, SetJob DEF StartSnapshot
  <2> QED
    BY <2>1, Idle DEF Jobs
<1>2. ASSUME NEW s \in snapshots, StartMaterialize(c, s)
      PROVE  job'[c].pc = "checkRoot" /\ ~job'[c].ok
  <2> DEFINE names == DOMAIN s.circuits
  <2> DEFINE v == s.version
  <2>1. job'[c] = [NoJob EXCEPT !.pc = "checkRoot", !.command = "materialize",
                          !.version = v, !.snapshot = s,
                          !.names = names, !.todo = names]
    BY <1>2, SetJob DEF StartMaterialize
  <2> HIDE DEF names, v
  <2> QED
    BY <2>1, Idle DEF Jobs
<1>3. CASE FetchSnapshotManifest(c)
  <2> DEFINE m == published[job[c].version]
  <2> DEFINE s == [version |-> m.version, root |-> m.root, circuits |-> << >>]
  <2>1. job'[c] = [job[c] EXCEPT !.pc = "fingerprint", !.manifest = m, !.snapshot = s]
        /\ job[c].pc = "fetchManifest"
    BY <1>3, SetJob DEF FetchSnapshotManifest
  <2> HIDE DEF m, s
  <2>2. job'[c].pc = "fingerprint" /\ job'[c].ok = job[c].ok /\ job'[c].command = job[c].command
    BY <1>0, <2>1 DEF Jobs
  <2> QED
    BY <2>1, <2>2 DEF Fit
<1>4. CASE FingerprintCircuit(c)
  <2> DEFINE s == [job[c].snapshot EXCEPT !.circuits =
                     [k \in DOMAIN job[c].snapshot.circuits \cup {Circuit(c)} |->
                        IF k = Circuit(c)
                        THEN Fingerprint(job[c].manifest, Circuit(c),
                                         Served(job[c].manifest, Circuit(c)))
                        ELSE job[c].snapshot.circuits[k]]]
  <2> DEFINE left == job[c].todo \ {Circuit(c)}
  <2>1. job'[c] = [job[c] EXCEPT !.todo = left, !.snapshot = s]
        /\ job[c].pc = "fingerprint"
    BY <1>0, <1>4, SetJob DEF FingerprintCircuit, PinnedManifest, Jobs
  <2> HIDE DEF s, left
  <2>2. job'[c].pc = "fingerprint" /\ job'[c].ok = job[c].ok /\ job'[c].command = job[c].command
    BY <1>0, <2>1 DEF Jobs
  <2> QED
    BY <2>1, <2>2 DEF Fit
<1>5. CASE WriteSnapshot(c) \/ Materialized(c) \/ Refuse(c) \/ Abort(c)
  BY <1>5, OverFit
<1> QED
  BY <1>1, <1>2, <1>3, <1>4, <1>5

\* How a step of a client moves it: it keeps out of the directory, it is one of
\* the steps that write, or one of those that read.
QuietStep(c) ==
  job'[c].pc \in {"idle", "fetchManifest", "fingerprint", "checkRoot"}
WriteStep(c) == OpenManifest(c) \/ FillManifest(c) \/ CheckCircuit(c) \/ FillCircuit(c)
InspectStep(c) ==
  \E v \in Versions, n \in Names, local \in BOOLEAN : StartInspect(c, v, n, local)

LEMMA Moves ==
  ASSUME Typed, NEW c \in Clients, Fit(job[c]), Start(c) \/ Step(c)
  PROVE  QuietStep(c) \/ CheckRoot(c) \/ WriteStep(c) \/ InspectStep(c)
         \/ LoadManifest(c) \/ LoadAgain(c)
<1>1. CASE Start(c)
  BY <1>1, QuietMoves DEF Start, QuietStep, InspectStep
<1>2. LoadLocalCircuit(c) \/ FetchCircuit(c) => QuietStep(c)
  BY ReaderMoves DEF QuietStep
<1>3. CASE Step(c)
  BY <1>2, <1>3, QuietMoves DEF Step, QuietStep, WriteStep
<1> QED
  BY <1>1, <1>3

LEMMA ApartStep ==
  ASSUME Typed, \A c \in Clients : Fit(job[c]), Apart, Next
  PROVE  Apart'
<1>1. ASSUME NEW c \in Clients, Start(c) \/ Step(c), "overlap" \notin mishaps'
      PROVE  \A a, b \in Clients : Writer(a)' /\ (Writer(b)' \/ Reader(b)') => a = b
  <2>0. "overlap" \notin mishaps
    BY <1>1, MishapsGrow DEF Next
  <2>1. \A d \in Clients \ {c} : job'[d] = job[d]
    BY <1>1, OthersStay
  <2>2. \A d \in Clients \ {c} : (Writer(d)' <=> Writer(d)) /\ (Reader(d)' <=> Reader(d))
    BY <2>1 DEF Writer, Reader
  <2>3. CASE QuietStep(c)
    <3>1. ~Writer(c)' /\ ~Reader(c)'
      BY <2>3 DEF QuietStep, Writer, Reader, Writing, Reading
    <3> QED
      BY <2>0, <2>2, <3>1 DEF Apart
  <2>4. CASE CheckRoot(c)
    <3>1. ~Reader(c)' /\ \A d \in Clients \ {c} : ~Writer(d) /\ ~Reader(d)
      BY <1>1, <2>4, RootMoves DEF CheckRoot, Reader, Reading
    <3> QED
      BY <2>2, <3>1
  <2>5. CASE WriteStep(c)
    <3>1. Writer(c) /\ ~Reader(c)'
      BY <2>5, WriterMoves DEF WriteStep, Writer, Writing, Reader, Reading
    <3> QED
      BY <2>0, <2>2, <3>1 DEF Apart
  <2>6. CASE InspectStep(c)
    <3>1. ~Writer(c)' /\ \A d \in Clients : ~Writer(d)
      BY <1>1, <2>6, ReaderMoves DEF InspectStep, StartInspect, Writer, Writing
    <3> QED
      BY <2>2, <3>1
  <2>7. CASE LoadManifest(c) \/ LoadAgain(c)
    <3>1. ~Writer(c)' /\ Reader(c)
      BY <2>7, ReaderMoves DEF Writer, Writing, Reader, Reading
    <3> QED
      BY <2>0, <2>2, <3>1 DEF Apart
  <2> QED
    BY <1>1, <2>3, <2>4, <2>5, <2>6, <2>7, Moves
<1>2. ASSUME \/ \E m \in Manifests : Publish(m)
             \/ \E p \in Packages : Replace(p)
      PROVE  Apart'
  <2>1. job' = job /\ ("overlap" \in mishaps' <=> "overlap" \in mishaps)
    BY <1>2 DEF Publish, Replace
  <2> QED
    BY <2>1 DEF Apart, Writer, Reader
<1> QED
  BY <1>1, <1>2, Steps DEF Apart

\* Without an overlap nobody but the client that writes touches the files.
LEMMA FilesAlone ==
  ASSUME Apart, Typed, \A c \in Clients : Fit(job[c]), "overlap" \notin mishaps,
         NEW c \in Clients, Writer(c) \/ Reader(c),
         NEW d \in Clients, d # c, Start(d) \/ Step(d)
  PROVE  manifestFile' = manifestFile /\ circuitFile' = circuitFile /\ job'[c] = job[c]
<1>1. ~Writer(d)
  BY DEF Apart
<1>2. ~WriteStep(d)
  BY <1>1, WriterMoves DEF WriteStep, Writer, Writing
<1>3. \A a \in Clients : WriteStep(a) => a = d
  <2>1. ASSUME NEW a \in Clients, WriteStep(a), a # d
        PROVE  FALSE
    <3>1. job'[a] = job[a]
      BY <2>1, OthersStay
    <3> QED
      BY <2>1, <3>1, WriterMoves DEF WriteStep
  <2> QED
    BY <2>1
<1>4. job'[c] = job[c]
  BY OthersStay
<1> QED
  BY <1>2, <1>3, <1>4, FilesStay DEF WriteStep, Next

LEMMA PinnedSame ==
  ASSUME NEW j, NEW k, Same(j, k), NEW n, NEW p
  PROVE  Pinned(k, n, p) <=> Pinned(j, n, p)
  BY DEF Same, Pinned

LEMMA HeldStep ==
  ASSUME IInv, Next, NEW c \in Clients
  PROVE  Held(c)'
<1>0. Typed /\ Apart /\ Held(c) /\ \A d \in Clients : Fit(job[d])
  BY DEF IInv
<1>1. SUFFICES ASSUME "overlap" \notin mishaps', job'[c].pc \in {"checkCircuit", "fillCircuit"}
               PROVE  /\ manifestFile' = job'[c].manifest
                      /\ \A n \in job'[c].names \ job'[c].todo :
                           Pinned(job'[c], n, circuitFile'[n])
  BY DEF Held
<1>2. "overlap" \notin mishaps
  BY <1>1, MishapsGrow
<1>3. CASE \/ \E m \in Manifests : Publish(m)
           \/ \E p \in Packages : Replace(p)
  <2>1. job' = job /\ manifestFile' = manifestFile /\ circuitFile' = circuitFile
    BY <1>3 DEF Publish, Replace, Directory
  <2> QED
    BY <1>0, <1>1, <1>2, <2>1 DEF Held
<1>4. ASSUME NEW d \in Clients, d # c, Start(d) \/ Step(d)
      PROVE  /\ manifestFile' = job'[c].manifest
             /\ \A n \in job'[c].names \ job'[c].todo : Pinned(job'[c], n, circuitFile'[n])
  <2>1. job'[c] = job[c]
    BY <1>0, <1>4, OthersStay
  <2>2. Writer(c)
    BY <1>1, <2>1 DEF Writer, Writing
  <2>3. manifestFile' = manifestFile /\ circuitFile' = circuitFile
    BY <1>0, <1>2, <1>4, <2>2, FilesAlone
  <2> QED
    BY <1>0, <1>1, <1>2, <2>1, <2>3 DEF Held
<1>5. CASE Start(c) \/ Step(c)
  <2>0. job[c] \in Jobs /\ circuitFile \in [Names -> Packages \cup {NoFile, Torn}]
    BY <1>0 DEF Typed
  <2>1. WriteStep(c) /\ ~OpenManifest(c)
    BY <1>0, <1>1, <1>5, Moves, RootMoves, ReaderMoves, WriterMoves
       DEF QuietStep, InspectStep, WriteStep
  <2>2. CASE FillManifest(c)
    <3>1. job[c].todo = job[c].names
      BY <1>0, <2>2 DEF FillManifest, Fit
    <3> QED
      BY <1>0, <2>2, <3>1, WriterMoves DEF FillManifest, Same
  <2>3. CASE CheckCircuit(c)
    <3>1. /\ circuitFile' = [circuitFile EXCEPT ![Circuit(c)] = Torn]
          /\ manifestFile' = manifestFile /\ job[c].todo # {}
      BY <2>3 DEF CheckCircuit
    <3>2. Same(job[c], job'[c]) /\ job'[c].todo = job[c].todo /\ job[c].pc = "checkCircuit"
      BY <1>0, <2>3, WriterMoves
    <3>3. Circuit(c) \in job[c].todo
      BY <2>0, <3>1, FirstIn DEF Jobs, Circuit, First
    <3>4. \A n \in job[c].names \ job[c].todo : circuitFile'[n] = circuitFile[n]
      BY <2>0, <3>1, <3>3 DEF Jobs
    <3>5. manifestFile = job[c].manifest
          /\ \A n \in job[c].names \ job[c].todo : Pinned(job[c], n, circuitFile[n])
      BY <1>0, <1>2, <3>2 DEF Held
    <3>6. job'[c].names = job[c].names /\ job'[c].manifest = job[c].manifest
      BY <3>2 DEF Same
    <3> QED
      BY <3>1, <3>2, <3>4, <3>5, <3>6, PinnedSame
  <2>4. CASE FillCircuit(c)
    <3>1. /\ circuitFile' = [circuitFile EXCEPT ![Circuit(c)] = job[c].package]
          /\ manifestFile' = manifestFile
      BY <2>4 DEF FillCircuit
    <3>2. /\ Same(job[c], job'[c]) /\ job'[c].todo = job[c].todo \ {Circuit(c)}
          /\ job[c].pc = "fillCircuit"
      BY <1>0, <2>4, WriterMoves
    <3>3. job[c].todo # {} /\ Pinned(job[c], First(job[c].todo), job[c].package)
      BY <1>0, <3>2 DEF Fit
    <3>4. Circuit(c) \in job[c].todo /\ Circuit(c) = First(job[c].todo)
      BY <2>0, <3>3, FirstIn DEF Jobs, Circuit, First
    <3>5. circuitFile'[Circuit(c)] = job[c].package
          /\ \A n \in job[c].names \ {Circuit(c)} : circuitFile'[n] = circuitFile[n]
      BY <2>0, <3>1, <3>4 DEF Jobs
    <3>6. manifestFile = job[c].manifest
          /\ \A n \in job[c].names \ job[c].todo : Pinned(job[c], n, circuitFile[n])
      BY <1>0, <1>2, <3>2 DEF Held
    <3>7. \A n \in job[c].names \ (job[c].todo \ {Circuit(c)}) : Pinned(job[c], n, circuitFile'[n])
      BY <3>3, <3>4, <3>5, <3>6
    <3>8. job'[c].names = job[c].names /\ job'[c].manifest = job[c].manifest
      BY <3>2 DEF Same
    <3> QED
      BY <3>1, <3>2, <3>6, <3>7, <3>8, PinnedSame
  <2> QED
    BY <2>1, <2>2, <2>3, <2>4 DEF WriteStep
<1> QED
  BY <1>3, <1>4, <1>5, Steps

\* A client stops writing when everything is written, or leaves a mishap.
LEMMA WriterEnds ==
  ASSUME Typed, NEW c \in Clients, Fit(job[c]), Start(c) \/ Step(c), Writer(c), ~Writer(c)'
  PROVE  Materialized(c) \/ "unfinished" \in mishaps'
<1>1. ~Start(c)
  BY DEF Start, StartSnapshot, StartMaterialize, StartInspect, Writer, Writing
<1>2. /\ ~FetchSnapshotManifest(c) /\ ~FingerprintCircuit(c) /\ ~WriteSnapshot(c)
      /\ ~CheckRoot(c) /\ ~LoadManifest(c) /\ ~LoadLocalCircuit(c) /\ ~LoadAgain(c)
      /\ ~FetchCircuit(c)
  BY DEF FetchSnapshotManifest, FingerprintCircuit, WriteSnapshot, CheckRoot, LoadManifest,
       LoadLocalCircuit, LoadAgain, FetchCircuit, Writer, Writing
<1>3. ~WriteStep(c)
  BY WriterMoves DEF WriteStep, Writer, Writing
<1>4. Refuse(c) \/ Abort(c) => "unfinished" \in mishaps'
  BY DEF Refuse, Abort, GiveUp
<1> QED
  BY <1>1, <1>2, <1>3, <1>4 DEF Step, WriteStep

LEMMA FiledStep ==
  ASSUME IInv, Next
  PROVE  Filed'
<1>0. Typed /\ Apart /\ Filed /\ \A d \in Clients : Fit(job[d]) /\ Held(d)
  BY DEF IInv
<1>1. SUFFICES ASSUME mishaps' \cap {"unfinished", "overlap", "leftover"} = {}
               PROVE  /\ (\A c \in Clients : ~Amid(c)') => \A n \in Names : Explained(n)'
                      /\ \A c \in Clients : Amid(c)' =>
                           \A n \in Names : circuitFile'[n] # NoFile => n \in job'[c].names
  BY DEF Filed
<1>2. mishaps \cap {"unfinished", "overlap", "leftover"} = {}
  BY <1>1, MishapsGrow
<1>3. /\ (\A c \in Clients : ~Amid(c)) => \A n \in Names : Explained(n)
      /\ \A c \in Clients : Amid(c) =>
           \A n \in Names : circuitFile[n] # NoFile => n \in job[c].names
  BY <1>0, <1>2 DEF Filed
<1>4. CASE \/ \E m \in Manifests : Publish(m)
           \/ \E p \in Packages : Replace(p)
  <2>1. job' = job /\ manifestFile' = manifestFile /\ circuitFile' = circuitFile
    BY <1>4 DEF Publish, Replace, Directory
  <2> QED
    BY <1>3, <2>1 DEF Amid, Explained, PackageOf
<1>5. ASSUME NEW c \in Clients, Start(c) \/ Step(c)
      PROVE  /\ (\A d \in Clients : ~Amid(d)') => \A n \in Names : Explained(n)'
             /\ \A d \in Clients : Amid(d)' =>
                  \A n \in Names : circuitFile'[n] # NoFile => n \in job'[d].names
  <2>0. job[c] \in Jobs /\ circuitFile \in [Names -> Packages \cup {NoFile, Torn}]
    BY <1>0 DEF Typed
  <2>1. \A d \in Clients \ {c} : job'[d] = job[d] /\ (Amid(d)' <=> Amid(d))
    BY <1>0, <1>5, OthersStay DEF Amid
  <2>2. \A d \in Clients \ {c} : ~WriteStep(d)
    <3>1. ASSUME NEW d \in Clients \ {c}, WriteStep(d)
          PROVE  FALSE
      BY <1>0, <2>1, <3>1, WriterMoves DEF WriteStep
    <3> QED
      BY <3>1
  <2>3. ~WriteStep(c) => manifestFile' = manifestFile /\ circuitFile' = circuitFile
    BY <2>2, FilesStay DEF WriteStep
  <2>4. CASE ~Writer(c)
    <3>1. ~WriteStep(c)
      BY <1>0, <2>4, WriterMoves DEF WriteStep, Writer, Writing
    <3>2. ~Amid(c)
      BY <2>4 DEF Amid, Writer, Writing
    <3>3. ~Amid(c)'
      BY <1>0, <1>5, <3>1, Moves, RootMoves, ReaderMoves DEF QuietStep, InspectStep, Amid
    <3> QED
      BY <1>3, <2>1, <2>3, <3>1, <3>2, <3>3 DEF Explained, PackageOf
  <2>5. CASE Writer(c)
    <3>0. \A d \in Clients \ {c} : ~Amid(d) /\ ~Amid(d)'
      BY <1>0, <1>2, <2>1, <2>5 DEF Apart, Amid, Writer, Writing
    <3>1. CASE ~Writer(c)'
      <4>1. Materialized(c)
        BY <1>0, <1>1, <1>5, <2>5, <3>1, WriterEnds
      <4>2. /\ job[c].pc = "checkCircuit" /\ job[c].todo = {} /\ Amid(c) /\ ~Amid(c)'
            /\ manifestFile' = manifestFile /\ circuitFile' = circuitFile
        BY <3>1, <4>1 DEF Materialized, Directory, Amid, Writer, Writing
      <4>3. /\ manifestFile = job[c].manifest
            /\ \A n \in job[c].names : Pinned(job[c], n, circuitFile[n])
        BY <1>0, <1>2, <4>2 DEF Held
      <4>4. job[c].manifest \in Manifests
        BY <1>0, <4>2 DEF Fit, Writing
      <4>5. \A n \in Names : Explained(n)
        BY <1>3, <4>2, <4>3, <4>4 DEF Explained, Pinned
      <4> QED
        BY <3>0, <4>2, <4>5 DEF Explained, PackageOf
    <3>2. CASE Writer(c)'
      <4>1. WriteStep(c)
        <5>1. ~QuietStep(c) /\ ~InspectStep(c) /\ ~LoadManifest(c) /\ ~LoadAgain(c)
          BY <1>0, <3>2, ReaderMoves DEF QuietStep, InspectStep, Writer, Writing
        <5>2. ~CheckRoot(c)
          BY <2>5 DEF CheckRoot, Writer, Writing
        <5> QED
          BY <1>0, <1>5, <5>1, <5>2, Moves
      <4>2. Amid(c)' /\ job'[c].names = job[c].names
        BY <1>0, <4>1, WriterMoves DEF WriteStep, Amid, Same
      <4>3. \A n \in Names : circuitFile'[n] # NoFile => n \in job[c].names
        <5>1. CASE OpenManifest(c)
          BY <1>1, <5>1 DEF OpenManifest
        <5>2. CASE FillManifest(c)
          BY <1>3, <5>2 DEF FillManifest, Amid
        <5>3. ASSUME CheckCircuit(c) \/ FillCircuit(c), NEW n \in Names, circuitFile'[n] # NoFile
              PROVE  n \in job[c].names
          <6>1. /\ \E f \in {Torn, job[c].package} :
                     circuitFile' = [circuitFile EXCEPT ![Circuit(c)] = f]
                /\ Amid(c) /\ job[c].todo # {}
            BY <1>0, <5>3 DEF CheckCircuit, FillCircuit, Amid, Fit
          <6>2. Circuit(c) \in job[c].todo /\ job[c].todo \subseteq job[c].names
            BY <1>0, <2>0, <6>1, FirstIn DEF Jobs, Fit, Circuit, First
          <6> QED
            BY <1>3, <2>0, <5>3, <6>1, <6>2
        <5> QED
          BY <4>1, <5>1, <5>2, <5>3 DEF WriteStep
      <4> QED
        BY <3>0, <4>2, <4>3
    <3> QED
      BY <3>1, <3>2
  <2> QED
    BY <2>4, <2>5
<1> QED
  BY <1>4, <1>5, Steps

------------------------------------------------------------------------------
(* What a command that reads has read.                                     *)

LEMMA LoadingStep ==
  ASSUME IInv, Next, NEW c \in Clients
  PROVE  Loading(c)'
<1>0. /\ Typed /\ Apart /\ Filed /\ Loading(c) /\ Fit(job[c]) /\ job[c] \in Jobs
      /\ \A d \in Clients : Fit(job[d])
  BY DEF IInv, Typed
<1>1. \A l \in BOOLEAN : Excuses(l)' = {} => Excuses(l) = {}
  BY MishapsGrow DEF Excuses
<1>9. job[c].local \in BOOLEAN
  BY <1>0 DEF Jobs
<1>2. manifestFile # NoFile => manifestFile' # NoFile
  <2>1. ASSUME NEW d \in Clients, OpenManifest(d) \/ FillManifest(d)
        PROVE  manifestFile' # NoFile
    BY <1>0, <2>1, RegistryAssumption DEF OpenManifest, FillManifest, Fit, Writing
  <2> QED
    BY <2>1, FilesStay
<1>3. ASSUME job'[c] = job[c], ~Reader(c)
      PROVE  Loading(c)'
  BY <1>0, <1>1, <1>2, <1>3, <1>9 DEF Loading, Reader, Reading
<1>4. ASSUME job'[c] = job[c],
             Excuses(job[c].local)' = {} => /\ job[c].local => manifestFile' = manifestFile
                                           /\ published' = published
      PROVE  Loading(c)'
  <2>1. Excuses(job[c].local)' = {} => Loadable(c)' = Loadable(c)
    BY <1>4 DEF Loadable
  <2> QED
    BY <1>0, <1>1, <1>2, <1>4, <1>9, <2>1 DEF Loading
<1>5. CASE \/ \E m \in Manifests : Publish(m)
           \/ \E p \in Packages : Replace(p)
  <2>1. job' = job /\ manifestFile' = manifestFile
    BY <1>5 DEF Publish, Replace, Directory
  <2>2. Reader(c) /\ Excuses(job[c].local)' = {} => published' = published
    BY <1>5, <2>1 DEF Publish, Replace, Excuses
  <2> QED
    BY <1>3, <1>4, <2>1, <2>2
<1>6. ASSUME NEW d \in Clients \ {c}, Start(d) \/ Step(d)
      PROVE  Loading(c)'
  <2>1. job'[c] = job[c] /\ published' = published
    BY <1>0, <1>6, OthersStay
  <2>2. Reader(c) /\ Excuses(job[c].local)' = {} /\ job[c].local
          => manifestFile' = manifestFile
    <3>1. Excuses(job[c].local)' = {} /\ job[c].local => mishaps' = {} /\ mishaps = {}
      BY <2>1, MishapsGrow DEF Excuses
    <3> QED
      BY <1>0, <1>6, <3>1, FilesAlone
  <2> QED
    BY <1>3, <1>4, <2>1, <2>2
<1>7. CASE Start(c) \/ Step(c)
  <2>0. published' = published
    BY <1>0, <1>7, OthersStay
  <2>1. ASSUME job'[c].pc \notin {"loadCircuit", "fetchCircuit"},
               job'[c].command = "inspect" => ~job'[c].ok
        PROVE  Loading(c)'
    BY <2>1 DEF Loading
  <2>2. CASE CheckRoot(c)
    <3>1. job[c].command = "materialize" /\ job'[c].command = job[c].command
          /\ job'[c].pc = "openManifest"
      BY <1>0, <2>2, RootMoves DEF Fit
    <3> QED
      BY <2>1, <3>1
  <2>3. CASE WriteStep(c)
    <3>1. job[c].command = "materialize" /\ job'[c].command = job[c].command
          /\ job'[c].pc \notin {"loadCircuit", "fetchCircuit"}
      BY <1>0, <2>3, WriterMoves DEF WriteStep, Fit, Writing, Same
    <3> QED
      BY <2>1, <3>1
  <2>4. CASE InspectStep(c)
    BY <1>0, <2>1, <2>4, ReaderMoves DEF InspectStep
  <2>5. CASE LoadManifest(c)
    <3>1. PICK m \in Loadable(c) :
            /\ job[c].pc = "loadManifest" /\ job'[c].pc = "loadCircuit"
            /\ job'[c].version = job[c].version /\ job'[c].local = job[c].local
            /\ job'[c].todo = job[c].todo /\ job'[c].ok = job[c].ok
            /\ job'[c].manifest = m
      BY <1>0, <2>5, ReaderMoves
    <3>2. manifestFile' = manifestFile /\ ~job[c].ok /\ job[c].version \in Versions
      BY <1>0, <2>5, <3>1 DEF LoadManifest, Directory, Fit, Reading
    <3>3. Loadable(c) = {m}
      BY <3>1 DEF Loadable
    <3>4. Loadable(c)' = Loadable(c)
      BY <2>0, <3>1, <3>2 DEF Loadable
    <3>5. m.version = job[c].version \/ (job[c].local /\ manifestFile # NoFile)
      BY <1>0, <3>1, <3>2 DEF Loadable, Typed
    <3> QED
      BY <3>1, <3>2, <3>3, <3>4, <3>5 DEF Loading
  <2>6. CASE LoadLocalCircuit(c)
    <3>1. /\ job[c].pc = "loadCircuit" /\ job'[c].pc = "idle"
          /\ job'[c].version = job[c].version /\ job'[c].local = job[c].local
          /\ job'[c].todo = job[c].todo /\ job'[c].manifest = job[c].manifest
          /\ job'[c].package = circuitFile[Circuit(c)]
      BY <1>0, <2>6, ReaderMoves
    <3>2. /\ manifestFile' = manifestFile /\ job[c].local
          /\ circuitFile[Circuit(c)] # NoFile /\ circuitFile[Circuit(c)] # Torn
          /\ mishaps' = mishaps
      BY <2>6 DEF LoadLocalCircuit, Directory, IsLocal
    <3>3. Circuit(c) \in Names /\ Circuit(c) = First(job[c].todo) /\ Reader(c)
      BY <1>0, <3>1, FirstIn DEF Jobs, Fit, Reading, Reader, Circuit, First
    <3>4. ASSUME Excuses(job[c].local) = {}
          PROVE  PackageOf(job[c].manifest, Circuit(c), circuitFile[Circuit(c)])
      <4>0. mishaps = {}
        BY <3>2, <3>4 DEF Excuses
      <4>1. \A d \in Clients : ~Amid(d)
        <5>1. \A d \in Clients : Writer(d) => d = c
          BY <1>0, <3>3, <4>0 DEF Apart
        <5>2. ~Writer(c)
          BY <3>1 DEF Writer, Writing
        <5> QED
          BY <5>1, <5>2 DEF Amid, Writer, Writing
      <4>2. manifestFile \in Manifests
            /\ PackageOf(manifestFile, Circuit(c), circuitFile[Circuit(c)])
        BY <1>0, <3>2, <3>3, <4>0, <4>1 DEF Filed, Explained
      <4>3. Loadable(c) = {job[c].manifest}
        BY <1>0, <3>1, <3>4 DEF Loading
      <4>4. Loadable(c) \subseteq {manifestFile}
        BY <3>2, <4>2, RegistryAssumption DEF Loadable
      <4>5. job[c].manifest = manifestFile
        BY <4>3, <4>4
      <4> QED
        BY <4>2, <4>5
    <3>5. job'[c].manifest.version = job'[c].version \/ (job'[c].local /\ manifestFile' # NoFile)
      BY <1>0, <3>1, <3>2 DEF Loading
    <3> QED
      BY <3>1, <3>2, <3>3, <3>4, <3>5 DEF Loading, PackageOf, Excuses
  <2>7. CASE LoadAgain(c)
    <3>1. PICK m \in Loadable(c) :
            /\ job[c].pc = "loadCircuit" /\ job'[c].pc = "fetchCircuit"
            /\ job'[c].version = job[c].version /\ job'[c].local = job[c].local
            /\ job'[c].todo = job[c].todo /\ job'[c].manifest = job[c].manifest
            /\ job'[c].ok = job[c].ok
            /\ Listed(m, Circuit(c)) /\ job'[c].package = m.circuits[Circuit(c)].hash
      BY <1>0, <2>7, ReaderMoves
    <3>2. manifestFile' = manifestFile /\ mishaps' = mishaps /\ ~job[c].ok
      BY <1>0, <2>7, <3>1 DEF LoadAgain, Directory, Fit, Reading
    <3>3. Circuit(c) = First(job[c].todo)
      BY DEF Circuit, First
    <3>4. Excuses(job[c].local) = {} => m = job[c].manifest
      BY <1>0, <3>1 DEF Loading
    <3>5. job'[c].manifest.version = job'[c].version \/ (job'[c].local /\ manifestFile' # NoFile)
      BY <1>0, <3>1, <3>2 DEF Loading
    <3> QED
      BY <3>1, <3>2, <3>3, <3>4, <3>5 DEF Loading, Excuses
  <2>8. CASE FetchCircuit(c)
    <3>1. /\ job[c].pc = "fetchCircuit" /\ job'[c].pc = "idle"
          /\ job'[c].version = job[c].version /\ job'[c].local = job[c].local
          /\ job'[c].todo = job[c].todo /\ job'[c].manifest = job[c].manifest
          /\ job'[c].package = served[job[c].package]
      BY <1>0, <2>8, ReaderMoves
    <3>2. manifestFile' = manifestFile /\ mishaps' = mishaps
      BY <2>8 DEF FetchCircuit, Directory
    <3>3. served[job[c].package].hash = job[c].package
      BY <1>0, <3>1 DEF Fit, Typed
    <3> QED
      BY <1>0, <3>1, <3>2, <3>3 DEF Loading, Excuses
  <2>9. CASE \/ \E v \in Versions, names \in SUBSET Names : StartSnapshot(c, v, names)
             \/ \E s \in snapshots : StartMaterialize(c, s)
             \/ FetchSnapshotManifest(c) \/ FingerprintCircuit(c)
             \/ WriteSnapshot(c) \/ Materialized(c) \/ Refuse(c) \/ Abort(c)
    <3>1. /\ job'[c].pc \in {"idle", "fetchManifest", "fingerprint", "checkRoot"}
          /\ job'[c].command = "inspect" => ~job'[c].ok
      BY <1>0, <2>9, QuietMoves
    <3> QED
      BY <2>1, <3>1
  <2> QED
    BY <1>7, <2>2, <2>3, <2>4, <2>5, <2>6, <2>7, <2>8, <2>9
       DEF Start, Step, WriteStep, InspectStep
<1> QED
  BY <1>5, <1>6, <1>7, Steps

------------------------------------------------------------------------------
(* The invariant.                                                          *)

LEMMA InitInv == Init => IInv
<1> SUFFICES ASSUME Init PROVE IInv
  OBVIOUS
<1>1. Typed
  <2>1. spent \in [Kinds -> Nat] /\ \A k \in Kinds : Limit[k] \in Nat /\ spent[k] = 0
    BY RegistryAssumption DEF Init, Kinds, Limit
  <2>2. \A k \in Kinds : spent[k] <= Limit[k]
    BY <2>1
  <2>3. job \in [Clients -> Jobs]
    BY Idle DEF Init
  <2>4. circuitFile \in [Names -> Packages \cup {NoFile, Torn}] /\ snapshots \subseteq Snapshots
    BY RegistryAssumption DEF Init
  <2> QED
    BY <2>1, <2>2, <2>3, <2>4 DEF Init, Typed
<1>2. \A c \in Clients : job[c] = NoJob /\ job[c].pc = "idle"
  BY Idle DEF Init
<1>3. \A c \in Clients : Fit(job[c]) /\ Held(c) /\ Loading(c) /\ ~Amid(c) /\ ~Writer(c)
  BY <1>2, Idle DEF Fit, Held, Loading, Amid, Writer, Writing, Reading
<1>4. SnapshotConsistent
  BY RegistryAssumption DEF Init, SnapshotConsistent
<1>5. Filed
  BY <1>3 DEF Init, Filed, Explained
<1> QED
  BY <1>1, <1>3, <1>4, <1>5 DEF IInv, Apart

LEMMA StepInv == IInv /\ [Next]_vars => IInv'
<1> SUFFICES ASSUME IInv, [Next]_vars PROVE IInv'
  OBVIOUS
<1>0. Typed /\ SnapshotConsistent /\ Apart /\ \A c \in Clients : Fit(job[c])
  BY DEF IInv
<1>1. CASE Next
  <2>1. Typed' /\ (\A c \in Clients : Fit(job[c]))'
    BY <1>0, <1>1, TypedStep
  <2>2. SnapshotConsistent' /\ Apart'
    BY <1>0, <1>1, ConsistentStep, ApartStep
  <2>3. Filed' /\ (\A c \in Clients : Held(c) /\ Loading(c))'
    BY <1>1, FiledStep, HeldStep, LoadingStep
  <2> QED
    BY <2>1, <2>2, <2>3 DEF IInv
<1>2. CASE UNCHANGED vars
  <2>1. /\ published' = published /\ served' = served /\ manifestFile' = manifestFile
        /\ circuitFile' = circuitFile /\ snapshots' = snapshots /\ job' = job
        /\ mishaps' = mishaps /\ spent' = spent
    BY <1>2 DEF vars
  <2>2. Typed' /\ (\A c \in Clients : Fit(job[c]))' /\ SnapshotConsistent' /\ Apart'
    BY <1>0, <2>1 DEF Typed, SnapshotConsistent, Apart, Writer, Reader
  <2>3. Filed'
    BY <2>1 DEF IInv, Filed, Explained, PackageOf, Amid
  <2>4. (\A c \in Clients : Held(c))'
    BY <2>1 DEF IInv, Held
  <2>5. (\A c \in Clients : Loading(c))'
    BY <2>1 DEF IInv, Loading, Loadable, Excuses
  <2> QED
    BY <2>2, <2>3, <2>4, <2>5 DEF IInv
<1> QED
  BY <1>1, <1>2

(* The files hold what some client that is entitled to has written, and    *)
(* what each client holds fits the step it is at.                          *)
THEOREM Invariance == Spec => []IInv
BY InitInv, StepInv, PTL DEF Spec

------------------------------------------------------------------------------
(* The properties.                                                         *)

(* Files hold what was published or served, or are torn; the bounds hold.  *)
THEOREM TypeCorrect == Spec => []TypeOK
<1>1. IInv => TypeOK
  BY DEF IInv, Typed, Fit, TypeOK
<1> QED
  BY <1>1, Invariance, PTL

(* A snapshot is of one manifest, whatever is published while its circuits *)
(* are downloaded (snapshot_circuits).                                     *)
THEOREM SnapshotsOfOneManifest == Spec => []SnapshotConsistent
<1>1. IInv => SnapshotConsistent
  BY DEF IInv
<1> QED
  BY <1>1, Invariance, PTL

(* materialize_snapshot returns Ok only over a directory that is the       *)
(* snapshot, whatever the registry replaces meanwhile, if nobody else used *)
(* the directory.                                                          *)
THEOREM MaterializesSnapshot == Spec => MaterializedFaithful
<1> DEFINE Faithful ==
      \A c \in Clients :
        /\ job[c].command = "materialize" /\ ~job[c].ok /\ job'[c].ok
        /\ "overlap" \notin mishaps
        => Matches(job[c].snapshot)
<1>1. IInv /\ [Next]_vars => [Faithful]_vars
  <2> SUFFICES ASSUME IInv, Next, NEW c \in Clients,
                      job[c].command = "materialize", ~job[c].ok, job'[c].ok,
                      "overlap" \notin mishaps
               PROVE  Matches(job[c].snapshot)
    OBVIOUS
  <2>0. Typed /\ Held(c) /\ \A d \in Clients : Fit(job[d])
    BY DEF IInv
  <2>1. Start(c) \/ Step(c)
    <3>1. ASSUME NEW d \in Clients \ {c}, Start(d) \/ Step(d)
          PROVE  job'[c] = job[c]
      BY <2>0, <3>1, OthersStay
    <3> QED
      BY <3>1, Steps DEF Publish, Replace
  <2>2. ~CheckRoot(c)
    BY <2>0, RootMoves
  <2>3. ~WriteStep(c)
    BY <2>0, WriterMoves DEF WriteStep, Same
  <2>4. ~InspectStep(c)
    BY <2>0, ReaderMoves DEF InspectStep
  <2>5. ~LoadManifest(c) /\ ~LoadLocalCircuit(c) /\ ~LoadAgain(c) /\ ~FetchCircuit(c)
    <3>1. job[c].pc \notin Reading
      BY <2>0 DEF Fit
    <3> QED
      BY <3>1 DEF LoadManifest, LoadLocalCircuit, LoadAgain, FetchCircuit, Reading
  <2>6. WriteSnapshot(c) \/ Materialized(c)
    BY <2>0, <2>1, <2>2, <2>3, <2>4, <2>5, QuietMoves DEF Start, Step, WriteStep, InspectStep
  <2>7. Materialized(c)
    BY <2>0, <2>6 DEF WriteSnapshot, Fit
  <2>8. /\ job[c].pc = "checkCircuit" /\ job[c].todo = {}
        /\ job[c].names = DOMAIN job[c].snapshot.circuits
        /\ job[c].manifest \in Manifests /\ job[c].manifest.root = job[c].snapshot.root
    BY <2>0, <2>7 DEF Materialized, Fit, Writing
  <2>9. /\ manifestFile = job[c].manifest
        /\ \A n \in job[c].names : Pinned(job[c], n, circuitFile[n])
    BY <2>0, <2>8 DEF Held
  <2> QED
    BY <2>8, <2>9 DEF Matches, Pinned, PackageOf
<1> QED
  BY <1>1, Invariance, PTL DEF Spec, MaterializedFaithful

(* A circuit file nobody is writing is the package manifest.json names,    *)
(* but for the mishaps listed (registry.rs:167).                           *)
THEOREM FilesExplained == Spec => []DirectoryExplained
<1>1. IInv => DirectoryExplained
  <2>1. ASSUME IInv, ~(\E c \in Clients : Writer(c)),
               mishaps \cap {"unfinished", "overlap", "leftover"} = {}
        PROVE  \A n \in Names : Explained(n)
    BY <2>1 DEF IInv, Filed, Amid, Writer, Writing
  <2> QED
    BY <2>1 DEF DirectoryExplained, Explained, PackageOf
<1> QED
  BY <1>1, Invariance, PTL

(* What a command loads belongs together, but for the mishaps listed       *)
(* (artifacts.rs:37).                                                      *)
THEOREM LoadsExplained == Spec => []LoadExplained
<1>1. IInv => LoadExplained
  <2> SUFFICES ASSUME IInv, NEW c \in Clients, job[c].command = "inspect", job[c].ok
               PROVE  /\ \/ Excuses(job[c].local) # {}
                         \/ /\ Listed(job[c].manifest, Circuit(c))
                            /\ job[c].package.hash = job[c].manifest.circuits[Circuit(c)].hash
                      /\ \/ job[c].manifest.version = job[c].version
                         \/ job[c].local /\ manifestFile # NoFile
    BY DEF LoadExplained
  <2>1. Loading(c) /\ Circuit(c) = First(job[c].todo)
    BY DEF IInv, Circuit, First
  <2> QED
    BY <2>1 DEF Loading
<1> QED
  BY <1>1, Invariance, PTL
==============================================================================
