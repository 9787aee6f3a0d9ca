--------------------------- MODULE BbBinary_proofs --------------------------
(***************************************************************************)
(* Proofs about BbBinary, for every set of provers and of versions, with   *)
(* and without the source build.  IInv joins the types with what is known  *)
(* of the shared files at each point of a prover: that the version it is   *)
(* about to write is the version it wants, and that a file which is not    *)
(* whole has a writer that will finish it.                                 *)
(***************************************************************************)
EXTENDS BbBinary, TLAPS

(* A step of one prover in the release cache, and one in the source build. *)
CacheStep(p) == \/ LookInCache(p) \/ ReadUrl(p) \/ Fetch(p)
                \/ OpenBinary(p) \/ FinishCopy(p) \/ Chmod(p)
BuildStep(p) == \/ LookForCheckout(p) \/ BeginClone(p) \/ EndClone(p) \/ Checkout(p)
                \/ LookForBuild(p) \/ Configure(p) \/ BeginLink(p) \/ EndLink(p)
OtherStep(p) == Start(p) \/ Quit(p) \/ Orphan(p) \/ ExecBb(p) \/ EndBb(p)

LEMMA Steps ==
  Next <=> MovePin \/ \E p \in Provers : CacheStep(p) \/ BuildStep(p) \/ OtherStep(p)
BY DEF Next, CacheStep, BuildStep, OtherStep

-----------------------------------------------------------------------------
(* Types.                                                                  *)

(* What can be found in a directory of the cache. *)
CacheFile == [data : Versions \cup {Absent, Partial}, exec : BOOLEAN, last : SUBSET Provers]

(* Changing one field of one file leaves the cache a cache. *)
LEMMA CacheUpdate ==
  ASSUME NEW c \in [Versions -> CacheFile], NEW s \in Versions
  PROVE  /\ \A d \in Versions : [c EXCEPT ![s].data = d] \in [Versions -> CacheFile]
         /\ \A x \in BOOLEAN : [c EXCEPT ![s].exec = x] \in [Versions -> CacheFile]
<1>1. c[s] \in CacheFile
  OBVIOUS
<1>2. \A d \in Versions : [c[s] EXCEPT !.data = d] \in CacheFile
  BY <1>1 DEF CacheFile
<1>3. \A x \in BOOLEAN : [c[s] EXCEPT !.exec = x] \in CacheFile
  BY <1>1 DEF CacheFile
<1> QED
  BY <1>2, <1>3

LEMMA InitTypes == Init => TypeOK
BY BbAssumption DEF Init, TypeOK, Files, Refs, SourceStages, DownloadStages

(* The types survive a step in the cache: what a prover downloads is a     *)
(* release, never the default branch.                                      *)
LEMMA CacheTypes ==
  ASSUME NEW p \in Provers, IInv, CacheStep(p)
  PROVE  TypeOK'
<1>0. /\ TypeOK
      /\ ~SourceBuild => DownloadInv
  BY DEF IInv
<1> USE <1>0, BbAssumption
    DEF TypeOK, Refs, Files, SourceStages, DownloadStages, Goto, files, CacheSlot
<1>1. CASE LookInCache(p)
  BY <1>1 DEF LookInCache
<1>2. CASE ReadUrl(p)
  BY <1>2 DEF ReadUrl
<1>3. CASE Fetch(p)
  BY <1>3 DEF Fetch
<1>4. CASE OpenBinary(p)
  BY <1>4 DEF OpenBinary
<1>5. CASE FinishCopy(p)
  <2>1. ~SourceBuild
    BY <1>5 DEF FinishCopy
  <2>2. source[p] \in Versions
    BY <1>5, <2>1 DEF FinishCopy, DownloadInv, Downloader
  <2>3. wanted[p] \in Versions /\ cache \in [Versions -> CacheFile]
    BY DEF CacheFile
  <2>4. cache' = cache \/ cache' = [cache EXCEPT ![wanted[p]].data = source[p]]
    BY <1>5 DEF FinishCopy
  <2>5. cache' \in [Versions -> CacheFile]
    BY ONLY <2>2, <2>3, <2>4, CacheUpdate
  <2> QED
    BY <1>5, <2>1, <2>5 DEF FinishCopy, CacheFile
<1>6. CASE Chmod(p)
  <2>1. wanted[p] \in Versions /\ cache \in [Versions -> CacheFile]
    BY DEF CacheFile
  <2>2. cache' \in [Versions -> CacheFile]
    BY <1>6, <2>1, CacheUpdate DEF Chmod
  <2> QED
    BY <1>6, <2>2 DEF Chmod, CacheFile
<1> QED
  BY <1>1, <1>2, <1>3, <1>4, <1>5, <1>6 DEF CacheStep

(* A prover that moves on, or stops, is at a stage of its own way. *)
LEMMA GotoTypes ==
  ASSUME NEW S, stage \in [Provers -> S], NEW p \in Provers, NEW t \in S, "idle" \in S,
         Goto(p, t)
  PROVE  stage' \in [Provers -> S]
<1>1. stage' = [stage EXCEPT ![p] = IF alive[p] THEN t ELSE "idle"]
  BY DEF Goto
<1>2. (IF alive[p] THEN t ELSE "idle") \in S
  OBVIOUS
<1> QED
  BY ONLY <1>1, <1>2, stage \in [Provers -> S]

LEMMA BuildTypes ==
  ASSUME NEW p \in Provers, TypeOK, BuildStep(p)
  PROVE  TypeOK'
<1> USE BbAssumption DEF TypeOK, Refs, Files, SourceStages, DownloadStages, Goto, files
<1>1. CASE LookForCheckout(p)
  <2>1. mishaps' \subseteq mishaps \cup {"checkout overtaken"}
    BY <1>1 DEF LookForCheckout
  <2> QED
    BY <1>1, <2>1 DEF LookForCheckout
<1>2. CASE BeginClone(p)
  BY <1>2 DEF BeginClone
<1>3. CASE EndClone(p)
  BY <1>3 DEF EndClone
<1>4. CASE Checkout(p)
  BY <1>4 DEF Checkout
<1>5. CASE LookForBuild(p)
  BY <1>5 DEF LookForBuild
<1>6. CASE Configure(p)
  BY <1>6 DEF Configure
<1>7. CASE BeginLink(p)
  BY <1>7 DEF BeginLink
<1>8. CASE EndLink(p)
  <2> DEFINE S == {"idle"} \cup (IF SourceBuild THEN SourceStages ELSE DownloadStages)
  <2>1. Goto(p, "exec") \/ Goto(p, "idle")
    BY ONLY <1>8 DEF EndLink
  <2>2. stage \in [Provers -> S] /\ "exec" \in S /\ "idle" \in S
    OBVIOUS
  <2>3. stage' \in [Provers -> S]
    <3> HIDE DEF S
    <3> QED
      BY ONLY <2>1, <2>2, p \in Provers, GotoTypes
  <2>4. /\ built' \in {source[p]} \cup ({tree} \cap Refs) \cup {Absent}
        /\ UNCHANGED <<pin, cache, tree, alive, call, wanted, source, ran, mishaps>>
    BY ONLY <1>8 DEF EndLink
  <2>5. built' \in Files
    BY <2>4
  <2> QED
    BY <2>3, <2>4, <2>5
<1> QED
  BY <1>1, <1>2, <1>3, <1>4, <1>5, <1>6, <1>7, <1>8 DEF BuildStep

LEMMA OtherTypes ==
  ASSUME NEW p \in Provers, TypeOK, OtherStep(p)
  PROVE  TypeOK'
<1> USE BbAssumption DEF TypeOK, Refs, Files, SourceStages, DownloadStages, Goto, files
<1>1. CASE Start(p)
  BY <1>1 DEF Start
<1>2. CASE Quit(p)
  <2>1. mishaps' \subseteq mishaps \cup {"copy cut short", "checkout failed"}
    BY <1>2 DEF Quit
  <2> QED
    BY <1>2, <2>1 DEF Quit
<1>3. CASE Orphan(p)
  <2>1. mishaps' \subseteq mishaps \cup {"checkout failed"}
    BY <1>3 DEF Orphan
  <2> QED
    BY <1>3, <2>1 DEF Orphan
<1>4. CASE ExecBb(p)
  <2>1. \E v \in Refs : ran' = [ran EXCEPT ![p] = v]
    BY <1>4 DEF ExecBb, Runnable
  <2>2. stage' \in [Provers -> {"idle"} \cup
                        (IF SourceBuild THEN SourceStages ELSE DownloadStages)]
    BY <1>4 DEF ExecBb
  <2>3. UNCHANGED <<pin, files, alive, call, wanted, source, mishaps>>
    BY <1>4 DEF ExecBb
  <2>4. ran' \in [Provers -> Refs]
    <3>1. PICK v \in Refs : ran' = [ran EXCEPT ![p] = v]
      BY <2>1
    <3>2. ran \in [Provers -> Refs]
      OBVIOUS
    <3> QED
      BY ONLY <3>1, <3>2
  <2> QED
    BY <2>2, <2>3, <2>4
<1>5. CASE EndBb(p)
  <2> DEFINE S == {"idle"} \cup (IF SourceBuild THEN SourceStages ELSE DownloadStages)
  <2>3. Goto(p, "look") \/ Goto(p, "idle")
    BY ONLY <1>5 DEF EndBb
  <2>4. stage \in [Provers -> S] /\ "look" \in S /\ "idle" \in S
    OBVIOUS
  <2>1. stage' \in [Provers -> S]
    <3> HIDE DEF S
    <3> QED
      BY ONLY <2>3, <2>4, p \in Provers, GotoTypes
  <2>5. call' = [call EXCEPT ![p] = "verify"] \/ call' = call
    BY ONLY <1>5 DEF EndBb
  <2>2. call' \in [Provers -> {"prove", "verify"}]
    <3>1. call \in [Provers -> {"prove", "verify"}]
      OBVIOUS
    <3> QED
      BY ONLY <2>5, <3>1
  <2> QED
    BY <1>5, <2>1, <2>2 DEF EndBb
<1> QED
  BY <1>1, <1>2, <1>3, <1>4, <1>5 DEF OtherStep

LEMMA PinTypes == TypeOK /\ MovePin => TypeOK'
<1> SUFFICES ASSUME TypeOK, MovePin PROVE TypeOK'
  OBVIOUS
<1>1. mishaps' \subseteq mishaps \cup {"pin moved"}
  BY DEF MovePin
<1> QED
  BY <1>1 DEF TypeOK, MovePin, files

-----------------------------------------------------------------------------
(* The version of the bb that runs.                                        *)

(* Nothing is ever removed from the history. *)
LEMMA MishapsGrow == Next => mishaps \subseteq mishaps'
<1> SUFFICES ASSUME Next PROVE mishaps \subseteq mishaps'
  OBVIOUS
<1>1. CASE MovePin
  BY <1>1 DEF MovePin
<1>2. ASSUME NEW p \in Provers, CacheStep(p) PROVE mishaps' = mishaps
  BY <1>2 DEF CacheStep, LookInCache, ReadUrl, Fetch, OpenBinary, FinishCopy, Chmod
<1>3. ASSUME NEW p \in Provers, BuildStep(p) PROVE mishaps \subseteq mishaps'
  BY <1>3 DEF BuildStep, LookForCheckout, BeginClone, EndClone, Checkout, LookForBuild,
     Configure, BeginLink, EndLink
<1>4. ASSUME NEW p \in Provers, OtherStep(p) PROVE mishaps \subseteq mishaps'
  BY <1>4 DEF OtherStep, Start, Quit, Orphan, ExecBb, EndBb
<1> QED
  BY <1>1, <1>2, <1>3, <1>4, Steps

LEMMA DriftStays == mishaps \subseteq mishaps' => (Drifted => Drifted')
BY DEF Drifted

(* A prover goes where it is sent, or has been killed and is gone; the     *)
(* others stay where they are.                                             *)
LEMMA Moves ==
  ASSUME TypeOK, NEW p \in Provers, NEW t, Goto(p, t)
  PROVE  /\ stage'[p] = "idle" \/ (alive[p] /\ stage'[p] = t)
         /\ alive[p] => stage'[p] = t
         /\ \A q \in Provers \ {p} : stage'[q] = stage[q]
<1>1. DOMAIN stage = Provers /\ alive[p] \in BOOLEAN
  BY DEF TypeOK
<1>2. stage' = [stage EXCEPT ![p] = IF alive[p] THEN t ELSE "idle"]
  BY DEF Goto
<1> QED
  BY <1>1, <1>2

(* With the source build, nobody takes a step in the release cache. *)
LEMMA OnlyBuilds ==
  ASSUME SourceBuild, TypeOK, NEW p \in Provers
  PROVE  ~CacheStep(p)
BY DEF TypeOK, SourceStages, CacheStep, LookInCache, ReadUrl, Fetch, OpenBinary, FinishCopy,
   Chmod

(* Without it, nobody takes a step in the source tree. *)
LEMMA OnlyDownloads ==
  ASSUME ~SourceBuild, TypeOK, NEW p \in Provers
  PROVE  ~BuildStep(p)
BY DEF TypeOK, DownloadStages, BuildStep, LookForCheckout, BeginClone, EndClone, Checkout,
   LookForBuild, Configure, BeginLink, EndLink

(* The source build: the tree, the built bb and the running bb are of the  *)
(* pinned version while nothing has disturbed them.                        *)
LEMMA SourceKept ==
  ASSUME SourceBuild, IInv, TypeOK', Next
  PROVE  SourceInv' /\ RunsPinned' /\ Orphaned'
<1>0. /\ TypeOK
      /\ SourceInv
      /\ RunsPinned
      /\ Orphaned
      /\ SourceBuild
  BY DEF IInv
<1>t. /\ pin \in Versions /\ tree \in Files /\ built \in Files
      /\ wanted \in [Provers -> Versions]
      /\ source \in [Provers -> Refs]
      /\ ran \in [Provers -> Refs]
      /\ alive \in [Provers -> BOOLEAN]
      /\ DOMAIN stage = Provers
      /\ {Absent, Partial} \cap Refs = {} /\ Head \notin Versions
  BY <1>0, BbAssumption DEF TypeOK, Refs
<1>00. Drifted => Drifted'
  BY MishapsGrow, DriftStays
<1>1. CASE MovePin
  <2>1. Drifted'
    BY <1>1, <1>0 DEF MovePin, Drifted
  <2> QED
    BY <1>0, <1>1, <2>1 DEF MovePin, files, SourceInv, SourceFiles, SourceProver,
       OneCloner, RunsPinned, Orphaned
<1>2. ASSUME NEW p \in Provers, BuildStep(p)
      PROVE  SourceInv' /\ RunsPinned' /\ Orphaned'
  <2>1. CASE LookForCheckout(p)
    <3>1. tree \notin {Partial, Head} \/ Drifted'
      BY <2>1 DEF LookForCheckout, Drifted
    <3>2. stage[p] = "look" /\ \A q \in Provers \ {p} : stage'[q] = stage[q]
      BY <1>0, <2>1, Moves DEF LookForCheckout
    <3>3. \/ stage'[p] \in {"idle", "clone"}
          \/ stage'[p] = "build" /\ tree # Absent
      BY <1>0, <2>1, Moves DEF LookForCheckout
    <3>4. SourceFiles' /\ OneCloner'
      BY <1>0, <1>t, <1>00, <2>1, <3>1, <3>2, <3>3
      DEF LookForCheckout, SourceInv, SourceFiles, OneCloner, Refs, Files, files
    <3>5. ASSUME NEW q \in Provers PROVE SourceProver(q)'
      <4>1. CASE q = p
        BY <1>0, <1>t, <1>00, <2>1, <3>1, <3>2, <3>3, <4>1
        DEF LookForCheckout, SourceInv, SourceProver, Refs, Files, files
      <4>2. CASE q # p
        BY <1>0, <1>t, <1>00, <2>1, <3>1, <3>2, <3>3, <4>2
        DEF LookForCheckout, SourceInv, SourceProver, Refs, Files, files
      <4> QED
        BY <4>1, <4>2
    <3>6. RunsPinned' /\ Orphaned'
      BY <1>0, <1>t, <1>00, <2>1, <3>1, <3>2, <3>3
      DEF LookForCheckout, RunsPinned, Orphaned, files, ChildStages
    <3> QED
      BY <3>4, <3>5, <3>6 DEF SourceInv
  <2>2. CASE BeginClone(p)
    <3>1. stage[p] = "clone" /\ \A q \in Provers \ {p} : stage'[q] = stage[q]
      BY <1>0, <2>2, Moves DEF BeginClone
    <3>2. stage'[p] \in {"idle", "cloning"}
      BY <1>0, <2>2, Moves DEF BeginClone
    <3>3. alive[p]
      BY <1>0, <3>1 DEF Orphaned, ChildStages
    <3>5. SourceFiles'
      BY <1>0, <1>t, <1>00, BbAssumption, <2>2, <3>1, <3>2, <3>3
      DEF BeginClone, Refs, Files, files, SourceInv,
           SourceFiles, SourceProver
    <3>6. ASSUME NEW q \in Provers PROVE SourceProver(q)'
      <4>1. CASE q = p
        BY <1>0, <1>t, <1>00, BbAssumption, <2>2, <3>1, <3>2, <3>3, <4>1
        DEF BeginClone, Refs, Files, files, SourceInv,
           SourceFiles, SourceProver
      <4>2. CASE q # p
        BY <1>0, <1>t, <1>00, BbAssumption, <2>2, <3>1, <3>2, <3>3, <4>2
        DEF BeginClone, Refs, Files, files, SourceInv,
           SourceFiles, SourceProver
      <4> QED
        BY <4>1, <4>2
    <3>7. OneCloner'
      BY <1>0, <1>t, <1>00, BbAssumption, <2>2, <3>1, <3>2, <3>3
      DEF BeginClone, Refs, Files, files, SourceInv,
           SourceFiles, SourceProver, OneCloner
    <3>8. RunsPinned' /\ Orphaned'
      BY <1>0, <1>t, <1>00, BbAssumption, <2>2, <3>1, <3>2, <3>3
      DEF BeginClone, RunsPinned, Orphaned,
         ChildStages, Refs, Files, files, SourceInv,
           SourceFiles, SourceProver
    <3> QED
      BY <3>5, <3>6, <3>7, <3>8 DEF SourceInv
  <2>3. CASE EndClone(p)
    <3>1. stage[p] = "cloning" /\ \A q \in Provers \ {p} : stage'[q] = stage[q]
      BY <1>0, <2>3, Moves DEF EndClone
    <3>2. stage'[p] = "idle" \/ (alive[p] /\ stage'[p] = "checkout")
      BY <1>0, <2>3, Moves DEF EndClone
    <3>3. stage'[p] = "checkout" => tree' = Head
      BY <1>0, <2>3, Moves DEF EndClone
    <3>5. SourceFiles'
      BY <1>0, <1>t, <1>00, BbAssumption, <2>3, <3>1, <3>2, <3>3
      DEF EndClone, Refs, Files, files, SourceInv,
           SourceFiles, SourceProver
    <3>6. ASSUME NEW q \in Provers PROVE SourceProver(q)'
      <4>1. CASE q = p
        BY <1>0, <1>t, <1>00, BbAssumption, <2>3, <3>1, <3>2, <3>3, <4>1
        DEF EndClone, Refs, Files, files, SourceInv,
           SourceFiles, SourceProver
      <4>2. CASE q # p
        BY <1>0, <1>t, <1>00, BbAssumption, <2>3, <3>1, <3>2, <3>3, <4>2
        DEF EndClone, Refs, Files, files, SourceInv,
           SourceFiles, SourceProver, OneCloner
      <4> QED
        BY <4>1, <4>2
    <3>7. OneCloner'
      BY <1>0, <1>t, <1>00, BbAssumption, <2>3, <3>1, <3>2, <3>3
      DEF EndClone, Refs, Files, files, SourceInv,
           SourceFiles, SourceProver, OneCloner
    <3>8. RunsPinned' /\ Orphaned'
      BY <1>0, <1>t, <1>00, BbAssumption, <2>3, <3>1, <3>2, <3>3
      DEF EndClone, RunsPinned, Orphaned,
         ChildStages, Refs, Files, files, SourceInv,
           SourceFiles, SourceProver
    <3> QED
      BY <3>5, <3>6, <3>7, <3>8 DEF SourceInv
  <2>4. CASE Checkout(p)
    <3>1. stage[p] = "checkout" /\ \A q \in Provers \ {p} : stage'[q] = stage[q]
      BY <1>0, <2>4, Moves DEF Checkout
    <3>2. stage'[p] = "idle" \/ (alive[p] /\ stage'[p] = "build")
      BY <1>0, <2>4, Moves DEF Checkout
    <3>5. SourceFiles'
      BY <1>0, <1>t, <1>00, BbAssumption, <2>4, <3>1, <3>2
      DEF Checkout, Refs, Files, files, SourceInv,
           SourceFiles, SourceProver
    <3>6. ASSUME NEW q \in Provers PROVE SourceProver(q)'
      <4>1. CASE q = p
        BY <1>0, <1>t, <1>00, BbAssumption, <2>4, <3>1, <3>2, <4>1
        DEF Checkout, Refs, Files, files, SourceInv,
           SourceFiles, SourceProver
      <4>2. CASE q # p
        BY <1>0, <1>t, <1>00, BbAssumption, <2>4, <3>1, <3>2, <4>2
        DEF Checkout, Refs, Files, files, SourceInv,
           SourceFiles, SourceProver
      <4> QED
        BY <4>1, <4>2
    <3>7. OneCloner'
      BY <1>0, <1>t, <1>00, BbAssumption, <2>4, <3>1, <3>2
      DEF Checkout, Refs, Files, files, SourceInv,
           SourceFiles, SourceProver, OneCloner
    <3>8. RunsPinned' /\ Orphaned'
      BY <1>0, <1>t, <1>00, BbAssumption, <2>4, <3>1, <3>2
      DEF Checkout, RunsPinned, Orphaned,
         ChildStages, Refs, Files, files, SourceInv,
           SourceFiles, SourceProver
    <3> QED
      BY <3>5, <3>6, <3>7, <3>8 DEF SourceInv
  <2>5. CASE LookForBuild(p)
    <3>1. stage[p] = "build" /\ \A q \in Provers \ {p} : stage'[q] = stage[q]
      BY <1>0, <2>5, Moves DEF LookForBuild
    <3>2. stage'[p] \in {"idle", "exec", "configure"}
      BY <1>0, <2>5, Moves DEF LookForBuild
    <3> QED
      BY <1>0, <1>t, <1>00, <2>5, <3>1, <3>2
      DEF LookForBuild, SourceInv, SourceFiles, SourceProver, OneCloner,
         RunsPinned, Orphaned, Refs, Files, files, ChildStages
  <2>6. CASE Configure(p)
    <3>1. stage[p] = "configure" /\ \A q \in Provers \ {p} : stage'[q] = stage[q]
      BY <1>0, <2>6, Moves DEF Configure
    <3>2. stage'[p] \in {"idle", "compile"}
      BY <1>0, <2>6, Moves DEF Configure
    <3> QED
      BY <1>0, <1>t, <1>00, <2>6, <3>1, <3>2
      DEF Configure, SourceInv, SourceFiles, SourceProver, OneCloner,
         RunsPinned, Orphaned, Refs, Files, files, ChildStages
  <2>7. CASE BeginLink(p)
    BY <1>0, <1>t, <1>00, BbAssumption, <2>7 DEF BeginLink, SourceInv,
         SourceFiles, SourceProver, OneCloner, RunsPinned, Orphaned, Refs, Files, files,
         ChildStages
  <2>8. CASE EndLink(p)
    <3>1. stage[p] = "linking" /\ \A q \in Provers \ {p} : stage'[q] = stage[q]
      BY <1>0, <2>8, Moves DEF EndLink
    <3>2. stage'[p] = "idle" \/ (alive[p] /\ stage'[p] = "exec")
      BY <1>0, <2>8, Moves DEF EndLink
    <3>3. tree = pin \/ tree \notin Refs \/ Drifted
      BY <1>0, <1>t, <3>1 DEF SourceInv, SourceFiles, SourceProver, Refs
    <3>4. built' \in Refs => built' = pin \/ Drifted
      BY <1>0, <1>t, BbAssumption, <2>8, <3>1, <3>3
      DEF EndLink, SourceInv, SourceFiles, SourceProver, Refs
    <3>5. SourceFiles'
      BY <1>0, <1>t, <1>00, BbAssumption, <2>8, <3>1, <3>2, <3>4
      DEF EndLink, Refs, Files, files, SourceInv,
           SourceFiles, SourceProver
    <3>6. ASSUME NEW q \in Provers PROVE SourceProver(q)'
      <4>1. CASE q = p
        BY <1>0, <1>t, <1>00, BbAssumption, <2>8, <3>1, <3>2, <3>4, <4>1
        DEF EndLink, Refs, Files, files, SourceInv,
           SourceFiles, SourceProver
      <4>2. CASE q # p
        BY <1>0, <1>t, <1>00, BbAssumption, <2>8, <3>1, <3>2, <3>4, <4>2
        DEF EndLink, Refs, Files, files, SourceInv,
           SourceFiles, SourceProver
      <4> QED
        BY <4>1, <4>2
    <3>7. OneCloner'
      BY <1>0, <1>t, <1>00, BbAssumption, <2>8, <3>1, <3>2, <3>4
      DEF EndLink, Refs, Files, files, SourceInv,
           SourceFiles, SourceProver, OneCloner
    <3>8. RunsPinned' /\ Orphaned'
      BY <1>0, <1>t, <1>00, BbAssumption, <2>8, <3>1, <3>2, <3>4
      DEF EndLink, RunsPinned, Orphaned,
         ChildStages, Refs, Files, files, SourceInv,
           SourceFiles, SourceProver
    <3> QED
      BY <3>5, <3>6, <3>7, <3>8 DEF SourceInv
  <2> QED
    BY <1>2, <2>1, <2>2, <2>3, <2>4, <2>5, <2>6, <2>7, <2>8 DEF BuildStep
<1>3. ASSUME NEW p \in Provers, OtherStep(p)
      PROVE  SourceInv' /\ RunsPinned' /\ Orphaned'
  <2>1. CASE Start(p)
    BY <1>0, <1>t, <1>00, BbAssumption, <2>1 DEF Start, SourceInv,
         SourceFiles, SourceProver, OneCloner, RunsPinned, Orphaned, Refs, Files, files,
         ChildStages
  <2>2. CASE Quit(p)
    BY <1>0, <1>t, <1>00, BbAssumption, <2>2 DEF Quit, SourceInv,
         SourceFiles, SourceProver, OneCloner, RunsPinned, Orphaned, Refs, Files, files,
         ChildStages
  <2>3. CASE Orphan(p)
    <3>1. stage[p] = "cloning" => Drifted'
      BY <2>3 DEF Orphan, Drifted
    <3> QED
      BY <1>0, <1>t, <1>00, <2>3, <3>1
      DEF Orphan, SourceInv, SourceFiles, SourceProver, OneCloner,
         RunsPinned, Orphaned, Refs, Files, files, ChildStages
  <2>4. CASE ExecBb(p)
    <3>1. stage[p] = "exec" /\ \A q \in Provers \ {p} : stage'[q] = stage[q]
      BY <1>0, <2>4, Moves DEF ExecBb
    <3>2. stage'[p] \in {"idle", "running"}
      BY <1>0, <2>4, Moves DEF ExecBb
    <3>3. built \in Refs /\ ran' = [ran EXCEPT ![p] = built]
      BY <2>4 DEF ExecBb
    <3>4. UNCHANGED <<pin, files, alive, call, wanted, source, mishaps>>
      BY <2>4 DEF ExecBb
    <3> QED
      BY <1>0, <1>t, <1>00, <3>1, <3>2, <3>3, <3>4
      DEF SourceInv, SourceFiles, SourceProver, OneCloner,
         RunsPinned, Orphaned, Refs, Files, files, ChildStages
  <2>5. CASE EndBb(p)
    <3>1. stage[p] = "running" /\ \A q \in Provers \ {p} : stage'[q] = stage[q]
      BY <1>0, <2>5, Moves DEF EndBb
    <3>2. stage'[p] = "idle" \/ (alive[p] /\ stage'[p] = "look")
      BY <1>0, <2>5, Moves DEF EndBb
    <3>3. UNCHANGED <<pin, files, alive, wanted, source, ran, mishaps>>
      BY <2>5 DEF EndBb
    <3> QED
      BY <1>0, <1>t, <1>00, <3>1, <3>2, <3>3
      DEF SourceInv, SourceFiles, SourceProver, OneCloner,
         RunsPinned, Orphaned, Refs, Files, files, ChildStages
  <2> QED
    BY <1>3, <2>1, <2>2, <2>3, <2>4, <2>5 DEF OtherStep
<1> QED
  BY <1>0, <1>1, <1>2, <1>3, Steps, OnlyBuilds

(* A directory that a step leaves alone keeps its invariant, if its writers *)
(* stay or their loss is recorded.                                         *)
LEMMA DirKept ==
  ASSUME NEW s \in Versions, CacheDir(s), cache'[s] = cache[s],
         mishaps \subseteq mishaps', Drifted => Drifted',
         \/ "copy cut short" \in mishaps'
         \/ \A q \in Provers : stage[q] \in {"copying", "chmod"} /\ wanted[q] = s =>
                               stage'[q] = stage[q] /\ wanted'[q] = s
  PROVE  CacheDir(s)'
BY DEF CacheDir

(* So does a prover that stays where it is. *)
LEMMA ProverKept ==
  ASSUME NEW q \in Provers, Downloader(q),
         stage'[q] = stage[q], wanted'[q] = wanted[q], source'[q] = source[q],
         pin' = pin, Drifted => Drifted',
         cache[wanted[q]].data # Absent => cache'[wanted[q]].data # Absent
  PROVE  Downloader(q)'
BY DEF Downloader

(* The release cache: a directory holds the version it is named after, and *)
(* a file that cannot be run has a writer, or lost one.                    *)
LEMMA DownloadKept ==
  ASSUME ~SourceBuild, IInv, TypeOK', Next
  PROVE  DownloadInv' /\ RunsPinned' /\ Orphaned'
<1>0. /\ TypeOK
      /\ DownloadInv
      /\ RunsPinned
      /\ Orphaned
      /\ ~SourceBuild
  BY DEF IInv
<1>t. /\ pin \in Versions
      /\ wanted \in [Provers -> Versions]
      /\ source \in [Provers -> Refs]
      /\ ran \in [Provers -> Refs]
      /\ alive \in [Provers -> BOOLEAN]
      /\ DOMAIN stage = Provers
      /\ cache \in [Versions -> CacheFile]
      /\ {Absent, Partial} \cap Refs = {} /\ Head \notin Versions /\ Absent # Partial
  BY <1>0, BbAssumption DEF TypeOK, Refs, CacheFile
<1>m. mishaps \subseteq mishaps'
  BY MishapsGrow
<1>00. Drifted => Drifted'
  BY MishapsGrow, DriftStays
<1>1. CASE MovePin
  <2>1. Drifted' \/ \A p \in Provers : stage[p] # "url"
    BY <1>1, <1>0 DEF MovePin, Drifted
  <2> QED
    BY <1>0, <1>00, <1>m, <1>1, <2>1 DEF MovePin, files, DownloadInv, CacheDir, Downloader,
       Writing, Fetching, RunsPinned, Orphaned
<1>2. ASSUME NEW p \in Provers, CacheStep(p)
      PROVE  DownloadInv' /\ RunsPinned' /\ Orphaned'
  <2>1. CASE LookInCache(p)
    <3>1. stage[p] = "look" /\ \A q \in Provers \ {p} : stage'[q] = stage[q]
      BY <1>0, <2>1, Moves DEF LookInCache
    <3>2. alive[p]
      BY <1>0, <3>1 DEF Orphaned
    <3>3. stage'[p] \in {"exec", "url"}
      BY <1>0, <2>1, <3>2, Moves DEF LookInCache
    <3>5. ASSUME NEW s \in Versions PROVE CacheDir(s)'
      <4>1. \A q \in Provers : stage[q] \in {"copying", "chmod"} =>
                              stage'[q] = stage[q] /\ wanted'[q] = wanted[q]
        BY <1>t, <2>1, <3>1 DEF LookInCache
      <4> QED
        BY <1>0, <1>00, <1>m, <2>1, <4>1, DirKept DEF LookInCache, files, DownloadInv
    <3>6. ASSUME NEW q \in Provers PROVE Downloader(q)'
      <4>1. CASE q = p
        <5>1. wanted'[p] = pin /\ pin' = pin /\ cache' = cache
          BY <1>t, <2>1 DEF LookInCache, files
        <5>2. stage'[p] = "exec" => cache[pin].data # Absent
          BY <1>0, <2>1, <3>2, Moves DEF LookInCache, CacheSlot
        <5> QED
          BY <3>3, <4>1, <5>1, <5>2 DEF Downloader
      <4>2. CASE q # p
        BY <1>0, <1>t, <1>m, <1>00, <2>1, <3>1, <4>2, ProverKept
        DEF LookInCache, files, DownloadInv
      <4> QED
        BY <4>1, <4>2
    <3>7. RunsPinned' /\ Orphaned'
      BY <1>0, <1>t, <1>m, <1>00, <2>1, <3>1, <3>3
      DEF LookInCache, files, RunsPinned, Orphaned
    <3> QED
      BY <3>5, <3>6, <3>7 DEF DownloadInv
  <2>2. CASE ReadUrl(p)
    <3>1. stage[p] = "url" /\ \A q \in Provers \ {p} : stage'[q] = stage[q]
      BY <1>0, <2>2, Moves DEF ReadUrl
    <3>2. alive[p]
      BY <1>0, <3>1 DEF Orphaned
    <3>3. stage'[p] \in {"fetch"}
      BY <1>0, <2>2, <3>2, Moves DEF ReadUrl
    <3>5. ASSUME NEW s \in Versions PROVE CacheDir(s)'
      <4>1. \A q \in Provers : stage[q] \in {"copying", "chmod"} =>
                              stage'[q] = stage[q] /\ wanted'[q] = wanted[q]
        BY <1>t, <2>2, <3>1 DEF ReadUrl
      <4> QED
        BY <1>0, <1>00, <1>m, <2>2, <4>1, DirKept DEF ReadUrl, files, DownloadInv
    <3>6. ASSUME NEW q \in Provers PROVE Downloader(q)'
      <4>1. CASE q = p
        BY <1>0, <1>t, <1>m, <1>00, <2>2, <3>1, <3>3, <4>1
        DEF ReadUrl, files, DownloadInv, CacheSlot, Downloader, Refs
      <4>2. CASE q # p
        BY <1>0, <1>t, <1>m, <1>00, <2>2, <3>1, <4>2, ProverKept
        DEF ReadUrl, files, DownloadInv
      <4> QED
        BY <4>1, <4>2
    <3>7. RunsPinned' /\ Orphaned'
      BY <1>0, <1>t, <1>m, <1>00, <2>2, <3>1, <3>3 DEF ReadUrl, files, RunsPinned, Orphaned
    <3> QED
      BY <3>5, <3>6, <3>7 DEF DownloadInv
  <2>3. CASE Fetch(p)
    <3>1. stage[p] = "fetch" /\ \A q \in Provers \ {p} : stage'[q] = stage[q]
      BY <1>0, <2>3, Moves DEF Fetch
    <3>2. alive[p]
      BY <1>0, <3>1 DEF Orphaned
    <3>3. stage'[p] \in {"open"}
      BY <1>0, <2>3, <3>2, Moves DEF Fetch
    <3>5. ASSUME NEW s \in Versions PROVE CacheDir(s)'
      <4>1. \A q \in Provers : stage[q] \in {"copying", "chmod"} =>
                              stage'[q] = stage[q] /\ wanted'[q] = wanted[q]
        BY <1>t, <2>3, <3>1 DEF Fetch
      <4> QED
        BY <1>0, <1>00, <1>m, <2>3, <4>1, DirKept DEF Fetch, files, DownloadInv
    <3>6. ASSUME NEW q \in Provers PROVE Downloader(q)'
      <4>1. CASE q = p
        BY <1>0, <1>t, <1>m, <1>00, <2>3, <3>1, <3>3, <4>1
        DEF Fetch, files, DownloadInv, CacheSlot, Downloader, Refs
      <4>2. CASE q # p
        BY <1>0, <1>t, <1>m, <1>00, <2>3, <3>1, <4>2, ProverKept
        DEF Fetch, files, DownloadInv
      <4> QED
        BY <4>1, <4>2
    <3>7. RunsPinned' /\ Orphaned'
      BY <1>0, <1>t, <1>m, <1>00, <2>3, <3>1, <3>3 DEF Fetch, files, RunsPinned, Orphaned
    <3> QED
      BY <3>5, <3>6, <3>7 DEF DownloadInv
  <2>4. CASE OpenBinary(p)
    <3>1. stage[p] = "open" /\ \A q \in Provers \ {p} : stage'[q] = stage[q]
      BY <1>0, <2>4, Moves DEF OpenBinary
    <3>2. alive[p]
      BY <1>0, <3>1 DEF Orphaned
    <3>3. stage'[p] \in {"copying"}
      BY <1>0, <2>4, <3>2, Moves DEF OpenBinary
    <3>4. /\ \A s \in Versions \ {wanted[p]} : cache'[s] = cache[s]
          /\ cache'[wanted[p]].data = Partial
          /\ cache'[wanted[p]].last = {p}
      BY <1>0, <1>t, <2>4, <3>1
      DEF OpenBinary, CacheSlot, CacheFile, DownloadInv, Downloader
    <3>5. ASSUME NEW s \in Versions PROVE CacheDir(s)'
      <4>1. CASE s = wanted[p]
        BY <1>0, <1>t, <1>m, <1>00, <2>4, <3>1, <3>3, <3>4, <4>1
        DEF OpenBinary, DownloadInv, CacheDir
      <4>2. CASE s # wanted[p]
        <5>1. \A q \in Provers : stage[q] \in {"copying", "chmod"} /\ wanted[q] = s =>
                                stage'[q] = stage[q] /\ wanted'[q] = s
          BY <2>4, <3>1, <4>2 DEF OpenBinary
        <5> QED
          BY <1>0, <1>t, <1>m, <1>00, <3>4, <4>2, <5>1, DirKept DEF DownloadInv
      <4> QED
        BY <4>1, <4>2
    <3>6. ASSUME NEW q \in Provers PROVE Downloader(q)'
      <4>1. CASE q = p
        BY <1>0, <1>t, <1>m, <1>00, <2>4, <3>1, <3>3, <3>4, <4>1
        DEF OpenBinary, DownloadInv, Downloader, Refs
      <4>2. CASE q # p
        BY <1>0, <1>t, <1>m, <1>00, <2>4, <3>1, <3>4, <4>2, ProverKept
        DEF OpenBinary, DownloadInv
      <4> QED
        BY <4>1, <4>2
    <3>7. RunsPinned' /\ Orphaned'
      BY <1>0, <1>t, <1>m, <1>00, <2>4, <3>1, <3>3
      DEF OpenBinary, files, RunsPinned, Orphaned
    <3> QED
      BY <3>5, <3>6, <3>7 DEF DownloadInv
  <2>5. CASE FinishCopy(p)
    <3>1. stage[p] = "copying" /\ \A q \in Provers \ {p} : stage'[q] = stage[q]
      BY <1>0, <2>5, Moves DEF FinishCopy
    <3>2. alive[p]
      BY <1>0, <3>1 DEF Orphaned
    <3>3. stage'[p] \in {"chmod"}
      BY <1>0, <2>5, <3>2, Moves DEF FinishCopy
    <3>4. /\ \A s \in Versions \ {wanted[p]} : cache'[s] = cache[s]
          /\ cache'[wanted[p]].last = cache[wanted[p]].last
          /\ \/ cache'[wanted[p]].data = source[p]
             \/ p \notin cache[wanted[p]].last /\ cache'[wanted[p]] = cache[wanted[p]]
          /\ source[p] \in Versions /\ (source[p] = wanted[p] \/ Drifted)
      BY SMTT(20), <1>0, <1>t, <2>5, <3>1
      DEF FinishCopy, CacheSlot, CacheFile, DownloadInv, Downloader
    <3>5. ASSUME NEW s \in Versions PROVE CacheDir(s)'
      <4>1. CASE s = wanted[p]
        <5>1. CacheDir(s) /\ wanted' = wanted /\ stage'[p] = "chmod"
          BY <1>0, <2>5, <3>3 DEF FinishCopy, DownloadInv
        <5>2. CASE cache'[s].data = source[p]
          BY <1>t, <1>00, <3>4, <4>1, <5>1, <5>2 DEF CacheDir, Refs
        <5>3. CASE p \notin cache[s].last /\ cache'[s] = cache[s]
          BY <1>m, <1>00, <3>1, <4>1, <5>1, <5>3 DEF CacheDir
        <5> QED
          BY <3>4, <4>1, <5>2, <5>3
      <4>2. CASE s # wanted[p]
        <5>1. \A q \in Provers : stage[q] \in {"copying", "chmod"} /\ wanted[q] = s =>
                                stage'[q] = stage[q] /\ wanted'[q] = s
          BY <2>5, <3>1, <4>2 DEF FinishCopy
        <5> QED
          BY <1>0, <1>t, <1>m, <1>00, <3>4, <4>2, <5>1, DirKept DEF DownloadInv
      <4> QED
        BY <4>1, <4>2
    <3>6. ASSUME NEW q \in Provers PROVE Downloader(q)'
      <4>1. CASE q = p
        BY <1>0, <1>t, <1>m, <1>00, <2>5, <3>1, <3>3, <3>4, <4>1
        DEF FinishCopy, DownloadInv, Downloader, Refs
      <4>2. CASE q # p
        BY <1>0, <1>t, <1>m, <1>00, <2>5, <3>1, <3>4, <4>2, ProverKept
        DEF FinishCopy, DownloadInv
      <4> QED
        BY <4>1, <4>2
    <3>7. RunsPinned' /\ Orphaned'
      BY <1>0, <1>t, <1>m, <1>00, <2>5, <3>1, <3>3
      DEF FinishCopy, files, RunsPinned, Orphaned
    <3> QED
      BY <3>5, <3>6, <3>7 DEF DownloadInv
  <2>6. CASE Chmod(p)
    <3>1. stage[p] = "chmod" /\ \A q \in Provers \ {p} : stage'[q] = stage[q]
      BY <1>0, <2>6, Moves DEF Chmod
    <3>2. alive[p]
      BY <1>0, <3>1 DEF Orphaned
    <3>3. stage'[p] \in {"exec"}
      BY <1>0, <2>6, <3>2, Moves DEF Chmod
    <3>4. /\ \A s \in Versions \ {wanted[p]} : cache'[s] = cache[s]
          /\ cache'[wanted[p]].last = cache[wanted[p]].last
          /\ cache'[wanted[p]].data = cache[wanted[p]].data
          /\ cache'[wanted[p]].exec = TRUE
      BY <1>0, <1>t, <2>6, <3>1 DEF Chmod, CacheSlot, CacheFile, DownloadInv, Downloader
    <3>5. ASSUME NEW s \in Versions PROVE CacheDir(s)'
      <4>1. CASE s = wanted[p]
        <5>1. CacheDir(s) /\ wanted' = wanted
          BY <1>0, <2>6 DEF Chmod, DownloadInv
        <5>2. \A q \in Provers : stage[q] = "copying" => stage'[q] = "copying"
          BY <3>1
        <5> QED
          BY <1>m, <1>00, <3>4, <4>1, <5>1, <5>2 DEF CacheDir
      <4>2. CASE s # wanted[p]
        <5>1. \A q \in Provers : stage[q] \in {"copying", "chmod"} /\ wanted[q] = s =>
                                stage'[q] = stage[q] /\ wanted'[q] = s
          BY <2>6, <3>1, <4>2 DEF Chmod
        <5> QED
          BY <1>0, <1>t, <1>m, <1>00, <3>4, <4>2, <5>1, DirKept DEF DownloadInv
      <4> QED
        BY <4>1, <4>2
    <3>6. ASSUME NEW q \in Provers PROVE Downloader(q)'
      <4>1. CASE q = p
        BY <1>0, <1>t, <1>m, <1>00, <2>6, <3>1, <3>3, <3>4, <4>1
        DEF Chmod, DownloadInv, Downloader, Refs
      <4>2. CASE q # p
        BY <1>0, <1>t, <1>m, <1>00, <2>6, <3>1, <3>4, <4>2, ProverKept
        DEF Chmod, DownloadInv
      <4> QED
        BY <4>1, <4>2
    <3>7. RunsPinned' /\ Orphaned'
      BY <1>0, <1>t, <1>m, <1>00, <2>6, <3>1, <3>3 DEF Chmod, files, RunsPinned, Orphaned
    <3> QED
      BY <3>5, <3>6, <3>7 DEF DownloadInv
  <2> QED
    BY <1>2, <2>1, <2>2, <2>3, <2>4, <2>5, <2>6 DEF CacheStep
<1>3. ASSUME NEW p \in Provers, OtherStep(p)
      PROVE  DownloadInv' /\ RunsPinned' /\ Orphaned'
  <2>1. CASE Start(p)
    <3>1. stage[p] = "idle" /\ stage'[p] = "look"
          /\ \A q \in Provers \ {p} : stage'[q] = stage[q]
      BY <1>t, <2>1 DEF Start
    <3>2. UNCHANGED <<pin, files, wanted, source, ran, mishaps>>
      BY <2>1 DEF Start
    <3>3. DownloadInv'
      <4>1. ASSUME NEW s \in Versions PROVE CacheDir(s)'
        BY <1>0, <1>00, <1>m, <3>1, <3>2, DirKept DEF files, DownloadInv
      <4>2. ASSUME NEW q \in Provers PROVE Downloader(q)'
        BY <1>0, <1>00, <3>1, <3>2, ProverKept DEF files, DownloadInv, Downloader
      <4> QED
        BY <4>1, <4>2 DEF DownloadInv
    <3>4. RunsPinned' /\ Orphaned'
      BY <1>0, <1>t, <1>00, <2>1, <3>1, <3>2 DEF Start, RunsPinned, Orphaned
    <3> QED
      BY <3>3, <3>4
  <2>2. CASE Quit(p)
    <3>1. stage'[p] = "idle" /\ \A q \in Provers \ {p} : stage'[q] = stage[q]
      BY <1>t, <2>2 DEF Quit
    <3>2. stage[p] \in {"copying", "chmod"} => "copy cut short" \in mishaps'
      BY <2>2 DEF Quit
    <3>3. UNCHANGED <<pin, files, alive, wanted, source, ran>>
      BY <2>2 DEF Quit
    <3>4. DownloadInv'
      <4>1. ASSUME NEW s \in Versions PROVE CacheDir(s)'
        BY <1>0, <1>00, <1>m, <3>1, <3>2, <3>3, DirKept DEF files, DownloadInv
      <4>2. ASSUME NEW q \in Provers PROVE Downloader(q)'
        BY <1>0, <1>00, <3>1, <3>2, <3>3, ProverKept DEF files, DownloadInv, Downloader
      <4> QED
        BY <4>1, <4>2 DEF DownloadInv
    <3>5. RunsPinned' /\ Orphaned'
      BY <1>0, <1>00, <3>1, <3>3 DEF RunsPinned, Orphaned
    <3> QED
      BY <3>4, <3>5
  <2>3. CASE Orphan(p)
    <3>1. stage[p] = "running"
      BY <1>0, <2>3 DEF Orphan, ChildStages, TypeOK, DownloadStages
    <3>2. UNCHANGED <<pin, files, stage, wanted, source, ran>>
      BY <2>3 DEF Orphan
    <3>3. DownloadInv'
      <4>1. ASSUME NEW s \in Versions PROVE CacheDir(s)'
        BY <1>0, <1>00, <1>m, <3>1, <3>2, DirKept DEF files, DownloadInv
      <4>2. ASSUME NEW q \in Provers PROVE Downloader(q)'
        BY <1>0, <1>00, <3>1, <3>2, ProverKept DEF files, DownloadInv, Downloader
      <4> QED
        BY <4>1, <4>2 DEF DownloadInv
    <3>4. RunsPinned' /\ Orphaned'
      BY <1>0, <1>t, <1>00, <2>3, <3>1, <3>2 DEF Orphan, RunsPinned, Orphaned
    <3> QED
      BY <3>3, <3>4
  <2>4. CASE ExecBb(p)
    <3>1. stage[p] = "exec" /\ \A q \in Provers \ {p} : stage'[q] = stage[q]
      BY <1>0, <2>4, Moves DEF ExecBb
    <3>2. stage'[p] \in {"idle", "running"}
      BY <1>0, <2>4, Moves DEF ExecBb
    <3>3. /\ Runnable(wanted[p])
          /\ ran' = [ran EXCEPT ![p] = cache[wanted[p]].data]
      BY <1>0, <2>4 DEF ExecBb, CacheSlot
    <3>4. UNCHANGED <<pin, files, alive, call, wanted, source, mishaps>>
      BY <2>4 DEF ExecBb
    <3>5. DownloadInv'
      <4>1. ASSUME NEW s \in Versions PROVE CacheDir(s)'
        BY <1>0, <1>00, <1>m, <3>1, <3>2, <3>4, DirKept DEF files, DownloadInv
      <4>2. ASSUME NEW q \in Provers PROVE Downloader(q)'
        BY <1>0, <1>00, <3>1, <3>2, <3>4, ProverKept DEF files, DownloadInv, Downloader
      <4> QED
        BY <4>1, <4>2 DEF DownloadInv
    <3>6. RunsPinned'
      <4>1. wanted[p] \in Versions /\ (cache[wanted[p]].data = wanted[p] \/ Drifted)
        BY <1>0, <1>t, <3>3 DEF DownloadInv, CacheDir, Runnable
      <4>2. ran'[p] = wanted[p] \/ Drifted
        BY <1>t, <3>3, <4>1
      <4>3. \A q \in Provers \ {p} : ran'[q] = ran[q]
        BY <1>t, <3>3
      <4> QED
        BY <1>0, <1>00, <3>1, <3>4, <4>2, <4>3 DEF RunsPinned
    <3>7. Orphaned'
      BY <1>0, <3>1, <3>2, <3>4 DEF Orphaned
    <3> QED
      BY <3>5, <3>6, <3>7
  <2>5. CASE EndBb(p)
    <3>1. stage[p] = "running" /\ \A q \in Provers \ {p} : stage'[q] = stage[q]
      BY <1>0, <2>5, Moves DEF EndBb
    <3>2. stage'[p] = "idle" \/ (alive[p] /\ stage'[p] = "look")
      BY <1>0, <2>5, Moves DEF EndBb
    <3>3. UNCHANGED <<pin, files, alive, wanted, source, ran, mishaps>>
      BY <2>5 DEF EndBb
    <3>4. DownloadInv'
      <4>1. ASSUME NEW s \in Versions PROVE CacheDir(s)'
        BY <1>0, <1>00, <1>m, <3>1, <3>2, <3>3, DirKept DEF files, DownloadInv
      <4>2. ASSUME NEW q \in Provers PROVE Downloader(q)'
        BY <1>0, <1>00, <3>1, <3>2, <3>3, ProverKept DEF files, DownloadInv, Downloader
      <4> QED
        BY <4>1, <4>2 DEF DownloadInv
    <3>5. RunsPinned' /\ Orphaned'
      BY <1>0, <1>00, <3>1, <3>2, <3>3 DEF RunsPinned, Orphaned
    <3> QED
      BY <3>4, <3>5
  <2> QED
    BY <1>3, <2>1, <2>2, <2>3, <2>4, <2>5 DEF OtherStep
<1> QED
  BY <1>0, <1>1, <1>2, <1>3, Steps, OnlyDownloads

-----------------------------------------------------------------------------
(* Theorems.                                                               *)

(* IInv holds at the start. *)
LEMMA InitInv == Init => IInv
<1> SUFFICES ASSUME Init PROVE IInv
  OBVIOUS
<1>1. TypeOK
  BY InitTypes
<1>2. RunsPinned /\ Orphaned
  BY DEF Init, RunsPinned, Orphaned
<1>3. SourceInv
  BY <1>1, BbAssumption DEF Init, SourceInv, SourceFiles, SourceProver, OneCloner, Refs
<1>4. DownloadInv
  BY <1>1, BbAssumption DEF Init, DownloadInv, CacheDir, Downloader, Refs
<1> QED
  BY <1>1, <1>2, <1>3, <1>4 DEF IInv

(* Every step keeps it. *)
LEMMA StepInv == IInv /\ [Next]_vars => IInv'
<1> SUFFICES ASSUME IInv, [Next]_vars PROVE IInv'
  OBVIOUS
<1>1. CASE Next
  <2>1. TypeOK'
    BY <1>1, Steps, CacheTypes, BuildTypes, OtherTypes, PinTypes DEF IInv
  <2>2. RunsPinned' /\ Orphaned' /\ IF SourceBuild THEN SourceInv' ELSE DownloadInv'
    BY <1>1, <2>1, SourceKept, DownloadKept
  <2> QED
    BY <2>1, <2>2 DEF IInv
<1>2. CASE UNCHANGED vars
  <2>1. Drifted' <=> Drifted
    BY <1>2 DEF Drifted, vars
  <2>2. TypeOK' /\ Orphaned'
    BY <1>2 DEF IInv, TypeOK, Orphaned, vars, files
  <2>3. RunsPinned'
    BY <1>2, <2>1 DEF IInv, RunsPinned, vars, files
  <2>4. SourceInv => SourceInv'
    BY <1>2, <2>1 DEF SourceInv, SourceFiles, SourceProver, OneCloner, vars, files
  <2>5. DownloadInv => DownloadInv'
    BY <1>2, <2>1 DEF DownloadInv, CacheDir, Downloader, vars, files
  <2> QED
    BY <2>2, <2>3, <2>4, <2>5 DEF IInv
<1> QED
  BY <1>1, <1>2

LEMMA AlwaysInv == Spec => []IInv
BY InitInv, StepInv, PTL DEF Spec

(* The types hold for ever, and no prover leaves the way it was sent: the  *)
(* release cache without VOCDONI_ALLOW_BB_SOURCE_BUILD, the build with it. *)
THEOREM TypeCorrect == Spec => []TypeOK
<1>1. IInv => TypeOK
  BY DEF IInv
<1> QED
  BY <1>1, AlwaysInv, PTL

(* However many provers fetch, copy, clone and build at once, fail or are  *)
(* killed, a bb that runs is of the version its prover read, unless the    *)
(* matrix changed under it or a checkout failed or was overtaken.          *)
THEOREM Pinned == Spec => []RunsPinned
<1>1. IInv => RunsPinned
  BY DEF IInv
<1> QED
  BY <1>1, AlwaysInv, PTL

(* A file of the release cache that cannot be executed is being written,   *)
(* or a copy was cut short before.                                         *)
THEOREM Damage == Spec => []DamageExplained
<1>1. IInv => DamageExplained
  <2> SUFFICES ASSUME IInv, NEW s \in Versions,
                      \/ cache[s].data # Absent
                      \/ \E p \in Provers : /\ ~SourceBuild
                                           /\ stage[p] = "exec"
                                           /\ CacheSlot(wanted[p]) = s
               PROVE  \/ Runnable(s)
                      \/ \E p \in Fetching(s) : stage[p] \in {"copying", "chmod"}
                      \/ "copy cut short" \in mishaps
    BY DEF DamageExplained
  <2>1. ~SourceBuild
    BY DEF IInv, SourceInv, SourceFiles
  <2>2. CacheDir(s) /\ cache[s].data # Absent
    BY <2>1 DEF IInv, DownloadInv, Downloader, CacheSlot
  <2>3. cache[s].data \in Refs \cup {Partial}
    BY <2>2 DEF IInv, TypeOK, Refs
  <2>4. \A q \in Provers : stage[q] \in {"copying", "chmod"} /\ wanted[q] = s => q \in Fetching(s)
    BY DEF Fetching, CacheSlot
  <2> QED
    BY <2>2, <2>3, <2>4 DEF CacheDir, Runnable
<1> QED
  BY <1>1, AlwaysInv, PTL

(* The stages in which a prover is on its way to write a release.          *)
FetchStages == {"url", "fetch", "open", "copying", "chmod"}

(* A step in the release cache: a prover that finds the file does not set  *)
(* out to write it, and of those that did, only one that opens it damages  *)
(* it.                                                                     *)
LEMMA CacheKeeps ==
  ASSUME IInv, NEW p \in Provers, CacheStep(p), NEW s \in Versions
  PROVE  KeepsBb(s)
<1> SUFFICES ASSUME Runnable(s)
             PROVE  /\ \A q \in Provers : stage'[q] \in FetchStages /\ wanted'[q] = s
                          => stage[q] \in FetchStages /\ wanted[q] = s
                    /\ \/ Runnable(s)'
                       \/ stage[p] = "open" /\ wanted[p] = s
  BY DEF KeepsBb, Fetching, CacheSlot, FetchStages
<1>0. TypeOK /\ DOMAIN cache = Versions
  BY DEF IInv, TypeOK
<1>1. \A q \in Provers \ {p} : stage'[q] = stage[q] /\ wanted'[q] = wanted[q]
  BY <1>0, Moves
  DEF CacheStep, LookInCache, ReadUrl, Fetch, OpenBinary, FinishCopy, Chmod, TypeOK
<1>2. CASE LookInCache(p)
  <2>1. stage'[p] = "url" => cache[pin].data = Absent
    BY <1>0, <1>2, Moves DEF LookInCache, CacheSlot
  <2>2. stage'[p] \in {"idle", "exec", "url"} /\ wanted'[p] = pin /\ cache' = cache
    BY <1>0, <1>2, Moves DEF LookInCache, TypeOK, files
  <2>3. cache[s].data # Absent
    BY BbAssumption DEF Runnable, Refs
  <2> QED
    BY <1>1, <2>1, <2>2, <2>3 DEF Runnable, FetchStages
<1>3. CASE ~LookInCache(p)
  <2>1. wanted' = wanted /\ stage[p] \in FetchStages
    BY <1>3 DEF CacheStep, ReadUrl, Fetch, OpenBinary, FinishCopy, Chmod, FetchStages
  <2>2. CASE wanted[p] # s \/ ReadUrl(p) \/ Fetch(p)
    <3>1. cache'[s] = cache[s]
      BY <1>0, <1>3, <2>2
      DEF CacheStep, ReadUrl, Fetch, OpenBinary, FinishCopy, Chmod, files, CacheSlot
    <3> QED
      BY <1>1, <2>1, <3>1 DEF Runnable
  <2>3. CASE OpenBinary(p) /\ wanted[p] = s
    BY <1>1, <2>1, <2>3 DEF OpenBinary
  <2>4. CASE (FinishCopy(p) \/ Chmod(p)) /\ wanted[p] = s
    <3>1. source[p] \in Refs
      BY <1>0 DEF TypeOK
    <3>2. cache[s] \in [data : Versions \cup {Absent, Partial}, exec : BOOLEAN,
                       last : SUBSET Provers]
      BY <1>0 DEF TypeOK
    <3>3. \/ cache'[s] = cache[s]
          \/ cache'[s] = [cache[s] EXCEPT !.data = source[p]]
          \/ cache'[s] = [cache[s] EXCEPT !.exec = TRUE]
      BY <1>0, <2>4 DEF FinishCopy, Chmod, CacheSlot
    <3>4. Runnable(s)'
      <4>1. CASE cache'[s] = cache[s]
        BY <4>1 DEF Runnable
      <4>2. CASE cache'[s] = [cache[s] EXCEPT !.data = source[p]]
        BY <3>1, <3>2, <4>2 DEF Runnable
      <4>3. CASE cache'[s] = [cache[s] EXCEPT !.exec = TRUE]
        BY <3>2, <4>3 DEF Runnable
      <4> QED
        BY <3>3, <4>1, <4>2, <4>3
    <3> QED
      BY <1>1, <2>1, <3>4
  <2> QED
    BY <1>3, <2>2, <2>3, <2>4 DEF CacheStep
<1> QED
  BY <1>2, <1>3

(* While there is a good bb no further prover sets out to write it, and    *)
(* only one that found none before can damage it, by opening it.           *)
THEOREM WarmForEver == Spec => WarmStays
<1>1. ASSUME IInv, [Next]_vars, NEW s \in Versions
      PROVE  KeepsBb(s)
  <2>1. ASSUME NEW p \in Provers, CacheStep(p) PROVE KeepsBb(s)
    BY <1>1, <2>1, CacheKeeps
  <2>2. ASSUME NEW p \in Provers, BuildStep(p) PROVE KeepsBb(s)
    <3>1. cache' = cache
      BY <2>2 DEF BuildStep, LookForCheckout, BeginClone, EndClone, Checkout, LookForBuild,
         Configure, BeginLink, EndLink, files
    <3>2. SourceBuild /\ TypeOK /\ TypeOK'
      BY <1>1, <2>2, OnlyDownloads, BuildTypes DEF IInv
    <3>3. Fetching(s)' = {}
      BY <3>2 DEF Fetching, TypeOK, SourceStages
    <3> QED
      BY <3>1, <3>3 DEF KeepsBb, Runnable
  <2>3. ASSUME NEW p \in Provers, OtherStep(p) PROVE KeepsBb(s)
    <3>1. cache' = cache /\ wanted' = wanted
      BY <2>3 DEF OtherStep, Start, Quit, Orphan, ExecBb, EndBb, files
    <3>2. \A q \in Provers : stage'[q] = stage[q] \/ stage'[q] \in {"idle", "look", "running"}
      BY <1>1, <2>3, Moves DEF OtherStep, Start, Quit, Orphan, ExecBb, EndBb, IInv, TypeOK
    <3> QED
      BY <3>1, <3>2 DEF KeepsBb, Runnable, Fetching, CacheSlot
  <2>4. CASE MovePin
    BY <2>4 DEF MovePin, files, KeepsBb, Runnable, Fetching, CacheSlot
  <2>5. CASE UNCHANGED vars
    BY <2>5 DEF vars, files, KeepsBb, Runnable, Fetching, CacheSlot
  <2> QED
    BY <1>1, <2>1, <2>2, <2>3, <2>4, <2>5, Steps
<1>2. IInv /\ [Next]_vars => [\A s \in Versions : KeepsBb(s)]_vars
  BY <1>1
<1> QED
  BY <1>2, AlwaysInv, PTL DEF Spec, WarmStays

(* A finished build is replaced only by a build that began without one,    *)
(* whatever happens to the source tree and whoever was killed.             *)
THEOREM WarmBuildForEver == Spec => WarmBuildStays
<1> DEFINE BuildStages == {"configure", "compile", "linking"}
           Kept == /\ \A q \in Provers : stage'[q] \in BuildStages => stage[q] \in BuildStages
                   /\ \/ built' = built
                      \/ \E q \in Provers : stage[q] \in {"compile", "linking"}
<1>1. ASSUME IInv, [Next]_vars, built \in Refs
      PROVE  Kept
  <2>1. ASSUME NEW p \in Provers, BuildStep(p) PROVE Kept
    <3>1. built' = built \/ stage[p] \in {"compile", "linking"}
      BY <2>1 DEF BuildStep, LookForCheckout, BeginClone, EndClone, Checkout, LookForBuild,
         Configure, BeginLink, EndLink, files
    <3>2. built # Absent
      BY <1>1, BbAssumption DEF Refs
    <3>3. TypeOK /\ DOMAIN stage = Provers
      BY <1>1 DEF IInv, TypeOK
    <3>4. \A q \in Provers \ {p} : stage'[q] = stage[q]
      BY <2>1, <3>3, Moves DEF BuildStep, LookForCheckout, BeginClone, EndClone,
         Checkout, LookForBuild, Configure, BeginLink, EndLink
    <3>5. stage[p] \in BuildStages \/ stage'[p] \notin BuildStages
      <4>1. CASE LookForBuild(p)
        <5>1. Goto(p, "exec")
          BY <3>2, <4>1 DEF LookForBuild
        <5> QED
          BY <3>3, <5>1, Moves
      <4>2. CASE ~LookForBuild(p) /\ stage[p] \notin BuildStages
        <5>1. \E t \in {"build", "clone", "cloning", "checkout", "idle"} : Goto(p, t)
          BY <2>1, <4>2 DEF BuildStep, LookForCheckout, BeginClone, EndClone, Checkout,
             Configure, BeginLink, EndLink
        <5> QED
          BY <3>3, <5>1, Moves
      <4> QED
        BY <4>1, <4>2
    <3> QED
      BY <3>1, <3>4, <3>5
  <2>2. ASSUME NEW p \in Provers, CacheStep(p) PROVE Kept
    <3>1. built' = built
      BY <2>2 DEF CacheStep, LookInCache, ReadUrl, Fetch, OpenBinary, FinishCopy, Chmod, files
    <3>2. ~SourceBuild /\ TypeOK'
      BY <1>1, <2>2, OnlyBuilds, CacheTypes DEF IInv
    <3>3. \A q \in Provers : stage'[q] \notin BuildStages
      BY <3>2 DEF TypeOK, DownloadStages
    <3> QED
      BY <3>1, <3>3
  <2>3. ASSUME NEW p \in Provers, OtherStep(p) PROVE Kept
    <3>1. built' = built
      BY <2>3 DEF OtherStep, Start, Quit, Orphan, ExecBb, EndBb, files
    <3>2. \A q \in Provers : stage'[q] = stage[q] \/ stage'[q] \in {"idle", "look", "running"}
      BY <1>1, <2>3, Moves DEF OtherStep, Start, Quit, Orphan, ExecBb, EndBb, IInv, TypeOK
    <3> QED
      BY <3>1, <3>2
  <2>4. CASE MovePin \/ UNCHANGED vars
    BY <2>4 DEF MovePin, vars, files
  <2> QED
    BY <1>1, <2>1, <2>2, <2>3, <2>4, Steps
<1>2. IInv /\ [Next]_vars => KeepsBuild
  <2> SUFFICES ASSUME IInv, [Next]_vars, built \in Refs
               PROVE  /\ Building' \subseteq Building
                      /\ \/ built' = built
                         \/ \E p \in Building : stage[p] \in {"compile", "linking"}
    BY DEF KeepsBuild
  <2> QED
    BY <1>1 DEF Building
<1>3. IInv /\ [Next]_vars => [KeepsBuild]_vars
  BY <1>2
<1> QED
  BY <1>3, AlwaysInv, PTL DEF Spec, WarmBuildStays
=============================================================================
