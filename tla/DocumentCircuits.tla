--------------------------- MODULE DocumentCircuits ---------------------------
(***************************************************************************)
(* From a document and a request to the circuits that prove it, as the     *)
(* fixture commands go: reference-inputs.cjs plans the disclosures;        *)
(* analysis.rs reads the SOD; certificates.rs chooses the CSCA;            *)
(* planning.rs plans the disclosures again, in Rust; resolution.rs names   *)
(* the circuits and looks each up in the manifest; the jobs are the three  *)
(* base circuits and the disclosures of the script.                        *)
(*                                                                         *)
(* Bytes are abstracted to what is read from them: a SOD is the list of    *)
(* its children with their tags, an OID the sequence of its arcs, a key    *)
(* identifier or a country a value.  The tests on the text of an OID are   *)
(* tests on the decimal digits of its arcs.                                *)
(***************************************************************************)
EXTENDS Integers, Sequences, FiniteSets

CONSTANTS
  Queries,          \* the queries of requests: [form, fields]
  Documents,        \* the documents, as their SOD has them
  CertificateFiles, \* packaged certificates: sequences of records
  Manifests,        \* the circuit names of a manifest
  Curves,           \* the elliptic curves that have circuits
  Alpha3,           \* isocountry: two-letter codes to three-letter ones
  None              \* an absent value

\* OIDs of signatures: PKCS #1 (10 is PSS), ECDSA, and an old one of SHA-1
\* with RSA.
Pkcs1(n) == <<1, 2, 840, 113549, 1, 1, n>>
Pss == Pkcs1(10)
EcdsaSha1 == <<1, 2, 840, 10045, 4, 1>>
EcdsaSha2(n) == <<1, 2, 840, 10045, 4, 3, n>>
OldSha1 == <<1, 3, 14, 3, 2, 29>>
\* The OIDs of signatures that documents and certificates carry.
SignatureOids ==
  {Pkcs1(n) : n \in {1, 5, 10, 11, 12, 13, 14}}
    \cup {EcdsaSha2(n) : n \in 1 .. 4} \cup {EcdsaSha1, OldSha1}

\* Certificate files are lists; signatures are made by known algorithms; None is
\* no result.
ASSUME DocumentAssumption ==
  /\ \A certs \in CertificateFiles : certs \in Seq({certs[i] : i \in DOMAIN certs})
  /\ \A d \in Documents :
       /\ d.signature \in SignatureOids
       /\ d.certs # << >> =>
            /\ Head(d.certs).signature \in SignatureOids
            /\ None # [digest |-> Head(d.digests), lds |-> d.lds,
                       cert |-> Head(d.certs), signature |-> d.signature]

VARIABLES
  pc, query, planned,         \* planned: the disclosures of the script
  document, analysis, certificates, csca, plan, resolved

vars == <<pc, query, planned, document, analysis, certificates, csca, plan,
          resolved>>

------------------------------------------------------------------------------
(* planning.rs, and its counterpart in reference-inputs.cjs.               *)

Supported == {"age", "nationality", "issuing_country", "name"}
DefaultFields == [nationality |-> [disclose |-> "true"]]

\* Values: "true", "some" (any other truthy one), "falsy" (false, 0, ""), "null".
Truthy(v) == v \in {"true", "some"}
Has(q, field, key) == field \in DOMAIN q /\ key \in DOMAIN q[field]
HasTruthy(q, field, key) == Has(q, field, key) /\ Truthy(q[field][key])

\* "gte" stands for gte, gt, lte, lt and range, which are treated alike.
AgeKeys == {"gte", "eq", "disclose"}

\* A query is null, an object with fields, or something else: an error for
\* Rust, the default for the script.
Rejected(q) == q.form = "other" \/ DOMAIN q.fields \ Supported # {}
Normalized(q) ==
  IF q.form # "object" \/ DOMAIN q.fields = {} THEN DefaultFields ELSE q.fields

\* The circuits in the order in which both push them.
Circuits == <<"disclose_bytes", "compare_age", "inclusion_nationality",
              "exclusion_nationality", "inclusion_issuing_country",
              "exclusion_issuing_country">>

\* A filter, by the positions of the elements that pass, so that what it
\* returns can be proved: the k-th of them is the k-th element of the result.
Nth(kept, k) == CHOOSE i \in kept : Cardinality({j \in kept : j <= i}) = k
Filter(s, kept) == [k \in 1 .. Cardinality(kept) |-> s[Nth(kept, k)]]

\* Rust: a key that is there counts, whatever its value, except disclose.
\* (Mutant: an age that must equal a value is forgotten.)
AgeBounds(q) == \E key \in {"gte", "disclose"} : Has(q, "age", key)
AgeAsked(q) == \E key \in AgeKeys : Has(q, "age", key)
RustAsks(q, circuit) ==
  CASE circuit = "disclose_bytes" ->
         \E f \in DOMAIN q : Has(q, f, "eq")
           \/ (Has(q, f, "disclose") /\ q[f]["disclose"] = "true")
    [] circuit = "compare_age" -> AgeAsked(q)
    [] circuit = "inclusion_nationality" -> Has(q, "nationality", "in")
    [] circuit = "exclusion_nationality" -> Has(q, "nationality", "out")
    [] circuit = "inclusion_issuing_country" -> Has(q, "issuing_country", "in")
    [] OTHER -> Has(q, "issuing_country", "out")

\* The script: a truthy value counts; for age, one that is not null.
ScriptAsks(q, circuit) ==
  CASE circuit = "disclose_bytes" ->
         \E f \in DOMAIN q : HasTruthy(q, f, "eq") \/ HasTruthy(q, f, "disclose")
    [] circuit = "compare_age" ->
         \/ \E key \in {"gte", "eq"} : Has(q, "age", key) /\ q["age"][key] # "null"
         \/ HasTruthy(q, "age", "disclose")
    [] circuit = "inclusion_nationality" -> HasTruthy(q, "nationality", "in")
    [] circuit = "exclusion_nationality" -> HasTruthy(q, "nationality", "out")
    [] circuit = "inclusion_issuing_country" ->
         HasTruthy(q, "issuing_country", "in")
    [] OTHER -> HasTruthy(q, "issuing_country", "out")

RustPlan(q) ==
  Filter(Circuits, {i \in DOMAIN Circuits : RustAsks(Normalized(q), Circuits[i])})
ScriptPlan(q) ==
  Filter(Circuits, {i \in DOMAIN Circuits : ScriptAsks(Normalized(q), Circuits[i])})

------------------------------------------------------------------------------
(* analysis.rs: OIDs and hashes.                                           *)

\* Arcs are of at most ten digits.
Tens == {1, 10, 100, 1000, 10000, 100000, 1000000, 10000000, 100000000, 1000000000}
BeginsWith(n, d) == \E t \in Tens : n \div t = d
\* The decimal digits of n contain those of d, as many as width has zeros.
HasDigits(n, d, width) == \E t \in Tens : (n \div t) % width = d
StartsWith(oid, prefix) ==
  Len(oid) > Len(prefix) /\ SubSeq(oid, 1, Len(prefix)) = prefix
EndsWith(oid, arc) == Len(oid) > 1 /\ oid[Len(oid)] = arc
\* contains("4.3.d"): the last digit of an arc, an arc, the first of the next.
Contains43(oid, d) ==
  \E i \in 1 .. Len(oid) - 2 :
    oid[i] % 10 = 4 /\ oid[i + 1] = 3 /\ BeginsWith(oid[i + 2], d)

Normalize(oid) ==
  LET has(d, width) == \E i \in DOMAIN oid : HasDigits(oid[i], d, width)
  IN CASE has(512, 1000) -> "sha512" [] has(384, 1000) -> "sha384"
       [] has(224, 1000) -> "sha224" [] has(1, 10) -> "sha1" [] OTHER -> "sha256"

NistHash == <<2, 16, 840, 1, 101, 3, 4, 2>>
HashOfOid(oid) ==
  CASE oid = <<1, 3, 14, 3, 2, 26>> -> "sha1"
    [] oid = Append(NistHash, 4) -> "sha224"
    [] oid = Append(NistHash, 1) -> "sha256"
    [] oid = Append(NistHash, 2) -> "sha384"
    [] oid = Append(NistHash, 3) -> "sha512"
    [] OTHER -> Normalize(oid)

\* hash_from_signature_and_digest_oids.  (Mutant: .13 is tested before 4.3.4,
\* and .12 read as 512.)
HashOfSignatureSwapped(signature, digest) ==
  CASE Contains43(signature, 2) \/ EndsWith(signature, 11) -> "sha256"
    [] Contains43(signature, 3) \/ EndsWith(signature, 13) -> "sha384"
    [] Contains43(signature, 4) \/ EndsWith(signature, 12) -> "sha512"
    [] OTHER -> HashOfOid(digest)
HashOfSignature(signature, digest) ==
  CASE Contains43(signature, 2) \/ EndsWith(signature, 11) -> "sha256"
    [] Contains43(signature, 3) \/ EndsWith(signature, 12) -> "sha384"
    [] Contains43(signature, 4) \/ EndsWith(signature, 13) -> "sha512"
    [] EndsWith(signature, 14) -> "sha224"
    [] EndsWith(signature, 5) -> "sha1"
    [] OTHER -> HashOfOid(digest)

Family(oid) ==
  CASE oid = Pss -> "RSA-PSS"
    [] StartsWith(oid, <<1, 2, 840, 113549, 1, 1>>) -> "RSA"
    [] StartsWith(oid, <<1, 2, 840, 10045, 4>>) -> "ECDSA"
    [] OTHER -> "UNKNOWN"

\* parse_subject_public_key_info: a size in whole bytes, or a curve that has a
\* token; any other key is an error.
HasToken(curve) == curve \in Curves
PublicKey(spki) ==
  IF spki[1] = "EC" THEN IF HasToken(spki[2]) THEN spki ELSE None
  ELSE IF spki[1] \in {"RSA", "PSS"}
       THEN <<spki[1], 8 * ((spki[2] + 7) \div 8)>>
       ELSE None

\* The country of the issuer, or else of the subject, in three letters.
Country(c) ==
  LET named == IF c.issuer # None THEN c.issuer ELSE c.subject
  IN IF named \in DOMAIN Alpha3 THEN Alpha3[named] ELSE named

Bucket(len) ==
  IF len <= 700 THEN 700 ELSE IF len <= 1000 THEN 1000
  ELSE IF len <= 1200 THEN 1200 ELSE 1600

------------------------------------------------------------------------------
(* analysis.rs: the SOD, by the tags and the positions of its children.    *)

Child(tag, content) == [tag |-> tag, content |-> content]
Optional(present, child) == IF present THEN <<child>> ELSE << >>

\* The content of the first child tagged 160 of EncapContentInfo.
EncapContentInfo(d) == <<Child(6, None), Child(160, d.lds)>>

\* The children of SignedData and of SignerInfo, as a document has them.
SignedData(d) ==
  <<Child(2, None), Child(49, d.digests), Child(48, EncapContentInfo(d))>>
    \o Optional(d.certs # << >>, Child(160, d.certs))
    \o Optional(d.crls, Child(161, None)) \o <<Child(49, d)>>
SignerInfo(d) ==
  <<Child(2, None), Child(d.sid, None), Child(48, d.signerDigest)>>
    \o Optional(d.attributes, Child(160, None))
    \o <<Child(48, d.signature), Child(4, None)>>
    \o Optional(d.unsigned, Child(161, None))

\* The fields with a tag at a position (from 0) of at least first.  (Mutant:
\* at that position.)
AtExactly(children, tag, first) ==
  {i \in DOMAIN children : children[i].tag = tag /\ i - 1 = first}
AtLeast(children, tag, first) ==
  {i \in DOMAIN children : children[i].tag = tag /\ i - 1 >= first}
MaxOf(S) == CHOOSE i \in S : \A k \in S : i >= k
MinOf(S) == CHOOSE i \in S : \A k \in S : i <= k

\* parse_signed_data reads the third child as the content; it keeps the last
\* certificates and signer, and of each the first element.
\* parse_signer_info_signature_algorithm stops at the first.
EContentHash(children) ==
  children[MinOf({i \in DOMAIN children : children[i].tag = 160})].content
ParseSod(d) ==
  LET children == SignedData(d)
      certs == AtLeast(children, 160, 3)
      signers == AtLeast(children, 49, 4)
      signer == SignerInfo(children[MaxOf(signers)].content)
      algorithms == AtLeast(signer, 48, 3)
  IN IF certs = {} \/ signers = {} THEN None
     ELSE IF algorithms = {} THEN None
     ELSE [digest |-> Head(d.digests), lds |-> EContentHash(children[3].content),
           cert |-> Head(children[MaxOf(certs)].content),
           signature |-> signer[MinOf(algorithms)].content]

Analyzed(d) ==
  LET sod == ParseSod(d) IN
  IF sod = None THEN None ELSE IF PublicKey(sod.cert.spki) = None THEN None
  ELSE [bucket |-> Bucket(sod.cert.len), country |-> Country(sod.cert),
        aki |-> sod.cert.aki, dscHash |-> HashOfSignature(sod.cert.signature, << >>),
        parent |-> Family(sod.cert.signature), key |-> PublicKey(sod.cert.spki),
        sodHash |-> HashOfSignature(sod.signature, sod.digest),
        dgHash |-> HashOfOid(sod.lds)]

------------------------------------------------------------------------------
(* certificates.rs.                                                        *)

\* A stable sort by one bit: the certificates of the DSC's parent signature
\* algorithm, then the others.
SortCandidates(certs, a) ==
  LET same == {i \in DOMAIN certs : certs[i].algorithm = a.parent}
  IN Filter(certs, same) \o Filter(certs, DOMAIN certs \ same)

\* The certificates of the DSC's country; those with its authority key.
National(a, certs) ==
  Filter(certs, {i \in DOMAIN certs : certs[i].country = a.country})
WithKey(a, certs) ==
  Filter(certs, {i \in DOMAIN certs : a.aki # None /\ certs[i].ski = a.aki})

\* resolve_csca: by key identifier within the country, else by country.
\* (Mutant: the algorithm decides before the key identifier.)
ResolveCscaByAlgorithm(a, certs) ==
  LET ranked == SortCandidates(National(a, certs), a)
  IN IF ranked = << >> THEN None ELSE Head(ranked)
ResolveCsca(a, certs) ==
  LET country == National(a, certs)
      keyed == WithKey(a, country)
  IN IF country = << >> THEN None
     ELSE Head(SortCandidates(IF keyed # << >> THEN keyed ELSE country, a))

\* derive_document_circuit_context: the DSC's circuit is that of the CSCA's
\* key, PSS when the CSCA's own signature is; a curve without a token is an error.
DscKey(c) ==
  IF c.key[1] = "EC" THEN IF HasToken(c.key[2]) THEN c.key ELSE None
  ELSE <<IF c.algorithm = "RSA-PSS" THEN "PSS" ELSE "RSA", c.key[2]>>

Names(a, c, p) ==
  [dsc |-> <<"sig_check_dsc", a.bucket, DscKey(c), a.dscHash>>,
   id_data |-> <<"sig_check_id_data", a.bucket, a.key, a.sodHash>>,
   integrity |-> <<"data_check_integrity", a.sodHash, a.dgHash>>,
   outer |-> <<"outer_evm_count", 3 + Len(p)>>]

------------------------------------------------------------------------------
(* The pipeline.                                                           *)

Init ==
  /\ pc = "script" /\ query = None /\ planned = << >> /\ document = None
  /\ analysis = None /\ certificates = << >> /\ csca = None /\ plan = << >>
  /\ resolved = None

\* An error ends the command.
Advance(ok, next) == pc' = IF ok THEN next ELSE "error"

RunScript ==
  /\ pc = "script" /\ query' \in Queries /\ planned' = ScriptPlan(query')
  /\ Advance(planned' # << >>, "analyze")
  /\ UNCHANGED <<document, analysis, certificates, csca, plan, resolved>>

AnalyzeDocument ==
  /\ pc = "analyze" /\ document' \in Documents /\ analysis' = Analyzed(document')
  /\ Advance(analysis' # None, "resolve csca")
  /\ UNCHANGED <<query, planned, certificates, csca, plan, resolved>>

\* What no later step reads is dropped.
ChooseCsca ==
  /\ pc = "resolve csca" /\ certificates' \in CertificateFiles
  /\ csca' = ResolveCsca(analysis, certificates')
  /\ Advance(csca' # None, "plan")
  /\ document' = None
  /\ UNCHANGED <<query, planned, analysis, plan, resolved>>

PlanRequest ==
  /\ pc = "plan" /\ plan' = RustPlan(query)
  /\ Advance(~Rejected(query) /\ plan' # << >>, "resolve")
  /\ certificates' = << >>
  /\ UNCHANGED <<query, planned, document, analysis, csca, resolved>>

\* The four names must be circuits of the manifest.
ResolveCircuits ==
  /\ pc = "resolve" /\ resolved' = Names(analysis, csca, plan)
  /\ \E m \in Manifests :
       Advance(DscKey(csca) # None /\ \A role \in DOMAIN resolved' : resolved'[role] \in m, "jobs")
  /\ UNCHANGED <<query, planned, document, analysis, certificates, csca, plan>>

Next == RunScript \/ AnalyzeDocument \/ ChooseCsca \/ PlanRequest \/ ResolveCircuits

Spec == Init /\ [][Next]_vars

------------------------------------------------------------------------------
(* Properties.                                                             *)

\* What the SOD loops pick by tag and position is what they are after, in
\* every layout a SOD can have: with or without CRLs, signed and unsigned
\* attributes, and with either form of signer identifier.
SodReadRight ==
  document # None /\ document.certs # << >> =>
    /\ ParseSod(document) # None
    /\ ParseSod(document).signature = document.signature
    /\ ParseSod(document).lds = document.lds

\* The hash that makes a signature, by the standards: from its OID, from the
\* parameters of PSS, or, for a bare key algorithm, the digest beside it.
TrueHash(oid, pss, digest) ==
  CASE oid = Pss -> pss
    [] oid = Pkcs1(1) -> HashOfOid(digest)
    [] oid \in {Pkcs1(5), EcdsaSha1, OldSha1} -> "sha1"
    [] oid \in {Pkcs1(14), EcdsaSha2(1)} -> "sha224"
    [] oid \in {Pkcs1(11), EcdsaSha2(2)} -> "sha256"
    [] oid \in {Pkcs1(12), EcdsaSha2(3)} -> "sha384"
    [] oid \in {Pkcs1(13), EcdsaSha2(4)} -> "sha512"

\* The circuits are chosen for the hashes the signatures were made with, except
\* where the OID does not tell: PSS and ECDSA with SHA-1 or SHA-224 fall back
\* to the digest beside them (for the DSC there is none, and SHA-256 is
\* assumed), and the old OID of SHA-1 with RSA holds the digits "4.3.2".
Unclear(oid) ==
  oid \in {Pss, EcdsaSha1, EcdsaSha2(1), OldSha1}
HashesExplained ==
  document # None /\ analysis # None =>
    LET dsc == Head(document.certs) IN
    /\ analysis.dscHash = TrueHash(dsc.signature, dsc.pss, << >>)
         \/ Unclear(dsc.signature)
    /\ analysis.sodHash = TrueHash(document.signature, document.pss,
                                   document.signerDigest)
         \/ Unclear(document.signature)
         \/ Head(document.digests) # document.signerDigest

\* The CSCA is a best one: of the DSC's country; with the DSC's authority key
\* if there is one; then with its parent's algorithm if there is one; then the
\* first in the file.  Certificates of other countries play no part, though
\* their key identifiers may be equal.
Better(c, d) ==
  LET key(x) == analysis.aki # None /\ x.ski = analysis.aki
      algorithm(x) == x.algorithm = analysis.parent
  IN \/ key(c) /\ ~key(d)
     \/ key(c) = key(d) /\ algorithm(c) /\ ~algorithm(d)
CscaBest ==
  certificates # << >> /\ csca # None =>
    \E i \in DOMAIN certificates :
      /\ certificates[i] = csca /\ csca.country = analysis.country
      /\ \A k \in DOMAIN certificates :
           certificates[k].country = analysis.country =>
             /\ ~Better(certificates[k], csca)
             /\ k < i => Better(csca, certificates[k])

\* The outer circuit that was looked up in the manifest aggregates as many
\* proofs as there are jobs, although the two planners judge a query apart,
\* unless a value of the query is one they disagree about: a key with a falsy
\* or null value, or a disclose that is truthy without being true.
OddValue(q) ==
  \E f \in DOMAIN q : \E key \in DOMAIN q[f] :
    \/ ~Truthy(q[f][key]) /\ (key # "disclose" \/ f = "age")
    \/ key = "disclose" /\ q[f][key] = "some"
OuterCountsJobs ==
  pc = "jobs" =>
    \/ resolved.outer[2] = 3 + Len(planned)
    \/ OddValue(Normalized(query))
==============================================================================
