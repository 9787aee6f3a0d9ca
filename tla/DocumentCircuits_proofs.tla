------------------------ MODULE DocumentCircuits_proofs ------------------------
(***************************************************************************)
(* The four properties of DocumentCircuits, for all queries, documents,    *)
(* certificate files of any length, manifests, curves and countries.       *)
(***************************************************************************)
EXTENDS DocumentCircuits, FunctionTheorems, FiniteSetTheorems,
        SequenceTheorems, TLAPS

------------------------------------------------------------------------------
(* Filter: the positions it goes through, in order.                        *)

Rank(kept, i) == Cardinality({j \in kept : j <= i})

(* The positions kept have the ranks 1 to their number, each once, in order. *)
LEMMA Ranks ==
  ASSUME NEW n \in Nat, NEW kept \in SUBSET (1 .. n)
  PROVE  /\ IsFiniteSet(kept)
         /\ Cardinality(kept) \in Nat
         /\ \A i \in kept : Rank(kept, i) \in 1 .. Cardinality(kept)
         /\ \A i, j \in kept : i < j => Rank(kept, i) < Rank(kept, j)
         /\ \A k \in 1 .. Cardinality(kept) : \E i \in kept : Rank(kept, i) = k
<1>1. IsFiniteSet(kept) /\ Cardinality(kept) \in Nat
  BY FS_Interval, FS_Subset, FS_CardinalityType, 0 \in Int, 1 \in Int, n \in Int
<1>2. ASSUME NEW i \in kept
      PROVE  Rank(kept, i) \in 1 .. Cardinality(kept)
  <2> DEFINE L == {j \in kept : j <= i}
  <2>1. i \in L /\ L \in SUBSET kept
    BY <1>2
  <2> HIDE DEF L
  <2>2. IsFiniteSet(L) /\ Cardinality(L) <= Cardinality(kept)
    BY <1>1, <2>1, FS_Subset, Zenon
  <2>3. Cardinality(L) \in Nat
    BY <2>2, FS_CardinalityType
  <2>4. Cardinality(L) # 0
    BY <2>1, <2>2, FS_EmptySet
  <2> QED
    BY <1>1, <2>2, <2>3, <2>4 DEF L, Rank
<1>3. ASSUME NEW i \in kept, NEW j \in kept, i < j
      PROVE  Rank(kept, i) < Rank(kept, j)
  <2> DEFINE A == {k \in kept : k <= i}
             B == {k \in kept : k <= j}
  <2>0. \A k \in kept : k \in Int
    OBVIOUS
  <2>1. i \in Int /\ j \in Int /\ j <= j /\ ~(j <= i)
    BY <1>3, <2>0
  <2>2. \A k \in kept : k <= i => k <= j
    BY <1>3, <2>0
  <2>3. A \in SUBSET B /\ B \in SUBSET kept /\ j \in B /\ j \notin A
    BY <1>3, <2>1, <2>2
  <2> HIDE DEF A, B
  <2>4. IsFiniteSet(A) /\ IsFiniteSet(B)
    BY <1>1, <2>3, FS_Subset
  <2>5. Cardinality(A) <= Cardinality(B) /\ Cardinality(A) # Cardinality(B)
    BY <2>3, <2>4, FS_Subset
  <2>6. Cardinality(A) \in Nat /\ Cardinality(B) \in Nat
    BY <2>4, FS_CardinalityType
  <2>7. Cardinality(A) < Cardinality(B)
    BY <2>5, <2>6
  <2> QED
    BY <2>7 DEF A, B, Rank
<1>4. ASSUME NEW k \in 1 .. Cardinality(kept)
      PROVE  \E i \in kept : Rank(kept, i) = k
  <2> DEFINE T == 1 .. Cardinality(kept)
             f == [i \in kept |-> Rank(kept, i)]
  <2>1. \A i, j \in kept : f[i] = f[j] => i = j
    BY <1>2, <1>3
  <2>2. f \in [kept -> T]
    BY <1>2
  <2>3. f \in Injection(kept, T)
    BY <2>1, <2>2 DEF Injection, IsInjective
  <2>4. IsFiniteSet(T) /\ Cardinality(T) = Cardinality(kept)
    BY <1>1, FS_Interval
  <2>5. f \in Surjection(kept, T)
    <3> HIDE DEF f, T
    <3> QED
      BY <2>3, <2>4, FS_Injection
  <2>6. \E i \in kept : f[i] = k
    BY <2>5, Zenon DEF Surjection
  <2> QED
    BY <2>6
<1> QED
  BY <1>1, <1>2, <1>3, <1>4

(* Nth runs through the positions kept, upwards and without a gap.         *)
LEMMA NthFacts ==
  ASSUME NEW n \in Nat, NEW kept \in SUBSET (1 .. n)
  PROVE  /\ Cardinality(kept) \in Nat
         /\ Cardinality(kept) = 0 <=> kept = {}
         /\ \A k \in 1 .. Cardinality(kept) : Nth(kept, k) \in kept
         /\ \A k, m \in 1 .. Cardinality(kept) :
              k < m <=> Nth(kept, k) < Nth(kept, m)
         /\ \A i \in kept : \E k \in 1 .. Cardinality(kept) : Nth(kept, k) = i
<1>1. ASSUME NEW k \in 1 .. Cardinality(kept)
      PROVE  Nth(kept, k) \in kept /\ Rank(kept, Nth(kept, k)) = k
  <2>1. \E i \in kept : Rank(kept, i) = k
    BY Ranks
  <2> QED
    BY <2>1 DEF Nth, Rank
<1>2. ASSUME NEW k \in 1 .. Cardinality(kept), NEW m \in 1 .. Cardinality(kept)
      PROVE  k < m <=> Nth(kept, k) < Nth(kept, m)
  <2> DEFINE i == Nth(kept, k)
             j == Nth(kept, m)
  <2>1. i \in kept /\ j \in kept /\ Rank(kept, i) = k /\ Rank(kept, j) = m
    BY <1>1
  <2> HIDE DEF i, j
  <2>2. i < j => k < m
    BY <2>1, Ranks
  <2>3. j < i => m < k
    BY <2>1, Ranks
  <2>4. i \in Nat /\ j \in Nat /\ k \in Int /\ m \in Int
    BY <2>1, Ranks
  <2>5. k < m <=> i < j
    BY <2>1, <2>2, <2>3, <2>4
  <2> QED
    BY <2>5 DEF i, j
<1>3. ASSUME NEW i \in kept
      PROVE  \E k \in 1 .. Cardinality(kept) : Nth(kept, k) = i
  <2> DEFINE k == Rank(kept, i)
  <2>1. k \in 1 .. Cardinality(kept)
    BY Ranks
  <2> HIDE DEF k
  <2>2. Nth(kept, k) \in kept /\ Rank(kept, Nth(kept, k)) = k
    BY <1>1, <2>1
  <2>3. \A j \in kept : Rank(kept, j) = Rank(kept, i) => j = i
    BY Ranks
  <2>4. Nth(kept, k) = i
    BY <2>2, <2>3 DEF k
  <2> QED
    BY <2>1, <2>4
<1>4. IsFiniteSet(kept) /\ Cardinality(kept) \in Nat
  BY Ranks
<1> QED
  BY <1>1, <1>2, <1>3, <1>4, FS_EmptySet

(* The first position kept is the least of them.                           *)
LEMMA NthFirst ==
  ASSUME NEW n \in Nat, NEW kept \in SUBSET (1 .. n), kept # {}
  PROVE  /\ 1 \in 1 .. Cardinality(kept)
         /\ Nth(kept, 1) \in kept
         /\ \A i \in kept : Nth(kept, 1) <= i
<1>1. 1 \in 1 .. Cardinality(kept)
  <2>1. Cardinality(kept) \in Nat /\ Cardinality(kept) # 0
    BY NthFacts
  <2> QED
    BY <2>1
<1>2. Nth(kept, 1) \in kept
  BY <1>1, NthFacts
<1>3. ASSUME NEW i \in kept
      PROVE  Nth(kept, 1) <= i
  <2>1. PICK k \in 1 .. Cardinality(kept) : Nth(kept, k) = i
    BY NthFacts
  <2>2. k = 1 \/ Nth(kept, 1) < Nth(kept, k)
    <3>1. k = 1 \/ 1 < k
      OBVIOUS
    <3> QED
      BY <1>1, <3>1, NthFacts
  <2>3. Nth(kept, 1) = i \/ Nth(kept, 1) < i
    BY <2>1, <2>2
  <2>4. Nth(kept, 1) \in Int /\ i \in Int
    <3>1. \A j \in kept : j \in Int
      OBVIOUS
    <3> QED
      BY <1>2, <3>1
  <2> QED
    BY <2>3, <2>4
<1> QED
  BY <1>1, <1>2, <1>3

(* Filter returns the elements at the positions kept, one for each.        *)
LEMMA FilterFacts ==
  ASSUME NEW S, NEW s \in Seq(S), NEW kept \in SUBSET DOMAIN s
  PROVE  /\ Filter(s, kept) \in Seq(S)
         /\ Len(Filter(s, kept)) = Cardinality(kept)
         /\ Filter(s, kept) = << >> <=> kept = {}
         /\ \A k \in 1 .. Cardinality(kept) : Filter(s, kept)[k] = s[Nth(kept, k)]
<1>1. Len(s) \in Nat /\ kept \in SUBSET (1 .. Len(s))
  OBVIOUS
<1>2. \A k \in 1 .. Cardinality(kept) : s[Nth(kept, k)] \in S
  BY <1>1, NthFacts, ElementOfSeq
<1>3. Cardinality(kept) \in Nat /\ (Cardinality(kept) = 0 <=> kept = {})
  BY <1>1, NthFacts
<1>4. Filter(s, kept) \in Seq(S) /\ Len(Filter(s, kept)) = Cardinality(kept)
  BY <1>2, <1>3, IsASeq, LenProperties DEF Filter
<1>5. Filter(s, kept) = << >> <=> kept = {}
  BY <1>3, <1>4, EmptySeq
<1> QED
  BY <1>4, <1>5 DEF Filter
(* The same with a function from the positions of the result to those of   *)
(* the elements it came from: upwards, and no position kept is left out.   *)
LEMMA FilterPositions ==
  ASSUME NEW S, NEW s \in Seq(S), NEW kept \in SUBSET DOMAIN s
  PROVE  \E at \in [DOMAIN Filter(s, kept) -> kept] :
           /\ \A k \in DOMAIN at : Filter(s, kept)[k] = s[at[k]]
           /\ \A k, m \in DOMAIN at : k < m <=> at[k] < at[m]
           /\ \A i \in kept : \E k \in DOMAIN at : at[k] = i
<1> DEFINE at == [k \in 1 .. Cardinality(kept) |-> Nth(kept, k)]
<1>1. kept \in SUBSET (1 .. Len(s)) /\ Len(s) \in Nat
  OBVIOUS
<1>2. /\ DOMAIN Filter(s, kept) = 1 .. Cardinality(kept)
      /\ \A k \in 1 .. Cardinality(kept) : Filter(s, kept)[k] = s[Nth(kept, k)]
  BY FilterFacts
<1>3. /\ \A k \in 1 .. Cardinality(kept) : Nth(kept, k) \in kept
      /\ \A k, m \in 1 .. Cardinality(kept) : k < m <=> Nth(kept, k) < Nth(kept, m)
      /\ \A i \in kept : \E k \in 1 .. Cardinality(kept) : Nth(kept, k) = i
  BY <1>1, NthFacts
<1>4. at \in [DOMAIN Filter(s, kept) -> kept]
  BY <1>2, <1>3
<1>5. /\ \A k \in DOMAIN at : Filter(s, kept)[k] = s[at[k]]
      /\ \A k, m \in DOMAIN at : k < m <=> at[k] < at[m]
      /\ \A i \in kept : \E k \in DOMAIN at : at[k] = i
  BY <1>2, <1>3
<1> HIDE DEF at
<1> QED
  BY <1>4, <1>5

------------------------------------------------------------------------------
(* The SOD.                                                                *)

(* What the loops of analysis.rs pick by tag and position, in every layout *)
(* a SOD can have: the first certificate, the digest, the hash algorithm   *)
(* of the data groups and the algorithm of the signature, or nothing at    *)
(* all when the SOD has no certificate.                                    *)
Sod(d) ==
  [digest |-> Head(d.digests), lds |-> d.lds, cert |-> Head(d.certs),
   signature |-> d.signature]

LEMMA ContentHash ==
  ASSUME NEW d
  PROVE  EContentHash(EncapContentInfo(d)) = d.lds
<1> DEFINE e == EncapContentInfo(d)
           S == {i \in DOMAIN e : e[i].tag = 160}
<1>1. S = {2} /\ e[2].content = d.lds
  BY DEF EncapContentInfo, Child
<1>2. MinOf({2}) = 2
  BY DEF MinOf
<1> QED
  BY <1>1, <1>2 DEF EContentHash

LEMMA SignatureAlgorithm ==
  ASSUME NEW d
  PROVE  LET algorithms == AtLeast(SignerInfo(d), 48, 3)
         IN  algorithms # {} /\ SignerInfo(d)[MinOf(algorithms)].content = d.signature
<1> DEFINE s == SignerInfo(d)
           A == AtLeast(s, 48, 3)
<1>1. CASE d.attributes
  <2>1. s = <<Child(2, None), Child(d.sid, None), Child(48, d.signerDigest),
              Child(160, None), Child(48, d.signature), Child(4, None)>>
            \o Optional(d.unsigned, Child(161, None))
    BY <1>1 DEF SignerInfo, Optional
  <2>2. A = {5} /\ s[5].content = d.signature
    BY <2>1 DEF AtLeast, Optional, Child
  <2>3. MinOf({5}) = 5
    BY DEF MinOf
  <2> QED
    BY <2>2, <2>3
<1>2. CASE ~d.attributes
  <2>1. s = <<Child(2, None), Child(d.sid, None), Child(48, d.signerDigest),
              Child(48, d.signature), Child(4, None)>>
            \o Optional(d.unsigned, Child(161, None))
    BY <1>2 DEF SignerInfo, Optional
  <2>2. A = {4} /\ s[4].content = d.signature
    BY <2>1 DEF AtLeast, Optional, Child
  <2>3. MinOf({4}) = 4
    BY DEF MinOf
  <2> QED
    BY <2>2, <2>3
<1> QED
  BY <1>1, <1>2
LEMMA SodRead ==
  ASSUME NEW d
  PROVE  /\ d.certs # << >> => ParseSod(d) = Sod(d)
         /\ d.certs = << >> => ParseSod(d) = None
<1> DEFINE c == SignedData(d)
           certs == AtLeast(c, 160, 3)
           signers == AtLeast(c, 49, 4)
<1>1. c[3].content = EncapContentInfo(d)
  BY DEF SignedData, Optional, Child
<1>2. ASSUME d.certs = << >>
      PROVE  certs = {}
  <2>1. c = <<Child(2, None), Child(49, d.digests), Child(48, EncapContentInfo(d))>>
              \o Optional(d.crls, Child(161, None)) \o <<Child(49, d)>>
    BY <1>2 DEF SignedData, Optional
  <2> QED
    BY <2>1 DEF AtLeast, Optional, Child
<1>3. ASSUME d.certs # << >>
      PROVE  /\ certs = {4} /\ c[4].content = d.certs
             /\ \E i \in {5, 6} : signers = {i} /\ c[i].content = d
  <2>1. c = <<Child(2, None), Child(49, d.digests), Child(48, EncapContentInfo(d)),
              Child(160, d.certs)>>
              \o Optional(d.crls, Child(161, None)) \o <<Child(49, d)>>
    BY <1>3 DEF SignedData, Optional
  <2>2. CASE d.crls
    BY <2>1, <2>2 DEF AtLeast, Optional, Child
  <2>3. CASE ~d.crls
    BY <2>1, <2>3 DEF AtLeast, Optional, Child
  <2> QED
    BY <2>2, <2>3
<1>4. ASSUME d.certs # << >>
      PROVE  ParseSod(d) = Sod(d)
  <2>1. PICK i \in {5, 6} : signers = {i} /\ c[i].content = d
    BY <1>3, <1>4
  <2>2. MaxOf({4}) = 4 /\ MaxOf({i}) = i
    BY <2>1 DEF MaxOf
  <2>3. c[MaxOf(signers)].content = d /\ c[MaxOf(certs)].content = d.certs
    BY <1>3, <1>4, <2>1, <2>2
  <2>4. certs # {} /\ signers # {}
    BY <1>3, <1>4, <2>1
  <2> HIDE DEF c, certs, signers
  <2> QED
    BY <1>1, <2>3, <2>4, ContentHash, SignatureAlgorithm
       DEF ParseSod, Sod, c, certs, signers
<1> QED
  BY <1>2, <1>4 DEF ParseSod

------------------------------------------------------------------------------
(* The hashes.                                                             *)

(* No arc of a PKCS #1 signature is 3, so that only its last arc decides.  *)
LEMMA Pkcs1Hash ==
  ASSUME NEW n \in {1, 5, 11, 12, 13, 14}, NEW digest
  PROVE  HashOfSignature(Pkcs1(n), digest) =
           CASE n = 5 -> "sha1" [] n = 14 -> "sha224" [] n = 11 -> "sha256"
             [] n = 12 -> "sha384" [] n = 13 -> "sha512" [] OTHER -> HashOfOid(digest)
<1> DEFINE oid == Pkcs1(n)
<1>1. /\ Len(oid) = 7 /\ oid[1] = 1 /\ oid[2] = 2 /\ oid[3] = 840
      /\ oid[4] = 113549 /\ oid[5] = 1 /\ oid[6] = 1 /\ oid[7] = n
  BY DEF Pkcs1
<1> HIDE DEF oid
<1>2. \A d : ~Contains43(oid, d)
  BY <1>1 DEF Contains43
<1>3. \A arc : EndsWith(oid, arc) <=> arc = n
  BY <1>1 DEF EndsWith
<1> QED
  BY <1>2, <1>3 DEF HashOfSignature, oid

(* The OIDs of ECDSA contain 4.3, and then the arc that tells the hash.    *)
LEMMA EcdsaHash ==
  ASSUME NEW n \in {2, 3, 4}, NEW digest
  PROVE  HashOfSignature(EcdsaSha2(n), digest) =
           CASE n = 2 -> "sha256" [] n = 3 -> "sha384" [] n = 4 -> "sha512"
<1> DEFINE oid == EcdsaSha2(n)
<1>1. /\ Len(oid) = 7 /\ oid[1] = 1 /\ oid[2] = 2 /\ oid[3] = 840
      /\ oid[4] = 10045 /\ oid[5] = 4 /\ oid[6] = 3 /\ oid[7] = n
  BY DEF EcdsaSha2
<1> HIDE DEF oid
<1>2. \A d \in {2, 3, 4} : BeginsWith(n, d) <=> d = n
  BY DEF BeginsWith, Tens
<1>3. \A d \in {2, 3, 4} : Contains43(oid, d) <=> d = n
  BY <1>1, <1>2 DEF Contains43
<1>4. \A arc \in {5, 11, 12, 13, 14} : ~EndsWith(oid, arc)
  BY <1>1 DEF EndsWith
<1> QED
  BY <1>3, <1>4 DEF HashOfSignature, oid
(* No two OIDs of the list are the same.                                   *)
LEMMA OidsApart ==
  /\ \A n, m : Pkcs1(n) = Pkcs1(m) => n = m
  /\ \A n, m : EcdsaSha2(n) = EcdsaSha2(m) => n = m
  /\ \A n, m : Pkcs1(n) # EcdsaSha2(m)
  /\ \A n : Pkcs1(n) # EcdsaSha1 /\ Pkcs1(n) # OldSha1
  /\ \A n : EcdsaSha2(n) # EcdsaSha1 /\ EcdsaSha2(n) # OldSha1
BY DEF Pkcs1, EcdsaSha1, EcdsaSha2, OldSha1

LEMMA HashIsTrue ==
  ASSUME NEW oid \in SignatureOids, ~Unclear(oid), NEW pss, NEW digest
  PROVE  HashOfSignature(oid, digest) = TrueHash(oid, pss, digest)
<1>1. \/ \E n \in {1, 5, 11, 12, 13, 14} : oid = Pkcs1(n)
      \/ \E n \in {2, 3, 4} : oid = EcdsaSha2(n)
  <2>1. \A n \in {1, 5, 10, 11, 12, 13, 14} : n = 10 \/ n \in {1, 5, 11, 12, 13, 14}
    OBVIOUS
  <2>2. \A n \in 1 .. 4 : n = 1 \/ n \in {2, 3, 4}
    OBVIOUS
  <2> QED
    BY <2>1, <2>2, Zenon DEF SignatureOids, Unclear, Pss
<1>2. ASSUME NEW n \in {1, 5, 11, 12, 13, 14}, oid = Pkcs1(n)
      PROVE  HashOfSignature(oid, digest) = TrueHash(oid, pss, digest)
  <2>1. \A m \in {1, 5, 10, 11, 12, 13, 14} : oid = Pkcs1(m) <=> n = m
    BY <1>2, OidsApart
  <2>2. /\ oid # EcdsaSha1 /\ oid # OldSha1
        /\ oid # EcdsaSha2(1) /\ oid # EcdsaSha2(2)
        /\ oid # EcdsaSha2(3) /\ oid # EcdsaSha2(4)
    BY <1>2, OidsApart
  <2>3. HashOfSignature(oid, digest) =
          CASE n = 5 -> "sha1" [] n = 14 -> "sha224" [] n = 11 -> "sha256"
            [] n = 12 -> "sha384" [] n = 13 -> "sha512" [] OTHER -> HashOfOid(digest)
    BY <1>2, Pkcs1Hash
  <2> QED
    BY <2>1, <2>2, <2>3 DEF TrueHash, Pss
<1>3. ASSUME NEW n \in {2, 3, 4}, oid = EcdsaSha2(n)
      PROVE  HashOfSignature(oid, digest) = TrueHash(oid, pss, digest)
  <2>1. \A m \in 1 .. 4 : oid = EcdsaSha2(m) <=> n = m
    BY <1>3, OidsApart
  <2>2. \A m \in 1 .. 14 : oid # Pkcs1(m)
    BY <1>3, OidsApart
  <2>3. oid # EcdsaSha1 /\ oid # OldSha1
    BY <1>3, OidsApart
  <2>4. HashOfSignature(oid, digest) =
          CASE n = 2 -> "sha256" [] n = 3 -> "sha384" [] n = 4 -> "sha512"
    BY <1>3, EcdsaHash
  <2> QED
    BY <2>1, <2>2, <2>3, <2>4 DEF TrueHash, Pss
<1> QED
  BY <1>1, <1>2, <1>3

------------------------------------------------------------------------------
(* The CSCA.                                                               *)

(* A stable sort by one bit puts first the first element that has the bit, *)
(* or the first of all if none has it.                                     *)
LEMMA HeadOfSorted ==
  ASSUME NEW S, NEW certs \in Seq(S), certs # << >>, NEW a
  PROVE  \E i \in DOMAIN certs :
           /\ Head(SortCandidates(certs, a)) = certs[i]
           /\ \A k \in DOMAIN certs :
                /\ certs[k].algorithm = a.parent => certs[i].algorithm = a.parent
                /\ k < i => /\ certs[i].algorithm = a.parent
                            /\ certs[k].algorithm # a.parent
<1> DEFINE same == {i \in DOMAIN certs : certs[i].algorithm = a.parent}
           other == DOMAIN certs \ same
           sorted == Filter(certs, same) \o Filter(certs, other)
<1>1. same \in SUBSET DOMAIN certs /\ other \in SUBSET DOMAIN certs
  OBVIOUS
<1>2. DOMAIN certs = 1 .. Len(certs) /\ Len(certs) \in Nat /\ 1 \in DOMAIN certs
  BY EmptySeq
<1>3. SortCandidates(certs, a) = sorted
  BY Zenon DEF SortCandidates
<1>4. CASE same # {}
  <2> DEFINE i == Nth(same, 1)
  <2>1. /\ 1 \in 1 .. Cardinality(same) /\ i \in same
        /\ \A k \in same : i <= k
    BY <1>1, <1>2, <1>4, NthFirst
  <2> HIDE DEF same, other
  <2>2. /\ Filter(certs, same) \in Seq(S) /\ Filter(certs, other) \in Seq(S)
        /\ Filter(certs, same) # << >> /\ Filter(certs, same)[1] = certs[i]
    BY <1>1, <1>4, <2>1, FilterFacts
  <2>3. Head(sorted) = certs[i]
    BY <2>2
  <2> HIDE DEF i
  <2>4. i \in Int /\ \A k \in DOMAIN certs : k \in Int
    BY <1>1, <1>2, <2>1
  <2>5. \A k \in DOMAIN certs : k < i => k \notin same
    BY <2>1, <2>4
  <2> QED
    BY <1>1, <1>3, <2>1, <2>3, <2>5 DEF same
<1>5. CASE same = {}
  <2>1. other = DOMAIN certs
    BY <1>5
  <2> DEFINE i == Nth(other, 1)
  <2>2. /\ 1 \in 1 .. Cardinality(other) /\ i \in other
        /\ \A k \in other : i <= k
    BY <1>1, <1>2, <2>1, NthFirst
  <2> HIDE DEF same, other
  <2>3. /\ Filter(certs, same) = << >> /\ Filter(certs, other) \in Seq(S)
        /\ Filter(certs, other) # << >> /\ Filter(certs, other)[1] = certs[i]
    BY <1>1, <1>2, <1>5, <2>1, <2>2, FilterFacts
  <2>4. Head(sorted) = certs[i]
    BY <2>3
  <2> HIDE DEF i
  <2>5. i \in Int /\ \A k \in DOMAIN certs : k \in Int
    BY <1>1, <1>2, <2>2
  <2>6. \A k \in DOMAIN certs : ~(k < i)
    BY <2>1, <2>2, <2>5
  <2>7. \A k \in DOMAIN certs : certs[k].algorithm # a.parent
    BY <1>5 DEF same
  <2> QED
    BY <1>1, <1>3, <2>2, <2>4, <2>6, <2>7
<1> QED
  BY <1>4, <1>5
(* The CSCA that is chosen is a best one, in the sense of CscaBest.        *)
LEMMA ChosenIsBest ==
  ASSUME NEW S, certificates \in Seq(S), certificates # << >>,
         csca = ResolveCsca(analysis, certificates), csca # None
  PROVE  CscaBest
<1> DEFINE N == {i \in DOMAIN certificates : certificates[i].country = analysis.country}
           country == National(analysis, certificates)
           K == {i \in DOMAIN country : analysis.aki # None /\ country[i].ski = analysis.aki}
           keyed == WithKey(analysis, country)
           key(x) == analysis.aki # None /\ x.ski = analysis.aki
           same(x) == x.algorithm = analysis.parent
<1>1. country = Filter(certificates, N) /\ N \in SUBSET DOMAIN certificates
  BY Zenon DEF National
<1>2. keyed = Filter(country, K) /\ K \in SUBSET DOMAIN country
  BY Zenon DEF WithKey
<1>3. \A i \in DOMAIN certificates :
        i \in N <=> certificates[i].country = analysis.country
  OBVIOUS
<1>4. \A i \in DOMAIN country : i \in K <=> key(country[i])
  BY Zenon
<1>5. country # << >>
      /\ csca = Head(SortCandidates(IF keyed # << >> THEN keyed ELSE country, analysis))
  BY Zenon DEF ResolveCsca
<1> HIDE DEF N, K, country, keyed
<1>6. country \in Seq(S)
  BY <1>1, FilterFacts
<1>7. keyed \in Seq(S) /\ (keyed = << >> <=> K = {})
  BY <1>2, <1>6, FilterFacts
<1>8. PICK national \in [DOMAIN country -> N] :
        /\ \A k \in DOMAIN national : country[k] = certificates[national[k]]
        /\ \A k, m \in DOMAIN national : k < m <=> national[k] < national[m]
        /\ \A i \in N : \E k \in DOMAIN national : national[k] = i
  BY <1>1, FilterPositions
\* It is enough to find the best of the country.
<1>9. ASSUME NEW i \in DOMAIN country, csca = country[i],
             \A k \in DOMAIN country :
               /\ ~Better(country[k], csca)
               /\ k < i => Better(csca, country[k])
      PROVE  CscaBest
  <2>1. /\ national[i] \in DOMAIN certificates /\ certificates[national[i]] = csca
        /\ csca.country = analysis.country
    BY <1>1, <1>3, <1>8, <1>9
  <2>2. ASSUME NEW j \in DOMAIN certificates,
               certificates[j].country = analysis.country
        PROVE  /\ ~Better(certificates[j], csca)
               /\ j < national[i] => Better(csca, certificates[j])
    <3>1. PICK k \in DOMAIN country : national[k] = j /\ country[k] = certificates[j]
      BY <1>3, <1>8, <2>2
    <3>2. j < national[i] => k < i
      BY <1>8, <3>1
    <3> QED
      BY <1>9, <3>1, <3>2
  <2> QED
    BY <2>1, <2>2 DEF CscaBest
<1>10. CASE keyed = << >>
  <2>1. csca = Head(SortCandidates(country, analysis)) /\ country \in Seq(S) /\ country # << >>
    BY <1>5, <1>6, <1>10, Zenon
  <2>2. \E i \in DOMAIN country :
          /\ Head(SortCandidates(country, analysis)) = country[i]
          /\ \A k \in DOMAIN country :
               /\ same(country[k]) => same(country[i])
               /\ k < i => same(country[i]) /\ ~same(country[k])
    BY <2>1, HeadOfSorted
  <2>3. PICK i \in DOMAIN country :
          /\ csca = country[i]
          /\ \A k \in DOMAIN country :
               /\ same(country[k]) => same(country[i])
               /\ k < i => same(country[i]) /\ ~same(country[k])
    BY <2>1, <2>2, Zenon
  <2>4. \A k \in DOMAIN country : ~key(country[k])
    BY <1>4, <1>7, <1>10
  <2> QED
    BY <1>9, <2>3, <2>4 DEF Better
<1>11. CASE keyed # << >>
  <2>1. csca = Head(SortCandidates(keyed, analysis)) /\ keyed \in Seq(S) /\ keyed # << >>
    BY <1>5, <1>7, <1>11, Zenon
  <2>2. \E i \in DOMAIN keyed :
          /\ Head(SortCandidates(keyed, analysis)) = keyed[i]
          /\ \A k \in DOMAIN keyed :
               /\ same(keyed[k]) => same(keyed[i])
               /\ k < i => same(keyed[i]) /\ ~same(keyed[k])
    BY <2>1, HeadOfSorted
  <2>3. PICK i \in DOMAIN keyed :
          /\ csca = keyed[i]
          /\ \A k \in DOMAIN keyed :
               /\ same(keyed[k]) => same(keyed[i])
               /\ k < i => same(keyed[i]) /\ ~same(keyed[k])
    BY <2>1, <2>2, Zenon
  <2>4. PICK at \in [DOMAIN keyed -> K] :
          /\ \A k \in DOMAIN at : keyed[k] = country[at[k]]
          /\ \A k, m \in DOMAIN at : k < m <=> at[k] < at[m]
          /\ \A j \in K : \E k \in DOMAIN at : at[k] = j
    BY <1>2, <1>6, FilterPositions
  <2>5. at[i] \in DOMAIN country /\ csca = country[at[i]] /\ key(csca)
    BY <1>2, <1>4, <2>3, <2>4
  <2>6. ASSUME NEW j \in DOMAIN country
        PROVE  /\ ~Better(country[j], csca)
               /\ j < at[i] => Better(csca, country[j])
    <3>1. CASE ~key(country[j])
      BY <2>5, <3>1 DEF Better
    <3>2. CASE key(country[j])
      <4>1. PICK k \in DOMAIN keyed : at[k] = j /\ keyed[k] = country[j]
        BY <1>4, <2>4, <3>2
      <4>2. j < at[i] => k < i
        BY <2>4, <4>1
      <4> QED
        BY <2>3, <2>5, <3>2, <4>1, <4>2 DEF Better
    <3> QED
      BY <3>1, <3>2
  <2> QED
    BY <1>9, <2>5, <2>6
<1> QED
  BY <1>10, <1>11
------------------------------------------------------------------------------
(* The two planners.                                                       *)

(* They ask for the same circuits, whatever the fields and the keys, unless *)
(* a value is one they read differently.                                   *)
LEMMA PlannersAsk ==
  ASSUME NEW q, ~OddValue(q), NEW circuit
  PROVE  RustAsks(q, circuit) <=> ScriptAsks(q, circuit)
<1>1. ASSUME NEW f, NEW key, Has(q, f, key)
      PROVE  /\ key # "disclose" \/ f = "age" => Truthy(q[f][key])
             /\ key = "disclose" => q[f][key] # "some"
  BY <1>1 DEF OddValue, Has
<1>2. \A f, key : HasTruthy(q, f, key) <=> Has(q, f, key) /\ Truthy(q[f][key])
  BY DEF HasTruthy
<1>3. ASSUME NEW f
      PROVE  /\ Has(q, f, "eq") <=> HasTruthy(q, f, "eq")
             /\ Has(q, f, "disclose") /\ q[f]["disclose"] = "true"
                  <=> HasTruthy(q, f, "disclose")
  BY <1>1, <1>2 DEF Truthy
<1>4. \A f : /\ Has(q, f, "in") <=> HasTruthy(q, f, "in")
             /\ Has(q, f, "out") <=> HasTruthy(q, f, "out")
  BY <1>1, <1>2
<1>5. AgeAsked(q) <=>
        \/ \E key \in {"gte", "eq"} : Has(q, "age", key) /\ q["age"][key] # "null"
        \/ HasTruthy(q, "age", "disclose")
  BY <1>1, <1>2 DEF AgeAsked, AgeKeys, Truthy
<1>6. (\E f \in DOMAIN q : Has(q, f, "eq")
         \/ (Has(q, f, "disclose") /\ q[f]["disclose"] = "true"))
      <=> \E f \in DOMAIN q : HasTruthy(q, f, "eq") \/ HasTruthy(q, f, "disclose")
  BY <1>3
<1> QED
  BY <1>4, <1>5, <1>6 DEF RustAsks, ScriptAsks

LEMMA PlannersAgree ==
  ASSUME NEW q, ~OddValue(Normalized(q))
  PROVE  RustPlan(q) = ScriptPlan(q)
<1> DEFINE rust == {i \in DOMAIN Circuits : RustAsks(Normalized(q), Circuits[i])}
           script == {i \in DOMAIN Circuits : ScriptAsks(Normalized(q), Circuits[i])}
<1>1. \A i \in DOMAIN Circuits :
        RustAsks(Normalized(q), Circuits[i]) <=> ScriptAsks(Normalized(q), Circuits[i])
  BY PlannersAsk
<1>2. rust = script
  BY <1>1, Zenon
<1> QED
  BY <1>2, Zenon DEF RustPlan, ScriptPlan

------------------------------------------------------------------------------
(* The invariant: what was computed, and from what, as far as it is kept.  *)

IInv ==
  /\ pc \in {"script", "analyze", "resolve csca", "plan", "resolve", "jobs", "error"}
  /\ document # None => document \in Documents /\ analysis = Analyzed(document)
  /\ certificates # << >> =>
       certificates \in CertificateFiles /\ csca = ResolveCsca(analysis, certificates)
  /\ pc \notin {"script", "error"} => planned = ScriptPlan(query)
  /\ pc \in {"resolve", "jobs"} => plan = RustPlan(query)
  /\ pc \in {"script", "analyze", "resolve csca"} => certificates = << >>
  /\ pc \in {"script", "analyze"} => document = None
  /\ pc = "jobs" => resolved = Names(analysis, csca, plan)

LEMMA InitIInv == Init => IInv
BY DEF Init, IInv

LEMMA StepIInv == IInv /\ [Next]_vars => IInv'
<1> SUFFICES ASSUME IInv, [Next]_vars
             PROVE  IInv'
  OBVIOUS
<1> USE DEF IInv, Advance
<1>1. CASE RunScript
  BY <1>1 DEF RunScript
<1>2. CASE AnalyzeDocument
  BY <1>2 DEF AnalyzeDocument
<1>3. CASE ChooseCsca
  BY <1>3 DEF ChooseCsca
<1>4. CASE PlanRequest
  BY <1>4 DEF PlanRequest
<1>5. CASE ResolveCircuits
  BY <1>5 DEF ResolveCircuits
<1>6. CASE UNCHANGED vars
  BY <1>6 DEF vars
<1> QED
  BY <1>1, <1>2, <1>3, <1>4, <1>5, <1>6 DEF Next

LEMMA Invariant == Spec => []IInv
BY InitIInv, StepIInv, PTL DEF Spec

------------------------------------------------------------------------------
(* The properties.                                                         *)

(* Whatever the layout of the SOD, what is read is what the document has:  *)
(* analysis.rs picks the signature's algorithm and the hash of the data    *)
(* groups by the tags and positions of their fields.                       *)
THEOREM ReadsSod == Spec => []SodReadRight
<1>1. IInv => SodReadRight
  <2> SUFFICES ASSUME IInv, document # None, document.certs # << >>
               PROVE  /\ ParseSod(document) # None
                      /\ ParseSod(document).signature = document.signature
                      /\ ParseSod(document).lds = document.lds
    BY Zenon DEF SodReadRight
  <2>1. ParseSod(document) = Sod(document) /\ document \in Documents
    BY SodRead DEF IInv
  <2>2. Sod(document) # None
    BY <2>1, DocumentAssumption DEF Sod
  <2> QED
    BY <2>1, <2>2 DEF Sod
<1> QED
  BY <1>1, Invariant, PTL

(* The circuits are chosen for the hashes that the document's signatures   *)
(* were made with, except where the code cannot know them from what it     *)
(* reads (Unclear, or digests that differ from the signer's).              *)
THEOREM HashesRight == Spec => []HashesExplained
<1>1. IInv => HashesExplained
  <2> SUFFICES ASSUME IInv, document # None, analysis # None
               PROVE  LET dsc == Head(document.certs) IN
                      /\ analysis.dscHash = TrueHash(dsc.signature, dsc.pss, << >>)
                           \/ Unclear(dsc.signature)
                      /\ analysis.sodHash = TrueHash(document.signature, document.pss,
                                                     document.signerDigest)
                           \/ Unclear(document.signature)
                           \/ Head(document.digests) # document.signerDigest
    BY Zenon DEF HashesExplained
  <2> DEFINE dsc == Head(document.certs)
  <2>1. document \in Documents /\ analysis = Analyzed(document)
    BY DEF IInv
  <2>2. document.certs # << >> /\ ParseSod(document) = Sod(document)
    BY <2>1, SodRead DEF Analyzed
  <2>3. /\ analysis.dscHash = HashOfSignature(dsc.signature, << >>)
        /\ analysis.sodHash = HashOfSignature(document.signature, Head(document.digests))
    BY <2>1, <2>2 DEF Analyzed, Sod
  <2>4. document.signature \in SignatureOids /\ dsc.signature \in SignatureOids
    BY <2>1, <2>2, DocumentAssumption
  <2> QED
    BY <2>3, <2>4, HashIsTrue
<1> QED
  BY <1>1, Invariant, PTL

(* The CSCA is the best certificate of the DSC's country in a file of any  *)
(* length, and the first of the best: certificates.rs filters, sorts and   *)
(* takes the first.                                                        *)
THEOREM BestCsca == Spec => []CscaBest
<1>1. IInv => CscaBest
  <2> HAVE IInv
  <2>1. CASE certificates # << >> /\ csca # None
    <3>1. certificates \in CertificateFiles
      BY <2>1, Zenon DEF IInv
    <3>2. certificates \in Seq({certificates[i] : i \in DOMAIN certificates})
      BY <3>1, DocumentAssumption, Zenon
    <3> QED
      BY <2>1, <3>2, ChosenIsBest DEF IInv
  <2>2. CASE ~(certificates # << >> /\ csca # None)
    BY <2>2 DEF CscaBest
  <2> QED
    BY <2>1, <2>2
<1> QED
  BY <1>1, Invariant, PTL

(* The outer circuit looked up in the manifest counts the jobs that the    *)
(* script makes, for every query without a value the planners disagree     *)
(* about.                                                                  *)
THEOREM CountsJobs == Spec => []OuterCountsJobs
<1>1. IInv => OuterCountsJobs
  <2> SUFFICES ASSUME IInv, pc = "jobs", ~OddValue(Normalized(query))
               PROVE  resolved.outer[2] = 3 + Len(planned)
    BY Zenon DEF OuterCountsJobs
  <2>1. planned = plan
    BY PlannersAgree DEF IInv
  <2>2. resolved = Names(analysis, csca, plan)
    BY DEF IInv
  <2> QED
    BY <2>1, <2>2 DEF Names
<1> QED
  BY <1>1, Invariant, PTL
=============================================================================
