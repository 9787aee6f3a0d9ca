-------------------------- MODULE MCDocumentCircuits --------------------------
(* Requests over the keys the planners look at, documents over the layouts   *)
(* and the algorithms of a SOD, certificate files of up to two certificates. *)
EXTENDS DocumentCircuits, TLC

Configs(keys, values) == UNION {[ks -> values] : ks \in SUBSET keys}
Object(fields) == [form |-> "object", fields |-> fields]
MCQueries ==
  {[form |-> form, fields |-> << >>] : form \in {"null", "other", "object"}}
    \cup {Object([other |-> [eq |-> "some"]])}
    \cup {Object(fs) : fs \in
            [{"age"} -> Configs({"gte", "disclose"}, {"true", "falsy", "null"})]
       \cup [{"age", "name"} -> Configs({"eq", "disclose"}, {"true", "falsy"})]
       \cup [{"nationality"} -> Configs({"in", "out", "disclose"}, {"true", "some", "null"})]
       \cup [{"nationality", "issuing_country"} -> Configs({"in", "out"}, {"some", "falsy"})]}

Sha256 == Append(NistHash, 1)
Sha512 == Append(NistHash, 3)

Cert(signature, aki, len) ==
  [signature |-> signature, pss |-> "sha512", aki |-> aki, len |-> len,
   issuer |-> "ZK", subject |-> "ZK", spki |-> <<"RSA", 2048>>]
Document(certs, signature, digests, crls, attributes, unsigned, sid) ==
  [certs |-> certs, signature |-> signature, pss |-> "sha512",
   digests |-> digests, signerDigest |-> Sha256, lds |-> Sha256,
   crls |-> crls, attributes |-> attributes, unsigned |-> unsigned, sid |-> sid]
Rsa256 == Pkcs1(11)
\* The signatures; the layouts; the keys and the lengths.
MCDocuments ==
  {Document(<<Cert(dsc, "k1", 700)>>, sod, digests, FALSE, TRUE, FALSE, 48) :
     dsc \in SignatureOids \ {Pkcs1(1)}, sod \in SignatureOids,
     digests \in {<<Sha256>>, <<Sha512, Sha256>>}}
  \cup {Document(certs, Rsa256, <<Sha256>>, crls, attributes, unsigned, sid) :
          certs \in {<< >>, <<Cert(Rsa256, "k1", 701), Cert(Pss, "k2", 900)>>},
          crls \in BOOLEAN, attributes \in BOOLEAN, unsigned \in BOOLEAN,
          sid \in {48, 128}}
  \cup {Document(<<Cert(signature, aki, len)>>, Rsa256, <<Sha256>>, FALSE, TRUE, FALSE, 48) :
          signature \in {Rsa256, Pss}, aki \in {None, "k1", "k2"}, len \in {1201}}
  \cup {Document(<<[Cert(Rsa256, "k1", 700) EXCEPT !.spki = spki, !.issuer = c[1],
                                                  !.subject = c[2]]>>,
                 Rsa256, <<Sha256>>, FALSE, TRUE, FALSE, 48) :
          spki \in {<<"RSA", 2047>>, <<"PSS", 4096>>, <<"EC", "P-256">>,
                   <<"EC", "secp256k1">>, <<"DSA", 1024>>},
          c \in {<<"DE", "ZK">>, <<None, "DE">>, <<"DEU", None>>}}

Certificates ==
  [country : {"ZK", "DEU"}, ski : {"k1", "k2"}, algorithm : {"RSA", "RSA-PSS"},
   key : {<<"RSA", 4096>>}]
EcCertificates ==
  [country : {"ZK"}, ski : {"k1"}, algorithm : {"ECDSA"},
   key : {<<"EC", "P-256">>, <<"EC", "secp256k1">>}]
MCCertificateFiles ==
  {<<c>> : c \in Certificates \cup EcCertificates}
    \cup {<<c, d>> : c \in Certificates, d \in Certificates}
MCAlpha3 == "DE" :> "DEU"

\* All names, and those of a manifest without PSS and without four disclosures.
Names0 ==
  {<<circuit, bucket, key, hash>> :
     circuit \in {"sig_check_dsc", "sig_check_id_data"},
     bucket \in {700, 1000, 1200, 1600},
     key \in {<<scheme, n>> : scheme \in {"RSA", "PSS"}, n \in {2048, 4096}}
               \cup {<<"EC", "P-256">>},
     hash \in {"sha1", "sha224", "sha256", "sha384", "sha512"}}
  \cup {<<"data_check_integrity", sa, "sha256">> :
          sa \in {"sha1", "sha224", "sha256", "sha384", "sha512"}}
  \cup {<<"outer_evm_count", n>> : n \in 4 .. 9}
MCManifests ==
  {Names0, {name \in Names0 : name # <<"outer_evm_count", 7>>
                                /\ (Len(name) = 4 => name[3][1] = "RSA")}}
==============================================================================
