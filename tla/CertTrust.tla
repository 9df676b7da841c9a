------------------------------ MODULE CertTrust ------------------------------
(***************************************************************************)
(* Certificates as the signature SDK sees them (sign-sdk/src/asn1/         *)
(* certificate.cpp, crl.cpp, ocsp_request.cpp, cert_store.cpp): validity,  *)
(* the store of CA certificates keyed by a weak hash, one link of a chain, *)
(* and what an OCSP answer or a CRL is worth.  Everything here is a        *)
(* function of its arguments; SignVerify runs it step by step.             *)
(*                                                                         *)
(* Times are ticks of one clock.  A key stands for whoever holds it, so    *)
(* "signed by key k" is the field value k.                                 *)
(***************************************************************************)
EXTENDS Naturals, Integers, Sequences, FiniteSets, SequencesExt

CONSTANTS
    Certs,      \* certificate -> record (CertRecord)
    Bucket,     \* key identifier or name -> value of getHash
    BuiltIn,    \* the certificates compiled in (CieCaCerts::kAll), in order
    RevokedAt,  \* certificate -> tick from which its issuer counts it revoked
    OnHold,     \* certificates whose revocation reason is certificateHold
    Talkers,    \* certificates that may be enclosed in an OCSP answer
    CrlLife,    \* nextUpdate - thisUpdate of a CRL
    MaxNow,     \* last tick of a run
    NoId,       \* an absent key identifier
    Null        \* no certificate

Keys == {Certs[c].key : c \in DOMAIN Certs} \cup {Certs[c].signedBy : c \in DOMAIN Certs}

CertRecord == [subject: STRING, issuer: STRING, ski: STRING, aki: STRING,
               serial: Nat, key: STRING, signedBy: STRING, consistent: BOOLEAN,
               from: Int, to: Int, nonRep: BOOLEAN, qc: BOOLEAN, eku: BOOLEAN,
               ocsp: BOOLEAN, dps: Nat]

ASSUME CertAssumption == /\ Certs \in [DOMAIN Certs -> CertRecord]
                         /\ Null \notin DOMAIN Certs
                         /\ \A c \in DOMAIN Certs :
                              {Certs[c].subject, Certs[c].issuer}
                                 \cup ({Certs[c].ski, Certs[c].aki} \ {NoId}) \subseteq DOMAIN Bucket
                         /\ BuiltIn \in Seq(DOMAIN Certs)
                         /\ RevokedAt \in [DOMAIN Certs -> Nat]
                         /\ OnHold \subseteq DOMAIN Certs
                         /\ Talkers \subseteq DOMAIN Certs
                         /\ CrlLife \in Nat /\ MaxNow \in Nat

-----------------------------------------------------------------------------
(***************************************************************************)
(* One certificate.                                                        *)
(***************************************************************************)
isValid(c, t) == t <= Certs[c].to /\ t >= Certs[c].from

isNonRepudiation(c) == Certs[c].nonRep

isQualified(c) == isNonRepudiation(c) /\ Certs[c].qc

\* isSHA256 compares the certificate's signatureAlgorithm (an
\* ...WithRSAEncryption identifier) with the plain SHA-256 identifier: the two
\* are never equal, so the bit VERIFIED_CERT_SHA256 is never set.
isSHA256(c) == FALSE

SelfIssued(c) == Certs[c].issuer = Certs[c].subject

\* CCertificate::verifySignature: the recovered block is exactly one
\* DigestInfo, its hash is the one declared, and the digest is right.
verifySignature(c, ca) == Certs[c].consistent /\ Certs[c].signedBy = Certs[ca].key

-----------------------------------------------------------------------------
(***************************************************************************)
(* CCertStore: a map from the hash of a key identifier (or of a name) to   *)
(* one certificate.                                                        *)
(***************************************************************************)
EmptyStore == [b \in {Bucket[x] : x \in DOMAIN Bucket} |-> Null]

SubjectHash(c) == Bucket[IF Certs[c].ski # NoId THEN Certs[c].ski ELSE Certs[c].subject]

IssuerHash(c) == Bucket[IF Certs[c].aki # NoId THEN Certs[c].aki ELSE Certs[c].issuer]

AddCertificate(store, c) == [store EXCEPT ![SubjectHash(c)] = c]

LoadBuiltInCieCertificates(store) == FoldLeft(AddCertificate, store, BuiltIn)

GetCertificate_NoSerial(store, c) ==
    LET ca == store[IssuerHash(c)]
    IN  IF ca # Null /\ Certs[ca].subject = Certs[c].issuer THEN ca ELSE Null

\* The issuer of c: the certificate in its bucket, when it is another
\* certificate, has the issuer's name and, if c names a key, has that key's
\* identifier.
GetCertificate(store, c) ==
    LET ca == store[IssuerHash(c)]
    IN  IF /\ ca # Null
           /\ Certs[ca].serial # Certs[c].serial
           /\ Certs[ca].subject = Certs[c].issuer
           /\ Certs[c].aki # NoId => Certs[ca].ski = Certs[c].aki
        THEN ca ELSE Null

-----------------------------------------------------------------------------
(***************************************************************************)
(* OCSP.  An answer is [kind |-> "none"] (HTTPRequest failed, timed out or *)
(* brought nothing), "garbled" (not the ASN.1 expected), "refused" (a      *)
(* responseStatus other than 0), or a BasicOCSPResponse: by whom it is     *)
(* signed (a key, with the delegated responder certificate enclosed, if    *)
(* any), which certificate its first SingleResponse is about, when it was  *)
(* made and what it says.                                                  *)
(***************************************************************************)
Statuses == {"GOOD", "REVOKED", "SUSPENDED", "UNKNOWN", "NOTLOADED"}

Revoked(c, t) == RevokedAt[c] <= t

\* What the issuer of c, or a responder it delegates, says of c at time t.
Truth(c, t) == IF ~Revoked(c, t) THEN {"good", "unknown"}
               ELSE IF c \in OnHold THEN {"hold"} ELSE {"revoked", "no_reason"}

Says == {"good", "unknown", "hold", "revoked", "no_reason", "undefined"}

HasExtendedKeyUsage(c) == Certs[c].eku

\* The answer is signed by the issuer in the store, or by a certificate
\* enclosed that this issuer signed for OCSP.
VerifyOCSPResponderSignature(store, c, a) ==
    LET ca == GetCertificate(store, c)
    IN  /\ ca # Null
        /\ \/ a.by = Certs[ca].key
           \/ /\ a.cert # Null
              /\ verifySignature(a.cert, ca)
              /\ HasExtendedKeyUsage(a.cert)
              /\ a.by = Certs[a.cert].key

MatchesCertID_Any(c, d) == TRUE

\* The CertID of the answer, of certificate d, is the one a request for c
\* carries: same issuer name, issuer key identifier and serial number.
MatchesCertID(c, d) == /\ Certs[d].issuer = Certs[c].issuer
                       /\ Certs[d].aki = Certs[c].aki
                       /\ Certs[d].serial = Certs[c].serial

\* verifyStatus's switch over certStatus: the status it returns (UNKNOWN goes
\* on to the CRL) and the one it leaves in the REVOCATION_INFO, whose value
\* before is old.  A certStatus that is none of the three alternatives leaves
\* inner_status as it was, the responseStatus 0, which is also the number of
\* REVOCATION_STATUS_GOOD.
OcspReturns(says) == CASE says = "good"      -> "GOOD"
                       [] says = "hold"      -> "SUSPENDED"
                       [] says = "revoked"   -> "REVOKED"
                       [] says = "no_reason" -> "REVOKED"
                       [] says = "unknown"   -> "UNKNOWN"
                       [] says = "undefined" -> "GOOD"

OcspInfo(says, old) == IF says \in {"no_reason", "unknown", "undefined"} THEN old ELSE OcspReturns(says)

\* The responses a network may hand to a request about c at time t: the
\* normal one is made now by the issuer's responder; the odd ones are old,
\* about another certificate, signed by somebody else, or with a certStatus
\* that does not exist.
Failures == {[kind |-> k] : k \in {"none", "garbled", "refused"}}

Responders(c) == {[by |-> Certs[c].signedBy, cert |-> Null]}
                   \cup {[by |-> Certs[d].key, cert |-> d] : d \in Talkers}

Response(r, about, made, says) ==
    [kind |-> "response", by |-> r.by, cert |-> r.cert,
     about |-> about, made |-> made, says |-> says]

\* Whether a responder, or an answer, speaks for the issuer of certificate d.
Authorised(r, d) == \/ r.by = Certs[d].signedBy
                    \/ /\ r.cert # Null
                       /\ r.by = Certs[r.cert].key
                       /\ Certs[r.cert].signedBy = Certs[d].signedBy
                       /\ Certs[r.cert].eku

NormalOcsp(c, t) == {Response([by |-> Certs[c].signedBy, cert |-> Null], c, t, s)
                       : s \in Truth(c, t)}

OddOcsp(c, t) ==
    Failures \cup
    {a \in {Response(r, d, u, s) : r \in Responders(c), d \in Talkers \cup {c}, u \in 0..t,
                                  s \in Says} :
        a.says \in {"undefined"} \cup IF Authorised(a, a.about) THEN Truth(a.about, a.made)
                                     ELSE {"good", "revoked"}}

-----------------------------------------------------------------------------
(***************************************************************************)
(* CRLs.  An answer is a failure or a list signed by a key at a time, in   *)
(* one of the forms that X.509 allows and that CCrl, which takes the       *)
(* fields by their number, tells apart without knowing it:                 *)
(*   utc          version 2, nextUpdate a UTCTime: the form it is made for *)
(*   generalized  version 2, nextUpdate a GeneralizedTime                  *)
(*   no_next      version 2 without nextUpdate                             *)
(*   v1           no version field: nextUpdate stands where thisUpdate is  *)
(*                looked for, the list where nextUpdate is                 *)
(***************************************************************************)
CrlForms == {"utc", "generalized", "no_next", "v1"}

CrlBy(k, made, form) == [kind |-> "crl", by |-> k, made |-> made, form |-> form]

NormalCrl(c, t) == {CrlBy(Certs[c].signedBy, t, "utc")}

OddCrl(c, t) == {[kind |-> k] : k \in {"none", "garbled"}}
                  \cup {CrlBy(k, u, form) : k \in Keys, u \in 0..(t + 1), form \in CrlForms}

CrlVerifySignature(crl, ca) == crl.by = Certs[ca].key

\* Field 3, taken for thisUpdate, also for szThisUpdate.
ThisUpdate(crl) == IF crl.form = "v1" THEN crl.made + CrlLife ELSE crl.made

\* Field 4 bounds the list when it is there and is a UTCTime, and only then.
isCurrent(crl, t) == /\ t >= ThisUpdate(crl)
                     /\ crl.form = "utc" => t <= crl.made + CrlLife

\* The list a key published: the certificates it issued that were revoked
\* when it was made.  Serial numbers are compared, nothing else.
ListedSerials(crl) == {Certs[d].serial : d \in {e \in DOMAIN Certs :
                         Certs[e].signedBy = crl.by /\ Revoked(e, crl.made)}}

\* Field 5 is taken for revokedCertificates: without nextUpdate it holds the
\* extensions, in version 1 nothing, and no certificate is found there.
isRevoked(crl, c) == /\ crl.form \in {"utc", "generalized"}
                     /\ Certs[c].serial \in ListedSerials(crl)

\* An issuer revokes what it issued, by name, key identifier and serial
\* number: a certificate that names a compiled-in issuer which did not sign it
\* is on nobody's list, and does not have the number of one that is.
ASSUME RevocationAssumption ==
    /\ \A c, d \in DOMAIN Certs :
          /\ Certs[c].issuer = Certs[d].issuer /\ Certs[c].aki = Certs[d].aki
          /\ Certs[c].serial = Certs[d].serial
          => RevokedAt[c] = RevokedAt[d]
    /\ \A c \in DOMAIN Certs, ca \in Range(BuiltIn) :
          /\ Certs[ca].subject = Certs[c].issuer
          /\ Certs[c].aki # NoId => Certs[ca].ski = Certs[c].aki
          /\ Certs[c].signedBy # Certs[ca].key
          => RevokedAt[c] > MaxNow

\* *pReason: what isRevoked leaves in the REVOCATION_INFO.
CrlReason(crl, c) ==
    IF ~isRevoked(crl, c) THEN "GOOD"
    ELSE IF \E d \in OnHold : Certs[d].signedBy = crl.by /\ Certs[d].serial = Certs[c].serial
    THEN "SUSPENDED" ELSE "REVOKED"

-----------------------------------------------------------------------------
(***************************************************************************)
(* What a chain of trust is, independently of the store.                   *)
(***************************************************************************)
\* c is linked to ca as a chain link should be.
Link(c, ca) == Certs[c].signedBy = Certs[ca].key /\ Certs[c].issuer = Certs[ca].subject

Anchors == {a \in Range(BuiltIn) : SelfIssued(a) /\ Certs[a].signedBy = Certs[a].key}

\* The certificates with a path of links over compiled-in ones to an anchor.
TrustedCerts == {c \in DOMAIN Certs :
                   \E n \in 1..Len(BuiltIn) : \E path \in [1..n -> Range(BuiltIn)] :
                      /\ Link(c, path[1])
                      /\ \A i \in 1..(n - 1) : Link(path[i], path[i + 1])
                      /\ path[n] \in Anchors}
Trusted(c) == c \in TrustedCerts
=============================================================================
