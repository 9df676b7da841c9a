------------------------------ MODULE SignVerify ------------------------------
(***************************************************************************)
(* Verification of signed documents (sign-sdk/src/cie_sign_api.cpp, asn1/  *)
(* signer_info.cpp, signed_document.cpp, pdf_verifier.cpp,                 *)
(* xades_verifier.cpp) and the wrappers around it (pkcs11/src/sign/        *)
(* cie_verify.cpp, pkcs11/src/csp/cie_verify_csp.cpp).                     *)
(*                                                                         *)
(* One thread verifies one file at a time.  A verification is a list of    *)
(* jobs, one per signature, countersignature or timestamp token; a job     *)
(* looks at the certificate, asks the network for its status, walks the    *)
(* chain in the store asking again for each CA, checks the signature and   *)
(* writes its entry of the VERIFY_RESULT.  The clock and the network move  *)
(* between these steps.                                                    *)
(*                                                                         *)
(* A bit mask is the set of the names of its bits.                         *)
(***************************************************************************)
EXTENDS CmsSignature

CONSTANTS
    Docs,       \* file -> record (see DocRecord)
    NoFile,     \* the empty path
    MaxOdd,     \* abnormal answers of the network in one run
    MaxCalls    \* verifications in one run

VARIABLES
    store,      \* CCertStore::m_certMap
    loaded,     \* the static flag of LoadBuiltInCieCertificates
    freed,      \* CleanUp deleted the certificates the map still points at
    now,        \* the clock
    v,          \* the verifying thread
    res,        \* the VERIFY_RESULT of the last call
    ret,        \* what the last call returned
    out,        \* what cie_get_verify_info or cie_extract_p7m last answered
    odd,        \* abnormal answers so far
    calls,      \* verifications so far
    ub          \* memory that was freed or never written has been used

vars == <<store, loaded, freed, now, v, res, ret, out, odd, calls, ub>>

(***************************************************************************)
(* Documents.  nodes lists the SignerInfos in the order in which they      *)
(* stand, each countersignature after its parent: the certificate it names *)
(* (Null when it is not enclosed), the key that really signed, what was    *)
(* signed (the signed attributes or a content), what the message digest    *)
(* attribute is the digest of, and the timestamp token it carries.         *)
(* A PDF has one node per signature field, an XML file one per             *)
(* ds:Signature.  There sub tells what the signature points at:            *)
(*   detached       the whole file but the signature itself                *)
(*   part           a /ByteRange, or "#id" references, to less than that   *)
(*   outside        a /ByteRange beyond the end of the file, or no numbers *)
(*   sha1, sha1_detached    /adbe.pkcs7.sha1, with or without a content    *)
(*   other          another /SubFilter                                     *)
(*   no_rect        a field without /Rect                                  *)
(***************************************************************************)
DocRecord == [type: STRING, exists: BOOLEAN, parses: BOOLEAN, dotPdf: BOOLEAN,
              detached: BOOLEAN, content: STRING, nodes: Seq(NodeRecord),
              token: Seq(NodeRecord)]

ASSUME DocAssumption == /\ Docs \in [DOMAIN Docs -> DocRecord]
                        /\ NoFile \notin DOMAIN Docs
                        /\ MaxOdd \in Nat /\ MaxCalls \in Nat

\* Only a CMS message has countersignatures, and only it can be without its
\* content; what carries a timestamp token has one.
ASSUME ShapeAssumption ==
    \A f \in DOMAIN Docs :
       LET d == Docs[f]
       IN  /\ \A n \in DOMAIN d.nodes : d.nodes[n].parent < n
           /\ d.type \in {"pdf", "xml"} => \A n \in DOMAIN d.nodes : d.nodes[n].parent = 0
           /\ d.detached => d.type \in {"p7m", "m7m", "tsd"}
           /\ \/ d.type \in {"tsd", "tsr", "tst"} /\ d.parses
              \/ \E n \in DOMAIN d.nodes : d.nodes[n].tst
              => d.token # <<>>

AllBits == {"VALIDITY", "REVOKED", "SUSPENDED", "GOOD", "CERT_SHA256", "QUALIFIED",
            "CHAIN", "CRL_LOADED", "CT", "MD", "SC", "SIGNATURE", "SHA256",
            "CA_VALIDITY", "CA_REVOKED", "CA_SUSPENDED", "CA_GOOD", "CACRL_LOADED",
            "CA_FOUND", "KEY_USAGE"}

\* An error code stored where a bit mask is expected: -2 and -5 in two's
\* complement.
Minus2 == AllBits \ {"VALIDITY"}
Minus5 == AllBits \ {"SUSPENDED"}

\* Which file types are decided by the extension of the name.
get_file_type(f) == Docs[f].type

\* CSignedDocument's constructor: the file is a CMS SignedData.
SignedDocument(d) == d.parses

isDetached(d) == d.detached

\* PDFVerifier::Load, GetNumberOfSignatures (the signature fields with a /V)
\* and GetSignature, which wants the field's /Rect.
LoadsAsPdf(d) == d.parses
GetNumberOfSignatures(d) == Len(d.nodes)
HasRect(node) == node.sub # "no_rect"

\* The signer's certificate is not enclosed, or the /ByteRange is refused.
Throws(node) == node.cert = Null \/ node.sub = "outside"

\* CXAdESVerifier::Load: the file is XML with at least one ds:Signature.
parseXAdESFile(d) == d.exists /\ d.parses

getEmbeddedSignatureCount(d) == Cardinality({i \in DOMAIN d.nodes : d.nodes[i].parent = 0})

-----------------------------------------------------------------------------
(***************************************************************************)
(* The jobs of a document, in the order of the code: a signer, its         *)
(* countersignatures with the token of their PARENT, then its own token.   *)
(* slot says where the entry goes: <<i, 0, 0>> is the i-th SIGNER_INFO,    *)
(* <<i, n, 0>> a countersignature below it, and 1 at the end its TS_INFO.  *)
(***************************************************************************)
Job(kind, node, parent, slot) == [kind |-> kind, node |-> node, parent |-> parent, slot |-> slot]

\* verifySignature is asked about this node and this source content.
Tops(d) == {i \in DOMAIN d.nodes : d.nodes[i].parent = 0}

\* The top-level signer a node is under, and its place among the signers.
TopOf(d, n) == CHOOSE i \in Tops(d) : i <= n /\ \A j \in Tops(d) : j <= n => j <= i
Place(d, n) == Cardinality({i \in Tops(d) : i <= n})

LastUnder(d, n) == n = Len(d.nodes) \/ d.nodes[n + 1].parent = 0

CmsJobsOf(d, n) ==
    LET p == d.nodes[n].parent
        t == TopOf(d, n)
    IN  (IF p = 0 THEN <<Job("sig", n, 0, <<Place(d, n), 0, 0>>)>>
         ELSE <<Job("sig", n, p, <<Place(d, n), n, 0>>)>>
              \o (IF d.nodes[p].tst THEN <<Job("tst", 0, 0, <<Place(d, n), n, 1>>)>> ELSE <<>>))
        \o (IF LastUnder(d, n) /\ d.nodes[t].tst
            THEN <<Job("tst", 0, 0, <<Place(d, n), 0, 1>>)>> ELSE <<>>)

CmsJobs(d) == FlattenSeq([n \in DOMAIN d.nodes |-> CmsJobsOf(d, n)])

PdfJobs(d) == FlattenSeq([n \in DOMAIN d.nodes |->
    <<Job("pdf", n, 0, <<n, 0, 0>>)>>
    \o (IF d.nodes[n].tst THEN <<Job("tst", 0, 0, <<n, 0, 1>>)>> ELSE <<>>)])

XmlJobs(d) == [n \in DOMAIN d.nodes |-> Job("xml", n, 0, <<n, 0, 0>>)]

TstJob == <<Job("tst", 0, 0, <<0, 0, 1>>)>>

NodeOf(d, job) == IF job.kind = "tst" THEN d.token[1] ELSE d.nodes[job.node]

\* What the verifier compares the signature with: the signature value of the
\* parent for a countersignature; the two ranges a PDF's /ByteRange names,
\* wherever they lie in the file; for adbe.pkcs7.sha1 what the CMS message
\* encloses, the PDF itself being looked at no further; for an XML file the
\* document, or, when the references are all to fragments, these fragments.
SourceOf(node, job, content) ==
    IF job.kind = "tst" THEN "tst_info"
    ELSE IF job.parent # 0 THEN "signature_of_parent"
    ELSE IF job.kind = "pdf" /\ node.sub = "sha1" THEN "enclosed"
    ELSE IF job.kind \in {"pdf", "xml"} /\ node.sub = "part" THEN "part"
    ELSE content

-----------------------------------------------------------------------------
(***************************************************************************)
(* CSignerInfo::verifySignature, the parts that are one step.              *)
(***************************************************************************)
\* The bits of the signer's certificate at time t.
CertBits(kind, node, t) ==
    Bit("VALIDITY", isValid(node.cert, t))
      \cup Bit("QUALIFIED", isQualified(node.cert))
      \cup Bit("CERT_SHA256", isSHA256(node.cert))
      \cup Bit("KEY_USAGE", kind # "xml" /\ isNonRepudiation(node.cert))
      \cup Bit("SHA256", kind = "xml" /\ node.declared = "sha256")

\* The bits a status adds, for the signer's certificate and for a CA's.
StatusBits(kind, status) ==
    CASE status = "GOOD"      -> {"GOOD", "CRL_LOADED"}
      [] status = "REVOKED"   -> {"REVOKED", "CRL_LOADED"}
      [] status = "SUSPENDED" -> {"SUSPENDED", "CRL_LOADED"}
      [] status = "UNKNOWN"   -> IF kind = "xml" THEN {} ELSE {"CRL_LOADED"}
      [] status = "NOTLOADED" -> {}

CAStatusBits(status) ==
    CASE status = "GOOD"      -> {"CA_GOOD", "CACRL_LOADED"}
      [] status = "REVOKED"   -> {"CA_REVOKED", "CACRL_LOADED"}
      [] status = "SUSPENDED" -> {"CA_SUSPENDED", "CACRL_LOADED"}
      [] OTHER                -> {}

ChainBits_NoAnchor(bits, c) == IF c # Null THEN {"CHAIN"} ELSE {}

\* The walk ended, at certificate c, because its issuer is not in the store.
ChainBits(bits, c) == IF "CA_FOUND" \in bits /\ SelfIssued(c) /\ verifySignature(c, c)
                      THEN {"CHAIN"} ELSE {}

DigestSupported(alg) == alg \in {"sha256", "sha1"}

\* VerifyReference over every ds:Reference: supported transforms and digests
\* only, and the digest of the target, the document or the one element with
\* that Id, is the one stated.
ReferencesVerify(node, source) == DigestSupported(node.declared) /\ node.md = source

\* VerifyXmlDSigSignature, then VerifySigningCertificateDigest.
XmlSignatureBits(node, source) ==
    (IF ReferencesVerify(node, source) THEN node.attrs \cap {"MD"} ELSE {})
      \cup (node.attrs \cap {"SC"})
      \cup (IF /\ ReferencesVerify(node, source)
               /\ node.alg = node.declared
               /\ node.signed = "attributes"
               /\ node.by = Certs[node.cert].key
            THEN {"SIGNATURE"} ELSE {})

\* The end of either verifySignature, after the chain.
FinalBits(kind, node, source) == IF kind = "xml" THEN XmlSignatureBits(node, source)
                                 ELSE SignatureBits(node, source)

\* A job whose bit mask is an error code, without any verification: a CMS
\* message without content, a PDF signature of an unknown /SubFilter.
NotEvenTried(d, job) ==
    \/ job.kind = "sig" /\ job.parent = 0 /\ isDetached(d) /\ d.type = "tsd"
    \/ job.kind = "pdf" /\ d.nodes[job.node].sub \in {"other", "sha1_detached"}

ErrorMask(d, job) == IF job.kind = "pdf" /\ d.nodes[job.node].sub = "other" THEN Minus5 ELSE Minus2

-----------------------------------------------------------------------------
(***************************************************************************)
(* The state of a call.                                                    *)
(***************************************************************************)
NoInfo == [status |-> "UNKNOWN", upd |-> -1, src |-> "none", late |-> FALSE]

\* Nobody is verifying.
Idle == [pc |-> "idle", via |-> "none", file |-> NoFile, crl |-> FALSE, content |-> "none",
         jobs |-> <<>>, k |-> 1, bits |-> {}, info |-> NoInfo, pCert |-> Null,
         pCACert |-> Null, role |-> "signer", dp |-> 1, st |-> "UNKNOWN"]

\* A VERIFY_RESULT: nCount is -1 while pSignerInfos is null, done holds the
\* entries written, ts says that pTSInfo is allocated.
NoResult == [file |-> NoFile, nCount |-> -1, done |-> {}, ts |-> FALSE, nErrorCode |-> "0"]

Entry(job, bits, info) == [slot |-> job.slot, kind |-> job.kind, node |-> job.node,
                              parent |-> job.parent, bits |-> bits, info |-> info]

Written(r, slot) == \E e \in r.done : e.slot = slot

Nothing == [q |-> "none"]
NotYet == [via |-> "none", file |-> NoFile, code |-> "0"]

Init == /\ store = EmptyStore
        /\ loaded = FALSE /\ freed = FALSE
        /\ now = 0
        /\ v = Idle
        /\ res = NoResult
        /\ ret = NotYet
        /\ out = Nothing
        /\ odd = 0 /\ calls = 0
        /\ ub = FALSE

\* cie_sign_verify_init loads the compiled-in certificates, once.
verify_init == /\ loaded' = TRUE
               /\ store' = IF loaded THEN store ELSE LoadBuiltInCieCertificates(store)

\* A lookup that follows a pointer CleanUp deleted.
Dangling(c) == freed /\ store[IssuerHash(c)] # Null

-----------------------------------------------------------------------------
(***************************************************************************)
(* Return paths.  Answer ends the call with the code of the verify_*       *)
(* function; Thrown is an exception that leaves it: __CATCH answers        *)
(* UNEXPECTED and nErrorCode keeps its value.                              *)
(***************************************************************************)

\* cie_verify: the number of signers wins over any error, and an error
\* that never reached nErrorCode has been swallowed by CIEVerify::verify.
CspCode(r, code) == IF r.nCount > 0 THEN "count"
                    ELSE IF r.nErrorCode # "0" THEN r.nErrorCode ELSE "0"

Return(r, code) == /\ v' = Idle
                   /\ res' = r
                   /\ ret' = [via |-> v.via, file |-> v.file,
                              code |-> IF v.via = "csp" THEN CspCode(r, code) ELSE code]

Answer(code) == Return([res EXCEPT !.nErrorCode = code], code)

ThrownFrom_Quiet(type) == IF type = "p7m" THEN "0" ELSE "UNEXPECTED"

\* verify_p7m has a handler of its own.
ThrownFrom(type) == IF type = "p7m" THEN "INVALID_FILE" ELSE "UNEXPECTED"

\* An exception in a job.  verify_tsd swallows those of the enclosed message
\* and goes on to the token.
Throw == LET type == get_file_type(v.file)
             code == ThrownFrom(type)
         IN  IF type = "tsd" /\ v.k < Len(v.jobs)
             THEN /\ v' = [v EXCEPT !.k = Len(v.jobs)]
                  /\ UNCHANGED <<res, ret>>
             ELSE IF type = "p7m" THEN Answer(code) ELSE Return(res, code)

-----------------------------------------------------------------------------
(***************************************************************************)
(* Calls.                                                                  *)
(***************************************************************************)
\* cie_sign_verify_init, _set and _verify, with the caller's own result.
VerifyApi(f, crl, plain) ==
    /\ v.pc = "idle" /\ calls < MaxCalls
    /\ calls' = calls + 1 /\ out' = Nothing
    /\ verify_init
    /\ IF f = NoFile
       THEN /\ ret' = [via |-> "api", file |-> f, code |-> "INVALID_FILE"]
            /\ UNCHANGED <<v, res>>
       ELSE /\ v' = [Idle EXCEPT !.pc = "open", !.via = "api", !.file = f, !.crl = crl,
                                 !.content = plain]
            /\ res' = [NoResult EXCEPT !.file = f, !.nErrorCode = res.nErrorCode]
            /\ ret' = NotYet
    /\ UNCHANGED <<freed, now, odd, ub>>

\* The global result of cie_verify is emptied before anything can fail.
verifyResult_Kept == res
verifyResult == NoResult

\* cie_verify, always with revocation checks.  A proxy without a port is
\* refused before the file is opened.
cie_verify(f, proxy) ==
    /\ v.pc = "idle" /\ calls < MaxCalls
    /\ calls' = calls + 1 /\ out' = Nothing
    /\ verify_init
    /\ IF proxy = "no_port"
       THEN /\ res' = verifyResult
            /\ ret' = [via |-> "csp", file |-> f, code |-> "INVALID_SIGOPT"]
            /\ UNCHANGED v
       ELSE /\ v' = [Idle EXCEPT !.pc = "open", !.via = "csp", !.file = f, !.crl = TRUE]
            /\ res' = [verifyResult EXCEPT !.file = f]
            /\ ret' = NotYet
    /\ UNCHANGED <<freed, now, odd, ub>>

\* verify_p7m ... verify_xml up to the first signature: the entries are
\* allocated for as many signers as were counted, none of them written.
Allocated(n) == [res EXCEPT !.nCount = n]

Start(jobs, r, content) == /\ v' = [v EXCEPT !.pc = "next", !.jobs = jobs, !.content = content]
                           /\ res' = r
                           /\ UNCHANGED ret

OpenCms(d, tail, r) ==
    IF isDetached(d)
    THEN CASE v.content = "none"    -> Answer("DETACHED_PKCS7")
           [] v.content = "missing" -> Answer("FILE_NOT_FOUND")
           [] OTHER -> Start(CmsJobs(d) \o tail, r, v.content)
    ELSE Start(CmsJobs(d) \o tail, r, d.content)

verify_p7m(d) == CASE ~d.exists          -> Answer("FILE_NOT_FOUND")
                   [] ~SignedDocument(d) -> Answer("INVALID_FILE")
                   [] OTHER -> OpenCms(d, <<>>, Allocated(getEmbeddedSignatureCount(d)))

\* The parts are told apart by searching for their type up to the end of the
\* file, so a token before the message is taken for part of the message.
verify_m7m(d) == CASE ~d.exists -> Answer("FILE_NOT_FOUND")
                   [] ~d.parses -> Answer("-1") \/ Return(res, "UNEXPECTED")
                   [] OTHER -> OpenCms(d, TstJob, Allocated(getEmbeddedSignatureCount(d)))

verify_pdf(d) == CASE ~d.exists      -> Answer("FILE_NOT_FOUND")
                   [] ~LoadsAsPdf(d) -> Answer("-2")
                   [] OTHER -> Start(PdfJobs(d), Allocated(GetNumberOfSignatures(d)), d.content)

\* The enclosed message is optional; the token is not.
verify_tsd(d) == CASE ~d.exists -> Answer("FILE_NOT_FOUND")
                   [] ~d.parses -> Return(res, "UNEXPECTED")
                   [] OTHER -> Start(CmsJobs(d) \o TstJob,
                                     IF d.nodes = <<>> THEN res
                                     ELSE Allocated(getEmbeddedSignatureCount(d)),
                                     d.content)

\* verify_tst and verify_tsr allocate the TS_INFO before they parse.
verify_tsr(d) == CASE ~d.exists -> Answer("FILE_NOT_FOUND")
                   [] ~d.parses -> Return([res EXCEPT !.ts = TRUE], "UNEXPECTED")
                   [] OTHER -> Start(TstJob, [res EXCEPT !.ts = TRUE], d.content)

\* An .m7m in which no token was recognised: GetTSR reads the first byte of
\* an empty array.
M7mUndefined(d) == d.token = <<>>

\* A ds:Signature without X509Certificate leaves a pointer uninitialised,
\* and a second ds:Signature is written past an array of one.
XmlUndefined(d) == Len(d.nodes) > 1 \/ \E n \in DOMAIN d.nodes : d.nodes[n].cert = Null

verify_xml(d) == IF ~parseXAdESFile(d) THEN Answer("INVALID_FILE")
                 ELSE Start(XmlJobs(d), Allocated(Len(d.nodes)), d.content)

Open ==
    /\ v.pc = "open"
    /\ LET d == Docs[v.file]
           type == get_file_type(v.file)
       IN  /\ ub' = /\ d.exists /\ d.parses
                    /\ \/ type = "xml" /\ XmlUndefined(d)
                       \/ type = "m7m" /\ M7mUndefined(d)
           /\ CASE type = "p7m" -> verify_p7m(d)
                [] type = "m7m" -> verify_m7m(d)
                [] type = "pdf" -> verify_pdf(d)
                [] type = "tsd" -> verify_tsd(d)
                [] type \in {"tsr", "tst"} -> verify_tsr(d)
                [] type = "xml" -> verify_xml(d)
                [] OTHER -> Answer("INVALID_FILE")
    /\ UNCHANGED <<store, loaded, freed, now, out, odd, calls>>
-----------------------------------------------------------------------------
(***************************************************************************)
(* The jobs.                                                               *)
(***************************************************************************)
TheJob == v.jobs[v.k]
TheNode == NodeOf(Docs[v.file], TheJob)

\* index++ and i++: every signer has an entry of its own.
NextSlot(r, job) == job.slot

WriteEntry(bits, info) ==
    /\ res' = [res EXCEPT !.done = @ \cup {Entry([TheJob EXCEPT !.slot = NextSlot(res, TheJob)],
                                                 bits, info)},
                          !.ts = @ \/ TheJob.slot = <<0, 0, 1>>]
    /\ v' = [v EXCEPT !.pc = "next", !.k = @ + 1]
    /\ UNCHANGED ret

\* After the last job: 0, except that verify_p7m opens an input called
\* *.pdf.p7m as a PDF, which it is not.
AllDone == Answer(IF get_file_type(v.file) = "p7m" /\ Docs[v.file].dotPdf THEN "-2" ELSE "0")

\* A PDF signature without /Rect: the entries are freed.
NoRect == Return([res EXCEPT !.nCount = -1, !.done = {}, !.nErrorCode = "-4"], "-4")

\* verifySignature up to the status of the certificate.
Begin == LET bits == CertBits(TheJob.kind, TheNode, now)
             w == [v EXCEPT !.bits = bits, !.info = NoInfo, !.pCert = TheNode.cert,
                            !.role = "signer", !.dp = 1, !.st = "UNKNOWN"]
         IN  /\ v' = IF v.crl /\ "VALIDITY" \in bits
                     THEN [w EXCEPT !.pc = "ocsp"]
                     ELSE [w EXCEPT !.pc = "walk",
                                    !.pCACert = GetCertificate(store, TheNode.cert)]
             /\ ub' = (~(v.crl /\ "VALIDITY" \in bits) /\ Dangling(TheNode.cert))
             /\ UNCHANGED <<res, ret>>

NextJob ==
    /\ v.pc = "next"
    /\ IF v.k > Len(v.jobs) THEN AllDone /\ UNCHANGED ub
       ELSE IF ~HasRect(TheNode) THEN NoRect /\ UNCHANGED ub
       ELSE IF Throws(TheNode) THEN Throw /\ UNCHANGED ub
       ELSE IF NotEvenTried(Docs[v.file], TheJob)
       THEN WriteEntry(ErrorMask(Docs[v.file], TheJob), NoInfo) /\ UNCHANGED ub
       ELSE Begin
    /\ UNCHANGED <<store, loaded, freed, now, out, odd, calls>>

-----------------------------------------------------------------------------
(***************************************************************************)
(* CCertificate::verifyStatus, of the signer's certificate or of a CA's.   *)
(***************************************************************************)
Subject == IF v.role = "signer" THEN v.pCert ELSE v.pCACert

\* The walk goes on from certificate c.
WalkFrom(w, c) == [w EXCEPT !.pc = "walk", !.pCert = c, !.pCACert = GetCertificate(store, c),
                            !.role = "signer"]

\* verifyStatus returns s.
StatusIs(w, s) ==
    IF w.role = "signer"
    THEN WalkFrom([w EXCEPT !.bits = @ \cup StatusBits(TheJob.kind, s)], w.pCert)
    ELSE WalkFrom([w EXCEPT !.bits = @ \cup CAStatusBits(s)], w.pCACert)

\* Only the signer's certificate has a REVOCATION_INFO.  src, what it rests
\* on, and late, whether a list of that day had expired, are there for GoodAsOf.
SetInfo(w, status, upd, src) ==
    IF w.role = "signer"
    THEN [w EXCEPT !.info = [status |-> status, upd |-> upd, src |-> src,
                                late |-> now > upd + CrlLife]] ELSE w

GoToCrl(w) == [w EXCEPT !.pc = "crl", !.dp = 1, !.st = "UNKNOWN"]

OcspAnswer(a) ==
    IF /\ a.kind = "response"
       /\ VerifyOCSPResponderSignature(store, Subject, a)
       /\ MatchesCertID(Subject, a.about)
    THEN LET w == SetInfo(v, OcspInfo(a.says, v.info.status), a.made,
                          IF a.says = "undefined" THEN "no_status" ELSE "ocsp")
         IN  IF OcspReturns(a.says) = "UNKNOWN" THEN GoToCrl(w)
             ELSE StatusIs(w, OcspReturns(a.says))
    ELSE GoToCrl(v)

\* One distribution point: a list that cannot be had, or cannot be trusted,
\* ends the check as not loaded; the last one read decides.
CrlAnswer(a) ==
    LET ca == GetCertificate(store, Subject)
        s  == IF isRevoked(a, Subject) THEN "REVOKED" ELSE "GOOD"
    IN  CASE a.kind = "none"    -> StatusIs(v, "NOTLOADED")
          [] a.kind = "garbled" -> StatusIs(v, v.st)
          [] OTHER ->
             IF ca = Null \/ ~CrlVerifySignature(a, ca) \/ ~isCurrent(a, now)
             THEN StatusIs(v, "NOTLOADED")
             ELSE LET w == SetInfo(v, CrlReason(a, Subject), ThisUpdate(a), a.form)
                  IN  IF v.dp < Certs[Subject].dps
                      THEN [w EXCEPT !.dp = @ + 1, !.st = s]
                      ELSE StatusIs(w, s)

\* A request over the network, answered as it should be or oddly.
HTTPRequest(oddly) ==
    /\ oddly => odd < MaxOdd
    /\ odd' = IF oddly THEN odd + 1 ELSE odd

Ocsp ==
    /\ v.pc = "ocsp"
    /\ IF Certs[Subject].ocsp
       THEN \E oddly \in BOOLEAN :
               /\ HTTPRequest(oddly)
               /\ \E a \in IF oddly THEN OddOcsp(Subject, now) ELSE NormalOcsp(Subject, now) :
                     v' = OcspAnswer(a)
       ELSE v' = GoToCrl(v) /\ UNCHANGED odd
    /\ ub' = (Certs[Subject].ocsp /\ Dangling(Subject))
    /\ UNCHANGED <<store, loaded, freed, now, res, ret, out, calls>>

Crl ==
    /\ v.pc = "crl"
    /\ IF Certs[Subject].dps = 0
       THEN v' = StatusIs(v, "UNKNOWN") /\ UNCHANGED odd
       ELSE \E oddly \in BOOLEAN :
               /\ HTTPRequest(oddly)
               /\ \E a \in IF oddly THEN OddCrl(Subject, now) ELSE NormalCrl(Subject, now) :
                     v' = CrlAnswer(a)
    /\ ub' = Dangling(Subject)
    /\ UNCHANGED <<store, loaded, freed, now, res, ret, out, calls>>

\* One turn of the loop over the chain, or its end and the signature.
Walk ==
    /\ v.pc = "walk"
    /\ IF v.pCACert # Null /\ verifySignature(v.pCert, v.pCACert)
       THEN LET w == [v EXCEPT !.bits = @ \cup {"CA_FOUND"}
                                 \cup Bit("CA_VALIDITY", isValid(v.pCACert, now))]
            IN  /\ v' = IF v.crl /\ isValid(v.pCACert, now)
                        THEN [w EXCEPT !.pc = "ocsp", !.role = "ca", !.dp = 1, !.st = "UNKNOWN"]
                        ELSE WalkFrom(w, v.pCACert)
                /\ UNCHANGED <<res, ret>>
       ELSE LET source == SourceOf(TheNode, TheJob, v.content)
            IN  WriteEntry(v.bits \cup (IF v.pCACert = Null THEN ChainBits(v.bits, v.pCert) ELSE {})
                                  \cup FinalBits(TheJob.kind, TheNode, source),
                           v.info)
    /\ ub' = (v.pCACert # Null /\ Dangling(v.pCACert))
    /\ UNCHANGED <<store, loaded, freed, now, out, odd, calls>>

-----------------------------------------------------------------------------
(***************************************************************************)
(* Reading and releasing the result.                                       *)
(***************************************************************************)
\* cie_get_verify_info: an entry that was never written is whatever was in
\* memory.
Shown(bits, status) == [q |-> "info", sign |-> "SIGNATURE" \in bits,
                        cert |-> "GOOD" \in bits, status |-> status]

cie_get_verify_info(i) ==
    /\ v.pc = "idle" /\ ret.via = "csp" /\ out = Nothing
    /\ i \in 1..res.nCount
    /\ IF Written(res, <<i, 0, 0>>)
       THEN \E e \in res.done : /\ e.slot = <<i, 0, 0>>
                                /\ out' = Shown(e.bits, e.info.status)
       ELSE \E b \in SUBSET {"SIGNATURE", "GOOD"}, s \in Statuses : out' = Shown(b, s)
    /\ UNCHANGED <<store, loaded, freed, now, v, res, ret, odd, calls, ub>>

\* cie_sign_verify_cleanup_result releases every pointer of every counted
\* entry, and of the TS_INFOs, in which nobody initialises them all.
CleanupResult ==
    /\ v.pc = "idle" /\ ret.via = "api" /\ res.file # NoFile
    /\ ub' = \/ \E i \in 1..res.nCount : ~Written(res, <<i, 0, 0>>)
             \/ res.ts \/ \E e \in res.done : e.kind = "tst"
    /\ res' = [res EXCEPT !.nCount = -1, !.done = {}, !.ts = FALSE]
    /\ UNCHANGED <<store, loaded, freed, now, v, ret, out, odd, calls>>

\* cie_sign_cleanup deletes the certificates and leaves the map as it is.
CleanUp == /\ v.pc = "idle" /\ loaded /\ ~freed
           /\ freed' = TRUE
           /\ UNCHANGED <<store, loaded, now, v, res, ret, out, odd, calls, ub>>

\* cie_extract_p7m; the output file can be written, or not.
cie_extract_p7m(f) == \E writable \in BOOLEAN :
    LET d == Docs[f]
        code == CASE get_file_type(f) # "p7m" -> "INVALID_FILE"
                  [] ~d.exists                -> "FILE_NOT_FOUND"
                  [] ~SignedDocument(d)       -> "INVALID_FILE"
                  [] ~writable                -> "FILE_NOT_FOUND"
                  [] OTHER                    -> "0"
    IN  /\ v.pc = "idle" /\ calls < MaxCalls
        /\ calls' = calls + 1
        /\ verify_init
        /\ ret' = [via |-> "extract", file |-> f, code |-> code]
        /\ out' = IF code = "0" THEN [q |-> "file", content |-> getContent(d)] ELSE Nothing
        /\ UNCHANGED <<freed, now, v, res, odd, ub>>

Tick == /\ now < MaxNow
        /\ now' = now + 1
        /\ UNCHANGED <<store, loaded, freed, v, res, ret, out, odd, calls, ub>>

Step == Open \/ NextJob \/ Ocsp \/ Crl \/ Walk

\* The application calls; one call at a time.
Calls == /\ v.pc = "idle" /\ calls < MaxCalls
         /\ \/ \E f \in DOMAIN Docs \cup {NoFile}, crl \in BOOLEAN,
                  plain \in {"none", "missing", "plain"} : VerifyApi(f, crl, plain)
            \/ \E f \in DOMAIN Docs, proxy \in {"none", "no_port"} : cie_verify(f, proxy)
            \/ \E f \in DOMAIN Docs : cie_extract_p7m(f)

Next == /\ ~ub
        /\ \/ Calls
           \/ Step
           \/ \E i \in 1..3 : cie_get_verify_info(i)
           \/ CleanupResult
           \/ CleanUp
           \/ Tick

\* The verifying thread goes on: every HTTP request has a time limit.
Spec == Init /\ [][Next]_vars /\ WF_vars(~ub /\ Step)
-----------------------------------------------------------------------------
(***************************************************************************)
(* Properties.                                                             *)
(***************************************************************************)
\* The entries for which verifySignature ran, and what they are about.
Tried == {e \in res.done : ~NotEvenTried(Docs[res.file],
                                        Job(e.kind, e.node, e.parent, e.slot))}
EntryNode(e) == NodeOf(Docs[res.file], e)

\* A signature commits to a content: the certificate's key signed it, or
\* signed attributes that carry its digest.
Commits(node, source) == /\ node.by = Certs[node.cert].key
                         /\ \/ node.signed = source
                            \/ node.signed = "attributes" /\ node.md = source

\* What an entry's signature is for.  The whole of a CMS content, of a PDF
\* whose /ByteRange covers it, of an XML file with a reference to URI="".
\* VERIFIED_SIGNATURE is also given for a /ByteRange to part of a PDF, for
\* "#id" references to parts of an XML file, and for adbe.pkcs7.sha1 whatever
\* the PDF around the enclosed content says: only what was looked at is signed.
WhatItIsFor(e) == SourceOf(EntryNode(e), e, IF isDetached(Docs[res.file]) THEN "plain"
                                            ELSE Docs[res.file].content)

\* Whatever the network answered and in whatever bucket the certificates
\* fell, an entry that says VERIFIED_CERT_CHAIN has a chain of signatures to a
\* compiled-in self-signed certificate, and one that says VERIFIED_SIGNATURE
\* has a signature by the key of its certificate over what it is for (see
\* WhatItIsFor: the document, or only a part of it), a countersignature over
\* the signature it countersigns.
EntriesSound ==
    \A e \in Tried :
       /\ "CHAIN" \in e.bits => Trusted(EntryNode(e).cert)
       /\ "SIGNATURE" \in e.bits => Commits(EntryNode(e), WhatItIsFor(e))

\* A certificate reported good, in the bits or in the REVOCATION_INFO, rests on
\* an answer not from the future, and was not revoked as of the time of that
\* answer (szThisUpdate) when it is an OCSP answer with a status or a list in
\* which CCrl finds the entries; and only a list with a UTCTime nextUpdate is
\* known not to have expired.  So answers about other certificates and of
\* strangers never make it good.  An old OCSP answer does, whatever its age
\* (thisUpdate is shown, never compared with the clock), so does a list whose
\* nextUpdate is a GeneralizedTime, and nothing at all is known from a list
\* without nextUpdate, of version 1, or from a certStatus that does not exist.
GoodAsOf ==
    \A e \in Tried : "GOOD" \in e.bits \/ e.info.status = "GOOD" =>
       /\ e.info.upd \in 0..now /\ e.info.src \in CrlForms \cup {"ocsp", "no_status"}
       /\ e.info.src \in {"ocsp", "utc", "generalized"} => ~Revoked(EntryNode(e).cert, e.info.upd)
       /\ e.info.src = "utc" => ~e.info.late

\* cie_sign_verify_verify answers 0, for anything but an .tsd, only when every
\* signer it counts has its own entry, written for that signer.
ZeroMeansVerified ==
    v.pc = "idle" /\ ret.via = "api" /\ ret.code = "0" /\ ret.file = res.file
      /\ res.nCount > 0 /\ get_file_type(res.file) # "tsd" =>
         \A i \in 1..res.nCount :
            \E e \in res.done : /\ e.slot = <<i, 0, 0>>
                               /\ Docs[res.file].nodes[e.node].parent = 0
                               /\ Place(Docs[res.file], e.node) = i

\* What cie_get_sign_count and cie_get_verify_info show is about the file of
\* the last cie_verify, also when that call failed early.
AnswerIsOfThisFile ==
    v.pc = "idle" /\ ret.via = "csp" /\ res.nCount > 0 => res.file = ret.file

\* A verification ends: the walk over the store stops at a self-signed
\* certificate, and no answer of the network makes it start again.
CallReturns == v.pc # "idle" ~> (v.pc = "idle" \/ ub)

\* isSignValid, "non-zero = valid": the entry shown is of a signature that
\* commits to what it is for.
SignValidIsSigned ==
    out.q = "info" /\ out.sign =>
       \E e \in res.done : "SIGNATURE" \in e.bits /\ Commits(EntryNode(e), WhatItIsFor(e))
=============================================================================
