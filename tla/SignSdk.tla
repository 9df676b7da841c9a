------------------------------- MODULE SignSdk -------------------------------
(***************************************************************************)
(* Making signatures (sign-sdk/src/cie_sign_api.cpp, signature_generator   *)
(* .cpp, cie_signer.cpp, tsa_client.cpp, the PDF and XML generators) and   *)
(* the calls around it: cie_sign (pkcs11/src/sign/cie_sign.cpp, pkcs11/src *)
(* /csp/cie_sign_csp.cpp) and cie_timestamp (cie_timestamp_csp.cpp).       *)
(*                                                                         *)
(* One thread signs, step by step: it opens the card, reads the            *)
(* certificate, checks it, lets the card sign, asks the time stamping      *)
(* authority and writes the file.  Between two steps the clock moves, and  *)
(* the card, the network and the disk may fail.                            *)
(*                                                                         *)
(* A content is the sequence of the pieces it was put together from, its   *)
(* digest is itself; a path is a name with what was put around it.         *)
(***************************************************************************)
EXTENDS CmsSignature

CONSTANTS
    Inputs,      \* path -> file there at the start
    OptionSets,  \* what one round of cie_sign_sign_set calls may set
    CardCerts,   \* certificates the card may carry
    ReaderLists, \* what the readers may hold, in their order
    MaxCalls,    \* signatures and timestamps asked for in one run
    MaxFaults    \* failures of card, network and disk in one run

VARIABLES
    ctx,      \* the CIE_SIGN_CONTEXT, or NoCtx
    s,        \* the signing thread
    cardCert, \* the certificate on the card
    files,    \* path -> file
    loaded,   \* cie_sign_verify_init has filled the CCertStore
    tokens,   \* every token the time stamping authority has made
    now, ret, calls, faults

vars == <<ctx, s, cardCert, files, loaded, tokens, now, ret, calls, faults>>

NoFile == [form |-> "none", content |-> <<>>, nodes |-> <<>>, detached |-> FALSE,
           parses |-> FALSE, cut |-> FALSE]
NoCtx   == [open |-> FALSE]
NoToken == [imprint |-> <<>>, nonce |-> 0, made |-> 0]
NoSig   == [value |-> <<>>]
NoPath  == <<>>

\* A page index the document has, or one beyond its last page.
PageKinds == {"there", "beyond"}

ASSUME SignAssumption == /\ MaxCalls \in Nat /\ MaxFaults \in Nat
                         /\ CardCerts \subseteq DOMAIN Certs

Store == IF loaded THEN LoadBuiltInCieCertificates(EmptyStore) ELSE EmptyStore

-----------------------------------------------------------------------------
(***************************************************************************)
(* The signature context.                                                  *)
(***************************************************************************)
\* CSignatureGenerator as it is made.
SignatureGenerator == [made |-> TRUE, data |-> <<>>, hashes |-> 0, sigs |-> 0,
                       nodes |-> <<>>, sha256 |-> FALSE]
NoGenerator == [SignatureGenerator EXCEPT !.made = FALSE]

\* pSigner is not initialised: whatever the allocator left there.
sign_init(pSigner) ==
    [open |-> TRUE, pSigner |-> pSigner, gen |-> NoGenerator, in |-> <<>>, out |-> <<>>,
     type |-> "plain", detached |-> FALSE, verify |-> FALSE, cades |-> FALSE,
     tsa |-> "none", ias |-> FALSE, pin |-> "right", visible |-> FALSE,
     page |-> "there"]

cie_sign_sign_init ==
    /\ s.pc = "idle" /\ ctx = NoCtx
    /\ \E p \in {"null", "wild"} : ctx' = sign_init(p)
    /\ UNCHANGED <<s, cardCert, files, loaded, tokens, now, ret, calls, faults>>

sign_set(c, o) == [f \in DOMAIN c |-> IF f \in DOMAIN o THEN o[f] ELSE c[f]]

cie_sign_sign_set(o) ==
    /\ s.pc = "idle" /\ ctx.open /\ calls < MaxCalls
    /\ ctx' = sign_set(ctx, o)
    /\ UNCHANGED <<s, cardCert, files, loaded, tokens, now, ret, calls, faults>>

Idle == [pc |-> "idle", via |-> "api", no |-> 0, started |-> 0, cert |-> Null,
         dp |-> 1, st |-> "UNKNOWN", upd |-> 0, src |-> "none",
         sig |-> NoSig, tok |-> NoToken]

\* A null or wild pointer has been used: nothing is said of what follows.
Crashed == [Idle EXCEPT !.pc = "crashed"]

After(pSigner) == IF pSigner = "wild" THEN Crashed ELSE Idle

\* cie_sign_sign_cleanup closes and deletes what pSigner points at.
cie_sign_sign_cleanup ==
    /\ s.pc = "idle" /\ ctx.open
    /\ s' = After(ctx.pSigner)
    /\ ctx' = NoCtx
    /\ UNCHANGED <<cardCert, files, loaded, tokens, now, ret, calls, faults>>

\* cie_sign_verify_init, called for a verification.
VerifyInit ==
    /\ s.pc = "idle" /\ ~loaded
    /\ loaded' = TRUE
    /\ UNCHANGED <<ctx, s, cardCert, files, tokens, now, ret, calls, faults>>

-----------------------------------------------------------------------------
(***************************************************************************)
(* Ends of a call.                                                         *)
(***************************************************************************)
Init ==
    /\ ctx = NoCtx
    /\ s = Idle
    /\ cardCert \in CardCerts
    /\ files = Inputs
    /\ loaded = FALSE /\ tokens = {} /\ now = 0 /\ calls = 0 /\ faults = 0
    /\ ret = [via |-> "none", code |-> "", out |-> NoPath]

\* cie_sign: CIESign::sign cuts the code to 16 bits, and of what is left only
\* 63Cx (which -1 resembles) and 6983 are errors.
CspCode(code) == CASE code \in {"63Cx", "-1"} -> "PIN_INCORRECT"
                   [] code = "6983"           -> "PIN_LOCKED"
                   [] OTHER                   -> "OK"

\* The call ends with this code; cie_sign releases its context.
Return(c, code, out) ==
    /\ IF s.via = "csp"
       THEN /\ ctx' = NoCtx
            /\ s' = After(c.pSigner)
            /\ ret' = [via |-> "csp", code |-> CspCode(code), out |-> out]
       ELSE /\ ctx' = c
            /\ s' = Idle
            /\ ret' = [via |-> s.via, code |-> code, out |-> out]

Crash == s' = Crashed /\ UNCHANGED <<ctx, ret>>

GoOn(c, t) == ctx' = c /\ s' = t /\ UNCHANGED ret

MayFail == faults < MaxFaults /\ faults' = faults + 1

File(path) == IF path \in DOMAIN files THEN files[path] ELSE NoFile

-----------------------------------------------------------------------------
(***************************************************************************)
(* cie_sign_sign_sign: read the file, open the card.                       *)
(***************************************************************************)
\* CCIESigner::Init: the secure channel and the PIN.
SignerInit(c) == IF c.pin = "right" THEN {"0"} ELSE {"63Cx", "6983"}

ReadInput ==
    /\ s.pc = "read"
    /\ IF ctx.in = <<>> THEN Return(ctx, "INVALID_FILE", NoPath)
       ELSE IF File(ctx.in).form = "none" THEN Return(ctx, "FILE_NOT_FOUND", NoPath)
       ELSE GoOn(ctx, [s EXCEPT !.pc = "init"])
    /\ UNCHANGED <<cardCert, files, loaded, tokens, now, calls, faults>>

NewGenerator_Kept(c) == IF c.gen.made THEN c.gen ELSE SignatureGenerator

NewGenerator(c) == SignatureGenerator

\* SetPKCS7Data: what getContent makes of the content, and the signers
\* there; a file that is no CMS leaves everything empty.
SetPKCS7Data(g, f) ==
    IF f.form # "cms" \/ ~f.parses THEN g
    ELSE [g EXCEPT !.data = IF f.detached THEN @ ELSE @ \o <<getContent(f)>>,
                   !.nodes = f.nodes]

SetData(g, content) == [g EXCEPT !.data = @ \o content]

\* PdfSignatureGenerator::Load swallows its errors and leaves no document.
Loads(f) == f.form = "pdf" /\ f.parses

\* InitSignature throws when there is no such page; what goes wrong with the
\* picture is swallowed.  Without a visible signature it is the first page.
InitSignature(c) == c.visible => c.page = "there"

\* The options reach the generator, and the type decides where to go.
Route(c, g) ==
    LET f == File(c.in)
        h == [g EXCEPT !.sha256 = c.cades \/ c.type = "pdf"]
    IN  IF ~g.made \/ c.tsa = "user_only" THEN Crash
        ELSE CASE c.type = "pdf" ->
                    IF ~Loads(f) THEN Crash
                    ELSE GoOn([c EXCEPT !.gen = SetData(h, f.content)],
                              [s EXCEPT !.pc = IF c.visible THEN "name" ELSE "cert"])
               [] c.type = "p7m" -> GoOn([c EXCEPT !.gen = SetPKCS7Data(h, f)],
                                         [s EXCEPT !.pc = "cert"])
               [] c.type = "xml" -> GoOn([c EXCEPT !.gen = h], [s EXCEPT !.pc = "cert"])
               [] OTHER          -> GoOn([c EXCEPT !.gen = SetData(h, f.content)],
                                         [s EXCEPT !.pc = "cert"])

OpenCard ==
    /\ s.pc = "init"
    /\ \/ /\ ~ctx.ias
          /\ Route(ctx, ctx.gen) /\ UNCHANGED faults
       \/ /\ ctx.ias
          /\ \/ /\ UNCHANGED faults
                /\ \E code \in SignerInit(ctx) :
                      IF code = "0"
                      THEN Route([ctx EXCEPT !.pSigner = "set"], NewGenerator(ctx))
                      ELSE Return([ctx EXCEPT !.pSigner = "null", !.gen = NoGenerator], code, NoPath)
             \/ /\ MayFail
                /\ \E code \in {"sw", "-1"} :
                      Return([ctx EXCEPT !.pSigner = "null", !.gen = NoGenerator], code, NoPath)
    /\ UNCHANGED <<cardCert, files, loaded, tokens, now, calls>>

-----------------------------------------------------------------------------
(***************************************************************************)
(* The certificate.                                                        *)
(***************************************************************************)
\* An error code of Generate.  In a PDF it is only logged, and the document
\* is written with an empty signature.
GenerateFails(c, code) ==
    IF c.type = "pdf" THEN GoOn(c, [s EXCEPT !.pc = "write", !.sig = NoSig])
    ELSE Return(c, code, NoPath)

\* CCertificate::verify: the bits of a walk along the store.
verify(store, c) ==
    LET at[n \in 0..Len(BuiltIn)] ==
            IF n = 0 THEN c
            ELSE LET ca == GetCertificate(store, at[n - 1])
                 IN  IF ca # Null /\ verifySignature(at[n - 1], ca) THEN ca ELSE at[n - 1]
        last == at[Len(BuiltIn)]
    IN  Bit("CA_FOUND", last # c)
          \cup Bit("CHAIN", /\ last # c
                            /\ GetCertificate(store, last) = Null
                            /\ SelfIssued(last) /\ verifySignature(last, last))

CheckCertificate_NoChain(c) ==
    CASE ~isValid(c, now)                     -> "CERT_EXPIRED"
      [] OTHER                                -> "0"

CheckCertificate(c) ==
    CASE ~isValid(c, now)                     -> "CERT_EXPIRED"
      [] "CA_FOUND" \notin verify(Store, c)   -> "CACERT_NOTFOUND"
      [] "CHAIN" \notin verify(Store, c)      -> "CERT_INVALID"
      [] OTHER                                -> "0"

\* After the checks: an XML document must parse before it is signed.
Checked(t) ==
    IF ctx.type = "xml" /\ ~(File(ctx.in).form = "xml" /\ File(ctx.in).parses)
    THEN Return(ctx, "INVALID_FILE", NoPath)
    ELSE GoOn(ctx, [t EXCEPT !.pc = "sign"])

\* sign_pdf reads the certificate once more for a visible signature.
ReadName ==
    /\ s.pc = "name"
    /\ \/ /\ UNCHANGED faults
          /\ IF InitSignature(ctx) THEN GoOn(ctx, [s EXCEPT !.pc = "cert"])
             ELSE Return(ctx, "UNEXPECTED", NoPath)
       \/ MayFail /\ Return(ctx, "UNEXPECTED", NoPath)
    /\ UNCHANGED <<cardCert, files, loaded, tokens, now, calls>>

\* CCIESigner::GetCertificate does not catch what ReadCertCIE throws.
ReadCertificate ==
    /\ s.pc = "cert"
    /\ \/ /\ UNCHANGED faults
          /\ LET t == [s EXCEPT !.cert = cardCert]
             IN  IF ~ctx.verify THEN Checked(t)
                 ELSE IF CheckCertificate(cardCert) = "0"
                 THEN GoOn(ctx, [t EXCEPT !.pc = IF Certs[cardCert].ocsp THEN "ocsp" ELSE "crl"])
                 ELSE GenerateFails(ctx, CheckCertificate(cardCert))
       \/ MayFail /\ Return(ctx, "UNEXPECTED", NoPath)
    /\ UNCHANGED <<cardCert, files, loaded, tokens, now, calls>>

\* verifyStatus returns status, and everything but GOOD ends Generate.  upd is
\* the time and src the kind of the answer it rests on.
StatusIs(t, status) == IF status = "GOOD" THEN Checked(t) ELSE GenerateFails(ctx, "CERT_REVOKED")

OcspAnswer(a) ==
    LET t  == [s EXCEPT !.upd = a.made, !.src = IF a.says = "undefined" THEN "no_status" ELSE "ocsp"]
        st == OcspReturns(a.says)
    IN  IF /\ a.kind = "response"
           /\ VerifyOCSPResponderSignature(Store, s.cert, a)
           /\ MatchesCertID(s.cert, a.about)
           /\ st # "UNKNOWN"
        THEN StatusIs(t, st)
        ELSE GoOn(ctx, [s EXCEPT !.pc = "crl"])

\* One distribution point after the other; the last list read decides.
CrlAnswer(a) ==
    LET ca == GetCertificate(Store, s.cert)
        st == IF isRevoked(a, s.cert) THEN "REVOKED" ELSE "GOOD"
        t  == [s EXCEPT !.dp = @ + 1, !.st = st, !.upd = ThisUpdate(a), !.src = a.form]
    IN  CASE a.kind = "none"    -> StatusIs(s, "NOTLOADED")
          [] a.kind = "garbled" -> StatusIs(s, s.st)
          [] OTHER ->
             IF ca = Null \/ ~CrlVerifySignature(a, ca) \/ ~isCurrent(a, now)
             THEN StatusIs(s, "NOTLOADED")
             ELSE IF s.dp < Certs[s.cert].dps THEN GoOn(ctx, t) ELSE StatusIs(t, st)

\* verifyStatus: OCSP when the certificate names a responder, then its CRLs.
\* The answers are those of CertTrust, as SignVerify takes them.
Ocsp ==
    /\ s.pc = "ocsp"
    /\ \/ UNCHANGED faults /\ \E a \in NormalOcsp(s.cert, now) : OcspAnswer(a)
       \/ MayFail /\ \E a \in OddOcsp(s.cert, now) : OcspAnswer(a)
    /\ UNCHANGED <<cardCert, files, loaded, tokens, now, calls>>

Crl ==
    /\ s.pc = "crl"
    /\ IF Certs[s.cert].dps = 0 THEN StatusIs(s, "UNKNOWN") /\ UNCHANGED faults
       ELSE \/ UNCHANGED faults /\ \E a \in NormalCrl(s.cert, now) : CrlAnswer(a)
            \/ MayFail /\ \E a \in OddCrl(s.cert, now) : CrlAnswer(a)
    /\ UNCHANGED <<cardCert, files, loaded, tokens, now, calls>>

-----------------------------------------------------------------------------
(***************************************************************************)
(* The signature.                                                          *)
(***************************************************************************)
\* CSignerInfoGenerator: the digest attribute holds every digest ever set;
\* the signing time is an attribute when the content is enclosed.
getSignedAttributes(g, detached) ==
    [names |-> {"MD", "CT", "SC"},
     md |-> IF g.hashes = 0 THEN g.data ELSE <<"appended">>,
     at |-> IF detached THEN 0 ELSE now]

\* The signature holds every signature ever set; SHA-256 is declared, always.
SignerInfo(g, detached) ==
    LET a == getSignedAttributes(g, detached)
    IN  [parent |-> 0, cert |-> s.cert, by |-> Certs[s.cert].key, exact |-> g.sigs = 0,
         alg |-> IF g.sha256 THEN "sha256" ELSE "sha1", declared |-> "sha256",
         attrs |-> a.names, signed |-> "attributes", md |-> a.md,
         value |-> <<s.cert, g.data, a.at>>, token |-> NoToken]

Hashed(g) == [g EXCEPT !.hashes = @ + 1]

\* CCIESigner::Sign hands the card's status word, or -1, back.
Sign ==
    /\ s.pc = "sign"
    /\ LET g == ctx.gen
           c == IF ctx.type = "xml" THEN ctx ELSE [ctx EXCEPT !.gen = Hashed(g)]
       IN  \/ /\ UNCHANGED faults
              /\ IF ctx.type = "xml" THEN GoOn(ctx, [s EXCEPT !.pc = "write"])
                 ELSE GoOn([c EXCEPT !.gen.sigs = @ + 1],
                           [s EXCEPT !.sig = SignerInfo(g, ctx.detached \/ ctx.type = "pdf"),
                                     !.pc = IF ctx.tsa = "url" THEN "tsa" ELSE "write"])
           \/ /\ MayFail
              /\ \E code \in {"sw", "-1"} : GenerateFails(c, code)
    /\ UNCHANGED <<cardCert, files, loaded, tokens, now, calls>>

-----------------------------------------------------------------------------
(***************************************************************************)
(* CTSAClient.                                                             *)
(***************************************************************************)
TSTInfoNonceMatches_Any(tst, nonce) == TRUE

TSTInfoNonceMatches(tst, nonce) == tst.nonce = nonce

TSTInfoMessageImprintMatches(tst, digest) == digest # <<>> /\ tst.imprint = digest

GetTimeStampToken(a, digest, nonce) ==
    IF /\ a.kind = "token"
       /\ TSTInfoNonceMatches(a.tst, nonce)
       /\ TSTInfoMessageImprintMatches(a.tst, digest)
    THEN a.tst ELSE NoToken

\* What the request is about: a signature, or the file of cie_timestamp.
Digest == IF s.via = "timestamp" THEN <<"file", File(ctx.in).content>> ELSE s.sig.value

\* The request reaches the authority; what comes back is the token made for
\* it, or an older one, or nothing that can be used.  A token somebody else
\* made for this request would be taken too; no network does that here.
Tsa ==
    /\ s.pc = "tsa"
    /\ LET made == [imprint |-> Digest, nonce |-> s.no, made |-> now]
           Take(a) ==
              LET t == GetTimeStampToken(a, Digest, s.no)
              IN  IF t # NoToken THEN GoOn(ctx, [s EXCEPT !.tok = t, !.pc = "write"])
                  ELSE IF s.via = "timestamp" THEN Return(NoCtx, "FUNCTION_FAILED", NoPath)
                  ELSE GenerateFails(ctx, "TSA")
       IN  /\ tokens' = tokens \cup {made}
           /\ \/ Take([kind |-> "token", tst |-> made]) /\ UNCHANGED faults
              \/ /\ MayFail
                 /\ \/ \E k \in {"none", "garbled", "refused"} : Take([kind |-> k])
                    \/ \E t \in tokens : Take([kind |-> "token", tst |-> t])
    /\ UNCHANGED <<cardCert, files, loaded, now, calls>>

-----------------------------------------------------------------------------
(***************************************************************************)
(* The file.                                                               *)
(***************************************************************************)
\* The default output name is derived from the input once, and kept.
OutputFile(c) ==
    CASE c.out # <<>>                   -> c.out
      [] c.type = "xml" /\ c.detached   -> <<"signed_">> \o Append(c.in, "xml")
      [] c.type \in {"pdf", "xml"}      -> Append(c.in, c.type)
      [] OTHER                          -> Append(c.in, "p7m")

\* CreateSignedInfo: a reference to the document, with SHA-1 declared as
\* SHA-256 unless XAdES, and one to the signed properties.
CreateSignedInfo(f, xades) ==
    {[to |-> "document", md |-> f.content, exact |-> xades]}
      \cup (IF xades THEN {[to |-> "properties", md |-> <<>>, exact |-> TRUE]} ELSE {})

\* CreateQualifyingProperties computes the digest of the certificate, its
\* issuer and its serial number, and puts none of them into the properties.
CreateQualifyingProperties(c) == {}

\* CXAdESGenerator::Generate computes the signature value and the encoded
\* certificate and puts neither into the document, or, detached, into the
\* document of its own that the signature becomes.
GenerateXml(f) ==
    [f EXCEPT !.content = IF ctx.detached THEN <<>> ELSE @,
              !.detached = ctx.detached,
              !.nodes = Append(IF ctx.detached THEN <<>> ELSE @,
                               [value |-> <<>>, refs |-> CreateSignedInfo(f, ctx.cades),
                                props |-> CreateQualifyingProperties(s.cert)])]

\* CIEPdfSigner: the signature, when there is one, goes into the new field.
GeneratePdf(f) ==
    [f EXCEPT !.nodes = Append(@, IF s.sig = NoSig THEN NoSig ELSE [s.sig EXCEPT !.token = s.tok])]

\* The SignedData: detached also when there is no content.
GenerateCms(g) ==
    [form |-> "cms", content |-> IF ctx.detached THEN <<>> ELSE g.data,
     nodes |-> Append(g.nodes, [s.sig EXCEPT !.token = s.tok]),
     detached |-> ctx.detached \/ g.data = <<>>, parses |-> TRUE, cut |-> FALSE]

Output ==
    CASE s.via = "timestamp" -> [NoFile EXCEPT !.form = "token", !.nodes = <<s.tok>>]
      [] ctx.type = "xml"    -> GenerateXml(File(ctx.in))
      [] ctx.type = "pdf"    -> GeneratePdf(File(ctx.in))
      [] OTHER               -> GenerateCms(ctx.gen)

\* writeByteArrayToFile looks at fopen and not at fwrite; cie_timestamp looks
\* at both.
Write ==
    /\ s.pc = "write"
    /\ LET c    == IF s.via = "timestamp" THEN NoCtx ELSE [ctx EXCEPT !.out = OutputFile(ctx)]
           path == OutputFile(ctx)
           Put(f) == files' = [p \in DOMAIN files \cup {path} |-> IF p = path THEN f ELSE files[p]]
       IN  \/ /\ Put(Output) /\ Return(c, "0", path) /\ UNCHANGED faults
           \/ /\ MayFail
              /\ \/ /\ UNCHANGED files
                    /\ Return(c, IF s.via = "timestamp" THEN "DEVICE_ERROR" ELSE "FILE_NOT_FOUND", NoPath)
                 \/ /\ Put([Output EXCEPT !.cut = TRUE])
                    /\ Return(c, IF s.via = "timestamp" THEN "DEVICE_ERROR" ELSE "0", path)
    /\ UNCHANGED <<cardCert, loaded, tokens, now, calls>>

-----------------------------------------------------------------------------
(***************************************************************************)
(* The calls.                                                              *)
(***************************************************************************)
Began(via, pc) == [Idle EXCEPT !.pc = pc, !.via = via, !.no = calls + 1, !.started = now]

cie_sign_sign_sign ==
    /\ s.pc = "idle" /\ ctx.open /\ calls < MaxCalls
    /\ calls' = calls + 1
    /\ s' = Began("api", "read")
    /\ UNCHANGED <<ctx, cardCert, files, loaded, tokens, now, ret, faults>>

\* The options CIESign::sign sets.  Only "pdf" and "xml", in lower case, are
\* types of their own.  CIESign passes the address of an int for the page and
\* cie_sign_sign_set reads a long there, of which nPdfPage keeps an int: page is
\* what that gives, the caller's on a little-endian host and any on another.
CspOptions(in, out, type, pin, page) ==
    [ias |-> TRUE, cades |-> TRUE, pin |-> pin, in |-> in, out |-> out, verify |-> FALSE,
     type |-> IF type \in {"pdf", "xml"} THEN type ELSE "plain",
     visible |-> type = "pdf", page |-> page, detached |-> FALSE]

\* cie_sign's loop over the readers: empty ones, unknown cards and cards with
\* another PAN are passed over; the first one that is none of these decides.
FirstOf(rs) == {i \in DOMAIN rs : /\ rs[i] \in {"target", "broken"}
                                  /\ \A j \in 1..(i - 1) : rs[j] \notin {"target", "broken"}}

SignedBy(rs) == \E i \in FirstOf(rs) : rs[i] = "target"

\* A card that breaks off decides by its status word (cie_classify_sw) or by
\* what was thrown; no reader at all is an answer of its own.
NotSigned(rs) ==
    CASE rs = <<>>                -> {"TOKEN_NOT_PRESENT"}
      [] FirstOf(rs) # {}         -> {"DEVICE_ERROR", "GENERAL_ERROR", "PIN_LOCKED",
                                      "PIN_INCORRECT", "TOKEN_NOT_RECOGNIZED"}
      [] "other" \in Range(rs)    -> {"CARD_PAN_MISMATCH"}
      [] OTHER                    -> {"TOKEN_NOT_RECOGNIZED"}

\* EstablishContext fails, or one of the two ListReaders.
NoReaders == {"DEVICE_ERROR", "TOKEN_NOT_PRESENT"}

Refuse(codes) ==
    /\ \E code \in codes : ret' = [via |-> "csp", code |-> code, out |-> NoPath]
    /\ UNCHANGED <<ctx, s>>

cie_sign(in, out, type, pin, page, rs) ==
    /\ s.pc = "idle" /\ ctx = NoCtx /\ calls < MaxCalls
    /\ calls' = calls + 1
    /\ \/ pin = "short" /\ Refuse({"PIN_LEN_RANGE"}) /\ UNCHANGED faults
       \/ pin # "short" /\ MayFail /\ Refuse(NoReaders)
       \/ pin # "short" /\ ~SignedBy(rs) /\ Refuse(NotSigned(rs)) /\ UNCHANGED faults
       \/ /\ pin # "short" /\ SignedBy(rs)
          /\ \E p \in {"null", "wild"} :
                ctx' = sign_set(sign_init(p), CspOptions(in, out, type, pin, page))
          /\ s' = Began("csp", "read")
          /\ UNCHANGED <<ret, faults>>
    /\ UNCHANGED <<cardCert, files, loaded, tokens, now>>

cie_timestamp(in, out) ==
    /\ s.pc = "idle" /\ ctx = NoCtx /\ calls < MaxCalls
    /\ calls' = calls + 1
    /\ IF File(in).form = "none"
       THEN /\ ret' = [via |-> "timestamp", code |-> "DEVICE_ERROR", out |-> NoPath]
            /\ UNCHANGED <<ctx, s>>
       ELSE /\ ctx' = sign_set(sign_init("null"), [in |-> in, out |-> out])
            /\ s' = Began("timestamp", "tsa")
            /\ UNCHANGED ret
    /\ UNCHANGED <<cardCert, files, loaded, tokens, now, faults>>

Tick == /\ now < MaxNow /\ s.pc # "crashed"
        /\ now' = now + 1
        /\ UNCHANGED <<ctx, s, cardCert, files, loaded, tokens, ret, calls, faults>>

Next == \/ cie_sign_sign_init \/ cie_sign_sign_cleanup \/ cie_sign_sign_sign
        \/ \E o \in OptionSets : cie_sign_sign_set(o)
        \/ \E in \in DOMAIN Inputs \cup {<<"missing">>}, type \in {"pdf", "xml", "PDF"},
              pin \in {"right", "wrong", "short"}, page \in PageKinds, rs \in ReaderLists :
                 cie_sign(in, <<"out">>, type, pin, page, rs)
        \/ \E in \in DOMAIN Inputs \cup {<<"missing">>} : cie_timestamp(in, <<"stamp">>)
        \/ VerifyInit
        \/ ReadInput \/ OpenCard \/ ReadName \/ ReadCertificate \/ Ocsp \/ Crl
        \/ Sign \/ Tsa \/ Write
        \/ Tick

Spec == Init /\ [][Next]_vars
-----------------------------------------------------------------------------
(***************************************************************************)
(* Properties.                                                             *)
(***************************************************************************)
Ended == s.pc # "idle" /\ s'.pc = "idle"

\* The file the call wrote, and the last signature in it.
Written  == {ret'.out} \ {NoPath}
NewNode(p) == Last(files'[p].nodes)
Signed(node) == node.value # <<>>

\* cie_sign_sign_sign answers 0 for a CMS signature with CAdES only when the
\* file holds a signature by the card that our own verifier finds good over
\* the content, and for a plain file that content is the file's; the card,
\* the disk or an earlier call of the same context never leave a 0 behind
\* without it.  Two ways to get a 0 for less are left out, the write that is
\* cut short and the context whose IAS is taken away between two signatures:
\* the code notices neither.
ZeroMeansSigned ==
    [][(/\ Ended /\ s.via = "api" /\ ret'.code = "0"
        /\ ctx.ias /\ ctx.cades /\ ctx.type \in {"plain", "p7m"}) =>
         LET o == files'[ret'.out]
             content == IF ctx.type = "plain" THEN File(ctx.in).content ELSE ctx.gen.data
         IN  o.cut \/ /\ o.content = (IF ctx.detached THEN <<>> ELSE content)
                      /\ Last(o.nodes).cert = cardCert
                      /\ "SIGNATURE" \in SignatureBits(Last(o.nodes), content)]_vars

\* With CIE_SIGN_OPT_VERIFY_USER_CERTIFICATE no signature reaches a file, of
\* whatever type, by a certificate that was not valid during the call or is
\* without a chain to a compiled-in root; and none without an answer about its
\* status, as of which it was not revoked whenever the answer is an OCSP one
\* with a status or a list in which CCrl finds the entries (as in SignVerify's
\* GoodAsOf, the other answers say nothing).
CheckedBeforeSigning ==
    [][Ended /\ ctx.open /\ ctx.verify =>
         \A p \in Written : Signed(NewNode(p)) =>
            /\ \E t \in s.started..now : isValid(NewNode(p).cert, t)
            /\ Trusted(NewNode(p).cert)
            /\ s.src # "none"
            /\ s.src \in {"ocsp", "utc", "generalized"} => ~Revoked(NewNode(p).cert, s.upd)]_vars

\* A token that reaches a file, with a signature or by cie_timestamp, was
\* made during this call and for this very signature or file: an answer the
\* network kept from an earlier call is never taken.  A CMS signature asked
\* for with a TSA has one.  That the token is the authority's at all is taken
\* from the network: GetTimeStampToken never looks at the token's signature,
\* and what it compares, nonce and imprint, stands in the request.
TokenIsFresh ==
    [][Ended =>
         \A p \in Written :
            LET tok == IF s.via = "timestamp" THEN NewNode(p)
                       ELSE IF ~Signed(NewNode(p)) THEN NoToken ELSE NewNode(p).token
            IN  /\ tok # NoToken => /\ tok \in tokens /\ tok.made >= s.started
                                   /\ tok.imprint = Digest
                /\ ctx.tsa = "url" /\ files'[p].form = "cms" => tok # NoToken]_vars

\* cie_sign, "CKR_OK on success": a signature is in the output file.
OkMeansSigned ==
    ret.via = "csp" /\ ret.code = "OK" =>
       /\ ret.out # NoPath
       /\ Signed(Last(files[ret.out].nodes))
=============================================================================
