----------------------------- MODULE Operations -----------------------------
(***************************************************************************)
(* Digest, signature and verification operations of the sessions           *)
(* (session.cpp, mechanism.cpp, CIEtemplateSign), on top of the slots,     *)
(* sessions and handles of SlotSessions: an operation lives in a session,  *)
(* names its key by handle, and is carried out by whatever card is in the  *)
(* reader when it ends, with the PIN the template kept at login.           *)
(*                                                                         *)
(* What a call answers is an operator (rv, what is left of the operation,  *)
(* what the caller gets); the action of the call follows its answer.       *)
(* Bytes are sequences of parts; a digest or an RSA block is named by what *)
(* it was computed from.                                                   *)
(***************************************************************************)
EXTENDS SlotSessions

CONSTANTS
    Pins, NoPin,      \* PINs, and an empty SessionPIN
    FactoryPin,       \* the PIN every card starts with
    MaxTries,         \* wrong PINs in a row until the card locks
    Data,             \* parts that applications digest and sign
    Long,             \* the ones above k - 11 bytes, k the modulus length
    DigestMechs,      \* the mechanisms that applications use
    SignMechs,
    Searches,         \* the searches they make, a subset of Search
    Modes,            \* the kinds of session they open, TRUE for read-write
    AnonymousSetPIN,  \* whether they call C_SetPIN without being logged in
    MaxParts,         \* bound on the parts of one operation
    MaxActive         \* bound on operations active at the same time

ASSUME OperationsAssumption ==
    /\ FactoryPin \in Pins /\ NoPin \notin Pins
    /\ Long \subseteq Data
    /\ DigestMechs \subseteq {"CKM_SHA_1", "CKM_SHA256", "CKM_MD5"}
    /\ SignMechs \subseteq {"CKM_RSA_PKCS", "CKM_SHA1_RSA_PKCS",
                            "CKM_SHA256_RSA_PKCS", "CKM_MD5_RSA_PKCS"}
    /\ Searches \subseteq Search
    /\ "ok" \in CardAnswers
    /\ Modes \subseteq BOOLEAN
    /\ AnonymousSetPIN \in BOOLEAN
    /\ MaxTries \in Nat \ {0} /\ MaxParts \in Nat /\ MaxActive \in Nat

VARIABLES
    ops,        \* the mechanism objects of each session
    SessionPIN, \* CIEData::SessionPIN of each slot
    dapp,       \* the card whose DAPP key each slot's CIEData::ias holds
    renewed,    \* history: slots at whose card the PIN was changed since login
    pin, tries  \* external: PIN and retry counter of each card

cardVars == <<pin, tries>>
opVars == <<vars, ops, SessionPIN, dapp, renewed, cardVars>>

-----------------------------------------------------------------------------
(* Mechanism objects *)

\* An operation: its mechanism, its key handle, the bytes in its buffer.
\* History: what the caller has given it, whether somebody has logged out
\* since it began.
NoOp == [mech |-> "none", key |-> 0, data |-> <<>>,
         given |-> <<>>, loggedOut |-> FALSE]
Started(m, k) == [NoOp EXCEPT !.mech = m, !.key = k]
Active(o) == o.mech # "none"

\* pDigestMechanism, pSignMechanism and pVerifyMechanism of a new session.
NoOps == [digest |-> NoOp, sign |-> NoOp, verify |-> NoOp]

SupportMultipart(m) == m # "CKM_RSA_PKCS"

\* DigestUpdate, SignUpdate and VerifyUpdate: data is appended.
Update(o, d) == [o EXCEPT !.data = Append(@, d), !.given = Append(@, d)]

\* Mutant: C_Sign goes on with the parts that came before.
SignReset_Keep(o) == [o EXCEPT !.given = <<>>]
SignReset(o) == [o EXCEPT !.data = <<>>, !.given = <<>>]

\* More than k - 11 bytes of data that is not hashed.
TooLong(o) == /\ o.mech = "CKM_RSA_PKCS"
              /\ \E i \in DOMAIN o.data : o.data[i] \in Long

\* The block that is signed: the data itself, or the DigestInfo of its hash.
Block(o) == [info |-> IF o.mech = "CKM_RSA_PKCS" THEN "none" ELSE o.mech,
             of |-> o.data]

-----------------------------------------------------------------------------
(* Keys *)

\* CSlot::GetObjectFromID, as the set of objects found: at most one.
GetObjectFromID(sl, k) == {e.obj : e \in {f \in sl.handles : f.id = k}}

\* The checks that SignInit, SignFinal and VerifyInit make of a key handle.
KeyCheck(sl, k, cls) ==
    IF \A o \in GetObjectFromID(sl, k) : o.cls # cls
    THEN "CKR_KEY_HANDLE_INVALID"
    ELSE IF cls = "private" /\ sl.User # "USER" THEN "CKR_USER_NOT_LOGGED_IN"
    ELSE "CKR_OK"

\* The key is one of the objects of the token that the sessions now see.
OfThisToken(sl, k) == GetObjectFromID(sl, k) \cap sl.P11Objects # {}

-----------------------------------------------------------------------------
(* Beginning an operation *)

p11_mechanisms == {"CKM_RSA_PKCS", "CKM_MD5", "CKM_SHA_1", "CKM_SHA256",
                   "CKM_SHA1_RSA_PKCS", "CKM_SHA256_RSA_PKCS",
                   "CKM_MD5_RSA_PKCS"}

\* C_GetMechanismInfo: the flags it reports, CKF_HW left out.
MechanismFlags(m) ==
    CASE m = "CKM_RSA_PKCS" -> {"ENCRYPT", "DECRYPT", "SIGN", "VERIFY",
                                "SIGN_RECOVER", "VERIFY_RECOVER"}
      [] m \in {"CKM_SHA1_RSA_PKCS", "CKM_SHA256_RSA_PKCS",
                "CKM_MD5_RSA_PKCS"} -> {"SIGN", "VERIFY"}
      [] m \in {"CKM_MD5", "CKM_SHA_1", "CKM_SHA256"} -> {"DIGEST"}

DigestInitResult(h, m) ==
    IF Active(ops[h].digest) THEN "CKR_OPERATION_ACTIVE"
    ELSE IF m \in {"CKM_SHA_1", "CKM_SHA256", "CKM_MD5"} THEN "CKR_OK"
    ELSE "CKR_MECHANISM_INVALID"

\* Mutant: the switch has no case for one of the mechanisms.
RSAMechanism_NoMD5(m) == m \in {"CKM_SHA1_RSA_PKCS", "CKM_SHA256_RSA_PKCS",
                                "CKM_RSA_PKCS"}

\* The switch over the mechanisms in SignInit and VerifyInit.
RSAMechanism(m) == m \in {"CKM_SHA1_RSA_PKCS", "CKM_SHA256_RSA_PKCS",
                          "CKM_MD5_RSA_PKCS", "CKM_RSA_PKCS"}

\* CKA_SIGN is set on every private key and CKA_VERIFY on every public key.
KeyInitResult(o, sl, m, k, cls) ==
    IF Active(o) THEN "CKR_OPERATION_ACTIVE"
    ELSE IF KeyCheck(sl, k, cls) # "CKR_OK" THEN KeyCheck(sl, k, cls)
    ELSE IF RSAMechanism(m) THEN "CKR_OK"
    ELSE "CKR_MECHANISM_INVALID"

SignInitResult(h, m, k) ==
    KeyInitResult(ops[h].sign, slot[SlotOf(h)], m, k, "private")

VerifyInitResult(h, m, k) ==
    KeyInitResult(ops[h].verify, slot[SlotOf(h)], m, k, "public")

-----------------------------------------------------------------------------
(* Ending an operation *)

\* What the caller passes for the result: NULL with a length of 0 or of at
\* least what is needed, a buffer that is too small, one that will do.
DigestBuffer == {"null0", "null", "small", "fits"}
SignBuffer == {"null", "small", "fits"}

Nothing == [card |-> NoCard, of |-> [info |-> "nothing", of |-> <<>>]]
Answered(rv, o) == [rv |-> rv, op |-> o, out |-> Nothing]

\* CSession::Digest: ByteArray::left throws on a length of 0; a query and a
\* buffer too small leave the operation, and its buffer, as they were.
DigestAnswer(o, d, buf) ==
    CASE buf = "null0" -> Answered("CKR_GENERAL_ERROR", o)
      [] buf = "null" -> Answered("CKR_OK", o)
      [] buf = "small" -> Answered("CKR_BUFFER_TOO_SMALL", o)
      [] buf = "fits" -> [rv |-> "CKR_OK", op |-> NoOp,
                          out |-> [card |-> NoCard, of |-> Block(Update(o, d))]]

\* C_DigestFinal hands CSession::DigestFinal a copy of the caller's buffer,
\* which is never NULL: a query ends the operation, and nobody gets a digest.
DigestFinalAnswer(o, buf) ==
    IF buf \in {"null0", "small"}
    THEN Answered("CKR_BUFFER_TOO_SMALL", o)
    ELSE Answered("CKR_OK", NoOp)

\* Mutant: DAPP does not check the card's proof of its key.
Authenticated_AnyCard(s, io) == io = "ok" /\ card[s] \in CieCards
\* The card takes part in CIEtemplateSign up to the PIN: it answers, and DAPP
\* finds it to be the card whose DAPP key was read.
Authenticated(s, io) == io = "ok" /\ card[s] \in CieCards /\ card[s] = dapp[s]

PinAccepted(s, p) == p = pin[card[s]] /\ tries[card[s]] > 0

\* Mutant: the key found by SignInit is kept instead of its handle.
SignKeyCheck_NoLookup(sl, k) ==
    IF sl.User # "USER" THEN "CKR_USER_NOT_LOGGED_IN" ELSE "CKR_OK"
\* The key is looked up, and its user checked, again when the operation ends.
SignKeyCheck(sl, k) == KeyCheck(sl, k, "private")

\* CSession::SignFinal shows the PIN to the card.
PinShown(h, o, buf, io) ==
    LET s == SlotOf(h)
    IN  /\ SignKeyCheck(slot[s], o.key) = "CKR_OK"
        /\ buf # "null" /\ ~TooLong(o)
        /\ slot[s].cie.userType = "USER" /\ Authenticated(s, io)

\* CSession::SignFinal.  Whatever throws ends the operation; a buffer that is
\* too small does too, after the card has signed: ByteArray::left throws
\* before the operation is released and CKR_BUFFER_TOO_SMALL returned.
SignFinalAnswer(h, o, buf, io) ==
    LET s  == SlotOf(h)
        rv == SignKeyCheck(slot[s], o.key)
    IN  IF rv # "CKR_OK" THEN Answered(rv, NoOp)
        ELSE IF buf = "null" THEN Answered("CKR_OK", o)
        ELSE IF TooLong(o) THEN Answered("CKR_DATA_LEN_RANGE", NoOp)
        ELSE IF slot[s].cie.userType # "USER" THEN Answered("CKR_OK", NoOp)
        ELSE IF ~Authenticated(s, io) THEN Answered("CKR_GENERAL_ERROR", NoOp)
        ELSE IF ~PinAccepted(s, SessionPIN[s]) 
        THEN Answered("CKR_PIN_INCORRECT", NoOp)
        ELSE IF buf = "small" THEN Answered("CKR_GENERAL_ERROR", NoOp)
        ELSE [rv |-> "CKR_OK", op |-> NoOp,
              out |-> [card |-> card[s], of |-> Block(o)]]

\* CSession::Sign is SignReset, SignUpdate, SignFinal.
SignAnswer(h, d, buf, io) ==
    SignFinalAnswer(h, Update(SignReset(ops[h].sign), d), buf, io)

\* VerifyDecryptSignature looks the key up when the operation ends.
VerifyKey(h, o) ==
    {k \in GetObjectFromID(slot[SlotOf(h)], o.key) : k.cls = "public"}

\* VerifyFinal of the two families of mechanisms on a signature of the right
\* length: the modulus is of the card that the key object is of.
VerifyFinalResult(h, o, sig) ==
    LET K == VerifyKey(h, o)
    IN  IF K = {} THEN "CKR_GENERAL_ERROR"
        ELSE IF TooLong(o) THEN "CKR_DATA_LEN_RANGE"
        ELSE IF \E k \in K : sig = [card |-> k.card, of |-> Block(o)]
        THEN "CKR_OK"
        ELSE "CKR_SIGNATURE_INVALID"

-----------------------------------------------------------------------------
(* Saved operation states *)

FlagsOf(h) == IF g_mSessions[h].rw THEN 6 ELSE 4
UserNumber(u) == CASE u = "SO" -> 0 [] u = "USER" -> 1 [] u = "NOBODY" -> 16777215

\* The operations of CSession::GetOperationState's session can be saved:
\* whatever hashes throws CKR_FUNCTION_NOT_SUPPORTED, and the keys must exist.
Savable(h) ==
    LET found(o) == Active(o) =>
                      /\ o.mech = "CKM_RSA_PKCS"
                      /\ GetObjectFromID(slot[SlotOf(h)], o.key) # {}
    IN  ~Active(ops[h].digest) /\ found(ops[h].sign) /\ found(ops[h].verify)

\* CSession::GetOperationState.  OS_User is given the session flags; an RSA
\* mechanism has no state of its own, so that OS_Data is left out.
SavedState(h) ==
    [flags |-> FlagsOf(h), user |-> FlagsOf(h),
     active |-> {f \in {"sign", "verify"} : Active(ops[h][f])}]

\* CSession::SetOperationState: when flags and user match, each operation of
\* the saved state is reset before OS_Data is asked for and not found.  It
\* answers CKR_SAVED_STATE_INVALID either way.
AfterSetOperationState(h, saved) ==
    IF saved.flags # FlagsOf(h)
         \/ saved.user # UserNumber(slot[SlotOf(h)].User)
         \/ saved.active = {}
    THEN ops[h]
    ELSE LET f == IF "sign" \in saved.active THEN "sign" ELSE "verify"
         IN  [ops[h] EXCEPT ![f] = NoOp]

-----------------------------------------------------------------------------
(* Writing to the token *)

\* CSession::CreateObject and templateCreateObject.
WriteCheck(h) ==
    IF ~g_mSessions[h].rw THEN "CKR_SESSION_READ_ONLY"
    ELSE IF slot[SlotOf(h)].User # "USER" THEN "CKR_USER_NOT_LOGGED_IN"
    ELSE "CKR_OK"

CreateObjectResult(h) ==
    IF WriteCheck(h) # "CKR_OK" THEN WriteCheck(h)
    ELSE "CKR_FUNCTION_NOT_SUPPORTED"

\* The template throws before DelP11Object is reached.
DestroyObjectResult(h, k) ==
    IF WriteCheck(h) # "CKR_OK" THEN WriteCheck(h)
    ELSE IF GetObjectFromID(slot[SlotOf(h)], k) = {}
    THEN "CKR_OBJECT_HANDLE_INVALID" ELSE "CKR_FUNCTION_NOT_SUPPORTED"

SetAttributeValueResult(h, k) ==
    IF GetObjectFromID(slot[SlotOf(h)], k) = {} THEN "CKR_OBJECT_HANDLE_INVALID"
    ELSE IF WriteCheck(h) # "CKR_OK" THEN WriteCheck(h)
    ELSE "CKR_FUNCTION_NOT_SUPPORTED"

GenerateKeyResult(h) == "CKR_FUNCTION_NOT_SUPPORTED"
GenerateKeyPairResult(h) == "CKR_FUNCTION_NOT_SUPPORTED"

\* CIEtemplateGetTokenFlags.
TokenFlags == {"LOGIN_REQUIRED", "USER_PIN_INITIALIZED", "TOKEN_INITIALIZED",
               "WRITE_PROTECTED"}

-----------------------------------------------------------------------------
(* Steps of the slots and sessions, and what becomes of the operations *)

\* Operations go with their session, SessionPIN with the login, and the DAPP
\* key with the CIEData; it is read when the objects are created.
Follow ==
    /\ ops' = [h \in DOMAIN g_mSessions' |->
                 IF h \notin DOMAIN g_mSessions THEN NoOps
                 ELSE IF /\ slot[SlotOf(h)].User = "USER"
                         /\ slot'[SlotOf(h)].User # "USER"
                         /\ Active(ops[h].sign)
                 THEN [ops[h] EXCEPT !.sign.loggedOut = TRUE]
                 ELSE ops[h]]
    /\ dapp' = [s \in Slots |-> IF ~slot'[s].cie.init THEN NoCard
                               ELSE IF ~slot[s].cie.init THEN card[s]
                               ELSE dapp[s]]
    /\ SessionPIN' = [s \in Slots |->
                        IF slot'[s].cie.userType = "NOBODY" THEN NoPin
                        ELSE SessionPIN[s]]
    /\ renewed' = {s \in renewed : slot'[s].cie.userType # "NOBODY"}
    /\ UNCHANGED cardVars

Anywhere ==
    \/ C_Initialize
    \/ C_Finalize
    \/ MonitorPoll
    \/ \E s \in Slots :
          \/ \E rw \in Modes, io2 \in CardAnswers :
                C_OpenSession(s, rw, "ok", io2)
          \/ C_CloseAllSessions(s)
          \/ Reader(s)
    \/ \E h \in DOMAIN g_mSessions :
          \/ C_CloseSession(h)
          \/ C_Logout(h)
          \/ \E classes \in Searches : C_FindObjectsInit(h, classes)
          \/ C_FindObjectsFinal(h)

\* What showing p to the card in slot s does to its retry counter.
Tried(s, p) ==
    [tries EXCEPT ![card[s]] = IF PinAccepted(s, p) THEN MaxTries
                               ELSE IF @ > 0 THEN @ - 1 ELSE 0]

\* CIEtemplateLogin with PIN p or, for the SO, with a PUK that is right or
\* not; io = "fail" is a failure before the PIN is shown.
Login(h, u, p, puk, io) ==
    LET s     == SlotOf(h)
        shown == Authenticated(s, io)
        right == shown /\ IF u = "SO" THEN puk ELSE PinAccepted(s, p)
    IN
    /\ C_Login(h, u, right, io)
    /\ SessionPIN' = [SessionPIN EXCEPT ![s] = IF right THEN p ELSE NoPin]
    /\ tries' = IF shown /\ u = "USER" THEN Tried(s, p) ELSE tries
    /\ renewed' = renewed \ {s}
    /\ UNCHANGED <<ops, dapp, pin>>

\* The slots with a login to card c.
LoggedInTo(c) ==
    {t \in Slots : slot[t].cie.userType = "USER" /\ dapp[t] = c}

\* CIEtemplateSetPIN.  Without a login it reads the DAPP key of the card that
\* is there now; SessionPIN keeps the PIN of the login.
C_SetPIN(h, old, new, io) ==
    LET s    == SlotOf(h)
        anon == slot[s].cie.userType # "USER"
    IN
    /\ HasSession(h)
    /\ slot[s].cie.userType # "SO"
    /\ anon => AnonymousSetPIN
    /\ io = "ok" /\ card[s] \in CieCards /\ (anon \/ card[s] = dapp[s])
    /\ dapp' = [dapp EXCEPT ![s] = card[s]]
    /\ tries' = Tried(s, old)
    /\ IF PinAccepted(s, old)
       THEN /\ pin' = [pin EXCEPT ![card[s]] = new]
            /\ renewed' = renewed \cup LoggedInTo(card[s])
       ELSE UNCHANGED <<pin, renewed>>
    /\ UNCHANGED <<vars, ops, SessionPIN>>

-----------------------------------------------------------------------------
(* Steps of the operations *)

\* Names the bound on operations active at the same time.
Room == LET A(f) == {h \in DOMAIN ops : Active(ops[h][f])}
        IN  Cardinality(A("digest")) + Cardinality(A("sign"))
              + Cardinality(A("verify")) < MaxActive

Becomes(h, f, o) == /\ ops' = [ops EXCEPT ![h][f] = o]
                    /\ UNCHANGED <<vars, SessionPIN, dapp, renewed, pin>>

CanGrow(o) == Active(o) /\ Len(o.data) < MaxParts

C_DigestInit(h, m) ==
    /\ HasSession(h) /\ Room
    /\ DigestInitResult(h, m) = "CKR_OK"
    /\ Becomes(h, "digest", Started(m, 0)) /\ UNCHANGED tries

C_DigestUpdate(h, d) ==
    /\ HasSession(h) /\ CanGrow(ops[h].digest)
    /\ Becomes(h, "digest", Update(ops[h].digest, d)) /\ UNCHANGED tries

C_Digest(h, d, buf) ==
    /\ HasSession(h) /\ CanGrow(ops[h].digest)
    /\ Becomes(h, "digest", DigestAnswer(ops[h].digest, d, buf).op)
    /\ UNCHANGED tries

C_DigestFinal(h, buf) ==
    /\ HasSession(h) /\ Active(ops[h].digest)
    /\ Becomes(h, "digest", DigestFinalAnswer(ops[h].digest, buf).op)
    /\ UNCHANGED tries

C_SignInit(h, m, k) ==
    /\ HasSession(h) /\ Room
    /\ SignInitResult(h, m, k) = "CKR_OK"
    /\ Becomes(h, "sign", Started(m, k)) /\ UNCHANGED tries

C_SignUpdate(h, d) ==
    /\ HasSession(h) /\ CanGrow(ops[h].sign)
    /\ SupportMultipart(ops[h].sign.mech)
    /\ Becomes(h, "sign", Update(ops[h].sign, d)) /\ UNCHANGED tries

\* A signature that the card refuses for its PIN costs a try.
Presented(h, o, buf, io) ==
    tries' = IF PinShown(h, o, buf, io)
             THEN Tried(SlotOf(h), SessionPIN[SlotOf(h)]) ELSE tries

C_Sign(h, d, buf, io) ==
    /\ HasSession(h) /\ Active(ops[h].sign)
    /\ Becomes(h, "sign", SignAnswer(h, d, buf, io).op)
    /\ Presented(h, Update(SignReset(ops[h].sign), d), buf, io)

C_SignFinal(h, buf, io) ==
    /\ HasSession(h) /\ Active(ops[h].sign)
    /\ SupportMultipart(ops[h].sign.mech)
    /\ Becomes(h, "sign", SignFinalAnswer(h, ops[h].sign, buf, io).op)
    /\ Presented(h, ops[h].sign, buf, io)

C_VerifyInit(h, m, k) ==
    /\ HasSession(h) /\ Room
    /\ VerifyInitResult(h, m, k) = "CKR_OK"
    /\ Becomes(h, "verify", Started(m, k)) /\ UNCHANGED tries

C_VerifyUpdate(h, d) ==
    /\ HasSession(h) /\ CanGrow(ops[h].verify)
    /\ SupportMultipart(ops[h].verify.mech)
    /\ Becomes(h, "verify", Update(ops[h].verify, d)) /\ UNCHANGED tries

\* Whatever C_Verify and C_VerifyFinal answer, the operation is over.
C_Verify(h) ==
    /\ HasSession(h) /\ Active(ops[h].verify)
    /\ Becomes(h, "verify", NoOp) /\ UNCHANGED tries

C_VerifyFinal(h) ==
    /\ HasSession(h) /\ Active(ops[h].verify)
    /\ SupportMultipart(ops[h].verify.mech)
    /\ Becomes(h, "verify", NoOp) /\ UNCHANGED tries

C_SetOperationState(h, g) ==
    /\ HasSession(h) /\ HasSession(g) /\ Savable(g)
    /\ ops' = [ops EXCEPT ![h] = AfterSetOperationState(h, SavedState(g))]
    /\ UNCHANGED <<vars, SessionPIN, dapp, renewed, cardVars>>

-----------------------------------------------------------------------------

OpInit ==
    /\ Init
    /\ ops = <<>>
    /\ SessionPIN = [s \in Slots |-> NoPin]
    /\ dapp = [s \in Slots |-> NoCard]
    /\ renewed = {}
    /\ pin = [c \in Cards |-> FactoryPin]
    /\ tries = [c \in Cards |-> MaxTries]

Handles == 1 .. MaxHandles

PinCall(h) ==
    \/ \E u \in {"USER", "SO"}, p \in Pins, puk \in BOOLEAN, io \in CardAnswers :
          Login(h, u, p, puk, io)
    \/ \E old, new \in Pins, io \in CardAnswers : C_SetPIN(h, old, new, io)

DigestCall(h) ==
    \/ \E m \in DigestMechs : C_DigestInit(h, m)
    \/ \E d \in Data : C_DigestUpdate(h, d)
    \/ \E d \in Data, buf \in DigestBuffer : C_Digest(h, d, buf)
    \/ \E buf \in DigestBuffer : C_DigestFinal(h, buf)

SignCall(h) ==
    \/ \E m \in SignMechs, k \in Handles : C_SignInit(h, m, k)
    \/ \E d \in Data : C_SignUpdate(h, d)
    \/ \E d \in Data, buf \in SignBuffer, io \in CardAnswers :
          C_Sign(h, d, buf, io)
    \/ \E buf \in SignBuffer, io \in CardAnswers : C_SignFinal(h, buf, io)

VerifyCall(h) ==
    \/ \E m \in SignMechs, k \in Handles : C_VerifyInit(h, m, k)
    \/ \E d \in Data : C_VerifyUpdate(h, d)
    \/ C_Verify(h)
    \/ C_VerifyFinal(h)

OpNext ==
    \/ Anywhere /\ Follow
    \/ \E h \in DOMAIN g_mSessions :
          \/ PinCall(h) \/ DigestCall(h) \/ SignCall(h) \/ VerifyCall(h)
          \/ \E g \in DOMAIN g_mSessions : C_SetOperationState(h, g)

OpSpec == OpInit /\ [][OpNext]_opVars

-----------------------------------------------------------------------------
(* Properties *)

\* What a session would be answered now by C_Sign and, if it may call it, by
\* C_SignFinal; o is the operation as it is when the card signs.
SignAnswers(h) ==
    LET o == ops[h].sign
    IN  {[a |-> SignAnswer(h, d, "fits", "ok"), given |-> <<d>>] : d \in Data}
        \cup IF SupportMultipart(o.mech)
             THEN {[a |-> SignFinalAnswer(h, o, "fits", "ok"),
                    given |-> o.given]}
             ELSE {}

Signing == {h \in DOMAIN ops : Active(ops[h].sign)}

\* A signature or digest that is handed out covers exactly what the caller
\* gave: for C_Sign this call's data whatever parts, length queries and
\* failed calls came before it; for C_SignFinal and C_Digest every part once.
AnswersCoverGiven ==
    /\ \A h \in Signing : \A x \in SignAnswers(h) :
          x.a.out # Nothing => x.a.out.of.of = x.given
    /\ \A h \in DOMAIN ops : Active(ops[h].digest) =>
          \A d \in Data : DigestAnswer(ops[h].digest, d, "fits").out.of.of
                             = Append(ops[h].digest.given, d)

\* CKR_OK with a buffer means a signature in it, made by the card whose
\* certificate and keys the session sees, even when cards were exchanged
\* behind the monitor's back: DAPP is what tells them apart.
SignatureByThisToken ==
    \A h \in Signing : \A x \in SignAnswers(h) : x.a.rv = "CKR_OK" =>
        /\ x.a.out # Nothing
        /\ \A o \in slot[SlotOf(h)].P11Objects : o.card = x.a.out.card

\* An operation begun with a key of the token does not survive a logout, by
\* whichever session: it never signs under a later login.
SignatureOfThisLogin ==
    \A h \in Signing : \A x \in SignAnswers(h) :
        x.a.out # Nothing /\ ops[h].sign.loggedOut =>
            LET K == GetObjectFromID(slot[SlotOf(h)], ops[h].sign.key)
            IN  K # {} /\ K \cap slot[SlotOf(h)].P11Objects = {}

\* A signature that is handed out is of this token and of this login.
SignaturesSound == SignatureByThisToken /\ SignatureOfThisLogin

\* What C_Sign and C_SignFinal would ask the card to sign now.
ToBeSigned(h) == {Update(SignReset(ops[h].sign), d) : d \in Data}
                   \cup {ops[h].sign}

\* SignFinal shows the card the PIN that the template kept at login.  It costs
\* the card a try only when it is the card of that login and its PIN has been
\* changed since; never when cards were exchanged behind the monitor's back,
\* and no more after a new login.  The try ends the operation: a second one
\* takes another C_SignInit.
OnlyStalePinCostsATry ==
    \A h \in Signing : \A o \in ToBeSigned(h), buf \in SignBuffer :
        LET s == SlotOf(h) IN
        /\ PinShown(h, o, buf, "ok")
        /\ Tried(s, SessionPIN[s])[card[s]] < tries[card[s]]
        => /\ s \in renewed /\ dapp[s] = card[s]
           /\ ~Active(SignFinalAnswer(h, o, buf, "ok").op)

\* A signature that is handed out verifies under the public key that the
\* session sees, whatever was exchanged in between, if and only if mechanism
\* and data are the same: the two sides of mechanism.cpp agree.
SignVerifyAgree ==
    \A h \in Signing : \A x \in SignAnswers(h) : x.a.out # Nothing =>
        \A k \in {j \in Handles : OfThisToken(slot[SlotOf(h)], j)} :
          KeyCheck(slot[SlotOf(h)], k, "public") = "CKR_OK" =>
            \A m \in SignMechs, g \in {x.given} \cup {Append(x.given, d) : d \in Data} :
              VerifyFinalResult(h, [Started(m, k) EXCEPT !.data = g], x.a.out)
                = "CKR_OK" <=> m = ops[h].sign.mech /\ g = x.given

\* These flags tell the truth, in every state: what C_GetMechanismInfo offers
\* for signing, verifying and hashing can be begun with a key that passes the
\* checks, and nothing is written to a token that says WRITE_PROTECTED.  The
\* flags for encryption and recovery are left out: C_EncryptInit and
\* C_DecryptInit answer CKR_FUNCTION_NOT_SUPPORTED, and no key of the token
\* has CKA_SIGN_RECOVER or CKA_VERIFY_RECOVER.
FlagsAreHonest ==
    \A h \in DOMAIN ops : LET sl == slot[SlotOf(h)] IN
        /\ \A m \in p11_mechanisms :
             /\ "DIGEST" \in MechanismFlags(m) /\ ~Active(ops[h].digest)
                  => DigestInitResult(h, m) = "CKR_OK"
             /\ "SIGN" \in MechanismFlags(m) /\ ~Active(ops[h].sign)
                  => \A k \in Handles : KeyCheck(sl, k, "private") = "CKR_OK"
                       => SignInitResult(h, m, k) = "CKR_OK"
             /\ "VERIFY" \in MechanismFlags(m) /\ ~Active(ops[h].verify)
                  => \A k \in Handles : KeyCheck(sl, k, "public") = "CKR_OK"
                       => VerifyInitResult(h, m, k) = "CKR_OK"
        /\ "WRITE_PROTECTED" \in TokenFlags =>
             /\ \A k \in Handles : {DestroyObjectResult(h, k),
                                    SetAttributeValueResult(h, k)}
                                     \cap {"CKR_OK"} = {}
             /\ {CreateObjectResult(h), GenerateKeyResult(h),
                 GenerateKeyPairResult(h)} \cap {"CKR_OK"} = {}

=============================================================================
