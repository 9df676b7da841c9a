------------------------------ MODULE Pairing ------------------------------
(***************************************************************************)
(* Pairing a CIE with this computer, and the calls that present its PIN.   *)
(*                                                                         *)
(* cie_enable verifies the 8 digit PIN and keeps its first half, with the  *)
(* certificate, in ~/.CIEPKI/<PAN>.cache (and the certificate alone in     *)
(* <PAN>.der).  From then on C_Login, C_SetPIN, C_InitPIN and cie_sign     *)
(* accept the last 4 digits and fetch the others from the cache; so the    *)
(* cache must follow every change of the PIN, and a stale one costs the    *)
(* citizen one of three attempts.                                          *)
(*                                                                         *)
(* Callers are threads and processes that use the library at the same      *)
(* time.  CToken::Reset opens a PC/SC transaction that lasts until the     *)
(* connection is closed, so one caller at a time talks to a card (owner);  *)
(* nothing orders the accesses to the files.  Each card command and each   *)
(* file operation is a step, between which other callers run.              *)
(*                                                                         *)
(* Abstracted: a PIN is a pair of halves; a PUK is right or wrong; the     *)
(* SELECTs, public reads, DH exchange and DAPP are one step of the card    *)
(* conversation; every CKR_ error code is "FAILED".                        *)
(***************************************************************************)
EXTENDS Integers, Sequences

CONSTANTS
    Reader,        \* the cards in the readers, in the order of ListReaders
    Cards,         \* these cards, and others that may be named
    Unsupported,   \* those SelectAID_IAS does not recognise
    Lettered,      \* those whose PAN has a hexadecimal digit above 9
    Halves,        \* the values of four PIN digits
    NoHalf,        \* four digits the user did not type
    Callers,       \* threads and processes
    Nobody,
    Ops,           \* the calls the application makes
    Faults,        \* what may go wrong: see below
    MaxTries,      \* attempts at the PIN, and at the PUK, of a fresh card
    MaxCalls       \* bound: calls in a behaviour

(* "link": the card does not get the command; "lost": it executes it and   *)
(* the answer is lost; "crash": the calling process dies; "disk": a cache  *)
(* file cannot be written; "data": a cache entry does not decrypt with the *)
(* card's key, or a certificate does not parse.                            *)
FaultKinds == {"link", "lost", "crash", "disk", "data"}
P11Ops == {"C_Login", "C_LoginSO", "C_Logout", "C_Sign", "C_SetPIN", "C_InitPIN"}
ScanOps == {"cie_enable", "cie_change_pin", "cie_unblock_pin", "cie_sign"}
FileOps == {"cie_disable", "cie_get_certificate"}

ASSUME PairingAssumption ==
    /\ Cards # {} /\ Reader \in Seq(Cards)
    /\ \A i, j \in 1..Len(Reader) : Reader[i] = Reader[j] => i = j
    /\ Unsupported \subseteq Cards /\ Lettered \subseteq Cards
    /\ Halves # {} /\ NoHalf \notin Halves
    /\ Nobody \notin Callers
    /\ Ops \subseteq P11Ops \union ScanOps \union FileOps
    /\ Faults \subseteq FaultKinds
    /\ MaxTries \in Nat \ {0} /\ MaxCalls \in Nat

VARIABLES
    pin, tries, pukTries,  \* on the card (external)
    cache,     \* the .cache files, by file name
    der,       \* the .der files, by file name
    login,     \* CIEData::userType and SessionPIN of each card's slot
    owner,     \* who has the PC/SC transaction on each card
    call,      \* the call each caller is in, and its local variables
    calls,     \* number of calls made
    charged    \* attempts each caller's call has cost each card (history)

cardVars == <<pin, tries, pukTries>>
files == <<cache, der>>
vars == <<pin, tries, pukTries, cache, der, login, owner, call, calls, charged>>

(***************************************************************************)
(* Data.                                                                   *)
(***************************************************************************)
PINs == Halves \X Halves
(* What a caller passes as a PIN: 8 digits, the last 4, or another length. *)
Typed == PINs \union ({NoHalf} \X Halves) \union {<<NoHalf, NoHalf>>}
Certs == {"cert", "empty"}
NoCache == [half |-> NoHalf, cert |-> "empty"]
Entry == [half : Halves, cert : Certs]

(* dumpHexData prints upper case, hexEncode lower case: two file names for *)
(* one card when its PAN has letters.                                      *)
dumpHexData(c) == IF c \in Lettered THEN <<c, "upper">> ELSE <<c, "lower">>
hexEncode(c) == <<c, "lower">>
Keys == Cards \X {"upper", "lower"}

NoLogin == [user |-> "none", pin |-> <<NoHalf, NoHalf>>, puk |-> FALSE]
Pcs == {"idle", "scan", "lock", "header", "data", "auth", "verify", "check",
        "getcert", "unblock", "change", "read", "store", "storeDer",
        "lookup", "remove", "removeDer"}
(* The steps at which a call holds the transaction on its card. *)
HoldingPcs == {"header", "data", "auth", "verify", "check", "getcert",
               "unblock", "change", "read", "store"}
Attempts == 1..3
Positions == 1..(Len(Reader) + 1)
Call == [op : {"none"} \union P11Ops \union ScanOps \union FileOps,
         card : Cards, pin : Typed, new : Typed, puk : BOOLEAN,
         at : Positions, attempt : Attempts, pc : Pcs,
         anyCIE : BOOLEAN, enrolled : BOOLEAN, cert : Certs,
         rv : {"OK", "FAILED"}]

Present == {Reader[i] : i \in 1..Len(Reader)}
AnyCard == CHOOSE c \in Cards : TRUE
Idle(p) == call[p].pc = "idle"
(* The card the call is talking to: that of the current reader, or of the  *)
(* slot, or the one that was named.                                        *)
Target(r) == IF r.op \in ScanOps THEN Reader[r.at] ELSE r.card

(***************************************************************************)
(* The cache files.                                                        *)
(***************************************************************************)
CacheExists(k) == cache[k] # NoCache
IsEnrolled(c) == CacheExists(dumpHexData(c))
SetCache(k, cert, half) ==
    cache' = [cache EXCEPT ![k] = [half |-> half, cert |-> cert]]
(* Of an entry that decrypts; see CertificateUnusable and CacheUnusable.   *)
GetCertificate(c) == IF IsEnrolled(c) THEN cache[dumpHexData(c)].cert ELSE "empty"

IsValidPinLength(t) == t[2] # NoHalf
IsFullPin(t) == t[1] # NoHalf /\ t[2] # NoHalf
CanCompose(c, t) == IsFullPin(t) \/ IsEnrolled(c)
ComposeFullPIN_LastHalf(c, t) == t
ComposeFullPIN(c, t) ==
    IF IsFullPin(t) THEN t ELSE <<cache[dumpHexData(c)].half, t[2]>>

(***************************************************************************)
(* The end of a call, and of the conversation with a card.                 *)
(***************************************************************************)
Release(p) == owner' = [c \in Cards |-> IF owner[c] = p THEN Nobody ELSE owner[c]]

Blank == <<NoHalf, NoHalf>>
Begun(op, c, t, new, puk, l) ==
    [op |-> op, card |-> c, pin |-> t, new |-> new, puk |-> puk,
     at |-> 1, attempt |-> 1, pc |-> l, anyCIE |-> FALSE,
     enrolled |-> FALSE, cert |-> "empty", rv |-> "OK"]
Ended(rv) ==
    [Begun("none", AnyCard, Blank, Blank, FALSE, "idle") EXCEPT !.rv = rv]

Return(p, rv) == call' = [call EXCEPT ![p] = Ended(rv)] /\ Release(p)

Fail(p) == Return(p, "FAILED")

Goto(p, l) ==
    /\ call' = [call EXCEPT ![p].pc = l, ![p].attempt = 1]
    /\ UNCHANGED owner

NextReader(p) ==
    /\ call' = [call EXCEPT ![p].pc = "scan", ![p].at = @ + 1, ![p].attempt = 1]
    /\ Release(p)

RetryOnCardLinkError_Forever(p, l, retryable) ==
    IF retryable
    THEN /\ call' = [call EXCEPT ![p].pc = l, ![p].attempt = (@ % 3) + 1]
         /\ UNCHANGED owner
    ELSE Fail(p)

(* A link error of the step called again from l, at most three times. *)
RetryOnCardLinkError(p, l, retryable) ==
    IF retryable /\ call[p].attempt < 3
    THEN /\ call' = [call EXCEPT ![p].pc = l, ![p].attempt = @ + 1]
         /\ UNCHANGED owner
    ELSE Fail(p)

VerifyRetryable_Always == TRUE

(* rethrowAsNonRetryable: a link error during VERIFY. *)
VerifyRetryable == FALSE

(***************************************************************************)
(* The card's PIN and PUK commands (external).                             *)
(***************************************************************************)
AfterWrong(n) == IF n > 0 THEN n - 1 ELSE 0
CardVerify(p, c, x) ==
    /\ tries' = [tries EXCEPT ![c] = IF @ > 0 /\ x = pin[c] THEN MaxTries ELSE AfterWrong(@)]
    /\ charged' = [charged EXCEPT ![p][c] = IF tries[c] > 0 /\ x # pin[c] THEN @ + 1 ELSE @]
    /\ UNCHANGED <<pin, pukTries>>
CardVerifyPUK(c, right) ==
    /\ pukTries' = [pukTries EXCEPT ![c] = IF @ > 0 /\ right THEN MaxTries ELSE AfterWrong(@)]
    /\ UNCHANGED <<pin, tries, charged>>
CardSetPIN(c, x) ==
    /\ pin' = [pin EXCEPT ![c] = x]
    /\ tries' = [tries EXCEPT ![c] = MaxTries]
    /\ UNCHANGED <<pukTries, charged>>
PinAccepted(c, x) == tries[c] > 0 /\ x = pin[c]
PukAccepted(c, right) == pukTries[c] > 0 /\ right

(* IAS::VerifyPIN and IAS::VerifyPUK in call p: Ok when the card accepts.  *)
VerifyPIN(p, c, x, Ok) ==
    \/ /\ CardVerify(p, c, x)
       /\ IF PinAccepted(c, x) THEN Ok ELSE Fail(p) /\ UNCHANGED login
    \/ /\ "link" \in Faults
       /\ RetryOnCardLinkError(p, "auth", VerifyRetryable /\ call[p].op = "cie_enable")
       /\ UNCHANGED <<cardVars, charged, login>>
    \/ /\ "lost" \in Faults
       /\ CardVerify(p, c, x)
       /\ RetryOnCardLinkError(p, "auth", VerifyRetryable /\ call[p].op = "cie_enable")
       /\ UNCHANGED login

VerifyPUK(p, c, right, Ok) ==
    \/ /\ CardVerifyPUK(c, right)
       /\ IF PukAccepted(c, right) THEN Ok ELSE Fail(p) /\ UNCHANGED login
    \/ "link" \in Faults /\ Fail(p) /\ UNCHANGED <<cardVars, charged, login>>
    \/ "lost" \in Faults /\ CardVerifyPUK(c, right) /\ Fail(p) /\ UNCHANGED login

-----------------------------------------------------------------------------
(***************************************************************************)
(* Entry of the calls: the checks made before any card is touched.         *)
(***************************************************************************)
Enter(p, op, accepted, begun) ==
    /\ op \in Ops /\ Idle(p) /\ calls < MaxCalls
    /\ calls' = calls + 1
    /\ call' = [call EXCEPT ![p] = IF accepted THEN begun ELSE Ended("FAILED")]
    /\ charged' = [charged EXCEPT ![p] = [d \in Cards |-> 0]]
    /\ UNCHANGED <<cardVars, files, owner>>

(* szPAN is not used; the PIN must be 8 digits. *)
cie_enable(p) == \E c \in Cards, t \in Typed :
    /\ Enter(p, "cie_enable", IsFullPin(t),
             Begun("cie_enable", c, t, Blank, FALSE, "scan"))
    /\ UNCHANGED login

(* No card is named: the first CIE found is meant. *)
cie_change_pin(p) == \E t, new \in Typed :
    /\ Enter(p, "cie_change_pin", IsFullPin(t) /\ IsFullPin(new),
             Begun("cie_change_pin", AnyCard, t, new, FALSE, "scan"))
    /\ UNCHANGED login

cie_unblock_pin(p) == \E new \in Typed, right \in BOOLEAN :
    /\ Enter(p, "cie_unblock_pin", IsFullPin(new),
             Begun("cie_unblock_pin", AnyCard, Blank, new, right, "scan"))
    /\ UNCHANGED login

cie_sign(p) == \E c \in Cards, t \in Typed :
    /\ Enter(p, "cie_sign", IsValidPinLength(t),
             Begun("cie_sign", c, t, Blank, FALSE, "scan"))
    /\ UNCHANGED login

(* cie_disable and cie_get_certificate take the PAN cie_enable reported.   *)
cie_disable(p) == \E c \in Cards :
    /\ Enter(p, "cie_disable", CacheExists(hexEncode(c)),
             Begun("cie_disable", c, Blank, Blank, FALSE, "remove"))
    /\ UNCHANGED login

cie_get_certificate(p) == \E c \in Cards :
    /\ Enter(p, "cie_get_certificate", TRUE,
             Begun("cie_get_certificate", c, Blank, Blank, FALSE, "lookup"))
    /\ UNCHANGED login

(* The PKCS#11 calls run under p11Mutex, on a slot with a session. *)
P11(p, op, c, accepted, t, new, puk) ==
    /\ \A q \in Callers : call[q].op \notin P11Ops
    /\ c \in Present \ Unsupported
    /\ Enter(p, op, accepted, Begun(op, c, t, new, puk, "lock"))

C_Login(p) == \E c \in Cards, t \in Typed :
    /\ login[c] = NoLogin
    /\ P11(p, "C_Login", c, IsValidPinLength(t), t, Blank, FALSE)
    /\ UNCHANGED login

C_LoginSO(p) == \E c \in Cards, right \in BOOLEAN :
    /\ login[c] = NoLogin
    /\ P11(p, "C_LoginSO", c, TRUE, Blank, Blank, right)
    /\ UNCHANGED login

C_Logout(p) == \E c \in Cards :
    /\ login[c] # NoLogin
    /\ \A q \in Callers : call[q].op \notin P11Ops
    /\ Enter(p, "C_Logout", TRUE, Ended("OK"))
    /\ login' = [login EXCEPT ![c] = NoLogin]

(* The PIN of C_Sign, and the PUK of C_InitPIN, is the one of the login. *)
C_Sign(p) == \E c \in Cards :
    /\ P11(p, "C_Sign", c, login[c].user = "USER", login[c].pin, Blank, FALSE)
    /\ UNCHANGED login

C_SetPIN(p) == \E c \in Cards, t, new \in Typed :
    /\ P11(p, "C_SetPIN", c,
           IsValidPinLength(t) /\ IsValidPinLength(new) /\ login[c].user # "SO",
           t, new, FALSE)
    /\ UNCHANGED login

C_InitPIN(p) == \E c \in Cards, new \in Typed :
    /\ P11(p, "C_InitPIN", c, IsValidPinLength(new) /\ login[c].user = "SO",
           Blank, new, login[c].puk)
    /\ UNCHANGED login

-----------------------------------------------------------------------------
(***************************************************************************)
(* The conversation with a card.                                           *)
(***************************************************************************)
At(p, l) == call[p].pc = l
Op(p) == call[p].op
Card(p) == Target(call[p])
Same == UNCHANGED <<calls, login>>
NoCardCommand == UNCHANGED <<cardVars, charged>>

(* The loop over the readers.  A card that does not connect, or is not a   *)
(* supported CIE, is passed over; one that connects and does not tell its  *)
(* ATR ends the call.                                                      *)
Scan(p) ==
    /\ At(p, "scan")
    /\ IF call[p].at > Len(Reader)
       THEN Return(p, IF Op(p) = "cie_enable" /\ call[p].anyCIE THEN "OK" ELSE "FAILED")
       ELSE \/ Card(p) \in Unsupported /\ NextReader(p)
            \/ "link" \in Faults /\ NextReader(p)
            \/ "link" \in Faults /\ Fail(p)
            \/ /\ Card(p) \notin Unsupported /\ owner[Card(p)] = Nobody
               /\ call' = [call EXCEPT ![p].pc = "header"]
               /\ owner' = [owner EXCEPT ![Card(p)] = p]
    /\ Same /\ NoCardCommand /\ UNCHANGED files

(* The same for a slot, or for the card CIE_FindCardByPAN looks for. *)
Lock(p) ==
    /\ At(p, "lock")
    /\ \/ /\ Card(p) \notin Present \ Unsupported \/ "link" \in Faults
          /\ Fail(p)
       \/ /\ Card(p) \in Present \ Unsupported /\ owner[Card(p)] = Nobody
          /\ call' = [call EXCEPT ![p].pc = "header"]
          /\ owner' = [owner EXCEPT ![Card(p)] = p]
    /\ Same /\ NoCardCommand /\ UNCHANGED files

(* Reading the card up to the PIN: what each call does with what it read. *)
Header(p) ==
    /\ At(p, "header")
    /\ CASE Op(p) = "cie_enable" ->
              IF IsEnrolled(Card(p)) THEN Return(p, "OK")
              ELSE /\ call' = [call EXCEPT ![p].pc = "data", ![p].attempt = 1]
                   /\ UNCHANGED owner
         [] Op(p) = "cie_sign" ->
              IF Card(p) # call[p].card THEN NextReader(p) ELSE Goto(p, "verify")
         [] Op(p) = "cie_get_certificate" ->
              IF GetCertificate(Card(p)) = "empty" THEN Fail(p)
              ELSE /\ call' = [call EXCEPT ![p].pc = "storeDer",
                                           ![p].cert = GetCertificate(Card(p))]
                   /\ Release(p)
         [] OTHER -> Goto(p, "verify")
    /\ Same /\ NoCardCommand /\ UNCHANGED files

(* cie_enable: SOD, keys and DH parameters, then CardAuthenticateEx up to  *)
(* VERIFY.                                                                 *)
ReadData(p) ==
    /\ At(p, "data")
    /\ call' = [call EXCEPT ![p].pc = "auth", ![p].attempt = 1, ![p].anyCIE = TRUE]
    /\ Same /\ NoCardCommand /\ UNCHANGED <<files, owner>>

CardAuthenticateEx(p) ==
    /\ At(p, "auth")
    /\ call' = [call EXCEPT ![p].pc = "verify"]
    /\ Same /\ NoCardCommand /\ UNCHANGED <<files, owner>>

(* A link error before VERIFY.  cie_enable and CIE_FindCardByPAN try       *)
(* again; the others pass to the next reader when SelectAID_IAS fails and  *)
(* give up when another command does.                                      *)
LinkError(p) ==
    /\ "link" \in Faults
    /\ call[p].pc \in {"header", "data", "auth", "read"}
    /\ \/ /\ Op(p) \in {"cie_enable", "cie_get_certificate"} /\ ~At(p, "read")
          /\ RetryOnCardLinkError(p, call[p].pc, TRUE)
       \/ /\ Op(p) \in ScanOps \ {"cie_enable"} /\ At(p, "header")
          /\ NextReader(p)
       \/ /\ Op(p) \notin {"cie_enable", "cie_get_certificate"} \/ At(p, "read")
          /\ Fail(p)
    /\ Same /\ NoCardCommand /\ UNCHANGED files

(* The PIN, or the PUK, is presented. *)
LoggedIn(p, c, user) ==
    /\ login' = [login EXCEPT ![c] = [user |-> user, pin |-> call[p].pin, puk |-> call[p].puk]]
    /\ Return(p, "OK")

Verify(p) ==
    LET c == Card(p)
        x == ComposeFullPIN(c, call[p].pin)
        To(l) == Goto(p, l) /\ UNCHANGED login
    IN
    /\ At(p, "verify")
    /\ \/ /\ Op(p) \in {"C_Login", "C_Sign", "C_SetPIN", "cie_sign"}
          /\ \/ ~CanCompose(c, call[p].pin)
             \/ Op(p) = "C_SetPIN" /\ ~CanCompose(c, call[p].new)
          /\ Fail(p)
          /\ NoCardCommand /\ UNCHANGED login
       \/ /\ Op(p) = "cie_enable"
          /\ VerifyPIN(p, c, call[p].pin, To("read"))
       \/ /\ Op(p) = "cie_change_pin"
          /\ VerifyPIN(p, c, call[p].pin, To("check"))
       \/ /\ Op(p) = "cie_unblock_pin"
          /\ VerifyPUK(p, c, call[p].puk, To("check"))
       \/ /\ Op(p) \in {"C_Sign", "cie_sign"} /\ CanCompose(c, call[p].pin)
          /\ VerifyPIN(p, c, x, Return(p, "OK") /\ UNCHANGED login)
       \/ /\ Op(p) = "C_Login" /\ CanCompose(c, call[p].pin)
          /\ VerifyPIN(p, c, x, LoggedIn(p, c, "USER"))
       \/ /\ Op(p) = "C_LoginSO"
          /\ VerifyPUK(p, c, call[p].puk, LoggedIn(p, c, "SO"))
       \/ /\ Op(p) = "C_SetPIN"
          /\ CanCompose(c, call[p].pin) /\ CanCompose(c, call[p].new)
          /\ VerifyPIN(p, c, x,
                 /\ call' = [call EXCEPT ![p].pc = "change",
                                         ![p].new = ComposeFullPIN(c, @)]
                 /\ UNCHANGED <<owner, login>>)
       \/ /\ Op(p) = "C_InitPIN"
          /\ VerifyPUK(p, c, call[p].puk, To("unblock"))
    /\ UNCHANGED <<calls, files>>

(* cie_change_pin and cie_unblock_pin note whether the card is enrolled,   *)
(* and fetch the certificate in order to store it again.                   *)
CheckEnrolled(p) ==
    /\ At(p, "check")
    /\ call' = [call EXCEPT ![p].enrolled = IsEnrolled(Card(p)),
                            ![p].pc = IF IsEnrolled(Card(p)) THEN "getcert" ELSE "change"]
    /\ Same /\ NoCardCommand /\ UNCHANGED <<files, owner>>

(* Mutant: the certificate is not fetched. *)
FetchCertificate_Not(p) ==
    /\ At(p, "getcert")
    /\ Goto(p, "change")
    /\ Same /\ NoCardCommand /\ UNCHANGED files

FetchCertificate(p) ==
    /\ At(p, "getcert")
    /\ call' = [call EXCEPT ![p].cert = GetCertificate(Card(p)), ![p].pc = "change"]
    /\ Same /\ NoCardCommand /\ UNCHANGED <<files, owner>>

(* GetCertificate catches what decrypting the entry throws and leaves the  *)
(* certificate empty: cie_change_pin goes on and stores it so.             *)
CertificateUnusable(p) ==
    /\ "data" \in Faults /\ At(p, "getcert")
    /\ Goto(p, "change")
    /\ Same /\ NoCardCommand /\ UNCHANGED files

(* The half of the PIN that does not decrypt ends the call before the card *)
(* is asked, and so does a certificate nobody else has.                    *)
NeedsEntry(p) ==
    \/ At(p, "header") /\ Op(p) = "cie_get_certificate"
    \/ /\ At(p, "verify") /\ Op(p) \in {"C_Login", "C_Sign", "C_SetPIN", "cie_sign"}
       /\ ~IsFullPin(call[p].pin) \/ (Op(p) = "C_SetPIN" /\ ~IsFullPin(call[p].new))
    \/ At(p, "change") /\ ~IsFullPin(call[p].new)
CacheUnusable(p) ==
    /\ "data" \in Faults /\ NeedsEntry(p)
    /\ Fail(p)
    /\ Same /\ NoCardCommand /\ UNCHANGED files

(* C_InitPIN resets the attempts before it looks at the new PIN. *)
UnblockPIN(p) ==
    /\ At(p, "unblock")
    /\ \/ /\ tries' = [tries EXCEPT ![Card(p)] = MaxTries]
          /\ Goto(p, "change")
       \/ "link" \in Faults /\ Fail(p) /\ UNCHANGED tries
       \/ "lost" \in Faults /\ Fail(p) /\ tries' = [tries EXCEPT ![Card(p)] = MaxTries]
    /\ Same /\ UNCHANGED <<pin, pukTries, charged, files>>

(* What is left to do when the card has the new PIN. *)
AfterChange(p) ==
    IF Op(p) \in ScanOps /\ call[p].enrolled THEN Goto(p, "store") ELSE Return(p, "OK")

ChangePIN(p) ==
    LET c == Card(p)
        x == ComposeFullPIN(c, call[p].new)
    IN
    /\ At(p, "change")
    /\ \/ ~CanCompose(c, call[p].new) /\ Fail(p) /\ NoCardCommand
       \/ CanCompose(c, call[p].new) /\ CardSetPIN(c, x) /\ AfterChange(p)
       \/ "link" \in Faults /\ Fail(p) /\ NoCardCommand
       \/ "lost" \in Faults /\ CanCompose(c, call[p].new) /\ CardSetPIN(c, x) /\ Fail(p)
    /\ Same /\ UNCHANGED files

(* cie_enable: serial number and certificate, protected by the PIN. *)
ReadCertificate(p) ==
    /\ At(p, "read")
    /\ call' = [call EXCEPT ![p].cert = "cert", ![p].pc = "store"]
    /\ Same /\ NoCardCommand /\ UNCHANGED <<files, owner>>

(* Mutant: the cache keeps the first half of the old PIN. *)
StoredHalf_Old(p) == call[p].pin[1]

(* The half that goes to the cache, and under which name. *)
StoredHalf(p) == IF Op(p) = "cie_enable" THEN call[p].pin[1] ELSE call[p].new[1]
(* Mutant: every call writes under the lower case name. *)
StoreKey_Lower(p) == hexEncode(Card(p))
StoreKey(p) == IF Op(p) = "cie_enable" THEN hexEncode(Card(p)) ELSE dumpHexData(Card(p))

StoreCache(p) ==
    /\ At(p, "store")
    /\ SetCache(StoreKey(p), call[p].cert, StoredHalf(p))
    /\ IF Op(p) = "cie_enable" THEN Goto(p, "storeDer") ELSE Return(p, "OK")
    /\ Same /\ NoCardCommand /\ UNCHANGED der

(* WriteFileAtomic throws.  By then the card may have its new PIN;         *)
(* cie_get_certificate does without the .der file.                         *)
WriteFails(p) ==
    /\ "disk" \in Faults /\ call[p].pc \in {"store", "storeDer"}
    /\ Return(p, IF Op(p) = "cie_get_certificate" THEN "OK" ELSE "FAILED")
    /\ Same /\ NoCardCommand /\ UNCHANGED files

(* After it cie_enable parses the certificate, for the name in it. *)
CacheSetDer(p) ==
    /\ At(p, "storeDer")
    /\ der' = der \union {hexEncode(Card(p))}
    /\ IF Op(p) = "cie_enable" THEN NextReader(p) \/ ("data" \in Faults /\ Fail(p))
       ELSE Return(p, "OK")
    /\ Same /\ NoCardCommand /\ UNCHANGED cache

CacheGetDer(p) ==
    /\ At(p, "lookup")
    /\ IF hexEncode(Card(p)) \in der THEN Return(p, "OK") ELSE Goto(p, "lock")
    /\ Same /\ NoCardCommand /\ UNCHANGED files

(* CacheRemove: two files, two system calls. *)
RemoveCache(p) ==
    /\ At(p, "remove")
    /\ cache' = [cache EXCEPT ![hexEncode(Card(p))] = NoCache]
    /\ Goto(p, "removeDer")
    /\ Same /\ NoCardCommand /\ UNCHANGED der

RemoveDer(p) ==
    /\ At(p, "removeDer")
    /\ der' = der \ {hexEncode(Card(p))}
    /\ Return(p, "OK")
    /\ Same /\ NoCardCommand /\ UNCHANGED cache

(* The process of the call dies: the card is free, the files stay, and a   *)
(* PKCS#11 process loses its logins.                                       *)
Crash(p) ==
    /\ "crash" \in Faults /\ ~Idle(p)
    /\ Fail(p)
    /\ login' = IF Op(p) \in P11Ops THEN [c \in Cards |-> NoLogin] ELSE login
    /\ NoCardCommand /\ UNCHANGED <<calls, files>>

-----------------------------------------------------------------------------
(* The cards are fresh.  Some were paired with the CIE ID application,     *)
(* which writes only the .cache file.                                      *)
Init ==
    /\ pin \in [Cards -> PINs]
    /\ tries = [c \in Cards |-> MaxTries] /\ pukTries = tries
    /\ \E paired \in SUBSET Cards :
         cache = [k \in Keys |->
            IF k[1] \in paired /\ k = dumpHexData(k[1])
            THEN [half |-> pin[k[1]][1], cert |-> "cert"] ELSE NoCache]
    /\ der = {}
    /\ login = [c \in Cards |-> NoLogin]
    /\ owner = [c \in Cards |-> Nobody]
    /\ call = [p \in Callers |-> Ended("OK")]
    /\ calls = 0
    /\ charged = [p \in Callers |-> [c \in Cards |-> 0]]

Begin(p) ==
    \/ cie_enable(p) \/ cie_change_pin(p) \/ cie_unblock_pin(p) \/ cie_sign(p)
    \/ cie_disable(p) \/ cie_get_certificate(p)
    \/ C_Login(p) \/ C_LoginSO(p) \/ C_Logout(p) \/ C_Sign(p) \/ C_SetPIN(p)
    \/ C_InitPIN(p)

Step(p) ==
    \/ Scan(p) \/ Lock(p) \/ Header(p) \/ ReadData(p) \/ CardAuthenticateEx(p)
    \/ LinkError(p) \/ Verify(p) \/ CheckEnrolled(p) \/ FetchCertificate(p)
    \/ CertificateUnusable(p) \/ CacheUnusable(p) \/ WriteFails(p)
    \/ UnblockPIN(p) \/ ChangePIN(p) \/ ReadCertificate(p) \/ StoreCache(p)
    \/ CacheSetDer(p) \/ CacheGetDer(p) \/ RemoveCache(p) \/ RemoveDer(p)

Next == \E p \in Callers : Begin(p) \/ Step(p) \/ Crash(p)

Spec == Init /\ [][Next]_vars

(* A call that has begun is executed by its thread. *)
FairSpec == Spec /\ \A p \in Callers : WF_vars(Step(p))

-----------------------------------------------------------------------------
(* Every variable keeps its type; the attempts left never go below zero.   *)
TypeOK ==
    /\ pin \in [Cards -> PINs]
    /\ tries \in [Cards -> 0..MaxTries] /\ pukTries \in [Cards -> 0..MaxTries]
    /\ cache \in [Keys -> Entry \union {NoCache}] /\ der \subseteq Keys
    /\ login \in [Cards -> [user : {"none", "USER", "SO"}, pin : Typed, puk : BOOLEAN]]
    /\ owner \in [Cards -> Callers \union {Nobody}]
    /\ call \in [Callers -> Call]
    /\ calls \in 0..MaxCalls
    /\ charged \in [Callers -> [Cards -> Nat]]

(* rethrowAsNonRetryable: one call of the library costs a card at most one *)
(* attempt at its PIN, whatever is retried after a broken link.            *)
OneAttemptPerCall == \A p \in Callers, c \in Cards : charged[p][c] <= 1

(* "After pairing, the first 4 are kept in the local cache so apps may ask *)
(* only for the last 4": a card nobody is talking to and that is enrolled  *)
(* has the first half of its PIN in the cache.                             *)
CachedHalfCurrent == \A c \in Cards :
    owner[c] = Nobody /\ IsEnrolled(c) => cache[dumpHexData(c)].half = pin[c][1]

(* An attempt is spent only on a PIN that is wrong: never when the user    *)
(* typed the card's PIN, or its last 4 digits.                             *)
Agrees(t, x) == t[2] = x[2] /\ t[1] \in {x[1], NoHalf}
RightPinNotCharged == [][\A c \in Cards : tries'[c] < tries[c] =>
        \E p \in Callers : owner[c] = p /\ ~Agrees(call[p].pin, pin[c])]_vars

(* Every call that begins returns: the retries after broken links end.     *)
CallsReturn == \A p \in Callers : ~Idle(p) ~> Idle(p)

-----------------------------------------------------------------------------
(* The two following hold as long as cie_disable does not run beside       *)
(* another call: between two steps of cie_change_pin it breaks both.  An   *)
(* entry that does not decrypt breaks the second: cie_change_pin stores an *)
(* empty certificate in its place.                                         *)

(* "Remove the enrolment": only cie_enable makes an enrolment appear; the  *)
(* calls that write the cache again write over what they found.            *)
OnlyEnableEnrols == [][\A k \in Keys : ~CacheExists(k) /\ CacheExists(k)' =>
        \E p \in Callers : call[p].op = "cie_enable" /\ At(p, "store")]_vars

(* "the local cache ... which holds the certificate": an enrolment has a   *)
(* certificate, also after the calls that store it again.                  *)
EnrolmentHasCertificate == \A k \in Keys : CacheExists(k) => cache[k].cert = "cert"
=============================================================================
