--------------------------- MODULE PairingProofs ---------------------------
(***************************************************************************)
(* Proofs about Pairing: its type invariant, and that as long as the PIN   *)
(* is changed by cie_change_pin and cie_unblock_pin alone, and no answer   *)
(* to a command is lost, no process dies and no file write fails, the      *)
(* cached half of the PIN follows the card and no attempt is spent on a    *)
(* right PIN. As long as cie_disable does not run beside another call and  *)
(* every entry decrypts, every enrolment has its certificate and is made   *)
(* by cie_enable.                                                          *)
(***************************************************************************)
EXTENDS Pairing, TLAPS

(* The conditions of the second part. *)
CacheKept == Faults \subseteq {"link", "data"} /\ Ops \cap {"C_SetPIN", "C_InitPIN"} = {}

Changing == {"cie_change_pin", "cie_unblock_pin"}

(* A call converses with a card: it has the transaction on it. *)
Holding(r) == r.pc \in HoldingPcs \/ (r.pc = "storeDer" /\ r.op = "cie_enable")

(* Which calls reach which step, and what they were given. *)
RecordOK(r) ==
    /\ r.pc # "idle" => r.op # "none"
    /\ r.pc = "scan" => r.op \in ScanOps
    /\ r.pc \notin {"idle", "scan"} /\ r.op \in ScanOps => r.at \in 1..Len(Reader)
    /\ r.pc \in {"data", "auth", "read"} => r.op = "cie_enable"
    /\ r.pc \in {"check", "getcert"} => r.op \in Changing
    /\ r.pc = "unblock" => r.op = "C_InitPIN"
    /\ r.pc = "change" => r.op \in Changing \union {"C_SetPIN", "C_InitPIN"}
    /\ r.pc = "store" => r.op \in Changing \union {"cie_enable"}
    /\ r.pc = "storeDer" => r.op \in {"cie_enable", "cie_get_certificate"}
    /\ r.op \in {"cie_enable", "cie_change_pin"} => r.pin \in PINs
    /\ r.op \in Changing => r.new \in PINs
    /\ r.op \in {"C_SetPIN", "C_InitPIN"} => IsValidPinLength(r.new)

Records == \A p \in Callers : RecordOK(call[p])

(* The transaction on a card belongs to the call that talks to it. *)
OwnerHolds == \A c \in Cards : owner[c] # Nobody =>
    Holding(call[owner[c]]) /\ Target(call[owner[c]]) = c
HolderOwns == \A p \in Callers : Holding(call[p]) => owner[Target(call[p])] = p

CallsOK == call \in [Callers -> Call] /\ Records
TypeInv == TypeOK /\ Records

-----------------------------------------------------------------------------
(* Only caller p's record changes, and it changes to a good one. *)
LEMMA UpdatedCall ==
    ASSUME CallsOK, NEW p \in Callers, NEW r, r \in Call, RecordOK(r),
           call' = [call EXCEPT ![p] = r]
    PROVE  CallsOK' /\ call'[p] = r /\ \A q \in Callers \ {p} : call'[q] = call[q]
  BY DEF CallsOK, Records

(* The card in a reader is one of Cards. *)
LEMMA ReaderCards == \A i \in 1..Len(Reader) : Reader[i] \in Cards
  BY PairingAssumption

(* The card a call works on. *)
LEMMA TargetCard ==
    ASSUME NEW r \in Call, RecordOK(r), r.pc \notin {"idle", "scan"}
    PROVE  Target(r) \in Cards
  BY ReaderCards DEF RecordOK, Target, Call, Positions

(* The record a call starts from. *)
LEMMA BlankTyped == Blank \in Typed /\ PINs \subseteq Typed
  BY DEF Blank, Typed, PINs

(* The card that stands for any is a card. *)
LEMMA AnyCardIsCard == AnyCard \in Cards
  BY PairingAssumption DEF AnyCard

(* The number of readers. *)
LEMMA LenReader == Len(Reader) \in Nat
  BY PairingAssumption

(* The records of a call that begins, and of one that has ended. *)
LEMMA BegunCall ==
    ASSUME NEW op \in {"none"} \union P11Ops \union ScanOps \union FileOps,
           NEW c \in Cards, NEW t \in Typed, NEW new \in Typed,
           NEW puk \in BOOLEAN, NEW l \in Pcs
    PROVE  Begun(op, c, t, new, puk, l) \in Call
  <1>1. 1 \in Positions /\ 1 \in Attempts
    BY LenReader DEF Positions, Attempts
  <1> QED BY <1>1 DEF Begun, Call, Certs

(* The record of a call that returned. *)
LEMMA EndedOK ==
    ASSUME NEW rv \in {"OK", "FAILED"}
    PROVE  Ended(rv) \in Call /\ RecordOK(Ended(rv)) /\ Ended(rv).pc = "idle"
           /\ Ended(rv).op = "none"
  <1>1. Begun("none", AnyCard, Blank, Blank, FALSE, "idle") \in Call
    BY BegunCall, AnyCardIsCard, BlankTyped DEF Pcs
  <1>2. Ended(rv) \in Call /\ Ended(rv).pc = "idle" /\ Ended(rv).op = "none"
    BY <1>1 DEF Ended, Begun, Call
  <1> QED BY <1>2 DEF RecordOK, Changing, ScanOps

(***************************************************************************)
(* The ways a call goes on.                                                *)
(***************************************************************************)
OwnerType == owner \in [Cards -> Callers \union {Nobody}]

(* A return keeps the types of calls and owners. *)
LEMMA ReturnOK ==
    ASSUME CallsOK, OwnerType, NEW p \in Callers, NEW rv \in {"OK", "FAILED"}, Return(p, rv)
    PROVE  CallsOK' /\ OwnerType'
  <1>1. CallsOK'
    BY EndedOK, UpdatedCall DEF Return
  <1> QED BY <1>1 DEF Return, Release, OwnerType

(* A failure keeps the types of calls and owners. *)
LEMMA FailOK ==
    ASSUME CallsOK, OwnerType, NEW p \in Callers, Fail(p)
    PROVE  CallsOK' /\ OwnerType'
  BY ReturnOK DEF Fail

(* The record of a call moved to step l. *)
Moved(r, l) == [r EXCEPT !.pc = l, !.attempt = 1]

(* A call moved to another step is a call. *)
LEMMA MovedCall ==
    ASSUME NEW r \in Call, NEW l \in Pcs
    PROVE  Moved(r, l) \in Call
  <1>1. 1 \in Attempts
    BY DEF Attempts
  <1> QED BY <1>1 DEF Moved, Call

(* A move to another step keeps the types of calls and owners. *)
LEMMA GotoOK ==
    ASSUME CallsOK, OwnerType, NEW p \in Callers, NEW l \in Pcs,
           RecordOK(Moved(call[p], l)), Goto(p, l)
    PROVE  CallsOK' /\ OwnerType'
  <1>1. call' = [call EXCEPT ![p] = Moved(call[p], l)]
    BY DEF Goto, Moved, CallsOK, Call
  <1>2. Moved(call[p], l) \in Call
    BY MovedCall DEF CallsOK
  <1> QED BY <1>1, <1>2, UpdatedCall DEF Goto, OwnerType

(* The next reader keeps the types of calls and owners. *)
LEMMA NextReaderOK ==
    ASSUME CallsOK, OwnerType, NEW p \in Callers, call[p].op \in ScanOps,
           call[p].at \in 1..Len(Reader), NextReader(p)
    PROVE  CallsOK' /\ OwnerType'
  <1> DEFINE r == [call[p] EXCEPT !.pc = "scan", !.at = @ + 1, !.attempt = 1]
  <1>1. call' = [call EXCEPT ![p] = r]
    BY DEF NextReader, CallsOK, Call
  <1>2. call[p] \in Call /\ RecordOK(call[p])
    BY DEF CallsOK, Records
  <1>3. r \in Call
    <2>1. call[p].at + 1 \in Positions /\ 1 \in Attempts /\ "scan" \in Pcs
      BY <1>2, LenReader DEF Call, Positions, Attempts, Pcs
    <2> QED BY <1>2, <2>1 DEF Call
  <1>4. RecordOK(r)
    BY <1>2 DEF RecordOK, Call, IsValidPinLength, ScanOps, Changing
  <1>5. OwnerType'
    BY DEF NextReader, Release, OwnerType
  <1> HIDE DEF r
  <1> QED BY <1>1, <1>3, <1>4, <1>5, UpdatedCall

(* RetryOnCardLinkError keeps the types of calls and owners. *)
LEMMA RetryOK ==
    ASSUME CallsOK, OwnerType, NEW p \in Callers, NEW l \in Pcs,
           NEW retryable \in BOOLEAN,
           retryable => RecordOK([call[p] EXCEPT !.pc = l, !.attempt = @ + 1]),
           RetryOnCardLinkError(p, l, retryable)
    PROVE  CallsOK' /\ OwnerType'
  <1> DEFINE r == [call[p] EXCEPT !.pc = l, !.attempt = @ + 1]
  <1>1. CASE retryable /\ call[p].attempt < 3
    <2>1. call' = [call EXCEPT ![p] = r] /\ UNCHANGED owner
      BY <1>1 DEF RetryOnCardLinkError, CallsOK, Call
    <2>2. r \in Call
      <3>1. call[p] \in Call /\ call[p].attempt + 1 \in Attempts
        BY <1>1 DEF CallsOK, Call, Attempts
      <3> QED BY <3>1 DEF Call
    <2>3. RecordOK(r)
      BY <1>1
    <2> HIDE DEF r
    <2> QED BY <2>1, <2>2, <2>3, UpdatedCall DEF OwnerType
  <1>2. CASE ~(retryable /\ call[p].attempt < 3)
    BY <1>2, FailOK DEF RetryOnCardLinkError
  <1> QED BY <1>1, <1>2

(* A call that begins, accepted or refused, keeps the types. *)
LEMMA EnterOK ==
    ASSUME TypeInv, NEW p \in Callers, NEW op, NEW accepted, NEW begun \in Call,
           accepted => RecordOK(begun), Enter(p, op, accepted, begun)
    PROVE  /\ CallsOK'
           /\ calls' \in 0..MaxCalls
           /\ charged' \in [Callers -> [Cards -> Nat]]
           /\ UNCHANGED <<cardVars, files, owner>>
  <1>1. CallsOK
    BY DEF TypeInv, TypeOK, CallsOK
  <1>2. CallsOK'
    <2>1. CASE accepted
      BY <1>1, <2>1, UpdatedCall DEF Enter
    <2>2. CASE ~accepted
      BY <1>1, <2>2, UpdatedCall, EndedOK DEF Enter
    <2> QED BY <2>1, <2>2
  <1>3. calls' \in 0..MaxCalls
    BY PairingAssumption DEF Enter, TypeInv, TypeOK
  <1>4. charged' \in [Callers -> [Cards -> Nat]]
    BY DEF Enter, TypeInv, TypeOK
  <1> QED BY <1>2, <1>3, <1>4 DEF Enter

(* The card's side. *)
CardType ==
    /\ pin \in [Cards -> PINs]
    /\ tries \in [Cards -> 0..MaxTries] /\ pukTries \in [Cards -> 0..MaxTries]
    /\ charged \in [Callers -> [Cards -> Nat]]

(* VERIFY with the PIN keeps the types of the cards. *)
LEMMA CardVerifyOK ==
    ASSUME CardType, NEW p \in Callers, NEW c \in Cards, NEW x, CardVerify(p, c, x)
    PROVE  CardType'
  <1>1. tries' \in [Cards -> 0..MaxTries]
    BY PairingAssumption DEF CardType, CardVerify, AfterWrong
  <1>2. charged' \in [Callers -> [Cards -> Nat]]
    BY DEF CardType, CardVerify
  <1> QED BY <1>1, <1>2 DEF CardType, CardVerify

(* VERIFY with the PUK keeps the types of the cards. *)
LEMMA CardVerifyPUKOK ==
    ASSUME CardType, NEW c \in Cards, NEW right, CardVerifyPUK(c, right)
    PROVE  CardType'
  BY PairingAssumption DEF CardType, CardVerifyPUK, AfterWrong

(* A new PIN keeps the types of the cards. *)
LEMMA CardSetPINOK ==
    ASSUME CardType, NEW c \in Cards, NEW x \in PINs, CardSetPIN(c, x)
    PROVE  CardType'
  BY PairingAssumption DEF CardType, CardSetPIN

(* What presenting the PIN or the PUK can do. *)
CardAsked(p) ==
    \/ UNCHANGED <<cardVars, charged>>
    \/ \E x : /\ CardVerify(p, Card(p), x)
              /\ Op(p) \in {"cie_enable", "cie_change_pin"} => x = call[p].pin
              /\ Op(p) \notin {"cie_enable", "cie_change_pin"} =>
                    CanCompose(Card(p), call[p].pin) /\ x = ComposeFullPIN(Card(p), call[p].pin)
    \/ CardVerifyPUK(Card(p), call[p].puk)

Answered(p) ==
    \/ Fail(p) /\ UNCHANGED login
    \/ /\ Op(p) = "cie_enable" /\ PinAccepted(Card(p), call[p].pin)
       /\ Goto(p, "read") /\ UNCHANGED <<login, pin>>
    \/ Op(p) \in Changing /\ Goto(p, "check") /\ UNCHANGED <<login, pin>>
    \/ Return(p, "OK") /\ UNCHANGED login
    \/ \E user \in {"USER", "SO"} : LoggedIn(p, Card(p), user)
    \/ /\ Op(p) = "C_SetPIN" /\ CanCompose(Card(p), call[p].new)
       /\ call' = [call EXCEPT ![p].pc = "change", ![p].new = ComposeFullPIN(Card(p), @)]
       /\ UNCHANGED <<owner, login>>
    \/ Op(p) = "C_InitPIN" /\ Goto(p, "unblock") /\ UNCHANGED login

(* Verify asks the card, then acts on its answer. *)
LEMMA VerifyShape ==
    ASSUME NEW p \in Callers, Verify(p)
    PROVE  At(p, "verify") /\ CardAsked(p) /\ Answered(p) /\ UNCHANGED <<calls, files>>
  <1> USE DEF VerifyRetryable, RetryOnCardLinkError
  <1>1. CASE Op(p) \in {"C_Login", "C_Sign", "C_SetPIN", "cie_sign"}
             /\ Fail(p) /\ NoCardCommand /\ UNCHANGED login
    BY <1>1 DEF Verify, CardAsked, Answered, NoCardCommand
  <1>2. CASE Op(p) = "cie_enable" /\ VerifyPIN(p, Card(p), call[p].pin, Goto(p, "read") /\ UNCHANGED login)
    BY <1>2 DEF Verify, CardAsked, Answered, VerifyPIN, CardVerify, cardVars
  <1>3. CASE Op(p) = "cie_change_pin" /\ VerifyPIN(p, Card(p), call[p].pin, Goto(p, "check") /\ UNCHANGED login)
    BY <1>3 DEF Verify, CardAsked, Answered, VerifyPIN, CardVerify, cardVars, Changing
  <1>4. CASE Op(p) = "cie_unblock_pin" /\ VerifyPUK(p, Card(p), call[p].puk, Goto(p, "check") /\ UNCHANGED login)
    BY <1>4 DEF Verify, CardAsked, Answered, VerifyPUK, CardVerifyPUK, cardVars, Changing
  <1>5. CASE /\ Op(p) \in {"C_Sign", "cie_sign"} /\ CanCompose(Card(p), call[p].pin)
             /\ VerifyPIN(p, Card(p), ComposeFullPIN(Card(p), call[p].pin), Return(p, "OK") /\ UNCHANGED login)
    BY <1>5 DEF Verify, CardAsked, Answered, VerifyPIN
  <1>6. CASE /\ Op(p) = "C_Login" /\ CanCompose(Card(p), call[p].pin)
             /\ VerifyPIN(p, Card(p), ComposeFullPIN(Card(p), call[p].pin), LoggedIn(p, Card(p), "USER"))
    BY <1>6 DEF Verify, CardAsked, Answered, VerifyPIN
  <1>7. CASE Op(p) = "C_LoginSO" /\ VerifyPUK(p, Card(p), call[p].puk, LoggedIn(p, Card(p), "SO"))
    BY <1>7 DEF Verify, CardAsked, Answered, VerifyPUK
  <1>8. CASE /\ Op(p) = "C_SetPIN"
             /\ CanCompose(Card(p), call[p].pin) /\ CanCompose(Card(p), call[p].new)
             /\ VerifyPIN(p, Card(p), ComposeFullPIN(Card(p), call[p].pin),
                   /\ call' = [call EXCEPT ![p].pc = "change",
                                           ![p].new = ComposeFullPIN(Card(p), @)]
                   /\ UNCHANGED <<owner, login>>)
    BY <1>8 DEF Verify, CardAsked, Answered, VerifyPIN
  <1>9. CASE Op(p) = "C_InitPIN" /\ VerifyPUK(p, Card(p), call[p].puk, Goto(p, "unblock") /\ UNCHANGED login)
    BY <1>9 DEF Verify, CardAsked, Answered, VerifyPUK
  <1> QED BY <1>1, <1>2, <1>3, <1>4, <1>5, <1>6, <1>7, <1>8, <1>9 DEF Verify

-----------------------------------------------------------------------------
(***************************************************************************)
(* The type invariant.                                                     *)
(***************************************************************************)
FilesType == cache \in [Keys -> Entry \union {NoCache}] /\ der \subseteq Keys
LoginType == login \in [Cards -> [user : {"none", "USER", "SO"}, pin : Typed, puk : BOOLEAN]]

(* The parts of the type invariant. *)
LEMMA TypeParts ==
    TypeInv <=> CardType /\ FilesType /\ LoginType /\ OwnerType /\ CallsOK /\ calls \in 0..MaxCalls
  BY DEF TypeInv, TypeOK, CardType, FilesType, LoginType, OwnerType, CallsOK

(* Both file names of a card are keys. *)
LEMMA KeysOfCards ==
    ASSUME NEW c \in Cards
    PROVE  hexEncode(c) \in Keys /\ dumpHexData(c) \in Keys
  BY DEF hexEncode, dumpHexData, Keys

(* A composed PIN has eight digits. *)
LEMMA ComposedPIN ==
    ASSUME FilesType, NEW c \in Cards, NEW t \in Typed, IsValidPinLength(t), CanCompose(c, t)
    PROVE  ComposeFullPIN(c, t) \in PINs
  <1>1. CASE IsFullPin(t)
    BY <1>1, PairingAssumption DEF ComposeFullPIN, IsFullPin, Typed, PINs
  <1>2. CASE ~IsFullPin(t)
    <2>1. cache[dumpHexData(c)] \in Entry
      BY <1>2, KeysOfCards DEF CanCompose, IsEnrolled, CacheExists, FilesType
    <2>2. cache[dumpHexData(c)].half \in Halves
      BY <2>1 DEF Entry
    <2>3. t[2] \in Halves
      BY DEF Typed, PINs, IsValidPinLength
    <2> QED BY <1>2, <2>2, <2>3 DEF ComposeFullPIN, PINs
  <1> QED BY <1>1, <1>2

(* What the tests on a typed PIN accept. *)
LEMMA FullPin ==
    ASSUME NEW t \in Typed
    PROVE  (IsFullPin(t) => t \in PINs) /\ (t \in PINs => IsFullPin(t) /\ IsValidPinLength(t))
  BY PairingAssumption DEF IsFullPin, Typed, PINs, IsValidPinLength

(* The certificate read from the cache. *)
LEMMA GetCertificateType ==
    ASSUME FilesType, NEW c \in Cards
    PROVE  GetCertificate(c) \in Certs
  <1>1. CASE IsEnrolled(c)
    <2>1. cache[dumpHexData(c)] \in Entry
      BY <1>1, KeysOfCards DEF IsEnrolled, CacheExists, FilesType
    <2> QED BY <1>1, <2>1 DEF GetCertificate, Entry
  <1> QED BY <1>1 DEF GetCertificate, Certs

(* The calls begin well. *)
LEMMA BeginType ==
    ASSUME TypeInv, NEW p \in Callers, Begin(p)
    PROVE  TypeInv'
  <1> USE DEF Pcs, P11Ops, ScanOps, FileOps
  <1> DEFINE Entered == /\ CallsOK' /\ calls' \in 0..MaxCalls
                        /\ charged' \in [Callers -> [Cards -> Nat]]
                        /\ UNCHANGED <<cardVars, files, owner>>
  <1>0. ASSUME Entered, UNCHANGED login
        PROVE  TypeInv'
    <2>1. CardType' /\ FilesType' /\ LoginType' /\ OwnerType'
      BY <1>0, TypeParts DEF CardType, FilesType, LoginType, OwnerType, cardVars, files
    <2> QED BY <1>0, <2>1, TypeParts DEF TypeInv, TypeOK, CardType, FilesType, LoginType, OwnerType, CallsOK
  <1>1. CASE cie_enable(p)
    <2>1. PICK c \in Cards, t \in Typed :
             Enter(p, "cie_enable", IsFullPin(t), Begun("cie_enable", c, t, Blank, FALSE, "scan"))
      BY <1>1 DEF cie_enable
    <2>2. Begun("cie_enable", c, t, Blank, FALSE, "scan") \in Call
      BY BegunCall, BlankTyped
    <2>3. IsFullPin(t) => RecordOK(Begun("cie_enable", c, t, Blank, FALSE, "scan"))
      BY FullPin DEF RecordOK, Begun, Changing
    <2>4. Entered
      BY <2>1, <2>2, <2>3, EnterOK
    <2> QED BY <1>1, <2>4, <1>0 DEF cie_enable
  <1>2. CASE cie_change_pin(p)
    <2>1. PICK t \in Typed, new \in Typed :
             Enter(p, "cie_change_pin", IsFullPin(t) /\ IsFullPin(new),
                   Begun("cie_change_pin", AnyCard, t, new, FALSE, "scan"))
      BY <1>2 DEF cie_change_pin
    <2>2. Begun("cie_change_pin", AnyCard, t, new, FALSE, "scan") \in Call
      BY BegunCall, AnyCardIsCard
    <2>3. IsFullPin(t) /\ IsFullPin(new) =>
              RecordOK(Begun("cie_change_pin", AnyCard, t, new, FALSE, "scan"))
      BY FullPin DEF RecordOK, Begun, Changing
    <2>4. Entered
      BY <2>1, <2>2, <2>3, EnterOK
    <2> QED BY <1>2, <2>4, <1>0 DEF cie_change_pin
  <1>3. CASE cie_unblock_pin(p)
    <2>1. PICK new \in Typed, right \in BOOLEAN :
             Enter(p, "cie_unblock_pin", IsFullPin(new),
                   Begun("cie_unblock_pin", AnyCard, Blank, new, right, "scan"))
      BY <1>3 DEF cie_unblock_pin
    <2>2. Begun("cie_unblock_pin", AnyCard, Blank, new, right, "scan") \in Call
      BY BegunCall, AnyCardIsCard, BlankTyped
    <2>3. IsFullPin(new) => RecordOK(Begun("cie_unblock_pin", AnyCard, Blank, new, right, "scan"))
      BY FullPin DEF RecordOK, Begun, Changing
    <2>4. Entered
      BY <2>1, <2>2, <2>3, EnterOK
    <2> QED BY <1>3, <2>4, <1>0 DEF cie_unblock_pin
  <1>4. CASE cie_sign(p)
    <2>1. PICK c \in Cards, t \in Typed :
             Enter(p, "cie_sign", IsValidPinLength(t), Begun("cie_sign", c, t, Blank, FALSE, "scan"))
      BY <1>4 DEF cie_sign
    <2>2. Begun("cie_sign", c, t, Blank, FALSE, "scan") \in Call
      BY BegunCall, BlankTyped
    <2>3. RecordOK(Begun("cie_sign", c, t, Blank, FALSE, "scan"))
      BY DEF RecordOK, Begun, Changing
    <2>4. Entered
      BY <2>1, <2>2, <2>3, EnterOK
    <2> QED BY <1>4, <2>4, <1>0 DEF cie_sign
  <1>5. CASE cie_disable(p) \/ cie_get_certificate(p)
    <2>1. PICK c \in Cards, op \in FileOps, l \in {"remove", "lookup"}, accepted \in BOOLEAN :
             Enter(p, op, accepted, Begun(op, c, Blank, Blank, FALSE, l))
      BY <1>5 DEF cie_disable, cie_get_certificate, CacheExists
    <2>2. Begun(op, c, Blank, Blank, FALSE, l) \in Call
      BY BegunCall, BlankTyped
    <2>3. RecordOK(Begun(op, c, Blank, Blank, FALSE, l))
      BY DEF RecordOK, Begun, Changing
    <2>4. Entered
      BY <2>1, <2>2, <2>3, EnterOK
    <2> QED BY <1>5, <2>4, <1>0 DEF cie_disable, cie_get_certificate
  <1>6. ASSUME NEW op \in P11Ops, NEW c \in Cards, NEW accepted,
               NEW t \in Typed, NEW new \in Typed, NEW puk \in BOOLEAN,
               accepted /\ op \in {"C_SetPIN", "C_InitPIN"} => IsValidPinLength(new),
               P11(p, op, c, accepted, t, new, puk)
        PROVE  Entered
    <2>2. Begun(op, c, t, new, puk, "lock") \in Call
      BY BegunCall
    <2>3. accepted => RecordOK(Begun(op, c, t, new, puk, "lock"))
      BY <1>6 DEF RecordOK, Begun, Changing
    <2> QED BY <1>6, <2>2, <2>3, EnterOK DEF P11
  <1>7. \A c \in Cards : login[c].pin \in Typed /\ login[c].puk \in BOOLEAN
    BY DEF TypeInv, TypeOK
  <1>8. CASE C_Login(p)
    BY <1>8, <1>0, <1>6, BlankTyped DEF C_Login
  <1>9. CASE C_LoginSO(p)
    BY <1>9, <1>0, <1>6, BlankTyped DEF C_LoginSO
  <1>10. CASE C_Sign(p)
    BY <1>10, <1>0, <1>6, <1>7, BlankTyped DEF C_Sign
  <1>11. CASE C_SetPIN(p)
    BY <1>11, <1>0, <1>6, BlankTyped DEF C_SetPIN
  <1>12. CASE C_InitPIN(p)
    <2>1. PICK c \in Cards, new \in Typed :
             P11(p, "C_InitPIN", c, IsValidPinLength(new) /\ login[c].user = "SO",
                 Blank, new, login[c].puk)
      BY <1>12 DEF C_InitPIN
    <2>2. login[c].puk \in BOOLEAN /\ Blank \in Typed
      BY <1>7, BlankTyped
    <2>3. Entered
      BY <2>1, <2>2, <1>6
    <2> QED BY <1>12, <2>3, <1>0 DEF C_InitPIN
  <1>13. CASE C_Logout(p)
    <2>1. PICK c \in Cards : /\ Enter(p, "C_Logout", TRUE, Ended("OK"))
                             /\ login' = [login EXCEPT ![c] = NoLogin]
      BY <1>13 DEF C_Logout
    <2>2. Entered
      BY <2>1, EnterOK, EndedOK
    <2>3. LoginType'
      BY <2>1, TypeParts, BlankTyped DEF LoginType, NoLogin, Blank
    <2>4. CardType' /\ FilesType' /\ OwnerType'
      BY <2>2, TypeParts DEF CardType, FilesType, OwnerType, cardVars, files
    <2> QED BY <2>2, <2>3, <2>4
            DEF TypeInv, TypeOK, CardType, FilesType, LoginType, OwnerType, CallsOK
  <1> QED BY <1>1, <1>2, <1>3, <1>4, <1>5, <1>8, <1>9, <1>10, <1>11, <1>12, <1>13 DEF Begin

(* The parts of TypeInv after a step. *)
LEMMA TypePartsNext ==
    ASSUME CardType', FilesType', LoginType', OwnerType', CallsOK', calls' \in 0..MaxCalls
    PROVE  TypeInv'
  BY DEF TypeInv, TypeOK, CardType, FilesType, LoginType, OwnerType, CallsOK

(* A step that writes neither the card, the files nor the login. *)
LEMMA QuietStep ==
    ASSUME TypeInv, CallsOK', OwnerType', Same, NoCardCommand, UNCHANGED files
    PROVE  TypeInv'
  <1>1. CardType' /\ FilesType' /\ LoginType' /\ calls' \in 0..MaxCalls
    BY TypeParts DEF CardType, FilesType, LoginType, Same, NoCardCommand, cardVars, files
  <1> QED BY <1>1, TypePartsNext

(* Scan, Lock, Header, ReadData, CardAuthenticateEx and LinkError. *)
LEMMA LockedOK ==
    ASSUME CallsOK, OwnerType, NEW p \in Callers, call[p].pc \in {"scan", "lock"},
           call[p].op \in ScanOps => call[p].at \in 1..Len(Reader),
           Target(call[p]) \in Cards,
           call' = [call EXCEPT ![p].pc = "header"],
           owner' = [owner EXCEPT ![Target(call[p])] = p]
    PROVE  CallsOK' /\ OwnerType'
  <1> DEFINE r == [call[p] EXCEPT !.pc = "header"]
  <1>1. call[p] \in Call /\ RecordOK(call[p])
    BY DEF CallsOK, Records
  <1>2. call' = [call EXCEPT ![p] = r]
    BY DEF CallsOK, Call
  <1>3. r \in Call
    BY <1>1 DEF Call, Pcs
  <1>4. RecordOK(r)
    BY <1>1 DEF RecordOK, Call, IsValidPinLength
  <1>5. OwnerType'
    BY DEF OwnerType
  <1> HIDE DEF r
  <1> QED BY <1>2, <1>3, <1>4, <1>5, UpdatedCall

(* Scan keeps the types. *)
LEMMA ScanType ==
    ASSUME TypeInv, NEW p \in Callers, Scan(p)
    PROVE  TypeInv'
  <1>1. CallsOK /\ OwnerType
    BY TypeParts
  <1>2. call[p] \in Call /\ call[p].op \in ScanOps /\ call[p].pc = "scan"
    BY <1>1 DEF CallsOK, Records, RecordOK, Scan, At
  <1>3. CallsOK' /\ OwnerType'
    <2>1. CASE call[p].at > Len(Reader)
      BY <1>1, <2>1, ReturnOK DEF Scan
    <2>2. CASE ~(call[p].at > Len(Reader))
      <3>1. call[p].at \in 1..Len(Reader)
        BY <1>2, <2>2, LenReader DEF Call, Positions
      <3>2. CASE NextReader(p)
        BY <1>1, <1>2, <3>1, <3>2, NextReaderOK
      <3>3. CASE /\ call' = [call EXCEPT ![p].pc = "header"]
                 /\ owner' = [owner EXCEPT ![Card(p)] = p]
        <4>1. Target(call[p]) \in Cards
          BY <1>2, <3>1, ReaderCards DEF Target
        <4> QED BY <1>1, <1>2, <3>1, <3>3, <4>1, LockedOK DEF Card
      <3>4. CASE Fail(p)
        BY <1>1, <3>4, FailOK
      <3> QED BY <2>2, <3>2, <3>3, <3>4 DEF Scan
    <2> QED BY <2>1, <2>2
  <1> QED BY <1>3, QuietStep DEF Scan

(* Lock keeps the types. *)
LEMMA LockType ==
    ASSUME TypeInv, NEW p \in Callers, Lock(p)
    PROVE  TypeInv'
  <1>1. CallsOK /\ OwnerType
    BY TypeParts
  <1>2. call[p] \in Call /\ RecordOK(call[p]) /\ call[p].pc = "lock"
    BY <1>1 DEF CallsOK, Records, Lock, At
  <1>3. Target(call[p]) \in Cards
    BY <1>2, TargetCard
  <1>4. CallsOK' /\ OwnerType'
    <2>1. CASE Fail(p)
      BY <1>1, <2>1, FailOK
    <2>2. CASE /\ call' = [call EXCEPT ![p].pc = "header"]
               /\ owner' = [owner EXCEPT ![Card(p)] = p]
      BY <1>1, <1>2, <1>3, <2>2, LockedOK DEF Card, RecordOK
    <2> QED BY <2>1, <2>2 DEF Lock
  <1> QED BY <1>4, QuietStep DEF Lock

(* Header keeps the types. *)
LEMMA HeaderType ==
    ASSUME TypeInv, NEW p \in Callers, Header(p)
    PROVE  TypeInv'
  <1>1. CallsOK /\ OwnerType /\ FilesType
    BY TypeParts
  <1>2. call[p] \in Call /\ RecordOK(call[p]) /\ call[p].pc = "header"
    BY <1>1 DEF CallsOK, Records, Header, At
  <1>3. Card(p) \in Cards
    BY <1>2, TargetCard DEF Card
  <1>4. ASSUME Goto(p, "verify")
        PROVE  CallsOK' /\ OwnerType'
    <2>1. RecordOK(Moved(call[p], "verify"))
      BY <1>2 DEF RecordOK, Moved, Call, IsValidPinLength
    <2> QED BY <1>1, <1>4, <2>1, GotoOK DEF Pcs
  <1>5. CASE Op(p) = "cie_enable"
    <2>1. CASE IsEnrolled(Card(p))
      <3>1. CallsOK' /\ OwnerType'
        BY <1>1, <1>5, <2>1, ReturnOK DEF Header
      <3> QED BY <3>1, QuietStep DEF Header
    <2>2. CASE ~IsEnrolled(Card(p))
      <3>1. Goto(p, "data")
        BY <1>5, <2>2 DEF Header, Goto
      <3>2. RecordOK(Moved(call[p], "data"))
        BY <1>2, <1>5 DEF RecordOK, Moved, Call, IsValidPinLength, Op
      <3>3. CallsOK' /\ OwnerType'
        BY <1>1, <3>1, <3>2, GotoOK DEF Pcs
      <3> QED BY <3>3, QuietStep DEF Header
    <2> QED BY <2>1, <2>2
  <1>6. CASE Op(p) = "cie_sign"
    <2>1. CASE NextReader(p)
      <3>1. call[p].op \in ScanOps /\ call[p].at \in 1..Len(Reader)
        BY <1>2, <1>6 DEF Op, ScanOps, RecordOK
      <3>2. CallsOK' /\ OwnerType'
        BY <1>1, <2>1, <3>1, NextReaderOK
      <3> QED BY <3>2, QuietStep DEF Header
    <2>2. CASE Goto(p, "verify")
      BY <1>4, <2>2, QuietStep DEF Header
    <2> QED BY <1>6, <2>1, <2>2 DEF Header
  <1>7. CASE Op(p) = "cie_get_certificate"
    <2>1. CASE Fail(p)
      <3>1. CallsOK' /\ OwnerType'
        BY <1>1, <2>1, FailOK
      <3> QED BY <3>1, QuietStep DEF Header
    <2>2. CASE /\ call' = [call EXCEPT ![p].pc = "storeDer", ![p].cert = GetCertificate(Card(p))]
               /\ Release(p)
      <3> DEFINE r == [call[p] EXCEPT !.pc = "storeDer", !.cert = GetCertificate(Card(p))]
      <3>1. call' = [call EXCEPT ![p] = r]
        BY <2>2, <1>1 DEF CallsOK, Call
      <3>2. r \in Call
        BY <1>1, <1>2, <1>3, GetCertificateType DEF Call, Pcs
      <3>3. RecordOK(r)
        BY <1>2, <1>7 DEF RecordOK, Call, Op, IsValidPinLength, ScanOps, Changing
      <3>4. OwnerType'
        BY <2>2, <1>1 DEF OwnerType, Release
      <3> HIDE DEF r
      <3>5. CallsOK'
        BY <1>1, <3>1, <3>2, <3>3, UpdatedCall
      <3> QED BY <3>4, <3>5, QuietStep DEF Header
    <2> QED BY <1>7, <2>1, <2>2 DEF Header
  <1>8. CASE Op(p) \notin {"cie_enable", "cie_sign", "cie_get_certificate"}
    <2>1. Goto(p, "verify")
      BY <1>8 DEF Header
    <2> QED BY <1>4, <2>1, QuietStep DEF Header
  <1> QED BY <1>5, <1>6, <1>7, <1>8

(* A step that changes fields of its own record and writes nothing else. *)
LEMMA OwnStep ==
    ASSUME TypeInv, NEW p \in Callers, NEW r \in Call, RecordOK(r),
           call' = [call EXCEPT ![p] = r], UNCHANGED owner,
           Same, NoCardCommand, UNCHANGED files
    PROVE  TypeInv'
  <1>1. CallsOK /\ OwnerType
    BY TypeParts
  <1>2. CallsOK' /\ OwnerType'
    BY <1>1, UpdatedCall DEF OwnerType
  <1> QED BY <1>2, QuietStep

(* The reading steps keep the types. *)
LEMMA ReadingType ==
    ASSUME TypeInv, NEW p \in Callers, ReadData(p) \/ CardAuthenticateEx(p) \/ ReadCertificate(p)
    PROVE  TypeInv'
  <1>1. call[p] \in Call /\ RecordOK(call[p]) /\ call \in [Callers -> Call]
    BY TypeParts DEF CallsOK, Records
  <1>2. CASE ReadData(p)
    <2> DEFINE r == [call[p] EXCEPT !.pc = "auth", !.attempt = 1, !.anyCIE = TRUE]
    <2>1. call' = [call EXCEPT ![p] = r]
      BY <1>2, <1>1 DEF ReadData, Call
    <2>2. r \in Call
      <3>1. 1 \in Attempts
        BY DEF Attempts
      <3> QED BY <1>1, <3>1 DEF Call, Pcs
    <2>3. RecordOK(r)
      BY <1>1, <1>2 DEF ReadData, At, RecordOK, Call, IsValidPinLength
    <2> HIDE DEF r
    <2> QED BY <1>2, <2>1, <2>2, <2>3, OwnStep DEF ReadData
  <1>3. CASE CardAuthenticateEx(p)
    <2> DEFINE r == [call[p] EXCEPT !.pc = "verify"]
    <2>1. call' = [call EXCEPT ![p] = r]
      BY <1>3, <1>1 DEF CardAuthenticateEx, Call
    <2>2. r \in Call
      BY <1>1 DEF Call, Pcs
    <2>3. RecordOK(r)
      BY <1>1, <1>3 DEF CardAuthenticateEx, At, RecordOK, Call, IsValidPinLength
    <2> HIDE DEF r
    <2> QED BY <1>3, <2>1, <2>2, <2>3, OwnStep DEF CardAuthenticateEx
  <1>4. CASE ReadCertificate(p)
    <2> DEFINE r == [call[p] EXCEPT !.cert = "cert", !.pc = "store"]
    <2>1. call' = [call EXCEPT ![p] = r]
      BY <1>4, <1>1 DEF ReadCertificate, Call
    <2>2. r \in Call
      BY <1>1 DEF Call, Pcs, Certs
    <2>3. RecordOK(r)
      BY <1>1, <1>4 DEF ReadCertificate, At, RecordOK, Call, IsValidPinLength
    <2> HIDE DEF r
    <2> QED BY <1>4, <2>1, <2>2, <2>3, OwnStep DEF ReadCertificate
  <1> QED BY <1>2, <1>3, <1>4

(* A link error keeps the types. *)
LEMMA LinkErrorType ==
    ASSUME TypeInv, NEW p \in Callers, LinkError(p)
    PROVE  TypeInv'
  <1>1. CallsOK /\ OwnerType
    BY TypeParts
  <1>2. /\ call[p] \in Call /\ RecordOK(call[p])
        /\ call[p].pc \in {"header", "data", "auth", "read"}
    BY <1>1 DEF CallsOK, Records, LinkError
  <1>3. CASE RetryOnCardLinkError(p, call[p].pc, TRUE)
    <2>1. RecordOK([call[p] EXCEPT !.pc = call[p].pc, !.attempt = @ + 1])
      BY <1>2 DEF RecordOK, Call, IsValidPinLength
    <2>2. call[p].pc \in Pcs
      BY <1>2 DEF Call
    <2>3. CallsOK' /\ OwnerType'
      BY <1>1, <1>3, <2>1, <2>2, RetryOK
    <2> QED BY <2>3, QuietStep DEF LinkError
  <1>4. CASE Op(p) \in ScanOps \ {"cie_enable"} /\ NextReader(p)
    <2>1. call[p].op \in ScanOps /\ call[p].at \in 1..Len(Reader)
      BY <1>2, <1>4 DEF Op, RecordOK
    <2>2. CallsOK' /\ OwnerType'
      BY <1>1, <1>4, <2>1, NextReaderOK
    <2> QED BY <2>2, QuietStep DEF LinkError
  <1>5. CASE Fail(p)
    <2>1. CallsOK' /\ OwnerType'
      BY <1>1, <1>5, FailOK
    <2> QED BY <2>1, QuietStep DEF LinkError
  <1> QED BY <1>3, <1>4, <1>5 DEF LinkError

(* The steps that look for the certificate keep the types. *)
LEMMA CertificateType ==
    ASSUME TypeInv, NEW p \in Callers,
           CheckEnrolled(p) \/ FetchCertificate(p) \/ CertificateUnusable(p)
    PROVE  TypeInv'
  <1>1. call[p] \in Call /\ RecordOK(call[p]) /\ call \in [Callers -> Call] /\ FilesType
    BY TypeParts DEF CallsOK, Records
  <1>2. Card(p) \in Cards
    BY <1>1, TargetCard DEF Card, CheckEnrolled, FetchCertificate, CertificateUnusable, At
  <1>5. CASE CertificateUnusable(p)
    <2>1. CallsOK /\ OwnerType
      BY TypeParts
    <2>2. RecordOK(Moved(call[p], "change"))
      BY <1>1, <1>5 DEF CertificateUnusable, At, RecordOK, Moved, Call, IsValidPinLength
    <2>3. CallsOK' /\ OwnerType'
      BY <1>5, <2>1, <2>2, GotoOK DEF Pcs, CertificateUnusable
    <2> QED BY <1>5, <2>3, QuietStep DEF CertificateUnusable
  <1>3. CASE CheckEnrolled(p)
    <2> DEFINE r == [call[p] EXCEPT !.enrolled = IsEnrolled(Card(p)),
                                    !.pc = IF IsEnrolled(Card(p)) THEN "getcert" ELSE "change"]
    <2>1. call' = [call EXCEPT ![p] = r]
      BY <1>3, <1>1 DEF CheckEnrolled, Call
    <2>2. r \in Call
      <3>1. IsEnrolled(Card(p)) \in BOOLEAN
        BY DEF IsEnrolled, CacheExists
      <3> QED BY <1>1, <3>1 DEF Call, Pcs
    <2>3. RecordOK(r)
      BY <1>1, <1>3 DEF CheckEnrolled, At, RecordOK, Call, IsValidPinLength
    <2> HIDE DEF r
    <2> QED BY <1>3, <2>1, <2>2, <2>3, OwnStep DEF CheckEnrolled
  <1>4. CASE FetchCertificate(p)
    <2> DEFINE r == [call[p] EXCEPT !.cert = GetCertificate(Card(p)), !.pc = "change"]
    <2>1. call' = [call EXCEPT ![p] = r]
      BY <1>4, <1>1 DEF FetchCertificate, Call
    <2>2. r \in Call
      BY <1>1, <1>2, GetCertificateType DEF Call, Pcs
    <2>3. RecordOK(r)
      BY <1>1, <1>4 DEF FetchCertificate, At, RecordOK, Call, IsValidPinLength
    <2> HIDE DEF r
    <2> QED BY <1>4, <2>1, <2>2, <2>3, OwnStep DEF FetchCertificate
  <1> QED BY <1>3, <1>4, <1>5

(* A call that gives up for what a file holds, or does not take, keeps the *)
(* types.                                                                  *)
LEMMA GiveUpType ==
    ASSUME TypeInv, NEW p \in Callers, CacheUnusable(p) \/ WriteFails(p)
    PROVE  TypeInv'
  <1>1. CallsOK /\ OwnerType
    BY TypeParts
  <1>2. CallsOK' /\ OwnerType'
    BY <1>1, ReturnOK DEF CacheUnusable, WriteFails, Fail
  <1> QED BY <1>2, QuietStep DEF CacheUnusable, WriteFails

(* Verify keeps the types. *)
LEMMA VerifyType ==
    ASSUME TypeInv, NEW p \in Callers, Verify(p)
    PROVE  TypeInv'
  <1>1. CallsOK /\ OwnerType /\ FilesType /\ CardType /\ LoginType
    BY TypeParts
  <1>2. At(p, "verify") /\ CardAsked(p) /\ Answered(p) /\ UNCHANGED <<calls, files>>
    BY VerifyShape
  <1>3. call[p] \in Call /\ RecordOK(call[p]) /\ call[p].pc = "verify"
    BY <1>1, <1>2 DEF CallsOK, Records, At
  <1>4. Card(p) \in Cards
    BY <1>3, TargetCard DEF Card
  <1>5. CardType'
    <2>1. CASE UNCHANGED <<cardVars, charged>>
      BY <1>1, <2>1 DEF CardType, cardVars
    <2>2. ASSUME NEW x, CardVerify(p, Card(p), x)
          PROVE  CardType'
      BY <1>1, <1>4, <2>2, CardVerifyOK
    <2>3. CASE CardVerifyPUK(Card(p), call[p].puk)
      BY <1>1, <1>4, <2>3, CardVerifyPUKOK
    <2> QED BY <1>2, <2>1, <2>2, <2>3 DEF CardAsked
  <1>6. FilesType' /\ calls' \in 0..MaxCalls
    BY <1>1, <1>2, TypeParts DEF FilesType, files
  <1>7. ASSUME NEW l \in {"read", "check", "unblock"}, Goto(p, l),
               RecordOK(Moved(call[p], l))
        PROVE  CallsOK' /\ OwnerType'
    BY <1>1, <1>7, GotoOK DEF Pcs
  <1>8. CallsOK' /\ OwnerType' /\ LoginType'
    <2>1. CASE Fail(p) /\ UNCHANGED login
      BY <1>1, <2>1, FailOK DEF LoginType
    <2>2. CASE Op(p) = "cie_enable" /\ Goto(p, "read") /\ UNCHANGED <<login, pin>>
      <3>1. RecordOK(Moved(call[p], "read"))
        BY <1>3, <2>2 DEF Op, RecordOK, Moved, Call, IsValidPinLength
      <3> QED BY <1>1, <1>7, <2>2, <3>1 DEF LoginType
    <2>3. CASE Op(p) \in Changing /\ Goto(p, "check") /\ UNCHANGED <<login, pin>>
      <3>1. RecordOK(Moved(call[p], "check"))
        BY <1>3, <2>3 DEF Op, RecordOK, Moved, Call, IsValidPinLength
      <3> QED BY <1>1, <1>7, <2>3, <3>1 DEF LoginType
    <2>4. CASE Return(p, "OK") /\ UNCHANGED login
      BY <1>1, <2>4, ReturnOK DEF LoginType
    <2>5. ASSUME NEW user \in {"USER", "SO"}, LoggedIn(p, Card(p), user)
          PROVE  CallsOK' /\ OwnerType' /\ LoginType'
      <3>1. CallsOK' /\ OwnerType'
        BY <1>1, <2>5, ReturnOK DEF LoggedIn
      <3>2. call[p].pin \in Typed /\ call[p].puk \in BOOLEAN
        BY <1>3 DEF Call
      <3> QED BY <1>1, <1>4, <2>5, <3>1, <3>2 DEF LoggedIn, LoginType
    <2>6. CASE /\ Op(p) = "C_SetPIN" /\ CanCompose(Card(p), call[p].new)
               /\ call' = [call EXCEPT ![p].pc = "change", ![p].new = ComposeFullPIN(Card(p), @)]
               /\ UNCHANGED <<owner, login>>
      <3> DEFINE r == [call[p] EXCEPT !.pc = "change", !.new = ComposeFullPIN(Card(p), @)]
      <3>1. call' = [call EXCEPT ![p] = r]
        BY <2>6, <1>1 DEF CallsOK, Call
      <3>2. IsValidPinLength(call[p].new) /\ call[p].new \in Typed
        BY <1>3, <2>6 DEF RecordOK, Op, Call
      <3>3. ComposeFullPIN(Card(p), call[p].new) \in PINs
        BY <1>1, <1>4, <2>6, <3>2, ComposedPIN
      <3>4. r \in Call
        BY <1>3, <3>3, BlankTyped DEF Call, Pcs
      <3>5. IsValidPinLength(r.new)
        <4>1. r.new = ComposeFullPIN(Card(p), call[p].new)
          BY <1>3 DEF Call
        <4> QED BY <3>3, <4>1, BlankTyped, FullPin
      <3>6. RecordOK(r)
        BY <1>3, <2>6, <3>5 DEF Op, RecordOK, Call, Changing, ScanOps
      <3> HIDE DEF r
      <3> QED BY <1>1, <2>6, <3>1, <3>4, <3>6, UpdatedCall DEF OwnerType, LoginType
    <2>7. CASE Op(p) = "C_InitPIN" /\ Goto(p, "unblock") /\ UNCHANGED login
      <3>1. RecordOK(Moved(call[p], "unblock"))
        BY <1>3, <2>7 DEF Op, RecordOK, Moved, Call, IsValidPinLength
      <3> QED BY <1>1, <1>7, <2>7, <3>1 DEF LoginType
    <2> QED BY <1>2, <2>1, <2>2, <2>3, <2>4, <2>5, <2>6, <2>7 DEF Answered
  <1> QED BY <1>5, <1>6, <1>8, TypePartsNext

(* UnblockPIN keeps the types. *)
LEMMA UnblockPINType ==
    ASSUME TypeInv, NEW p \in Callers, UnblockPIN(p)
    PROVE  TypeInv'
  <1>1. CallsOK /\ OwnerType /\ FilesType /\ CardType /\ LoginType
    BY TypeParts
  <1>2. call[p] \in Call /\ RecordOK(call[p]) /\ call[p].pc = "unblock"
    BY <1>1 DEF CallsOK, Records, At, UnblockPIN
  <1>3. CardType' /\ FilesType' /\ LoginType' /\ calls' \in 0..MaxCalls
    <2>1. tries' \in [Cards -> 0..MaxTries]
      BY <1>1, PairingAssumption DEF UnblockPIN, CardType
    <2> QED BY <1>1, <2>1, TypeParts DEF UnblockPIN, CardType, FilesType, LoginType, Same, files
  <1>4. CallsOK' /\ OwnerType'
    <2>1. CASE Goto(p, "change")
      <3>1. RecordOK(Moved(call[p], "change"))
        BY <1>2 DEF RecordOK, Moved, Call, IsValidPinLength
      <3> QED BY <1>1, <2>1, <3>1, GotoOK DEF Pcs
    <2>2. CASE Fail(p)
      BY <1>1, <2>2, FailOK
    <2> QED BY <2>1, <2>2 DEF UnblockPIN
  <1> QED BY <1>3, <1>4, TypePartsNext

(* ChangePIN keeps the types. *)
LEMMA ChangePINType ==
    ASSUME TypeInv, NEW p \in Callers, ChangePIN(p)
    PROVE  TypeInv'
  <1>1. CallsOK /\ OwnerType /\ FilesType /\ CardType /\ LoginType
    BY TypeParts
  <1>2. call[p] \in Call /\ RecordOK(call[p]) /\ call[p].pc = "change"
    BY <1>1 DEF CallsOK, Records, At, ChangePIN
  <1>3. Card(p) \in Cards
    BY <1>2, TargetCard DEF Card
  <1>4. CardType'
    <2>1. CASE NoCardCommand
      BY <1>1, <2>1 DEF NoCardCommand, CardType, cardVars
    <2>2. CASE CanCompose(Card(p), call[p].new)
               /\ CardSetPIN(Card(p), ComposeFullPIN(Card(p), call[p].new))
      <3>1. call[p].new \in Typed /\ IsValidPinLength(call[p].new)
        BY <1>2, FullPin DEF RecordOK, Call, Changing
      <3>2. ComposeFullPIN(Card(p), call[p].new) \in PINs
        BY <1>1, <1>3, <2>2, <3>1, ComposedPIN
      <3> QED BY <1>1, <1>3, <2>2, <3>2, CardSetPINOK
    <2> QED BY <2>1, <2>2 DEF ChangePIN
  <1>5. CallsOK' /\ OwnerType'
    <2>1. CASE Fail(p)
      BY <1>1, <2>1, FailOK
    <2>2. CASE Op(p) \in ScanOps /\ Goto(p, "store")
      <3>1. RecordOK(Moved(call[p], "store"))
        BY <1>2, <2>2 DEF Op, RecordOK, Moved, Call, IsValidPinLength, ScanOps, Changing
      <3> QED BY <1>1, <2>2, <3>1, GotoOK DEF Pcs
    <2>3. CASE Return(p, "OK")
      BY <1>1, <2>3, ReturnOK
    <2> QED BY <2>1, <2>2, <2>3 DEF ChangePIN, AfterChange
  <1>6. FilesType' /\ LoginType' /\ calls' \in 0..MaxCalls
    BY <1>1, TypeParts DEF ChangePIN, FilesType, LoginType, Same, files
  <1> QED BY <1>4, <1>5, <1>6, TypePartsNext

(* The steps on the cache files keep the types. *)
LEMMA FileStepType ==
    ASSUME TypeInv, NEW p \in Callers,
           StoreCache(p) \/ CacheSetDer(p) \/ CacheGetDer(p) \/ RemoveCache(p) \/ RemoveDer(p)
    PROVE  TypeInv'
  <1>1. CallsOK /\ OwnerType /\ FilesType /\ CardType /\ LoginType
    BY TypeParts
  <1>2. /\ call[p] \in Call /\ RecordOK(call[p])
        /\ call[p].pc \in {"store", "storeDer", "lookup", "remove", "removeDer"}
    BY <1>1 DEF CallsOK, Records, At, StoreCache, CacheSetDer, CacheGetDer, RemoveCache, RemoveDer
  <1>3. Card(p) \in Cards
    BY <1>2, TargetCard DEF Card
  <1>4. hexEncode(Card(p)) \in Keys /\ dumpHexData(Card(p)) \in Keys
    BY <1>3, KeysOfCards
  <1>5. CardType' /\ LoginType' /\ calls' \in 0..MaxCalls
    BY <1>1, TypeParts DEF CardType, LoginType, Same, NoCardCommand, cardVars,
       StoreCache, CacheSetDer, CacheGetDer, RemoveCache, RemoveDer
  <1>6. FilesType'
    <2>1. CASE StoreCache(p)
      <3>1. StoreKey(p) \in Keys
        BY <1>4 DEF StoreKey
      <3>2. call[p].cert \in Certs
        BY <1>2 DEF Call
      <3>3. StoredHalf(p) \in Halves
        BY <1>2, <2>1 DEF StoreCache, At, StoredHalf, Op, RecordOK, PINs
      <3>4. [half |-> StoredHalf(p), cert |-> call[p].cert] \in Entry
        BY <3>2, <3>3 DEF Entry
      <3> QED BY <1>1, <2>1, <3>1, <3>4 DEF StoreCache, SetCache, FilesType
    <2>2. CASE CacheSetDer(p) \/ CacheGetDer(p) \/ RemoveCache(p) \/ RemoveDer(p)
      BY <1>1, <1>4, <2>2 DEF FilesType, CacheSetDer, CacheGetDer, RemoveCache, RemoveDer, files
    <2> QED BY <2>1, <2>2
  <1>7. CallsOK' /\ OwnerType'
    <2>1. CASE Return(p, "OK")
      BY <1>1, <2>1, ReturnOK
    <2>2. CASE StoreCache(p) /\ Op(p) = "cie_enable"
      <3>1. RecordOK(Moved(call[p], "storeDer"))
        BY <1>2, <2>2 DEF Op, RecordOK, Moved, Call, IsValidPinLength
      <3> QED BY <1>1, <2>2, <3>1, GotoOK DEF Pcs, StoreCache
    <2>6. CASE Fail(p)
      BY <1>1, <2>6, FailOK
    <2>3. CASE CacheSetDer(p) /\ Op(p) = "cie_enable" /\ ~Fail(p)
      <3>1. call[p].op \in ScanOps /\ call[p].at \in 1..Len(Reader)
        BY <1>2, <2>3 DEF Op, RecordOK, ScanOps
      <3> QED BY <1>1, <2>3, <3>1, NextReaderOK DEF CacheSetDer
    <2>4. CASE CacheGetDer(p) /\ Goto(p, "lock")
      <3>1. RecordOK(Moved(call[p], "lock"))
        BY <1>2, <2>4 DEF RecordOK, Moved, Call, IsValidPinLength
      <3> QED BY <1>1, <2>4, <3>1, GotoOK DEF Pcs
    <2>5. CASE RemoveCache(p)
      <3>1. RecordOK(Moved(call[p], "removeDer"))
        BY <1>2 DEF RecordOK, Moved, Call, IsValidPinLength
      <3> QED BY <1>1, <2>5, <3>1, GotoOK DEF Pcs, RemoveCache
    <2> QED BY <2>1, <2>2, <2>3, <2>4, <2>5, <2>6 DEF StoreCache, CacheSetDer, CacheGetDer, RemoveDer
  <1> QED BY <1>5, <1>6, <1>7, TypePartsNext

(* A crash keeps the types. *)
LEMMA CrashType ==
    ASSUME TypeInv, NEW p \in Callers, Crash(p)
    PROVE  TypeInv'
  <1>1. CallsOK /\ OwnerType /\ FilesType /\ CardType /\ LoginType
    BY TypeParts
  <1>2. CallsOK' /\ OwnerType'
    BY <1>1, FailOK DEF Crash
  <1>3. NoLogin \in [user : {"none", "USER", "SO"}, pin : Typed, puk : BOOLEAN]
    BY BlankTyped DEF NoLogin, Blank
  <1>4. LoginType'
    BY <1>1, <1>3 DEF Crash, LoginType
  <1>5. CardType' /\ FilesType' /\ calls' \in 0..MaxCalls
    BY <1>1, TypeParts DEF Crash, CardType, FilesType, NoCardCommand, cardVars, files
  <1> QED BY <1>2, <1>4, <1>5, TypePartsNext

(* The types hold at the start. *)
LEMMA InitType == Init => TypeInv
  <1> SUFFICES ASSUME Init PROVE TypeInv
    OBVIOUS
  <1>1. CardType
    BY PairingAssumption DEF Init, CardType
  <1>2. FilesType
    <2>1. PICK paired \in SUBSET Cards :
            cache = [k \in Keys |->
              IF k[1] \in paired /\ k = dumpHexData(k[1])
              THEN [half |-> pin[k[1]][1], cert |-> "cert"] ELSE NoCache]
      BY DEF Init
    <2>2. \A k \in Keys : [half |-> pin[k[1]][1], cert |-> "cert"] \in Entry
      BY <1>1 DEF CardType, Keys, PINs, Entry, Certs
    <2> QED BY <2>1, <2>2 DEF Init, FilesType
  <1>3. LoginType
    <2>1. NoLogin \in [user : {"none", "USER", "SO"}, pin : Typed, puk : BOOLEAN]
      BY BlankTyped DEF NoLogin, Blank
    <2> QED BY <2>1 DEF Init, LoginType
  <1>4. OwnerType /\ calls \in 0..MaxCalls
    BY PairingAssumption DEF Init, OwnerType
  <1>5. CallsOK
    BY EndedOK DEF Init, CallsOK, Records
  <1> QED BY <1>1, <1>2, <1>3, <1>4, <1>5, TypeParts

(* A stuttering step keeps the types. *)
LEMMA StutterType == TypeInv /\ UNCHANGED vars => TypeInv'
  <1> SUFFICES ASSUME TypeInv, UNCHANGED vars PROVE TypeInv'
    OBVIOUS
  <1>1. CallsOK' /\ OwnerType'
    BY TypeParts DEF vars, CallsOK, Records, OwnerType
  <1> QED BY <1>1, QuietStep DEF vars, Same, NoCardCommand, cardVars, files

(* Every step keeps the types. *)
LEMMA NextType == TypeInv /\ [Next]_vars => TypeInv'
  <1> SUFFICES ASSUME TypeInv, [Next]_vars PROVE TypeInv'
    OBVIOUS
  <1>1. ASSUME NEW p \in Callers, Step(p)
        PROVE  TypeInv'
    BY <1>1, ScanType, LockType, HeaderType, ReadingType, LinkErrorType, VerifyType,
       CertificateType, GiveUpType, UnblockPINType, ChangePINType, FileStepType DEF Step
  <1> QED BY <1>1, BeginType, CrashType, StutterType DEF Next

(* Every variable keeps its type, for any number of callers, readers and   *)
(* cards, whichever calls are made and whatever fails: in particular the   *)
(* attempts left on a card stay between zero and the card's maximum.       *)
THEOREM TypeCorrect == Spec => []TypeOK
  <1>1. TypeInv => TypeOK
    BY DEF TypeInv
  <1> QED BY <1>1, InitType, NextType, PTL DEF Spec

-----------------------------------------------------------------------------
(***************************************************************************)
(* Who holds the transaction on a card.  A step of caller p leaves the     *)
(* other calls alone and keeps, ends or begins p's own conversation.       *)
(***************************************************************************)
Kept(p) ==
    /\ UNCHANGED owner
    /\ Holding(call[p]) <=> Holding(call'[p])
    /\ Holding(call[p]) => Target(call'[p]) = Target(call[p])
Ceased(p) == Release(p) /\ ~Holding(call'[p])
Seized(p) ==
    /\ ~Holding(call[p]) /\ Holding(call'[p])
    /\ Target(call'[p]) \in Cards /\ owner[Target(call'[p])] = Nobody
    /\ owner' = [owner EXCEPT ![Target(call'[p])] = p]
Went(p) ==
    /\ \A q \in Callers \ {p} : call'[q] = call[q]
    /\ Kept(p) \/ Ceased(p) \/ Seized(p)

Ownership == OwnerHolds /\ HolderOwns

(* A step of one caller that goes as Went says keeps Ownership. *)
LEMMA OwnershipStep ==
    ASSUME TypeInv, TypeInv', Ownership, NEW p \in Callers, Went(p)
    PROVE  Ownership'
  <1>1. OwnerType /\ OwnerType'
    BY DEF TypeInv, TypeOK, OwnerType
  <1>2. p # Nobody
    BY PairingAssumption
  <1>3. ASSUME NEW q \in Callers, Holding(call[q])
        PROVE  Target(call[q]) \in Cards /\ owner[Target(call[q])] = q
    <2>1. call[q] \in Call /\ RecordOK(call[q]) /\ call[q].pc \notin {"idle", "scan"}
      BY <1>3 DEF TypeInv, TypeOK, Records, Holding, HoldingPcs
    <2> QED BY <1>3, <2>1, TargetCard DEF Ownership, HolderOwns
  <1>4. ASSUME NEW q \in Callers, Holding(call'[q])
        PROVE  owner'[Target(call'[q])] = q
    <2>1. CASE q # p
      <3>1. Holding(call[q]) /\ call'[q] = call[q]
        BY <1>4, <2>1 DEF Went
      <3>2. Target(call[q]) \in Cards /\ owner[Target(call[q])] = q
        BY <3>1, <1>3
      <3>3. q # Nobody
        BY PairingAssumption
      <3> QED BY <1>1, <2>1, <3>1, <3>2, <3>3 DEF Went, Kept, Ceased, Seized, Release, OwnerType
    <2>2. CASE q = p
      BY <1>1, <1>3, <1>4, <2>2 DEF Went, Kept, Ceased, Seized, OwnerType
    <2> QED BY <2>1, <2>2
  <1>5. ASSUME NEW c \in Cards, owner'[c] # Nobody
        PROVE  Holding(call'[owner'[c]]) /\ Target(call'[owner'[c]]) = c
    <2>1. CASE owner'[c] = owner[c]
      <3>1. Holding(call[owner[c]]) /\ Target(call[owner[c]]) = c /\ owner[c] \in Callers
        BY <1>1, <1>5, <2>1 DEF Ownership, OwnerHolds, OwnerType
      <3>2. CASE owner[c] = p
        <4>1. ~Ceased(p) /\ ~Seized(p)
          BY <1>2, <1>1, <2>1, <3>1, <3>2 DEF Ceased, Seized, Release, OwnerType
        <4> QED BY <2>1, <3>1, <3>2, <4>1 DEF Went, Kept
      <3>3. CASE owner[c] # p
        BY <2>1, <3>1, <3>3 DEF Went
      <3> QED BY <3>2, <3>3
    <2>2. CASE owner'[c] # owner[c]
      BY <1>1, <1>5, <2>2 DEF Went, Kept, Ceased, Seized, Release, OwnerType
    <2> QED BY <2>1, <2>2
  <1> QED BY <1>4, <1>5 DEF Ownership, OwnerHolds, HolderOwns

(* A call that returned holds no card. *)
LEMMA EndedHolds == \A rv : ~Holding(Ended(rv)) /\ Ended(rv).op = "none" /\ Ended(rv).pc = "idle"
  BY DEF Ended, Begun, Holding, HoldingPcs

(* A return goes as Went says. *)
LEMMA ReturnWent ==
    ASSUME TypeInv, NEW p \in Callers, NEW rv, Return(p, rv)
    PROVE  Went(p) /\ call'[p].pc = "idle" /\ call'[p].op = "none" /\ Ceased(p)
  BY EndedHolds DEF Return, Went, Ceased, TypeInv, TypeOK

(* A failure goes as Went says. *)
LEMMA FailWent ==
    ASSUME TypeInv, NEW p \in Callers, Fail(p)
    PROVE  Went(p) /\ call'[p].pc = "idle" /\ call'[p].op = "none" /\ Ceased(p)
  BY ReturnWent DEF Fail

(* A move to another step changes nothing else of the call. *)
LEMMA GotoWent ==
    ASSUME TypeInv, NEW p \in Callers, NEW l \in Pcs, Goto(p, l)
    PROVE  /\ \A q \in Callers \ {p} : call'[q] = call[q]
           /\ call'[p] = Moved(call[p], l) /\ UNCHANGED owner
           /\ call'[p].pc = l /\ Target(call'[p]) = Target(call[p])
           /\ \A x \in {"op", "card", "at", "pin", "new", "enrolled"} : call'[p][x] = call[p][x]
  BY DEF Goto, Moved, TypeInv, TypeOK, Call, Target

(* The next reader: the card of the last one is let go. *)
LEMMA NextReaderWent ==
    ASSUME TypeInv, NEW p \in Callers, NextReader(p)
    PROVE  /\ Went(p) /\ Ceased(p)
           /\ call'[p].pc = "scan" /\ call'[p].op = call[p].op /\ call'[p].at = call[p].at + 1
  BY DEF NextReader, TypeInv, TypeOK, Call, Went, Ceased, Holding, HoldingPcs

(* The steps before the PIN is presented, and where a step of p can lead. *)
Before == {"scan", "lock", "header", "data", "auth", "verify", "lookup"}
Ahead(p) ==
    \/ call'[p].op = "none" /\ call'[p].pc = "idle"
    \/ /\ call'[p].op = call[p].op /\ call'[p].card = call[p].card
       /\ \/ call'[p].pc = "scan" /\ call'[p].at = call[p].at + 1
          \/ /\ call'[p].at = call[p].at
             /\ call'[p].pc \in Before => call[p].pc \in Before \ {"verify"}
             /\ call'[p].pc # "idle"

(* A card taken goes as Went says. *)
LEMMA SeizedWent ==
    ASSUME TypeInv, NEW p \in Callers, call[p].pc \in {"scan", "lock"},
           Card(p) \in Cards, owner[Card(p)] = Nobody,
           call' = [call EXCEPT ![p].pc = "header"],
           owner' = [owner EXCEPT ![Card(p)] = p]
    PROVE  Went(p) /\ Ahead(p)
  <1>1. /\ call'[p].pc = "header" /\ call'[p].op = call[p].op /\ call'[p].card = call[p].card
        /\ call'[p].at = call[p].at /\ \A q \in Callers \ {p} : call'[q] = call[q]
    BY DEF TypeInv, TypeOK, Call
  <1>2. Target(call'[p]) = Card(p) /\ Holding(call'[p]) /\ ~Holding(call[p])
    BY <1>1 DEF Target, Card, Holding, HoldingPcs
  <1> QED BY <1>1, <1>2 DEF Went, Seized, Ahead, Before

(* Scan and Lock go as Went says, and never back in the call. *)
LEMMA ScanWent ==
    ASSUME TypeInv, NEW p \in Callers, Scan(p) \/ Lock(p)
    PROVE  Went(p) /\ Ahead(p)
  <1>1. call[p] \in Call /\ RecordOK(call[p])
    BY DEF TypeInv, TypeOK, Records
  <1>2. CASE Return(p, "OK") \/ Return(p, "FAILED")
    BY <1>2, ReturnWent DEF Ahead
  <1>3. CASE NextReader(p)
    <2>1. call'[p].card = call[p].card
      BY <1>3 DEF NextReader, TypeInv, TypeOK, Call
    <2> QED BY <1>3, <2>1, NextReaderWent DEF Ahead
  <1>4. CASE /\ owner[Card(p)] = Nobody
             /\ ~(Scan(p) /\ call[p].at > Len(Reader))
             /\ call' = [call EXCEPT ![p].pc = "header"]
             /\ owner' = [owner EXCEPT ![Card(p)] = p]
    <2>1. call[p].pc \in {"scan", "lock"}
      BY DEF Scan, Lock, At
    <2>2. Card(p) \in Cards
      <3>1. CASE Scan(p)
        <4>1. call[p].op \in ScanOps /\ call[p].at \in 1..Len(Reader)
          BY <1>1, <1>4, <3>1, LenReader DEF Scan, At, RecordOK, Call, Positions
        <4> QED BY <4>1, ReaderCards DEF Card, Target
      <3>2. CASE Lock(p)
        BY <1>1, <3>2, TargetCard DEF Lock, At, Card
      <3> QED BY <3>1, <3>2
    <2> QED BY <1>4, <2>1, <2>2, SeizedWent
  <1>5. Scan(p) /\ call[p].at > Len(Reader) => Return(p, "OK") \/ Return(p, "FAILED")
    BY DEF Scan
  <1> QED BY <1>2, <1>3, <1>4, <1>5 DEF Scan, Lock, Fail

(* Header goes as Went says, and never back in the call. *)
LEMMA HeaderWent ==
    ASSUME TypeInv, NEW p \in Callers, Header(p)
    PROVE  Went(p) /\ Ahead(p)
  <1>1. call[p] \in Call /\ RecordOK(call[p]) /\ call[p].pc = "header" /\ Holding(call[p])
    BY DEF TypeInv, TypeOK, Records, Header, At, Holding, HoldingPcs
  <1>2. CASE Return(p, "OK") \/ Fail(p)
    BY <1>2, ReturnWent, FailWent DEF Ahead
  <1>3. CASE NextReader(p)
    <2>1. call'[p].card = call[p].card
      BY <1>3 DEF NextReader, TypeInv, TypeOK, Call
    <2> QED BY <1>3, <2>1, NextReaderWent DEF Ahead
  <1>4. ASSUME NEW l \in {"data", "verify"}, Goto(p, l)
        PROVE  Went(p) /\ Ahead(p)
    <2>1. l \in Pcs
      BY DEF Pcs
    <2>2. /\ \A q \in Callers \ {p} : call'[q] = call[q]
          /\ UNCHANGED owner /\ call'[p].pc = l /\ Target(call'[p]) = Target(call[p])
          /\ call'[p].op = call[p].op /\ call'[p].card = call[p].card
          /\ call'[p].at = call[p].at
      BY <1>4, <2>1, GotoWent
    <2>3. Holding(call'[p])
      BY <2>2 DEF Holding, HoldingPcs
    <2> QED BY <1>1, <2>2, <2>3 DEF Went, Kept, Ahead, Before
  <1>5. CASE /\ Op(p) = "cie_get_certificate"
             /\ call' = [call EXCEPT ![p].pc = "storeDer", ![p].cert = GetCertificate(Card(p))]
             /\ Release(p)
    <2>1. /\ call'[p].pc = "storeDer" /\ call'[p].op = call[p].op /\ call'[p].card = call[p].card
          /\ call'[p].at = call[p].at /\ \A q \in Callers \ {p} : call'[q] = call[q]
      BY <1>5 DEF TypeInv, TypeOK, Call
    <2>2. ~Holding(call'[p])
      BY <1>5, <2>1 DEF Holding, HoldingPcs, Op
    <2> QED BY <1>5, <2>1, <2>2 DEF Went, Ceased, Ahead, Before
  <1>6. CASE /\ call' = [call EXCEPT ![p].pc = "data", ![p].attempt = 1]
             /\ UNCHANGED owner
    BY <1>4, <1>6 DEF Goto
  <1> QED BY <1>2, <1>3, <1>4, <1>5, <1>6 DEF Header

(* The reading steps go as Went says, and never back in the call. *)
LEMMA ReadingWent ==
    ASSUME TypeInv, NEW p \in Callers,
           ReadData(p) \/ CardAuthenticateEx(p) \/ ReadCertificate(p)
           \/ CheckEnrolled(p) \/ FetchCertificate(p) \/ CertificateUnusable(p)
    PROVE  Went(p) /\ Ahead(p)
  <1>1. call[p] \in Call /\ call \in [Callers -> Call]
    BY DEF TypeInv, TypeOK
  <1>2. /\ call'[p].op = call[p].op /\ call'[p].card = call[p].card /\ call'[p].at = call[p].at
        /\ \A q \in Callers \ {p} : call'[q] = call[q]
        /\ UNCHANGED owner
    BY <1>1 DEF ReadData, CardAuthenticateEx, ReadCertificate, CheckEnrolled, FetchCertificate,
                CertificateUnusable, Goto, Call
  <1>3. /\ call[p].pc \in {"data", "auth", "read", "check", "getcert"}
        /\ call'[p].pc \in {"auth", "verify", "store", "getcert", "change"}
        /\ call'[p].pc \in {"auth", "verify"} => call[p].pc \in {"data", "auth"}
    BY <1>1 DEF ReadData, CardAuthenticateEx, ReadCertificate, CheckEnrolled, FetchCertificate,
                CertificateUnusable, Goto, Call, At
  <1>4. Holding(call[p]) /\ Holding(call'[p]) /\ Target(call'[p]) = Target(call[p])
    BY <1>2, <1>3 DEF Holding, HoldingPcs, Target
  <1> QED BY <1>2, <1>3, <1>4 DEF Went, Kept, Ahead, Before

(* A link error goes as Went says, and never spares a card anew. *)
LEMMA LinkErrorWent ==
    ASSUME TypeInv, NEW p \in Callers, LinkError(p)
    PROVE  Went(p) /\ Ahead(p)
  <1>1. CASE Fail(p)
    BY <1>1, FailWent DEF Ahead
  <1>2. CASE NextReader(p)
    <2>1. call'[p].card = call[p].card
      BY <1>2 DEF NextReader, TypeInv, TypeOK, Call
    <2> QED BY <1>2, <2>1, NextReaderWent DEF Ahead
  <1>3. CASE /\ ~At(p, "read")
             /\ call' = [call EXCEPT ![p].pc = call[p].pc, ![p].attempt = @ + 1]
             /\ UNCHANGED owner
    <2>1. /\ call'[p].pc = call[p].pc /\ call'[p].op = call[p].op /\ call'[p].card = call[p].card
          /\ call'[p].at = call[p].at /\ \A q \in Callers \ {p} : call'[q] = call[q]
      BY <1>3 DEF TypeInv, TypeOK, Call
    <2>2. call[p].pc \in {"header", "data", "auth"}
      BY <1>3 DEF LinkError, At
    <2>3. Holding(call[p]) /\ Holding(call'[p]) /\ Target(call'[p]) = Target(call[p])
      BY <2>1, <2>2 DEF Holding, HoldingPcs, Target
    <2> QED BY <1>3, <2>1, <2>2, <2>3 DEF Went, Kept, Ahead, Before
  <1> QED BY <1>1, <1>2, <1>3 DEF LinkError, RetryOnCardLinkError

(* Verify goes as Went says. *)
LEMMA VerifyWent ==
    ASSUME TypeInv, NEW p \in Callers, Verify(p)
    PROVE  Went(p) /\ Ahead(p) /\ call'[p].pc \in {"idle", "read", "check", "change", "unblock"}
  <1>1. At(p, "verify") /\ Answered(p)
    BY VerifyShape
  <1>2. call[p] \in Call /\ Holding(call[p])
    BY <1>1 DEF TypeInv, TypeOK, At, Holding, HoldingPcs
  <1>3. CASE Fail(p) \/ Return(p, "OK")
    BY <1>3, ReturnWent, FailWent DEF Ahead
  <1>4. ASSUME NEW l \in {"read", "check", "unblock"}, Goto(p, l)
        PROVE  Went(p) /\ Ahead(p) /\ call'[p].pc = l
    <2>1. l \in Pcs
      BY DEF Pcs
    <2>2. /\ \A q \in Callers \ {p} : call'[q] = call[q]
          /\ UNCHANGED owner /\ call'[p].pc = l /\ Target(call'[p]) = Target(call[p])
          /\ call'[p].op = call[p].op /\ call'[p].card = call[p].card
          /\ call'[p].at = call[p].at
      BY <1>4, <2>1, GotoWent
    <2>3. Holding(call'[p])
      BY <2>2 DEF Holding, HoldingPcs
    <2> QED BY <1>2, <2>2, <2>3 DEF Went, Kept, Ahead, Before
  <1>5. CASE /\ call' = [call EXCEPT ![p].pc = "change", ![p].new = ComposeFullPIN(Card(p), @)]
             /\ UNCHANGED owner
    <2>1. /\ call'[p].pc = "change" /\ call'[p].op = call[p].op /\ call'[p].card = call[p].card
          /\ call'[p].at = call[p].at /\ \A q \in Callers \ {p} : call'[q] = call[q]
      BY <1>5 DEF TypeInv, TypeOK, Call
    <2>2. Holding(call'[p]) /\ Target(call'[p]) = Target(call[p])
      BY <2>1 DEF Holding, HoldingPcs, Target
    <2> QED BY <1>2, <1>5, <2>1, <2>2 DEF Went, Kept, Ahead, Before
  <1> QED BY <1>1, <1>3, <1>4, <1>5 DEF Answered, LoggedIn

(* The writing steps go as Went says, and never back in the call. *)
LEMMA WritingWent ==
    ASSUME TypeInv, NEW p \in Callers, UnblockPIN(p) \/ ChangePIN(p) \/ StoreCache(p)
    PROVE  Went(p) /\ Ahead(p)
  <1>1. call[p] \in Call /\ RecordOK(call[p]) /\ Holding(call[p])
    BY DEF TypeInv, TypeOK, Records, UnblockPIN, ChangePIN, StoreCache, At, Holding, HoldingPcs
  <1>2. CASE Fail(p) \/ Return(p, "OK")
    BY <1>2, ReturnWent, FailWent DEF Ahead
  <1>3. ASSUME NEW l \in {"change", "store", "storeDer"}, Goto(p, l),
               l = "storeDer" => Op(p) = "cie_enable"
        PROVE  Went(p) /\ Ahead(p)
    <2>1. l \in Pcs
      BY DEF Pcs
    <2>2. /\ \A q \in Callers \ {p} : call'[q] = call[q]
          /\ UNCHANGED owner /\ call'[p].pc = l /\ Target(call'[p]) = Target(call[p])
          /\ call'[p].op = call[p].op /\ call'[p].card = call[p].card
          /\ call'[p].at = call[p].at
      BY <1>3, <2>1, GotoWent
    <2>3. Holding(call'[p])
      BY <1>3, <2>2 DEF Holding, HoldingPcs, Op
    <2> QED BY <1>1, <2>2, <2>3 DEF Went, Kept, Ahead, Before
  <1> QED BY <1>2, <1>3 DEF UnblockPIN, ChangePIN, AfterChange, StoreCache

(* The steps on the files go as Went says, and never back in the call. *)
LEMMA FileWent ==
    ASSUME TypeInv, NEW p \in Callers,
           CacheSetDer(p) \/ CacheGetDer(p) \/ RemoveCache(p) \/ RemoveDer(p)
    PROVE  Went(p) /\ Ahead(p)
  <1>1. CASE Return(p, "OK") \/ Fail(p)
    BY <1>1, ReturnWent, FailWent DEF Ahead
  <1>2. CASE NextReader(p)
    <2>1. call'[p].card = call[p].card
      BY <1>2 DEF NextReader, TypeInv, TypeOK, Call
    <2> QED BY <1>2, <2>1, NextReaderWent DEF Ahead
  <1>3. ASSUME NEW l \in {"lock", "removeDer"}, Goto(p, l),
               call[p].pc \in {"lookup", "remove"}, l = "lock" => call[p].pc = "lookup"
        PROVE  Went(p) /\ Ahead(p)
    <2>1. l \in Pcs
      BY DEF Pcs
    <2>2. /\ \A q \in Callers \ {p} : call'[q] = call[q]
          /\ UNCHANGED owner /\ call'[p].pc = l
          /\ call'[p].op = call[p].op /\ call'[p].card = call[p].card
          /\ call'[p].at = call[p].at
      BY <1>3, <2>1, GotoWent
    <2>3. ~Holding(call'[p]) /\ ~Holding(call[p])
      BY <1>3, <2>2 DEF Holding, HoldingPcs
    <2> QED BY <1>3, <2>2, <2>3 DEF Went, Kept, Ahead, Before
  <1> QED BY <1>1, <1>2, <1>3 DEF CacheSetDer, CacheGetDer, RemoveCache, RemoveDer, At

(* So does giving up. *)
LEMMA GiveUpWent ==
    ASSUME TypeInv, NEW p \in Callers, CacheUnusable(p) \/ WriteFails(p)
    PROVE  Went(p) /\ Ahead(p) /\ call'[p].pc = "idle"
  BY ReturnWent DEF CacheUnusable, WriteFails, Fail, Ahead

(* Every step of a call goes as Went says. *)
LEMMA StepWent ==
    ASSUME TypeInv, NEW p \in Callers, Step(p)
    PROVE  Went(p) /\ Ahead(p)
  BY ScanWent, HeaderWent, ReadingWent, LinkErrorWent, VerifyWent, WritingWent, FileWent, GiveUpWent
     DEF Step

(* A call that begins goes as Went says and touches no card and no file. *)
LEMMA BeginWent ==
    ASSUME TypeInv, NEW p \in Callers, Begin(p)
    PROVE  /\ Went(p) /\ Idle(p) /\ UNCHANGED <<cardVars, files, owner>>
           /\ charged' = [charged EXCEPT ![p] = [d \in Cards |-> 0]]
           /\ call'[p].pc \in {"idle", "scan", "lock", "lookup", "remove"}
           /\ call'[p].op \in Ops \union {"none"}
  <1> DEFINE Goal == /\ Went(p) /\ Idle(p) /\ UNCHANGED <<cardVars, files, owner>>
                     /\ charged' = [charged EXCEPT ![p] = [d \in Cards |-> 0]]
                     /\ call'[p].pc \in {"idle", "scan", "lock", "lookup", "remove"}
                     /\ call'[p].op \in Ops \union {"none"}
  <1>1. ASSUME NEW op, NEW accepted, NEW r, Enter(p, op, accepted, r),
               r.op \in {op, "none"}, r.pc \in {"idle", "scan", "lock", "lookup", "remove"}
        PROVE  Goal
    <2>1. /\ op \in Ops /\ Idle(p) /\ UNCHANGED <<cardVars, files, owner>>
          /\ charged' = [charged EXCEPT ![p] = [d \in Cards |-> 0]]
      BY <1>1 DEF Enter
    <2>2. /\ \A q \in Callers \ {p} : call'[q] = call[q]
          /\ call'[p] = r \/ call'[p] = Ended("FAILED")
      BY <1>1 DEF Enter, TypeInv, TypeOK
    <2>3. /\ call'[p].pc \in {"idle", "scan", "lock", "lookup", "remove"}
          /\ call'[p].op \in Ops \union {"none"}
      BY <1>1, <2>1, <2>2, EndedHolds
    <2>4. ~Holding(call[p]) /\ ~Holding(call'[p])
      BY <2>1, <2>3 DEF Idle, Holding, HoldingPcs
    <2> QED BY <2>1, <2>2, <2>3, <2>4 DEF Went, Kept
  <1>2. ASSUME NEW op, NEW accepted, NEW c, NEW t, NEW new, NEW puk,
               NEW l \in {"scan", "lock", "lookup", "remove"},
               Enter(p, op, accepted, Begun(op, c, t, new, puk, l))
        PROVE  Goal
    <2>1. Begun(op, c, t, new, puk, l).op = op /\ Begun(op, c, t, new, puk, l).pc = l
      BY DEF Begun
    <2> HIDE DEF Goal
    <2> QED BY <1>1, <1>2, <2>1
  <1>p. ASSUME NEW op, NEW accepted, NEW c, NEW t, NEW new, NEW puk,
               P11(p, op, c, accepted, t, new, puk)
        PROVE  Goal
    <2> HIDE DEF Goal
    <2> QED BY <1>2, <1>p DEF P11
  <1> HIDE DEF Goal
  <1>3. ASSUME cie_enable(p)
        PROVE  Goal
    BY <1>2, <1>3 DEF cie_enable
  <1>3s. ASSUME cie_sign(p)
        PROVE  Goal
    BY <1>2, <1>3s DEF cie_sign
  <1>4. ASSUME cie_change_pin(p)
        PROVE  Goal
    BY <1>2, <1>4 DEF cie_change_pin
  <1>4u. ASSUME cie_unblock_pin(p)
        PROVE  Goal
    BY <1>2, <1>4u DEF cie_unblock_pin
  <1>5. ASSUME cie_disable(p)
        PROVE  Goal
    BY <1>2, <1>5 DEF cie_disable
  <1>5g. ASSUME cie_get_certificate(p)
        PROVE  Goal
    BY <1>2, <1>5g DEF cie_get_certificate
  <1>6. ASSUME C_Login(p)
        PROVE  Goal
    BY <1>p, <1>6 DEF C_Login
  <1>6o. ASSUME C_LoginSO(p)
        PROVE  Goal
    BY <1>p, <1>6o DEF C_LoginSO
  <1>6s. ASSUME C_Sign(p)
        PROVE  Goal
    BY <1>p, <1>6s DEF C_Sign
  <1>7. ASSUME C_SetPIN(p)
        PROVE  Goal
    BY <1>p, <1>7 DEF C_SetPIN
  <1>7i. ASSUME C_InitPIN(p)
        PROVE  Goal
    BY <1>p, <1>7i DEF C_InitPIN
  <1>8. ASSUME C_Logout(p)
        PROVE  Goal
    BY <1>1, <1>8, EndedHolds DEF C_Logout
  <1>9. Goal
    BY <1>3, <1>3s, <1>4, <1>4u, <1>5, <1>5g, <1>6, <1>6o, <1>6s, <1>7, <1>7i, <1>8 DEF Begin
  <1> QED BY <1>9 DEF Goal

(* Ownership holds at the start. *)
LEMMA InitOwnership == Init => Ownership
  BY EndedHolds DEF Init, Ownership, OwnerHolds, HolderOwns

(* Every step keeps Ownership. *)
LEMMA NextOwnership == TypeInv /\ Ownership /\ [Next]_vars => Ownership'
  <1> SUFFICES ASSUME TypeInv, Ownership, [Next]_vars PROVE Ownership'
    OBVIOUS
  <1>1. TypeInv'
    BY NextType
  <1>2. ASSUME NEW p \in Callers, Begin(p) \/ Step(p) \/ Crash(p)
        PROVE  Ownership'
    BY <1>1, <1>2, BeginWent, StepWent, FailWent, OwnershipStep DEF Crash
  <1>3. CASE UNCHANGED vars
    BY <1>3 DEF vars, Ownership, OwnerHolds, HolderOwns
  <1> QED BY <1>2, <1>3 DEF Next

-----------------------------------------------------------------------------
(***************************************************************************)
(* One attempt per call.  Until the PIN is presented to a card, the call   *)
(* has cost it nothing; the loop over the readers never comes back to a    *)
(* card, and rethrowAsNonRetryable keeps VERIFY out of the retries.        *)
(***************************************************************************)
Spared(r, c) ==
    \/ r.op \in ScanOps /\ \E j \in 1..Len(Reader) :
         Reader[j] = c /\ (j > r.at \/ (j = r.at /\ r.pc \in Before))
    \/ r.op \notin ScanOps /\ r.pc \in Before /\ r.card = c
SparedFree == \A p \in Callers, c \in Cards :
    /\ charged[p][c] <= 1
    /\ Spared(call[p], c) => charged[p][c] = 0

(* A card spared after a step was spared before it. *)
LEMMA SparedMonotone ==
    ASSUME TypeInv, TypeInv', NEW p \in Callers, NEW c \in Cards, Ahead(p), Spared(call'[p], c)
    PROVE  Spared(call[p], c)
  <1>1. call[p] \in Call /\ (call'[p].pc = "scan" => call'[p].op \in ScanOps)
    BY DEF TypeInv, TypeOK, Records, RecordOK
  <1>2. CASE call'[p].op = "none" /\ call'[p].pc = "idle"
    BY <1>2 DEF Spared, ScanOps, Before
  <1>3. CASE /\ call'[p].op = call[p].op /\ call'[p].card = call[p].card
             /\ call'[p].pc = "scan" /\ call'[p].at = call[p].at + 1
    BY <1>1, <1>3, LenReader DEF Spared, Call, Positions
  <1> QED BY <1>2, <1>3 DEF Ahead, Spared

(* Only Verify charges a try. *)
LEMMA ChargedByVerify ==
    ASSUME NEW p \in Callers, Step(p) \/ Crash(p), ~Verify(p)
    PROVE  UNCHANGED charged
  BY DEF Step, Crash, Scan, Lock, Header, ReadData, CardAuthenticateEx, LinkError, CheckEnrolled,
     FetchCertificate, UnblockPIN, ChangePIN, ReadCertificate, StoreCache, CacheSetDer,
     CacheGetDer, RemoveCache, RemoveDer, CertificateUnusable, CacheUnusable, WriteFails,
     NoCardCommand, CardSetPIN

(* Verify charges the card the call works on and no other. *)
LEMMA VerifySpared ==
    ASSUME TypeInv, TypeInv', SparedFree, NEW p \in Callers, Verify(p)
    PROVE  SparedFree'
  <1>1. CardType /\ call[p] \in Call /\ RecordOK(call[p])
    BY TypeParts DEF CallsOK, Records
  <1>2. At(p, "verify") /\ CardAsked(p)
    BY VerifyShape
  <1>3. /\ Went(p) /\ Ahead(p)
        /\ call'[p].pc \in {"idle", "read", "check", "change", "unblock"}
    BY VerifyWent
  <1>4. Card(p) \in Cards
    BY <1>1, <1>2, TargetCard DEF Card, At
  <1>5. Spared(call[p], Card(p))
    <2>1. CASE call[p].op \in ScanOps
      BY <1>1, <1>2, <2>1 DEF Spared, Card, Target, At, RecordOK, Before
    <2>2. CASE call[p].op \notin ScanOps
      BY <1>2, <2>2 DEF Spared, Card, Target, At, Before
    <2> QED BY <2>1, <2>2
  <1>6. ~Spared(call'[p], Card(p))
    <2>1. call'[p].pc \notin Before
      BY <1>3 DEF Before
    <2>2. CASE call'[p].op \in ScanOps
      <3>1. call'[p].op = call[p].op /\ call'[p].at = call[p].at
        BY <1>3, <2>1, <2>2 DEF Ahead, Before, ScanOps
      <3>2. call[p].at \in 1..Len(Reader) /\ Card(p) = Reader[call[p].at]
        BY <1>1, <1>2, <2>2, <3>1 DEF RecordOK, At, Card, Target
      <3>3. \A j \in 1..Len(Reader) : Reader[j] = Card(p) => j = call[p].at
        BY <3>2, PairingAssumption
      <3> QED BY <2>1, <2>2, <3>1, <3>2, <3>3, LenReader DEF Spared
    <2>3. CASE call'[p].op \notin ScanOps
      BY <2>1, <2>3 DEF Spared
    <2> QED BY <2>2, <2>3
  <1>7. /\ \A q \in Callers \ {p} : charged'[q] = charged[q]
        /\ \A c \in Cards \ {Card(p)} : charged'[p][c] = charged[p][c]
        /\ charged'[p][Card(p)] \in {charged[p][Card(p)], charged[p][Card(p)] + 1}
    BY <1>1, <1>2, <1>4 DEF CardAsked, CardVerify, CardVerifyPUK, CardType
  <1>8. charged[p][Card(p)] = 0
    BY <1>4, <1>5 DEF SparedFree
  <1>9. ASSUME NEW q \in Callers, NEW c \in Cards
        PROVE  charged'[q][c] <= 1 /\ (Spared(call'[q], c) => charged'[q][c] = 0)
    <2>1. CASE q # p
      BY <1>3, <1>7, <2>1 DEF Went, SparedFree
    <2>2. CASE q = p /\ c # Card(p)
      BY <1>3, <1>7, <2>2, SparedMonotone DEF SparedFree
    <2>3. CASE q = p /\ c = Card(p)
      BY <1>6, <1>7, <1>8, <2>3
    <2> QED BY <2>1, <2>2, <2>3
  <1> QED BY <1>9 DEF SparedFree

(* Every step keeps SparedFree. *)
LEMMA NextSpared == TypeInv /\ SparedFree /\ [Next]_vars => SparedFree'
  <1> SUFFICES ASSUME TypeInv, SparedFree, [Next]_vars PROVE SparedFree'
    OBVIOUS
  <1>1. TypeInv'
    BY NextType
  <1>2. ASSUME NEW p \in Callers, Begin(p)
        PROVE  SparedFree'
    <2>1. Went(p) /\ charged' = [charged EXCEPT ![p] = [d \in Cards |-> 0]]
      BY <1>2, BeginWent
    <2>2. \A q \in Callers, c \in Cards :
             charged'[q][c] = IF q = p THEN 0 ELSE charged[q][c]
      BY <2>1 DEF TypeInv, TypeOK
    <2> QED BY <2>1, <2>2 DEF SparedFree, Went
  <1>3. ASSUME NEW p \in Callers, Step(p) \/ Crash(p), ~Verify(p)
        PROVE  SparedFree'
    <2>1. UNCHANGED charged
      BY <1>3, ChargedByVerify
    <2>2. Went(p) /\ Ahead(p)
      BY <1>3, StepWent, FailWent DEF Crash, Ahead
    <2>3. \A c \in Cards : Spared(call'[p], c) => Spared(call[p], c)
      BY <1>1, <2>2, SparedMonotone
    <2>4. \A q \in Callers \ {p} : call'[q] = call[q]
      BY <2>2 DEF Went
    <2> HIDE DEF Spared
    <2> QED BY <2>1, <2>3, <2>4 DEF SparedFree
  <1>4. CASE UNCHANGED vars
    BY <1>4 DEF vars, SparedFree
  <1> QED BY <1>1, <1>2, <1>3, <1>4, VerifySpared DEF Next

(* However many readers there are, whichever calls run at the same time    *)
(* and whatever breaks, one call of the library costs a card at most one   *)
(* attempt: VERIFY is never among the retried commands, and the loop over  *)
(* the readers meets each card once.                                       *)
THEOREM OneAttempt == Spec => []OneAttemptPerCall
  <1>1. Init => SparedFree
    BY EndedHolds DEF Init, SparedFree, Spared, ScanOps, Before
  <1>2. SparedFree => OneAttemptPerCall
    BY DEF SparedFree, OneAttemptPerCall
  <1> QED BY <1>1, <1>2, InitType, NextType, NextSpared, PTL DEF Spec

-----------------------------------------------------------------------------
(***************************************************************************)
(* The cached half.  While a call holds the card, what it has learnt of    *)
(* the PIN and of the enrolment stays true; the half in the cache may lag  *)
(* behind the card only between ChangePIN and SetCache of one call, which  *)
(* has the transaction on the card for that long.                          *)
(***************************************************************************)
Critical == {"read", "store", "getcert", "change"}
Sound(p) ==
    LET r == call[p]
        c == Target(call[p])
    IN
    /\ r.op \notin {"C_SetPIN", "C_InitPIN"}
    /\ r.op = "cie_enable" /\ r.pc \in {"read", "store"} => r.pin = pin[c]
    /\ r.op \in Changing /\ r.pc = "getcert" => r.enrolled
    /\ r.op \in Changing /\ r.pc = "change" => r.enrolled \/ ~IsEnrolled(c)
    /\ r.op \in Changing /\ r.pc = "store" => r.new = pin[c]
Storing(c) ==
    /\ owner[c] # Nobody
    /\ call[owner[c]].pc = "store" /\ call[owner[c]].op \in Changing
HalfOK(c) == IsEnrolled(c) => cache[dumpHexData(c)].half = pin[c][1] \/ Storing(c)
CacheInv == (\A p \in Callers : Sound(p)) /\ (\A c \in Cards : HalfOK(c))
CacheIInv == TypeInv /\ Ownership /\ CacheInv

(* Another caller's conversation does not end. *)
LEMMA OthersStore ==
    ASSUME TypeInv, NEW p \in Callers, Went(p), NEW c \in Cards, Storing(c), owner[c] # p
    PROVE  Storing(c)'
  <1>1. OwnerType /\ owner[c] \in Callers \ {p}
    BY DEF TypeInv, TypeOK, OwnerType, Storing
  <1>2. owner'[c] = owner[c]
    BY <1>1 DEF Went, Kept, Ceased, Seized, Release, OwnerType, Storing
  <1>3. call'[owner[c]] = call[owner[c]]
    BY <1>1 DEF Went
  <1> QED BY <1>2, <1>3 DEF Storing

(* A step that writes neither the PIN nor the cache. *)
LEMMA QuietCache ==
    ASSUME CacheIInv, NEW p \in Callers, Went(p), UNCHANGED <<pin, cache>>,
           call[p].pc # "store", Sound(p)'
    PROVE  CacheInv'
  <1>1. ASSUME NEW q \in Callers
        PROVE  Sound(q)'
    <2>1. CASE q # p
      <3>1. call'[q] = call[q] /\ Sound(q)
        BY <2>1 DEF Went, CacheIInv, CacheInv
      <3> QED BY <3>1 DEF Sound, IsEnrolled, CacheExists
    <2> QED BY <2>1
  <1>2. ASSUME NEW c \in Cards
        PROVE  HalfOK(c)'
    <2>1. CASE Storing(c)
      <3>1. owner[c] # p
        BY <2>1 DEF Storing
      <3>2. Storing(c)'
        BY <2>1, <3>1, OthersStore DEF CacheIInv
      <3> QED BY <3>2 DEF HalfOK
    <2>2. CASE ~Storing(c)
      BY <2>2 DEF CacheIInv, CacheInv, HalfOK, IsEnrolled, CacheExists
    <2> QED BY <2>1, <2>2
  <1> QED BY <1>1, <1>2 DEF CacheInv

(* The steps that lead to no critical one. *)
LEMMA PlainSteps ==
    ASSUME TypeInv, NEW p \in Callers,
           \/ Scan(p) \/ Lock(p) \/ Header(p) \/ ReadData(p) \/ CardAuthenticateEx(p)
           \/ LinkError(p) \/ CacheSetDer(p) \/ CacheGetDer(p) \/ RemoveDer(p)
           \/ CacheUnusable(p)
    PROVE  /\ call'[p].pc \notin Critical /\ call[p].pc # "store"
           /\ UNCHANGED <<pin, cache>>
  <1>1. UNCHANGED <<pin, cache>> /\ call[p].pc # "store"
    BY DEF Scan, Lock, Header, ReadData, CardAuthenticateEx, LinkError, CacheSetDer, CacheGetDer,
       RemoveDer, CacheUnusable, NeedsEntry, NoCardCommand, cardVars, files, At
  <1>2. \A l \in Pcs : Goto(p, l) => call'[p].pc = l
    BY DEF Goto, TypeInv, TypeOK, Call
  <1>3. "verify" \in Pcs /\ "lock" \in Pcs
    BY DEF Pcs
  <1>4. NextReader(p) => call'[p].pc = "scan"
    BY NextReaderWent
  <1>5. Fail(p) \/ Return(p, "OK") \/ Return(p, "FAILED") => call'[p].pc = "idle"
    BY FailWent, ReturnWent
  <1>6. ASSUME NEW l, call' = [call EXCEPT ![p].pc = l]
        PROVE  call'[p].pc = l
    BY <1>6 DEF TypeInv, TypeOK, Call
  <1> USE DEF Critical
  <1>7. CASE Scan(p) \/ Lock(p)
    BY <1>4, <1>5, <1>6, <1>7, <1>1 DEF Scan, Lock
  <1>8. CASE Header(p)
    <2>1. \/ Return(p, "OK") \/ Fail(p) \/ NextReader(p) \/ Goto(p, "verify")
          \/ call' = [call EXCEPT ![p].pc = "data", ![p].attempt = 1]
          \/ call' = [call EXCEPT ![p].pc = "storeDer", ![p].cert = GetCertificate(Card(p))]
      BY <1>8 DEF Header
    <2>2. CASE \/ call' = [call EXCEPT ![p].pc = "data", ![p].attempt = 1]
               \/ call' = [call EXCEPT ![p].pc = "storeDer", ![p].cert = GetCertificate(Card(p))]
      BY <1>1, <2>2 DEF TypeInv, TypeOK, Call
    <2> QED BY <1>1, <1>2, <1>3, <1>4, <1>5, <2>1, <2>2
  <1>9. CASE ReadData(p) \/ CardAuthenticateEx(p)
    BY <1>1, <1>9 DEF ReadData, CardAuthenticateEx, TypeInv, TypeOK, Call
  <1>10. CASE LinkError(p)
    <2>1. CASE /\ ~At(p, "read")
               /\ call' = [call EXCEPT ![p].pc = call[p].pc, ![p].attempt = @ + 1]
      BY <1>1, <1>10, <2>1 DEF LinkError, At, TypeInv, TypeOK, Call
    <2> QED BY <1>1, <1>4, <1>5, <1>10, <2>1 DEF LinkError, RetryOnCardLinkError
  <1>11. CASE CacheSetDer(p) \/ CacheGetDer(p) \/ RemoveDer(p)
    BY <1>1, <1>2, <1>3, <1>4, <1>5, <1>11 DEF CacheSetDer, CacheGetDer, RemoveDer
  <1>12. CASE CacheUnusable(p)
    BY <1>1, <1>5, <1>12 DEF CacheUnusable
  <1> QED BY <1>7, <1>8, <1>9, <1>10, <1>11, <1>12

(* A call that holds a card is its owner. *)
LEMMA HolderOfCard ==
    ASSUME TypeInv, Ownership, NEW p \in Callers, Holding(call[p])
    PROVE  Card(p) \in Cards /\ owner[Card(p)] = p
  <1>1. call[p] \in Call /\ RecordOK(call[p]) /\ call[p].pc \notin {"idle", "scan"}
    BY DEF TypeInv, TypeOK, Records, Holding, HoldingPcs
  <1> QED BY <1>1, TargetCard DEF Card, Ownership, HolderOwns

(* Verify keeps the cache in step with the cards. *)
LEMMA VerifyCache ==
    ASSUME CacheIInv, NEW p \in Callers, Verify(p)
    PROVE  CacheInv'
  <1>1. TypeInv /\ Sound(p)
    BY DEF CacheIInv, CacheInv
  <1>2. At(p, "verify") /\ CardAsked(p) /\ Answered(p) /\ UNCHANGED files
    BY VerifyShape
  <1>3. Went(p) /\ Ahead(p) /\ UNCHANGED <<pin, cache>> /\ call[p].pc # "store"
    BY <1>1, <1>2, VerifyWent DEF CardAsked, CardVerify, CardVerifyPUK, cardVars, files, At
  <1>4. Sound(p)'
    <2>1. CASE call'[p].pc \in Critical
      <3>1. call'[p].op = call[p].op /\ call[p].op \notin {"C_SetPIN", "C_InitPIN"}
        BY <1>1, <1>3, <2>1 DEF Ahead, Critical, Sound
      <3>2. ~Fail(p) /\ ~Return(p, "OK")
        BY <1>1, <2>1, FailWent, ReturnWent DEF Critical
      <3>3. ~Goto(p, "check")
        BY <1>1, <2>1, GotoWent DEF Critical, Pcs
      <3>4. Op(p) = "cie_enable" /\ PinAccepted(Card(p), call[p].pin) /\ Goto(p, "read")
        BY <1>2, <3>1, <3>2, <3>3 DEF Answered, LoggedIn, Op
      <3>5. /\ call'[p].pc = "read" /\ call'[p].op = "cie_enable" /\ call'[p].pin = call[p].pin
            /\ Target(call'[p]) = Card(p)
        BY <1>1, <3>4, GotoWent DEF Pcs, Op, Card
      <3> QED BY <1>3, <3>4, <3>5 DEF Sound, PinAccepted, Changing
    <2>2. CASE call'[p].pc \notin Critical
      BY <1>1, <1>3, <2>2 DEF Sound, Critical, Ahead
    <2> QED BY <2>1, <2>2
  <1> QED BY <1>3, <1>4, QuietCache

(* The steps that learn of the certificate keep the cache in step. *)
LEMMA LearningCache ==
    ASSUME CacheIInv, NEW p \in Callers,
           \/ CheckEnrolled(p) \/ FetchCertificate(p) \/ CertificateUnusable(p)
           \/ ReadCertificate(p)
    PROVE  CacheInv'
  <1>1. /\ TypeInv /\ Sound(p) /\ RecordOK(call[p]) /\ call \in [Callers -> Call]
        /\ call[p] \in Call
    BY DEF CacheIInv, CacheInv, TypeInv, TypeOK, Records
  <1>2. Went(p) /\ UNCHANGED <<pin, cache>> /\ call[p].pc # "store"
    BY <1>1, ReadingWent DEF CheckEnrolled, FetchCertificate, CertificateUnusable,
       ReadCertificate, NoCardCommand, cardVars, files, At
  <1>3. Sound(p)'
    <2>1. CASE CheckEnrolled(p)
      <3>1. /\ call'[p].op = call[p].op /\ Target(call'[p]) = Card(p)
            /\ call'[p].enrolled = IsEnrolled(Card(p))
            /\ call'[p].pc = IF IsEnrolled(Card(p)) THEN "getcert" ELSE "change"
        BY <1>1, <2>1 DEF CheckEnrolled, Call, Target, Card
      <3> QED BY <1>1, <1>2, <3>1 DEF Sound, IsEnrolled, CacheExists
    <2>2. CASE FetchCertificate(p) \/ CertificateUnusable(p)
      <3>1. /\ call'[p].op = call[p].op /\ Target(call'[p]) = Card(p)
            /\ call'[p].enrolled = call[p].enrolled /\ call'[p].pc = "change"
        BY <1>1, <2>2 DEF FetchCertificate, CertificateUnusable, Goto, Call, Target, Card
      <3> QED BY <1>1, <2>2, <3>1 DEF Sound, FetchCertificate, CertificateUnusable, At
    <2>3. CASE ReadCertificate(p)
      <3>1. /\ call'[p].op = call[p].op /\ Target(call'[p]) = Target(call[p])
            /\ call'[p].pin = call[p].pin /\ call'[p].pc = "store" /\ call[p].pc = "read"
        BY <1>1, <2>3 DEF ReadCertificate, Call, Target, At
      <3>2. call[p].op = "cie_enable"
        BY <1>1, <3>1 DEF RecordOK
      <3> QED BY <1>1, <1>2, <3>1, <3>2 DEF Sound, Changing
    <2> QED BY <2>1, <2>2, <2>3
  <1> QED BY <1>2, <1>3, QuietCache

(* ChangePIN keeps the cache in step where the cache is kept. *)
LEMMA ChangeCache ==
    ASSUME CacheKept, CacheIInv, NEW p \in Callers, ChangePIN(p)
    PROVE  CacheInv'
  <1>1. /\ TypeInv /\ Ownership /\ Sound(p) /\ RecordOK(call[p])
        /\ call[p] \in Call /\ CardType
    BY TypeParts DEF CacheIInv, CacheInv, CallsOK, Records
  <1>2. call[p].pc = "change" /\ call[p].op \in Changing
    BY <1>1 DEF ChangePIN, At, RecordOK, Sound
  <1>3. PICK c \in Cards : c = Card(p) /\ owner[c] = p
    BY <1>1, <1>2, HolderOfCard DEF Holding, HoldingPcs
  <1>4. Went(p) /\ Ahead(p)
    BY <1>1, WritingWent
  <1>5. UNCHANGED cache
    BY DEF ChangePIN, files
  <1>6. CASE Fail(p) /\ NoCardCommand
    <2>1. call'[p].op = "none" /\ call'[p].pc = "idle"
      BY <1>1, <1>6, FailWent
    <2>2. Sound(p)'
      BY <2>1 DEF Sound, Changing
    <2> QED BY <1>2, <1>4, <1>5, <1>6, <2>2, QuietCache DEF NoCardCommand, cardVars
  <1>7. CASE CardSetPIN(Card(p), ComposeFullPIN(Card(p), call[p].new)) /\ AfterChange(p)
    <2>1. call[p].new \in PINs
      BY <1>1, <1>2 DEF RecordOK
    <2>2. ComposeFullPIN(Card(p), call[p].new) = call[p].new
      BY <2>1, FullPin, BlankTyped DEF ComposeFullPIN
    <2>3. pin' = [pin EXCEPT ![Card(p)] = call[p].new]
      BY <1>7, <2>2 DEF CardSetPIN
    <2>4. pin'[c] = call[p].new /\ \A d \in Cards \ {c} : pin'[d] = pin[d]
      BY <1>1, <1>3, <2>3 DEF CardType
    <2>5. ASSUME NEW q \in Callers, q # p
          PROVE  Sound(q)'
      <3>1. call'[q] = call[q] /\ Sound(q)
        BY <1>4, <2>5 DEF Went, CacheIInv, CacheInv
      <3>2. CASE call[q].pc \in {"read", "store"}
        <4>1. Target(call[q]) \in Cards /\ owner[Target(call[q])] = q
          BY <1>1, <3>2, HolderOfCard DEF Holding, HoldingPcs, Card
        <4>2. pin'[Target(call[q])] = pin[Target(call[q])]
          BY <1>3, <2>4, <2>5, <4>1
        <4> QED BY <1>5, <3>1, <4>2 DEF Sound, IsEnrolled, CacheExists
      <3>3. CASE call[q].pc \notin {"read", "store"}
        BY <1>5, <3>1, <3>3 DEF Sound, IsEnrolled, CacheExists
      <3> QED BY <3>2, <3>3
    <2>6. ASSUME NEW d \in Cards, d # c
          PROVE  HalfOK(d)'
      <3>1. HalfOK(d) /\ pin'[d] = pin[d]
        BY <2>4, <2>6 DEF CacheIInv, CacheInv
      <3>2. CASE Storing(d)
        <4>1. owner[d] # p
          BY <1>2, <3>2 DEF Storing
        <4>2. Storing(d)'
          BY <1>1, <1>4, <3>2, <4>1, OthersStore
        <4> QED BY <4>2 DEF HalfOK
      <3>3. CASE ~Storing(d)
        BY <1>5, <3>1, <3>3 DEF HalfOK, IsEnrolled, CacheExists
      <3> QED BY <3>2, <3>3
    <2>7. Sound(p)' /\ HalfOK(c)'
      <3>1. CASE call[p].enrolled
        <4>1. Goto(p, "store")
          BY <1>2, <1>7, <3>1 DEF AfterChange, Op, Changing, ScanOps
        <4>2. /\ call'[p].pc = "store" /\ call'[p].op = call[p].op /\ call'[p].new = call[p].new
              /\ Target(call'[p]) = c /\ UNCHANGED owner
          BY <1>1, <1>3, <4>1, GotoWent DEF Pcs, Card
        <4>3. Sound(p)'
          BY <1>2, <2>4, <4>2 DEF Sound, Changing
        <4>4. Storing(c)'
          <5>1. p # Nobody
            BY PairingAssumption
          <5> QED BY <1>2, <1>3, <4>2, <5>1 DEF Storing
        <4> HIDE DEF Storing
        <4> QED BY <4>3, <4>4 DEF HalfOK
      <3>2. CASE ~call[p].enrolled
        <4>1. Return(p, "OK")
          BY <1>7, <3>2 DEF AfterChange
        <4>2. call'[p].op = "none" /\ call'[p].pc = "idle"
          BY <1>1, <4>1, ReturnWent
        <4>3. ~IsEnrolled(c)
          BY <1>1, <1>2, <1>3, <3>2 DEF Sound, Card
        <4>4. HalfOK(c)'
          BY <1>5, <4>3 DEF HalfOK, IsEnrolled, CacheExists
        <4> QED BY <4>2, <4>4 DEF Sound, Changing
      <3> QED BY <3>1, <3>2
    <2> QED BY <2>5, <2>6, <2>7 DEF CacheInv
  <1> QED BY <1>6, <1>7 DEF ChangePIN, CacheKept

(* Different cards have different file names. *)
LEMMA KeysDiffer ==
    ASSUME NEW c, NEW d, c # d
    PROVE  dumpHexData(c) # dumpHexData(d) /\ hexEncode(c) # dumpHexData(d)
  BY DEF dumpHexData, hexEncode

(* StoreCache keeps the cache in step. *)
LEMMA StoreCacheCache ==
    ASSUME CacheIInv, NEW p \in Callers, StoreCache(p)
    PROVE  CacheInv'
  <1>1. /\ TypeInv /\ Ownership /\ Sound(p) /\ RecordOK(call[p])
        /\ call[p] \in Call /\ FilesType
    BY TypeParts DEF CacheIInv, CacheInv, CallsOK, Records
  <1>2. call[p].pc = "store" /\ call[p].op \in Changing \union {"cie_enable"}
    BY <1>1 DEF StoreCache, At, RecordOK
  <1>3. PICK c \in Cards : c = Card(p) /\ owner[c] = p
    BY <1>1, <1>2, HolderOfCard DEF Holding, HoldingPcs
  <1>4. Went(p) /\ Ahead(p) /\ UNCHANGED pin
    BY <1>1, WritingWent DEF StoreCache, NoCardCommand, cardVars
  <1>5. StoreKey(p) \in {hexEncode(c), dumpHexData(c)}
    BY <1>3 DEF StoreKey
  <1>6. StoredHalf(p) = pin[c][1]
    BY <1>1, <1>2, <1>3 DEF Sound, StoredHalf, Op, Card, Changing
  <1>7. /\ cache'[StoreKey(p)] = [half |-> pin[c][1], cert |-> call[p].cert]
        /\ \A k \in Keys \ {StoreKey(p)} : cache'[k] = cache[k]
    BY <1>1, <1>3, <1>5, <1>6, KeysOfCards DEF StoreCache, SetCache, FilesType
  <1>8. \A d \in Cards \ {c} : dumpHexData(d) \in Keys /\ dumpHexData(d) # StoreKey(p)
    BY <1>5, KeysDiffer, KeysOfCards
  <1>9. ASSUME NEW q \in Callers, q # p
        PROVE  Sound(q)'
    <2>1. call'[q] = call[q] /\ Sound(q)
      BY <1>4, <1>9 DEF Went, CacheIInv, CacheInv
    <2>2. CASE call[q].pc = "change"
      <3>1. PICK d \in Cards : d = Target(call[q]) /\ owner[d] = q
        BY <1>1, <2>2, HolderOfCard DEF Holding, HoldingPcs, Card
      <3>2. cache'[dumpHexData(d)] = cache[dumpHexData(d)]
        BY <1>3, <1>7, <1>8, <1>9, <3>1
      <3> QED BY <1>4, <2>1, <2>2, <3>1, <3>2 DEF Sound, IsEnrolled, CacheExists
    <2>3. CASE call[q].pc # "change"
      BY <1>4, <2>1, <2>3 DEF Sound
    <2> QED BY <2>2, <2>3
  <1>10. Sound(p)'
    <2>1. CASE Op(p) = "cie_enable"
      <3>1. Goto(p, "storeDer")
        BY <2>1 DEF StoreCache
      <3>2. call'[p].pc = "storeDer" /\ call'[p].op = "cie_enable"
        BY <1>1, <2>1, <3>1, GotoWent DEF Pcs, Op
      <3> QED BY <3>2 DEF Sound, Changing
    <2>2. CASE Op(p) # "cie_enable"
      <3>1. Return(p, "OK")
        BY <2>2 DEF StoreCache
      <3>2. call'[p].op = "none"
        BY <1>1, <3>1, ReturnWent
      <3> QED BY <3>2 DEF Sound, Changing
    <2> QED BY <2>1, <2>2
  <1>11. ASSUME NEW d \in Cards
         PROVE  HalfOK(d)'
    <2>1. HalfOK(d)
      BY DEF CacheIInv, CacheInv
    <2>2. CASE d # c
      <3>1. cache'[dumpHexData(d)] = cache[dumpHexData(d)]
        BY <1>7, <1>8, <2>2
      <3>2. CASE Storing(d)
        <4>1. owner[d] # p
          <5>1. CASE owner[d] = p
            <6>1. Target(call[p]) = d
              BY <1>1, <3>2, <5>1 DEF Ownership, OwnerHolds, Storing
            <6> QED BY <1>3, <2>2, <6>1 DEF Card
          <5> QED BY <5>1
        <4>2. Storing(d)'
          BY <1>1, <1>4, <3>2, <4>1, OthersStore
        <4> QED BY <4>2 DEF HalfOK
      <3>3. CASE ~Storing(d)
        BY <1>4, <2>1, <3>1, <3>3 DEF HalfOK, IsEnrolled, CacheExists
      <3> QED BY <3>2, <3>3
    <2>3. CASE d = c /\ StoreKey(p) = dumpHexData(c)
      BY <1>4, <1>7, <2>3 DEF HalfOK
    <2>4. CASE d = c /\ StoreKey(p) # dumpHexData(c)
      <3>1. call[p].op = "cie_enable"
        BY <1>3, <2>4 DEF StoreKey, Op
      <3>2. ~Storing(d)
        BY <1>3, <2>4, <3>1 DEF Storing, Changing
      <3>3. cache'[dumpHexData(d)] = cache[dumpHexData(d)]
        BY <1>7, <2>4, KeysOfCards
      <3> QED BY <1>4, <2>1, <3>2, <3>3 DEF HalfOK, IsEnrolled, CacheExists
    <2> QED BY <2>2, <2>3, <2>4
  <1> QED BY <1>9, <1>10, <1>11 DEF CacheInv

(* RemoveCache keeps the cache in step. *)
LEMMA RemoveCacheCache ==
    ASSUME CacheIInv, NEW p \in Callers, RemoveCache(p)
    PROVE  CacheInv'
  <1>1. TypeInv /\ Sound(p) /\ FilesType /\ call \in [Callers -> Call] /\ RecordOK(call[p])
    BY TypeParts DEF CacheIInv, CacheInv, CallsOK, Records
  <1>2. Went(p) /\ UNCHANGED pin /\ call[p].pc = "remove"
    BY <1>1, FileWent DEF RemoveCache, NoCardCommand, cardVars, At
  <1>3. \A k \in Keys : cache'[k] \in {cache[k], NoCache}
    BY <1>1 DEF RemoveCache, FilesType
  <1>4. call'[p].pc = "removeDer" /\ call'[p].op = call[p].op
    BY <1>1, GotoWent DEF RemoveCache, Pcs
  <1>5. ASSUME NEW q \in Callers
        PROVE  Sound(q)'
    <2>1. CASE q = p
      BY <1>1, <1>4, <2>1 DEF Sound
    <2>2. CASE q # p
      <3>1. call'[q] = call[q] /\ Sound(q)
        BY <1>2, <2>2 DEF Went, CacheIInv, CacheInv
      <3>2. CASE call[q].pc = "change"
        <4>1. PICK d \in Cards : d = Target(call[q])
          BY <1>1, <3>2, HolderOfCard DEF Holding, HoldingPcs, Card, CacheIInv
        <4>2. cache'[dumpHexData(d)] \in {cache[dumpHexData(d)], NoCache}
          BY <1>3, KeysOfCards
        <4> QED BY <1>2, <3>1, <3>2, <4>1, <4>2 DEF Sound, IsEnrolled, CacheExists
      <3>3. CASE call[q].pc # "change"
        BY <1>2, <3>1, <3>3 DEF Sound
      <3> QED BY <3>2, <3>3
    <2> QED BY <2>1, <2>2
  <1>6. ASSUME NEW d \in Cards
        PROVE  HalfOK(d)'
    <2>1. HalfOK(d) /\ cache'[dumpHexData(d)] \in {cache[dumpHexData(d)], NoCache}
      BY <1>3, KeysOfCards DEF CacheIInv, CacheInv
    <2>2. Storing(d) => Storing(d)'
      BY <1>1, <1>2, OthersStore DEF Storing
    <2> QED BY <1>2, <2>1, <2>2 DEF HalfOK, IsEnrolled, CacheExists
  <1> QED BY <1>5, <1>6 DEF CacheInv

(* A call that begins keeps the cache in step. *)
LEMMA BeginCache ==
    ASSUME CacheKept, CacheIInv, NEW p \in Callers, Begin(p)
    PROVE  CacheInv'
  <1>1. /\ Went(p) /\ Idle(p) /\ UNCHANGED <<pin, cache>>
        /\ call'[p].pc \in {"idle", "scan", "lock", "lookup", "remove"}
        /\ call'[p].op \in Ops \union {"none"}
    BY BeginWent DEF CacheIInv, cardVars, files
  <1>2. Sound(p)'
    BY <1>1 DEF Sound, CacheKept
  <1> QED BY <1>1, <1>2, QuietCache DEF Idle

(* Every step keeps the cache in step. *)
LEMMA NextCache ==
    ASSUME CacheKept
    PROVE  CacheIInv /\ [Next]_vars => CacheIInv'
  <1> SUFFICES ASSUME CacheIInv, [Next]_vars PROVE CacheIInv'
    OBVIOUS
  <1>1. TypeInv' /\ Ownership'
    BY NextType, NextOwnership DEF CacheIInv
  <1>2. ASSUME NEW p \in Callers, Step(p)
        PROVE  CacheInv'
    <2>1. CASE \/ Scan(p) \/ Lock(p) \/ Header(p) \/ ReadData(p) \/ CardAuthenticateEx(p)
               \/ LinkError(p) \/ CacheSetDer(p) \/ CacheGetDer(p) \/ RemoveDer(p)
               \/ CacheUnusable(p)
      <3>1. /\ call'[p].pc \notin Critical /\ call[p].pc # "store"
            /\ UNCHANGED <<pin, cache>>
        BY <2>1, PlainSteps DEF CacheIInv
      <3>2. Went(p) /\ Ahead(p) /\ Sound(p)
        BY <1>2, StepWent DEF CacheIInv, CacheInv
      <3>3. Sound(p)'
        BY <3>1, <3>2 DEF Sound, Critical, Ahead
      <3> QED BY <3>1, <3>2, <3>3, QuietCache
    <2>2. CASE UnblockPIN(p)
      <3>1. call[p].op = "C_InitPIN" /\ Sound(p)
        BY <2>2 DEF UnblockPIN, At, CacheIInv, CacheInv, TypeInv, Records, RecordOK
      <3> QED BY <3>1 DEF Sound
    <2>3. ~WriteFails(p)
      BY DEF WriteFails, CacheKept
    <2> QED BY <1>2, <2>1, <2>2, <2>3, VerifyCache, LearningCache, ChangeCache, StoreCacheCache,
               RemoveCacheCache DEF Step
  <1>3. ASSUME NEW p \in Callers, Crash(p)
        PROVE  FALSE
    BY <1>3 DEF Crash, CacheKept
  <1>4. CASE UNCHANGED vars
    <2>1. CacheInv'
      BY <1>4 DEF vars, CacheIInv, CacheInv, Sound, HalfOK, Storing, IsEnrolled, CacheExists
    <2> QED BY <1>1, <2>1 DEF CacheIInv
  <1> QED BY <1>1, <1>2, <1>3, <1>4, BeginCache DEF Next, CacheIInv

(* The cache is in step at the start. *)
LEMMA InitCache == Init => CacheIInv
  <1> SUFFICES ASSUME Init PROVE CacheIInv
    OBVIOUS
  <1>1. TypeInv /\ Ownership
    BY InitType, InitOwnership
  <1>2. \A p \in Callers : Sound(p)
    BY EndedHolds DEF Init, Sound, Changing
  <1>3. \A c \in Cards : HalfOK(c)
    <2>1. PICK paired \in SUBSET Cards :
            cache = [k \in Keys |->
              IF k[1] \in paired /\ k = dumpHexData(k[1])
              THEN [half |-> pin[k[1]][1], cert |-> "cert"] ELSE NoCache]
      BY DEF Init
    <2>2. ASSUME NEW c \in Cards
          PROVE  dumpHexData(c)[1] = c
      BY DEF dumpHexData
    <2>3. ASSUME NEW c \in Cards, IsEnrolled(c)
          PROVE  cache[dumpHexData(c)].half = pin[c][1]
      BY <2>1, <2>2, <2>3, KeysOfCards DEF IsEnrolled, CacheExists
    <2> QED BY <2>3 DEF HalfOK
  <1> QED BY <1>1, <1>2, <1>3 DEF CacheIInv, CacheInv

(* As long as the PIN is changed by cie_change_pin and cie_unblock_pin     *)
(* alone, no answer of the card is lost, no process dies and no write      *)
(* fails, a paired card nobody is talking to has the first half of its PIN *)
(* in the cache.                                                           *)
THEOREM CachedHalf == ASSUME CacheKept PROVE Spec => []CachedHalfCurrent
  <1>1. CacheIInv => CachedHalfCurrent
    BY DEF CacheIInv, CacheInv, HalfOK, Storing, CachedHalfCurrent
  <1>2. CacheIInv /\ [Next]_vars => CacheIInv'
    BY NextCache
  <1> QED BY <1>1, <1>2, InitCache, PTL DEF Spec

(* A PIN, typed whole or by its last half, is presented as it is. *)
LEMMA PresentedPIN ==
    ASSUME CacheIInv, NEW p \in Callers, NEW x, At(p, "verify"),
           Op(p) \in {"cie_enable", "cie_change_pin"} => x = call[p].pin,
           Op(p) \notin {"cie_enable", "cie_change_pin"} =>
              CanCompose(Card(p), call[p].pin) /\ x = ComposeFullPIN(Card(p), call[p].pin),
           Agrees(call[p].pin, pin[Card(p)])
    PROVE  x = pin[Card(p)]
  <1>1. /\ TypeInv /\ Ownership /\ CardType /\ FilesType
        /\ call[p] \in Call /\ RecordOK(call[p]) /\ call[p].pin \in Typed
    BY TypeParts DEF CacheIInv, CallsOK, Records, Call
  <1>2. Card(p) \in Cards /\ owner[Card(p)] = p
    BY <1>1, HolderOfCard DEF At, Holding, HoldingPcs
  <1>3. PICK a \in Halves, b \in Halves : pin[Card(p)] = <<a, b>>
    BY <1>1, <1>2 DEF CardType, PINs
  <1>4. PICK u, v : call[p].pin = <<u, v>>
    BY <1>1 DEF Typed, PINs
  <1>5. v = b /\ u \in {a, NoHalf} /\ a # NoHalf /\ b # NoHalf
    BY <1>3, <1>4, PairingAssumption DEF Agrees
  <1>6. CASE u = a
    <2>1. call[p].pin = pin[Card(p)] /\ IsFullPin(call[p].pin)
      BY <1>3, <1>4, <1>5, <1>6 DEF IsFullPin
    <2> QED BY <2>1 DEF ComposeFullPIN
  <1>7. CASE u = NoHalf
    <2>1. ~IsFullPin(call[p].pin)
      BY <1>4, <1>7 DEF IsFullPin
    <2>2. Op(p) \notin {"cie_enable", "cie_change_pin"}
      BY <1>1, <2>1, FullPin DEF RecordOK, Op
    <2>3. IsEnrolled(Card(p)) /\ x = <<cache[dumpHexData(Card(p))].half, v>>
      BY <1>4, <2>1, <2>2 DEF CanCompose, ComposeFullPIN
    <2>4. ~Storing(Card(p))
      BY <1>2 DEF Storing, At
    <2>5. cache[dumpHexData(Card(p))].half = a
      BY <1>2, <1>3, <2>3, <2>4 DEF CacheIInv, CacheInv, HalfOK
    <2> QED BY <1>3, <1>5, <2>3, <2>5
  <1> QED BY <1>5, <1>6, <1>7

ChargeOK == \A c \in Cards : tries'[c] < tries[c] =>
    \E p \in Callers : owner[c] = p /\ ~Agrees(call[p].pin, pin[c])

(* Only VERIFY takes an attempt. *)
LEMMA TriesByVerify ==
    ASSUME CacheIInv, NEW p \in Callers, Begin(p) \/ Step(p) \/ Crash(p), ~Verify(p)
    PROVE  \A c \in Cards : tries'[c] \in {tries[c], MaxTries}
  <1>1. TypeInv /\ CardType
    BY TypeParts DEF CacheIInv
  <1>2. CASE Begin(p)
    BY <1>1, <1>2, BeginWent DEF cardVars
  <1>3. CASE UnblockPIN(p) \/ ChangePIN(p)
    BY <1>1, <1>3 DEF UnblockPIN, ChangePIN, CardSetPIN, NoCardCommand, cardVars, CardType
  <1>4. CASE Crash(p) \/ (Step(p) /\ ~UnblockPIN(p) /\ ~ChangePIN(p))
    BY <1>4 DEF Step, Crash, Scan, Lock, Header, ReadData, CardAuthenticateEx, LinkError,
       CheckEnrolled, FetchCertificate, ReadCertificate, StoreCache, CacheSetDer,
       CacheGetDer, RemoveCache, RemoveDer, CertificateUnusable, CacheUnusable, WriteFails,
       NoCardCommand, cardVars
  <1> QED BY <1>2, <1>3, <1>4

(* A try is lost only to a wrong PIN sent by the owner of the card. *)
LEMMA NextCharge == CacheIInv /\ [Next]_vars => ChargeOK
  <1> SUFFICES ASSUME CacheIInv, [Next]_vars, NEW c \in Cards, tries'[c] < tries[c]
               PROVE  \E p \in Callers : owner[c] = p /\ ~Agrees(call[p].pin, pin[c])
    BY DEF ChargeOK
  <1>1. TypeInv /\ Ownership /\ CardType
    BY TypeParts DEF CacheIInv
  <1>2. tries[c] \in 0..MaxTries /\ MaxTries \in Nat
    BY <1>1, PairingAssumption DEF CardType
  <1>3. ASSUME NEW p \in Callers, Verify(p)
        PROVE  owner[c] = p /\ ~Agrees(call[p].pin, pin[c])
    <2>1. At(p, "verify") /\ CardAsked(p)
      BY <1>3, VerifyShape
    <2>2. Card(p) \in Cards /\ owner[Card(p)] = p
      BY <1>1, <2>1, HolderOfCard DEF At, Holding, HoldingPcs
    <2>3. ~UNCHANGED tries
      BY <1>2
    <2>4. PICK x : /\ CardVerify(p, Card(p), x)
                   /\ Op(p) \in {"cie_enable", "cie_change_pin"} => x = call[p].pin
                   /\ Op(p) \notin {"cie_enable", "cie_change_pin"} =>
                        CanCompose(Card(p), call[p].pin) /\ x = ComposeFullPIN(Card(p), call[p].pin)
      BY <2>1, <2>3 DEF CardAsked, CardVerifyPUK, cardVars
    <2>5. c = Card(p) /\ x # pin[Card(p)]
      BY <1>1, <1>2, <2>2, <2>4 DEF CardVerify, CardType, AfterWrong
    <2> QED BY <2>1, <2>2, <2>4, <2>5, PresentedPIN
  <1>4. ASSUME NEW p \in Callers, Begin(p) \/ Step(p) \/ Crash(p), ~Verify(p)
        PROVE  FALSE
    BY <1>2, <1>4, TriesByVerify
  <1>5. CASE UNCHANGED vars
    BY <1>2, <1>5 DEF vars
  <1> QED BY <1>3, <1>4, <1>5 DEF Next

(* Under the same conditions an attempt is spent only on a wrong PIN: who  *)
(* types the card's PIN, or its last 4 digits, is never charged, however   *)
(* the calls of other processes interleave.                                *)
THEOREM RightPin == ASSUME CacheKept PROVE Spec => RightPinNotCharged
  <1>1. CacheIInv /\ [Next]_vars => CacheIInv'
    BY NextCache
  <1>2. CacheIInv /\ [Next]_vars => [ChargeOK]_vars
    BY NextCharge
  <1> QED BY <1>1, <1>2, InitCache, PTL DEF Spec, RightPinNotCharged, ChargeOK

-----------------------------------------------------------------------------
(***************************************************************************)
(* The certificate of an enrolment.  cie_change_pin and cie_unblock_pin    *)
(* look whether the card is enrolled, fetch its certificate, and some card *)
(* commands later write both back.  What they saw stays true unless a      *)
(* cie_disable of another caller removes the file in between, and the      *)
(* certificate is there unless the entry does not decrypt.                 *)
(***************************************************************************)
DisableAlone == "cie_disable" \in Ops => \A p, q \in Callers : p = q
EntriesDecrypt == "data" \notin Faults

(* The steps between looking for the enrolment and writing it again. *)
Noting == {"getcert", "change", "store"}
NoteOK(p) ==
    /\ call[p].enrolled =>
          call[p].pc \in Noting /\ call[p].op \in Changing /\ IsEnrolled(Card(p))
    /\ call[p].enrolled /\ call[p].pc # "getcert" => call[p].cert = "cert"
    /\ call[p].pc = "getcert" => call[p].enrolled
    /\ call[p].pc = "store" =>
          call[p].cert = "cert" /\ (call[p].op = "cie_enable" \/ call[p].enrolled)
    /\ call[p].pc = "remove" => "cie_disable" \in Ops
Noted == \A p \in Callers : NoteOK(p)
EnrolIInv == TypeInv /\ Noted /\ EnrolmentHasCertificate

(* The caller is where nothing is noted. *)
Away(p) ==
    /\ call'[p].enrolled = FALSE
    /\ call'[p].pc \notin {"getcert", "store"}
    /\ call'[p].pc = "remove" => "cie_disable" \in Ops

(* A caller that is away has nothing to be right about. *)
LEMMA AwayNotes ==
    ASSUME NEW p \in Callers, Away(p)
    PROVE  NoteOK(p)'
  BY DEF Away, NoteOK

(* Before it looks, a call has noted nothing. *)
LEMMA NothingNoted ==
    ASSUME TypeInv, NEW p \in Callers, NoteOK(p), call[p].pc \notin Noting
    PROVE  call[p].enrolled = FALSE
  BY DEF NoteOK, TypeInv, TypeOK, Call

(* A return leaves the caller away. *)
LEMMA ReturnAway ==
    ASSUME TypeInv, NEW p \in Callers, NEW rv, Return(p, rv)
    PROVE  Away(p)
  <1>1. call'[p] = Ended(rv)
    BY DEF Return, TypeInv, TypeOK
  <1>2. Ended(rv).enrolled = FALSE /\ Ended(rv).pc = "idle"
    BY DEF Ended, Begun
  <1> QED BY <1>1, <1>2 DEF Away

(* So does a failure. *)
LEMMA FailAway ==
    ASSUME TypeInv, NEW p \in Callers, Fail(p)
    PROVE  Away(p)
  BY ReturnAway DEF Fail

(* So does the next reader, when nothing was noted. *)
LEMMA NextReaderAway ==
    ASSUME TypeInv, NEW p \in Callers, call[p].enrolled = FALSE, NextReader(p)
    PROVE  Away(p)
  BY DEF NextReader, Away, TypeInv, TypeOK, Call

(* And a move to a step that notes nothing. *)
LEMMA GotoAway ==
    ASSUME TypeInv, NEW p \in Callers, call[p].enrolled = FALSE,
           NEW l \in Pcs \ {"getcert", "store", "remove"}, Goto(p, l)
    PROVE  Away(p)
  BY DEF Goto, Away, TypeInv, TypeOK, Call

(* A call begins with nothing noted. *)
LEMMA BeginAway ==
    ASSUME TypeInv, NEW p \in Callers, Begin(p)
    PROVE  Away(p)
  <1>1. ASSUME NEW op, NEW accepted, NEW c, NEW t, NEW new, NEW puk,
               NEW l \in {"scan", "lock", "lookup", "remove"},
               l = "remove" => "cie_disable" \in Ops,
               Enter(p, op, accepted, Begun(op, c, t, new, puk, l))
        PROVE  Away(p)
    <2>1. /\ Begun(op, c, t, new, puk, l).enrolled = FALSE
          /\ Begun(op, c, t, new, puk, l).pc = l
      BY DEF Begun
    <2>2. Ended("FAILED").enrolled = FALSE /\ Ended("FAILED").pc = "idle"
      BY DEF Ended, Begun
    <2>3. call'[p] = Begun(op, c, t, new, puk, l) \/ call'[p] = Ended("FAILED")
      BY <1>1 DEF Enter, TypeInv, TypeOK
    <2> QED BY <1>1, <2>1, <2>2, <2>3 DEF Away
  <1>2. ASSUME NEW op, NEW accepted, NEW c, NEW t, NEW new, NEW puk,
               P11(p, op, c, accepted, t, new, puk)
        PROVE  Away(p)
    BY <1>1, <1>2 DEF P11
  <1>3. CASE cie_enable(p)
    BY <1>1, <1>3 DEF cie_enable
  <1>4. CASE cie_change_pin(p)
    BY <1>1, <1>4 DEF cie_change_pin
  <1>5. CASE cie_unblock_pin(p)
    BY <1>1, <1>5 DEF cie_unblock_pin
  <1>6. CASE cie_sign(p)
    BY <1>1, <1>6 DEF cie_sign
  <1>7. CASE cie_disable(p)
    <2>1. "cie_disable" \in Ops
      BY <1>7 DEF cie_disable, Enter
    <2> QED BY <1>1, <1>7, <2>1 DEF cie_disable
  <1>8. CASE cie_get_certificate(p)
    BY <1>1, <1>8 DEF cie_get_certificate
  <1>9. CASE C_Login(p)
    BY <1>2, <1>9 DEF C_Login
  <1>10. CASE C_LoginSO(p)
    BY <1>2, <1>10 DEF C_LoginSO
  <1>11. CASE C_Logout(p)
    <2>1. Ended("OK").enrolled = FALSE /\ Ended("OK").pc = "idle"
      BY DEF Ended, Begun
    <2>2. Ended("FAILED").enrolled = FALSE /\ Ended("FAILED").pc = "idle"
      BY DEF Ended, Begun
    <2>3. call'[p] = Ended("OK") \/ call'[p] = Ended("FAILED")
      BY <1>11 DEF C_Logout, Enter, TypeInv, TypeOK
    <2> QED BY <2>1, <2>2, <2>3 DEF Away
  <1>12. CASE C_Sign(p)
    BY <1>2, <1>12 DEF C_Sign
  <1>13. CASE C_SetPIN(p)
    BY <1>2, <1>13 DEF C_SetPIN
  <1>14. CASE C_InitPIN(p)
    BY <1>2, <1>14 DEF C_InitPIN
  <1> QED BY <1>3, <1>4, <1>5, <1>6, <1>7, <1>8, <1>9, <1>10, <1>11, <1>12, <1>13, <1>14
          DEF Begin

(* The steps before the enrolment is looked for, and those of the files. *)
LEMMA PlainAway ==
    ASSUME TypeInv, NEW p \in Callers, NoteOK(p),
           \/ Scan(p) \/ Lock(p) \/ Header(p) \/ ReadData(p) \/ CardAuthenticateEx(p)
           \/ LinkError(p) \/ Verify(p) \/ UnblockPIN(p) \/ Crash(p)
           \/ CacheSetDer(p) \/ CacheGetDer(p) \/ RemoveCache(p) \/ RemoveDer(p)
           \/ CacheUnusable(p) \/ WriteFails(p)
    PROVE  Away(p)
  <1>1. call[p] \in Call /\ call \in [Callers -> Call]
    BY DEF TypeInv, TypeOK
  <1>2. CASE Crash(p) \/ CacheUnusable(p) \/ WriteFails(p)
    BY <1>2, ReturnAway DEF Crash, CacheUnusable, WriteFails, Fail
  <1>3. CASE ~Crash(p) /\ ~CacheUnusable(p) /\ ~WriteFails(p)
    <2>1. call[p].pc \notin Noting
      <3>1. CASE Verify(p)
        BY <3>1 DEF Verify, At, Noting
      <3>2. CASE Header(p)
        BY <3>2 DEF Header, At, Noting
      <3> QED BY <1>3, <3>1, <3>2 DEF Scan, Lock, ReadData, CardAuthenticateEx, LinkError,
                 UnblockPIN, CacheSetDer, CacheGetDer, RemoveCache, RemoveDer, At, Noting
    <2>2. call[p].enrolled = FALSE
      BY <2>1, NothingNoted
    <2>3. ASSUME NEW l \in {"header", "data", "auth", "verify", "lock", "read", "check", "unblock",
                            "change", "storeDer", "removeDer"}, Goto(p, l)
          PROVE  Away(p)
      <3>1. l \in Pcs \ {"getcert", "store", "remove"}
        BY DEF Pcs
      <3> QED BY <2>2, <2>3, <3>1, GotoAway
    <2>4. ASSUME call' = [call EXCEPT ![p].pc = "header"]
          PROVE  Away(p)
      BY <1>1, <2>2, <2>4 DEF Away, Call
    <2>5. CASE Scan(p) \/ Lock(p)
      BY <2>2, <2>4, <2>5, ReturnAway, FailAway, NextReaderAway DEF Scan, Lock
    <2>6. CASE Header(p)
      <3>1. ASSUME call' = [call EXCEPT ![p].pc = "data", ![p].attempt = 1]
            PROVE  Away(p)
        BY <1>1, <2>2, <3>1 DEF Away, Call
      <3>2. ASSUME call' = [call EXCEPT ![p].pc = "storeDer", ![p].cert = GetCertificate(Card(p))]
            PROVE  Away(p)
        BY <1>1, <2>2, <3>2 DEF Away, Call
      <3> QED BY <2>2, <2>3, <2>6, <3>1, <3>2, ReturnAway, FailAway, NextReaderAway DEF Header
    <2>7. CASE ReadData(p) \/ CardAuthenticateEx(p)
      BY <1>1, <2>2, <2>7 DEF ReadData, CardAuthenticateEx, Away, Call
    <2>8. CASE LinkError(p)
      <3>1. call[p].pc \in {"header", "data", "auth", "read"}
        BY <2>8 DEF LinkError
      <3>2. ASSUME call' = [call EXCEPT ![p].pc = call[p].pc, ![p].attempt = @ + 1]
            PROVE  Away(p)
        BY <1>1, <2>2, <3>1, <3>2 DEF Away, Call
      <3> QED BY <2>2, <2>8, <3>2, FailAway, NextReaderAway DEF LinkError, RetryOnCardLinkError
    <2>9. CASE Verify(p)
      <3>1. Answered(p)
        BY <2>9, VerifyShape
      <3>2. ASSUME call' = [call EXCEPT ![p].pc = "change", ![p].new = ComposeFullPIN(Card(p), @)]
            PROVE  Away(p)
        BY <1>1, <2>2, <3>2 DEF Away, Call
      <3> QED BY <2>3, <3>1, <3>2, ReturnAway, FailAway DEF Answered, LoggedIn
    <2>10. CASE UnblockPIN(p)
      BY <2>3, <2>10, FailAway DEF UnblockPIN
    <2>11. CASE CacheSetDer(p) \/ CacheGetDer(p) \/ RemoveCache(p) \/ RemoveDer(p)
      BY <2>2, <2>3, <2>11, ReturnAway, FailAway, NextReaderAway
         DEF CacheSetDer, CacheGetDer, RemoveCache, RemoveDer
    <2> QED BY <1>3, <2>5, <2>6, <2>7, <2>8, <2>9, <2>10, <2>11
  <1> QED BY <1>2, <1>3

(* A step that keeps the enrolments there are keeps what others noted. *)
LEMMA OthersNoted ==
    ASSUME TypeInv, Noted, NEW p \in Callers, NoteOK(p)',
           \A q \in Callers \ {p} : call'[q] = call[q],
           \A k \in Keys : CacheExists(k) => CacheExists(k)'
    PROVE  Noted'
  <1>1. ASSUME NEW q \in Callers, q # p
        PROVE  NoteOK(q)'
    <2>1. NoteOK(q) /\ call'[q] = call[q] /\ Card(q)' = Card(q)
      BY <1>1 DEF Noted, Card
    <2>2. ASSUME call[q].enrolled
          PROVE  IsEnrolled(Card(q))'
      <3>1. call[q] \in Call /\ RecordOK(call[q]) /\ call[q].pc \in Noting /\ IsEnrolled(Card(q))
        BY <2>1, <2>2 DEF TypeInv, TypeOK, Records, NoteOK
      <3>2. Card(q) \in Cards
        BY <3>1, TargetCard DEF Card, Noting
      <3> QED BY <2>1, <3>1, <3>2, KeysOfCards DEF IsEnrolled
    <2> QED BY <2>1, <2>2 DEF NoteOK
  <1> QED BY <1>1 DEF Noted

(* What is noted is right: the certificate fetched is that of an enrolment, *)
(* and every enrolment has one.                                            *)
LEMMA NotingNotes ==
    ASSUME EnrolIInv, NEW p \in Callers,
           CheckEnrolled(p) \/ FetchCertificate(p) \/ ReadCertificate(p)
    PROVE  NoteOK(p)' /\ UNCHANGED cache
  <1>1. call[p] \in Call /\ RecordOK(call[p]) /\ NoteOK(p)
    BY DEF EnrolIInv, TypeInv, TypeOK, Records, Noted
  <1>2. UNCHANGED cache
    BY DEF CheckEnrolled, FetchCertificate, ReadCertificate, files
  <1>3. Card(p) \in Cards
    BY <1>1, TargetCard DEF Card, CheckEnrolled, FetchCertificate, ReadCertificate, At
  <1>4. IsEnrolled(Card(p)) => GetCertificate(Card(p)) = "cert"
    BY <1>3, KeysOfCards DEF EnrolIInv, EnrolmentHasCertificate, IsEnrolled, GetCertificate
  <1>5. ASSUME call'[p].op = call[p].op, call'[p].card = call[p].card, call'[p].at = call[p].at
        PROVE  Card(p)' = Card(p) /\ (IsEnrolled(Card(p))' <=> IsEnrolled(Card(p)))
    <2>1. Card(p)' = Card(p)
      BY <1>5 DEF Card, Target
    <2> QED BY <1>2, <2>1 DEF IsEnrolled, CacheExists
  <1>6. CASE CheckEnrolled(p)
    <2>1. /\ call'[p].op = call[p].op /\ call'[p].card = call[p].card /\ call'[p].at = call[p].at
          /\ call'[p].enrolled = IsEnrolled(Card(p))
          /\ call'[p].pc = IF IsEnrolled(Card(p)) THEN "getcert" ELSE "change"
      BY <1>1, <1>6 DEF CheckEnrolled, EnrolIInv, TypeInv, TypeOK, Call
    <2>2. call[p].op \in Changing
      BY <1>1, <1>6 DEF CheckEnrolled, At, RecordOK
    <2> QED BY <1>2, <1>5, <2>1, <2>2 DEF NoteOK, Noting
  <1>7. CASE FetchCertificate(p)
    <2>1. /\ call'[p].op = call[p].op /\ call'[p].card = call[p].card /\ call'[p].at = call[p].at
          /\ call'[p].enrolled = call[p].enrolled /\ call'[p].pc = "change"
          /\ call'[p].cert = GetCertificate(Card(p))
      BY <1>1, <1>7 DEF FetchCertificate, EnrolIInv, TypeInv, TypeOK, Call
    <2>2. call[p].enrolled /\ call[p].op \in Changing /\ IsEnrolled(Card(p))
      BY <1>1, <1>7 DEF FetchCertificate, At, NoteOK
    <2> QED BY <1>2, <1>4, <1>5, <2>1, <2>2 DEF NoteOK, Noting
  <1>8. CASE ReadCertificate(p)
    <2>1. /\ call'[p].op = call[p].op /\ call'[p].enrolled = call[p].enrolled
          /\ call'[p].pc = "store" /\ call'[p].cert = "cert"
      BY <1>1, <1>8 DEF ReadCertificate, EnrolIInv, TypeInv, TypeOK, Call
    <2>2. call[p].enrolled = FALSE /\ call[p].op = "cie_enable"
      BY <1>1, <1>8, NothingNoted DEF ReadCertificate, At, RecordOK, EnrolIInv, Noting
    <2> QED BY <1>2, <2>1, <2>2 DEF NoteOK
  <1> QED BY <1>6, <1>7, <1>8

(* The change of the PIN leads to the cache only what was noted. *)
LEMMA ChangeNotes ==
    ASSUME EnrolIInv, NEW p \in Callers, ChangePIN(p)
    PROVE  NoteOK(p)' /\ UNCHANGED cache
  <1>1. /\ TypeInv /\ call[p] \in Call /\ RecordOK(call[p]) /\ NoteOK(p)
        /\ call[p].pc = "change"
    BY DEF EnrolIInv, TypeInv, TypeOK, Records, Noted, ChangePIN, At
  <1>2. UNCHANGED cache
    BY DEF ChangePIN, files
  <1>3. CASE Fail(p) \/ Return(p, "OK")
    BY <1>1, <1>2, <1>3, FailAway, ReturnAway, AwayNotes
  <1>4. CASE Goto(p, "store") /\ call[p].enrolled
    <2>1. /\ call'[p].op = call[p].op /\ call'[p].enrolled = call[p].enrolled
          /\ call'[p].pc = "store" /\ call'[p].cert = call[p].cert
          /\ Target(call'[p]) = Target(call[p])
      BY <1>1, <1>4 DEF Goto, TypeInv, TypeOK, Call, Target
    <2>2. Card(p)' = Card(p)
      BY <2>1 DEF Card
    <2>3. IsEnrolled(Card(p))' <=> IsEnrolled(Card(p))
      BY <1>2, <2>2 DEF IsEnrolled, CacheExists
    <2> QED BY <1>1, <1>2, <1>4, <2>1, <2>3 DEF NoteOK, Noting
  <1> QED BY <1>3, <1>4 DEF ChangePIN, AfterChange

(* What StoreCache writes: an entry with a certificate, which is new only  *)
(* when cie_enable writes it.                                              *)
LEMMA StoreNotes ==
    ASSUME EnrolIInv, NEW p \in Callers, StoreCache(p)
    PROVE  /\ NoteOK(p)' /\ EnrolmentHasCertificate'
           /\ \A k \in Keys : CacheExists(k) => CacheExists(k)'
           /\ \A k \in Keys : ~CacheExists(k) /\ CacheExists(k)' =>
                 call[p].op = "cie_enable" /\ At(p, "store")
  <1>1. /\ TypeInv /\ call[p] \in Call /\ RecordOK(call[p]) /\ NoteOK(p)
        /\ call[p].pc = "store" /\ call[p].cert = "cert"
    BY DEF EnrolIInv, TypeInv, TypeOK, Records, Noted, StoreCache, At, NoteOK
  <1>2. Card(p) \in Cards
    BY <1>1, TargetCard DEF Card
  <1>3. StoredHalf(p) \in Halves
    BY <1>1 DEF StoredHalf, Op, RecordOK, PINs, Changing
  <1>4. StoreKey(p) \in Keys
    BY <1>2, KeysOfCards DEF StoreKey
  <1> DEFINE e == [half |-> StoredHalf(p), cert |-> "cert"]
  <1>5. cache \in [Keys -> Entry \union {NoCache}] /\ cache' = [cache EXCEPT ![StoreKey(p)] = e]
    BY <1>1 DEF TypeInv, TypeOK, StoreCache, SetCache
  <1>6. e # NoCache /\ e.cert = "cert"
    BY <1>3, PairingAssumption DEF NoCache
  <1> HIDE DEF e
  <1>7. /\ cache'[StoreKey(p)] = e
        /\ \A k \in Keys : k # StoreKey(p) => cache'[k] = cache[k]
    BY <1>4, <1>5
  <1>8. \A k \in Keys : CacheExists(k) => CacheExists(k)'
    BY <1>6, <1>7 DEF CacheExists
  <1>9. EnrolmentHasCertificate'
    BY <1>6, <1>7 DEF EnrolmentHasCertificate, CacheExists, EnrolIInv
  <1>10. NoteOK(p)'
    <2>1. CASE Return(p, "OK")
      BY <1>1, <2>1, ReturnAway, AwayNotes
    <2>2. CASE Goto(p, "storeDer") /\ Op(p) = "cie_enable"
      <3>1. call[p].enrolled = FALSE
        BY <1>1, <2>2 DEF NoteOK, Op, Changing, Call
      <3> QED BY <1>1, <2>2, <3>1, GotoAway, AwayNotes DEF Pcs
    <2> QED BY <2>1, <2>2 DEF StoreCache
  <1>11. ASSUME NEW k \in Keys, ~CacheExists(k), CacheExists(k)'
         PROVE  call[p].op = "cie_enable" /\ At(p, "store")
    <2>1. k = StoreKey(p)
      BY <1>7, <1>11 DEF CacheExists
    <2>2. CASE call[p].op # "cie_enable"
      <3>1. call[p].enrolled /\ IsEnrolled(Card(p))
        BY <1>1, <2>2 DEF NoteOK
      <3>2. k = dumpHexData(Card(p))
        BY <2>1, <2>2 DEF StoreKey, Op
      <3> QED BY <1>11, <3>1, <3>2 DEF IsEnrolled
    <2> QED BY <1>1, <2>2 DEF At
  <1> QED BY <1>8, <1>9, <1>10, <1>11

(* Every step but RemoveCache keeps the enrolments, and keeps them with a  *)
(* certificate; only cie_enable adds one.                                  *)
EnrolStep ==
    /\ \A k \in Keys : ~CacheExists(k) /\ CacheExists(k)' =>
          \E p \in Callers : call[p].op = "cie_enable" /\ At(p, "store")
    /\ EnrolIInv'

(* A step that leaves the cache as it is. *)
LEMMA SameCache ==
    ASSUME EnrolIInv, NEW p \in Callers, NoteOK(p)', TypeInv', UNCHANGED cache,
           \A q \in Callers \ {p} : call'[q] = call[q]
    PROVE  EnrolStep
  <1>1. \A k \in Keys : CacheExists(k)' <=> CacheExists(k)
    BY DEF CacheExists
  <1>2. EnrolmentHasCertificate'
    BY <1>1 DEF EnrolIInv, EnrolmentHasCertificate
  <1>3. Noted'
    BY <1>1, OthersNoted DEF EnrolIInv
  <1> QED BY <1>1, <1>2, <1>3 DEF EnrolStep, EnrolIInv

(* An enrolment is removed while nobody else has noted it. *)
LEMMA RemoveNotes ==
    ASSUME DisableAlone, EnrolIInv, TypeInv', NEW p \in Callers, RemoveCache(p)
    PROVE  EnrolStep
  <1>1. TypeInv /\ NoteOK(p) /\ call[p].pc = "remove"
    BY DEF EnrolIInv, Noted, RemoveCache, At
  <1>2. \A q \in Callers : q = p
    BY <1>1 DEF NoteOK, DisableAlone
  <1>3. NoteOK(p)'
    BY <1>1, PlainAway, AwayNotes
  <1>4. /\ cache' = [cache EXCEPT ![hexEncode(Card(p))] = NoCache]
        /\ cache \in [Keys -> Entry \union {NoCache}]
    BY <1>1 DEF RemoveCache, TypeInv, TypeOK
  <1>5. \A k \in Keys : cache'[k] = cache[k] \/ cache'[k] = NoCache
    BY <1>4
  <1>6. EnrolmentHasCertificate'
    BY <1>5 DEF EnrolIInv, EnrolmentHasCertificate, CacheExists
  <1>7. Noted'
    BY <1>2, <1>3 DEF Noted
  <1>8. \A k \in Keys : ~(~CacheExists(k) /\ CacheExists(k)')
    BY <1>5 DEF CacheExists
  <1> QED BY <1>6, <1>7, <1>8 DEF EnrolStep, EnrolIInv

(* Every step keeps the invariant and adds an enrolment only in cie_enable. *)
LEMMA NextEnrol ==
    ASSUME DisableAlone, EntriesDecrypt, EnrolIInv, Next
    PROVE  EnrolStep
  <1>1. TypeInv /\ TypeInv' /\ Noted
    BY NextType DEF EnrolIInv
  <1>2. PICK p \in Callers : Begin(p) \/ Step(p) \/ Crash(p)
    BY DEF Next
  <1>3. NoteOK(p)
    BY <1>1 DEF Noted
  <1>4. \A q \in Callers \ {p} : call'[q] = call[q]
    <2>1. CASE Begin(p)
      BY <1>1, <2>1, BeginWent DEF Went
    <2>2. CASE Step(p)
      BY <1>1, <2>2, StepWent DEF Went
    <2>3. CASE Crash(p)
      BY <1>1, <2>3, FailWent DEF Crash, Went
    <2> QED BY <1>2, <2>1, <2>2, <2>3
  <1>5. CASE Begin(p)
    <2>1. NoteOK(p)' /\ UNCHANGED cache
      BY <1>1, <1>5, BeginAway, BeginWent, AwayNotes DEF files
    <2> QED BY <1>1, <1>4, <2>1, SameCache
  <1>6. CASE \/ Scan(p) \/ Lock(p) \/ Header(p) \/ ReadData(p) \/ CardAuthenticateEx(p)
             \/ LinkError(p) \/ Verify(p) \/ UnblockPIN(p) \/ Crash(p)
             \/ CacheSetDer(p) \/ CacheGetDer(p) \/ RemoveDer(p)
             \/ CacheUnusable(p) \/ WriteFails(p)
    <2>1. NoteOK(p)'
      BY <1>1, <1>3, <1>6, PlainAway, AwayNotes
    <2>2. UNCHANGED cache
      <3>1. CASE Verify(p)
        BY <3>1 DEF Verify, files
      <3> QED BY <1>6, <3>1 DEF Scan, Lock, Header, ReadData, CardAuthenticateEx, LinkError,
                 UnblockPIN, Crash, CacheSetDer, CacheGetDer, RemoveDer, CacheUnusable,
                 WriteFails, files
    <2> QED BY <1>1, <1>4, <2>1, <2>2, SameCache
  <1>7. CASE CheckEnrolled(p) \/ FetchCertificate(p) \/ ReadCertificate(p) \/ ChangePIN(p)
    <2>1. NoteOK(p)' /\ UNCHANGED cache
      BY <1>7, NotingNotes, ChangeNotes
    <2> QED BY <1>1, <1>4, <2>1, SameCache
  <1>8. CASE StoreCache(p)
    <2>1. /\ NoteOK(p)' /\ EnrolmentHasCertificate'
          /\ \A k \in Keys : CacheExists(k) => CacheExists(k)'
          /\ \A k \in Keys : ~CacheExists(k) /\ CacheExists(k)' =>
                call[p].op = "cie_enable" /\ At(p, "store")
      BY <1>8, StoreNotes
    <2>2. Noted'
      BY <1>1, <1>4, <2>1, OthersNoted
    <2> QED BY <1>1, <2>1, <2>2 DEF EnrolStep, EnrolIInv
  <1>9. CASE RemoveCache(p)
    BY <1>1, <1>9, RemoveNotes
  <1>10. ~CertificateUnusable(p)
    BY DEF CertificateUnusable, EntriesDecrypt
  <1> QED BY <1>2, <1>5, <1>6, <1>7, <1>8, <1>9, <1>10 DEF Step

(* At the start the enrolments are those of the CIE ID application. *)
LEMMA InitEnrol == Init => EnrolIInv
  <1> SUFFICES ASSUME Init PROVE EnrolIInv
    OBVIOUS
  <1>1. PICK paired \in SUBSET Cards :
          cache = [k \in Keys |->
            IF k[1] \in paired /\ k = dumpHexData(k[1])
            THEN [half |-> pin[k[1]][1], cert |-> "cert"] ELSE NoCache]
    BY DEF Init
  <1>2. EnrolmentHasCertificate
    BY <1>1 DEF EnrolmentHasCertificate, CacheExists
  <1>3. Ended("OK").enrolled = FALSE /\ Ended("OK").pc = "idle"
    BY DEF Ended, Begun
  <1>4. Noted
    BY <1>3 DEF Init, Noted, NoteOK
  <1> QED BY <1>2, <1>4, InitType DEF EnrolIInv

(* When nothing happens nothing is added. *)
LEMMA StutterEnrol ==
    ASSUME EnrolIInv, UNCHANGED vars
    PROVE  EnrolIInv'
  <1>1. TypeInv'
    BY StutterType DEF EnrolIInv
  <1>2. UNCHANGED <<call, cache>>
    BY DEF vars
  <1> QED BY <1>1, <1>2 DEF EnrolIInv, Noted, NoteOK, IsEnrolled, CacheExists, Card,
             EnrolmentHasCertificate

(* Every enrolment has the certificate of its card, also after             *)
(* cie_change_pin and cie_unblock_pin wrote it again, whatever fails and   *)
(* however many callers there are, unless cie_disable runs beside another  *)
(* call or an entry does not decrypt.                                      *)
THEOREM EnrolmentsHaveCertificates ==
    ASSUME DisableAlone, EntriesDecrypt PROVE Spec => []EnrolmentHasCertificate
  <1>1. EnrolIInv /\ [Next]_vars => EnrolIInv'
    BY NextEnrol, StutterEnrol DEF EnrolStep
  <1>2. EnrolIInv => EnrolmentHasCertificate
    BY DEF EnrolIInv
  <1> QED BY <1>1, <1>2, InitEnrol, PTL DEF Spec

(* Under the same condition only cie_enable makes an enrolment appear: the *)
(* calls that change a PIN write over what they found and bring back no    *)
(* enrolment that was removed.                                             *)
THEOREM OnlyEnableEnrolsCards ==
    ASSUME DisableAlone, EntriesDecrypt PROVE Spec => OnlyEnableEnrols
  <1>1. EnrolIInv /\ [Next]_vars => EnrolIInv'
    BY NextEnrol, StutterEnrol DEF EnrolStep
  <1>2. EnrolIInv /\ [Next]_vars =>
          [\A k \in Keys : ~CacheExists(k) /\ CacheExists(k)' =>
              \E p \in Callers : call[p].op = "cie_enable" /\ At(p, "store")]_vars
    BY NextEnrol DEF EnrolStep
  <1> QED BY <1>1, <1>2, InitEnrol, PTL DEF Spec, OnlyEnableEnrols
=============================================================================
