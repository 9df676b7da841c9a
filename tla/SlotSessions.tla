---------------------------- MODULE SlotSessions ----------------------------
(***************************************************************************)
(* Slots, sessions, login state and object handles of the PKCS#11 module   *)
(* (slot.cpp, session.cpp, and the card template of cie_p11_template.cpp). *)
(*                                                                         *)
(* Every C_* function runs under p11Mutex, so each one is one action.  The *)
(* card-event monitor takes the same mutex, but only after it has read the *)
(* reader states: MonitorPoll is that read, MonitorHandle the locked work. *)
(* Cards come and go in the readers whenever they like.                    *)
(*                                                                         *)
(* A helper that the code applies to a CSlot is a function from slot       *)
(* records to slot records here; an action composes them in code order.    *)
(* A call that throws before it has changed anything is a stuttering step. *)
(* What a call returns is an operator of its own where a property asks.    *)
(***************************************************************************)
EXTENDS Integers, FiniteSets, Sequences

CONSTANTS
    Slots,              \* readers that InitSlotList turned into CSlot objects
    Cards,              \* smart cards that may be put into a reader
    CieCards,           \* the ones whose ATR and AIDs are a CIE's
    NoCard,             \* an empty reader, an empty ATR, an empty serial
    AtrNeedsConnection, \* GetAttrib fails on a disconnected handle (PC/SC)
    CardAnswers,        \* outcomes of talking to a card, a subset of Answer
    MaxSessions,        \* bound on dwSessionCnt
    MaxInits,           \* bound on the number of times objects are created
    MaxHandles          \* bound on dwP11ObjCnt

\* What comes of talking to a card within one call: Connect fails, a later
\* APDU fails (or the card is not paired), or everything works.
Answer == {"noconnect", "fail", "ok"}

ASSUME SlotSessionsAssumption ==
    /\ CieCards \subseteq Cards
    /\ NoCard \notin Cards
    /\ AtrNeedsConnection \in BOOLEAN
    /\ CardAnswers \subseteq Answer
    /\ MaxSessions \in Nat /\ MaxInits \in Nat /\ MaxHandles \in Nat

VARIABLES
    bP11Initialized,
    card,         \* external: the card physically in each reader
    monitor,      \* the slotMonitor thread: "none", "running", "exited"
    seen,         \* dwCurrentState & SCARD_STATE_PRESENT of the monitor
    event,        \* dwEventState read by the monitor and not yet handled
    slot,         \* the CSlot object of each reader
    g_mSessions,  \* CSession::g_mSessions
    dwSessionCnt, \* CSession::dwSessionCnt
    inits         \* how many times objects were created, on any slot

monitorVars == <<monitor, seen, event>>
sessionVars == <<g_mSessions, dwSessionCnt>>
vars == <<bP11Initialized, card, monitorVars, slot, sessionVars, inits>>

-----------------------------------------------------------------------------
(* Types *)

CardOrNone == Cards \cup {NoCard}
UserType == {"NOBODY", "USER", "SO"}
Class == {"public", "private", "cert"}

\* A CP11Object: which creation it comes from, its class, the card it is of.
Object == [gen: Nat, cls: Class, card: Cards]
IsPrivate(o) == o.cls = "private"

\* One entry of ObjP11Map and, read the other way, of HandleP11Map.
Entry == [obj: Object, id: Nat]

\* The CIEData that pTemplateData points to.
CIEData == [atr: CardOrNone, init: BOOLEAN, userType: UserType]

CSlot == [bUpdated: BOOLEAN, pTemplate: BOOLEAN, baATR: CardOrNone,
          baSerial: CardOrNone, User: UserType, dwSessionCount: Int,
          P11Objects: SUBSET Object, handles: SUBSET Entry,
          dwP11ObjCnt: Nat, cie: CIEData]

CSession == [slot: Slots, rw: BOOLEAN, bFindInit: BOOLEAN,
             findResult: Seq(Nat)]

NewCIEData(atr) == [atr |-> atr, init |-> FALSE, userType |-> "NOBODY"]

\* The CSlot constructor.
NewSlot == [bUpdated |-> FALSE, pTemplate |-> FALSE, baATR |-> NoCard,
            baSerial |-> NoCard, User |-> "NOBODY", dwSessionCount |-> 0,
            P11Objects |-> {}, handles |-> {}, dwP11ObjCnt |-> 0,
            cie |-> NewCIEData(NoCard)]

NewSession(s, rw) == [slot |-> s, rw |-> rw, bFindInit |-> FALSE,
                      findResult |-> <<>>]

-----------------------------------------------------------------------------
(* Object handles *)

EntriesOf(sl, o) == {e \in sl.handles : e.obj = o}


GetIDFromObject(sl, o) ==
    IF EntriesOf(sl, o) # {}
    THEN sl
    ELSE [sl EXCEPT !.dwP11ObjCnt = @ + 1,
                    !.handles = @ \cup {[obj |-> o,
                                         id |-> sl.dwP11ObjCnt + 1]}]

HandleOf(sl, o) == (CHOOSE e \in sl.handles : e.obj = o).id


\* DelObjectHandle on each object of the set O.
DelObjectHandles(sl, O) ==
    [sl EXCEPT !.handles = {e \in @ : e.obj \notin O}]

-----------------------------------------------------------------------------
(* The card template *)

\* CSlot::GetATR outside a connection, on card c.
GetATR(sl, c) ==
    [sl EXCEPT !.baATR = IF @ # NoCard THEN @
                         ELSE IF AtrNeedsConnection THEN NoCard ELSE c]

\* CIEtemplateMatchCard as CCardTemplate::GetTemplate uses it: connect, cache
\* the ATR, select the IAS application, read the PAN; any exception is "no".
GetTemplate(sl, c, io) ==
    IF c = NoCard \/ io = "noconnect"
    THEN sl
    ELSE LET atr == IF sl.baATR # NoCard THEN sl.baATR ELSE c
         IN  [sl EXCEPT !.baATR = atr,
                        !.pTemplate = /\ atr \in CieCards
                                      /\ c \in CieCards
                                      /\ io = "ok"]

EnsureTemplate(sl, c, io) ==
    IF sl.pTemplate THEN sl ELSE GetTemplate(sl, c, io)

\* Mutant: bUpdated is not looked at.
SlotInit_Again(sl, c, io) ==
    LET m == EnsureTemplate(sl, c, io)
        a == GetATR(m, c)
    IN  IF m.pTemplate
        THEN [a EXCEPT !.cie = NewCIEData(a.baATR), !.bUpdated = TRUE]
        ELSE m

\* CSlot::Init with CIEtemplateInitCard; on a card that is not recognised it
\* leaves bUpdated false and at most the ATR cached.
SlotInit(sl, c, io) ==
    LET m == EnsureTemplate(sl, c, io)
        a == GetATR(m, c)
    IN  IF sl.bUpdated THEN sl
        ELSE IF m.pTemplate
        THEN [a EXCEPT !.cie = NewCIEData(a.baATR), !.bUpdated = TRUE]
        ELSE m

\* CIEtemplateInitSession gets through, either because the objects are there
\* or because the card answers and its certificate is in the local cache.
InitSessionWorks(sl, c, io) ==
    sl.cie.init \/ (io = "ok" /\ {c, sl.cie.atr} \subseteq CieCards)

\* CIEtemplateInitSession when it gets through: the gen-th time that the
\* objects of a card are created.
InitSession(sl, c, gen) ==
    IF sl.cie.init
    THEN sl
    ELSE [sl EXCEPT !.cie.init = TRUE,
                    !.P11Objects = @ \cup [gen: {gen}, cls: Class, card: {c}]]


\* CSession::Logout with CIEtemplateLogout.
Logout(sl) ==
    LET priv == {o \in sl.P11Objects : IsPrivate(o)}
    IN  [DelObjectHandles(sl, priv) EXCEPT !.cie.userType = "NOBODY",
                                           !.User = "NOBODY"]

\* Mutant: the last session goes without a logout.
DropSessions_NoLogout(sl, n) == [sl EXCEPT !.dwSessionCount = @ - n]

\* What n calls of CSession::DeleteSession do to the slot.
DropSessions(sl, n) ==
    LET d == [sl EXCEPT !.dwSessionCount = @ - n]
    IN  IF n > 0 /\ d.dwSessionCount = 0 /\ d.User # "NOBODY"
        THEN Logout(d) ELSE d

\* Mutant: dwSessionCount is not set to 0.
SlotFinal_KeepCount(sl) ==
    IF sl.bUpdated
    THEN [NewSlot EXCEPT !.handles = sl.handles,
                         !.dwP11ObjCnt = sl.dwP11ObjCnt,
                         !.dwSessionCount = sl.dwSessionCount]
    ELSE sl

\* What CSlot::Final does to the slot: nothing unless bUpdated; of the rest
\* only the handle maps and dwP11ObjCnt stay as they are.
SlotFinal(sl) ==
    IF sl.bUpdated
    THEN [NewSlot EXCEPT !.handles = sl.handles,
                         !.dwP11ObjCnt = sl.dwP11ObjCnt]
    ELSE sl

-----------------------------------------------------------------------------
(* Sessions *)

SessionsOn(s) == {h \in DOMAIN g_mSessions : g_mSessions[h].slot = s}

WithoutSessions(H) == [h \in DOMAIN g_mSessions \ H |-> g_mSessions[h]]
ExistsRO(s) == \E h \in SessionsOn(s) : ~g_mSessions[h].rw

ExistsSO_RW(s) == /\ slot[s].User = "SO"
                  /\ \E h \in SessionsOn(s) : g_mSessions[h].rw

HasSession(h) == bP11Initialized /\ h \in DOMAIN g_mSessions
SlotOf(h) == g_mSessions[h].slot

\* C_GetSessionInfo: the state it reports of session h.
SessionState(h) ==
    LET user == slot[SlotOf(h)].User
    IN  IF user = "SO" THEN "CKS_RW_SO_FUNCTIONS"
        ELSE IF g_mSessions[h].rw
        THEN IF user = "USER" THEN "CKS_RW_USER_FUNCTIONS"
                              ELSE "CKS_RW_PUBLIC_SESSION"
        ELSE IF user = "USER" THEN "CKS_RO_USER_FUNCTIONS"
                              ELSE "CKS_RO_PUBLIC_SESSION"

-----------------------------------------------------------------------------
(* Library *)

Present(s) == card[s] # NoCard
Snapshot == [s \in Slots |-> Present(s)]
NoEvents == [s \in Slots |-> "idle"]

\* Readers are listed and the monitor thread is started; its first step is to
\* read the state of every reader.
C_Initialize ==
    /\ ~bP11Initialized
    /\ bP11Initialized' = TRUE
    /\ monitor' = "running" /\ seen' = Snapshot /\ event' = NoEvents
    /\ UNCHANGED <<card, slot, sessionVars, inits>>

\* The monitor is joined, every session is deleted and g_mSlots is cleared.
C_Finalize ==
    /\ bP11Initialized
    /\ bP11Initialized' = FALSE
    /\ monitor' = "none" /\ event' = NoEvents
    /\ slot' = [s \in Slots |-> NewSlot]
    /\ g_mSessions' = WithoutSessions(DOMAIN g_mSessions)
    /\ UNCHANGED <<card, seen, dwSessionCnt, inits>>

-----------------------------------------------------------------------------
(* Sessions *)

\* Mutant: the number is read before it is counted up.
GetNewSessionID_PostIncrement == dwSessionCnt
GetNewSessionID == dwSessionCnt + 1

\* io is how the card answers to CSlot::Init, io2 to templateInitSession.
OpenSessionResult(s, rw, io, io2) ==
    LET m == SlotInit(slot[s], card[s], io)
    IN  IF ~rw /\ ExistsSO_RW(s) THEN "CKR_SESSION_READ_WRITE_SO_EXISTS"
        ELSE IF ~m.bUpdated THEN "CKR_TOKEN_NOT_RECOGNIZED"
        ELSE IF InitSessionWorks(m, card[s], io2) THEN "CKR_OK"
        ELSE "CKR_GENERAL_ERROR"

\* A session number is used up even if templateInitSession throws.
C_OpenSession(s, rw, io, io2) ==
    LET rv == OpenSessionResult(s, rw, io, io2)
        m  == SlotInit(slot[s], card[s], io)
        n  == InitSession(m, card[s], inits + 1)
        h  == GetNewSessionID
    IN
    /\ bP11Initialized
    /\ \/ /\ rv = "CKR_TOKEN_NOT_RECOGNIZED"
          /\ slot' = [slot EXCEPT ![s] = m]
          /\ UNCHANGED <<sessionVars, inits>>
       \/ /\ rv = "CKR_GENERAL_ERROR"
          /\ h <= MaxSessions
          /\ dwSessionCnt' = h
          /\ slot' = [slot EXCEPT ![s] = m]
          /\ UNCHANGED <<g_mSessions, inits>>
       \/ /\ rv = "CKR_OK"
          /\ h <= MaxSessions
          /\ m.cie.init \/ inits < MaxInits
          /\ dwSessionCnt' = h
          /\ inits' = IF m.cie.init THEN inits ELSE inits + 1
          /\ slot' = [slot EXCEPT ![s] = [n EXCEPT !.dwSessionCount = @ + 1]]
          /\ g_mSessions' = [k \in DOMAIN g_mSessions \cup {h} |->
                                IF k = h THEN NewSession(s, rw)
                                ELSE g_mSessions[k]]
    /\ UNCHANGED <<bP11Initialized, card, monitorVars>>

C_CloseSession(h) ==
    /\ HasSession(h)
    /\ slot' = [slot EXCEPT ![SlotOf(h)] = DropSessions(@, 1)]
    /\ g_mSessions' = WithoutSessions({h})
    /\ UNCHANGED <<bP11Initialized, card, monitorVars, dwSessionCnt, inits>>

C_CloseAllSessions(s) ==
    /\ bP11Initialized
    /\ slot' = [slot EXCEPT ![s] =
                   DropSessions(@, Cardinality(SessionsOn(s)))]
    /\ g_mSessions' = WithoutSessions(SessionsOn(s))
    /\ UNCHANGED <<bP11Initialized, card, monitorVars, dwSessionCnt, inits>>

-----------------------------------------------------------------------------
(* Login *)

\* CSession::Login, before it turns to the card.
LoginRefused(h, u) ==
    \/ slot[SlotOf(h)].User # "NOBODY"
    \/ u = "SO" /\ ExistsRO(SlotOf(h))

\* CIEtemplateLogin forgets who was logged in before it shows the PIN (or,
\* for the SO, the PUK) to the card; "right" is the card's answer 9000.
C_Login(h, u, right, io) ==
    LET s  == SlotOf(h)
        ok == right /\ io = "ok" /\ card[s] \in CieCards
    IN
    /\ HasSession(h)
    /\ ~LoginRefused(h, u)
    /\ slot' = [slot EXCEPT ![s].cie.userType = IF ok THEN u ELSE "NOBODY",
                            ![s].User = IF ok THEN u ELSE @]
    /\ UNCHANGED <<bP11Initialized, card, monitorVars, sessionVars, inits>>

C_Logout(h) ==
    /\ HasSession(h)
    /\ slot[SlotOf(h)].User # "NOBODY"
    /\ slot' = [slot EXCEPT ![SlotOf(h)] = Logout(@)]
    /\ UNCHANGED <<bP11Initialized, card, monitorVars, sessionVars, inits>>

-----------------------------------------------------------------------------
(* Finding objects *)

\* The classes that the attributes of a search can single out.
Search == {Class, {"public", "private"}, {"public", "cert"}, {}}
             \cup {{k} : k \in Class}

\* Mutant: private objects are not passed over.
Visit_Private(f, k) ==
    LET O == {o \in f.slot.P11Objects : o.cls = k}
        o == CHOOSE x \in O : TRUE
        g == GetIDFromObject(f.slot, o)
    IN  IF O = {} THEN f
        ELSE [slot |-> g, found |-> Append(f.found, HandleOf(g, o))]

\* One round of FindObjectsInit's loop: f.slot is the slot, f.found the
\* handles found so far; a private object is passed over unless CKU_USER.
Visit(f, k) ==
    LET O == {o \in f.slot.P11Objects : o.cls = k}
        o == CHOOSE x \in O : TRUE
        g == GetIDFromObject(f.slot, o)
    IN  IF O = {} \/ (k = "private" /\ f.slot.User # "USER")
        THEN f
        ELSE [slot |-> g, found |-> Append(f.found, HandleOf(g, o))]

VisitIf(f, k, classes) == IF k \in classes THEN Visit(f, k) ELSE f

\* P11Objects holds the public key, the private key, the certificate.
FindAll(sl, classes) ==
    LET f0 == [slot |-> sl, found |-> <<>>]
        f1 == VisitIf(f0, "public", classes)
        f2 == VisitIf(f1, "private", classes)
    IN  VisitIf(f2, "cert", classes)

C_FindObjectsInit(h, classes) ==
    LET f == FindAll(slot[SlotOf(h)], classes)
    IN
    /\ HasSession(h)
    /\ ~g_mSessions[h].bFindInit
    /\ f.slot.dwP11ObjCnt <= MaxHandles
    /\ slot' = [slot EXCEPT ![SlotOf(h)] = f.slot]
    /\ g_mSessions' = [g_mSessions EXCEPT ![h].bFindInit = TRUE,
                                          ![h].findResult = f.found]
    /\ UNCHANGED <<bP11Initialized, card, monitorVars, dwSessionCnt, inits>>

\* Up to n handles are taken from the back of findResult.
C_FindObjects(h, n) ==
    /\ HasSession(h)
    /\ g_mSessions[h].bFindInit
    /\ g_mSessions' = [g_mSessions EXCEPT ![h].findResult =
                          SubSeq(@, 1, Len(@) - n)]
    /\ UNCHANGED <<bP11Initialized, card, monitorVars, slot, dwSessionCnt, inits>>

C_FindObjectsFinal(h) ==
    /\ HasSession(h)
    /\ g_mSessions[h].bFindInit
    /\ g_mSessions' = [g_mSessions EXCEPT ![h].findResult = <<>>,
                                          ![h].bFindInit = FALSE]
    /\ UNCHANGED <<bP11Initialized, card, monitorVars, slot, dwSessionCnt, inits>>

-----------------------------------------------------------------------------
(* Token information *)

\* io is how the card answers to the template match, io2 to GetSerial.
TokenInfoResult(s, io, io2) ==
    LET m == EnsureTemplate(slot[s], card[s], io)
    IN  IF ~Present(s) THEN "CKR_TOKEN_NOT_PRESENT"
        ELSE IF ~(m.pTemplate /\ m.baATR \in CieCards)
        THEN "CKR_TOKEN_NOT_RECOGNIZED"
        ELSE IF m.baSerial = NoCard /\ ~(card[s] \in CieCards /\ io2 = "ok")
        THEN "CKR_GENERAL_ERROR"
        ELSE "CKR_OK"

C_GetTokenInfo(s, io, io2) ==
    LET rv == TokenInfoResult(s, io, io2)
        m  == EnsureTemplate(slot[s], card[s], io)
    IN
    /\ bP11Initialized
    /\ rv # "CKR_TOKEN_NOT_PRESENT"
    /\ slot' = [slot EXCEPT ![s] =
                   IF rv = "CKR_OK" /\ m.baSerial = NoCard
                   THEN [m EXCEPT !.baSerial = card[s]] ELSE m]
    /\ UNCHANGED <<bP11Initialized, card, monitorVars, sessionVars, inits>>

-----------------------------------------------------------------------------
(* Cards and the monitor *)

InsertCard(s, c) ==
    /\ ~Present(s)
    /\ \A t \in Slots : card[t] # c
    /\ card' = [card EXCEPT ![s] = c]
    /\ UNCHANGED <<bP11Initialized, monitorVars, slot, sessionVars, inits>>

RemoveCard(s) ==
    /\ Present(s)
    /\ card' = [card EXCEPT ![s] = NoCard]
    /\ UNCHANGED <<bP11Initialized, monitorVars, slot, sessionVars, inits>>

\* GetStatusChange returns the states of all readers.
MonitorPoll ==
    /\ monitor = "running" /\ event = NoEvents
    /\ seen # Snapshot
    /\ event' = [s \in Slots |-> IF seen[s] = Present(s) THEN "idle"
                                 ELSE IF Present(s) THEN "inserted"
                                 ELSE "removed"]
    /\ UNCHANGED <<bP11Initialized, card, monitor, seen, slot, sessionVars,
                   inits>>

\* The locked part of the loop over the readers.
MonitorHandle(s) ==
    /\ monitor = "running"
    /\ \/ /\ event[s] = "removed"
          /\ slot' = [slot EXCEPT ![s] = [SlotFinal(@) EXCEPT
                                             !.baATR = NoCard]]
          /\ g_mSessions' = IF slot[s].bUpdated
                            THEN WithoutSessions(SessionsOn(s))
                            ELSE g_mSessions
       \/ /\ event[s] = "inserted"
          /\ slot' = [slot EXCEPT ![s] = GetATR(@, card[s])]
          /\ UNCHANGED g_mSessions
    /\ seen' = [seen EXCEPT ![s] = event[s] = "inserted"]
    /\ event' = [event EXCEPT ![s] = "idle"]
    /\ UNCHANGED <<bP11Initialized, card, monitor, dwSessionCnt, inits>>

\* The outer loop starts over, after C_UpdateSlotList changed the list or the
\* PC/SC service went away: reader states are read afresh, nothing handled.
MonitorResync ==
    /\ monitor = "running" /\ event = NoEvents
    /\ seen' = Snapshot
    /\ UNCHANGED <<bP11Initialized, card, monitor, event, slot, sessionVars,
                   inits>>

\* Any other error of GetStatusChange ends the thread for good.
MonitorExit ==
    /\ monitor = "running" /\ event = NoEvents
    /\ monitor' = "exited"
    /\ UNCHANGED <<bP11Initialized, card, seen, event, slot, sessionVars,
                   inits>>

-----------------------------------------------------------------------------

Init ==
    /\ bP11Initialized = FALSE
    /\ card = [s \in Slots |-> NoCard]
    /\ monitor = "none" /\ event = NoEvents
    /\ seen = [s \in Slots |-> FALSE]
    /\ slot = [s \in Slots |-> NewSlot]
    /\ g_mSessions = <<>>
    /\ dwSessionCnt = 0
    /\ inits = 0

SessionCall(h) ==
    \/ C_CloseSession(h)
    \/ \E u \in {"USER", "SO"}, right \in BOOLEAN, io \in CardAnswers :
          C_Login(h, u, right, io)
    \/ C_Logout(h)
    \/ \E classes \in Search : C_FindObjectsInit(h, classes)
    \/ \E n \in 1 .. 3 : C_FindObjects(h, n)
    \/ C_FindObjectsFinal(h)

SlotCall(s) ==
    \/ \E rw \in BOOLEAN, io, io2 \in CardAnswers :
          C_OpenSession(s, rw, io, io2)
    \/ C_CloseAllSessions(s)
    \/ \E io, io2 \in CardAnswers : C_GetTokenInfo(s, io, io2)

Reader(s) ==
    \/ \E c \in Cards : InsertCard(s, c)
    \/ RemoveCard(s)
    \/ MonitorHandle(s)

Next ==
    \/ C_Initialize
    \/ C_Finalize
    \/ \E h \in DOMAIN g_mSessions : SessionCall(h)
    \/ \E s \in Slots : SlotCall(s) \/ Reader(s)
    \/ MonitorPoll
    \/ MonitorResync
    \/ MonitorExit

Spec == Init /\ [][Next]_vars

-----------------------------------------------------------------------------
(* Properties *)

\* Every variable has its type; session handles have been given out.
TypeOK ==
    /\ bP11Initialized \in BOOLEAN
    /\ card \in [Slots -> CardOrNone]
    /\ monitor \in {"none", "running", "exited"}
    /\ seen \in [Slots -> BOOLEAN]
    /\ event \in [Slots -> {"idle", "inserted", "removed"}]
    /\ slot \in [Slots -> CSlot]
    /\ dwSessionCnt \in Nat
    /\ g_mSessions \in [DOMAIN g_mSessions -> CSession]
    /\ DOMAIN g_mSessions \subseteq 1 .. dwSessionCnt
    /\ inits \in Nat

\* An open session stands on a slot that is initialised, with a template and
\* with its objects created: DeleteSession, Login, Logout and the signing
\* functions dereference pTemplate and pTemplateData without a check.
SessionSlotLive ==
    \A h \in DOMAIN g_mSessions :
        LET sl == slot[SlotOf(h)]
        IN  /\ bP11Initialized
            /\ sl.bUpdated /\ sl.pTemplate /\ sl.cie.init
            /\ sl.P11Objects # {}

\* dwSessionCount, which DeleteSession counts down to decide on the logout, is
\* the number of the slot's sessions in g_mSessions, whichever of
\* DeleteSession, CloseAllSessions and Final took the others away.
SessionCountExact ==
    \A s \in Slots : slot[s].dwSessionCount = Cardinality(SessionsOn(s))

\* A login never outlives the slot's last session, however it was closed.
LoginNeedsSession ==
    \A s \in Slots : slot[s].User # "NOBODY" => SessionsOn(s) # {}

\* The slot and its template agree on who is logged in.  Were User CKU_USER
\* and userType not, CIEtemplateSign would return no signature and no error.
LoginAgrees ==
    \A s \in Slots : slot[s].User = slot[s].cie.userType

\* A session is reported as CKS_RW_SO_FUNCTIONS only if it is read-write,
\* whichever order SO logins and read-only sessions are asked for in.
SOSessionsAreRW ==
    \A h \in DOMAIN g_mSessions :
        SessionState(h) = "CKS_RW_SO_FUNCTIONS" => g_mSessions[h].rw

\* No two objects share a handle, no object has two, also not with the
\* handles of earlier cards that Final leaves in the maps.
HandlesOneToOne ==
    \A s \in Slots : \A e, f \in slot[s].handles :
        e.id = f.id <=> e.obj = f.obj

\* The current private key has a handle only while CKU_USER is logged in.
PrivateHandleNeedsLogin ==
    \A s \in Slots : \A e \in slot[s].handles :
        e.obj \in slot[s].P11Objects /\ IsPrivate(e.obj)
            => slot[s].User = "USER"

\* A handle that a search still has to deliver is one the slot gave out, so
\* that no object created later can come to bear it.
FoundHandlesGivenOut ==
    \A h \in DOMAIN g_mSessions :
        \A i \in 1 .. Len(g_mSessions[h].findResult) :
            g_mSessions[h].findResult[i] <= slot[SlotOf(h)].dwP11ObjCnt

\* Until C_Finalize, a handle that was ever given out (also one deleted by a
\* logout, or of a card that is gone) is not given to another object: new
\* handles are above dwP11ObjCnt, and that never goes down.
HandlesNotReused ==
    [][\A s \in Slots : bP11Initialized' =>
         /\ slot'[s].dwP11ObjCnt >= slot[s].dwP11ObjCnt
         /\ \A e \in slot'[s].handles \ slot[s].handles :
               e.id > slot[s].dwP11ObjCnt]_vars

\* Sessions and the slots they stand on fit together: the unchecked
\* dereferences of session.cpp are safe and the count that decides on the
\* logout is exact, whichever calls and card changes came before.
SessionsSound == SessionSlotLive /\ SessionCountExact

\* A login ends with its slot's last session, is the template's too, and never
\* gives SO functions to a read-only session.
LoginSound == LoginNeedsSession /\ LoginAgrees /\ SOSessionsAreRW

\* Handles name objects one to one, name a private key only during a login,
\* and a search has only handles that were given out.
HandlesSound == HandlesOneToOne /\ PrivateHandleNeedsLogin /\ FoundHandlesGivenOut

\* While a session is open its slot's objects and card data are not replaced
\* under it: a new card's objects are only seen by sessions opened for it.
SessionKeepsItsToken ==
    [][\A h \in DOMAIN g_mSessions \cap DOMAIN g_mSessions' :
         /\ slot'[SlotOf(h)].P11Objects = slot[SlotOf(h)].P11Objects
         /\ slot'[SlotOf(h)].cie.atr = slot[SlotOf(h)].cie.atr]_vars

\* What a handle means does not change under the caller: neither the object of
\* an object handle nor the token of a session handle (DelObjectHandles,
\* CSlot::Init).
HandlesKeepMeaning == HandlesNotReused /\ SessionKeepsItsToken

-----------------------------------------------------------------------------
(* What the documentation says and the code does not do *)

\* slot.h: "Populate a CK_TOKEN_INFO structure for the inserted card": when
\* the card is a CIE and answers, C_GetTokenInfo succeeds.
GenuineTokenRecognised ==
    \A s \in Slots : bP11Initialized /\ card[s] \in CieCards
        => TokenInfoResult(s, "ok", "ok") = "CKR_OK"

=============================================================================
