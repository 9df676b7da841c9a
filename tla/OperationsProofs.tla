-------------------------- MODULE OperationsProofs --------------------------
(***************************************************************************)
(* Proofs about Operations, for every set of readers, cards, PINs and data *)
(* and every bound.  A step of the operations is a step of the slots and   *)
(* sessions, so that the invariant of SlotSessionsProofs carries over; on  *)
(* top of it OpsInv says what an operation has in its buffer, KeysInv what *)
(* its key handle can still name, and DappInv whose DAPP key a slot holds. *)
(***************************************************************************)
EXTENDS Operations, SlotSessionsProofs

(* Operations make only steps of slots and sessions. *)
LEMMA OpStep == [OpNext]_opVars => [Next]_vars
  <1> SUFFICES ASSUME [OpNext]_opVars PROVE [Next]_vars
    OBVIOUS
  <1>1. CASE UNCHANGED opVars
    BY <1>1 DEF opVars
  <1>2. CASE Anywhere
    <2>1. ASSUME NEW s \in Slots, NEW rw \in Modes, NEW io2 \in CardAnswers,
                 C_OpenSession(s, rw, "ok", io2)
          PROVE  Next
      <3>1. rw \in BOOLEAN /\ "ok" \in CardAnswers
        BY OperationsAssumption
      <3> QED BY <2>1, <3>1 DEF Next, SlotCall
    <2>2. ASSUME NEW h \in DOMAIN g_mSessions, NEW classes \in Searches,
                 C_FindObjectsInit(h, classes)
          PROVE  Next
      <3>1. classes \in Search
        BY OperationsAssumption
      <3> QED BY <2>2, <3>1 DEF Next, SessionCall
    <2> QED BY <1>2, <2>1, <2>2 DEF Anywhere, Next, SlotCall, SessionCall
  <1>3. ASSUME NEW h \in DOMAIN g_mSessions, PinCall(h) PROVE [Next]_vars
    <2>1. ASSUME NEW u \in {"USER", "SO"}, NEW p \in Pins, NEW puk \in BOOLEAN,
                 NEW io \in CardAnswers, Login(h, u, p, puk, io)
          PROVE  Next
      <3> DEFINE s == SlotOf(h)
                 right == /\ Authenticated(s, io)
                          /\ IF u = "SO" THEN puk ELSE PinAccepted(s, p)
      <3>1. C_Login(h, u, right, io)
        BY <2>1 DEF Login
      <3>2. right \in BOOLEAN
        BY DEF Authenticated, PinAccepted
      <3> HIDE DEF right
      <3> QED BY <3>1, <3>2 DEF Next, SessionCall
    <2> QED BY <1>3, <2>1 DEF PinCall, C_SetPIN
  <1>4. ASSUME NEW h \in DOMAIN g_mSessions,
               DigestCall(h) \/ SignCall(h) \/ VerifyCall(h)
        PROVE  UNCHANGED vars
    <2>1. CASE DigestCall(h)
      BY <2>1 DEF DigestCall, C_DigestInit, C_DigestUpdate, C_Digest,
                  C_DigestFinal, Becomes
    <2>2. CASE SignCall(h)
      BY <2>2 DEF SignCall, C_SignInit, C_SignUpdate, C_Sign, C_SignFinal,
                  Becomes
    <2>3. CASE VerifyCall(h)
      BY <2>3 DEF VerifyCall, C_VerifyInit, C_VerifyUpdate, C_Verify,
                  C_VerifyFinal, Becomes
    <2> QED BY <1>4, <2>1, <2>2, <2>3
  <1> QED BY <1>1, <1>2, <1>3, <1>4 DEF OpNext, C_SetOperationState

(* Operations add to what sessions do and change nothing of it: whatever is *)
(* proved of slots, sessions, logins and handles also holds while digests   *)
(* and signatures are made and PINs are changed.                            *)
THEOREM OperationsKeepSessions == OpSpec => Spec
  <1>1. OpInit => Init
    BY DEF OpInit
  <1> QED BY <1>1, OpStep, PTL DEF OpSpec, Spec

-----------------------------------------------------------------------------
(* What operations are *)

OpFields == {"mech", "key", "data", "given", "loggedOut"}
OpKinds == {"digest", "sign", "verify"}

\* A mechanism object: what is buffered is what was given.
IsOp(o) ==
    /\ DOMAIN o = OpFields
    /\ o.key \in Nat
    /\ o.data = o.given

\* A signing operation on slot sl: its key handle was given out, so that no
\* other object will get it; what it names is private, and after a logout
\* nothing of the token.
KeySane(sl, o) ==
    Active(o) =>
      /\ o.mech \in SignMechs
      /\ o.key <= sl.dwP11ObjCnt
      /\ \A x \in GetObjectFromID(sl, o.key) : IsPrivate(x)
      /\ o.loggedOut => GetObjectFromID(sl, o.key) \cap sl.P11Objects = {}

\* Every session has its three mechanism objects.
OpsInv ==
    /\ DOMAIN ops = DOMAIN g_mSessions
    /\ \A h \in DOMAIN ops : /\ DOMAIN ops[h] = OpKinds
                             /\ \A f \in OpKinds : IsOp(ops[h][f])

\* The keys that signing operations name.
KeysInv == \A h \in DOMAIN ops : KeySane(slot[SlotOf(h)], ops[h].sign)

\* The DAPP key that a slot's template holds is of the card its objects are of.
DappInv ==
    /\ DOMAIN dapp = Slots
    /\ \A s \in Slots : \A o \in slot[s].P11Objects : o.card = dapp[s]

OpIInv == IInv /\ OpsInv /\ KeysInv

(* An operation that is over, or was never begun. *)
LEMMA NoOpIs == IsOp(NoOp) /\ ~Active(NoOp)
  BY DEF IsOp, NoOp, OpFields, Active

(* An operation that begins. *)
LEMMA StartedIs ==
    ASSUME NEW m, NEW k \in Nat
    PROVE  /\ IsOp(Started(m, k)) /\ Started(m, k).mech = m
           /\ Started(m, k).key = k /\ Started(m, k).loggedOut = FALSE
  BY DEF IsOp, NoOp, OpFields, Started

(* An operation that is given one more part. *)
LEMMA UpdateIs ==
    ASSUME NEW o, NEW d, IsOp(o)
    PROVE  /\ IsOp(Update(o, d)) /\ Update(o, d).mech = o.mech
           /\ Update(o, d).key = o.key /\ Update(o, d).loggedOut = o.loggedOut
           /\ Update(o, d).data = Append(o.data, d)
  BY DEF IsOp, OpFields, Update

(* An operation whose buffer is emptied. *)
LEMMA SignResetIs ==
    ASSUME NEW o, IsOp(o)
    PROVE  /\ IsOp(SignReset(o)) /\ SignReset(o).mech = o.mech
           /\ SignReset(o).key = o.key /\ SignReset(o).loggedOut = o.loggedOut
           /\ SignReset(o).data = <<>>
  BY DEF IsOp, OpFields, SignReset

(* Whatever C_Sign and C_SignFinal answer, the operation is over or stays   *)
(* as it was when the card was asked.                                       *)
LEMMA SignFinalLeaves ==
    ASSUME NEW h, NEW o, NEW buf, NEW io
    PROVE  SignFinalAnswer(h, o, buf, io).op \in {o, NoOp}
  BY DEF SignFinalAnswer, Answered

(* A session's slot. *)
LEMMA SlotOfType ==
    ASSUME IInv, NEW h \in DOMAIN g_mSessions
    PROVE  /\ SlotOf(h) \in Slots /\ h \in SessionsOn(SlotOf(h))
           /\ SlotSane(slot[SlotOf(h)], inits)
           /\ bP11Initialized
  BY DEF IInv, TypeOK, CSession, SlotOf, SessionsOn, SlotInv

-----------------------------------------------------------------------------
(* Steps of the operations *)

(* A step that replaces one mechanism object. *)
LEMMA BecomesStep ==
    ASSUME OpIInv, NEW h \in DOMAIN g_mSessions, NEW f \in OpKinds, NEW o,
           Becomes(h, f, o), IsOp(o),
           f = "sign" => KeySane(slot[SlotOf(h)], o)
    PROVE  (OpsInv /\ KeysInv)'
  <1>1. /\ ops' = [ops EXCEPT ![h] = [ops[h] EXCEPT ![f] = o]]
        /\ slot' = slot /\ g_mSessions' = g_mSessions
    BY DEF Becomes, vars, sessionVars
  <1>2. h \in DOMAIN ops /\ DOMAIN ops' = DOMAIN ops
    BY <1>1 DEF OpIInv, OpsInv
  <1>3. ASSUME NEW x \in DOMAIN ops
        PROVE  /\ DOMAIN ops'[x] = OpKinds /\ \A g \in OpKinds : IsOp(ops'[x][g])
               /\ KeySane(slot[SlotOf(x)], ops'[x].sign)
    <2>1. /\ DOMAIN ops[x] = OpKinds /\ \A g \in OpKinds : IsOp(ops[x][g])
          /\ KeySane(slot[SlotOf(x)], ops[x].sign)
      BY DEF OpIInv, OpsInv, KeysInv
    <2>2. CASE x # h
      BY <1>1, <2>1, <2>2
    <2>3. CASE x = h
      <3>1. ops'[x] = [ops[x] EXCEPT ![f] = o]
        BY <1>1, <1>2, <2>3
      <3>2. /\ DOMAIN ops'[x] = OpKinds /\ ops'[x][f] = o
            /\ \A g \in OpKinds \ {f} : ops'[x][g] = ops[x][g]
        BY <2>1, <3>1
      <3>3. "sign" \in OpKinds
        BY DEF OpKinds
      <3> QED BY <2>1, <2>3, <3>2, <3>3
    <2> QED BY <2>2, <2>3
  <1>4. SlotOf(h)' = SlotOf(h) /\ \A x : SlotOf(x)' = SlotOf(x)
    BY <1>1 DEF SlotOf
  <1>5. OpsInv'
    BY <1>1, <1>2, <1>3 DEF OpIInv, OpsInv
  <1>6. KeysInv'
    BY <1>1, <1>2, <1>3, <1>4 DEF KeysInv
  <1> QED BY <1>5, <1>6

(* The calls for digests. *)
LEMMA DigestStep ==
    ASSUME OpIInv, NEW h \in DOMAIN g_mSessions, DigestCall(h)
    PROVE  (OpsInv /\ KeysInv)'
  <1>1. IsOp(ops[h].digest) /\ "digest" \in OpKinds
    BY DEF OpIInv, OpsInv, OpKinds
  <1>2. ASSUME NEW o, IsOp(o), Becomes(h, "digest", o)
        PROVE  (OpsInv /\ KeysInv)'
    BY <1>1, <1>2, BecomesStep
  <1>3. ASSUME NEW m \in DigestMechs, C_DigestInit(h, m)
        PROVE  (OpsInv /\ KeysInv)'
    BY <1>2, <1>3, StartedIs DEF C_DigestInit
  <1>4. ASSUME NEW d \in Data, C_DigestUpdate(h, d)
        PROVE  (OpsInv /\ KeysInv)'
    BY <1>1, <1>2, <1>4, UpdateIs DEF C_DigestUpdate
  <1>5. ASSUME NEW d \in Data, NEW buf \in DigestBuffer, C_Digest(h, d, buf)
        PROVE  (OpsInv /\ KeysInv)'
    <2>1. DigestAnswer(ops[h].digest, d, buf).op \in {ops[h].digest, NoOp}
      BY DEF DigestAnswer, Answered, DigestBuffer
    <2> QED BY <1>1, <1>2, <1>5, <2>1, NoOpIs DEF C_Digest
  <1>6. ASSUME NEW buf \in DigestBuffer, C_DigestFinal(h, buf)
        PROVE  (OpsInv /\ KeysInv)'
    <2>1. DigestFinalAnswer(ops[h].digest, buf).op \in {ops[h].digest, NoOp}
      BY DEF DigestFinalAnswer, Answered
    <2> QED BY <1>1, <1>2, <1>6, <2>1, NoOpIs DEF C_DigestFinal
  <1> QED BY <1>3, <1>4, <1>5, <1>6 DEF DigestCall

(* The calls for signatures: C_SignInit takes a handle of a private key,    *)
(* the others keep the key or end the operation.                            *)
LEMMA SignStep ==
    ASSUME OpIInv, NEW h \in DOMAIN g_mSessions, SignCall(h)
    PROVE  (OpsInv /\ KeysInv)'
  <1> DEFINE sl == slot[SlotOf(h)]
             o == ops[h].sign
  <1>1. /\ IsOp(o) /\ "sign" \in OpKinds /\ KeySane(sl, o)
        /\ SlotSane(sl, inits)
    BY SlotOfType DEF OpIInv, OpsInv, OpKinds, KeysInv
  <1>2. KeySane(sl, NoOp)
    BY NoOpIs DEF KeySane
  <1>3. ASSUME NEW n, IsOp(n), KeySane(sl, n), Becomes(h, "sign", n)
        PROVE  (OpsInv /\ KeysInv)'
    BY <1>1, <1>3, BecomesStep
  <1>4. ASSUME NEW n, IsOp(n), Active(o), n.mech = o.mech, n.key = o.key,
               n.loggedOut = o.loggedOut
        PROVE  KeySane(sl, n)
    BY <1>1, <1>4 DEF KeySane, Active
  <1>5. ASSUME NEW m \in SignMechs, NEW k \in Handles, C_SignInit(h, m, k)
        PROVE  (OpsInv /\ KeysInv)'
    <2>1. k \in Nat
      BY SlotSessionsAssumption DEF Handles
    <2>2. KeyCheck(sl, k, "private") = "CKR_OK"
      BY <1>5 DEF C_SignInit, SignInitResult, KeyInitResult
    <2>3. PICK e \in sl.handles : e.id = k /\ e.obj.cls = "private"
      BY <2>2 DEF KeyCheck, GetObjectFromID
    <2>4. k <= sl.dwP11ObjCnt
      BY <1>1, <2>3 DEF SlotSane, HandlesSane
    <2>5. \A x \in GetObjectFromID(sl, k) : IsPrivate(x)
      BY <1>1, <2>3 DEF SlotSane, HandlesSane, GetObjectFromID, IsPrivate
    <2>6. KeySane(sl, Started(m, k))
      BY <2>1, <2>4, <2>5, StartedIs DEF KeySane
    <2> QED BY <1>3, <1>5, <2>1, <2>6, StartedIs DEF C_SignInit
  <1>6. ASSUME NEW d \in Data, C_SignUpdate(h, d)
        PROVE  (OpsInv /\ KeysInv)'
    <2>1. IsOp(Update(o, d)) /\ KeySane(sl, Update(o, d))
      BY <1>1, <1>4, <1>6, UpdateIs DEF C_SignUpdate, CanGrow
    <2> QED BY <1>3, <1>6, <2>1 DEF C_SignUpdate
  <1>7. ASSUME NEW d \in Data, NEW buf \in SignBuffer, NEW io \in CardAnswers,
               C_Sign(h, d, buf, io)
        PROVE  (OpsInv /\ KeysInv)'
    <2> DEFINE u == Update(SignReset(o), d)
    <2>1. IsOp(u) /\ u.mech = o.mech /\ u.key = o.key /\ u.loggedOut = o.loggedOut
      BY <1>1, UpdateIs, SignResetIs
    <2>2. SignAnswer(h, d, buf, io).op \in {u, NoOp}
      BY SignFinalLeaves DEF SignAnswer
    <2> HIDE DEF u
    <2>3. KeySane(sl, u)
      BY <1>4, <1>7, <2>1 DEF C_Sign
    <2> QED BY <1>2, <1>3, <1>7, <2>1, <2>2, <2>3, NoOpIs DEF C_Sign
  <1>8. ASSUME NEW buf \in SignBuffer, NEW io \in CardAnswers,
               C_SignFinal(h, buf, io)
        PROVE  (OpsInv /\ KeysInv)'
    <2>1. SignFinalAnswer(h, o, buf, io).op \in {o, NoOp}
      BY SignFinalLeaves
    <2> QED BY <1>1, <1>2, <1>3, <1>8, <2>1, NoOpIs DEF C_SignFinal
  <1> QED BY <1>5, <1>6, <1>7, <1>8 DEF SignCall

(* The calls for verification. *)
LEMMA VerifyStep ==
    ASSUME OpIInv, NEW h \in DOMAIN g_mSessions, VerifyCall(h)
    PROVE  (OpsInv /\ KeysInv)'
  <1>1. IsOp(ops[h].verify) /\ "verify" \in OpKinds
    BY DEF OpIInv, OpsInv, OpKinds
  <1>2. ASSUME NEW o, IsOp(o), Becomes(h, "verify", o)
        PROVE  (OpsInv /\ KeysInv)'
    BY <1>1, <1>2, BecomesStep
  <1>3. ASSUME NEW m \in SignMechs, NEW k \in Handles, C_VerifyInit(h, m, k)
        PROVE  (OpsInv /\ KeysInv)'
    <2>1. k \in Nat
      BY SlotSessionsAssumption DEF Handles
    <2> QED BY <1>2, <1>3, <2>1, StartedIs DEF C_VerifyInit
  <1>4. ASSUME NEW d \in Data, C_VerifyUpdate(h, d)
        PROVE  (OpsInv /\ KeysInv)'
    BY <1>1, <1>2, <1>4, UpdateIs DEF C_VerifyUpdate
  <1> QED BY <1>2, <1>3, <1>4, NoOpIs
          DEF VerifyCall, C_Verify, C_VerifyFinal

(* C_SetOperationState leaves the operations, or resets one of them. *)
LEMMA SetOperationStateStep ==
    ASSUME OpIInv, NEW h \in DOMAIN g_mSessions, NEW g,
           C_SetOperationState(h, g)
    PROVE  (OpsInv /\ KeysInv)'
  <1> DEFINE new == AfterSetOperationState(h, SavedState(g))
  <1>1. PICK f \in {"sign", "verify"} : new \in {ops[h], [ops[h] EXCEPT ![f] = NoOp]}
    BY DEF AfterSetOperationState
  <1>2. /\ ops' = [ops EXCEPT ![h] = new] /\ UNCHANGED <<vars, SessionPIN, dapp, renewed, pin>>
    BY DEF C_SetOperationState, cardVars
  <1>3. KeySane(slot[SlotOf(h)], NoOp)
    BY NoOpIs DEF KeySane
  <1>4. /\ h \in DOMAIN ops /\ DOMAIN ops[h] = OpKinds
        /\ \A x \in OpKinds : IsOp(ops[h][x])
        /\ KeySane(slot[SlotOf(h)], ops[h].sign)
    BY DEF OpIInv, OpsInv, KeysInv
  <1> HIDE DEF new
  <1>5. CASE new = [ops[h] EXCEPT ![f] = NoOp]
    <2>1. Becomes(h, f, NoOp) /\ f \in OpKinds
      BY <1>1, <1>2, <1>5 DEF Becomes, OpKinds
    <2> QED BY <1>3, <2>1, BecomesStep, NoOpIs
  <1>6. CASE new = ops[h]
    <2>1. /\ DOMAIN ops' = DOMAIN ops /\ slot' = slot /\ g_mSessions' = g_mSessions
          /\ \A x \in DOMAIN ops : ops'[x] = ops[x]
      BY <1>2, <1>6 DEF vars, sessionVars
    <2>2. OpsInv'
      BY <2>1 DEF OpIInv, OpsInv
    <2>3. KeysInv'
      BY <2>1 DEF OpIInv, KeysInv, SlotOf
    <2> QED BY <2>2, <2>3
  <1> QED BY <1>1, <1>5, <1>6

-----------------------------------------------------------------------------
(* Steps of slots and sessions *)

(* The key of an operation keeps its meaning while its session is open.     *)
LEMMA KeySaneKept ==
    ASSUME NEW sl \in CSlot, NEW n \in CSlot, NEW o, IsOp(o), KeySane(sl, o),
           HandlesGrow(sl, n), n.P11Objects = sl.P11Objects
    PROVE  KeySane(n, o)
  <1> SUFFICES ASSUME Active(o)
               PROVE  /\ o.mech \in SignMechs
                      /\ o.key <= n.dwP11ObjCnt
                      /\ \A x \in GetObjectFromID(n, o.key) : IsPrivate(x)
                      /\ o.loggedOut =>
                           GetObjectFromID(n, o.key) \cap n.P11Objects = {}
    BY DEF KeySane
  <1>1. /\ o.key \in Nat /\ sl.dwP11ObjCnt \in Nat /\ n.dwP11ObjCnt \in Nat
        /\ o.key <= sl.dwP11ObjCnt /\ o.mech \in SignMechs
    BY DEF IsOp, KeySane, CSlot
  <1>2. \A e \in n.handles : e.id = o.key => e \in sl.handles
    BY <1>1 DEF HandlesGrow, CSlot, Entry
  <1>3. GetObjectFromID(n, o.key) \subseteq GetObjectFromID(sl, o.key)
    BY <1>2 DEF GetObjectFromID
  <1> QED BY <1>1, <1>3 DEF KeySane, HandlesGrow

(* After a logout no handle names the token's private key.                  *)
LEMMA LoggedOutSane ==
    ASSUME NEW k, NEW n, SlotSane(n, k), n.User # "USER",
           NEW o, IsOp(o), KeySane(n, o)
    PROVE  KeySane(n, [o EXCEPT !.loggedOut = TRUE])
  <1> DEFINE p == [o EXCEPT !.loggedOut = TRUE]
  <1>1. p.mech = o.mech /\ p.key = o.key
    BY DEF IsOp, OpFields
  <1>2. Active(o) => GetObjectFromID(n, o.key) \cap n.P11Objects = {}
    BY DEF KeySane, GetObjectFromID, SlotSane, HandlesSane
  <1> HIDE DEF p
  <1>3. KeySane(n, p)
    BY <1>1, <1>2 DEF KeySane, Active
  <1> QED BY <1>3 DEF p

(* Opening and closing sessions, logging out, searches, cards and monitor.  *)
LEMMA FollowStep ==
    ASSUME OpIInv, IInv', Kept, Follow
    PROVE  (OpsInv /\ KeysInv)'
  <1>1. DOMAIN ops' = DOMAIN g_mSessions'
    BY DEF Follow
  <1>2. ASSUME NEW h \in DOMAIN g_mSessions'
        PROVE  /\ DOMAIN ops'[h] = OpKinds /\ \A f \in OpKinds : IsOp(ops'[h][f])
               /\ KeySane(slot'[SlotOf(h)'], ops'[h].sign)
    <2>1. CASE h \notin DOMAIN g_mSessions
      <3>1. ops'[h] = NoOps
        BY <2>1 DEF Follow
      <3> QED BY <3>1, NoOpIs DEF NoOps, OpKinds, KeySane
    <2>2. CASE h \in DOMAIN g_mSessions
      <3> DEFINE s == SlotOf(h)
                 o == ops[h].sign
                 out == /\ slot[s].User = "USER" /\ slot'[s].User # "USER"
                        /\ Active(o)
                 p == [o EXCEPT !.loggedOut = TRUE]
      <3>1. /\ DOMAIN ops[h] = OpKinds /\ \A f \in OpKinds : IsOp(ops[h][f])
            /\ KeySane(slot[s], o) /\ IsOp(o) /\ "sign" \in OpKinds
        BY <2>2 DEF OpIInv, OpsInv, KeysInv, OpKinds
      <3>2. s \in Slots /\ slot[s] \in CSlot
        BY <2>2, SlotOfType DEF OpIInv, SlotSane
      <3>3. SlotOf(h)' = s
        BY <2>2 DEF Kept, SlotOf
      <3>4. inits' \in Nat /\ bP11Initialized' /\ SlotSane(slot'[s], inits')
        <4>1. /\ inits' \in Nat
              /\ g_mSessions'[h] \in CSession
          BY DEF IInv, TypeOK
        <4>2. PICK t \in Slots : t = s
          BY <3>2
        <4>3. h \in SessionsOn(t)' /\ SlotInv(t)'
          BY <3>3, <4>2 DEF SessionsOn, SlotOf, IInv
        <4>4. bP11Initialized' /\ SlotSane(slot'[t], inits')
          BY <4>3 DEF SlotInv
        <4> QED BY <4>1, <4>2, <4>4
      <3>5. HandlesGrow(slot[s], slot'[s]) /\ slot'[s].P11Objects = slot[s].P11Objects
        BY <2>2, <3>2, <3>4 DEF Kept, SameToken
      <3>6. KeySane(slot'[s], o)
        BY <3>1, <3>2, <3>4, <3>5, KeySaneKept DEF SlotSane
      <3>7. CASE ~out
        <4>1. ops'[h] = ops[h]
          BY <2>2, <3>7 DEF Follow
        <4> QED BY <3>1, <3>3, <3>6, <4>1
      <3>8. CASE out
        <4>1. ops'[h] = [ops[h] EXCEPT !.sign.loggedOut = TRUE]
          BY <2>2, <3>8 DEF Follow
        <4>2. IsOp(p)
          BY <3>1 DEF IsOp, OpFields
        <4>3. KeySane(slot'[s], p)
          BY <3>1, <3>4, <3>6, <3>8, LoggedOutSane
        <4>4. ops'[h] = [ops[h] EXCEPT !.sign = p]
          BY <4>1
        <4> HIDE DEF p, o, out
        <4>5. /\ DOMAIN ops'[h] = OpKinds /\ ops'[h].sign = p
              /\ \A f \in OpKinds \ {"sign"} : ops'[h][f] = ops[h][f]
          BY <3>1, <4>4
        <4> QED BY <3>1, <3>3, <4>2, <4>3, <4>5
      <3> QED BY <3>7, <3>8
    <2> QED BY <2>1, <2>2
  <1>3. OpsInv'
    BY <1>1, <1>2 DEF OpsInv
  <1>4. KeysInv'
    BY <1>1, <1>2 DEF KeysInv
  <1> QED BY <1>3, <1>4

(* C_Login and C_SetPIN touch no operation.                                 *)
LEMMA PinStep ==
    ASSUME OpIInv, IInv', Kept, ops' = ops,
           DOMAIN g_mSessions' = DOMAIN g_mSessions
    PROVE  (OpsInv /\ KeysInv)'
  <1>1. OpsInv'
    BY DEF OpIInv, OpsInv
  <1>2. ASSUME NEW h \in DOMAIN ops
        PROVE  KeySane(slot'[SlotOf(h)'], ops[h].sign)
    <2> DEFINE s == SlotOf(h)
    <2>1. /\ h \in DOMAIN g_mSessions /\ h \in DOMAIN g_mSessions'
          /\ KeySane(slot[s], ops[h].sign) /\ IsOp(ops[h].sign)
      BY DEF OpIInv, OpsInv, KeysInv, OpKinds
    <2>2. s \in Slots /\ slot[s] \in CSlot
      BY <2>1, SlotOfType DEF OpIInv, SlotSane
    <2>3. SlotOf(h)' = s
      BY <2>1 DEF Kept, SlotOf
    <2>4. PICK t \in Slots : t = s
      BY <2>2
    <2>5. bP11Initialized' /\ slot'[s] \in CSlot
      <3>1. h \in SessionsOn(t)' /\ SlotInv(t)'
        BY <2>1, <2>3, <2>4 DEF SessionsOn, SlotOf, IInv
      <3>2. bP11Initialized' /\ slot'[t] \in CSlot
        BY <3>1 DEF SlotInv, SlotSane
      <3> QED BY <2>4, <3>2
    <2>6. HandlesGrow(slot[s], slot'[s]) /\ slot'[s].P11Objects = slot[s].P11Objects
      BY <2>1, <2>2, <2>5 DEF Kept, SameToken
    <2> QED BY <2>1, <2>2, <2>3, <2>5, <2>6, KeySaneKept
  <1>3. KeysInv'
    BY <1>2 DEF KeysInv
  <1> QED BY <1>1, <1>3

-----------------------------------------------------------------------------
(* The invariant *)

(* No session, no operation. *)
LEMMA OpInitInv == OpInit => OpIInv
  <1> SUFFICES ASSUME OpInit PROVE OpIInv
    OBVIOUS
  <1>1. IInv
    BY InitInv DEF OpInit
  <1>2. DOMAIN ops = {} /\ DOMAIN g_mSessions = {}
    BY DEF OpInit, Init
  <1> QED BY <1>1, <1>2 DEF OpIInv, OpsInv, KeysInv

(* Every step keeps the invariant. *)
LEMMA OpStepInv == OpIInv /\ [OpNext]_opVars => OpIInv'
  <1> SUFFICES ASSUME OpIInv, [OpNext]_opVars PROVE OpIInv'
    OBVIOUS
  <1>1. IInv' /\ Kept
    BY OpStep, StepInv, StepKept DEF OpIInv
  <1> SUFFICES (OpsInv /\ KeysInv)'
    BY <1>1 DEF OpIInv
  <1>2. CASE UNCHANGED opVars
    BY <1>1, <1>2, PinStep DEF opVars, vars, sessionVars
  <1>3. CASE Follow
    BY <1>1, <1>3, FollowStep
  <1>4. ASSUME NEW h \in DOMAIN g_mSessions, PinCall(h)
        PROVE  (OpsInv /\ KeysInv)'
    <2>1. ops' = ops /\ g_mSessions' = g_mSessions
      BY <1>4 DEF PinCall, Login, C_Login, C_SetPIN, vars, sessionVars
    <2> QED BY <1>1, <2>1, PinStep
  <1> QED BY <1>2, <1>3, <1>4, DigestStep, SignStep, VerifyStep,
             SetOperationStateStep DEF OpNext

(* Operations, sessions, slots and handles stay in the states that OpIInv   *)
(* describes, whatever calls are made and cards exchanged.                  *)
THEOREM OpInvariance == OpSpec => []OpIInv
  BY OpInitInv, OpStepInv, PTL DEF OpSpec

-----------------------------------------------------------------------------
(* Whose card a slot's objects are of *)

(* Every slot starts without objects. *)
LEMMA DappInit == OpInit => DappInv
  BY DEF OpInit, Init, DappInv, NewSlot

(* While nobody changes the PIN without a login, the DAPP key is read only  *)
(* when the objects are created, from the same card.                        *)
LEMMA DappStep ==
    ASSUME ~AnonymousSetPIN, OpIInv, OpIInv', DappInv, [OpNext]_opVars
    PROVE  DappInv'
  <1>1. Kept
    BY OpStep, StepKept DEF OpIInv
  <1>2. \A s \in Slots : slot[s].cie.init <=> slot[s].P11Objects # {}
    BY DEF OpIInv, IInv, SlotInv, SlotSane, TokenSane
  <1>3. \A s \in Slots : slot'[s].cie.init <=> slot'[s].P11Objects # {}
    BY DEF OpIInv, IInv, SlotInv, SlotSane, TokenSane
  <1>4. CASE UNCHANGED <<slot, dapp>>
    BY <1>4 DEF DappInv
  <1>5. CASE Follow
    <2>1. /\ DOMAIN dapp' = Slots
          /\ \A s \in Slots : dapp'[s] = IF ~slot'[s].cie.init THEN NoCard
                                         ELSE IF ~slot[s].cie.init THEN card[s]
                                         ELSE dapp[s]
      BY <1>5 DEF Follow
    <2>2. ASSUME NEW s \in Slots, NEW o \in slot'[s].P11Objects
          PROVE  o.card = dapp'[s]
      <3>1. slot'[s].cie.init
        BY <1>3
      <3>2. CASE slot[s].P11Objects = {}
        <4>1. o.card = card[s]
          BY <1>1, <3>2 DEF Kept, ObjectsStep
        <4> QED BY <1>2, <2>1, <3>1, <3>2, <4>1
      <3>3. CASE slot[s].P11Objects # {}
        <4>1. o \in slot[s].P11Objects
          BY <1>1, <3>3 DEF Kept, ObjectsStep
        <4> QED BY <1>2, <2>1, <3>1, <3>3, <4>1 DEF DappInv
      <3> QED BY <3>2, <3>3
    <2> QED BY <2>1, <2>2 DEF DappInv
  <1>6. ASSUME NEW h \in DOMAIN g_mSessions, PinCall(h) PROVE DappInv'
    <2>1. ASSUME NEW u \in {"USER", "SO"}, NEW p \in Pins, NEW puk \in BOOLEAN,
                 NEW io \in CardAnswers, Login(h, u, p, puk, io)
          PROVE  DappInv'
      <3>1. \A s \in Slots : slot'[s].P11Objects = slot[s].P11Objects
        BY <2>1 DEF Login, C_Login, OpIInv, IInv, TypeOK, CSlot
      <3>2. dapp' = dapp
        BY <2>1 DEF Login
      <3> QED BY <3>1, <3>2 DEF DappInv
    <2>2. ASSUME NEW old \in Pins, NEW new \in Pins, NEW io \in CardAnswers,
                 C_SetPIN(h, old, new, io)
          PROVE  DappInv'
      <3>1. card[SlotOf(h)] = dapp[SlotOf(h)]
        BY <2>2 DEF C_SetPIN
      <3>2. slot' = slot /\ dapp' = [dapp EXCEPT ![SlotOf(h)] = card[SlotOf(h)]]
        BY <2>2 DEF C_SetPIN, vars
      <3>3. DOMAIN dapp' = Slots /\ \A s \in Slots : dapp'[s] = dapp[s]
        BY <3>1, <3>2 DEF DappInv
      <3> QED BY <3>2, <3>3 DEF DappInv
    <2> QED BY <1>6, <2>1, <2>2 DEF PinCall
  <1>7. ASSUME NEW h \in DOMAIN g_mSessions,
               DigestCall(h) \/ SignCall(h) \/ VerifyCall(h)
        PROVE  UNCHANGED <<slot, dapp>>
    <2>1. CASE DigestCall(h)
      BY <2>1 DEF DigestCall, C_DigestInit, C_DigestUpdate, C_Digest,
                  C_DigestFinal, Becomes, vars
    <2>2. CASE SignCall(h)
      BY <2>2 DEF SignCall, C_SignInit, C_SignUpdate, C_Sign, C_SignFinal,
                  Becomes, vars
    <2>3. CASE VerifyCall(h)
      BY <2>3 DEF VerifyCall, C_VerifyInit, C_VerifyUpdate, C_Verify,
                  C_VerifyFinal, Becomes, vars
    <2> QED BY <1>7, <2>1, <2>2, <2>3
  <1> QED BY <1>4, <1>5, <1>6, <1>7
          DEF OpNext, C_SetOperationState, opVars, vars

(* While nobody changes the PIN without a login, the card that DAPP accepts *)
(* on a slot is the card whose objects the slot's sessions see.             *)
THEOREM DappOfThisToken == ASSUME ~AnonymousSetPIN PROVE OpSpec => []DappInv
  <1>1. OpIInv /\ OpIInv' /\ DappInv /\ [OpNext]_opVars => DappInv'
    BY DappStep
  <1> QED BY <1>1, DappInit, OpInvariance, PTL DEF OpSpec

-----------------------------------------------------------------------------
(* What a session would be answered *)

(* What C_Sign and C_SignFinal are about: the operation as it is when the   *)
(* card signs has the mechanism and key of C_SignInit, and its buffer holds *)
(* what the answer is said to cover.                                        *)
LEMMA SignAnswersAre ==
    ASSUME OpIInv, NEW h \in Signing, NEW x \in SignAnswers(h)
    PROVE  \E o : /\ x.a = SignFinalAnswer(h, o, "fits", "ok")
                  /\ o.data = x.given
                  /\ o.mech = ops[h].sign.mech /\ o.key = ops[h].sign.key
  <1> DEFINE s == ops[h].sign
  <1>1. IsOp(s)
    BY DEF OpIInv, OpsInv, OpKinds, Signing
  <1>2. ASSUME NEW d \in Data,
               x = [a |-> SignAnswer(h, d, "fits", "ok"), given |-> <<d>>]
        PROVE  \E o : /\ x.a = SignFinalAnswer(h, o, "fits", "ok")
                      /\ o.data = x.given
                      /\ o.mech = s.mech /\ o.key = s.key
    <2> DEFINE u == Update(SignReset(s), d)
    <2>1. u.mech = s.mech /\ u.key = s.key /\ u.data = Append(<<>>, d)
      BY <1>1, UpdateIs, SignResetIs
    <2>2. Append(<<>>, d) = <<d>>
      OBVIOUS
    <2>3. x.a = SignFinalAnswer(h, u, "fits", "ok") /\ x.given = <<d>>
      BY <1>2 DEF SignAnswer
    <2> HIDE DEF u
    <2> QED BY <2>1, <2>2, <2>3
  <1>3. CASE x = [a |-> SignFinalAnswer(h, s, "fits", "ok"), given |-> s.given]
    BY <1>1, <1>3 DEF IsOp
  <1> QED BY <1>2, <1>3 DEF SignAnswers

(* CKR_OK, or anything handed out, is a signature: of the card in the       *)
(* reader, which DAPP knows, over the buffer of the operation.              *)
LEMMA Signed ==
    ASSUME OpIInv, NEW h \in Signing, NEW o, NEW a,
           a = SignFinalAnswer(h, o, "fits", "ok"),
           a.rv = "CKR_OK" \/ a.out # Nothing
    PROVE  LET s == SlotOf(h)
           IN  /\ a.out = [card |-> card[s], of |-> Block(o)]
               /\ a.out # Nothing
               /\ card[s] = dapp[s] /\ ~TooLong(o)
               /\ KeyCheck(slot[s], o.key, "private") = "CKR_OK"
  <1> DEFINE s == SlotOf(h)
  <1>1. h \in DOMAIN g_mSessions
    BY DEF OpIInv, OpsInv, Signing
  <1>2. slot[s].User = slot[s].cie.userType
    BY <1>1, SlotOfType DEF OpIInv, SlotSane, TokenSane
  <1>3. KeyCheck(slot[s], o.key, "private") = "CKR_OK"
    BY DEF SignFinalAnswer, Answered, SignKeyCheck
  <1>4. slot[s].cie.userType = "USER"
    BY <1>2, <1>3 DEF KeyCheck
  <1>5. ~TooLong(o) /\ Authenticated(s, "ok")
    BY <1>3, <1>4 DEF SignFinalAnswer, Answered, SignKeyCheck
  <1>6. a.out = [card |-> card[s], of |-> Block(o)]
    BY <1>3, <1>4, <1>5 DEF SignFinalAnswer, Answered, SignKeyCheck
  <1>7. card[s] # NoCard
    BY <1>5, SlotSessionsAssumption DEF Authenticated
  <1>8. a.out # Nothing
    BY <1>6, <1>7 DEF Nothing
  <1> QED BY <1>3, <1>5, <1>6, <1>8 DEF Authenticated

(* A signature or digest covers exactly what the caller gave: C_Sign this   *)
(* call's data, whatever length queries and failed calls left behind;       *)
(* C_SignFinal and C_Digest every part once, in order.                      *)
THEOREM AnswersCover == OpSpec => []AnswersCoverGiven
  <1>1. ASSUME OpIInv PROVE AnswersCoverGiven
    <2>1. ASSUME NEW h \in Signing, NEW x \in SignAnswers(h), x.a.out # Nothing
          PROVE  x.a.out.of.of = x.given
      <3>1. PICK o : /\ x.a = SignFinalAnswer(h, o, "fits", "ok")
                     /\ o.data = x.given
        BY <1>1, SignAnswersAre
      <3>2. x.a.out = [card |-> card[SlotOf(h)], of |-> Block(o)]
        BY <1>1, <2>1, <3>1, Signed
      <3> QED BY <3>1, <3>2 DEF Block
    <2>2. ASSUME NEW h \in DOMAIN ops, NEW d \in Data
          PROVE  DigestAnswer(ops[h].digest, d, "fits").out.of.of
                   = Append(ops[h].digest.given, d)
      <3>1. IsOp(ops[h].digest)
        BY <1>1 DEF OpIInv, OpsInv, OpKinds
      <3>2. Update(ops[h].digest, d).data = Append(ops[h].digest.data, d)
        BY <3>1, UpdateIs
      <3> QED BY <3>1, <3>2 DEF DigestAnswer, Block, IsOp
    <2> QED BY <2>1, <2>2 DEF AnswersCoverGiven
  <1> QED BY <1>1, OpInvariance, PTL

-----------------------------------------------------------------------------
(* Which PIN a signature shows to which card *)

\* Whoever is logged in is so to a card; unless that card's PIN has been
\* changed since, the template keeps its PIN.
PinInv ==
    /\ DOMAIN SessionPIN = Slots /\ DOMAIN dapp = Slots /\ DOMAIN pin = Cards
    /\ tries \in [Cards -> 0 .. MaxTries]
    /\ \A s \in Slots : slot[s].cie.userType = "USER" =>
          /\ dapp[s] \in Cards
          /\ s \notin renewed => SessionPIN[s] = pin[dapp[s]]

(* Nobody is logged in at first. *)
LEMMA PinInit == OpInit => PinInv
  BY OperationsAssumption DEF OpInit, Init, PinInv, NewSlot, NewCIEData

(* Only a login logs anybody in: the other calls, the readers and the       *)
(* monitor leave the user of a slot or log it out.                          *)
LEMMA UserStaysOrGoes ==
    ASSUME IInv, Anywhere, NEW t \in Slots
    PROVE  slot'[t].User \in {slot[t].User, "NOBODY"}
  <1> DEFINE Goal(x) == slot'[x].User \in {slot[x].User, "NOBODY"}
  <1>1. slot \in [Slots -> CSlot] /\ inits \in Nat
    BY DEF IInv, TypeOK
  <1>2. \A s \in Slots : /\ SlotSane(slot[s], inits) /\ card[s] \in CardOrNone
                         /\ slot[s] \in CSlot
    BY DEF IInv, TypeOK, SlotInv, SlotSane
  <1>3. ASSUME NEW s \in Slots, NEW n, slot' = [slot EXCEPT ![s] = n],
               n.User \in {slot[s].User, "NOBODY"}
        PROVE  Goal(t)
    BY <1>1, <1>3
  <1>4. CASE UNCHANGED slot
    BY <1>4
  <1>5. CASE C_Finalize
    BY <1>5 DEF C_Finalize, NewSlot
  <1>6. ASSUME NEW s \in Slots, NEW rw \in Modes, NEW io2 \in CardAnswers,
               C_OpenSession(s, rw, "ok", io2)
        PROVE  Goal(t)
    <2> DEFINE m == SlotInit(slot[s], card[s], "ok")
               n == InitSession(m, card[s], inits + 1)
    <2>1. SlotSane(m, inits) /\ m.User = slot[s].User
      BY <1>1, <1>2, SlotInitSane
    <2>2. n.User = m.User /\ [n EXCEPT !.dwSessionCount = @ + 1].User = n.User
      <3>1. m \in CSlot
        BY <2>1 DEF SlotSane
      <3> HIDE DEF m
      <3>2. n.User = m.User /\ DOMAIN n = DOMAIN m
        BY <3>1 DEF InitSession, CSlot
      <3> QED BY <3>1, <3>2 DEF CSlot
    <2> HIDE DEF m, n
    <2>3. CASE slot' = [slot EXCEPT ![s] = m]
      BY <1>3, <2>1, <2>3
    <2>4. CASE slot' = [slot EXCEPT ![s] = [n EXCEPT !.dwSessionCount = @ + 1]]
      BY <1>3, <2>1, <2>2, <2>4
    <2> QED BY <1>6, <2>3, <2>4 DEF C_OpenSession, m, n
  <1>7. ASSUME NEW s \in Slots, C_CloseAllSessions(s) PROVE Goal(t)
    <2>1. Cardinality(SessionsOn(s)) \in Nat
      BY SessionsFinite, FS_CardinalityType DEF IInv
    <2>2. DropSessions(slot[s], Cardinality(SessionsOn(s))).User
            \in {slot[s].User, "NOBODY"}
      BY <1>1, <1>2, <2>1, DropSessionsSane
    <2> QED BY <1>1, <1>3, <1>7, <2>2 DEF C_CloseAllSessions
  <1>8. ASSUME NEW s \in Slots, MonitorHandle(s) PROVE Goal(t)
    <2>1. CASE slot' = [slot EXCEPT ![s] = [SlotFinal(@) EXCEPT !.baATR = NoCard]]
      BY <1>1, <1>2, <1>3, <2>1, SlotFinalSane
    <2>2. CASE slot' = [slot EXCEPT ![s] = GetATR(@, card[s])]
      <3>1. GetATR(slot[s], card[s]).User = slot[s].User
        BY <1>2 DEF GetATR, CSlot
      <3> QED BY <1>1, <1>3, <2>2, <3>1
    <2> QED BY <1>8, <2>1, <2>2 DEF MonitorHandle
  <1>9. ASSUME NEW h \in DOMAIN g_mSessions, C_CloseSession(h) PROVE Goal(t)
    <2>1. PICK s \in Slots : s = SlotOf(h)
      BY SlotOfType
    <2>2. DropSessions(slot[s], 1).User \in {slot[s].User, "NOBODY"}
      BY <1>1, <1>2, DropSessionsSane
    <2> QED BY <1>1, <1>3, <1>9, <2>1, <2>2 DEF C_CloseSession
  <1>10. ASSUME NEW h \in DOMAIN g_mSessions, C_Logout(h) PROVE Goal(t)
    <2>1. PICK s \in Slots : s = SlotOf(h)
      BY SlotOfType
    <2>2. Logout(slot[s]).User = "NOBODY"
      BY <1>1, <1>2, LogoutSane
    <2> QED BY <1>1, <1>3, <1>10, <2>1, <2>2 DEF C_Logout
  <1>11. ASSUME NEW h \in DOMAIN g_mSessions, NEW classes \in Searches,
                C_FindObjectsInit(h, classes)
         PROVE  Goal(t)
    <2>1. PICK s \in Slots : s = SlotOf(h)
      BY SlotOfType
    <2>2. FindAll(slot[s], classes).slot.User = slot[s].User
      BY <1>1, <1>2, FindAllSane DEF SearchSane
    <2> QED BY <1>3, <1>11, <2>1, <2>2 DEF C_FindObjectsInit
  <1>12. ASSUME NEW s \in Slots, Reader(s) PROVE Goal(t)
    BY <1>4, <1>8, <1>12 DEF Reader, InsertCard, RemoveCard
  <1> QED BY <1>4, <1>5, <1>6, <1>7, <1>9, <1>10, <1>11, <1>12
          DEF Anywhere, C_Initialize, MonitorPoll, C_FindObjectsFinal

(* Showing a PIN to a card keeps its counter within bounds. *)
LEMMA TriedType ==
    ASSUME tries \in [Cards -> 0 .. MaxTries], NEW s, NEW p
    PROVE  Tried(s, p) \in [Cards -> 0 .. MaxTries]
  <1> DEFINE v == IF PinAccepted(s, p) THEN MaxTries
                  ELSE IF tries[card[s]] > 0 THEN tries[card[s]] - 1 ELSE 0
  <1>1. Tried(s, p) = [tries EXCEPT ![card[s]] = v]
    BY DEF Tried
  <1>2. card[s] \in Cards => v \in 0 .. MaxTries
    BY OperationsAssumption
  <1> HIDE DEF v
  <1> QED BY <1>1, <1>2

(* Every step keeps it: a login is to the card that DAPP knows and keeps    *)
(* the PIN that card took; a change of the PIN is noted at every slot with  *)
(* a login to that card; the DAPP key changes only where nobody is logged   *)
(* in.                                                                      *)
LEMMA PinInvStep ==
    ASSUME OpIInv, OpIInv', PinInv, [OpNext]_opVars
    PROVE  PinInv'
  <1>1. ASSUME NEW s \in Slots
        PROVE  /\ slot[s].User = slot[s].cie.userType
               /\ slot'[s].User = slot'[s].cie.userType
               /\ slot[s].User # "NOBODY" => slot[s].cie.init
               /\ slot'[s].User # "NOBODY" => slot'[s].cie.init
    <2>1. SlotInv(s) /\ SlotInv(s)'
      BY DEF OpIInv, IInv
    <2> QED BY <2>1 DEF SlotInv, SlotSane, TokenSane
  <1>2. CASE /\ UNCHANGED <<slot, SessionPIN, dapp, renewed, pin>>
             /\ tries' \in [Cards -> 0 .. MaxTries]
    BY <1>2 DEF PinInv
  <1>3. CASE UNCHANGED opVars
    BY <1>2, <1>3 DEF PinInv, opVars, vars, cardVars
  <1>4. CASE Anywhere /\ Follow
    <2>1. /\ DOMAIN SessionPIN' = Slots /\ DOMAIN dapp' = Slots
          /\ pin' = pin /\ tries' = tries
      BY <1>4 DEF Follow, cardVars
    <2>2. ASSUME NEW s \in Slots, slot'[s].cie.userType = "USER"
          PROVE  /\ dapp'[s] \in Cards
                 /\ s \notin renewed' => SessionPIN'[s] = pin'[dapp'[s]]
      <3>1. slot[s].cie.userType = "USER" /\ slot[s].cie.init /\ slot'[s].cie.init
        BY <1>1, <1>4, <2>2, UserStaysOrGoes DEF OpIInv
      <3>2. dapp'[s] = dapp[s] /\ SessionPIN'[s] = SessionPIN[s]
        BY <1>4, <2>2, <3>1 DEF Follow
      <3>3. s \in renewed => s \in renewed'
        BY <1>4, <2>2 DEF Follow
      <3> QED BY <2>1, <3>1, <3>2, <3>3 DEF PinInv
    <2> QED BY <2>1, <2>2 DEF PinInv
  <1>5. ASSUME NEW h \in DOMAIN g_mSessions, NEW u \in {"USER", "SO"},
               NEW p \in Pins, NEW puk \in BOOLEAN, NEW io \in CardAnswers,
               Login(h, u, p, puk, io)
        PROVE  PinInv'
    <2>1. PICK s \in Slots : s = SlotOf(h)
      BY SlotOfType DEF OpIInv
    <2> DEFINE right == /\ Authenticated(s, io)
                        /\ IF u = "SO" THEN puk ELSE PinAccepted(s, p)
               v == IF right /\ io = "ok" /\ card[s] \in CieCards
                    THEN u ELSE "NOBODY"
    <2>2. /\ SessionPIN' = [SessionPIN EXCEPT ![s] = IF right THEN p ELSE NoPin]
          /\ dapp' = dapp /\ pin' = pin /\ renewed' = renewed \ {s}
          /\ tries' \in [Cards -> 0 .. MaxTries]
      BY <1>5, <2>1, TriedType DEF Login, PinInv
    <2>3. /\ slot'[s].cie.userType = v
          /\ \A t \in Slots \ {s} : slot'[t] = slot[t]
      <3>1. slot \in [Slots -> CSlot] /\ slot[s] \in CSlot
        BY DEF OpIInv, IInv, TypeOK
      <3>2. C_Login(h, u, right, io)
        BY <1>5, <2>1 DEF Login
      <3> HIDE DEF right
      <3> QED BY <2>1, <3>1, <3>2 DEF C_Login, CSlot, CIEData
    <2>4. v = "USER" => /\ dapp[s] \in Cards /\ right
                        /\ p = pin[dapp[s]]
      BY SlotSessionsAssumption DEF Authenticated, PinAccepted
    <2> HIDE DEF v, right
    <2> QED BY <2>2, <2>3, <2>4 DEF PinInv
  <1>6. ASSUME NEW h \in DOMAIN g_mSessions, NEW old \in Pins, NEW new \in Pins,
               NEW io \in CardAnswers, C_SetPIN(h, old, new, io)
        PROVE  PinInv'
    <2>1. PICK s \in Slots : s = SlotOf(h)
      BY SlotOfType DEF OpIInv
    <2>2. /\ slot' = slot /\ SessionPIN' = SessionPIN
          /\ dapp' = [dapp EXCEPT ![s] = card[s]]
          /\ slot[s].cie.userType = "USER" => card[s] = dapp[s]
          /\ card[s] \in Cards
          /\ tries' \in [Cards -> 0 .. MaxTries]
      BY <1>6, <2>1, TriedType, SlotSessionsAssumption DEF C_SetPIN, PinInv, vars
    <2>3. \/ pin' = pin /\ renewed' = renewed
          \/ /\ pin' = [pin EXCEPT ![card[s]] = new]
             /\ renewed' = renewed \cup LoggedInTo(card[s])
      BY <1>6, <2>1 DEF C_SetPIN
    <2>4. ASSUME NEW t \in Slots, slot[t].cie.userType = "USER"
          PROVE  /\ dapp'[t] = dapp[t] /\ dapp[t] \in Cards
                 /\ t \notin renewed' => SessionPIN[t] = pin'[dapp[t]]
      <3>1. dapp'[t] = dapp[t] /\ dapp[t] \in Cards
        BY <2>2, <2>4 DEF PinInv
      <3>2. t \notin renewed => SessionPIN[t] = pin[dapp[t]]
        BY <2>4 DEF PinInv
      <3>3. pin'[dapp[t]] # pin[dapp[t]] => t \in renewed'
        BY <2>2, <2>3, <2>4, <3>1 DEF PinInv, LoggedInTo
      <3> QED BY <2>3, <3>1, <3>2, <3>3
    <2> QED BY <2>2, <2>3, <2>4 DEF PinInv
  <1>7. ASSUME NEW h \in DOMAIN g_mSessions,
               \/ DigestCall(h) \/ SignCall(h) \/ VerifyCall(h)
               \/ \E g \in DOMAIN g_mSessions : C_SetOperationState(h, g)
        PROVE  PinInv'
    <2>1. CASE DigestCall(h)
      BY <1>2, <2>1 DEF DigestCall, C_DigestInit, C_DigestUpdate, C_Digest,
                        C_DigestFinal, Becomes, vars, PinInv
    <2>2. CASE SignCall(h)
      BY <1>2, <2>2, TriedType
         DEF SignCall, C_SignInit, C_SignUpdate, C_Sign, C_SignFinal, Becomes,
             Presented, vars, PinInv
    <2>3. CASE VerifyCall(h)
      BY <1>2, <2>3 DEF VerifyCall, C_VerifyInit, C_VerifyUpdate, C_Verify,
                        C_VerifyFinal, Becomes, vars, PinInv
    <2>4. ASSUME NEW g \in DOMAIN g_mSessions, C_SetOperationState(h, g)
          PROVE  PinInv'
      BY <1>2, <2>4 DEF C_SetOperationState, cardVars, vars, PinInv
    <2> QED BY <1>7, <2>1, <2>2, <2>3, <2>4
  <1> QED BY <1>3, <1>4, <1>5, <1>6, <1>7 DEF OpNext, PinCall

(* A signature costs a card a try only when it is the card of the login and *)
(* its PIN has been changed since; and it ends the operation.               *)
THEOREM OnlyAStalePinCosts == OpSpec => []OnlyStalePinCostsATry
  <1>1. ASSUME OpIInv, PinInv PROVE OnlyStalePinCostsATry
    <2> SUFFICES ASSUME NEW h \in Signing, NEW o \in ToBeSigned(h),
                        NEW buf \in SignBuffer, PinShown(h, o, buf, "ok"),
                        Tried(SlotOf(h), SessionPIN[SlotOf(h)])[card[SlotOf(h)]]
                          < tries[card[SlotOf(h)]]
                 PROVE  /\ SlotOf(h) \in renewed
                        /\ dapp[SlotOf(h)] = card[SlotOf(h)]
                        /\ ~Active(SignFinalAnswer(h, o, buf, "ok").op)
      BY DEF OnlyStalePinCostsATry
    <2>1. PICK s \in Slots : s = SlotOf(h)
      BY <1>1, SlotOfType DEF OpIInv, OpsInv, Signing
    <2>2. /\ slot[s].cie.userType = "USER" /\ card[s] \in Cards
          /\ card[s] = dapp[s] /\ buf # "null"
      BY <2>1, SlotSessionsAssumption DEF PinShown, Authenticated
    <2>3. tries[card[s]] \in 0 .. MaxTries
      BY <1>1, <2>2 DEF PinInv
    <2>4. ~PinAccepted(s, SessionPIN[s]) /\ tries[card[s]] > 0
      BY <1>1, <2>1, <2>2, <2>3, OperationsAssumption DEF Tried, PinInv
    <2>5. s \in renewed
      BY <1>1, <2>2, <2>4 DEF PinInv, PinAccepted
    <2>6. SignFinalAnswer(h, o, buf, "ok").op = NoOp
      BY <2>1, <2>2, <2>4 DEF PinShown, SignFinalAnswer, Answered
    <2> QED BY <2>1, <2>2, <2>5, <2>6, NoOpIs
  <1>2. OpIInv /\ OpIInv' /\ PinInv /\ [OpNext]_opVars => PinInv'
    BY PinInvStep
  <1> QED BY <1>1, <1>2, PinInit, OpInvariance, PTL DEF OpSpec

(* A signature that is handed out was made by the card whose certificate    *)
(* and keys the session sees, also when cards were exchanged unseen, and by *)
(* an operation that no logout came between, unless its key was of an       *)
(* earlier insertion.  The PIN is not changed without a login: that call    *)
(* reads the DAPP key of whatever card is there.                            *)
THEOREM SignaturesAreSound ==
    ASSUME ~AnonymousSetPIN PROVE OpSpec => []SignaturesSound
  <1>1. ASSUME OpIInv, DappInv, NEW h \in Signing, NEW x \in SignAnswers(h),
               x.a.rv = "CKR_OK"
        PROVE  /\ x.a.out # Nothing
               /\ \A o \in slot[SlotOf(h)].P11Objects : o.card = x.a.out.card
    <2>1. PICK o : x.a = SignFinalAnswer(h, o, "fits", "ok")
      BY <1>1, SignAnswersAre
    <2>2. /\ x.a.out = [card |-> card[SlotOf(h)], of |-> Block(o)]
          /\ x.a.out # Nothing /\ card[SlotOf(h)] = dapp[SlotOf(h)]
      BY <1>1, <2>1, Signed
    <2>3. SlotOf(h) \in Slots
      BY <1>1, SlotOfType DEF OpIInv, OpsInv, Signing
    <2> QED BY <1>1, <2>2, <2>3 DEF DappInv
  <1>2. ASSUME OpIInv, NEW h \in Signing, NEW x \in SignAnswers(h),
               x.a.out # Nothing, ops[h].sign.loggedOut
        PROVE  LET K == GetObjectFromID(slot[SlotOf(h)], ops[h].sign.key)
               IN  K # {} /\ K \cap slot[SlotOf(h)].P11Objects = {}
    <2>1. PICK o : /\ x.a = SignFinalAnswer(h, o, "fits", "ok")
                   /\ o.key = ops[h].sign.key
      BY <1>2, SignAnswersAre
    <2>2. KeyCheck(slot[SlotOf(h)], o.key, "private") = "CKR_OK"
      BY <1>2, <2>1, Signed
    <2>3. GetObjectFromID(slot[SlotOf(h)], o.key) # {}
      BY <2>2 DEF KeyCheck
    <2> QED BY <1>2, <2>1, <2>3 DEF OpIInv, KeysInv, KeySane, Signing
  <1>3. OpIInv /\ DappInv => SignaturesSound
    BY <1>1, <1>2 DEF SignaturesSound, SignatureByThisToken, SignatureOfThisLogin
  <1> QED BY <1>3, OpInvariance, DappOfThisToken, PTL

(* A signature that is handed out verifies under a public key of the token  *)
(* that the session sees if and only if mechanism and data are the same.    *)
THEOREM SignAndVerifyAgree ==
    ASSUME ~AnonymousSetPIN PROVE OpSpec => []SignVerifyAgree
  <1>1. ASSUME OpIInv, DappInv PROVE SignVerifyAgree
    <2> SUFFICES ASSUME NEW h \in Signing, NEW x \in SignAnswers(h),
                        x.a.out # Nothing, NEW k \in Handles,
                        OfThisToken(slot[SlotOf(h)], k),
                        KeyCheck(slot[SlotOf(h)], k, "public") = "CKR_OK",
                        NEW m \in SignMechs,
                        NEW g \in {x.given} \cup {Append(x.given, d) : d \in Data}
                 PROVE  VerifyFinalResult(h, [Started(m, k) EXCEPT !.data = g],
                                          x.a.out) = "CKR_OK"
                          <=> m = ops[h].sign.mech /\ g = x.given
      BY DEF SignVerifyAgree
    <2> DEFINE s == SlotOf(h)
               v == [Started(m, k) EXCEPT !.data = g]
    <2>1. PICK o : /\ x.a = SignFinalAnswer(h, o, "fits", "ok")
                   /\ o.data = x.given /\ o.mech = ops[h].sign.mech
      BY <1>1, SignAnswersAre
    <2>2. /\ x.a.out = [card |-> card[s], of |-> Block(o)]
          /\ card[s] = dapp[s] /\ ~TooLong(o)
      BY <1>1, <2>1, Signed
    <2>3. s \in Slots /\ SlotSane(slot[s], inits)
      BY <1>1, SlotOfType DEF OpIInv, OpsInv, Signing
    <2>4. v.mech = m /\ v.key = k /\ v.data = g
      <3>1. k \in Nat
        BY SlotSessionsAssumption DEF Handles
      <3>2. DOMAIN Started(m, k) = OpFields
        BY <3>1, StartedIs DEF IsOp
      <3> QED BY <3>1, <3>2, StartedIs DEF OpFields
    <2> HIDE DEF v
    <2>5. PICK e \in slot[s].handles : e.id = k /\ e.obj \in slot[s].P11Objects
      BY <1>1 DEF OfThisToken, GetObjectFromID
    <2>6. GetObjectFromID(slot[s], k) = {e.obj}
      BY <2>3, <2>5 DEF GetObjectFromID, SlotSane, HandlesSane
    <2>7. e.obj.cls = "public"
      BY <1>1, <2>6 DEF KeyCheck
    <2>8. VerifyKey(h, v) = {e.obj}
      BY <2>4, <2>6, <2>7 DEF VerifyKey
    <2>9. e.obj.card = card[s]
      BY <1>1, <2>2, <2>3, <2>5 DEF DappInv
    <2>10. o.mech \in SignMechs
      BY <1>1, <2>1 DEF OpIInv, KeysInv, KeySane, Signing
    <2>11. Block(v) = Block(o) <=> m = o.mech /\ g = o.data
      <3>1. "none" \notin SignMechs
        BY OperationsAssumption
      <3> QED BY <2>4, <2>10, <3>1 DEF Block
    <2>12. x.a.out = [card |-> e.obj.card, of |-> Block(v)] <=> Block(v) = Block(o)
      BY <2>2, <2>9
    <2>13. m = o.mech /\ g = o.data => ~TooLong(v)
      BY <2>2, <2>4 DEF TooLong
    <2>14. VerifyFinalResult(h, v, x.a.out) = "CKR_OK"
             <=> ~TooLong(v) /\ Block(v) = Block(o)
      BY <2>8, <2>12 DEF VerifyFinalResult
    <2> QED BY <2>1, <2>11, <2>13, <2>14 DEF v
  <1>2. OpIInv /\ DappInv => SignVerifyAgree
    BY <1>1
  <1> QED BY <1>2, OpInvariance, DappOfThisToken, PTL

(* The CKF_SIGN, CKF_VERIFY and CKF_DIGEST of C_GetMechanismInfo: what they *)
(* offer can be begun with a key that passes the checks.  Nothing is said   *)
(* of its flags for encryption and recovery, whose calls the library        *)
(* refuses.  And no call writes to a token that says WRITE_PROTECTED.       *)
THEOREM SignVerifyDigestFlagsHonest == OpSpec => []FlagsAreHonest
  <1>1. FlagsAreHonest
    <2> SUFFICES ASSUME NEW h \in DOMAIN ops
                 PROVE  LET sl == slot[SlotOf(h)] IN
        /\ \A m \in p11_mechanisms :
             /\ "DIGEST" \in MechanismFlags(m) /\ ~Active(ops[h].digest)
                  => DigestInitResult(h, m) = "CKR_OK"
             /\ "SIGN" \in MechanismFlags(m) /\ ~Active(ops[h].sign)
                  => \A k \in Handles : KeyCheck(sl, k, "private") = "CKR_OK"
                       => SignInitResult(h, m, k) = "CKR_OK"
             /\ "VERIFY" \in MechanismFlags(m) /\ ~Active(ops[h].verify)
                  => \A k \in Handles : KeyCheck(sl, k, "public") = "CKR_OK"
                       => VerifyInitResult(h, m, k) = "CKR_OK"
        /\ "WRITE_PROTECTED" \in TokenFlags =>
             /\ \A k \in Handles : {DestroyObjectResult(h, k),
                                    SetAttributeValueResult(h, k)}
                                     \cap {"CKR_OK"} = {}
             /\ {CreateObjectResult(h), GenerateKeyResult(h),
                 GenerateKeyPairResult(h)} \cap {"CKR_OK"} = {}
      BY DEF FlagsAreHonest
    <2>1. \A m \in p11_mechanisms :
            /\ "DIGEST" \in MechanismFlags(m)
                 => m \in {"CKM_SHA_1", "CKM_SHA256", "CKM_MD5"}
            /\ "SIGN" \in MechanismFlags(m) => RSAMechanism(m)
            /\ "VERIFY" \in MechanismFlags(m) => RSAMechanism(m)
      BY DEF p11_mechanisms, MechanismFlags, RSAMechanism
    <2>2. \A k \in Handles : /\ DestroyObjectResult(h, k) # "CKR_OK"
                             /\ SetAttributeValueResult(h, k) # "CKR_OK"
      BY DEF DestroyObjectResult, SetAttributeValueResult, WriteCheck
    <2>3. /\ CreateObjectResult(h) # "CKR_OK" /\ GenerateKeyResult(h) # "CKR_OK"
          /\ GenerateKeyPairResult(h) # "CKR_OK"
      BY DEF CreateObjectResult, WriteCheck, GenerateKeyResult,
             GenerateKeyPairResult
    <2> QED BY <2>1, <2>2, <2>3 DEF DigestInitResult, SignInitResult,
               VerifyInitResult, KeyInitResult
  <1> QED BY <1>1, PTL

=============================================================================
