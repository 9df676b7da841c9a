------------------------- MODULE SlotSessionsProofs -------------------------
(***************************************************************************)
(* Proofs about SlotSessions, for every set of readers and cards and every *)
(* bound.  The inductive invariant IInv has a part per slot, SlotSane, and *)
(* a part that relates slots and sessions; lemmas say that each helper the *)
(* actions are composed of keeps a slot record typed and sane.             *)
(***************************************************************************)
EXTENDS SlotSessions, FiniteSetTheorems, TLAPS

\* What holds of a slot record when objects were created at most k times.
HandlesSane(sl, k) ==
    /\ \A e, f \in sl.handles : e.id = f.id <=> e.obj = f.obj
    /\ \A e \in sl.handles : e.id <= sl.dwP11ObjCnt /\ e.obj.gen <= k
    /\ \A o \in sl.P11Objects : o.gen <= k
    /\ \A e \in sl.handles :
          e.obj \in sl.P11Objects /\ IsPrivate(e.obj) => sl.User = "USER"

TokenSane(sl) ==
    /\ sl.bUpdated => sl.pTemplate
    /\ ~sl.bUpdated => sl.P11Objects = {} /\ sl.User = "NOBODY"
    /\ sl.cie.init <=> sl.P11Objects # {}
    /\ sl.User = sl.cie.userType

SlotSane(sl, k) == sl \in CSlot /\ HandlesSane(sl, k) /\ TokenSane(sl)

-----------------------------------------------------------------------------
(* The helpers keep a slot sane *)

\* The CSlot constructor makes a sane slot.
LEMMA NewSlotSane == ASSUME NEW k \in Nat PROVE SlotSane(NewSlot, k)
  BY DEF SlotSane, HandlesSane, TokenSane, NewSlot, CSlot, NewCIEData, CIEData,
         CardOrNone, UserType

\* Reading the ATR changes nothing but baATR.
LEMMA GetATRSane ==
    ASSUME NEW k \in Nat, NEW sl, SlotSane(sl, k), NEW c \in CardOrNone
    PROVE  SlotSane(GetATR(sl, c), k)
  BY DEF SlotSane, HandlesSane, TokenSane, CSlot, GetATR, CardOrNone

\* Matching the template changes nothing but baATR and pTemplate.
LEMMA EnsureTemplateSane ==
    ASSUME NEW k \in Nat, NEW sl, SlotSane(sl, k), NEW c \in CardOrNone, NEW io
    PROVE  /\ SlotSane(EnsureTemplate(sl, c, io), k)
           /\ EnsureTemplate(sl, c, io).bUpdated = sl.bUpdated
           /\ EnsureTemplate(sl, c, io).User = sl.User
           /\ EnsureTemplate(sl, c, io).P11Objects = sl.P11Objects
           /\ EnsureTemplate(sl, c, io).cie = sl.cie
           /\ EnsureTemplate(sl, c, io).dwSessionCount = sl.dwSessionCount
           /\ EnsureTemplate(sl, c, io).handles = sl.handles
           /\ EnsureTemplate(sl, c, io).dwP11ObjCnt = sl.dwP11ObjCnt
  <1>1. CASE sl.pTemplate \/ c = NoCard \/ io = "noconnect"
    BY <1>1 DEF EnsureTemplate, GetTemplate
  <1>2. CASE ~(sl.pTemplate \/ c = NoCard \/ io = "noconnect")
    BY <1>2 DEF SlotSane, HandlesSane, TokenSane, CSlot, EnsureTemplate,
                GetTemplate, CardOrNone
  <1> QED BY <1>1, <1>2

\* CSlot::Init leaves a slot that was initialised as it is; one that becomes
\* initialised has its template, new card data and no objects.
LEMMA SlotInitSane ==
    ASSUME NEW k \in Nat, NEW sl, SlotSane(sl, k), NEW c \in CardOrNone, NEW io
    PROVE  /\ SlotSane(SlotInit(sl, c, io), k)
           /\ SlotInit(sl, c, io).dwSessionCount = sl.dwSessionCount
           /\ SlotInit(sl, c, io).User = sl.User
           /\ SlotInit(sl, c, io).P11Objects = sl.P11Objects
           /\ SlotInit(sl, c, io).handles = sl.handles
           /\ SlotInit(sl, c, io).dwP11ObjCnt = sl.dwP11ObjCnt
           /\ sl.bUpdated => SlotInit(sl, c, io) = sl
  <1> DEFINE m == EnsureTemplate(sl, c, io)
             a == GetATR(m, c)
  <1>1. /\ SlotSane(m, k) /\ m.bUpdated = sl.bUpdated /\ m.User = sl.User
        /\ m.P11Objects = sl.P11Objects /\ m.cie = sl.cie
        /\ m.dwSessionCount = sl.dwSessionCount
        /\ m.handles = sl.handles /\ m.dwP11ObjCnt = sl.dwP11ObjCnt
    BY EnsureTemplateSane
  <1>2. SlotSane(a, k)
    BY <1>1, GetATRSane
  <1>3. /\ a.bUpdated = m.bUpdated /\ a.User = m.User /\ a.cie = m.cie
        /\ a.P11Objects = m.P11Objects /\ a.handles = m.handles
        /\ a.dwSessionCount = m.dwSessionCount /\ a.pTemplate = m.pTemplate
        /\ a.dwP11ObjCnt = m.dwP11ObjCnt
    BY <1>1 DEF GetATR, SlotSane, CSlot
  <1> HIDE DEF m, a
  <1>4. CASE sl.bUpdated
    BY <1>4 DEF SlotInit
  <1>5. CASE ~sl.bUpdated /\ ~m.pTemplate
    BY <1>5, <1>1 DEF SlotInit, m
  <1>6. CASE ~sl.bUpdated /\ m.pTemplate
    <2> DEFINE n == [a EXCEPT !.cie = NewCIEData(a.baATR), !.bUpdated = TRUE]
    <2>1. SlotInit(sl, c, io) = n
      BY <1>6 DEF SlotInit, m, a
    <2>2. n \in CSlot
      BY <1>2 DEF SlotSane, CSlot, NewCIEData, CIEData, UserType
    <2>3. HandlesSane(n, k)
      BY <1>2 DEF SlotSane, HandlesSane, CSlot
    <2>4. TokenSane(n)
      BY <1>2, <1>3, <1>6, <1>1 DEF SlotSane, TokenSane, CSlot, NewCIEData
    <2>5. /\ n.dwSessionCount = a.dwSessionCount /\ n.User = a.User
          /\ n.P11Objects = a.P11Objects /\ n.handles = a.handles
          /\ n.dwP11ObjCnt = a.dwP11ObjCnt
      BY <1>2 DEF SlotSane, CSlot
    <2> QED BY <1>1, <1>3, <1>6, <2>1, <2>2, <2>3, <2>4, <2>5 DEF SlotSane
  <1> QED BY <1>4, <1>5, <1>6

\* Creating the objects of a card, or finding them created, leaves an
\* initialised slot with objects; objects of a new creation have no handles.
LEMMA InitSessionSane ==
    ASSUME NEW k \in Nat, NEW sl, SlotSane(sl, k), sl.bUpdated, NEW c \in Cards
    PROVE  LET n == InitSession(sl, c, k + 1)
           IN  /\ SlotSane(n, IF sl.cie.init THEN k ELSE k + 1)
               /\ n.bUpdated /\ n.cie.init
               /\ n.dwSessionCount = sl.dwSessionCount
               /\ n.User = sl.User /\ n.handles = sl.handles
               /\ n.cie.atr = sl.cie.atr
               /\ sl.cie.init => n = sl
  <1> DEFINE new == [gen: {k + 1}, cls: Class, card: {c}]
             n == [sl EXCEPT !.cie.init = TRUE, !.P11Objects = @ \cup new]
  <1>1. CASE sl.cie.init
    BY <1>1 DEF InitSession
  <1>2. CASE ~sl.cie.init
    <2>1. InitSession(sl, c, k + 1) = n
      BY <1>2 DEF InitSession
    <2>2. new \subseteq Object /\ new # {}
      <3>1. new \subseteq Object
        BY DEF Object
      <3>2. [gen |-> k + 1, cls |-> "cert", card |-> c] \in new
        BY DEF Class
      <3> QED BY <3>1, <3>2
    <2>3. sl \in CSlot /\ n \in CSlot
      BY <2>2 DEF SlotSane, CSlot, CIEData
    <2>4. /\ n.handles = sl.handles /\ n.dwP11ObjCnt = sl.dwP11ObjCnt
          /\ n.P11Objects = sl.P11Objects \cup new /\ n.User = sl.User
          /\ n.bUpdated = sl.bUpdated /\ n.pTemplate = sl.pTemplate
          /\ n.cie.init /\ n.cie.userType = sl.cie.userType
          /\ n.cie.atr = sl.cie.atr /\ n.dwSessionCount = sl.dwSessionCount
      BY <2>3 DEF CSlot, CIEData
    <2> HIDE DEF n
    <2>5. HandlesSane(n, k + 1)
      <3> \A o \in n.P11Objects : o.gen <= k + 1
        <4>1. \A o \in sl.P11Objects : o.gen \in Nat /\ o.gen <= k
          BY <2>3 DEF SlotSane, HandlesSane, CSlot, Object
        <4>2. \A o \in new : o.gen = k + 1
          OBVIOUS
        <4> QED BY <4>1, <4>2, <2>4
      <3>1. ASSUME NEW e \in n.handles
            PROVE  /\ e.id <= n.dwP11ObjCnt /\ e.obj.gen <= k + 1
                   /\ e.obj \notin new
        <4>1. e.obj.gen \in Nat /\ e.id \in Nat
          BY <2>3, <2>4 DEF CSlot, Entry, Object
        <4>2. e.id <= n.dwP11ObjCnt /\ e.obj.gen <= k
          BY <2>4 DEF SlotSane, HandlesSane
        <4>3. \A o \in new : o.gen = k + 1
          OBVIOUS
        <4> QED BY <4>1, <4>2, <4>3
      <3> QED BY <3>1, <2>4 DEF SlotSane, HandlesSane
    <2>6. TokenSane(n)
      BY <2>2, <2>4 DEF SlotSane, TokenSane
    <2> QED BY <1>2, <2>1, <2>3, <2>4, <2>5, <2>6 DEF SlotSane, n
  <1> QED BY <1>1, <1>2

\* A logout keeps the slot sane: the handles of private objects go with it.
LEMMA LogoutSane ==
    ASSUME NEW k \in Nat, NEW sl, SlotSane(sl, k)
    PROVE  /\ SlotSane(Logout(sl), k)
           /\ Logout(sl).User = "NOBODY" /\ Logout(sl).bUpdated = sl.bUpdated
           /\ Logout(sl).P11Objects = sl.P11Objects
           /\ Logout(sl).cie.atr = sl.cie.atr
           /\ Logout(sl).dwSessionCount = sl.dwSessionCount
           /\ Logout(sl).handles \subseteq sl.handles
           /\ Logout(sl).dwP11ObjCnt = sl.dwP11ObjCnt
  <1> DEFINE priv == {o \in sl.P11Objects : IsPrivate(o)}
             d == DelObjectHandles(sl, priv)
             n == [d EXCEPT !.cie.userType = "NOBODY", !.User = "NOBODY"]
  <1>1. d = [sl EXCEPT !.handles = {e \in @ : e.obj \notin priv}]
    BY DEF DelObjectHandles
  <1>2. /\ d \in CSlot
        /\ d.handles = {e \in sl.handles : e.obj \notin priv}
        /\ d.bUpdated = sl.bUpdated /\ d.pTemplate = sl.pTemplate
        /\ d.P11Objects = sl.P11Objects /\ d.cie = sl.cie
        /\ d.dwP11ObjCnt = sl.dwP11ObjCnt
        /\ d.dwSessionCount = sl.dwSessionCount
    BY <1>1 DEF SlotSane, CSlot
  <1> HIDE DEF d
  <1>3. /\ n \in CSlot /\ n.handles = d.handles /\ n.User = "NOBODY"
        /\ n.bUpdated = d.bUpdated /\ n.pTemplate = d.pTemplate
        /\ n.P11Objects = d.P11Objects /\ n.dwP11ObjCnt = d.dwP11ObjCnt
        /\ n.dwSessionCount = d.dwSessionCount
        /\ n.cie.init = d.cie.init /\ n.cie.userType = "NOBODY"
        /\ n.cie.atr = d.cie.atr
    BY <1>2 DEF CSlot, CIEData, UserType
  <1>4. Logout(sl) = n
    BY DEF Logout, d
  <1> HIDE DEF n
  <1>5. HandlesSane(n, k)
    BY <1>2, <1>3 DEF SlotSane, HandlesSane
  <1>6. TokenSane(n)
    BY <1>2, <1>3 DEF SlotSane, TokenSane
  <1> QED BY <1>2, <1>3, <1>4, <1>5, <1>6 DEF SlotSane

\* Deleting sessions keeps it sane and its objects.
LEMMA DropSessionsSane ==
    ASSUME NEW k \in Nat, NEW sl, SlotSane(sl, k), NEW n \in Nat
    PROVE  /\ SlotSane(DropSessions(sl, n), k)
           /\ DropSessions(sl, n).bUpdated = sl.bUpdated
           /\ DropSessions(sl, n).P11Objects = sl.P11Objects
           /\ DropSessions(sl, n).cie.atr = sl.cie.atr
           /\ DropSessions(sl, n).dwSessionCount = sl.dwSessionCount - n
           /\ DropSessions(sl, n).handles \subseteq sl.handles
           /\ DropSessions(sl, n).dwP11ObjCnt = sl.dwP11ObjCnt
           /\ DropSessions(sl, n).User \in {sl.User, "NOBODY"}
           /\ n > 0 /\ sl.dwSessionCount = n
                => DropSessions(sl, n).User = "NOBODY"
           /\ n = 0 => DropSessions(sl, n).User = sl.User
  <1> DEFINE left == sl.dwSessionCount - n
             d == [sl EXCEPT !.dwSessionCount = left]
  <1>1. sl \in CSlot /\ sl.dwSessionCount \in Int /\ left \in Int
    BY DEF SlotSane, CSlot
  <1> DEFINE out == n > 0 /\ d.dwSessionCount = 0 /\ d.User # "NOBODY"
  <1>2. DropSessions(sl, n) = IF out THEN Logout(d) ELSE d
    BY DEF DropSessions
  <1>3. n = 0 => ~out
    BY DEF out
  <1>4. sl.dwSessionCount = n => left = 0
    BY <1>1
  <1> HIDE DEF left
  <1>5. /\ d \in CSlot /\ d.dwSessionCount = left
        /\ d.bUpdated = sl.bUpdated /\ d.pTemplate = sl.pTemplate
        /\ d.P11Objects = sl.P11Objects /\ d.cie = sl.cie
        /\ d.dwP11ObjCnt = sl.dwP11ObjCnt /\ d.handles = sl.handles
        /\ d.User = sl.User
    BY <1>1 DEF CSlot
  <1> HIDE DEF d
  <1>6. SlotSane(d, k)
    BY <1>5 DEF SlotSane, HandlesSane, TokenSane
  <1>7. n > 0 /\ sl.dwSessionCount = n => out \/ d.User = "NOBODY"
    BY <1>4, <1>5 DEF out
  <1> HIDE DEF out
  <1>8. CASE out
    <2>1. /\ SlotSane(Logout(d), k)
          /\ Logout(d).User = "NOBODY" /\ Logout(d).bUpdated = d.bUpdated
          /\ Logout(d).P11Objects = d.P11Objects
          /\ Logout(d).cie.atr = d.cie.atr
          /\ Logout(d).dwSessionCount = d.dwSessionCount
          /\ Logout(d).handles \subseteq d.handles
          /\ Logout(d).dwP11ObjCnt = d.dwP11ObjCnt
      BY <1>5, <1>6, LogoutSane
    <2> QED BY <1>2, <1>3, <1>5, <1>8, <2>1 DEF left
  <1>9. CASE ~out
    BY <1>2, <1>5, <1>6, <1>7, <1>9 DEF left
  <1> QED BY <1>8, <1>9

\* CSlot::Final keeps a slot sane; what it finalises has no user and no
\* sessions counted.
LEMMA SlotFinalSane ==
    ASSUME NEW k \in Nat, NEW sl, SlotSane(sl, k)
    PROVE  /\ SlotSane([SlotFinal(sl) EXCEPT !.baATR = NoCard], k)
           /\ [SlotFinal(sl) EXCEPT !.baATR = NoCard].User = "NOBODY"
           /\ [SlotFinal(sl) EXCEPT !.baATR = NoCard].dwSessionCount
                = IF sl.bUpdated THEN 0 ELSE sl.dwSessionCount
           /\ [SlotFinal(sl) EXCEPT !.baATR = NoCard].handles = sl.handles
           /\ [SlotFinal(sl) EXCEPT !.baATR = NoCard].dwP11ObjCnt
                = sl.dwP11ObjCnt
  <1>1. CASE sl.bUpdated
    <2> DEFINE f == [NewSlot EXCEPT !.handles = sl.handles,
                                    !.dwP11ObjCnt = sl.dwP11ObjCnt]
               n == [f EXCEPT !.baATR = NoCard]
    <2>1. SlotFinal(sl) = f
      BY <1>1 DEF SlotFinal
    <2>2. /\ sl.handles \in SUBSET Entry /\ sl.dwP11ObjCnt \in Nat
          /\ NewSlot \in CSlot
      BY NewSlotSane DEF SlotSane, CSlot
    <2>3. /\ f \in CSlot /\ f.cie = NewSlot.cie
          /\ f.P11Objects = NewSlot.P11Objects /\ f.User = NewSlot.User
          /\ f.bUpdated = NewSlot.bUpdated
          /\ f.dwSessionCount = NewSlot.dwSessionCount
          /\ f.handles = sl.handles /\ f.dwP11ObjCnt = sl.dwP11ObjCnt
      BY <2>2 DEF CSlot
    <2> HIDE DEF f
    <2>4. /\ n \in CSlot /\ n.cie = f.cie
          /\ n.P11Objects = f.P11Objects /\ n.User = f.User
          /\ n.bUpdated = f.bUpdated
          /\ n.dwSessionCount = f.dwSessionCount
          /\ n.handles = f.handles /\ n.dwP11ObjCnt = f.dwP11ObjCnt
      BY <2>3 DEF CSlot, CardOrNone
    <2>5. /\ NewSlot.cie = NewCIEData(NoCard) /\ NewSlot.P11Objects = {}
          /\ NewSlot.User = "NOBODY" /\ NewSlot.bUpdated = FALSE
          /\ NewSlot.dwSessionCount = 0
      BY DEF NewSlot
    <2> HIDE DEF n
    <2>6. HandlesSane(n, k)
      BY <2>3, <2>4, <2>5 DEF SlotSane, HandlesSane
    <2>7. TokenSane(n)
      BY <2>3, <2>4, <2>5 DEF TokenSane, NewCIEData
    <2> QED BY <1>1, <2>1, <2>3, <2>4, <2>5, <2>6, <2>7 DEF SlotSane, n
  <1>2. CASE ~sl.bUpdated
    BY <1>2 DEF SlotFinal, SlotSane, HandlesSane, TokenSane, CSlot, CardOrNone
  <1> QED BY <1>1, <1>2

\* A slot that was sane stays so when objects are created elsewhere.
LEMMA SaneMonotone ==
    ASSUME NEW k \in Nat, NEW j \in Nat, k <= j, NEW sl, SlotSane(sl, k)
    PROVE  SlotSane(sl, j)
  <1>1. /\ \A e \in sl.handles : e.obj.gen \in Nat
        /\ \A o \in sl.P11Objects : o.gen \in Nat
    BY DEF SlotSane, CSlot, Entry, Object
  <1> QED BY <1>1 DEF SlotSane, HandlesSane

\* Giving an object of the slot a handle keeps the slot sane if the object is
\* public or CKU_USER is logged in; the handle is a new one or an old one.
LEMMA GetIDFromObjectSane ==
    ASSUME NEW k \in Nat, NEW sl, SlotSane(sl, k), NEW o \in sl.P11Objects,
           IsPrivate(o) => sl.User = "USER"
    PROVE  LET g == GetIDFromObject(sl, o)
           IN  /\ SlotSane(g, k)
               /\ g.bUpdated = sl.bUpdated /\ g.User = sl.User
               /\ g.P11Objects = sl.P11Objects /\ g.cie = sl.cie
               /\ g.dwSessionCount = sl.dwSessionCount
               /\ g.dwP11ObjCnt >= sl.dwP11ObjCnt
               /\ \A e \in g.handles \ sl.handles : e.id > sl.dwP11ObjCnt
               /\ HandleOf(g, o) \in Nat /\ HandleOf(g, o) <= g.dwP11ObjCnt
  <1> DEFINE g == GetIDFromObject(sl, o)
             id == sl.dwP11ObjCnt + 1
             e0 == [obj |-> o, id |-> id]
  <1>1. sl \in CSlot /\ sl.dwP11ObjCnt \in Nat /\ id \in Nat /\ o \in Object
    BY DEF SlotSane, CSlot
  <1>2. SUFFICES ASSUME /\ SlotSane(g, k)
                        /\ g.bUpdated = sl.bUpdated /\ g.User = sl.User
                        /\ g.P11Objects = sl.P11Objects /\ g.cie = sl.cie
                        /\ g.dwSessionCount = sl.dwSessionCount
                        /\ g.dwP11ObjCnt >= sl.dwP11ObjCnt
                        /\ \A e \in g.handles \ sl.handles :
                              e.id > sl.dwP11ObjCnt
                        /\ \E e \in g.handles : e.obj = o
                 PROVE  HandleOf(g, o) \in Nat
                        /\ HandleOf(g, o) <= g.dwP11ObjCnt
    <2>1. CASE EntriesOf(sl, o) # {}
      <3>1. g = sl
        BY <2>1 DEF GetIDFromObject
      <3>2. \E e \in sl.handles : e.obj = o
        BY <2>1 DEF EntriesOf
      <3> QED BY <3>1, <3>2, <1>1, <1>2
    <2>2. CASE EntriesOf(sl, o) = {}
      <3> DEFINE H == sl.handles \cup {e0}
      <3>1. g = [sl EXCEPT !.dwP11ObjCnt = id, !.handles = H]
        BY <2>2 DEF GetIDFromObject
      <3>2. \A e \in sl.handles : e.obj # o
        BY <2>2 DEF EntriesOf
      <3>3. e0 \in Entry /\ e0.obj = o /\ e0.id = id
        BY <1>1 DEF Entry
      <3>3a. H \in SUBSET Entry
        BY <3>3, <1>1 DEF CSlot
      <3>3b. id = sl.dwP11ObjCnt + 1
        OBVIOUS
      <3> HIDE DEF e0, H, g, id
      <3>4. /\ g \in CSlot /\ g.dwP11ObjCnt = id
            /\ g.handles = H
            /\ g.bUpdated = sl.bUpdated /\ g.pTemplate = sl.pTemplate
            /\ g.User = sl.User /\ g.P11Objects = sl.P11Objects
            /\ g.cie = sl.cie /\ g.dwSessionCount = sl.dwSessionCount
        BY <3>1, <3>3a, <1>1 DEF CSlot
      <3>5. \A e \in sl.handles : e.id \in Nat /\ e.id < id
        BY <1>1, <3>3b DEF SlotSane, HandlesSane, CSlot, Entry
      <3>6. \A e, f \in g.handles : e.id = f.id <=> e.obj = f.obj
        BY <3>2, <3>3, <3>4, <3>5, <1>1, <3>3b DEF H, SlotSane, HandlesSane
      <3>7. \A e \in g.handles : e.id <= g.dwP11ObjCnt /\ e.obj.gen <= k
        BY <3>3, <3>4, <3>5, <1>1, <3>3b DEF H, SlotSane, HandlesSane
      <3>8. \A e \in g.handles :
               e.obj \in g.P11Objects /\ IsPrivate(e.obj) => g.User = "USER"
        BY <3>3, <3>4 DEF H, SlotSane, HandlesSane
      <3>9. HandlesSane(g, k)
        BY <3>4, <3>6, <3>7, <3>8 DEF SlotSane, HandlesSane
      <3>10. TokenSane(g)
        BY <3>4 DEF SlotSane, TokenSane
      <3>11. /\ \A e \in g.handles \ sl.handles : e.id > sl.dwP11ObjCnt
             /\ \E e \in g.handles : e.obj = o
             /\ g.dwP11ObjCnt >= sl.dwP11ObjCnt
        BY <3>3, <3>4, <3>3b, <1>1 DEF H
      <3> QED BY <3>4, <3>9, <3>10, <3>11, <1>2 DEF SlotSane, g
    <2> QED BY <2>1, <2>2
  <1> DEFINE h == CHOOSE e \in g.handles : e.obj = o
  <1>3. h \in g.handles
    BY <1>2
  <1>4. HandleOf(g, o) = h.id
    BY DEF HandleOf
  <1> QED BY <1>2, <1>3, <1>4 DEF SlotSane, HandlesSane, CSlot, Entry

-----------------------------------------------------------------------------
(* A search *)

\* f is a search in progress on the slot that was sl when it began.
SearchSane(f, sl, k) ==
    /\ SlotSane(f.slot, k)
    /\ f.slot.bUpdated = sl.bUpdated /\ f.slot.User = sl.User
    /\ f.slot.P11Objects = sl.P11Objects /\ f.slot.cie = sl.cie
    /\ f.slot.dwSessionCount = sl.dwSessionCount
    /\ f.slot.dwP11ObjCnt >= sl.dwP11ObjCnt
    /\ \A e \in f.slot.handles \ sl.handles : e.id > sl.dwP11ObjCnt
    /\ f.found \in Seq(Nat)
    /\ \A i \in 1 .. Len(f.found) : f.found[i] <= f.slot.dwP11ObjCnt

\* One round of FindObjectsInit's loop.
LEMMA VisitSane ==
    ASSUME NEW k \in Nat, NEW sl, SlotSane(sl, k), NEW f, SearchSane(f, sl, k),
           NEW c \in Class, NEW classes
    PROVE  SearchSane(VisitIf(f, c, classes), sl, k)
  <1> DEFINE O == {o \in f.slot.P11Objects : o.cls = c}
             o == CHOOSE x \in O : TRUE
             g == GetIDFromObject(f.slot, o)
             skip == O = {} \/ (c = "private" /\ f.slot.User # "USER")
  <1>1. CASE c \notin classes \/ skip
    BY <1>1 DEF VisitIf, Visit
  <1>2. CASE c \in classes /\ ~skip
    <2>1. o \in f.slot.P11Objects /\ o.cls = c
      BY <1>2
    <2>2. IsPrivate(o) => f.slot.User = "USER"
      BY <1>2, <2>1 DEF IsPrivate
    <2>3. VisitIf(f, c, classes)
            = [slot |-> g, found |-> Append(f.found, HandleOf(g, o))]
      BY <1>2 DEF VisitIf, Visit
    <2> HIDE DEF o
    <2>4. /\ SlotSane(g, k)
          /\ g.bUpdated = f.slot.bUpdated /\ g.User = f.slot.User
          /\ g.P11Objects = f.slot.P11Objects /\ g.cie = f.slot.cie
          /\ g.dwSessionCount = f.slot.dwSessionCount
          /\ g.dwP11ObjCnt >= f.slot.dwP11ObjCnt
          /\ \A e \in g.handles \ f.slot.handles : e.id > f.slot.dwP11ObjCnt
          /\ HandleOf(g, o) \in Nat /\ HandleOf(g, o) <= g.dwP11ObjCnt
      BY <2>1, <2>2, GetIDFromObjectSane DEF SearchSane
    <2> HIDE DEF g
    <2> DEFINE r == Append(f.found, HandleOf(g, o))
    <2>5. /\ g.dwP11ObjCnt \in Nat /\ f.slot.dwP11ObjCnt \in Nat
          /\ sl.dwP11ObjCnt \in Nat
          /\ \A e \in g.handles : e.id \in Nat
      BY <2>4 DEF SearchSane, SlotSane, CSlot, Entry
    <2>6. /\ r \in Seq(Nat)
          /\ \A i \in 1 .. Len(r) : r[i] <= g.dwP11ObjCnt
      <3>1. PICK v \in Nat : v = HandleOf(g, o) /\ v <= g.dwP11ObjCnt
        BY <2>4
      <3>2. /\ f.found \in Seq(Nat)
            /\ \A i \in 1 .. Len(f.found) :
                  f.found[i] \in Nat /\ f.found[i] <= f.slot.dwP11ObjCnt
        BY DEF SearchSane
      <3>3. \A i \in 1 .. Len(f.found) : f.found[i] <= g.dwP11ObjCnt
        BY <2>4, <2>5, <3>2
      <3>4. /\ r = Append(f.found, v) /\ r \in Seq(Nat)
            /\ Len(r) = Len(f.found) + 1 /\ r[Len(r)] = v
            /\ \A i \in 1 .. Len(f.found) : r[i] = f.found[i]
        BY <3>1, <3>2
      <3> HIDE DEF r
      <3>5. ASSUME NEW i \in 1 .. Len(r) PROVE r[i] <= g.dwP11ObjCnt
        <4>1. i \in 1 .. Len(f.found) \/ i = Len(r)
          BY <3>2, <3>4, <3>5
        <4> QED BY <3>1, <3>3, <3>4, <4>1
      <3> QED BY <3>4, <3>5
    <2>7. /\ g.dwP11ObjCnt >= sl.dwP11ObjCnt
          /\ \A e \in g.handles \ sl.handles : e.id > sl.dwP11ObjCnt
      BY <2>4, <2>5 DEF SearchSane
    <2> QED BY <2>3, <2>4, <2>6, <2>7 DEF SearchSane
  <1> QED BY <1>1, <1>2

\* A whole search.
LEMMA FindAllSane ==
    ASSUME NEW k \in Nat, NEW sl, SlotSane(sl, k), NEW classes
    PROVE  SearchSane(FindAll(sl, classes), sl, k)
  <1> DEFINE f0 == [slot |-> sl, found |-> <<>>]
             f1 == VisitIf(f0, "public", classes)
             f2 == VisitIf(f1, "private", classes)
  <1>1. SearchSane(f0, sl, k)
    BY DEF SearchSane, SlotSane, CSlot
  <1>2. SearchSane(f1, sl, k)
    BY <1>1, VisitSane DEF Class
  <1>3. SearchSane(f2, sl, k)
    BY <1>2, VisitSane DEF Class
  <1>4. SearchSane(VisitIf(f2, "cert", classes), sl, k)
    BY <1>3, VisitSane DEF Class
  <1> QED BY <1>4 DEF FindAll

-----------------------------------------------------------------------------
(* The inductive invariant *)

\* What relates a slot to its sessions.
SlotInv(s) ==
    /\ SlotSane(slot[s], inits)
    /\ slot[s].dwSessionCount = Cardinality(SessionsOn(s))
    /\ SessionsOn(s) # {} =>
          bP11Initialized /\ slot[s].bUpdated /\ slot[s].cie.init
    /\ slot[s].User # "NOBODY" => SessionsOn(s) # {}
    /\ slot[s].User = "SO" => \A h \in SessionsOn(s) : g_mSessions[h].rw
    /\ \A h \in SessionsOn(s) :
          \A i \in 1 .. Len(g_mSessions[h].findResult) :
             g_mSessions[h].findResult[i] <= slot[s].dwP11ObjCnt

IInv == TypeOK /\ \A s \in Slots : SlotInv(s)

\* A slot has finitely many sessions.
LEMMA SessionsFinite ==
    ASSUME TypeOK, NEW s
    PROVE  IsFiniteSet(SessionsOn(s)) /\ IsFiniteSet(DOMAIN g_mSessions)
  <1>1. IsFiniteSet(1 .. dwSessionCnt)
    BY FS_Interval DEF TypeOK
  <1>2. DOMAIN g_mSessions \subseteq 1 .. dwSessionCnt
    BY DEF TypeOK
  <1>3. SessionsOn(s) \subseteq DOMAIN g_mSessions
    BY DEF SessionsOn
  <1> QED BY <1>1, <1>2, <1>3, FS_Subset

\* A step that leaves a slot and its sessions alone keeps SlotInv of it.
LEMMA Frame ==
    ASSUME IInv, NEW t \in Slots, slot'[t] = slot[t],
           SessionsOn(t)' = SessionsOn(t),
           \A h \in SessionsOn(t) : g_mSessions'[h] = g_mSessions[h],
           inits' \in Nat, inits <= inits',
           bP11Initialized => bP11Initialized'
    PROVE  SlotInv(t)'
  <1>1. inits \in Nat /\ SlotInv(t)
    BY DEF IInv, TypeOK
  <1>2. SlotSane(slot[t], inits')
    BY <1>1, SaneMonotone DEF SlotInv
  <1> QED BY <1>1, <1>2 DEF SlotInv

\* A step that changes one slot and no session.
LEMMA SlotStep ==
    ASSUME IInv, NEW s \in Slots, NEW n,
           slot' = [slot EXCEPT ![s] = n], SlotSane(n, inits),
           n.dwSessionCount = slot[s].dwSessionCount,
           n.dwP11ObjCnt >= slot[s].dwP11ObjCnt,
           SessionsOn(s) # {} => n.bUpdated /\ n.cie.init,
           n.User # "NOBODY" => SessionsOn(s) # {},
           n.User = "SO" => \A h \in SessionsOn(s) : g_mSessions[h].rw,
           UNCHANGED <<bP11Initialized, card, monitorVars, g_mSessions, inits>>,
           dwSessionCnt' \in Nat, dwSessionCnt <= dwSessionCnt'
    PROVE  IInv'
  <1>1. TypeOK /\ SlotInv(s) /\ slot \in [Slots -> CSlot] /\ n \in CSlot
    BY DEF IInv, TypeOK, SlotSane
  <1>2. slot' \in [Slots -> CSlot] /\ slot'[s] = n
    BY <1>1
  <1>3. TypeOK'
    BY <1>1, <1>2 DEF TypeOK, monitorVars
  <1>4. \A t : SessionsOn(t)' = SessionsOn(t)
    BY DEF SessionsOn
  <1>5. SlotInv(s)'
    <2>1. \A h \in SessionsOn(s) :
             \A i \in 1 .. Len(g_mSessions[h].findResult) :
                g_mSessions[h].findResult[i] <= n.dwP11ObjCnt
      <3>1. n.dwP11ObjCnt \in Nat /\ slot[s].dwP11ObjCnt \in Nat
        BY <1>1 DEF CSlot
      <3> SUFFICES ASSUME NEW h \in SessionsOn(s),
                          NEW i \in 1 .. Len(g_mSessions[h].findResult)
                   PROVE  g_mSessions[h].findResult[i] <= n.dwP11ObjCnt
        OBVIOUS
      <3>2. g_mSessions[h].findResult \in Seq(Nat)
        BY <1>1 DEF TypeOK, SessionsOn, CSession
      <3>3. g_mSessions[h].findResult[i] \in Nat
        BY <3>2
      <3>4. g_mSessions[h].findResult[i] <= slot[s].dwP11ObjCnt
        BY <1>1 DEF SlotInv
      <3> QED BY <3>1, <3>3, <3>4
    <2> QED BY <1>1, <1>2, <1>4, <2>1 DEF SlotInv
  <1>6. ASSUME NEW t \in Slots, t # s PROVE SlotInv(t)'
    <2>1. slot'[t] = slot[t]
      BY <1>1, <1>6
    <2> QED BY <1>1, <1>4, <2>1, Frame DEF TypeOK
  <1> QED BY <1>3, <1>5, <1>6 DEF IInv

\* A step that takes sessions of one slot away and changes that slot.
LEMMA CloseStep ==
    ASSUME IInv, NEW s \in Slots, NEW n, NEW H \in SUBSET SessionsOn(s),
           slot' = [slot EXCEPT ![s] = n], SlotSane(n, inits),
           g_mSessions' = WithoutSessions(H),
           n.dwSessionCount = slot[s].dwSessionCount - Cardinality(H),
           n.dwP11ObjCnt = slot[s].dwP11ObjCnt,
           H # SessionsOn(s) => n.bUpdated /\ n.cie.init,
           H = SessionsOn(s) => n.User = "NOBODY",
           n.User \in {slot[s].User, "NOBODY"},
           UNCHANGED <<bP11Initialized, card, monitor, dwSessionCnt, inits>>,
           seen' \in [Slots -> BOOLEAN],
           event' \in [Slots -> {"idle", "inserted", "removed"}]
    PROVE  IInv'
  <1>1. TypeOK /\ SlotInv(s) /\ slot \in [Slots -> CSlot] /\ n \in CSlot
    BY DEF IInv, TypeOK, SlotSane
  <1>2. slot' \in [Slots -> CSlot] /\ slot'[s] = n
    BY <1>1
  <1>3. /\ DOMAIN g_mSessions' = DOMAIN g_mSessions \ H
        /\ \A h \in DOMAIN g_mSessions' : g_mSessions'[h] = g_mSessions[h]
        /\ g_mSessions' \in [DOMAIN g_mSessions' -> CSession]
    BY <1>1 DEF WithoutSessions, TypeOK
  <1>4. TypeOK'
    BY <1>1, <1>2, <1>3 DEF TypeOK
  <1>5. SessionsOn(s)' = SessionsOn(s) \ H
    BY <1>3 DEF SessionsOn
  <1>6. IsFiniteSet(SessionsOn(s)) /\ IsFiniteSet(H)
    BY <1>1, SessionsFinite, FS_Subset
  <1>7. Cardinality(SessionsOn(s)') = Cardinality(SessionsOn(s)) - Cardinality(H)
    <2>1. SessionsOn(s) \cap H = H
      OBVIOUS
    <2>2. Cardinality(SessionsOn(s) \ H)
            = Cardinality(SessionsOn(s)) - Cardinality(SessionsOn(s) \cap H)
      BY <1>6, FS_Difference
    <2> QED BY <1>5, <2>1, <2>2
  <1>8. SlotInv(s)'
    <2>1. n.dwSessionCount = Cardinality(SessionsOn(s)')
      BY <1>1, <1>7 DEF SlotInv
    <2>2. \A h \in SessionsOn(s)' : h \in SessionsOn(s) /\ h \in DOMAIN g_mSessions'
      BY <1>3, <1>5 DEF SessionsOn
    <2>3. \A h \in SessionsOn(s)' : g_mSessions'[h] = g_mSessions[h]
      BY <1>3, <2>2
    <2>4. SessionsOn(s)' # {} =>
             bP11Initialized /\ n.bUpdated /\ n.cie.init
      BY <1>1, <1>5, <2>2 DEF SlotInv
    <2>5. n.User # "NOBODY" => SessionsOn(s)' # {}
      BY <1>5
    <2>6. n.User = "SO" => \A h \in SessionsOn(s)' : g_mSessions'[h].rw
      BY <1>1, <2>2, <2>3 DEF SlotInv
    <2>7. \A h \in SessionsOn(s)' :
             \A i \in 1 .. Len(g_mSessions'[h].findResult) :
                g_mSessions'[h].findResult[i] <= n.dwP11ObjCnt
      BY <1>1, <2>2, <2>3 DEF SlotInv
    <2> QED BY <1>2, <2>1, <2>4, <2>5, <2>6, <2>7 DEF SlotInv
  <1>9. ASSUME NEW t \in Slots, t # s PROVE SlotInv(t)'
    <2>1. slot'[t] = slot[t]
      BY <1>1, <1>9
    <2>2. SessionsOn(t)' = SessionsOn(t)
      BY <1>3, <1>9 DEF SessionsOn
    <2>3. \A h \in SessionsOn(t) : g_mSessions'[h] = g_mSessions[h]
      BY <1>3, <2>2 DEF SessionsOn
    <2> QED BY <1>1, <2>1, <2>2, <2>3, Frame DEF TypeOK
  <1> QED BY <1>4, <1>8, <1>9 DEF IInv

\* A step that changes sessions' searches only, or also gives out handles.
LEMMA SearchStep ==
    ASSUME IInv, NEW h \in DOMAIN g_mSessions, NEW s \in Slots, s = SlotOf(h),
           NEW n, NEW b \in BOOLEAN, NEW r \in Seq(Nat),
           slot' = [slot EXCEPT ![s] = n], SlotSane(n, inits),
           n.bUpdated = slot[s].bUpdated,
           n.User = slot[s].User, n.cie = slot[s].cie,
           n.dwSessionCount = slot[s].dwSessionCount,
           n.dwP11ObjCnt >= slot[s].dwP11ObjCnt,
           \A i \in 1 .. Len(r) : r[i] <= n.dwP11ObjCnt,
           g_mSessions' = [g_mSessions EXCEPT ![h].bFindInit = b,
                                              ![h].findResult = r],
           UNCHANGED <<bP11Initialized, card, monitorVars, dwSessionCnt, inits>>
    PROVE  IInv'
  <1>1. /\ TypeOK /\ slot \in [Slots -> CSlot] /\ n \in CSlot
        /\ g_mSessions \in [DOMAIN g_mSessions -> CSession]
    BY DEF IInv, TypeOK, SlotSane
  <1>2. s = g_mSessions[h].slot
    BY DEF SlotOf
  <1>3. SlotInv(s)
    BY DEF IInv
  <1>4. slot' \in [Slots -> CSlot] /\ slot'[s] = n
    BY <1>1, <1>2
  <1>5. /\ DOMAIN g_mSessions' = DOMAIN g_mSessions
        /\ g_mSessions' \in [DOMAIN g_mSessions -> CSession]
        /\ g_mSessions'[h].findResult = r
        /\ \A x \in DOMAIN g_mSessions : x # h => g_mSessions'[x] = g_mSessions[x]
        /\ \A x \in DOMAIN g_mSessions :
              /\ g_mSessions'[x].slot = g_mSessions[x].slot
              /\ g_mSessions'[x].rw = g_mSessions[x].rw
    BY <1>1 DEF CSession
  <1>6. TypeOK'
    BY <1>1, <1>4, <1>5 DEF TypeOK, monitorVars
  <1>7. \A t : SessionsOn(t)' = SessionsOn(t)
    BY <1>5 DEF SessionsOn
  <1>8. SlotInv(s)'
    <2>1. n.dwP11ObjCnt \in Nat /\ slot[s].dwP11ObjCnt \in Nat
      BY <1>1, <1>2 DEF CSlot
    <2>2. \A x \in SessionsOn(s) :
             \A i \in 1 .. Len(g_mSessions'[x].findResult) :
                g_mSessions'[x].findResult[i] <= n.dwP11ObjCnt
      <3> SUFFICES ASSUME NEW x \in SessionsOn(s),
                          NEW i \in 1 .. Len(g_mSessions'[x].findResult)
                   PROVE  g_mSessions'[x].findResult[i] <= n.dwP11ObjCnt
        OBVIOUS
      <3>1. CASE x = h
        BY <3>1, <1>5
      <3>2. CASE x # h
        <4>1. x \in DOMAIN g_mSessions /\ g_mSessions'[x] = g_mSessions[x]
          BY <3>2, <1>5 DEF SessionsOn
        <4>2. g_mSessions[x].findResult \in Seq(Nat)
          BY <4>1, <1>1 DEF CSession
        <4>3. i \in 1 .. Len(g_mSessions[x].findResult)
          BY <4>1
        <4>4. g_mSessions[x].findResult[i] <= slot[s].dwP11ObjCnt
          BY <4>3, <1>3 DEF SlotInv
        <4>5. g_mSessions[x].findResult[i] \in Nat
          BY <4>2, <4>3
        <4> QED BY <4>1, <4>4, <4>5, <2>1
      <3> QED BY <3>1, <3>2
    <2>3. \A x \in SessionsOn(s) : g_mSessions'[x].rw = g_mSessions[x].rw
      BY <1>5 DEF SessionsOn
    <2> QED BY <1>3, <1>4, <1>7, <2>2, <2>3 DEF SlotInv
  <1>9. ASSUME NEW t \in Slots, t # s PROVE SlotInv(t)'
    <2>1. slot'[t] = slot[t]
      BY <1>1, <1>9
    <2>2. \A x \in SessionsOn(t) : g_mSessions'[x] = g_mSessions[x]
      BY <1>2, <1>5, <1>9 DEF SessionsOn
    <2>3. /\ inits' \in Nat /\ inits <= inits'
          /\ bP11Initialized => bP11Initialized'
      BY <1>1 DEF TypeOK
    <2>4. SessionsOn(t)' = SessionsOn(t)
      BY <1>7
    <2> QED BY <2>1, <2>2, <2>3, <2>4, Frame
  <1> QED BY <1>6, <1>8, <1>9 DEF IInv

\* C_OpenSession keeps the invariant, whichever way it ends.
LEMMA OpenSessionStep ==
    ASSUME IInv, NEW s \in Slots, NEW rw \in BOOLEAN, NEW io, NEW io2,
           C_OpenSession(s, rw, io, io2)
    PROVE  IInv'
  <1> DEFINE rv == OpenSessionResult(s, rw, io, io2)
             m == SlotInit(slot[s], card[s], io)
             n == InitSession(m, card[s], inits + 1)
             h == dwSessionCnt + 1
  <1>1. /\ TypeOK /\ SlotInv(s) /\ slot \in [Slots -> CSlot]
        /\ card[s] \in CardOrNone /\ inits \in Nat /\ dwSessionCnt \in Nat
        /\ g_mSessions \in [DOMAIN g_mSessions -> CSession]
        /\ DOMAIN g_mSessions \subseteq 1 .. dwSessionCnt
    BY DEF IInv, TypeOK
  <1>2. SlotSane(slot[s], inits)
    BY <1>1 DEF SlotInv
  <1>3. /\ SlotSane(m, inits) /\ m.dwSessionCount = slot[s].dwSessionCount
        /\ m.User = slot[s].User /\ m.P11Objects = slot[s].P11Objects
        /\ m.handles = slot[s].handles
        /\ m.dwP11ObjCnt = slot[s].dwP11ObjCnt
        /\ slot[s].bUpdated => m = slot[s]
    BY <1>1, <1>2, SlotInitSane
  <1>4. SessionsOn(s) # {} => m.bUpdated /\ m.cie.init
    BY <1>1, <1>3 DEF SlotInv
  <1>5. CASE rv # "CKR_OK"
    <2>1. /\ slot' = [slot EXCEPT ![s] = m]
          /\ UNCHANGED <<bP11Initialized, card, monitorVars, g_mSessions, inits>>
          /\ dwSessionCnt' \in {dwSessionCnt, h}
      BY <1>5 DEF C_OpenSession, sessionVars, GetNewSessionID
    <2>2. dwSessionCnt' \in Nat /\ dwSessionCnt <= dwSessionCnt'
      BY <1>1, <2>1
    <2>3. m.dwP11ObjCnt >= slot[s].dwP11ObjCnt
      BY <1>1, <1>3 DEF CSlot
    <2> HIDE DEF m
    <2> QED BY <1>1, <1>3, <1>4, <2>1, <2>2, <2>3, SlotStep DEF SlotInv
  <1>6. CASE rv = "CKR_OK"
    <2> DEFINE n1 == [n EXCEPT !.dwSessionCount = @ + 1]
    <2>1. /\ bP11Initialized /\ (rw \/ ~ExistsSO_RW(s)) /\ m.bUpdated
          /\ InitSessionWorks(m, card[s], io2)
          /\ dwSessionCnt' = h
          /\ inits' = IF m.cie.init THEN inits ELSE inits + 1
          /\ slot' = [slot EXCEPT ![s] = n1]
          /\ g_mSessions' = [k \in DOMAIN g_mSessions \cup {h} |->
                                IF k = h THEN NewSession(s, rw)
                                ELSE g_mSessions[k]]
          /\ UNCHANGED <<bP11Initialized, card, monitorVars>>
      BY <1>6 DEF C_OpenSession, OpenSessionResult, GetNewSessionID
    <2> HIDE DEF m
    <2>2. /\ SlotSane(n, inits') /\ n.bUpdated /\ n.cie.init
          /\ n.dwSessionCount = m.dwSessionCount /\ n.User = m.User
          /\ n.dwP11ObjCnt = m.dwP11ObjCnt
      <3>1. CASE m.cie.init
        BY <3>1, <2>1, <1>3 DEF InitSession
      <3>2. CASE ~m.cie.init
        <4>1. card[s] \in Cards
          BY <3>2, <2>1, SlotSessionsAssumption DEF InitSessionWorks
        <4>2. n.dwP11ObjCnt = m.dwP11ObjCnt
          BY <3>2, <1>3 DEF InitSession, SlotSane, CSlot
        <4> QED BY <3>2, <4>1, <4>2, <2>1, <1>1, <1>3, InitSessionSane
      <3> QED BY <3>1, <3>2
    <2> HIDE DEF n
    <2>3. inits' \in Nat /\ inits <= inits'
      BY <1>1, <2>1
    <2>4. n \in CSlot /\ n.dwSessionCount \in Int
      BY <2>2 DEF SlotSane, CSlot
    <2> DEFINE c1 == n.dwSessionCount + 1
    <2>5. c1 \in Int
      BY <2>4
    <2>6. n1 = [n EXCEPT !.dwSessionCount = c1]
      OBVIOUS
    <2> HIDE DEF n1, c1
    <2>7. /\ n1 \in CSlot /\ n1.dwSessionCount = c1
          /\ n1.bUpdated = n.bUpdated /\ n1.pTemplate = n.pTemplate
          /\ n1.User = n.User /\ n1.cie = n.cie
          /\ n1.P11Objects = n.P11Objects /\ n1.handles = n.handles
          /\ n1.dwP11ObjCnt = n.dwP11ObjCnt
      BY <2>4, <2>5, <2>6 DEF CSlot
    <2>8. SlotSane(n1, inits')
      <3>1. HandlesSane(n1, inits')
        BY <2>2, <2>7 DEF SlotSane, HandlesSane
      <3>2. TokenSane(n1)
        BY <2>2, <2>7 DEF SlotSane, TokenSane
      <3> QED BY <2>7, <3>1, <3>2 DEF SlotSane
    <2>9. h \notin DOMAIN g_mSessions /\ h \in Nat
      BY <1>1
    <2>10. NewSession(s, rw) \in CSession
      BY DEF NewSession, CSession
    <2>11. /\ DOMAIN g_mSessions' = DOMAIN g_mSessions \cup {h}
           /\ g_mSessions' \in [DOMAIN g_mSessions' -> CSession]
           /\ g_mSessions'[h] = NewSession(s, rw)
           /\ \A x \in DOMAIN g_mSessions : g_mSessions'[x] = g_mSessions[x]
      BY <1>1, <2>1, <2>9, <2>10
    <2>12. slot' \in [Slots -> CSlot] /\ slot'[s] = n1
      BY <1>1, <2>1, <2>7
    <2>13. TypeOK'
      BY <1>1, <2>1, <2>3, <2>11, <2>12 DEF TypeOK, monitorVars
    <2>14. SessionsOn(s)' = SessionsOn(s) \cup {h}
      BY <2>11 DEF SessionsOn, NewSession
    <2>15. Cardinality(SessionsOn(s)') = Cardinality(SessionsOn(s)) + 1
      <3>1. h \notin SessionsOn(s) /\ IsFiniteSet(SessionsOn(s))
        BY <1>1, <2>9, SessionsFinite DEF SessionsOn
      <3>2. Cardinality(SessionsOn(s) \cup {h}) = Cardinality(SessionsOn(s)) + 1
        BY <3>1, FS_AddElement
      <3> QED BY <2>14, <3>2
    <2>16. SlotInv(s)'
      <3>1. n1.dwSessionCount = Cardinality(SessionsOn(s)')
        BY <1>1, <1>3, <2>2, <2>7, <2>15 DEF SlotInv, c1
      <3>2. n1.User = "SO" => \A x \in SessionsOn(s)' : g_mSessions'[x].rw
        <4> SUFFICES ASSUME n1.User = "SO", NEW x \in SessionsOn(s)'
                     PROVE  g_mSessions'[x].rw
          OBVIOUS
        <4>1. slot[s].User = "SO"
          BY <1>3, <2>2, <2>7
        <4>2. \A y \in SessionsOn(s) : g_mSessions[y].rw
          BY <1>1, <4>1 DEF SlotInv
        <4>3. ExistsSO_RW(s)
          BY <1>1, <4>1, <4>2 DEF SlotInv, ExistsSO_RW
        <4>4. CASE x = h
          BY <4>3, <4>4, <2>1, <2>11 DEF NewSession
        <4>5. CASE x # h
          BY <4>2, <4>5, <2>11, <2>14 DEF SessionsOn
        <4> QED BY <4>4, <4>5
      <3>3. \A x \in SessionsOn(s)' :
               \A i \in 1 .. Len(g_mSessions'[x].findResult) :
                  g_mSessions'[x].findResult[i] <= n1.dwP11ObjCnt
        <4> SUFFICES ASSUME NEW x \in SessionsOn(s)',
                            NEW i \in 1 .. Len(g_mSessions'[x].findResult)
                     PROVE  g_mSessions'[x].findResult[i] <= n1.dwP11ObjCnt
          OBVIOUS
        <4>1. CASE x = h
          BY <4>1, <2>11 DEF NewSession
        <4>2. CASE x # h
          <5>1. x \in SessionsOn(s) /\ g_mSessions'[x] = g_mSessions[x]
            BY <4>2, <2>11, <2>14 DEF SessionsOn
          <5> QED BY <5>1, <1>1, <1>3, <2>2, <2>7 DEF SlotInv
        <4> QED BY <4>1, <4>2
      <3> QED BY <2>1, <2>2, <2>7, <2>8, <2>12, <2>14, <3>1, <3>2, <3>3
             DEF SlotInv
    <2>17. ASSUME NEW t \in Slots, t # s PROVE SlotInv(t)'
      <3>1. slot'[t] = slot[t]
        BY <1>1, <2>1, <2>17
      <3>2. SessionsOn(t)' = SessionsOn(t)
        BY <2>11, <2>9, <2>17 DEF SessionsOn, NewSession
      <3>3. \A x \in SessionsOn(t) : g_mSessions'[x] = g_mSessions[x]
        BY <2>11 DEF SessionsOn
      <3> QED BY <2>1, <2>3, <3>1, <3>2, <3>3, Frame
    <2> QED BY <2>13, <2>16, <2>17 DEF IInv
  <1> QED BY <1>5, <1>6

\* C_CloseSession, C_CloseAllSessions: n sessions H of the slot are deleted.
LEMMA DeleteStep ==
    ASSUME IInv, NEW s \in Slots, NEW H \in SUBSET SessionsOn(s),
           H = SessionsOn(s) \/ H # {},
           slot' = [slot EXCEPT ![s] = DropSessions(slot[s], Cardinality(H))],
           g_mSessions' = WithoutSessions(H),
           UNCHANGED <<bP11Initialized, card, monitorVars, dwSessionCnt, inits>>
    PROVE  IInv'
  <1> DEFINE c == Cardinality(H)
             n == DropSessions(slot[s], c)
  <1>1. TypeOK /\ SlotInv(s) /\ inits \in Nat /\ SlotSane(slot[s], inits)
    BY DEF IInv, TypeOK, SlotInv
  <1>2. IsFiniteSet(H) /\ IsFiniteSet(SessionsOn(s))
    BY <1>1, SessionsFinite, FS_Subset
  <1>3. c \in Nat /\ (c = 0 <=> H = {})
    BY <1>2, FS_CardinalityType, FS_EmptySet
  <1> HIDE DEF c
  <1>4. /\ SlotSane(n, inits) /\ n.bUpdated = slot[s].bUpdated
        /\ n.P11Objects = slot[s].P11Objects
        /\ n.dwSessionCount = slot[s].dwSessionCount - c
        /\ n.dwP11ObjCnt = slot[s].dwP11ObjCnt
        /\ n.User \in {slot[s].User, "NOBODY"}
        /\ c > 0 /\ slot[s].dwSessionCount = c => n.User = "NOBODY"
        /\ c = 0 => n.User = slot[s].User
    <2>1. PICK k \in Nat : k = inits
      BY <1>1
    <2>2. PICK sl : sl = slot[s]
      OBVIOUS
    <2>3. SlotSane(sl, k)
      BY <1>1, <2>1, <2>2
    <2> DEFINE m == DropSessions(sl, c)
    <2>5. /\ SlotSane(m, k) /\ m.bUpdated = sl.bUpdated
          /\ m.P11Objects = sl.P11Objects
          /\ m.dwSessionCount = sl.dwSessionCount - c
          /\ m.dwP11ObjCnt = sl.dwP11ObjCnt
          /\ m.User \in {sl.User, "NOBODY"}
          /\ c > 0 /\ sl.dwSessionCount = c => m.User = "NOBODY"
          /\ c = 0 => m.User = sl.User
      BY <1>3, <2>3, DropSessionsSane
    <2>6. n = m
      BY <2>2
    <2> HIDE DEF m
    <2> QED BY <2>1, <2>2, <2>5, <2>6, Zenon
  <1> HIDE DEF n
  <1>5. H # SessionsOn(s) => n.bUpdated /\ n.cie.init
    <2>1. n.cie.init <=> n.P11Objects # {}
      BY <1>4 DEF SlotSane, TokenSane
    <2>2. slot[s].cie.init <=> slot[s].P11Objects # {}
      BY <1>1 DEF SlotSane, TokenSane
    <2>3. H # SessionsOn(s) => slot[s].bUpdated /\ slot[s].cie.init
      BY <1>1 DEF SlotInv
    <2> QED BY <1>4, <2>1, <2>2, <2>3
  <1>6. H = SessionsOn(s) => n.User = "NOBODY"
    <2>1. H = SessionsOn(s) => slot[s].dwSessionCount = c
      BY <1>1 DEF SlotInv, c
    <2>2. H = {} /\ H = SessionsOn(s) => slot[s].User = "NOBODY"
      BY <1>1 DEF SlotInv
    <2> QED BY <1>3, <1>4, <2>1, <2>2
  <1>7. /\ seen' \in [Slots -> BOOLEAN]
        /\ event' \in [Slots -> {"idle", "inserted", "removed"}]
        /\ monitor' = monitor
    BY <1>1 DEF TypeOK, monitorVars
  <1>8. slot' = [slot EXCEPT ![s] = n] /\ c = Cardinality(H)
    BY DEF n, c
  <1> QED BY <1>4, <1>5, <1>6, <1>7, <1>8, CloseStep DEF monitorVars

\* C_Login, whichever way it ends.
LEMMA LoginStep ==
    ASSUME IInv, NEW h \in DOMAIN g_mSessions, NEW u \in {"USER", "SO"},
           NEW right \in BOOLEAN, NEW io, C_Login(h, u, right, io)
    PROVE  IInv'
  <1>1. PICK s \in Slots : s = SlotOf(h) /\ h \in SessionsOn(s)
    BY DEF IInv, TypeOK, CSession, SlotOf, SessionsOn
  <1>2. TypeOK /\ SlotInv(s) /\ inits \in Nat /\ SlotSane(slot[s], inits)
    BY DEF IInv, TypeOK, SlotInv
  <1>3. slot[s].User = "NOBODY" /\ (u = "SO" => ~ExistsRO(s))
    BY <1>1 DEF C_Login, LoginRefused
  <1>4. PICK v \in {u, "NOBODY"} :
           /\ slot' = [slot EXCEPT ![s].cie.userType = v, ![s].User = v]
           /\ UNCHANGED <<bP11Initialized, card, monitorVars, sessionVars, inits>>
    BY <1>1, <1>3 DEF C_Login
  <1> DEFINE n == [slot[s] EXCEPT !.cie.userType = v, !.User = v]
  <1>5. slot' = [slot EXCEPT ![s] = n]
    BY <1>2, <1>4 DEF TypeOK, CSlot, CIEData
  <1>6. /\ n \in CSlot /\ n.User = v /\ n.cie.userType = v
        /\ n.cie.init = slot[s].cie.init /\ n.bUpdated = slot[s].bUpdated
        /\ n.pTemplate = slot[s].pTemplate
        /\ n.P11Objects = slot[s].P11Objects /\ n.handles = slot[s].handles
        /\ n.dwP11ObjCnt = slot[s].dwP11ObjCnt
        /\ n.dwSessionCount = slot[s].dwSessionCount
    BY <1>2 DEF SlotSane, CSlot, CIEData, UserType
  <1> HIDE DEF n
  <1>7. HandlesSane(n, inits)
    BY <1>2, <1>3, <1>6 DEF SlotSane, HandlesSane
  <1>8. TokenSane(n)
    <2>1. slot[s].bUpdated
      BY <1>1, <1>2 DEF SlotInv
    <2> QED BY <1>2, <1>6, <2>1 DEF SlotSane, TokenSane
  <1>9. SlotSane(n, inits)
    BY <1>6, <1>7, <1>8 DEF SlotSane
  <1>10. n.User = "SO" => \A x \in SessionsOn(s) : g_mSessions[x].rw
    BY <1>3, <1>6 DEF ExistsRO
  <1>11. n.dwP11ObjCnt >= slot[s].dwP11ObjCnt
    BY <1>2, <1>6 DEF SlotSane, CSlot
  <1>12. n.bUpdated /\ n.cie.init /\ SessionsOn(s) # {}
    BY <1>1, <1>2, <1>6 DEF SlotInv
  <1>13. dwSessionCnt' \in Nat /\ dwSessionCnt <= dwSessionCnt'
    BY <1>2, <1>4 DEF TypeOK, sessionVars
  <1> QED BY <1>4, <1>5, <1>6, <1>9, <1>10, <1>11, <1>12, <1>13, SlotStep
          DEF sessionVars

\* C_Logout.
LEMMA LogoutStep ==
    ASSUME IInv, NEW h \in DOMAIN g_mSessions, C_Logout(h)
    PROVE  IInv'
  <1>1. PICK s \in Slots : s = SlotOf(h) /\ h \in SessionsOn(s)
    BY DEF IInv, TypeOK, CSession, SlotOf, SessionsOn
  <1>2. TypeOK /\ SlotInv(s) /\ inits \in Nat /\ SlotSane(slot[s], inits)
    BY DEF IInv, TypeOK, SlotInv
  <1> DEFINE n == Logout(slot[s])
  <1>3. slot' = [slot EXCEPT ![s] = n]
    BY <1>1 DEF C_Logout
  <1>4. /\ SlotSane(n, inits) /\ n.User = "NOBODY"
        /\ n.bUpdated = slot[s].bUpdated
        /\ n.P11Objects = slot[s].P11Objects
        /\ n.dwSessionCount = slot[s].dwSessionCount
        /\ n.dwP11ObjCnt = slot[s].dwP11ObjCnt
    BY <1>2, LogoutSane
  <1> HIDE DEF n
  <1>5. n.bUpdated /\ n.cie.init
    BY <1>1, <1>2, <1>4 DEF SlotInv, SlotSane, TokenSane
  <1>6. n.dwP11ObjCnt >= slot[s].dwP11ObjCnt
    BY <1>4 DEF SlotSane, CSlot
  <1>7. dwSessionCnt' \in Nat /\ dwSessionCnt <= dwSessionCnt'
    BY <1>2 DEF C_Logout, TypeOK, sessionVars
  <1> QED BY <1>3, <1>4, <1>5, <1>6, <1>7, SlotStep DEF C_Logout, sessionVars

\* C_GetTokenInfo.
LEMMA TokenInfoStep ==
    ASSUME IInv, NEW s \in Slots, NEW io, NEW io2, C_GetTokenInfo(s, io, io2)
    PROVE  IInv'
  <1>1. /\ TypeOK /\ SlotInv(s) /\ inits \in Nat /\ SlotSane(slot[s], inits)
        /\ card[s] \in CardOrNone
    BY DEF IInv, TypeOK, SlotInv
  <1> DEFINE m == EnsureTemplate(slot[s], card[s], io)
             m1 == [m EXCEPT !.baSerial = card[s]]
  <1>2. /\ SlotSane(m, inits) /\ m.bUpdated = slot[s].bUpdated
        /\ m.User = slot[s].User /\ m.cie = slot[s].cie
        /\ m.dwSessionCount = slot[s].dwSessionCount
        /\ m.dwP11ObjCnt = slot[s].dwP11ObjCnt
    BY <1>1, EnsureTemplateSane
  <1>3. PICK n \in {m, m1} : slot' = [slot EXCEPT ![s] = n]
    BY DEF C_GetTokenInfo
  <1> HIDE DEF m
  <1>4. /\ SlotSane(n, inits) /\ n.bUpdated = m.bUpdated
        /\ n.User = m.User /\ n.cie = m.cie
        /\ n.dwSessionCount = m.dwSessionCount
        /\ n.dwP11ObjCnt = m.dwP11ObjCnt
    <2>1. CASE n = m
      BY <2>1, <1>2
    <2>2. CASE n = m1
      BY <2>2, <1>1, <1>2 DEF SlotSane, HandlesSane, TokenSane, CSlot
    <2> QED BY <1>3, <2>1, <2>2
  <1>5. n.dwP11ObjCnt >= slot[s].dwP11ObjCnt
    BY <1>2, <1>4 DEF SlotSane, CSlot
  <1>6. /\ SessionsOn(s) # {} => n.bUpdated /\ n.cie.init
        /\ n.User # "NOBODY" => SessionsOn(s) # {}
        /\ n.User = "SO" => \A h \in SessionsOn(s) : g_mSessions[h].rw
    BY <1>1, <1>2, <1>4 DEF SlotInv
  <1>7. dwSessionCnt' \in Nat /\ dwSessionCnt <= dwSessionCnt'
    BY <1>1 DEF C_GetTokenInfo, TypeOK, sessionVars
  <1>8. UNCHANGED <<bP11Initialized, card, monitorVars, g_mSessions, inits>>
    BY DEF C_GetTokenInfo, sessionVars
  <1>9. n.dwSessionCount = slot[s].dwSessionCount
    BY <1>2, <1>4
  <1> QED BY <1>3, <1>4, <1>5, <1>6, <1>7, <1>8, <1>9, SlotStep

\* C_CloseSession.
LEMMA CloseSessionStep ==
    ASSUME IInv, NEW h \in DOMAIN g_mSessions, C_CloseSession(h)
    PROVE  IInv'
  <1>1. PICK s \in Slots : s = SlotOf(h) /\ h \in SessionsOn(s)
    BY DEF IInv, TypeOK, CSession, SlotOf, SessionsOn
  <1>2. {h} \in SUBSET SessionsOn(s) /\ {h} # {} /\ Cardinality({h}) = 1
    BY <1>1, FS_Singleton
  <1>3. /\ slot' = [slot EXCEPT ![s] = DropSessions(slot[s], Cardinality({h}))]
        /\ g_mSessions' = WithoutSessions({h})
        /\ UNCHANGED <<bP11Initialized, card, monitorVars, dwSessionCnt, inits>>
    BY <1>1, <1>2 DEF C_CloseSession
  <1> QED BY <1>2, <1>3, DeleteStep

\* C_CloseAllSessions.
LEMMA CloseAllSessionsStep ==
    ASSUME IInv, NEW s \in Slots, C_CloseAllSessions(s)
    PROVE  IInv'
  <1> DEFINE H == SessionsOn(s)
  <1>1. /\ slot' = [slot EXCEPT ![s] = DropSessions(slot[s], Cardinality(H))]
        /\ g_mSessions' = WithoutSessions(H)
        /\ UNCHANGED <<bP11Initialized, card, monitorVars, dwSessionCnt, inits>>
    BY DEF C_CloseAllSessions
  <1> QED BY <1>1, DeleteStep

\* C_FindObjectsInit.
LEMMA FindObjectsInitStep ==
    ASSUME IInv, NEW h \in DOMAIN g_mSessions, NEW classes,
           C_FindObjectsInit(h, classes)
    PROVE  IInv'
  <1>1. PICK s \in Slots : s = SlotOf(h)
    BY DEF IInv, TypeOK, CSession, SlotOf
  <1>2. TypeOK /\ SlotInv(s) /\ inits \in Nat /\ SlotSane(slot[s], inits)
    BY DEF IInv, TypeOK, SlotInv
  <1> DEFINE f == FindAll(slot[s], classes)
  <1>3. SearchSane(f, slot[s], inits)
    BY <1>2, FindAllSane
  <1>4. /\ slot' = [slot EXCEPT ![s] = f.slot]
        /\ g_mSessions' = [g_mSessions EXCEPT ![h].bFindInit = TRUE,
                                              ![h].findResult = f.found]
        /\ UNCHANGED <<bP11Initialized, card, monitorVars, dwSessionCnt, inits>>
    BY <1>1 DEF C_FindObjectsInit
  <1> HIDE DEF f
  <1> QED BY <1>1, <1>3, <1>4, SearchStep DEF SearchSane

\* C_FindObjects.
LEMMA FindObjectsStep ==
    ASSUME IInv, NEW h \in DOMAIN g_mSessions, NEW k \in 1 .. 3,
           C_FindObjects(h, k)
    PROVE  IInv'
  <1>1. PICK s \in Slots : s = SlotOf(h) /\ h \in SessionsOn(s)
    BY DEF IInv, TypeOK, CSession, SlotOf, SessionsOn
  <1>2. /\ TypeOK /\ SlotInv(s) /\ SlotSane(slot[s], inits)
        /\ slot \in [Slots -> CSlot] /\ slot[s].dwP11ObjCnt \in Nat
        /\ g_mSessions \in [DOMAIN g_mSessions -> CSession]
        /\ g_mSessions[h] \in CSession
    BY DEF IInv, TypeOK, SlotInv, CSlot
  <1> DEFINE old == g_mSessions[h].findResult
             r == SubSeq(old, 1, Len(old) - k)
             b == g_mSessions[h].bFindInit
  <1>3. old \in Seq(Nat) /\ b \in BOOLEAN
    BY <1>2 DEF CSession
  <1>4. \A i \in 1 .. Len(old) : old[i] <= slot[s].dwP11ObjCnt
    BY <1>1, <1>2 DEF SlotInv
  <1>5. /\ g_mSessions' = [g_mSessions EXCEPT ![h].bFindInit = b,
                                              ![h].findResult = r]
        /\ slot' = slot
        /\ UNCHANGED <<bP11Initialized, card, monitorVars, dwSessionCnt, inits>>
    BY <1>2 DEF C_FindObjects, CSession
  <1> HIDE DEF old, b
  <1>6. /\ r \in Seq(Nat)
        /\ \A i \in 1 .. Len(r) : r[i] <= slot[s].dwP11ObjCnt
    BY <1>3, <1>4
  <1>7. slot' = [slot EXCEPT ![s] = slot[s]]
    BY <1>2, <1>5
  <1>8. slot[s].dwP11ObjCnt >= slot[s].dwP11ObjCnt
    BY <1>2
  <1> HIDE DEF r
  <1> QED BY <1>1, <1>2, <1>3, <1>5, <1>6, <1>7, <1>8, SearchStep

\* C_FindObjectsFinal.
LEMMA FindObjectsFinalStep ==
    ASSUME IInv, NEW h \in DOMAIN g_mSessions, C_FindObjectsFinal(h)
    PROVE  IInv'
  <1>1. PICK s \in Slots : s = SlotOf(h)
    BY DEF IInv, TypeOK, CSession, SlotOf
  <1>2. /\ SlotSane(slot[s], inits)
        /\ slot \in [Slots -> CSlot] /\ slot[s].dwP11ObjCnt \in Nat
    BY DEF IInv, TypeOK, SlotInv, CSlot
  <1>3. /\ slot' = [slot EXCEPT ![s] = slot[s]]
        /\ g_mSessions' = [g_mSessions EXCEPT ![h].bFindInit = FALSE,
                                              ![h].findResult = <<>>]
        /\ UNCHANGED <<bP11Initialized, card, monitorVars, dwSessionCnt, inits>>
    BY <1>2 DEF C_FindObjectsFinal
  <1>a. <<>> \in Seq(Nat)
    OBVIOUS
  <1>4. PICK r \in Seq(Nat) : r = <<>>
    BY <1>a, Zenon
  <1>5. \A i \in 1 .. Len(r) : r[i] <= slot[s].dwP11ObjCnt
    BY <1>4
  <1>6. slot[s].dwP11ObjCnt >= slot[s].dwP11ObjCnt
    BY <1>2
  <1> QED BY <1>1, <1>2, <1>3, <1>4, <1>5, <1>6, SearchStep

\* Steps that change neither slots nor sessions: C_Initialize, cards coming
\* and going, the monitor reading reader states or ending.
LEMMA OtherStep ==
    ASSUME IInv, UNCHANGED <<slot, sessionVars, inits>>, TypeOK',
           bP11Initialized => bP11Initialized'
    PROVE  IInv'
  <1> SUFFICES ASSUME NEW s \in Slots PROVE SlotInv(s)'
    BY DEF IInv
  <1>1. inits' \in Nat /\ inits <= inits'
    BY DEF IInv, TypeOK
  <1>2. slot'[s] = slot[s] /\ SessionsOn(s)' = SessionsOn(s)
    BY DEF SessionsOn, sessionVars
  <1>3. \A h \in SessionsOn(s) : g_mSessions'[h] = g_mSessions[h]
    BY DEF sessionVars
  <1> QED BY <1>1, <1>2, <1>3, Frame

\* The monitor's work on one reader.
LEMMA MonitorHandleStep ==
    ASSUME IInv, NEW s \in Slots, MonitorHandle(s)
    PROVE  IInv'
  <1>1. /\ TypeOK /\ SlotInv(s) /\ inits \in Nat /\ SlotSane(slot[s], inits)
        /\ card[s] \in CardOrNone /\ slot[s] \in CSlot
        /\ slot[s].dwSessionCount = Cardinality(SessionsOn(s))
        /\ slot[s].dwSessionCount \in Int
    BY DEF IInv, TypeOK, SlotInv, SlotSane, CSlot
  <1>2. /\ UNCHANGED <<bP11Initialized, card, monitor, dwSessionCnt, inits>>
        /\ seen' \in [Slots -> BOOLEAN]
        /\ event' \in [Slots -> {"idle", "inserted", "removed"}]
    BY <1>1 DEF MonitorHandle, TypeOK
  <1>3. CASE event[s] = "removed"
    <2> DEFINE n == [SlotFinal(slot[s]) EXCEPT !.baATR = NoCard]
               H == SessionsOn(s)
    <2>1. slot' = [slot EXCEPT ![s] = n]
      BY <1>3 DEF MonitorHandle
    <2>2. /\ SlotSane(n, inits) /\ n.User = "NOBODY"
          /\ n.dwSessionCount = IF slot[s].bUpdated THEN 0
                                ELSE slot[s].dwSessionCount
          /\ n.dwP11ObjCnt = slot[s].dwP11ObjCnt
      BY <1>1, SlotFinalSane
    <2>3. ~slot[s].bUpdated => H = {}
      BY <1>1 DEF SlotInv
    <2>4. H = {} => WithoutSessions(H) = g_mSessions /\ Cardinality(H) = 0
      BY <1>1, FS_EmptySet DEF WithoutSessions, TypeOK
    <2>5. g_mSessions' = WithoutSessions(H)
      BY <1>3, <2>3, <2>4 DEF MonitorHandle
    <2> HIDE DEF n
    <2>6. n.dwSessionCount = slot[s].dwSessionCount - Cardinality(H)
      BY <1>1, <2>2, <2>3, <2>4
    <2> QED BY <1>2, <2>1, <2>2, <2>5, <2>6, CloseStep
  <1>4. CASE event[s] = "inserted"
    <2> DEFINE n == GetATR(slot[s], card[s])
    <2>1. slot' = [slot EXCEPT ![s] = n] /\ g_mSessions' = g_mSessions
      BY <1>4 DEF MonitorHandle
    <2>2. SlotSane(n, inits)
      BY <1>1, GetATRSane
    <2>3. /\ n.User = slot[s].User /\ n.bUpdated = slot[s].bUpdated
          /\ n.cie = slot[s].cie
          /\ n.dwSessionCount = slot[s].dwSessionCount
          /\ n.dwP11ObjCnt = slot[s].dwP11ObjCnt
      BY <1>1 DEF GetATR, CSlot
    <2>4. WithoutSessions({}) = g_mSessions /\ Cardinality({}) = 0
      BY <1>1, FS_EmptySet DEF WithoutSessions, TypeOK
    <2> HIDE DEF n
    <2>5. n.dwSessionCount = slot[s].dwSessionCount - Cardinality({})
      BY <1>1, <2>3, <2>4
    <2>6. /\ {} # SessionsOn(s) => n.bUpdated /\ n.cie.init
          /\ {} = SessionsOn(s) => n.User = "NOBODY"
          /\ n.User \in {slot[s].User, "NOBODY"}
      BY <1>1, <2>3 DEF SlotInv
    <2> QED BY <1>2, <2>1, <2>2, <2>3, <2>4, <2>5, <2>6, CloseStep
  <1> QED BY <1>3, <1>4 DEF MonitorHandle

\* C_Finalize: no session is left and every slot is a new one.
LEMMA FinalizeStep ==
    ASSUME IInv, C_Finalize
    PROVE  IInv'
  <1>1. /\ DOMAIN g_mSessions' = {} /\ inits' = inits /\ inits \in Nat
        /\ dwSessionCnt' = dwSessionCnt
        /\ slot' = [s \in Slots |-> NewSlot]
    BY DEF C_Finalize, WithoutSessions, IInv, TypeOK
  <1>2. SlotSane(NewSlot, inits)
    BY <1>1, NewSlotSane
  <1>3. TypeOK'
    <2>1. g_mSessions' \in [DOMAIN g_mSessions' -> CSession]
      BY <1>1 DEF C_Finalize, WithoutSessions
    <2>2. slot' \in [Slots -> CSlot]
      BY <1>1, <1>2 DEF SlotSane
    <2>3. event' \in [Slots -> {"idle", "inserted", "removed"}]
      BY DEF C_Finalize, NoEvents
    <2> QED BY <1>1, <2>1, <2>2, <2>3 DEF IInv, TypeOK, C_Finalize
  <1>4. ASSUME NEW s \in Slots PROVE SlotInv(s)'
    <2>1. SessionsOn(s)' = {} /\ Cardinality({}) = 0
      BY <1>1, FS_EmptySet DEF SessionsOn
    <2>2. slot'[s] = NewSlot
      BY <1>1
    <2> QED BY <1>1, <1>2, <2>1, <2>2 DEF SlotInv, NewSlot
  <1> QED BY <1>3, <1>4 DEF IInv

\* The invariant holds of a library that was just loaded.
LEMMA InitInv == Init => IInv
  <1> SUFFICES ASSUME Init PROVE IInv
    OBVIOUS
  <1>1. SlotSane(NewSlot, 0)
    BY NewSlotSane
  <1>2. TypeOK
    <2>1. <<>> \in Seq(CSession) /\ DOMAIN <<>> = {}
      OBVIOUS
    <2>2. g_mSessions \in [DOMAIN g_mSessions -> CSession]
      BY <2>1 DEF Init
    <2>3. slot \in [Slots -> CSlot]
      BY <1>1 DEF Init, SlotSane
    <2> QED BY <2>1, <2>2, <2>3 DEF Init, TypeOK, NoEvents, CardOrNone
  <1>3. ASSUME NEW s \in Slots PROVE SlotInv(s)
    <2>1. SessionsOn(s) = {} /\ Cardinality({}) = 0
      BY FS_EmptySet DEF SessionsOn, Init
    <2>2. slot[s] = NewSlot /\ inits = 0
      BY DEF Init
    <2> QED BY <1>1, <2>1, <2>2 DEF SlotInv, NewSlot
  <1> QED BY <1>2, <1>3 DEF IInv

\* Every step of the library, of a card and of the monitor keeps the invariant.
LEMMA StepInv == IInv /\ [Next]_vars => IInv'
  <1> SUFFICES ASSUME IInv, [Next]_vars PROVE IInv'
    OBVIOUS
  <1>1. CASE C_Initialize
    <2>1. TypeOK'
      BY <1>1 DEF IInv, TypeOK, C_Initialize, sessionVars, Snapshot, Present,
                  NoEvents
    <2> QED BY <1>1, <2>1, OtherStep DEF C_Initialize
  <1>2. CASE C_Finalize
    BY <1>2, FinalizeStep
  <1>3. ASSUME NEW h \in DOMAIN g_mSessions, SessionCall(h) PROVE IInv'
    <2>1. CASE C_CloseSession(h)
      BY <2>1, CloseSessionStep
    <2>2. ASSUME NEW u \in {"USER", "SO"}, NEW right \in BOOLEAN,
                 NEW io \in CardAnswers, C_Login(h, u, right, io)
          PROVE  IInv'
      BY <2>2, LoginStep
    <2>3. CASE C_Logout(h)
      BY <2>3, LogoutStep
    <2>4. ASSUME NEW classes \in Search, C_FindObjectsInit(h, classes)
          PROVE  IInv'
      BY <2>4, FindObjectsInitStep
    <2>5. ASSUME NEW n \in 1 .. 3, C_FindObjects(h, n) PROVE IInv'
      BY <2>5, FindObjectsStep
    <2>6. CASE C_FindObjectsFinal(h)
      BY <2>6, FindObjectsFinalStep
    <2> QED BY <1>3, <2>1, <2>2, <2>3, <2>4, <2>5, <2>6 DEF SessionCall
  <1>4. ASSUME NEW s \in Slots, SlotCall(s) PROVE IInv'
    <2>1. ASSUME NEW rw \in BOOLEAN, NEW io \in CardAnswers,
                 NEW io2 \in CardAnswers, C_OpenSession(s, rw, io, io2)
          PROVE  IInv'
      BY <2>1, OpenSessionStep
    <2>2. CASE C_CloseAllSessions(s)
      BY <2>2, CloseAllSessionsStep
    <2>3. ASSUME NEW io \in CardAnswers, NEW io2 \in CardAnswers,
                 C_GetTokenInfo(s, io, io2)
          PROVE  IInv'
      BY <2>3, TokenInfoStep
    <2> QED BY <1>4, <2>1, <2>2, <2>3 DEF SlotCall
  <1>5. ASSUME NEW s \in Slots, Reader(s) PROVE IInv'
    <2>1. ASSUME NEW c \in Cards, InsertCard(s, c) PROVE IInv'
      <3>1. TypeOK'
        BY <2>1 DEF IInv, TypeOK, InsertCard, CardOrNone, monitorVars, sessionVars
      <3> QED BY <2>1, <3>1, OtherStep DEF InsertCard
    <2>2. CASE RemoveCard(s)
      <3>1. TypeOK'
        BY <2>2 DEF IInv, TypeOK, RemoveCard, CardOrNone, monitorVars, sessionVars
      <3> QED BY <2>2, <3>1, OtherStep DEF RemoveCard
    <2>3. CASE MonitorHandle(s)
      BY <2>3, MonitorHandleStep
    <2> QED BY <1>5, <2>1, <2>2, <2>3 DEF Reader
  <1>6. CASE MonitorPoll
    <2>1. TypeOK'
      BY <1>6 DEF IInv, TypeOK, MonitorPoll, sessionVars
    <2> QED BY <1>6, <2>1, OtherStep DEF MonitorPoll
  <1>7. CASE MonitorResync
    <2>1. TypeOK'
      BY <1>7 DEF IInv, TypeOK, MonitorResync, Snapshot, Present, sessionVars
    <2> QED BY <1>7, <2>1, OtherStep DEF MonitorResync
  <1>8. CASE MonitorExit
    <2>1. TypeOK'
      BY <1>8 DEF IInv, TypeOK, MonitorExit, sessionVars
    <2> QED BY <1>8, <2>1, OtherStep DEF MonitorExit
  <1>9. CASE UNCHANGED vars
    <2>1. TypeOK'
      BY <1>9 DEF IInv, TypeOK, vars, monitorVars, sessionVars
    <2> QED BY <1>9, <2>1, OtherStep DEF vars
  <1> QED BY <1>1, <1>2, <1>3, <1>4, <1>5, <1>6, <1>7, <1>8, <1>9 DEF Next

-----------------------------------------------------------------------------
(* Theorems *)

\* The inductive invariant holds in every reachable state of the library.
THEOREM Invariance == Spec => []IInv
  BY InitInv, StepInv, PTL DEF Spec

\* Every variable keeps its type: no session handle outside 1..dwSessionCnt
\* ever gets into g_mSessions.
THEOREM TypeCorrect == Spec => []TypeOK
  <1>1. IInv => TypeOK
    BY DEF IInv
  <1> QED BY <1>1, Invariance, PTL

\* An open session always stands on an initialised slot with a template and
\* objects, so the unchecked dereferences in session.cpp are safe.
THEOREM SessionsLive == Spec => []SessionSlotLive
  <1>1. IInv => SessionSlotLive
    <2> SUFFICES ASSUME IInv, NEW h \in DOMAIN g_mSessions
                 PROVE  /\ bP11Initialized
                        /\ slot[SlotOf(h)].bUpdated /\ slot[SlotOf(h)].pTemplate
                        /\ slot[SlotOf(h)].cie.init
                        /\ slot[SlotOf(h)].P11Objects # {}
      BY DEF SessionSlotLive
    <2>1. PICK s \in Slots : s = SlotOf(h) /\ h \in SessionsOn(s)
      BY DEF IInv, TypeOK, CSession, SlotOf, SessionsOn
    <2>2. bP11Initialized /\ slot[s].bUpdated /\ slot[s].cie.init
      BY <2>1 DEF IInv, SlotInv
    <2>3. TokenSane(slot[s])
      BY DEF IInv, SlotInv, SlotSane
    <2> QED BY <2>1, <2>2, <2>3 DEF TokenSane
  <1> QED BY <1>1, Invariance, PTL

\* dwSessionCount always counts the slot's sessions exactly.
THEOREM CountExact == Spec => []SessionCountExact
  <1>1. IInv => SessionCountExact
    BY DEF IInv, SlotInv, SessionCountExact
  <1> QED BY <1>1, Invariance, PTL

\* No login outlives the last session of its slot.
THEOREM LoginHasSession == Spec => []LoginNeedsSession
  <1>1. IInv => LoginNeedsSession
    BY DEF IInv, SlotInv, LoginNeedsSession
  <1> QED BY <1>1, Invariance, PTL

\* The slot and the card template never disagree on who is logged in.
THEOREM LoginConsistent == Spec => []LoginAgrees
  <1>1. IInv => LoginAgrees
    BY DEF IInv, SlotInv, SlotSane, TokenSane, LoginAgrees
  <1> QED BY <1>1, Invariance, PTL

\* No read-only session ever has the security officer's functions.
THEOREM SOReadWrite == Spec => []SOSessionsAreRW
  <1>1. IInv => SOSessionsAreRW
    <2> SUFFICES ASSUME IInv, NEW h \in DOMAIN g_mSessions,
                        SessionState(h) = "CKS_RW_SO_FUNCTIONS"
                 PROVE  g_mSessions[h].rw
      BY DEF SOSessionsAreRW
    <2>1. PICK s \in Slots : s = SlotOf(h) /\ h \in SessionsOn(s)
      BY DEF IInv, TypeOK, CSession, SlotOf, SessionsOn
    <2>2. slot[s].User = "SO"
      BY <2>1 DEF SessionState
    <2> QED BY <2>1, <2>2 DEF IInv, SlotInv
  <1> QED BY <1>1, Invariance, PTL

\* Handles and objects correspond one to one.
THEOREM HandlesUnique == Spec => []HandlesOneToOne
  <1>1. IInv => HandlesOneToOne
    BY DEF IInv, SlotInv, SlotSane, HandlesSane, HandlesOneToOne
  <1> QED BY <1>1, Invariance, PTL

\* The private key of the current card has no handle unless the user is
\* logged in.
THEOREM PrivateHandles == Spec => []PrivateHandleNeedsLogin
  <1>1. IInv => PrivateHandleNeedsLogin
    BY DEF IInv, SlotInv, SlotSane, HandlesSane, PrivateHandleNeedsLogin
  <1> QED BY <1>1, Invariance, PTL

\* A search delivers only handles that its slot gave out.
THEOREM FoundHandles == Spec => []FoundHandlesGivenOut
  <1>1. IInv => FoundHandlesGivenOut
    <2> SUFFICES ASSUME IInv, NEW h \in DOMAIN g_mSessions,
                        NEW i \in 1 .. Len(g_mSessions[h].findResult)
                 PROVE  g_mSessions[h].findResult[i]
                           <= slot[SlotOf(h)].dwP11ObjCnt
      BY DEF FoundHandlesGivenOut
    <2>1. PICK s \in Slots : s = SlotOf(h) /\ h \in SessionsOn(s)
      BY DEF IInv, TypeOK, CSession, SlotOf, SessionsOn
    <2> QED BY <2>1 DEF IInv, SlotInv
  <1> QED BY <1>1, Invariance, PTL

\* Sessions and slots fit together, for every set of slots and cards and any
\* number of sessions: what DeleteSession, Login and the signing functions
\* dereference is there, and dwSessionCount is exact.
THEOREM SessionsAreSound == Spec => []SessionsSound
  BY SessionsLive, CountExact, PTL DEF SessionsSound

\* Logins end with the last session, agree between slot and template, and give
\* no read-only session the security officer's functions.
THEOREM LoginIsSound == Spec => []LoginSound
  BY LoginHasSession, LoginConsistent, SOReadWrite, PTL DEF LoginSound

\* Handles correspond one to one to objects, name a private key only during a
\* login, and searches deliver only handles that were given out.
THEOREM HandlesAreSound == Spec => []HandlesSound
  BY HandlesUnique, PrivateHandles, FoundHandles, PTL DEF HandlesSound

-----------------------------------------------------------------------------
(* What a step never does to handles and to the token of a session *)

\* Handles are only added, above the counter, and the counter only grows.
HandlesGrow(sl, n) ==
    /\ n.dwP11ObjCnt >= sl.dwP11ObjCnt
    /\ \A e \in n.handles \ sl.handles : e.id > sl.dwP11ObjCnt

\* Objects stay, go, or are created from nothing of the card that is there.
ObjectsStep(sl, n, c) ==
    \/ n.P11Objects = sl.P11Objects
    \/ n.P11Objects = {}
    \/ sl.P11Objects = {} /\ \A o \in n.P11Objects : o.card = c

SameToken(sl, n) == n.P11Objects = sl.P11Objects /\ n.cie.atr = sl.cie.atr

\* A step keeps what the handles of slots and of open sessions mean.
Kept ==
    /\ \A s \in Slots : /\ bP11Initialized' => HandlesGrow(slot[s], slot'[s])
                        /\ ObjectsStep(slot[s], slot'[s], card[s])
    /\ \A h \in DOMAIN g_mSessions \cap DOMAIN g_mSessions' :
          /\ g_mSessions'[h].slot = g_mSessions[h].slot
          /\ SameToken(slot[SlotOf(h)], slot'[SlotOf(h)])

\* A step that leaves the slots and what sessions stand on alone.
LEMMA NoSlotKept ==
    ASSUME IInv, slot' = slot,
           \A h \in DOMAIN g_mSessions \cap DOMAIN g_mSessions' :
              g_mSessions'[h].slot = g_mSessions[h].slot
    PROVE  Kept
  <1>1. \A s \in Slots : slot[s].dwP11ObjCnt \in Nat
    BY DEF IInv, TypeOK, CSlot
  <1> QED BY <1>1 DEF Kept, HandlesGrow, ObjectsStep, SameToken

\* A step that changes one slot, and the token of its sessions only if none
\* of them is left.
LEMMA OneSlotKept ==
    ASSUME IInv, NEW s \in Slots, NEW n,
           slot' = [slot EXCEPT ![s] = n],
           HandlesGrow(slot[s], n), ObjectsStep(slot[s], n, card[s]),
           \A h \in DOMAIN g_mSessions \cap DOMAIN g_mSessions' :
              g_mSessions'[h].slot = g_mSessions[h].slot,
           \A h \in SessionsOn(s) \cap DOMAIN g_mSessions' :
              SameToken(slot[s], n)
    PROVE  Kept
  <1>1. \A t \in Slots : slot[t].dwP11ObjCnt \in Nat
    BY DEF IInv, TypeOK, CSlot
  <1>2. slot'[s] = n /\ \A t \in Slots \ {s} : slot'[t] = slot[t]
    BY DEF IInv, TypeOK
  <1>3. ASSUME NEW t \in Slots
        PROVE  /\ HandlesGrow(slot[t], slot'[t])
               /\ ObjectsStep(slot[t], slot'[t], card[t])
    <2>1. CASE t = s
      BY <2>1, <1>2
    <2>2. CASE t # s
      BY <2>2, <1>1, <1>2 DEF HandlesGrow, ObjectsStep
    <2> QED BY <2>1, <2>2
  <1>4. ASSUME NEW h \in DOMAIN g_mSessions \cap DOMAIN g_mSessions'
        PROVE  SameToken(slot[SlotOf(h)], slot'[SlotOf(h)])
    <2>1. SlotOf(h) \in Slots /\ (SlotOf(h) = s => h \in SessionsOn(s))
      BY DEF IInv, TypeOK, CSession, SlotOf, SessionsOn
    <2>2. CASE SlotOf(h) = s
      BY <2>1, <2>2, <1>2
    <2>3. CASE SlotOf(h) # s
      BY <2>1, <2>3, <1>2 DEF SameToken
    <2> QED BY <2>2, <2>3
  <1> QED BY <1>3, <1>4 DEF Kept

\* C_OpenSession: a slot with a session has its objects already.
LEMMA OpenSessionKept ==
    ASSUME IInv, NEW s \in Slots, NEW rw \in BOOLEAN, NEW io, NEW io2,
           C_OpenSession(s, rw, io, io2)
    PROVE  Kept
  <1> DEFINE m == SlotInit(slot[s], card[s], io)
             n == InitSession(m, card[s], inits + 1)
             n1 == [n EXCEPT !.dwSessionCount = @ + 1]
             h == GetNewSessionID
  <1>1. /\ TypeOK /\ SlotInv(s) /\ inits \in Nat /\ SlotSane(slot[s], inits)
        /\ card[s] \in CardOrNone
    BY DEF IInv, TypeOK, SlotInv
  <1>2. /\ SlotSane(m, inits) /\ m.P11Objects = slot[s].P11Objects
        /\ m.handles = slot[s].handles
        /\ m.dwP11ObjCnt = slot[s].dwP11ObjCnt
        /\ slot[s].bUpdated => m = slot[s]
    BY <1>1, SlotInitSane
  <1>3. SessionsOn(s) # {} => slot[s].bUpdated /\ slot[s].cie.init
    BY <1>1 DEF SlotInv
  <1> HIDE DEF m
  <1>4. \A x \in DOMAIN g_mSessions \cap DOMAIN g_mSessions' :
           g_mSessions'[x].slot = g_mSessions[x].slot
    <2>1. h \notin DOMAIN g_mSessions
      BY <1>1 DEF GetNewSessionID, TypeOK
    <2> QED BY <2>1 DEF C_OpenSession, sessionVars
  <1>5. CASE slot' = [slot EXCEPT ![s] = m]
    <2>1. HandlesGrow(slot[s], m) /\ ObjectsStep(slot[s], m, card[s])
      BY <1>2 DEF HandlesGrow, ObjectsStep, SlotSane, CSlot
    <2>2. SessionsOn(s) # {} => SameToken(slot[s], m)
      BY <1>2, <1>3 DEF SameToken
    <2> QED BY <1>4, <1>5, <2>1, <2>2, OneSlotKept
  <1>6. CASE slot' = [slot EXCEPT ![s] = n1]
    <2>1. m \in CSlot /\ (m.cie.init <=> m.P11Objects # {})
      BY <1>2 DEF SlotSane, TokenSane
    <2>2. /\ n.dwP11ObjCnt = m.dwP11ObjCnt /\ n.handles = m.handles
          /\ n = [f \in DOMAIN m |-> n[f]]
          /\ m.cie.init => n = m
          /\ ~m.cie.init => \A o \in n.P11Objects : o.card = card[s]
      <3>1. CASE m.cie.init
        <4>1. n = m
          BY <3>1 DEF InitSession
        <4> QED BY <4>1, <3>1, <2>1 DEF CSlot
      <3>2. CASE ~m.cie.init
        <4> DEFINE new == [gen: {inits + 1}, cls: Class, card: {card[s]}]
        <4>1. n = [m EXCEPT !.cie.init = TRUE, !.P11Objects = @ \cup new]
          BY <3>2 DEF InitSession
        <4>2. \A o \in new : o.card = card[s]
          OBVIOUS
        <4>3. m.P11Objects = {}
          BY <2>1, <3>2
        <4> HIDE DEF new
        <4>4. n.P11Objects = m.P11Objects \cup new
          BY <4>1, <2>1 DEF CSlot
        <4> QED BY <3>2, <4>1, <4>2, <4>3, <4>4, <2>1 DEF CSlot
      <3> QED BY <3>1, <3>2
    <2> HIDE DEF n
    <2>3. /\ n1.dwP11ObjCnt = n.dwP11ObjCnt /\ n1.handles = n.handles
          /\ n1.P11Objects = n.P11Objects /\ n1.cie = n.cie
      BY <2>1, <2>2 DEF CSlot
    <2> HIDE DEF n1
    <2>4. HandlesGrow(slot[s], n1)
      BY <1>2, <2>1, <2>2, <2>3 DEF HandlesGrow, CSlot
    <2>5. ObjectsStep(slot[s], n1, card[s])
      BY <1>2, <2>1, <2>2, <2>3 DEF ObjectsStep
    <2>6. SessionsOn(s) # {} => SameToken(slot[s], n1)
      BY <1>2, <1>3, <2>2, <2>3 DEF SameToken
    <2> QED BY <1>4, <1>6, <2>4, <2>5, <2>6, OneSlotKept
  <1> QED BY <1>5, <1>6 DEF C_OpenSession, m

\* C_CloseSession and C_CloseAllSessions: DropSessions keeps the objects.
LEMMA DeleteKept ==
    ASSUME IInv, NEW s \in Slots, NEW c \in Nat, NEW H,
           slot' = [slot EXCEPT ![s] = DropSessions(slot[s], c)],
           g_mSessions' = WithoutSessions(H)
    PROVE  Kept
  <1> DEFINE n == DropSessions(slot[s], c)
  <1>1. inits \in Nat /\ SlotSane(slot[s], inits)
    BY DEF IInv, TypeOK, SlotInv
  <1>2. /\ n.P11Objects = slot[s].P11Objects /\ n.cie.atr = slot[s].cie.atr
        /\ n.handles \subseteq slot[s].handles
        /\ n.dwP11ObjCnt = slot[s].dwP11ObjCnt
    BY <1>1, DropSessionsSane
  <1> HIDE DEF n
  <1>3. /\ HandlesGrow(slot[s], n) /\ ObjectsStep(slot[s], n, card[s])
        /\ SameToken(slot[s], n)
    BY <1>1, <1>2 DEF HandlesGrow, ObjectsStep, SameToken, SlotSane, CSlot
  <1>4. \A h \in DOMAIN g_mSessions \cap DOMAIN g_mSessions' :
           g_mSessions'[h].slot = g_mSessions[h].slot
    BY DEF WithoutSessions
  <1>5. slot' = [slot EXCEPT ![s] = n]
    BY DEF n
  <1> QED BY <1>3, <1>4, <1>5, OneSlotKept

\* C_Login: only the user changes.
LEMMA LoginKept ==
    ASSUME IInv, NEW h \in DOMAIN g_mSessions, NEW u, NEW right, NEW io,
           C_Login(h, u, right, io)
    PROVE  Kept
  <1>1. PICK s \in Slots : s = SlotOf(h)
    BY DEF IInv, TypeOK, CSession, SlotOf
  <1>2. slot \in [Slots -> CSlot] /\ slot[s] \in CSlot
    BY DEF IInv, TypeOK
  <1> DEFINE ok == right /\ io = "ok" /\ card[s] \in CieCards
             v == IF ok THEN u ELSE "NOBODY"
             w == IF ok THEN u ELSE slot[s].User
             n == [slot[s] EXCEPT !.cie.userType = v, !.User = w]
  <1>3. slot' = [slot EXCEPT ![s].cie.userType = v,
                             ![s].User = IF ok THEN u ELSE @]
    BY <1>1 DEF C_Login
  <1> HIDE DEF ok, v
  <1>4. slot' = [slot EXCEPT ![s] = n]
    BY <1>2, <1>3 DEF CSlot, CIEData
  <1>5. /\ n.P11Objects = slot[s].P11Objects /\ n.cie.atr = slot[s].cie.atr
        /\ n.handles = slot[s].handles /\ n.dwP11ObjCnt = slot[s].dwP11ObjCnt
    BY <1>2 DEF CSlot, CIEData
  <1> HIDE DEF n
  <1>6. /\ HandlesGrow(slot[s], n) /\ ObjectsStep(slot[s], n, card[s])
        /\ SameToken(slot[s], n)
    BY <1>2, <1>5 DEF HandlesGrow, ObjectsStep, SameToken, CSlot
  <1>7. g_mSessions' = g_mSessions
    BY DEF C_Login, sessionVars
  <1> QED BY <1>4, <1>6, <1>7, OneSlotKept

\* C_Logout: handles of private objects go.
LEMMA LogoutKept ==
    ASSUME IInv, NEW h \in DOMAIN g_mSessions, C_Logout(h)
    PROVE  Kept
  <1>1. PICK s \in Slots : s = SlotOf(h)
    BY DEF IInv, TypeOK, CSession, SlotOf
  <1>2. inits \in Nat /\ SlotSane(slot[s], inits)
    BY DEF IInv, TypeOK, SlotInv
  <1> DEFINE n == Logout(slot[s])
  <1>3. slot' = [slot EXCEPT ![s] = n] /\ g_mSessions' = g_mSessions
    BY <1>1 DEF C_Logout, sessionVars
  <1>4. /\ n.P11Objects = slot[s].P11Objects /\ n.cie.atr = slot[s].cie.atr
        /\ n.handles \subseteq slot[s].handles
        /\ n.dwP11ObjCnt = slot[s].dwP11ObjCnt
    BY <1>2, LogoutSane
  <1> HIDE DEF n
  <1>5. /\ HandlesGrow(slot[s], n) /\ ObjectsStep(slot[s], n, card[s])
        /\ SameToken(slot[s], n)
    BY <1>2, <1>4 DEF HandlesGrow, ObjectsStep, SameToken, SlotSane, CSlot
  <1> QED BY <1>3, <1>5, OneSlotKept

\* C_FindObjectsInit: new handles are above the counter.
LEMMA FindObjectsInitKept ==
    ASSUME IInv, NEW h \in DOMAIN g_mSessions, NEW classes,
           C_FindObjectsInit(h, classes)
    PROVE  Kept
  <1>1. PICK s \in Slots : s = SlotOf(h)
    BY DEF IInv, TypeOK, CSession, SlotOf
  <1>2. inits \in Nat /\ SlotSane(slot[s], inits)
    BY DEF IInv, TypeOK, SlotInv
  <1> DEFINE f == FindAll(slot[s], classes)
  <1>3. SearchSane(f, slot[s], inits)
    BY <1>2, FindAllSane
  <1>4. /\ slot' = [slot EXCEPT ![s] = f.slot]
        /\ g_mSessions' = [g_mSessions EXCEPT ![h].bFindInit = TRUE,
                                              ![h].findResult = f.found]
    BY <1>1 DEF C_FindObjectsInit
  <1> HIDE DEF f
  <1>5. /\ HandlesGrow(slot[s], f.slot) /\ ObjectsStep(slot[s], f.slot, card[s])
        /\ SameToken(slot[s], f.slot)
    BY <1>3 DEF SearchSane, HandlesGrow, ObjectsStep, SameToken
  <1>6. \A x \in DOMAIN g_mSessions \cap DOMAIN g_mSessions' :
           g_mSessions'[x].slot = g_mSessions[x].slot
    BY <1>4 DEF IInv, TypeOK, CSession
  <1> QED BY <1>4, <1>5, <1>6, OneSlotKept

\* C_GetTokenInfo: only the template, the ATR and the serial change.
LEMMA TokenInfoKept ==
    ASSUME IInv, NEW s \in Slots, NEW io, NEW io2, C_GetTokenInfo(s, io, io2)
    PROVE  Kept
  <1>1. /\ inits \in Nat /\ SlotSane(slot[s], inits) /\ card[s] \in CardOrNone
    BY DEF IInv, TypeOK, SlotInv
  <1> DEFINE m == EnsureTemplate(slot[s], card[s], io)
             m1 == [m EXCEPT !.baSerial = card[s]]
  <1>2. /\ SlotSane(m, inits) /\ m.P11Objects = slot[s].P11Objects
        /\ m.cie = slot[s].cie /\ m.handles = slot[s].handles
        /\ m.dwP11ObjCnt = slot[s].dwP11ObjCnt
    BY <1>1, EnsureTemplateSane
  <1>3. PICK n \in {m, m1} : slot' = [slot EXCEPT ![s] = n]
    BY DEF C_GetTokenInfo
  <1> HIDE DEF m
  <1>4. /\ n.P11Objects = m.P11Objects /\ n.cie = m.cie
        /\ n.handles = m.handles /\ n.dwP11ObjCnt = m.dwP11ObjCnt
    <2>1. CASE n = m
      BY <2>1
    <2>2. CASE n = m1
      BY <2>2, <1>2 DEF SlotSane, CSlot
    <2> QED BY <1>3, <2>1, <2>2
  <1>5. /\ HandlesGrow(slot[s], n) /\ ObjectsStep(slot[s], n, card[s])
        /\ SameToken(slot[s], n)
    BY <1>1, <1>2, <1>4 DEF HandlesGrow, ObjectsStep, SameToken, SlotSane, CSlot
  <1>6. g_mSessions' = g_mSessions
    BY DEF C_GetTokenInfo, sessionVars
  <1> QED BY <1>3, <1>5, <1>6, OneSlotKept

\* MonitorHandle: a slot that is finalised loses its objects and its sessions.
LEMMA MonitorHandleKept ==
    ASSUME IInv, NEW s \in Slots, MonitorHandle(s)
    PROVE  Kept
  <1>1. /\ inits \in Nat /\ SlotSane(slot[s], inits) /\ slot[s] \in CSlot
        /\ SessionsOn(s) # {} => slot[s].bUpdated
    BY DEF IInv, TypeOK, SlotInv, SlotSane
  <1>2. CASE event[s] = "removed"
    <2> DEFINE n == [SlotFinal(slot[s]) EXCEPT !.baATR = NoCard]
    <2>1. /\ slot' = [slot EXCEPT ![s] = n]
          /\ g_mSessions' = IF slot[s].bUpdated
                            THEN WithoutSessions(SessionsOn(s))
                            ELSE g_mSessions
      BY <1>2 DEF MonitorHandle
    <2>2. /\ SlotSane(n, inits) /\ n.handles = slot[s].handles
          /\ n.dwP11ObjCnt = slot[s].dwP11ObjCnt
      BY <1>1, SlotFinalSane
    <2>3. n.P11Objects = {}
      <3>1. CASE slot[s].bUpdated
        BY <3>1 DEF SlotFinal, NewSlot
      <3>2. CASE ~slot[s].bUpdated
        BY <3>2, <1>1 DEF SlotFinal, SlotSane, TokenSane, CSlot
      <3> QED BY <3>1, <3>2
    <2> HIDE DEF n
    <2>4. HandlesGrow(slot[s], n) /\ ObjectsStep(slot[s], n, card[s])
      BY <1>1, <2>2, <2>3 DEF HandlesGrow, ObjectsStep, CSlot
    <2>5. SessionsOn(s) \cap DOMAIN g_mSessions' = {}
      BY <1>1, <2>1 DEF WithoutSessions
    <2>6. \A h \in DOMAIN g_mSessions \cap DOMAIN g_mSessions' :
             g_mSessions'[h].slot = g_mSessions[h].slot
      BY <2>1 DEF WithoutSessions
    <2> QED BY <2>1, <2>4, <2>5, <2>6, OneSlotKept
  <1>3. CASE event[s] # "removed"
    <2> DEFINE n == GetATR(slot[s], card[s])
    <2>1. slot' = [slot EXCEPT ![s] = n] /\ g_mSessions' = g_mSessions
      BY <1>3 DEF MonitorHandle
    <2>2. /\ n.P11Objects = slot[s].P11Objects /\ n.cie = slot[s].cie
          /\ n.handles = slot[s].handles
          /\ n.dwP11ObjCnt = slot[s].dwP11ObjCnt
      BY <1>1 DEF GetATR, CSlot
    <2> HIDE DEF n
    <2>3. /\ HandlesGrow(slot[s], n) /\ ObjectsStep(slot[s], n, card[s])
          /\ SameToken(slot[s], n)
      BY <1>1, <2>2 DEF HandlesGrow, ObjectsStep, SameToken, CSlot
    <2> QED BY <2>1, <2>3, OneSlotKept
  <1> QED BY <1>2, <1>3

\* Every step of the specification.
LEMMA StepKept == IInv /\ [Next]_vars => Kept
  <1> SUFFICES ASSUME IInv, [Next]_vars PROVE Kept
    OBVIOUS
  <1>1. CASE slot' = slot /\ g_mSessions' = g_mSessions
    BY <1>1, NoSlotKept
  <1>2. CASE C_Finalize
    <2>1. /\ DOMAIN g_mSessions' = {} /\ bP11Initialized' = FALSE
          /\ slot' = [s \in Slots |-> NewSlot]
      BY <1>2 DEF C_Finalize, WithoutSessions
    <2>2. \A s \in Slots : slot'[s].P11Objects = {}
      BY <2>1 DEF NewSlot
    <2> QED BY <2>1, <2>2 DEF Kept, ObjectsStep
  <1>3. ASSUME NEW h \in DOMAIN g_mSessions, SessionCall(h) PROVE Kept
    <2>1. CASE C_CloseSession(h)
      <3>1. SlotOf(h) \in Slots
        BY DEF IInv, TypeOK, CSession, SlotOf
      <3> QED BY <2>1, <3>1, DeleteKept DEF C_CloseSession
    <2>2. ASSUME NEW u \in {"USER", "SO"}, NEW right \in BOOLEAN,
                 NEW io \in CardAnswers, C_Login(h, u, right, io)
          PROVE  Kept
      BY <2>2, LoginKept
    <2>3. CASE C_Logout(h)
      BY <2>3, LogoutKept
    <2>4. ASSUME NEW classes \in Search, C_FindObjectsInit(h, classes)
          PROVE  Kept
      BY <2>4, FindObjectsInitKept
    <2>5. ASSUME NEW k \in 1 .. 3, C_FindObjects(h, k) PROVE Kept
      <3>1. slot' = slot
        BY <2>5 DEF C_FindObjects
      <3>2. \A x \in DOMAIN g_mSessions \cap DOMAIN g_mSessions' :
               g_mSessions'[x].slot = g_mSessions[x].slot
        BY <2>5 DEF C_FindObjects, IInv, TypeOK, CSession
      <3> QED BY <3>1, <3>2, NoSlotKept
    <2>6. CASE C_FindObjectsFinal(h)
      <3>1. slot' = slot
        BY <2>6 DEF C_FindObjectsFinal
      <3>2. \A x \in DOMAIN g_mSessions \cap DOMAIN g_mSessions' :
               g_mSessions'[x].slot = g_mSessions[x].slot
        BY <2>6 DEF C_FindObjectsFinal, IInv, TypeOK, CSession
      <3> QED BY <3>1, <3>2, NoSlotKept
    <2> QED BY <1>3, <2>1, <2>2, <2>3, <2>4, <2>5, <2>6 DEF SessionCall
  <1>4. ASSUME NEW s \in Slots, SlotCall(s) PROVE Kept
    <2>1. ASSUME NEW rw \in BOOLEAN, NEW io \in CardAnswers,
                 NEW io2 \in CardAnswers, C_OpenSession(s, rw, io, io2)
          PROVE  Kept
      BY <2>1, OpenSessionKept
    <2>2. CASE C_CloseAllSessions(s)
      <3>1. Cardinality(SessionsOn(s)) \in Nat
        BY SessionsFinite, FS_CardinalityType DEF IInv
      <3> QED BY <2>2, <3>1, DeleteKept DEF C_CloseAllSessions
    <2>3. ASSUME NEW io \in CardAnswers, NEW io2 \in CardAnswers,
                 C_GetTokenInfo(s, io, io2)
          PROVE  Kept
      BY <2>3, TokenInfoKept
    <2> QED BY <1>4, <2>1, <2>2, <2>3 DEF SlotCall
  <1>5. ASSUME NEW s \in Slots, Reader(s) PROVE Kept
    BY <1>1, <1>5, MonitorHandleKept
       DEF Reader, InsertCard, RemoveCard, sessionVars
  <1> QED BY <1>1, <1>2, <1>3, <1>4, <1>5
          DEF Next, vars, C_Initialize, MonitorPoll, MonitorResync, MonitorExit,
              sessionVars

\* What a handle means does not change under the caller: until C_Finalize no
\* object handle, also not one that a logout deleted or a removal left in the
\* maps, is given to another object, and the objects and card data that a
\* session sees are not replaced while it is open.
THEOREM HandlesMeanTheSame == Spec => HandlesKeepMeaning
  <1>1. IInv /\ [Next]_vars =>
          /\ [\A s \in Slots : bP11Initialized' =>
                /\ slot'[s].dwP11ObjCnt >= slot[s].dwP11ObjCnt
                /\ \A e \in slot'[s].handles \ slot[s].handles :
                      e.id > slot[s].dwP11ObjCnt]_vars
          /\ [\A h \in DOMAIN g_mSessions \cap DOMAIN g_mSessions' :
                /\ slot'[SlotOf(h)].P11Objects = slot[SlotOf(h)].P11Objects
                /\ slot'[SlotOf(h)].cie.atr = slot[SlotOf(h)].cie.atr]_vars
    BY StepKept DEF Kept, HandlesGrow, SameToken
  <1> QED BY <1>1, Invariance, PTL DEF Spec, HandlesKeepMeaning,
              HandlesNotReused, SessionKeepsItsToken

=============================================================================
