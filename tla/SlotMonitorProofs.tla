-------------------------- MODULE SlotMonitorProofs --------------------------
(* Proofs about the slot monitor and its waiters, for any readers, waiters,  *)
(* calls, forks and changes in the world outside.                            *)
EXTENDS SlotMonitor, TLAPS, FiniteSetTheorems, SequenceTheorems,
        WellFoundedInduction

----------------------------------------------------------------------------
(* The inductive invariant. *)

SlotRec == [reader : Readers, lastEvent : {"NoEvent", "Inserted", "Removed"}]
MonFields == {"pc", "num", "watched", "current", "event", "ris", "i"}

(* Every reader has at most one slot. *)
Unique == \A i, j \in DOMAIN slots : slots[i].reader = slots[j].reader => i = j
SlotsInv == slots \in Seq(SlotRec) /\ Unique

(* The arrays of slotMonitor belong together, and the number of slots that  *)
(* it read without the lock is not greater than what is there.              *)
MonInv ==
  /\ DOMAIN mon = MonFields
  /\ mon.pc \in MonPCs /\ mon.ris \in Results /\ mon.num \in Nat /\ mon.i \in Nat
  /\ mon.watched \in Seq(Readers)
  /\ mon.pc \in Live \ {"snapshot"} => mon.current \in [DOMAIN mon.watched -> States]
  /\ mon.pc = "handle" \/ (mon.pc = "returned" /\ mon.ris \in {"OK", "TIMEOUT"})
     => mon.event \in [DOMAIN mon.watched -> States]
  /\ mon.pc = "snapshot" => mon.num <= Len(slots)

(* Where the application thread is, and what its calls have left.  Thread   *)
(* is joinable exactly as long as there is or was a monitor to join.        *)
AppInv ==
  /\ app \in AppTypes
  /\ app.at = "sweep" => bP11Initialized /\ slots # <<>>
  /\ app.at \in {"cancel", "join"} => ~bP11Initialized /\ joinable
  /\ joinable <=> mon.pc # "none"
  /\ ~bP11Initialized /\ app = Idle /\ forks = 0 => slots = <<>>

RestTyped ==
  /\ bP11Initialized \in BOOLEAN /\ bP11Terminate \in BOOLEAN /\ bMonitorUpdate \in BOOLEAN
  /\ joinable \in BOOLEAN /\ cancelled \in BOOLEAN /\ service \in BOOLEAN
  /\ p11Mutex \in {"free", "app"}
  /\ pending_ \in Nat /\ calls \in Nat /\ forks \in Nat /\ changes \in Nat
  /\ waiter \in [Waiters -> {"idle", "blocked", "woken", "scan"}]
  /\ cards \subseteq plugged /\ plugged \subseteq Readers

IInv == SlotsInv /\ MonInv /\ AppInv /\ RestTyped /\ MonitorHasSlots /\ EventsCovered

----------------------------------------------------------------------------
(* A monitor that nobody takes away: the readers and the service stay, and  *)
(* the process does not fork.                                               *)
Undisturbed == Plugged # {} /\ ~CanUnplug /\ ~CanStop /\ MaxForks = 0

(* Then a monitor runs whenever the module is initialised and no call is    *)
(* under way: only C_Finalize ends it.                                      *)
StaysUp == service /\ plugged # {} /\ forks = 0
NotStopped ==
  /\ bP11Terminate => app.at \in {"cancel", "join"}
  /\ ~bP11Initialized /\ app = Idle => ~joinable
  /\ bP11Initialized => ReadersOf(slots) \subseteq plugged
  /\ mon.pc \in Running => \A i \in DOMAIN mon.watched : mon.watched[i] \in plugged
  /\ bP11Initialized /\ mon.pc = "wait" => ~cancelled
  /\ bP11Initialized /\ mon.pc = "returned"
     => mon.ris \notin {"CANCELLED", "UNKNOWN_READER", "NO_READERS", "SERVICE"}
  /\ bP11Initialized /\ app = Idle => mon.pc \in Running
  /\ bP11Initialized /\ app.at = "sweep" => mon.pc \in Running \cup {"none"}
LiveInv == IInv /\ StaysUp /\ NotStopped

----------------------------------------------------------------------------
(* Sequences and counts. *)

(* SetToSeq lists the members of a finite set, each of them once. *)
LEMMA Listed ==
    ASSUME NEW S, IsFiniteSet(S)
    PROVE  /\ SetToSeq(S) \in Seq(S)
           /\ \A i, j \in DOMAIN SetToSeq(S) : SetToSeq(S)[i] = SetToSeq(S)[j] => i = j
           /\ S # {} => Len(SetToSeq(S)) > 0
  <1> DEFINE n == Cardinality(S)
             f == SetToSeq(S)
  <1>1. n \in Nat /\ ExistsBijection(1..n, S)
    BY FS_CardinalityType
  <1>2. PICK g \in [1..n -> S] : IsInjective(g)
    BY <1>1 DEF ExistsBijection, Bijection, Injection
  <1>3. f \in [1..n -> S] /\ IsInjective(f)
    BY <1>2 DEF SetToSeq
  <1>4. S # {} => n # 0
    BY FS_EmptySet
  <1> HIDE DEF n, f
  <1>5. f \in Seq(S) /\ Len(f) = n
    BY <1>1, <1>3
  <1>6. S # {} => Len(f) > 0
    BY <1>1, <1>4, <1>5
  <1> QED BY <1>3, <1>5, <1>6 DEF IsInjective, f

(* The slots that have an event, and the waiters that consumed a set(). *)
Taken == {w \in Waiters : waiter[w] \in {"woken", "scan"}}

(* Both sets that EventsCovered compares are finite. *)
LEMMA FiniteCounts ==
    ASSUME IInv
    PROVE  /\ IsFiniteSet(Events) /\ Cardinality(Events) \in Nat
           /\ IsFiniteSet(Taken) /\ Cardinality(Taken) \in Nat
  <1>1. Events \subseteq 1..Len(slots) /\ IsFiniteSet(1..Len(slots))
    <2>1. slots \in Seq(SlotRec)
      BY DEF IInv, SlotsInv
    <2>2. Len(slots) \in Nat /\ DOMAIN slots = 1..Len(slots)
      BY <2>1
    <2>3. IsFiniteSet(1..Len(slots))
      BY <2>2, FS_Interval
    <2> QED BY <2>2, <2>3 DEF Events
  <1>2. Taken \subseteq Waiters /\ IsFiniteSet(Waiters)
    BY ConstantsAssumption DEF Taken
  <1>3. IsFiniteSet(Events) /\ IsFiniteSet(Taken)
    BY <1>1, <1>2, FS_Subset
  <1> QED BY <1>3, FS_CardinalityType

(* EventsCovered in terms of Taken, in this state and the next. *)
LEMMA CoveredIs ==
    /\ EventsCovered <=> (bP11Initialized /\ forks = 0
                          => Cardinality(Events) <= pending_ + Cardinality(Taken))
    /\ EventsCovered' <=> (bP11Initialized' /\ forks' = 0
                          => Cardinality(Events') <= pending_' + Cardinality(Taken'))
  BY DEF EventsCovered, Taken

(* A step that records no event and takes no set() away. *)
LEMMA CoveredStill ==
    ASSUME IInv, bP11Initialized' => bP11Initialized, forks' = 0 => forks = 0,
           Events' = Events, Taken' = Taken, pending_' \in Nat, pending_' >= pending_
    PROVE  EventsCovered'
  <1>1. Cardinality(Events) \in Nat /\ Cardinality(Taken) \in Nat /\ pending_ \in Nat
    BY FiniteCounts DEF IInv, RestTyped
  <1>2. bP11Initialized /\ forks = 0 => Cardinality(Events) <= pending_ + Cardinality(Taken)
    BY CoveredIs DEF IInv
  <1>3. bP11Initialized' /\ forks' = 0 => Cardinality(Events) <= pending_' + Cardinality(Taken)
    BY <1>1, <1>2
  <1> QED BY <1>3, CoveredIs

(* Without events there is nothing to cover. *)
LEMMA CoveredEmpty ==
    ASSUME Events' = {}, Taken' \subseteq Waiters, pending_' \in Nat
    PROVE  EventsCovered'
  <1>1. Cardinality(Taken') \in Nat
    BY FS_Subset, FS_CardinalityType, ConstantsAssumption
  <1>2. Cardinality(Events') = 0
    BY FS_EmptySet
  <1> QED BY <1>1, <1>2, CoveredIs

(* The events depend on the slots only. *)
LEMMA SameEvents ==
    ASSUME UNCHANGED slots PROVE Events' = Events
  BY DEF Events

(* The set() calls consumed depend on the waiters only. *)
LEMMA SameTaken ==
    ASSUME UNCHANGED waiter PROVE Taken' = Taken
  BY DEF Taken

----------------------------------------------------------------------------
(* The application thread. *)

(* The slots after InitSlotList: those of before, then the new readers. *)
LEMMA InitSlotListFacts ==
    ASSUME IInv, InitSlotList
    PROVE  /\ SlotsInv' /\ Events' = Events /\ Len(slots') >= Len(slots)
           /\ \/ UNCHANGED <<slots, app, p11Mutex>> /\ (~service \/ plugged = {})
              \/ /\ slots' # <<>> /\ p11Mutex' = "app" /\ service /\ plugged # {}
                 /\ app' \in AppTypes /\ app'.at = "sweep"
                 /\ ReadersOf(slots') = ReadersOf(slots) \cup plugged
  <1>1. slots \in Seq(SlotRec) /\ Unique
    BY DEF IInv, SlotsInv
  <1>2. CASE UNCHANGED <<slots, app, p11Mutex>> /\ (~service \/ plugged = {})
    <2>1. SlotsInv' /\ Events' = Events
      BY <1>1, <1>2 DEF SlotsInv, Unique, Events
    <2>2. Len(slots) \in Nat
      BY <1>1
    <2> QED BY <1>2, <2>1, <2>2
  <1>3. CASE service /\ plugged # {}
    <2> DEFINE S == plugged \ ReadersOf(slots)
               added == SetToSeq(S)
               more == [i \in DOMAIN added |-> [reader |-> added[i], lastEvent |-> "NoEvent"]]
    <2>1. /\ slots' = slots \o more /\ p11Mutex' = "app"
          /\ app' = [at |-> "sweep", listed |-> plugged, it |-> 1, changed |-> added # <<>>]
      BY <1>3 DEF InitSlotList
    <2>2. plugged \subseteq Readers /\ S \subseteq Readers /\ IsFiniteSet(S)
      <3>1. plugged \subseteq Readers
        BY DEF IInv, RestTyped
      <3> QED BY <3>1, FS_Subset, ConstantsAssumption
    <2>3. /\ added \in Seq(S) /\ (S # {} => Len(added) > 0)
          /\ \A i, j \in DOMAIN added : added[i] = added[j] => i = j
      BY <2>2, Listed
    <2>4. added \in Seq(S) /\ DOMAIN added = 1..Len(added) /\ Len(added) \in Nat
          /\ \A i \in DOMAIN added : added[i] \in S
      <3> HIDE DEF added, S
      <3> QED BY <2>3
    <2>5. S = {added[i] : i \in DOMAIN added}
      <3>1. Cardinality(S) \in Nat /\ ExistsBijection(1..Cardinality(S), S)
        BY <2>2, FS_CardinalityType
      <3>2. PICK g \in [1..Cardinality(S) -> S] : IsInjective(g)
        BY <3>1 DEF ExistsBijection, Bijection, Injection
      <3>3. added \in [1..Cardinality(S) -> S] /\ IsInjective(added)
        BY <3>2 DEF SetToSeq
      <3> HIDE DEF added
      <3>4. ExistsInjection(1..Cardinality(S), S)
        BY <3>3 DEF ExistsInjection, Injection
      <3> DEFINE I == {added[i] : i \in DOMAIN added}
      <3>5. I \subseteq S /\ DOMAIN added = 1..Cardinality(S)
        BY <3>3
      <3>6. ExistsBijection(1..Cardinality(S), I)
        <4>1. added \in [1..Cardinality(S) -> I]
          BY <3>3, <3>5
        <4>2. \A y \in I : \E i \in 1..Cardinality(S) : added[i] = y
          BY <3>5
        <4> HIDE DEF I
        <4>3. added \in Injection(1..Cardinality(S), I)
          BY <3>3, <4>1 DEF Injection
        <4>4. added \in Surjection(1..Cardinality(S), I)
          BY <4>1, <4>2 DEF Surjection
        <4> QED BY <4>3, <4>4 DEF ExistsBijection, Bijection
      <3> HIDE DEF I
      <3>7. Cardinality(I) = Cardinality(S)
        BY <3>1, <3>6, FS_CountingElements
      <3>8. I = S
        BY <2>2, <3>5, <3>7, FS_Subset
      <3> QED BY <3>8 DEF I
    <2> HIDE DEF added
    <2>6. DOMAIN more = DOMAIN added /\ more \in Seq(SlotRec) /\ Len(more) = Len(added)
      <3>1. more \in [1..Len(added) -> SlotRec]
        BY <2>2, <2>4 DEF SlotRec
      <3>2. DOMAIN more = DOMAIN added
        OBVIOUS
      <3> HIDE DEF more
      <3> QED BY <2>4, <3>1, <3>2
    <2>7. \A i \in DOMAIN added : more[i].reader = added[i] /\ more[i].lastEvent = "NoEvent"
      OBVIOUS
    <2> HIDE DEF more
    <2>8. /\ slots' \in Seq(SlotRec) /\ Len(slots') = Len(slots) + Len(added)
          /\ DOMAIN slots' = 1..Len(slots) + Len(added) /\ Len(slots) \in Nat
          /\ \A i \in 1..Len(slots) : slots'[i] = slots[i]
          /\ \A i \in 1..Len(added) : slots'[Len(slots) + i] = more[i]
      <3>1. /\ slots \o more \in Seq(SlotRec) /\ Len(slots \o more) = Len(slots) + Len(more)
            /\ \A i \in 1..Len(slots) + Len(more) :
                  (slots \o more)[i] = IF i <= Len(slots) THEN slots[i] ELSE more[i - Len(slots)]
        BY <1>1, <2>6, ConcatProperties
      <3>2. Len(slots) \in Nat /\ Len(added) \in Nat
        BY <1>1, <2>4
      <3>3. ASSUME NEW i \in 1..Len(added) PROVE (slots \o more)[Len(slots) + i] = more[i]
        <4>1. /\ Len(slots) + i \in 1..Len(slots) + Len(more) /\ ~(Len(slots) + i <= Len(slots))
              /\ Len(slots) + i - Len(slots) = i
          BY <2>6, <3>2
        <4> QED BY <3>1, <4>1
      <3>4. ASSUME NEW i \in 1..Len(slots) PROVE (slots \o more)[i] = slots[i]
        BY <2>6, <3>1, <3>2
      <3>5. slots' = slots \o more
        BY <2>1
      <3>6. DOMAIN (slots \o more) = 1..Len(slots \o more)
        BY <3>1
      <3> QED BY <2>6, <3>1, <3>2, <3>3, <3>4, <3>5, <3>6
    <2>9. \A i \in DOMAIN slots' : \/ i \in 1..Len(slots) /\ slots'[i] = slots[i]
                                   \/ \E k \in 1..Len(added) :
                                        i = Len(slots) + k /\ slots'[i] = more[k]
      <3> SUFFICES ASSUME NEW i \in 1..Len(slots) + Len(added), ~(i \in 1..Len(slots))
                   PROVE  \E k \in 1..Len(added) : i = Len(slots) + k /\ slots'[i] = more[k]
        BY <2>8
      <3>1. i - Len(slots) \in 1..Len(added) /\ i = Len(slots) + (i - Len(slots))
        BY <2>4, <2>8
      <3> QED BY <2>8, <3>1
    <2>10. DOMAIN slots = 1..Len(slots)
      BY <1>1
    <2>11. Events' = Events
      <3>1. \A i \in DOMAIN slots : i \in DOMAIN slots' /\ slots'[i] = slots[i]
        BY <2>4, <2>8, <2>10
      <3>2. \A i \in DOMAIN slots' : slots'[i].lastEvent # "NoEvent" => i \in DOMAIN slots
        BY <2>4, <2>7, <2>9, <2>10
      <3> QED BY <3>1, <3>2 DEF Events
    <2>12. Unique'
      <3> SUFFICES ASSUME NEW i \in DOMAIN slots', NEW j \in DOMAIN slots',
                          slots'[i].reader = slots'[j].reader
                   PROVE  i = j
        BY DEF Unique
      <3>1. ASSUME NEW a \in 1..Len(slots), NEW k \in 1..Len(added) PROVE slots[a].reader # more[k].reader
        BY <2>4, <2>7, <2>10 DEF ReadersOf
      <3>2. CASE i \in 1..Len(slots) /\ j \in 1..Len(slots)
        BY <1>1, <2>8, <2>10, <3>2 DEF Unique
      <3>3. CASE ~(i \in 1..Len(slots)) /\ ~(j \in 1..Len(slots))
        BY <2>3, <2>4, <2>7, <2>9, <3>3
      <3>4. CASE i \in 1..Len(slots) /\ ~(j \in 1..Len(slots))
        BY <2>8, <2>9, <3>1, <3>4
      <3>5. CASE ~(i \in 1..Len(slots)) /\ j \in 1..Len(slots)
        BY <2>8, <2>9, <3>1, <3>5
      <3> QED BY <3>2, <3>3, <3>4, <3>5
    <2>13. ReadersOf(slots') = ReadersOf(slots) \cup plugged
      <3>1. \A i \in DOMAIN slots' : slots'[i].reader \in ReadersOf(slots) \cup plugged
        BY <2>4, <2>7, <2>9, <2>10 DEF ReadersOf
      <3>2. ASSUME NEW i \in DOMAIN slots PROVE \E k \in DOMAIN slots' : slots'[k].reader = slots[i].reader
        BY <2>4, <2>8, <2>10
      <3>3. ASSUME NEW r \in S PROVE \E k \in DOMAIN slots' : slots'[k].reader = r
        <4>1. PICK i \in 1..Len(added) : added[i] = r
          BY <2>4, <2>5
        <4>2. Len(slots) + i \in DOMAIN slots' /\ slots'[Len(slots) + i] = more[i]
          BY <2>4, <2>8
        <4> QED BY <2>4, <2>7, <4>1, <4>2
      <3> QED BY <3>1, <3>2, <3>3 DEF ReadersOf
    <2>14. slots' # <<>>
      <3>1. PICK r \in plugged : TRUE
        BY <1>3
      <3>2. r \in ReadersOf(slots')
        BY <2>13, <3>1
      <3> QED BY <3>2 DEF ReadersOf
    <2>15. Len(slots') >= Len(slots)
      BY <2>4, <2>8
    <2>16. app' \in AppTypes /\ app'.at = "sweep"
      <3>1. plugged \in SUBSET Readers /\ (added # <<>>) \in BOOLEAN
        BY <2>2
      <3> QED BY <2>1, <3>1 DEF AppTypes
    <2> QED BY <1>3, <2>1, <2>8, <2>11, <2>12, <2>13, <2>14, <2>15, <2>16 DEF SlotsInv
  <1> QED BY <1>2, <1>3 DEF InitSlotList

----------------------------------------------------------------------------
(* What the steps have in common. *)

(* Where the application thread can be. *)
LEMMA AppShapes ==
    ASSUME app \in AppTypes
    PROVE  /\ app.at \in {"idle", "join", "sweep", "cancel"}
           /\ app = Idle <=> app.at = "idle"
           /\ app.at = "sweep" => app \in [at : {"sweep"}, listed : SUBSET Readers,
                                           it : Nat, changed : BOOLEAN]
           /\ app.at = "cancel" => app \in [at : {"cancel"}, tc : {"null", "alive", "dangling"}]
  BY DEF AppTypes, Idle

(* The same of the next state. *)
LEMMA AppShapesNext ==
    ASSUME app' \in AppTypes
    PROVE  app' = Idle <=> app'.at = "idle"
  BY DEF AppTypes, Idle

(* The monitor may take its context away, but moves nobody else. *)
LEMMA DropContextStays ==
    ASSUME app \in AppTypes, DropContext
    PROVE  app' \in AppTypes /\ app'.at = app.at
  <1>1. CASE app.at = "cancel" /\ app.tc = "alive"
    <2>1. app \in [at : {"cancel"}, tc : {"null", "alive", "dangling"}]
      BY <1>1, AppShapes
    <2>2. app' = [app EXCEPT !.tc = "dangling"]
      BY <1>1 DEF DropContext
    <2>3. app' \in [at : {"cancel"}, tc : {"null", "alive", "dangling"}] /\ app'.at = app.at
      BY <2>1, <2>2
    <2> QED BY <2>3 DEF AppTypes
  <1>2. CASE ~(app.at = "cancel" /\ app.tc = "alive")
    BY <1>2 DEF DropContext
  <1> QED BY <1>1, <1>2

(* AppInv, in a step that neither moves the application thread nor starts,  *)
(* joins or finalizes anything.                                             *)
LEMMA AppStays ==
    ASSUME IInv, app' \in AppTypes, app'.at = app.at,
           UNCHANGED <<bP11Initialized, joinable, forks>>,
           slots' = <<>> <=> slots = <<>>, mon'.pc = "none" <=> mon.pc = "none"
    PROVE  AppInv'
  <1>1. AppInv
    BY DEF IInv
  <1>2. app' = Idle <=> app = Idle
    BY <1>1, AppShapes, AppShapesNext DEF AppInv
  <1>3. app'.at = "sweep" => bP11Initialized' /\ slots' # <<>>
    BY <1>1 DEF AppInv
  <1>4. app'.at \in {"cancel", "join"} => ~bP11Initialized' /\ joinable'
    BY <1>1 DEF AppInv
  <1>5. joinable' <=> mon'.pc # "none"
    BY <1>1 DEF AppInv
  <1>6. ~bP11Initialized' /\ app' = Idle /\ forks' = 0 => slots' = <<>>
    BY <1>1, <1>2 DEF AppInv
  <1> QED BY <1>3, <1>4, <1>5, <1>6 DEF AppInv

(* MonInv, in a step that leaves the monitor and no fewer slots. *)
LEMMA MonStays ==
    ASSUME IInv, UNCHANGED mon, Len(slots') \in Nat, Len(slots') >= Len(slots)
    PROVE  MonInv'
  <1>1. Len(slots) \in Nat
    BY DEF IInv, SlotsInv
  <1> QED BY <1>1 DEF IInv, MonInv

(* The length of the slot list, and the empty list. *)
LEMMA SlotsLen ==
    ASSUME SlotsInv
    PROVE  /\ Len(slots) \in Nat /\ DOMAIN slots = 1..Len(slots)
           /\ slots = <<>> <=> Len(slots) = 0
           /\ \A i \in DOMAIN slots : slots[i] \in SlotRec
  <1>1. slots \in Seq(SlotRec)
    BY DEF SlotsInv
  <1> QED BY <1>1, EmptySeq

(* A step that leaves the slots. *)
LEMMA SameSlots ==
    ASSUME SlotsInv, UNCHANGED slots
    PROVE  SlotsInv' /\ Len(slots') \in Nat /\ Len(slots') >= Len(slots)
  <1>1. SlotsInv'
    BY DEF SlotsInv, Unique
  <1>2. Len(slots) \in Nat
    BY SlotsLen
  <1> QED BY <1>1, <1>2

(* A step of the monitor that leaves the slots. *)
LEMMA MonitorKeeps ==
    ASSUME IInv, MonInv', mon.pc \in Running, mon'.pc # "none",
           UNCHANGED <<bP11Initialized, bP11Terminate, slots, joinable, worldVars,
                       p11Mutex, waiter, calls, forks>>,
           app' \in AppTypes, app'.at = app.at, pending_' \in Nat, pending_' >= pending_,
           cancelled' \in BOOLEAN, bMonitorUpdate' \in BOOLEAN
    PROVE  IInv'
  <1>1. SlotsInv'
    BY SameSlots DEF IInv
  <1>2. AppInv'
    <2>1. mon.pc # "none"
      BY DEF Running, Live
    <2> QED BY <2>1, AppStays
  <1>3. RestTyped'
    BY DEF IInv, RestTyped, worldVars
  <1>4. MonitorHasSlots'
    BY DEF IInv, MonitorHasSlots
  <1>5. EventsCovered'
    BY CoveredStill, SameEvents, SameTaken
  <1> QED BY <1>1, <1>2, <1>3, <1>4, <1>5 DEF IInv

(* The least of some naturals. *)
LEMMA LeastNat ==
    ASSUME NEW S, S \subseteq Nat, S # {}
    PROVE  \E i \in S : \A j \in S : i <= j
  <1> DEFINE R == {ss \in Nat \X Nat : ss[1] < ss[2]}
  <1>1. IsWellFoundedOn(R, Nat)
    BY NatLessThanWellFounded DEF OpToRel
  <1> HIDE DEF R
  <1>2. PICK i \in S : \A j \in S : ~(<<j, i>> \in R)
    BY <1>1, WFMin
  <1>3. \A j \in S : ~(j < i)
    BY <1>2 DEF R
  <1> QED BY <1>3

(* The scan of C_WaitForSlotEvent takes one event away, and nothing else. *)
LEMMA TakeEventFacts ==
    ASSUME IInv, TakeEvent
    PROVE  /\ SlotsInv' /\ Len(slots') = Len(slots) /\ DOMAIN slots' = DOMAIN slots
           /\ \A i \in DOMAIN slots : slots'[i].reader = slots[i].reader
           /\ Events' \subseteq Events
           /\ Cardinality(Events) \in Nat /\ Cardinality(Events') = Cardinality(Events) - 1
  <1>1. /\ Len(slots) \in Nat /\ DOMAIN slots = 1..Len(slots) /\ slots \in Seq(SlotRec)
        /\ \A i \in DOMAIN slots : slots[i] \in SlotRec
    BY SlotsLen DEF IInv, SlotsInv
  <1> DEFINE first == CHOOSE i \in Events : \A j \in Events : i <= j
  <1>2. first \in Events
    <2>1. Events \subseteq Nat /\ Events # {}
      BY <1>1 DEF TakeEvent, Events
    <2>2. \E i \in Events : \A j \in Events : i <= j
      BY <2>1, LeastNat
    <2> QED BY <2>2
  <1>3. slots' = [slots EXCEPT ![first].lastEvent = "NoEvent"]
    BY DEF TakeEvent
  <1> HIDE DEF first
  <1>4. first \in DOMAIN slots
    BY <1>2 DEF Events
  <1> DEFINE s == slots[first]
             new == [s EXCEPT !.lastEvent = "NoEvent"]
  <1>5. new \in SlotRec /\ new.reader = s.reader /\ new.lastEvent = "NoEvent"
    <2>1. s \in SlotRec
      BY <1>1, <1>4
    <2> HIDE DEF s
    <2> QED BY <2>1 DEF SlotRec
  <1>6. slots' = [slots EXCEPT ![first] = new]
    BY <1>3
  <1> HIDE DEF new
  <1>7. /\ DOMAIN slots' = DOMAIN slots /\ slots' \in Seq(SlotRec) /\ Len(slots') = Len(slots)
        /\ slots'[first] = new
        /\ \A i \in DOMAIN slots : i # first => slots'[i] = slots[i]
    BY <1>1, <1>4, <1>5, <1>6
  <1>8. \A i \in DOMAIN slots : slots'[i].reader = slots[i].reader
    BY <1>5, <1>7
  <1>9. SlotsInv'
    <2>1. Unique
      BY DEF IInv, SlotsInv
    <2>2. Unique'
      BY <1>7, <1>8, <2>1 DEF Unique
    <2> QED BY <1>7, <2>2 DEF SlotsInv
  <1>10. Events' = Events \ {first}
    <2>1. ASSUME NEW i PROVE i \in Events' <=> i \in Events \ {first}
      <3>1. CASE i = first
        BY <1>5, <1>7, <3>1 DEF Events
      <3>2. CASE i # first
        BY <1>7, <3>2 DEF Events
      <3> QED BY <3>1, <3>2
    <2> QED BY <2>1
  <1>11. Cardinality(Events \ {first}) = Cardinality(Events) - 1 /\ Cardinality(Events) \in Nat
    BY <1>2, FiniteCounts, FS_RemoveElement
  <1> QED BY <1>7, <1>8, <1>9, <1>10, <1>11

----------------------------------------------------------------------------
(* Every step keeps the invariant: the application thread. *)

(* InitSlotList called by C_Initialize, which finds no slot unless the      *)
(* process forked, or by C_UpdateSlotList.                                  *)
LEMMA SlotListCallInv ==
    ASSUME IInv, C_Initialize \/ C_UpdateSlotList
    PROVE  IInv'
  <1>1. /\ Call /\ InitSlotList /\ bP11Initialized' = TRUE
        /\ UNCHANGED <<worldVars, bP11Terminate, bMonitorUpdate, joinable, pending_,
                       mon, waiter, cancelled, forks>>
    <2>1. bP11Initialized \in BOOLEAN
      BY DEF IInv, RestTyped
    <2> QED BY <2>1 DEF C_Initialize, C_UpdateSlotList
  <1>2. /\ SlotsInv' /\ Events' = Events /\ Len(slots') >= Len(slots)
        /\ \/ UNCHANGED <<slots, app, p11Mutex>>
           \/ /\ slots' # <<>> /\ p11Mutex' = "app"
              /\ app' \in AppTypes /\ app'.at = "sweep"
    BY <1>1, InitSlotListFacts
  <1>3. /\ Len(slots) \in Nat /\ (slots = <<>> <=> Len(slots) = 0)
        /\ Len(slots') \in Nat /\ (slots' = <<>> <=> Len(slots') = 0)
    <2>1. slots \in Seq(SlotRec) /\ slots' \in Seq(SlotRec)
      BY <1>2 DEF IInv, SlotsInv
    <2> QED BY <2>1, EmptySeq
  <1>4. MonInv'
    BY <1>1, <1>2, <1>3, MonStays
  <1>5. AppInv'
    <2>1. app = Idle /\ AppInv
      BY <1>1 DEF Call, IInv
    <2>2. app' \in AppTypes /\ (app'.at = "sweep" => slots' # <<>>)
          /\ app'.at \notin {"cancel", "join"}
      BY <1>2, <2>1 DEF AppInv, Idle
    <2>3. joinable' <=> mon'.pc # "none"
      BY <1>1, <2>1 DEF AppInv
    <2> QED BY <1>1, <2>2, <2>3 DEF AppInv
  <1>6. RestTyped'
    <2>1. calls' \in Nat /\ p11Mutex' \in {"free", "app"}
      BY <1>1, <1>2 DEF IInv, RestTyped, Call
    <2> QED BY <1>1, <2>1 DEF IInv, RestTyped, worldVars
  <1>7. MonitorHasSlots'
    BY <1>1, <1>2, <1>3 DEF IInv, MonitorHasSlots
  <1>8. EventsCovered'
    <2>1. CASE bP11Initialized \/ forks # 0
      <3>1. Taken' = Taken /\ pending_' \in Nat /\ pending_' >= pending_
        BY <1>1, SameTaken DEF IInv, RestTyped
      <3>2. CASE bP11Initialized
        BY <1>1, <1>2, <3>1, <3>2, CoveredStill
      <3>3. CASE forks # 0
        BY <1>1, <3>3, CoveredIs
      <3> QED BY <2>1, <3>2, <3>3
    <2>2. CASE ~bP11Initialized /\ forks = 0
      <3>1. slots = <<>>
        BY <1>1, <2>2 DEF IInv, AppInv, Call
      <3>2. Events' = {}
        BY <1>2, <3>1 DEF Events
      <3>3. Taken' \subseteq Waiters /\ pending_' \in Nat
        BY <1>1 DEF Taken, IInv, RestTyped
      <3> QED BY <3>2, <3>3, CoveredEmpty
    <2> QED BY <2>1, <2>2
  <1> QED BY <1>2, <1>4, <1>5, <1>6, <1>7, <1>8 DEF IInv

(* One turn of the sweep over vanished readers. *)
LEMMA SweepInv ==
    ASSUME IInv, InitSlotListSweep
    PROVE  IInv'
  <1>1. /\ app.at = "sweep" /\ app.it \in DOMAIN slots
        /\ UNCHANGED <<moduleVars, worldVars, p11Mutex, pending_, mon, waiter,
                       cancelled, calls, forks>>
    BY DEF InitSlotListSweep
  <1>2. SlotsInv' /\ Len(slots') \in Nat /\ Len(slots') >= Len(slots)
    BY <1>1, SameSlots DEF IInv, moduleVars
  <1>3. app' \in AppTypes /\ app'.at = app.at
    <2>1. app \in [at : {"sweep"}, listed : SUBSET Readers, it : Nat, changed : BOOLEAN]
      BY <1>1, AppShapes DEF IInv, AppInv
    <2>2. Len(slots) \in Nat
      BY SlotsLen DEF IInv
    <2>3. app' \in [at : {"sweep"}, listed : SUBSET Readers, it : Nat, changed : BOOLEAN]
      <3> DEFINE n == IF app.it = 1 THEN Len(slots) ELSE app.it
      <3>1. n \in Nat /\ app.it + 1 \in Nat
        BY <2>1, <2>2
      <3>2. app' = [app EXCEPT !.it = app.it + 1] \/ app' = [app EXCEPT !.it = n, !.changed = TRUE]
        BY DEF InitSlotListSweep
      <3> HIDE DEF n
      <3>3. CASE app' = [app EXCEPT !.it = app.it + 1]
        BY <2>1, <3>1, <3>3
      <3>4. CASE app' = [app EXCEPT !.it = n, !.changed = TRUE]
        BY <2>1, <3>1, <3>4
      <3> QED BY <3>2, <3>3, <3>4
    <2>4. app'.at = "sweep"
      BY <2>3
    <2> QED BY <1>1, <2>3, <2>4 DEF AppTypes
  <1>4. AppInv'
    BY <1>1, <1>3, AppStays DEF moduleVars
  <1>5. MonInv'
    BY <1>1, <1>2, MonStays
  <1>6. RestTyped' /\ MonitorHasSlots'
    BY <1>1 DEF IInv, RestTyped, MonitorHasSlots, moduleVars, worldVars
  <1>7. EventsCovered'
    <2>1. pending_' \in Nat /\ pending_' >= pending_
      BY <1>1 DEF IInv, RestTyped
    <2> QED BY <1>1, <2>1, CoveredStill, SameEvents, SameTaken DEF moduleVars
  <1> QED BY <1>2, <1>4, <1>5, <1>6, <1>7 DEF IInv

(* The end of InitSlotList, where a thread may be started. *)
LEMMA SlotListDoneInv ==
    ASSUME IInv, InitSlotListDone
    PROVE  IInv'
  <1>1. /\ app.at = "sweep" /\ joinable' = TRUE /\ app' = Idle /\ p11Mutex' = "free"
        /\ mon' = (IF joinable THEN mon ELSE [NoThread EXCEPT !.pc = "start"])
        /\ bMonitorUpdate' = app.changed
        /\ UNCHANGED <<worldVars, bP11Initialized, bP11Terminate, slots, pending_,
                       waiter, cancelled, calls, forks>>
    BY DEF InitSlotListDone
  <1>2. bP11Initialized /\ slots # <<>> /\ (joinable <=> mon.pc # "none")
    BY <1>1 DEF IInv, AppInv
  <1>3. SlotsInv' /\ Len(slots') \in Nat /\ Len(slots') >= Len(slots)
    BY <1>1, SameSlots DEF IInv
  <1>4. MonInv' /\ mon'.pc # "none"
    <2>1. CASE joinable
      BY <1>1, <1>2, <1>3, <2>1, MonStays
    <2>2. CASE ~joinable
      <3>1. mon' = [NoThread EXCEPT !.pc = "start"]
        BY <1>1, <2>2
      <3>2. /\ DOMAIN mon' = MonFields /\ mon'.pc = "start" /\ mon'.ris = "OK"
            /\ mon'.num = 0 /\ mon'.i = 0 /\ mon'.watched = <<>>
        BY <3>1 DEF NoThread, MonFields
      <3>3. <<>> \in Seq(Readers)
        OBVIOUS
      <3> QED BY <3>2, <3>3 DEF MonInv, MonPCs, Running, Live, Results
    <2> QED BY <2>1, <2>2
  <1>5. AppInv'
    <2>1. app' \in AppTypes /\ app'.at = "idle"
      BY <1>1 DEF AppTypes, Idle
    <2> QED BY <1>1, <1>2, <1>4, <2>1 DEF AppInv
  <1>6. RestTyped'
    <2>1. app \in [at : {"sweep"}, listed : SUBSET Readers, it : Nat, changed : BOOLEAN]
      BY <1>1, AppShapes DEF IInv, AppInv
    <2>2. bMonitorUpdate' \in BOOLEAN
      BY <1>1, <2>1
    <2> QED BY <1>1, <2>2 DEF IInv, RestTyped, worldVars
  <1>7. MonitorHasSlots'
    BY <1>1, <1>2 DEF MonitorHasSlots
  <1>8. EventsCovered'
    <2>1. pending_' \in Nat /\ pending_' >= pending_
      BY <1>1 DEF IInv, RestTyped
    <2> QED BY <1>1, <2>1, CoveredStill, SameEvents, SameTaken
  <1> QED BY <1>3, <1>4, <1>5, <1>6, <1>7, <1>8 DEF IInv

(* C_Finalize up to its Cancel: the slots stay as long as there is a thread *)
(* to join.                                                                 *)
LEMMA FinalizeInv ==
    ASSUME IInv, C_Finalize
    PROVE  IInv'
  <1>1. /\ Call /\ bP11Initialized' = FALSE
        /\ UNCHANGED <<worldVars, bMonitorUpdate, joinable, pending_, mon, waiter,
                       cancelled, forks>>
    BY DEF C_Finalize
  <1>2. EventsCovered'
    BY <1>1, CoveredIs
  <1>3. app = Idle /\ AppInv /\ calls' \in Nat
    BY <1>1 DEF Call, IInv, RestTyped
  <1>4. CASE joinable /\ UNCHANGED slots
    <2>1. /\ bP11Terminate' = TRUE /\ p11Mutex' = "app"
          /\ app' = [at |-> "cancel", tc |-> IF mon.pc \in Live THEN "alive" ELSE "null"]
      <3>1. joinable
        BY <1>4
      <3> QED BY <3>1 DEF C_Finalize
    <2>2. SlotsInv' /\ Len(slots') \in Nat /\ Len(slots') >= Len(slots)
      BY <1>4, SameSlots DEF IInv
    <2>3. MonInv'
      BY <1>1, <2>2, MonStays
    <2>4. app' \in AppTypes /\ app'.at = "cancel" /\ app' # Idle
      BY <2>1 DEF AppTypes, Idle
    <2>5. AppInv'
      BY <1>1, <1>3, <1>4, <2>4 DEF AppInv
    <2>6. RestTyped'
      BY <1>1, <1>3, <2>1 DEF IInv, RestTyped, worldVars
    <2>7. MonitorHasSlots'
      BY <1>1, <1>4 DEF IInv, MonitorHasSlots
    <2> QED BY <1>2, <2>2, <2>3, <2>5, <2>6, <2>7 DEF IInv
  <1>5. CASE ~joinable /\ slots' = <<>>
    <2>1. UNCHANGED <<bP11Terminate, app, p11Mutex>>
      <3>1. ~joinable
        BY <1>5
      <3> QED BY <3>1 DEF C_Finalize
    <2>2. mon.pc = "none"
      BY <1>3, <1>5 DEF AppInv
    <2>3. SlotsInv'
      <3>1. <<>> \in Seq(SlotRec) /\ DOMAIN <<>> = {}
        BY EmptySeq
      <3> QED BY <1>5, <3>1 DEF SlotsInv, Unique
    <2>4. MonInv'
      BY <1>1, <2>2 DEF IInv, MonInv
    <2>5. AppInv'
      <3>1. app'.at = "idle"
        BY <1>3, <2>1 DEF Idle
      <3> QED BY <1>1, <1>3, <1>5, <2>1, <3>1 DEF AppInv
    <2>6. RestTyped'
      BY <1>1, <1>3, <2>1 DEF IInv, RestTyped, worldVars
    <2>7. MonitorHasSlots'
      BY <1>1, <2>2 DEF MonitorHasSlots, Running, Live
    <2> QED BY <1>2, <2>3, <2>4, <2>5, <2>6, <2>7 DEF IInv
  <1> QED BY <1>4, <1>5 DEF C_Finalize

(* Cancel, set the event, unlock. *)
LEMMA CancelInv ==
    ASSUME IInv, FinalizeCancel
    PROVE  IInv'
  <1>1. /\ app.at = "cancel" /\ app' = [at |-> "join"] /\ p11Mutex' = "free"
        /\ pending_' = pending_ + 1
        /\ cancelled' = (cancelled \/ (app.tc = "alive" /\ mon.pc = "wait"))
        /\ UNCHANGED <<moduleVars, worldVars, mon, waiter, calls, forks>>
    BY DEF FinalizeCancel, EventSet
  <1>2. SlotsInv' /\ Len(slots') \in Nat /\ Len(slots') >= Len(slots)
    BY <1>1, SameSlots DEF IInv, moduleVars
  <1>3. MonInv'
    BY <1>1, <1>2, MonStays
  <1>4. AppInv'
    <2>1. app' \in AppTypes /\ app'.at = "join" /\ app' # Idle
      BY <1>1 DEF AppTypes, Idle
    <2>2. AppInv
      BY DEF IInv
    <2> QED BY <1>1, <2>1, <2>2 DEF AppInv, moduleVars
  <1>5. pending_' \in Nat /\ pending_' >= pending_
    BY <1>1 DEF IInv, RestTyped
  <1>6. RestTyped'
    <2>1. cancelled' \in BOOLEAN
      BY <1>1
    <2> QED BY <1>1, <1>5, <2>1 DEF IInv, RestTyped, moduleVars, worldVars
  <1>7. MonitorHasSlots'
    BY <1>1 DEF IInv, MonitorHasSlots, moduleVars
  <1>8. EventsCovered'
    BY <1>1, <1>5, CoveredStill, SameEvents, SameTaken DEF moduleVars
  <1> QED BY <1>2, <1>3, <1>4, <1>6, <1>7, <1>8 DEF IInv

(* The join: the slots go when the monitor has gone. *)
LEMMA JoinInv ==
    ASSUME IInv, FinalizeJoin
    PROVE  IInv'
  <1>1. /\ app.at = "join" /\ joinable' = FALSE /\ mon' = NoThread /\ app' = Idle
        /\ bP11Terminate' = FALSE /\ slots' = <<>>
        /\ UNCHANGED <<worldVars, bP11Initialized, bMonitorUpdate, p11Mutex,
                       pending_, waiter, cancelled, calls, forks>>
    BY DEF FinalizeJoin
  <1>2. SlotsInv'
    <2>1. <<>> \in Seq(SlotRec) /\ DOMAIN <<>> = {}
      BY EmptySeq
    <2> QED BY <1>1, <2>1 DEF SlotsInv, Unique
  <1>3. MonInv' /\ mon'.pc = "none"
    <2>1. /\ DOMAIN mon' = MonFields /\ mon'.pc = "none" /\ mon'.ris = "OK"
          /\ mon'.num = 0 /\ mon'.i = 0 /\ mon'.watched = <<>>
      BY <1>1 DEF NoThread, MonFields
    <2>2. <<>> \in Seq(Readers)
      OBVIOUS
    <2> QED BY <2>1, <2>2 DEF MonInv, MonPCs, Running, Live, Results
  <1>4. AppInv'
    <2>1. app' \in AppTypes /\ app'.at = "idle"
      BY <1>1 DEF AppTypes, Idle
    <2> QED BY <1>1, <1>3, <2>1 DEF AppInv
  <1>5. RestTyped'
    BY <1>1 DEF IInv, RestTyped, worldVars
  <1>6. MonitorHasSlots'
    BY <1>3 DEF MonitorHasSlots, Running, Live
  <1>7. EventsCovered'
    <2>1. ~bP11Initialized
      BY <1>1 DEF IInv, AppInv
    <2> QED BY <1>1, <2>1, CoveredIs
  <1> QED BY <1>2, <1>3, <1>4, <1>5, <1>6, <1>7 DEF IInv

(* The child of a fork, which has no threads but its own. *)
LEMMA ForkInv ==
    ASSUME IInv, P11AtForkChild
    PROVE  IInv'
  <1>1. /\ app = Idle /\ forks' = forks + 1
        /\ bP11Initialized' = FALSE /\ bP11Terminate' = FALSE /\ p11Mutex' = "free"
        /\ mon' = (IF mon.pc \in Running THEN [NoThread EXCEPT !.pc = "gone"] ELSE mon)
        /\ waiter' = [w \in Waiters |-> "idle"]
        /\ UNCHANGED <<worldVars, slots, bMonitorUpdate, joinable, pending_, app,
                       cancelled, calls>>
    BY DEF P11AtForkChild
  <1>2. SlotsInv' /\ Len(slots') \in Nat /\ Len(slots') >= Len(slots)
    BY <1>1, SameSlots DEF IInv
  <1>3. MonInv' /\ (mon'.pc = "none" <=> mon.pc = "none") /\ mon'.pc \notin Running
    <2>1. CASE mon.pc \in Running
      <3>1. mon' = [NoThread EXCEPT !.pc = "gone"]
        BY <1>1, <2>1
      <3>2. /\ DOMAIN mon' = MonFields /\ mon'.pc = "gone" /\ mon'.ris = "OK"
            /\ mon'.num = 0 /\ mon'.i = 0 /\ mon'.watched = <<>>
        BY <3>1 DEF NoThread, MonFields
      <3>3. <<>> \in Seq(Readers)
        OBVIOUS
      <3> QED BY <2>1, <3>2, <3>3 DEF MonInv, MonPCs, Running, Live, Results
    <2>2. CASE mon.pc \notin Running
      <3>1. UNCHANGED mon
        BY <1>1, <2>2
      <3> QED BY <1>2, <2>2, <3>1, MonStays
    <2> QED BY <2>1, <2>2
  <1>4. AppInv'
    <2>1. forks' # 0
      BY <1>1 DEF IInv, RestTyped
    <2>2. app'.at = "idle" /\ app' \in AppTypes
      BY <1>1 DEF Idle, AppTypes
    <2>3. joinable' <=> mon'.pc # "none"
      BY <1>1, <1>3 DEF IInv, AppInv
    <2> QED BY <2>1, <2>2, <2>3 DEF AppInv
  <1>5. RestTyped'
    <2>1. forks' \in Nat /\ waiter' \in [Waiters -> {"idle", "blocked", "woken", "scan"}]
      BY <1>1 DEF IInv, RestTyped
    <2> QED BY <1>1, <2>1 DEF IInv, RestTyped, worldVars
  <1>6. MonitorHasSlots'
    BY <1>3 DEF MonitorHasSlots
  <1>7. EventsCovered'
    BY <1>1, CoveredIs
  <1> QED BY <1>2, <1>3, <1>4, <1>5, <1>6, <1>7 DEF IInv

----------------------------------------------------------------------------
(* Every step keeps the invariant: the waiters. *)

(* A step of C_WaitForSlotEvent: the parts it cannot disturb. *)
LEMMA WaiterKeeps ==
    ASSUME IInv, SlotsInv', Len(slots') = Len(slots),
           pending_' \in Nat, waiter' \in [Waiters -> {"idle", "blocked", "woken", "scan"}],
           UNCHANGED <<worldVars, bP11Initialized, bP11Terminate, bMonitorUpdate, joinable,
                       p11Mutex, app, mon, cancelled, calls, forks>>,
           EventsCovered'
    PROVE  IInv'
  <1>1. /\ Len(slots) \in Nat /\ (slots = <<>> <=> Len(slots) = 0)
        /\ (slots' = <<>> <=> Len(slots') = 0)
    <2>1. slots \in Seq(SlotRec) /\ slots' \in Seq(SlotRec)
      BY DEF IInv, SlotsInv
    <2> QED BY <2>1, EmptySeq
  <1>2. MonInv'
    BY <1>1, MonStays
  <1>3. AppInv'
    <2>1. app' \in AppTypes /\ app'.at = app.at
      BY DEF IInv, AppInv
    <2> QED BY <1>1, <2>1, AppStays
  <1>4. RestTyped'
    BY DEF IInv, RestTyped, worldVars
  <1>5. MonitorHasSlots'
    BY <1>1 DEF IInv, MonitorHasSlots
  <1> QED BY <1>2, <1>3, <1>4, <1>5 DEF IInv

(* The form that does not block consumes no set(). *)
LEMMA DontBlockInv ==
    ASSUME IInv, C_WaitForSlotEvent_DontBlock
    PROVE  IInv'
  <1>1. /\ TakeEvent
        /\ UNCHANGED <<worldVars, bP11Initialized, bP11Terminate, bMonitorUpdate, joinable,
                       p11Mutex, pending_, app, mon, waiter, cancelled, calls, forks>>
    BY DEF C_WaitForSlotEvent_DontBlock
  <1>2. /\ SlotsInv' /\ Len(slots') = Len(slots) /\ Cardinality(Events) \in Nat
        /\ Cardinality(Events') = Cardinality(Events) - 1
    BY <1>1, TakeEventFacts
  <1>3. EventsCovered'
    <2>1. Taken' = Taken /\ pending_ \in Nat /\ Cardinality(Taken) \in Nat
      BY <1>1, SameTaken, FiniteCounts DEF IInv, RestTyped
    <2>2. bP11Initialized /\ forks = 0 => Cardinality(Events) <= pending_ + Cardinality(Taken)
      BY CoveredIs DEF IInv
    <2>3. bP11Initialized /\ forks = 0 => Cardinality(Events') <= pending_ + Cardinality(Taken)
      BY <1>2, <2>1, <2>2
    <2> QED BY <1>1, <2>1, <2>3, CoveredIs
  <1>4. pending_' \in Nat /\ waiter' \in [Waiters -> {"idle", "blocked", "woken", "scan"}]
    BY <1>1 DEF IInv, RestTyped
  <1> QED BY <1>1, <1>2, <1>3, <1>4, WaiterKeeps

(* The waiters that consumed a set(), when one waiter moves. *)
LEMMA TakenMoves ==
    ASSUME IInv, NEW w \in Waiters, NEW v \in {"idle", "blocked", "woken", "scan"},
           waiter' = [waiter EXCEPT ![w] = v]
    PROVE  /\ waiter' \in [Waiters -> {"idle", "blocked", "woken", "scan"}]
           /\ v \in {"woken", "scan"} => Taken' = Taken \cup {w}
           /\ v \notin {"woken", "scan"} => Taken' = Taken \ {w}
  <1>1. waiter \in [Waiters -> {"idle", "blocked", "woken", "scan"}]
    BY DEF IInv, RestTyped
  <1>2. waiter'[w] = v /\ \A u \in Waiters : u # w => waiter'[u] = waiter[u]
    BY <1>1
  <1> QED BY <1>1, <1>2 DEF Taken

(* Entering the wait. *)
LEMMA WaitEnterInv ==
    ASSUME IInv, NEW w \in Waiters, WaitEnter(w)
    PROVE  IInv'
  <1>1. /\ waiter[w] = "idle" /\ waiter' = [waiter EXCEPT ![w] = "blocked"]
        /\ UNCHANGED <<moduleVars, worldVars, p11Mutex, pending_, app, mon,
                       cancelled, calls, forks>>
    BY DEF WaitEnter
  <1>2. Taken' = Taken /\ waiter' \in [Waiters -> {"idle", "blocked", "woken", "scan"}]
    <2>1. w \notin Taken
      BY <1>1 DEF Taken
    <2>2. Taken' = Taken \ {w} /\ waiter' \in [Waiters -> {"idle", "blocked", "woken", "scan"}]
      BY <1>1, TakenMoves
    <2>3. Taken' = Taken
      BY <2>1, <2>2, Zenon
    <2> QED BY <2>2, <2>3
  <1>3. SlotsInv' /\ Len(slots') = Len(slots)
    BY <1>1, SameSlots DEF IInv, moduleVars
  <1>4. pending_' \in Nat /\ pending_' >= pending_
    BY <1>1 DEF IInv, RestTyped
  <1>5. EventsCovered'
    BY <1>1, <1>2, <1>4, CoveredStill, SameEvents DEF moduleVars
  <1> QED BY <1>1, <1>2, <1>3, <1>4, <1>5, WaiterKeeps DEF moduleVars

(* Waking up: the set() passes from the count to the waiter. *)
LEMMA WaitWakeInv ==
    ASSUME IInv, NEW w \in Waiters, WaitWake(w)
    PROVE  IInv'
  <1>1. /\ waiter[w] = "blocked" /\ waiter' = [waiter EXCEPT ![w] = "woken"]
        /\ pending_ > 0 /\ pending_' = pending_ - 1
        /\ UNCHANGED <<moduleVars, worldVars, p11Mutex, app, mon, cancelled, calls, forks>>
    BY DEF WaitWake, EventWait
  <1>2. /\ Taken' = Taken \cup {w} /\ w \notin Taken
        /\ waiter' \in [Waiters -> {"idle", "blocked", "woken", "scan"}]
    <2>1. w \notin Taken
      BY <1>1 DEF Taken
    <2> QED BY <1>1, <2>1, TakenMoves
  <1>3. SlotsInv' /\ Len(slots') = Len(slots)
    BY <1>1, SameSlots DEF IInv, moduleVars
  <1>4. pending_ \in Nat /\ pending_' \in Nat
    BY <1>1 DEF IInv, RestTyped
  <1>5. EventsCovered'
    <2>1. /\ Cardinality(Taken') = Cardinality(Taken) + 1 /\ Cardinality(Taken) \in Nat
          /\ Events' = Events /\ Cardinality(Events) \in Nat
      BY <1>1, <1>2, FiniteCounts, FS_AddElement, SameEvents DEF moduleVars
    <2>2. bP11Initialized /\ forks = 0 => Cardinality(Events) <= pending_ + Cardinality(Taken)
      BY CoveredIs DEF IInv
    <2>3. bP11Initialized /\ forks = 0 => Cardinality(Events') <= pending_' + Cardinality(Taken')
      BY <1>1, <1>4, <2>1, <2>2
    <2> QED BY <1>1, <2>3, CoveredIs DEF moduleVars
  <1> QED BY <1>1, <1>2, <1>3, <1>4, <1>5, WaiterKeeps DEF moduleVars

(* The check after the wait: a set() goes unused only when finalized. *)
LEMMA WaitCheckInv ==
    ASSUME IInv, NEW w \in Waiters, WaitCheck(w)
    PROVE  IInv'
  <1>1. /\ waiter[w] = "woken"
        /\ waiter' = [waiter EXCEPT ![w] = IF bP11Initialized THEN "scan" ELSE "idle"]
        /\ UNCHANGED <<moduleVars, worldVars, p11Mutex, pending_, app, mon,
                       cancelled, calls, forks>>
    BY DEF WaitCheck
  <1>2. SlotsInv' /\ Len(slots') = Len(slots)
    BY <1>1, SameSlots DEF IInv, moduleVars
  <1>3. pending_' \in Nat /\ pending_' >= pending_
    BY <1>1 DEF IInv, RestTyped
  <1>4. CASE bP11Initialized
    <2>1. waiter' = [waiter EXCEPT ![w] = "scan"] /\ w \in Taken
      BY <1>1, <1>4 DEF Taken
    <2>2. Taken' = Taken /\ waiter' \in [Waiters -> {"idle", "blocked", "woken", "scan"}]
      <3>1. /\ Taken' = Taken \cup {w}
            /\ waiter' \in [Waiters -> {"idle", "blocked", "woken", "scan"}]
        BY <2>1, TakenMoves
      <3>2. Taken' = Taken
        BY <2>1, <3>1, Zenon
      <3> QED BY <3>1, <3>2
    <2>3. EventsCovered'
      BY <1>1, <1>3, <2>2, CoveredStill, SameEvents DEF moduleVars
    <2> QED BY <1>1, <1>2, <1>3, <2>2, <2>3, WaiterKeeps DEF moduleVars
  <1>5. CASE ~bP11Initialized
    <2>1. waiter' = [waiter EXCEPT ![w] = "idle"]
      BY <1>1, <1>5
    <2>2. waiter' \in [Waiters -> {"idle", "blocked", "woken", "scan"}]
      BY <2>1, TakenMoves
    <2>3. EventsCovered'
      BY <1>1, <1>5, CoveredIs DEF moduleVars
    <2> QED BY <1>1, <1>2, <1>3, <2>2, <2>3, WaiterKeeps DEF moduleVars
  <1> QED BY <1>4, <1>5

(* The scan: an event and a set() go together, or there is no event. *)
LEMMA WaitScanInv ==
    ASSUME IInv, NEW w \in Waiters, WaitScan(w)
    PROVE  IInv'
  <1>1. /\ waiter[w] = "scan"
        /\ UNCHANGED <<worldVars, bP11Initialized, bP11Terminate, bMonitorUpdate, joinable,
                       p11Mutex, pending_, app, mon, cancelled, calls, forks>>
    BY DEF WaitScan
  <1>2. pending_ \in Nat /\ pending_' \in Nat /\ pending_' = pending_
    BY <1>1 DEF IInv, RestTyped
  <1>3. CASE TakeEvent /\ waiter' = [waiter EXCEPT ![w] = "idle"]
    <2>1. /\ SlotsInv' /\ Len(slots') = Len(slots) /\ Cardinality(Events) \in Nat
          /\ Cardinality(Events') = Cardinality(Events) - 1
      BY <1>3, TakeEventFacts
    <2>2. /\ Taken' = Taken \ {w} /\ w \in Taken
          /\ waiter' \in [Waiters -> {"idle", "blocked", "woken", "scan"}]
      <3>1. w \in Taken
        BY <1>1 DEF Taken
      <3> QED BY <1>3, <3>1, TakenMoves
    <2>3. Cardinality(Taken') = Cardinality(Taken) - 1 /\ Cardinality(Taken) \in Nat
      BY <2>2, FiniteCounts, FS_RemoveElement
    <2>4. bP11Initialized /\ forks = 0 => Cardinality(Events) <= pending_ + Cardinality(Taken)
      BY CoveredIs DEF IInv
    <2>5. bP11Initialized /\ forks = 0 => Cardinality(Events') <= pending_' + Cardinality(Taken')
      BY <1>2, <2>1, <2>3, <2>4
    <2>6. EventsCovered'
      BY <1>1, <2>5, CoveredIs
    <2> QED BY <1>1, <1>2, <2>1, <2>2, <2>6, WaiterKeeps
  <1>4. CASE Events = {} /\ waiter' = [waiter EXCEPT ![w] = "blocked"] /\ UNCHANGED slots
    <2>1. SlotsInv' /\ Len(slots') = Len(slots)
      BY <1>4, SameSlots DEF IInv
    <2>2. waiter' \in [Waiters -> {"idle", "blocked", "woken", "scan"}]
      BY <1>4, TakenMoves
    <2>3. Events' = {} /\ Taken' \subseteq Waiters
      BY <1>4, SameEvents DEF Taken
    <2>4. EventsCovered'
      BY <1>2, <2>3, CoveredEmpty
    <2> QED BY <1>1, <1>2, <2>1, <2>2, <2>4, WaiterKeeps
  <1> QED BY <1>3, <1>4 DEF WaitScan

(* The world outside touches none of this. *)
LEMMA WorldInv ==
    ASSUME IInv, World
    PROVE  IInv'
  <1>1. UNCHANGED <<moduleVars, p11Mutex, pending_, app, mon, waiter, cancelled, calls, forks>>
    BY DEF World
  <1>2. SlotsInv' /\ Len(slots') \in Nat /\ Len(slots') >= Len(slots)
    BY <1>1, SameSlots DEF IInv, moduleVars
  <1>3. MonInv'
    BY <1>1, <1>2, MonStays
  <1>4. AppInv'
    <2>1. app' \in AppTypes
      BY <1>1 DEF IInv, AppInv
    <2> QED BY <1>1, <2>1, AppStays DEF moduleVars
  <1>5. MonitorHasSlots'
    BY <1>1 DEF IInv, MonitorHasSlots, moduleVars
  <1>6. EventsCovered'
    <2>1. pending_' \in Nat /\ pending_' >= pending_
      BY <1>1 DEF IInv, RestTyped
    <2> QED BY <1>1, <2>1, CoveredStill, SameEvents, SameTaken DEF moduleVars
  <1>7. cards' \subseteq plugged' /\ plugged' \subseteq Readers
    <2>1. cards \subseteq plugged /\ plugged \subseteq Readers
      BY DEF IInv, RestTyped
    <2> QED BY <2>1 DEF World
  <1>8. changes' \in Nat
    BY DEF World, IInv, RestTyped
  <1>9. service' \in BOOLEAN
    <2>1. service \in BOOLEAN
      BY DEF IInv, RestTyped
    <2>2. service' = service \/ service' = ~service
      BY DEF World
    <2> QED BY <2>1, <2>2
  <1>10. RestTyped'
    BY <1>1, <1>7, <1>8, <1>9 DEF IInv, RestTyped, moduleVars
  <1> QED BY <1>2, <1>3, <1>4, <1>5, <1>6, <1>10 DEF IInv

----------------------------------------------------------------------------
(* Every step keeps the invariant: slotMonitor. *)

(* A thread at its start or at its end. *)
LEMMA NewThread ==
    ASSUME NEW p \in {"start", "exited"}, mon' = [NoThread EXCEPT !.pc = p]
    PROVE  MonInv' /\ mon'.pc = p /\ mon'.watched = <<>>
  <1>1. /\ DOMAIN mon' = MonFields /\ mon'.pc = p /\ mon'.ris = "OK"
        /\ mon'.num = 0 /\ mon'.i = 0 /\ mon'.watched = <<>>
    BY DEF NoThread, MonFields
  <1>2. <<>> \in Seq(Readers)
    OBVIOUS
  <1>3. p \in MonPCs /\ p \notin Live /\ p \notin {"snapshot", "returned", "handle"}
    BY DEF MonPCs, Running, Live
  <1>4. "OK" \in Results /\ 0 \in Nat
    BY DEF Results
  <1> QED BY <1>1, <1>2, <1>3, <1>4 DEF MonInv

(* What PC/SC says of a reader. *)
LEMMA ReaderStates ==
    ASSUME NEW r PROVE ReaderState(r) \in States
  BY DEF ReaderState, States

(* The parts of the invariant about the monitor and the variables that a   *)
(* step of it reads.                                                       *)
LEMMA MonitorReads ==
    ASSUME IInv
    PROVE  /\ MonInv /\ AppInv /\ app \in AppTypes /\ pending_ \in Nat
           /\ cancelled \in BOOLEAN /\ bMonitorUpdate \in BOOLEAN
           /\ Len(slots) \in Nat /\ pending_ >= pending_
  <1>1. Len(slots) \in Nat
    BY SlotsLen DEF IInv
  <1> QED BY <1>1 DEF IInv, AppInv, RestTyped

(* The context is made and the slots are counted. *)
LEMMA MonitorStartInv ==
    ASSUME IInv, MonitorStart
    PROVE  IInv' /\ mon'.watched = mon.watched
  <1>1. MonInv /\ Len(slots) \in Nat /\ mon.pc = "start"
        /\ mon' = [mon EXCEPT !.pc = "snapshot", !.num = Len(slots)] /\ UNCHANGED slots
    BY MonitorReads DEF MonitorStart, moduleVars
  <1>2. /\ DOMAIN mon' = MonFields /\ mon'.pc = "snapshot" /\ mon'.num = Len(slots)
        /\ mon'.ris = mon.ris /\ mon'.i = mon.i /\ mon'.watched = mon.watched
    BY <1>1 DEF MonInv, MonFields
  <1>3. MonInv'
    BY <1>1, <1>2 DEF MonInv, MonPCs, Running, Live
  <1>4. /\ UNCHANGED <<moduleVars, worldVars, p11Mutex, pending_, app, waiter,
                       cancelled, calls, forks>>
        /\ mon.pc \in Running /\ mon'.pc # "none"
    BY <1>2 DEF MonitorStart, Running, Live
  <1>5. IInv'
    BY <1>3, <1>4, MonitorReads, MonitorKeeps DEF moduleVars
  <1> QED BY <1>2, <1>5

(* The arrays made in the snapshot. *)
LEMMA SnapshotArrays ==
    ASSUME IInv, mon.pc = "snapshot"
    PROVE  LET seen == SubSeq(slots, 1, mon.num)
               w == [i \in DOMAIN seen |-> seen[i].reader]
           IN  /\ w \in Seq(Readers) /\ DOMAIN w = DOMAIN seen
               /\ \A i \in DOMAIN w : w[i] \in ReadersOf(slots)
               /\ [i \in DOMAIN seen |-> ReaderState(seen[i].reader)] \in [DOMAIN w -> States]
  <1>1. /\ slots \in Seq(SlotRec) /\ mon.num \in Nat /\ mon.num <= Len(slots)
        /\ Len(slots) \in Nat /\ DOMAIN slots = 1..Len(slots)
        /\ \A i \in DOMAIN slots : slots[i] \in SlotRec
    BY SlotsLen DEF IInv, SlotsInv, MonInv
  <1> DEFINE n == mon.num
             seen == SubSeq(slots, 1, n)
             w == [i \in DOMAIN seen |-> seen[i].reader]
             c == [i \in DOMAIN seen |-> ReaderState(seen[i].reader)]
  <1>2. /\ DOMAIN seen = 1..n /\ n \in Nat
        /\ \A i \in 1..n : i \in DOMAIN slots /\ seen[i] = slots[i]
    <2> HIDE DEF n
    <2>1. n \in Nat /\ n <= Len(slots)
      BY <1>1 DEF n
    <2>2. seen \in Seq(SlotRec) /\ Len(seen) = n
      BY <1>1, <2>1, SubSeqProperties
    <2>3. \A i \in 1..n : seen[i] = slots[i]
      BY <1>1, <2>1, SubSeqProperties
    <2>4. DOMAIN seen = 1..n
      BY <2>2
    <2> QED BY <1>1, <2>1, <2>3, <2>4
  <1> HIDE DEF seen, n
  <1>3. w \in [1..n -> Readers]
    <2>1. \A i \in 1..n : seen[i].reader \in Readers
      BY <1>1, <1>2 DEF SlotRec
    <2> QED BY <1>2, <2>1
  <1>4. w \in Seq(Readers)
    BY <1>2, <1>3
  <1>5. c \in [DOMAIN w -> States] /\ DOMAIN w = DOMAIN seen
    BY ReaderStates
  <1>6. \A i \in DOMAIN w : w[i] \in ReadersOf(slots)
    BY <1>2 DEF ReadersOf
  <1> QED BY <1>4, <1>5, <1>6 DEF seen, n

(* The snapshot: the readers it watches are readers of slots, and only a    *)
(* finalized module, a stopped service or a vanished reader ends the        *)
(* thread.                                                                  *)
LEMMA MonitorSnapshotInv ==
    ASSUME IInv, MonitorSnapshot
    PROVE  /\ IInv'
           /\ \A i \in DOMAIN mon'.watched : mon'.watched[i] \in ReadersOf(slots)
           /\ mon'.pc \in {"clear", "exited"} /\ (mon'.pc = "clear" => bP11Initialized)
           /\ mon'.pc = "exited" => \/ ~bP11Initialized \/ ~service
                                    \/ ~(ReadersOf(slots) \subseteq plugged)
  <1>1. /\ mon.pc = "snapshot"
        /\ UNCHANGED <<moduleVars, worldVars, p11Mutex, pending_, waiter, cancelled,
                       calls, forks>>
    BY DEF MonitorSnapshot
  <1> DEFINE seen == SubSeq(slots, 1, mon.num)
             w == [i \in DOMAIN seen |-> seen[i].reader]
             c == [i \in DOMAIN seen |-> ReaderState(seen[i].reader)]
  <1>2. CASE /\ mon' = [mon EXCEPT !.pc = "clear", !.watched = w, !.current = c]
             /\ UNCHANGED app /\ bP11Initialized
    <2>1. w \in Seq(Readers) /\ c \in [DOMAIN w -> States]
          /\ \A i \in DOMAIN w : w[i] \in ReadersOf(slots)
      BY <1>1, SnapshotArrays
    <2> HIDE DEF w, c
    <2>2. /\ DOMAIN mon' = MonFields /\ mon'.pc = "clear" /\ mon'.num = mon.num
          /\ mon'.ris = mon.ris /\ mon'.i = mon.i /\ mon'.watched = w /\ mon'.current = c
      BY <1>2, MonitorReads DEF MonInv, MonFields
    <2>3. MonInv'
      BY <2>1, <2>2, MonitorReads DEF MonInv, MonPCs, Running, Live
    <2>4. IInv'
      BY <1>1, <1>2, <2>2, <2>3, MonitorReads, MonitorKeeps DEF moduleVars, Running, Live
    <2> QED BY <1>2, <2>1, <2>2, <2>4
  <1>3. CASE Exit /\ (~bP11Initialized \/ ~service \/ ~(ReadersOf(slots) \subseteq plugged))
    <2>1. mon' = [NoThread EXCEPT !.pc = "exited"] /\ DropContext
      BY <1>3 DEF Exit
    <2>2. MonInv' /\ mon'.pc = "exited" /\ mon'.watched = <<>>
      BY <2>1, NewThread
    <2>3. app' \in AppTypes /\ app'.at = app.at
      BY <2>1, MonitorReads, DropContextStays
    <2>4. IInv'
      BY <1>1, <2>2, <2>3, MonitorReads, MonitorKeeps DEF moduleVars, Running, Live
    <2>5. DOMAIN mon'.watched = {}
      BY <2>2, EmptySeq
    <2> QED BY <1>3, <2>2, <2>4, <2>5
  <1> QED BY <1>2, <1>3 DEF MonitorSnapshot

(* The two steps between the snapshot and the wait. *)
LEMMA MonitorClearInv ==
    ASSUME IInv, MonitorClear
    PROVE  IInv' /\ mon'.pc = "validate" /\ mon'.watched = mon.watched
  <1>1. /\ mon.pc = "clear" /\ mon' = [mon EXCEPT !.pc = "validate"] /\ bMonitorUpdate' = FALSE
        /\ UNCHANGED <<worldVars, bP11Initialized, bP11Terminate, slots, joinable,
                       p11Mutex, pending_, app, waiter, cancelled, calls, forks>>
    BY DEF MonitorClear
  <1>2. /\ DOMAIN mon' = MonFields /\ mon'.pc = "validate" /\ mon'.num = mon.num
        /\ mon'.ris = mon.ris /\ mon'.i = mon.i /\ mon'.watched = mon.watched
        /\ mon'.current = mon.current
    BY <1>1, MonitorReads DEF MonInv, MonFields
  <1>3. MonInv'
    BY <1>1, <1>2, MonitorReads DEF MonInv, MonPCs, Running, Live
  <1>4. bMonitorUpdate' \in BOOLEAN
    BY <1>1, Zenon
  <1>5. IInv'
    BY <1>1, <1>2, <1>3, <1>4, MonitorReads, MonitorKeeps DEF Running, Live
  <1> QED BY <1>2, <1>5

(* The context is checked and the wait begins: no Cancel has reached it     *)
(* yet.                                                                     *)
LEMMA MonitorValidateInv ==
    ASSUME IInv, MonitorValidate
    PROVE  IInv' /\ mon'.pc = "wait" /\ mon'.watched = mon.watched /\ cancelled' = FALSE
  <1>1. /\ mon.pc = "validate" /\ mon' = [mon EXCEPT !.pc = "wait"] /\ cancelled' = FALSE
        /\ UNCHANGED <<moduleVars, worldVars, p11Mutex, pending_, app, waiter, calls, forks>>
    BY DEF MonitorValidate
  <1>2. /\ DOMAIN mon' = MonFields /\ mon'.pc = "wait" /\ mon'.num = mon.num
        /\ mon'.ris = mon.ris /\ mon'.i = mon.i /\ mon'.watched = mon.watched
        /\ mon'.current = mon.current
    BY <1>1, MonitorReads DEF MonInv, MonFields
  <1>3. MonInv'
    BY <1>1, <1>2, MonitorReads DEF MonInv, MonPCs, Running, Live
  <1>4. cancelled' \in BOOLEAN
    BY <1>1, Zenon
  <1>5. IInv'
    BY <1>1, <1>2, <1>3, <1>4, MonitorReads, MonitorKeeps DEF moduleVars, Running, Live
  <1> QED BY <1>1, <1>2, <1>5

(* SCardGetStatusChange returns. *)
LEMMA MonitorWaitInv ==
    ASSUME IInv, MonitorWait
    PROVE  /\ IInv' /\ mon.pc = "wait" /\ mon'.pc = "returned" /\ mon'.watched = mon.watched
           /\ mon'.ris = "CANCELLED" => cancelled
           /\ mon'.ris = "SERVICE" => ~service
           /\ mon'.ris = "NO_READERS" => plugged = {}
           /\ mon'.ris = "UNKNOWN_READER" =>
                \E i \in DOMAIN mon.watched : mon.watched[i] \notin plugged
  <1> DEFINE seen == [i \in DOMAIN mon.watched |-> ReaderState(mon.watched[i])]
  <1>1. /\ mon.pc = "wait"
        /\ UNCHANGED <<moduleVars, worldVars, p11Mutex, pending_, app, waiter,
                       cancelled, calls, forks>>
    BY DEF MonitorWait
  <1>2. PICK ris \in Results :
          /\ GetStatusChange(ris, seen)
          /\ mon' = [mon EXCEPT !.pc = "returned", !.ris = ris,
                       !.event = IF ris \in {"OK", "TIMEOUT"} THEN seen ELSE @]
    BY DEF MonitorWait
  <1>3. seen \in [DOMAIN mon.watched -> States]
    BY ReaderStates
  <1>4. \A i \in DOMAIN seen : seen[i] = "UNAVAILABLE" => mon.watched[i] \notin plugged
    BY DEF ReaderState
  <1>5. DOMAIN seen = DOMAIN mon.watched
    OBVIOUS
  <1> HIDE DEF seen
  <1> DEFINE ev == IF ris \in {"OK", "TIMEOUT"} THEN seen ELSE mon.event
  <1>6. mon' = [mon EXCEPT !.pc = "returned", !.ris = ris, !.event = ev]
    BY <1>2
  <1>7. ris \in {"OK", "TIMEOUT"} => ev \in [DOMAIN mon.watched -> States]
    BY <1>3
  <1> HIDE DEF ev
  <1>8. /\ DOMAIN mon' = MonFields /\ mon'.pc = "returned" /\ mon'.num = mon.num
        /\ mon'.ris = ris /\ mon'.i = mon.i /\ mon'.watched = mon.watched
        /\ mon'.current = mon.current /\ mon'.event = ev
    BY <1>6, MonitorReads DEF MonInv, MonFields
  <1>9. MonInv'
    BY <1>1, <1>7, <1>8, MonitorReads DEF MonInv, MonPCs, Running, Live
  <1>10. IInv'
    BY <1>1, <1>8, <1>9, MonitorReads, MonitorKeeps DEF moduleVars, Running, Live
  <1>11. ris = "CANCELLED" => cancelled
    BY <1>2 DEF GetStatusChange
  <1>12. ris = "SERVICE" => ~service
    BY <1>2 DEF GetStatusChange
  <1>13. ris = "NO_READERS" => plugged = {}
    BY <1>2 DEF GetStatusChange
  <1>14. ris = "UNKNOWN_READER" => \E i \in DOMAIN mon.watched : mon.watched[i] \notin plugged
    <2>1. ris = "UNKNOWN_READER" => \E i \in DOMAIN seen : seen[i] = "UNAVAILABLE"
      BY <1>2 DEF GetStatusChange
    <2> QED BY <1>4, <1>5, <2>1
  <1> QED BY <1>1, <1>8, <1>10, <1>11, <1>12, <1>13, <1>14

(* The tests on the answer: from the start again, or the end of the thread. *)
LEMMA MonitorEndsInv ==
    ASSUME IInv, MonitorRestart \/ MonitorStop \/ MonitorNoReaders
    PROVE  IInv'
  <1>1. /\ mon.pc = "returned"
        /\ UNCHANGED <<moduleVars, worldVars, p11Mutex, waiter, cancelled, calls, forks>>
        /\ DropContext
    BY DEF MonitorRestart, MonitorStop, MonitorNoReaders, Exit
  <1>2. \/ mon' = [NoThread EXCEPT !.pc = "start"]
        \/ mon' = [NoThread EXCEPT !.pc = "exited"]
    BY DEF MonitorRestart, MonitorStop, MonitorNoReaders, Exit
  <1>3. MonInv' /\ mon'.pc \in {"start", "exited"}
    BY <1>2, NewThread
  <1>4. pending_' \in Nat /\ pending_' >= pending_
    <2>1. pending_' = pending_ \/ pending_' = pending_ + 1
      BY DEF MonitorRestart, MonitorStop, MonitorNoReaders, EventSet
    <2> QED BY <2>1, MonitorReads
  <1>5. app' \in AppTypes /\ app'.at = app.at
    BY <1>1, MonitorReads, DropContextStays
  <1> QED BY <1>1, <1>3, <1>4, <1>5, MonitorReads, MonitorKeeps DEF moduleVars, Running, Live

(* The loop over the slots begins. *)
LEMMA MonitorScanInv ==
    ASSUME IInv, MonitorScan
    PROVE  IInv' /\ mon'.pc = "handle" /\ mon'.watched = mon.watched
  <1>1. /\ mon.pc = "returned" /\ mon' = [mon EXCEPT !.pc = "handle", !.i = 1]
        /\ mon.ris \in {"OK", "TIMEOUT"}
        /\ UNCHANGED <<moduleVars, worldVars, p11Mutex, pending_, app, waiter,
                       cancelled, calls, forks>>
    BY DEF MonitorScan
  <1>2. /\ DOMAIN mon' = MonFields /\ mon'.pc = "handle" /\ mon'.num = mon.num
        /\ mon'.ris = mon.ris /\ mon'.i = 1 /\ mon'.watched = mon.watched
        /\ mon'.current = mon.current /\ mon'.event = mon.event
    BY <1>1, MonitorReads DEF MonInv, MonFields
  <1>3. MonInv'
    BY <1>1, <1>2, MonitorReads DEF MonInv, MonPCs, Running, Live
  <1>4. IInv'
    BY <1>1, <1>2, <1>3, MonitorReads, MonitorKeeps DEF moduleVars, Running, Live
  <1> QED BY <1>2, <1>4

(* The monitor's own record of what it has handled. *)
LEMMA HandledMon ==
    ASSUME IInv, mon.pc = "handle", mon.i \in DOMAIN mon.watched,
           mon' = [mon EXCEPT !.current[mon.i] = mon.event[mon.i], !.i = @ + 1]
    PROVE  MonInv' /\ mon'.pc = "handle" /\ mon'.watched = mon.watched
  <1> DEFINE c == [mon.current EXCEPT ![mon.i] = mon.event[mon.i]]
  <1>1. c \in [DOMAIN mon.watched -> States]
    <2>1. mon.current \in [DOMAIN mon.watched -> States] /\ mon.event \in [DOMAIN mon.watched -> States]
      BY MonitorReads DEF MonInv, Live
    <2> QED BY <2>1
  <1>2. mon' = [mon EXCEPT !.current = c, !.i = @ + 1]
    OBVIOUS
  <1> HIDE DEF c
  <1>3. /\ DOMAIN mon' = MonFields /\ mon'.pc = "handle" /\ mon'.num = mon.num
        /\ mon'.ris = mon.ris /\ mon'.i = mon.i + 1 /\ mon'.watched = mon.watched
        /\ mon'.current = c /\ mon'.event = mon.event
    BY <1>2, MonitorReads DEF MonInv, MonFields
  <1>4. mon.i + 1 \in Nat
    BY MonitorReads DEF MonInv
  <1> QED BY <1>1, <1>3, <1>4, MonitorReads DEF MonInv, MonPCs, Running, Live

(* A slot without a change, or the end of the loop. *)
LEMMA MonitorSkipInv ==
    ASSUME IInv, MonitorSkip
    PROVE  IInv' /\ mon.pc = "handle" /\ mon'.pc \in {"handle", "validate"}
           /\ mon'.watched = mon.watched
  <1>1. /\ mon.pc = "handle"
        /\ UNCHANGED <<moduleVars, worldVars, p11Mutex, pending_, app, waiter,
                       cancelled, calls, forks>>
    BY DEF MonitorSkip
  <1>2. CASE mon.i \in DOMAIN mon.watched
    <2>1. mon' = [mon EXCEPT !.current[mon.i] = mon.event[mon.i], !.i = @ + 1]
      BY <1>2 DEF MonitorSkip
    <2>2. MonInv' /\ mon'.pc = "handle" /\ mon'.watched = mon.watched
      BY <1>1, <1>2, <2>1, HandledMon
    <2>3. IInv'
      BY <1>1, <2>2, MonitorReads, MonitorKeeps DEF moduleVars, Running, Live
    <2> QED BY <1>1, <2>2, <2>3
  <1>3. CASE mon.i \notin DOMAIN mon.watched
    <2>1. mon' = [mon EXCEPT !.pc = "validate", !.i = 0]
      BY <1>3 DEF MonitorSkip
    <2>2. /\ DOMAIN mon' = MonFields /\ mon'.pc = "validate" /\ mon'.num = mon.num
          /\ mon'.ris = mon.ris /\ mon'.i = 0 /\ mon'.watched = mon.watched
          /\ mon'.current = mon.current
      BY <2>1, MonitorReads DEF MonInv, MonFields
    <2>3. MonInv'
      BY <1>1, <2>2, MonitorReads DEF MonInv, MonPCs, Running, Live
    <2>4. IInv'
      BY <1>1, <2>2, <2>3, MonitorReads, MonitorKeeps DEF moduleVars, Running, Live
    <2> QED BY <1>1, <2>2, <2>4
  <1> QED BY <1>2, <1>3

(* An event recorded: at most one slot gains one, and one set() is made. *)
LEMMA MonitorReportInv ==
    ASSUME IInv, MonitorReport
    PROVE  /\ IInv' /\ mon.pc = "handle" /\ mon'.pc = "handle" /\ mon'.watched = mon.watched
           /\ DOMAIN slots' = DOMAIN slots
           /\ \A i \in DOMAIN slots : slots'[i].reader = slots[i].reader
  <1> DEFINE what == Change(mon.current[mon.i], mon.event[mon.i])
             r == mon.watched[mon.i]
  <1>1. /\ mon.pc = "handle" /\ mon.i \in DOMAIN mon.watched
        /\ slots' = [s \in DOMAIN slots |->
                       IF slots[s].reader = r THEN [slots[s] EXCEPT !.lastEvent = what]
                                              ELSE slots[s]]
        /\ pending_' = pending_ + 1
        /\ mon' = [mon EXCEPT !.current[mon.i] = mon.event[mon.i], !.i = @ + 1]
        /\ UNCHANGED <<worldVars, bP11Initialized, bP11Terminate, bMonitorUpdate, joinable,
                       p11Mutex, app, waiter, cancelled, calls, forks>>
    BY DEF MonitorReport, EventSet
  <1>2. what \in {"NoEvent", "Inserted", "Removed"}
    BY DEF Change
  <1> HIDE DEF what, r
  <1>3. MonInv' /\ mon'.pc = "handle" /\ mon'.watched = mon.watched
    BY <1>1, HandledMon
  <1>4. /\ Len(slots) \in Nat /\ DOMAIN slots = 1..Len(slots)
        /\ \A i \in DOMAIN slots : slots[i] \in SlotRec
    BY SlotsLen DEF IInv
  <1>5. ASSUME NEW s \in SlotRec
        PROVE  [s EXCEPT !.lastEvent = what] \in SlotRec
               /\ [s EXCEPT !.lastEvent = what].reader = s.reader
    BY <1>2 DEF SlotRec
  <1>6. /\ DOMAIN slots' = DOMAIN slots
        /\ \A s \in DOMAIN slots : slots'[s] \in SlotRec /\ slots'[s].reader = slots[s].reader
    BY <1>1, <1>4, <1>5
  <1>7. slots' \in Seq(SlotRec) /\ Len(slots') = Len(slots)
    <2>1. slots' \in [1..Len(slots) -> SlotRec]
      BY <1>1, <1>4, <1>6
    <2> QED BY <1>4, <2>1
  <1>8. Unique /\ Unique'
    <2>1. Unique
      BY DEF IInv, SlotsInv
    <2> QED BY <1>6, <2>1 DEF Unique
  <1>9. SlotsInv'
    BY <1>7, <1>8 DEF SlotsInv
  <1>10. /\ IsFiniteSet(Events) /\ Cardinality(Events) \in Nat /\ Cardinality(Taken) \in Nat
         /\ pending_ \in Nat
    BY FiniteCounts, MonitorReads
  <1>11. Cardinality(Events') <= Cardinality(Events) + 1 /\ Cardinality(Events') \in Nat
    <2>1. PICK k : Events' \subseteq Events \cup {k}
      <3>1. CASE \E k \in DOMAIN slots : slots[k].reader = r
        <4>1. PICK k \in DOMAIN slots : slots[k].reader = r
          BY <3>1
        <4>2. \A s \in DOMAIN slots : s # k => slots'[s] = slots[s]
          BY <1>1, <1>8, <4>1 DEF Unique
        <4>3. Events' \subseteq Events \cup {k}
          BY <1>6, <4>2 DEF Events
        <4> QED BY <4>3
      <3>2. CASE ~ \E k \in DOMAIN slots : slots[k].reader = r
        <4>1. \A s \in DOMAIN slots : slots'[s] = slots[s]
          BY <1>1, <3>2
        <4>2. Events' \subseteq Events \cup {0}
          BY <1>6, <4>1 DEF Events
        <4> QED BY <4>2
      <3> QED BY <3>1, <3>2
    <2>2. /\ IsFiniteSet(Events \cup {k}) /\ Cardinality(Events \cup {k}) \in Nat
          /\ Cardinality(Events \cup {k}) <= Cardinality(Events) + 1
      <3>1. IsFiniteSet(Events \cup {k})
        BY <1>10, FS_AddElement
      <3>2. Cardinality(Events \cup {k}) = IF k \in Events THEN Cardinality(Events)
                                           ELSE Cardinality(Events) + 1
        BY <1>10, FS_AddElement
      <3> QED BY <1>10, <3>1, <3>2
    <2>3. IsFiniteSet(Events') /\ Cardinality(Events') <= Cardinality(Events \cup {k})
      BY <2>1, <2>2, FS_Subset
    <2>4. Cardinality(Events') \in Nat
      BY <2>3, FS_CardinalityType
    <2> QED BY <1>10, <2>2, <2>3, <2>4
  <1>12. EventsCovered'
    <2>1. bP11Initialized /\ forks = 0 => Cardinality(Events) <= pending_ + Cardinality(Taken)
      BY CoveredIs DEF IInv
    <2>2. Taken' = Taken
      BY <1>1, SameTaken
    <2>3. bP11Initialized /\ forks = 0 => Cardinality(Events') <= pending_' + Cardinality(Taken)
      BY <1>1, <1>10, <1>11, <2>1
    <2> QED BY <1>1, <2>2, <2>3, CoveredIs
  <1>13. slots' = <<>> <=> slots = <<>>
    <2>1. slots \in Seq(SlotRec)
      BY DEF IInv, SlotsInv
    <2> QED BY <1>4, <1>7, <2>1, EmptySeq
  <1>14. AppInv'
    <2>1. app' \in AppTypes
      BY <1>1, MonitorReads
    <2> QED BY <1>1, <1>3, <1>13, <2>1, AppStays
  <1>15. RestTyped'
    <2>1. pending_' \in Nat
      BY <1>1, <1>10
    <2> QED BY <1>1, <2>1 DEF IInv, RestTyped, worldVars
  <1>16. MonitorHasSlots'
    BY <1>1, <1>3, <1>13 DEF IInv, MonitorHasSlots, Running, Live
  <1>17. IInv'
    BY <1>3, <1>9, <1>12, <1>14, <1>15, <1>16 DEF IInv
  <1> QED BY <1>1, <1>3, <1>6, <1>17

----------------------------------------------------------------------------
(* The invariant, and what it says. *)

(* The invariant holds at the start. *)
LEMMA InitInv ==
    ASSUME Init
    PROVE  IInv
  <1>1. /\ slots = <<>> /\ mon = NoThread /\ app = Idle /\ pending_ = 0
        /\ bP11Initialized = FALSE /\ joinable = FALSE
    BY DEF Init
  <1>2. SlotsInv
    <2>1. <<>> \in Seq(SlotRec) /\ DOMAIN <<>> = {}
      BY EmptySeq
    <2> QED BY <1>1, <2>1 DEF SlotsInv, Unique
  <1>3. MonInv /\ mon.pc = "none"
    <2>1. /\ DOMAIN mon = MonFields /\ mon.pc = "none" /\ mon.ris = "OK"
          /\ mon.num = 0 /\ mon.i = 0 /\ mon.watched = <<>>
      BY <1>1 DEF NoThread, MonFields
    <2>2. <<>> \in Seq(Readers)
      OBVIOUS
    <2> QED BY <2>1, <2>2 DEF MonInv, MonPCs, Running, Live, Results
  <1>4. AppInv
    <2>1. app \in AppTypes /\ app.at = "idle"
      BY <1>1 DEF AppTypes, Idle
    <2> QED BY <1>1, <1>3, <2>1 DEF AppInv
  <1>5. RestTyped
    <2>1. /\ bP11Initialized \in BOOLEAN /\ bP11Terminate \in BOOLEAN
          /\ bMonitorUpdate \in BOOLEAN /\ joinable \in BOOLEAN
          /\ cancelled \in BOOLEAN /\ service \in BOOLEAN
      BY DEF Init
    <2>2. /\ p11Mutex \in {"free", "app"}
          /\ pending_ \in Nat /\ calls \in Nat /\ forks \in Nat /\ changes \in Nat
          /\ waiter \in [Waiters -> {"idle", "blocked", "woken", "scan"}]
          /\ cards \subseteq plugged /\ plugged \subseteq Readers
      BY ConstantsAssumption DEF Init
    <2> QED BY <2>1, <2>2 DEF RestTyped
  <1>6. MonitorHasSlots
    BY <1>3 DEF MonitorHasSlots, Running, Live
  <1>7. EventsCovered
    BY <1>1 DEF EventsCovered
  <1> QED BY <1>2, <1>3, <1>4, <1>5, <1>6, <1>7 DEF IInv

(* A stuttering step keeps the invariant. *)
LEMMA UnchangedInv ==
    ASSUME IInv, UNCHANGED vars
    PROVE  IInv'
  <1>1. UNCHANGED <<moduleVars, worldVars, p11Mutex, pending_, app, mon, waiter,
                    cancelled, calls, forks>>
    BY DEF vars
  <1>2. SlotsInv' /\ Len(slots') \in Nat /\ Len(slots') >= Len(slots)
    BY <1>1, SameSlots DEF IInv, moduleVars
  <1>3. MonInv'
    BY <1>1, <1>2, MonStays
  <1>4. AppInv'
    <2>1. app' \in AppTypes
      BY <1>1 DEF IInv, AppInv
    <2> QED BY <1>1, <2>1, AppStays DEF moduleVars
  <1>5. RestTyped' /\ MonitorHasSlots'
    BY <1>1 DEF IInv, RestTyped, MonitorHasSlots, moduleVars, worldVars
  <1>6. EventsCovered'
    <2>1. pending_' \in Nat /\ pending_' >= pending_
      BY <1>1 DEF IInv, RestTyped
    <2> QED BY <1>1, <2>1, CoveredStill, SameEvents, SameTaken DEF moduleVars
  <1> QED BY <1>2, <1>3, <1>4, <1>5, <1>6 DEF IInv

(* Every step keeps the invariant. *)
LEMMA StepInv ==
    ASSUME IInv, [Next]_vars
    PROVE  IInv'
  <1>1. CASE C_Initialize \/ C_UpdateSlotList
    BY <1>1, SlotListCallInv
  <1>2. CASE C_Finalize
    BY <1>2, FinalizeInv
  <1>3. CASE P11AtForkChild
    BY <1>3, ForkInv
  <1>4. CASE AppStep
    BY <1>4, SweepInv, SlotListDoneInv, CancelInv, JoinInv DEF AppStep
  <1>5. CASE C_WaitForSlotEvent_DontBlock
    BY <1>5, DontBlockInv
  <1>6. ASSUME NEW w \in Waiters, WaitEnter(w) \/ WaiterStep(w) PROVE IInv'
    BY <1>6, WaitEnterInv, WaitWakeInv, WaitCheckInv, WaitScanInv DEF WaiterStep
  <1>7. CASE MonitorNext
    BY <1>7, MonitorStartInv, MonitorSnapshotInv, MonitorClearInv, MonitorValidateInv,
       MonitorWaitInv, MonitorEndsInv, MonitorScanInv, MonitorReportInv, MonitorSkipInv
       DEF MonitorNext
  <1>8. CASE World
    BY <1>8, WorldInv
  <1>9. CASE UNCHANGED vars
    BY <1>9, UnchangedInv
  <1> QED BY <1>1, <1>2, <1>3, <1>4, <1>5, <1>6, <1>7, <1>8, <1>9 DEF Next

(* The invariant gives what the runs check. *)
LEMMA InvSound ==
    ASSUME IInv
    PROVE  MonitorSound
  <1>1. {bP11Initialized, bP11Terminate, bMonitorUpdate, joinable, cancelled, service}
          \subseteq BOOLEAN
    BY DEF IInv, RestTyped
  <1>2. {pending_, calls, forks, changes} \subseteq Nat
    BY DEF IInv, RestTyped
  <1>3. \A i \in DOMAIN slots :
          slots[i] \in [reader : Readers, lastEvent : {"NoEvent", "Inserted", "Removed"}]
    BY SlotsLen DEF IInv, SlotRec
  <1>4. \A i \in DOMAIN mon.watched : mon.watched[i] \in Readers
    <2>1. mon.watched \in Seq(Readers)
      BY DEF IInv, MonInv
    <2> QED BY <2>1
  <1>5. mon.pc \in {"wait", "returned", "handle"} =>
          /\ DOMAIN mon.current = DOMAIN mon.watched
          /\ \A i \in DOMAIN mon.current : mon.current[i] \in States
    BY DEF IInv, MonInv, Live
  <1>6. TypeOK
    BY <1>1, <1>2, <1>3, <1>4, <1>5 DEF IInv, RestTyped, AppInv, MonInv, TypeOK
  <1> QED BY <1>6 DEF IInv, MonitorSound

(* No recorded card event is left without a set() to consume or a waiter on *)
(* its way to it, and slotMonitor never runs over a cleared slot list       *)
(* (slot.cpp 190-205, pkcs11_functions.cpp 405-440 and 1531-1545): whatever *)
(* the number of readers, waiters, calls, forks and hot-plugs.              *)
THEOREM MonitorIsSound == Spec => []MonitorSound
  <1>1. Init => IInv
    BY InitInv
  <1>2. IInv /\ [Next]_vars => IInv'
    BY StepInv
  <1>3. IInv => MonitorSound
    BY InvSound
  <1> QED BY <1>1, <1>2, <1>3, PTL DEF Spec

----------------------------------------------------------------------------
(* Who wakes a blocked waiter, when nothing takes the monitor away. *)

(* The readers of the slots, in a step that leaves them. *)
LEMMA SameReaders ==
    ASSUME DOMAIN slots' = DOMAIN slots,
           \A i \in DOMAIN slots : slots'[i].reader = slots[i].reader
    PROVE  ReadersOf(slots') = ReadersOf(slots)
  BY DEF ReadersOf

(* A step that leaves the service, the readers and the process alone. *)
StillUp == UNCHANGED <<service, plugged, forks>>

(* A step of the monitor that neither ends it nor gives it a bad answer. *)
LEMMA MonitorGoesOn ==
    ASSUME LiveInv, StillUp, ReadersOf(slots') = ReadersOf(slots), mon.pc \in Running,
           UNCHANGED <<bP11Initialized, bP11Terminate, joinable, app>>,
           mon'.pc \in Running, \A i \in DOMAIN mon'.watched : mon'.watched[i] \in plugged,
           mon'.pc = "wait" => cancelled' = FALSE,
           bP11Initialized /\ mon'.pc = "returned"
             => mon'.ris \notin {"CANCELLED", "UNKNOWN_READER", "NO_READERS", "SERVICE"}
    PROVE  StaysUp' /\ NotStopped'
  <1>1. StaysUp /\ NotStopped
    BY DEF LiveInv
  <1>2. StaysUp'
    BY <1>1 DEF StaysUp, StillUp
  <1>3. NotStopped'
    BY <1>1 DEF NotStopped, StillUp
  <1> QED BY <1>2, <1>3

(* The end of the monitor, which takes a finalized module. *)
LEMMA MonitorEnded ==
    ASSUME LiveInv, StillUp, UNCHANGED <<bP11Initialized, bP11Terminate, joinable, slots>>,
           ~bP11Initialized, mon'.pc = "exited", mon.pc \in Running,
           app' \in AppTypes, app'.at = app.at
    PROVE  StaysUp' /\ NotStopped'
  <1>1. StaysUp /\ NotStopped /\ app \in AppTypes
    BY DEF LiveInv, IInv, AppInv
  <1>2. app' = Idle <=> app = Idle
    BY <1>1, AppShapes, AppShapesNext
  <1>3. StaysUp'
    BY <1>1 DEF StaysUp, StillUp
  <1>4. NotStopped'
    BY <1>1, <1>2 DEF NotStopped, Running, Live
  <1> QED BY <1>3, <1>4

(* A step that leaves the monitor, the readers of the slots and the flags. *)
LEMMA OthersStay ==
    ASSUME LiveInv, StillUp, UNCHANGED <<bP11Initialized, bP11Terminate, joinable, mon, cancelled>>,
           app' \in AppTypes, app'.at = app.at, ReadersOf(slots') = ReadersOf(slots)
    PROVE  StaysUp' /\ NotStopped'
  <1>1. StaysUp /\ NotStopped /\ app \in AppTypes
    BY DEF LiveInv, IInv, AppInv
  <1>2. app' = Idle <=> app = Idle
    BY <1>1, AppShapes, AppShapesNext
  <1>3. StaysUp'
    BY <1>1 DEF StaysUp, StillUp
  <1>4. NotStopped'
    BY <1>1, <1>2 DEF NotStopped, StillUp
  <1> QED BY <1>3, <1>4

(* The calls of the application thread. *)
LEMMA AppLive ==
    ASSUME LiveInv, C_Initialize \/ C_UpdateSlotList \/ C_Finalize \/ AppStep
    PROVE  StaysUp' /\ NotStopped'
  <1>1. IInv /\ StaysUp /\ NotStopped /\ AppInv /\ app \in AppTypes
    BY DEF LiveInv, IInv, AppInv
  <1>2. CASE C_Initialize \/ C_UpdateSlotList
    <2>1. /\ app = Idle /\ InitSlotList /\ bP11Initialized' = TRUE
          /\ UNCHANGED <<worldVars, bP11Terminate, joinable, mon, cancelled, forks>>
      <3>1. bP11Initialized \in BOOLEAN
        BY <1>1 DEF IInv, RestTyped
      <3> QED BY <1>2, <3>1 DEF C_Initialize, C_UpdateSlotList, Call
    <2>2. /\ app' \in AppTypes /\ app'.at = "sweep"
          /\ ReadersOf(slots') = ReadersOf(slots) \cup plugged
      BY <1>1, <2>1, InitSlotListFacts DEF StaysUp
    <2>3. app' # Idle
      BY <2>2, AppShapesNext
    <2>4. ~bP11Terminate
      BY <1>1, <2>1 DEF NotStopped, Idle
    <2>5. StaysUp'
      BY <1>1, <2>1 DEF StaysUp, worldVars
    <2>6. CASE bP11Initialized
      BY <1>1, <2>1, <2>2, <2>3, <2>4, <2>5, <2>6 DEF NotStopped, worldVars
    <2>7. CASE ~bP11Initialized
      <3>1. slots = <<>> /\ mon.pc = "none"
        BY <1>1, <2>1, <2>7 DEF StaysUp, NotStopped, AppInv
      <3>2. ReadersOf(slots) = {}
        BY <3>1 DEF ReadersOf
      <3>3. ReadersOf(slots') \subseteq plugged'
        BY <2>1, <2>2, <3>2 DEF worldVars
      <3> QED BY <2>1, <2>2, <2>3, <2>4, <2>5, <3>1, <3>3 DEF NotStopped, Running, Live
    <2> QED BY <2>6, <2>7
  <1>3. CASE C_Finalize
    <2>1. /\ app = Idle /\ bP11Initialized /\ bP11Initialized' = FALSE
          /\ UNCHANGED <<worldVars, joinable, mon, cancelled, forks>>
      BY <1>3 DEF C_Finalize, Call
    <2>2. joinable
      BY <1>1, <2>1 DEF NotStopped, AppInv, Running, Live
    <2>3. app' = [at |-> "cancel", tc |-> IF mon.pc \in Live THEN "alive" ELSE "null"]
      BY <1>3, <2>2 DEF C_Finalize
    <2>4. app'.at = "cancel" /\ app' # Idle
      BY <2>3 DEF Idle
    <2>5. StaysUp'
      BY <1>1, <2>1 DEF StaysUp, worldVars
    <2> QED BY <1>1, <2>1, <2>4, <2>5 DEF NotStopped, worldVars
  <1>4. CASE InitSlotListSweep
    <2>1. /\ app.at = "sweep"
          /\ UNCHANGED <<moduleVars, worldVars, mon, cancelled, forks>>
      BY <1>4 DEF InitSlotListSweep
    <2>2. app' \in AppTypes /\ app'.at = app.at
      <3>1. IInv'
        BY <1>1, <1>4, SweepInv
      <3>2. app' \in AppTypes
        BY <3>1 DEF IInv, AppInv
      <3>3. app \in [at : {"sweep"}, listed : SUBSET Readers, it : Nat, changed : BOOLEAN]
        BY <1>1, <2>1, AppShapes
      <3>4. \/ app' = [app EXCEPT !.it = app.it + 1]
            \/ app' = [app EXCEPT !.it = IF app.it = 1 THEN Len(slots) ELSE app.it,
                                  !.changed = TRUE]
        BY <1>4 DEF InitSlotListSweep
      <3>5. app'.at = app.at
        BY <3>3, <3>4
      <3> QED BY <3>2, <3>5
    <2>3. ReadersOf(slots') = ReadersOf(slots)
      BY <2>1 DEF moduleVars
    <2> QED BY <2>1, <2>2, <2>3, OthersStay DEF StillUp, moduleVars, worldVars
  <1>5. CASE InitSlotListDone
    <2>1. /\ app.at = "sweep" /\ joinable' = TRUE /\ app' = Idle
          /\ mon' = (IF joinable THEN mon ELSE [NoThread EXCEPT !.pc = "start"])
          /\ UNCHANGED <<worldVars, bP11Initialized, bP11Terminate, slots, cancelled, forks>>
      BY <1>5 DEF InitSlotListDone
    <2>2. bP11Initialized /\ ~bP11Terminate
      BY <1>1, <2>1 DEF AppInv, NotStopped
    <2>3. app'.at = "idle"
      BY <2>1 DEF Idle
    <2>4. StaysUp'
      BY <1>1, <2>1 DEF StaysUp, worldVars
    <2>5. CASE joinable
      <3>1. mon' = mon /\ mon.pc \in Running
        BY <1>1, <2>1, <2>2, <2>5 DEF AppInv, NotStopped
      <3> QED BY <1>1, <2>1, <2>2, <2>3, <2>4, <3>1 DEF NotStopped, worldVars
    <2>6. CASE ~joinable
      <3>1. mon' = [NoThread EXCEPT !.pc = "start"]
        BY <2>1, <2>6
      <3>2. mon'.pc = "start" /\ mon'.watched = <<>>
        BY <3>1 DEF NoThread
      <3>3. mon'.pc \in Running /\ DOMAIN mon'.watched = {}
        BY <3>2, EmptySeq DEF Running
      <3> QED BY <1>1, <2>1, <2>2, <2>3, <2>4, <3>2, <3>3 DEF NotStopped, worldVars
    <2> QED BY <2>5, <2>6
  <1>6. CASE FinalizeCancel
    <2>1. /\ app.at = "cancel" /\ app' = [at |-> "join"]
          /\ UNCHANGED <<moduleVars, worldVars, mon, forks>>
      BY <1>6 DEF FinalizeCancel
    <2>2. app'.at = "join" /\ app' # Idle /\ ~bP11Initialized
      BY <1>1, <2>1 DEF Idle, AppInv
    <2>3. StaysUp'
      BY <1>1, <2>1 DEF StaysUp, worldVars
    <2> QED BY <1>1, <2>1, <2>2, <2>3 DEF NotStopped, moduleVars, worldVars
  <1>7. CASE FinalizeJoin
    <2>1. /\ app.at = "join" /\ joinable' = FALSE /\ mon' = NoThread /\ app' = Idle
          /\ bP11Terminate' = FALSE /\ UNCHANGED <<worldVars, bP11Initialized, forks>>
      BY <1>7 DEF FinalizeJoin
    <2>2. ~bP11Initialized /\ mon'.pc = "none"
      BY <1>1, <2>1 DEF AppInv, NoThread
    <2>3. StaysUp'
      BY <1>1, <2>1 DEF StaysUp, worldVars
    <2> QED BY <1>1, <2>1, <2>2, <2>3 DEF NotStopped, Running, Live
  <1> QED BY <1>2, <1>3, <1>4, <1>5, <1>6, <1>7 DEF AppStep

(* The waiters. *)
LEMMA WaitersLive ==
    ASSUME LiveInv,
           C_WaitForSlotEvent_DontBlock \/ \E w \in Waiters : WaitEnter(w) \/ WaiterStep(w)
    PROVE  StaysUp' /\ NotStopped'
  <1>1. UNCHANGED <<worldVars, bP11Initialized, bP11Terminate, joinable, app, mon,
                    cancelled, forks>>
    BY DEF C_WaitForSlotEvent_DontBlock, WaitEnter, WaiterStep, WaitWake, WaitCheck, WaitScan,
           moduleVars
  <1>2. UNCHANGED slots \/ TakeEvent
    BY DEF C_WaitForSlotEvent_DontBlock, WaitEnter, WaiterStep, WaitWake, WaitCheck, WaitScan,
           moduleVars
  <1>3. IInv /\ app' \in AppTypes
    BY <1>1 DEF LiveInv, IInv, AppInv
  <1>4. ReadersOf(slots') = ReadersOf(slots)
    <2>1. CASE UNCHANGED slots
      BY <2>1
    <2>2. CASE TakeEvent
      BY <1>3, <2>2, TakeEventFacts, SameReaders
    <2> QED BY <1>2, <2>1, <2>2
  <1> QED BY <1>1, <1>3, <1>4, OthersStay DEF StillUp, worldVars

(* slotMonitor ends only when finalized. *)
LEMMA MonitorLive ==
    ASSUME LiveInv, MonitorNext
    PROVE  StaysUp' /\ NotStopped'
  <1>1. IInv /\ StaysUp /\ NotStopped /\ AppInv /\ app \in AppTypes
    BY DEF LiveInv, IInv, AppInv
  <1>2. StillUp /\ UNCHANGED <<bP11Initialized, bP11Terminate, joinable>>
    BY DEF MonitorNext, MonitorStart, MonitorSnapshot, MonitorClear, MonitorValidate,
           MonitorWait, MonitorRestart, MonitorStop, MonitorNoReaders, MonitorScan,
           MonitorReport, MonitorSkip, moduleVars, worldVars, StillUp
  <1>3. mon.pc \in Running
    BY DEF MonitorNext, MonitorStart, MonitorSnapshot, MonitorClear, MonitorValidate,
           MonitorWait, MonitorRestart, MonitorStop, MonitorNoReaders, MonitorScan,
           MonitorReport, MonitorSkip, Running, Live
  <1>4. \A i \in DOMAIN mon.watched : mon.watched[i] \in plugged
    BY <1>1, <1>3 DEF NotStopped
  <1>5. CASE MonitorStart
    <2>1. mon'.pc = "snapshot" /\ UNCHANGED <<slots, app>>
      BY <1>1, <1>5 DEF MonitorStart, IInv, MonInv, MonFields, moduleVars
    <2>2. mon'.watched = mon.watched
      BY <1>1, <1>5, MonitorStartInv
    <2>3. ReadersOf(slots') = ReadersOf(slots)
      BY <2>1
    <2> QED BY <1>2, <1>3, <1>4, <2>1, <2>2, <2>3, MonitorGoesOn DEF Running, Live
  <1>6. CASE MonitorSnapshot
    <2>1. /\ \A i \in DOMAIN mon'.watched : mon'.watched[i] \in ReadersOf(slots)
          /\ mon'.pc \in {"clear", "exited"} /\ (mon'.pc = "clear" => bP11Initialized)
          /\ mon'.pc = "exited" => ~bP11Initialized \/ ~(ReadersOf(slots) \subseteq plugged)
      BY <1>1, <1>6, MonitorSnapshotInv DEF StaysUp
    <2>2. UNCHANGED slots /\ (UNCHANGED app \/ Exit)
      BY <1>6 DEF MonitorSnapshot, moduleVars
    <2>3. CASE mon'.pc = "clear"
      <3>1. \A i \in DOMAIN mon'.watched : mon'.watched[i] \in plugged
        BY <1>1, <2>1, <2>3 DEF NotStopped
      <3>2. UNCHANGED app
        <4>1. Exit => mon'.pc = "exited"
          BY DEF Exit, NoThread
        <4> QED BY <2>2, <2>3, <4>1
      <3>3. ReadersOf(slots') = ReadersOf(slots)
        BY <2>2
      <3> QED BY <1>2, <1>3, <2>3, <3>1, <3>2, <3>3, MonitorGoesOn DEF Running, Live
    <2>4. CASE mon'.pc = "exited"
      <3>1. ~bP11Initialized
        BY <1>1, <2>1, <2>4 DEF NotStopped
      <3>2. app' \in AppTypes /\ app'.at = app.at
        BY <1>1, <2>2, DropContextStays DEF Exit
      <3> QED BY <1>2, <1>3, <2>2, <2>4, <3>1, <3>2, MonitorEnded
    <2> QED BY <2>1, <2>3, <2>4
  <1>7. CASE MonitorClear
    <2>1. mon'.pc = "validate" /\ mon'.watched = mon.watched
      BY <1>1, <1>7, MonitorClearInv
    <2>2. UNCHANGED <<slots, app>>
      BY <1>7 DEF MonitorClear
    <2>3. ReadersOf(slots') = ReadersOf(slots)
      BY <2>2
    <2> QED BY <1>2, <1>3, <1>4, <2>1, <2>2, <2>3, MonitorGoesOn DEF Running, Live
  <1>8. CASE MonitorValidate
    <2>1. mon'.pc = "wait" /\ mon'.watched = mon.watched /\ cancelled' = FALSE
      BY <1>1, <1>8, MonitorValidateInv
    <2>2. UNCHANGED <<slots, app>>
      BY <1>8 DEF MonitorValidate, moduleVars
    <2>3. ReadersOf(slots') = ReadersOf(slots)
      BY <2>2
    <2> QED BY <1>2, <1>3, <1>4, <2>1, <2>2, <2>3, MonitorGoesOn DEF Running, Live
  <1>9. CASE MonitorWait
    <2>1. /\ mon.pc = "wait" /\ mon'.pc = "returned" /\ mon'.watched = mon.watched
          /\ mon'.ris = "CANCELLED" => cancelled
          /\ mon'.ris = "SERVICE" => ~service
          /\ mon'.ris = "NO_READERS" => plugged = {}
          /\ mon'.ris = "UNKNOWN_READER" =>
               \E i \in DOMAIN mon.watched : mon.watched[i] \notin plugged
      BY <1>1, <1>9, MonitorWaitInv
    <2>2. UNCHANGED <<slots, app>>
      BY <1>9 DEF MonitorWait, moduleVars
    <2>3. ReadersOf(slots') = ReadersOf(slots)
      BY <2>2
    <2>4. bP11Initialized => ~cancelled
      BY <1>1, <2>1 DEF NotStopped
    <2>5. bP11Initialized => mon'.ris \notin {"CANCELLED", "UNKNOWN_READER", "NO_READERS", "SERVICE"}
      BY <1>1, <1>4, <2>1, <2>4 DEF StaysUp
    <2> QED BY <1>2, <1>3, <1>4, <2>1, <2>2, <2>3, <2>5, MonitorGoesOn DEF Running, Live
  <1>10. CASE MonitorRestart
    <2>1. mon' = [NoThread EXCEPT !.pc = "start"] /\ DropContext /\ UNCHANGED slots
      BY <1>10 DEF MonitorRestart, moduleVars
    <2>2. mon'.pc = "start" /\ mon'.watched = <<>>
      BY <2>1, NewThread
    <2>3. DOMAIN mon'.watched = {} /\ mon'.pc \in Running
      BY <2>2, EmptySeq DEF Running
    <2>4. app' \in AppTypes /\ app'.at = app.at /\ (app' = Idle <=> app = Idle)
      BY <1>1, <2>1, DropContextStays, AppShapes, AppShapesNext
    <2>5. StaysUp'
      BY <1>1, <1>2 DEF StaysUp, StillUp
    <2>6. NotStopped'
      BY <1>1, <1>2, <2>1, <2>2, <2>3, <2>4 DEF NotStopped, StillUp
    <2> QED BY <2>5, <2>6
  <1>11. CASE MonitorStop \/ MonitorNoReaders
    <2>1. mon.pc = "returned" /\ Exit /\ UNCHANGED slots
          /\ (MustStop \/ mon.ris = "NO_READERS")
      BY <1>11 DEF MonitorStop, MonitorNoReaders, moduleVars
    <2>2. mon'.pc = "exited"
      BY <2>1, NewThread DEF Exit
    <2>3. app' \in AppTypes /\ app'.at = app.at
      BY <1>1, <2>1, DropContextStays DEF Exit
    <2>4. ~bP11Initialized
      BY <1>1, <2>1 DEF MustStop, NotStopped, AppInv
    <2> QED BY <1>2, <1>3, <2>1, <2>2, <2>3, <2>4, MonitorEnded
  <1>12. CASE MonitorScan
    <2>1. mon'.pc = "handle" /\ mon'.watched = mon.watched
      BY <1>1, <1>12, MonitorScanInv
    <2>2. UNCHANGED <<slots, app>>
      BY <1>12 DEF MonitorScan, moduleVars
    <2>3. ReadersOf(slots') = ReadersOf(slots)
      BY <2>2
    <2> QED BY <1>2, <1>3, <1>4, <2>1, <2>2, <2>3, MonitorGoesOn DEF Running, Live
  <1>13. CASE MonitorReport
    <2>1. /\ mon'.pc = "handle" /\ mon'.watched = mon.watched
          /\ DOMAIN slots' = DOMAIN slots
          /\ \A i \in DOMAIN slots : slots'[i].reader = slots[i].reader
      BY <1>1, <1>13, MonitorReportInv
    <2>2. UNCHANGED app
      BY <1>13 DEF MonitorReport
    <2>3. ReadersOf(slots') = ReadersOf(slots)
      BY <2>1, SameReaders
    <2> QED BY <1>2, <1>3, <1>4, <2>1, <2>2, <2>3, MonitorGoesOn DEF Running, Live
  <1>14. CASE MonitorSkip
    <2>1. mon'.pc \in {"handle", "validate"} /\ mon'.watched = mon.watched
      BY <1>1, <1>14, MonitorSkipInv
    <2>2. UNCHANGED <<slots, app>>
      BY <1>14 DEF MonitorSkip, moduleVars
    <2>3. ReadersOf(slots') = ReadersOf(slots)
      BY <2>2
    <2> QED BY <1>2, <1>3, <1>4, <2>1, <2>2, <2>3, MonitorGoesOn DEF Running, Live
  <1> QED BY <1>5, <1>6, <1>7, <1>8, <1>9, <1>10, <1>11, <1>12, <1>13, <1>14 DEF MonitorNext

(* The world outside, and the fork that does not happen. *)
LEMMA WorldLive ==
    ASSUME Undisturbed, LiveInv, P11AtForkChild \/ World \/ UNCHANGED vars
    PROVE  StaysUp' /\ NotStopped'
  <1>1. IInv /\ StaysUp /\ NotStopped
    BY DEF LiveInv
  <1>2. ~P11AtForkChild
    <2>1. forks = 0 /\ MaxForks = 0
      BY <1>1 DEF StaysUp, Undisturbed
    <2> QED BY <2>1 DEF P11AtForkChild
  <1>3. UNCHANGED <<moduleVars, app, mon, cancelled, forks>>
    BY <1>2 DEF World, vars
  <1>4. service' = service /\ plugged \subseteq plugged'
    BY <1>2 DEF World, vars, worldVars, Undisturbed
  <1>5. StaysUp'
    BY <1>1, <1>3, <1>4 DEF StaysUp
  <1>6. NotStopped'
    <2>1. bP11Initialized => ReadersOf(slots) \subseteq plugged'
      BY <1>1, <1>4 DEF NotStopped
    <2>2. mon.pc \in Running => \A i \in DOMAIN mon.watched : mon.watched[i] \in plugged'
      BY <1>1, <1>4 DEF NotStopped
    <2> QED BY <1>1, <1>3, <2>1, <2>2 DEF NotStopped, moduleVars
  <1> QED BY <1>5, <1>6

(* A thread blocked in C_WaitForSlotEvent on an initialised module has a   *)
(* running slotMonitor to wake it, or a set() still to consume, as long as *)
(* readers and service stay and the process does not fork: a poll that     *)
(* timed out, a list that was updated or a Cancel meant for an earlier     *)
(* monitor never ends it (slot.cpp 100-215).                               *)
THEOREM WaiterHasMonitor == Undisturbed => (Spec => []BlockedWaiterHasMonitor)
  <1> SUFFICES ASSUME Undisturbed
               PROVE  Spec => []BlockedWaiterHasMonitor
    OBVIOUS
  <1>1. Init => LiveInv
    <2> SUFFICES ASSUME Init PROVE LiveInv
      OBVIOUS
    <2>1. IInv
      BY InitInv
    <2>2. StaysUp
      BY DEF Init, StaysUp, Undisturbed
    <2>3. NotStopped
      BY DEF Init, NotStopped, NoThread, Idle, Running, Live
    <2> QED BY <2>1, <2>2, <2>3 DEF LiveInv
  <1>2. LiveInv /\ [Next]_vars => LiveInv'
    <2> SUFFICES ASSUME LiveInv, [Next]_vars PROVE LiveInv'
      OBVIOUS
    <2>1. IInv'
      BY StepInv DEF LiveInv
    <2>2. StaysUp' /\ NotStopped'
      BY AppLive, WaitersLive, MonitorLive, WorldLive DEF Next
    <2> QED BY <2>1, <2>2 DEF LiveInv
  <1>3. LiveInv => BlockedWaiterHasMonitor
    BY DEF LiveInv, NotStopped, BlockedWaiterHasMonitor
  <1> QED BY <1>1, <1>2, <1>3, PTL DEF Spec
==============================================================================
