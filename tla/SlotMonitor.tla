---------------------------- MODULE SlotMonitor ----------------------------
(***************************************************************************)
(* The threads behind the slot list: the application thread that calls     *)
(* C_Initialize, C_UpdateSlotList and C_Finalize, the application's        *)
(* threads blocked in C_WaitForSlotEvent, and slotMonitor, the background  *)
(* thread that polls the readers (pkcs11/src/pkcs11/slot.cpp,              *)
(* pkcs11_functions.cpp, shared/src/util/syncro_event.cpp).                *)
(*                                                                         *)
(* A section of code run under p11Mutex with no wait in it is one step.    *)
(* The mutex is a variable only because two sections of the application    *)
(* thread span several steps: the sweep of InitSlotList, and the lines of  *)
(* C_Finalize that use the monitor's context.  Every unlocked access to    *)
(* shared state is a step of its own.  What the slots hold (sessions,      *)
(* objects, logins) is the subject of module SlotSessions and left out.    *)
(***************************************************************************)
EXTENDS Naturals, Sequences, FiniteSets, SequencesExt

CONSTANTS
  Readers,      \* the readers that may be plugged in
  Waiters,      \* the application threads that call C_WaitForSlotEvent
  Plugged,      \* the readers plugged in at the start
  CanPlug,      \* whether a reader may be plugged in later
  CanUnplug,    \* whether a reader may be unplugged
  CanStop,      \* whether the PC/SC service may stop and start
  MaxForks,     \* bound: how often the process forks (the model follows the child)
  MaxCalls,     \* bound: calls of the application thread
  MaxChanges    \* bound: changes in the world outside (cards, readers, service)

ASSUME ConstantsAssumption ==
  /\ IsFiniteSet(Readers) /\ IsFiniteSet(Waiters)
  /\ Plugged \subseteq Readers
  /\ {CanPlug, CanUnplug, CanStop} \subseteq BOOLEAN
  /\ {MaxForks, MaxCalls, MaxChanges} \subseteq Nat

VARIABLES
  bP11Initialized, bP11Terminate,   \* the module's two atomics
  p11Mutex,         \* "free", or "app" while the application thread holds it over steps
  slots,            \* g_mSlots in the order of the slot ids: [reader, lastEvent]
  bMonitorUpdate,   \* CSlot::bMonitorUpdate
  joinable,         \* CSlot::Thread.joinable()
  pending_,         \* the count inside p11slotEvent
  app,              \* what the application thread is doing, see AppTypes
  mon,              \* slotMonitor's program counter and locals
  waiter,           \* program counter of each waiter
  cancelled,        \* a Cancel reached the GetStatusChange in progress
  plugged, cards, service,   \* the world: readers, readers holding a card, pcscd up
  calls, forks, changes      \* counters of the bounds

moduleVars == <<bP11Initialized, bP11Terminate, slots, bMonitorUpdate, joinable>>
worldVars  == <<plugged, cards, service, changes>>
vars == <<moduleVars, worldVars, p11Mutex, pending_, app, mon, waiter,
          cancelled, calls, forks>>

----------------------------------------------------------------------------
(* State of the threads. *)

(* Steps of slotMonitor, in the order of the code.  "gone" is the thread   *)
(* object a fork leaves in the child: joinable, with no thread behind it.  *)
Live    == {"snapshot", "clear", "validate", "wait", "returned", "handle"}
Running == Live \cup {"start"}
MonPCs  == Running \cup {"none", "exited", "gone"}

States  == {"PRESENT", "EMPTY", "UNAVAILABLE"}
Results == {"OK", "TIMEOUT", "CANCELLED", "SERVICE", "UNKNOWN_READER", "NO_READERS"}

NoThread == [pc |-> "none", num |-> 0, watched |-> <<>>, current |-> <<>>,
             event |-> <<>>, ris |-> "OK", i |-> 0]

(* The application thread: idle, sweeping in InitSlotList (the readers     *)
(* listed, the iterator, bMapChanged), or in C_Finalize before Cancel      *)
(* (holding the pointer tc it loaded) and before join.                     *)
Idle == [at |-> "idle"]
AppTypes ==
  {Idle, [at |-> "join"]}
    \cup [at : {"sweep"}, listed : SUBSET Readers, it : Nat, changed : BOOLEAN]
    \cup [at : {"cancel"}, tc : {"null", "alive", "dangling"}]

ReaderState(r) ==
  IF r \notin plugged THEN "UNAVAILABLE" ELSE IF r \in cards THEN "PRESENT" ELSE "EMPTY"

ReadersOf(list) == {list[i].reader : i \in DOMAIN list}
Events          == {i \in DOMAIN slots : slots[i].lastEvent # "NoEvent"}

Init ==
  /\ bP11Initialized = FALSE /\ bP11Terminate = FALSE
  /\ p11Mutex = "free"
  /\ slots = <<>>
  /\ bMonitorUpdate = FALSE /\ joinable = FALSE
  /\ pending_ = 0
  /\ app = Idle
  /\ mon = NoThread
  /\ waiter = [w \in Waiters |-> "idle"]
  /\ cancelled = FALSE
  /\ plugged = Plugged /\ cards \in SUBSET Plugged /\ service = TRUE
  /\ calls = 0 /\ forks = 0 /\ changes = 0

Lock == p11Mutex = "free"

----------------------------------------------------------------------------
(* auto_reset_event: a counting semaphore. *)

EventSet_Coalesce == pending_' = 1
EventSet == pending_' = pending_ + 1

EventWait == pending_ > 0 /\ pending_' = pending_ - 1

----------------------------------------------------------------------------
(* The application thread. *)

Call == app = Idle /\ Lock /\ calls < MaxCalls /\ calls' = calls + 1

(* InitSlotList up to its sweep: no service or no reader means an early    *)
(* return, otherwise a slot for every reader that has none.                *)
InitSlotList ==
  \/ /\ ~service \/ plugged = {}
     /\ UNCHANGED <<slots, app, p11Mutex>>
  \/ /\ service /\ plugged # {}
     /\ LET added == SetToSeq(plugged \ ReadersOf(slots))
        IN  /\ slots' = slots \o
                 [i \in DOMAIN added |-> [reader |-> added[i], lastEvent |-> "NoEvent"]]
            /\ app' = [at |-> "sweep", listed |-> plugged, it |-> 1,
                       changed |-> added # <<>>]
     /\ p11Mutex' = "app"

C_Initialize ==
  /\ Call
  /\ ~bP11Initialized
  /\ bP11Initialized' = TRUE
  /\ InitSlotList
  /\ UNCHANGED <<worldVars, bP11Terminate, bMonitorUpdate, joinable, pending_,
                 mon, waiter, cancelled, forks>>

C_UpdateSlotList ==
  /\ Call
  /\ bP11Initialized
  /\ InitSlotList
  /\ UNCHANGED <<worldVars, bP11Initialized, bP11Terminate, bMonitorUpdate,
                 joinable, pending_, mon, waiter, cancelled, forks>>

(* One turn of the loop that looks for slots whose reader is gone:         *)
(* DeleteSlot finalises the slot but never erases it from g_mSlots, and    *)
(* "it--" before it is undone by "++it".  On the first slot "it--" leaves  *)
(* the map: in libstdc++ it steps to end(), from where ++it steps to the   *)
(* last slot.                                                              *)
InitSlotListSweep ==
  /\ app.at = "sweep" /\ app.it \in DOMAIN slots
  /\ IF slots[app.it].reader \in app.listed
       THEN app' = [app EXCEPT !.it = @ + 1]
       ELSE app' = [app EXCEPT !.it = IF @ = 1 THEN Len(slots) ELSE @, !.changed = TRUE]
  /\ UNCHANGED <<moduleVars, worldVars, p11Mutex, pending_, mon, waiter,
                 cancelled, calls, forks>>

(* The end of InitSlotList: tell the monitor, or start it. *)
InitSlotListDone ==
  /\ app.at = "sweep" /\ app.it \notin DOMAIN slots
  /\ bMonitorUpdate' = app.changed
  /\ joinable' = TRUE
  /\ mon' = IF joinable THEN mon ELSE [NoThread EXCEPT !.pc = "start"]
  /\ app' = Idle /\ p11Mutex' = "free"
  /\ UNCHANGED <<worldVars, bP11Initialized, bP11Terminate, slots, pending_,
                 waiter, cancelled, calls, forks>>

(* C_Finalize up to the load of CSlot::ThreadContext; without a thread it  *)
(* runs to its end, and no event is set.                                   *)
C_Finalize ==
  /\ Call
  /\ bP11Initialized
  /\ bP11Initialized' = FALSE
  /\ \/ /\ joinable
        /\ bP11Terminate' = TRUE
        /\ app' = [at |-> "cancel", tc |-> IF mon.pc \in Live THEN "alive" ELSE "null"]
        /\ p11Mutex' = "app"
        /\ UNCHANGED slots
     \/ /\ ~joinable
        /\ slots' = <<>>
        /\ UNCHANGED <<bP11Terminate, app, p11Mutex>>
  /\ UNCHANGED <<worldVars, bMonitorUpdate, joinable, pending_, mon, waiter,
                 cancelled, forks>>

(* Cancel through the pointer, set the event, unlock.  SCardCancel ends    *)
(* only a call in progress; through a dangling pointer it may do nothing.  *)
FinalizeCancel_NoSet ==
  /\ app.at = "cancel"
  /\ cancelled' = (cancelled \/ (app.tc = "alive" /\ mon.pc = "wait"))
  /\ app' = [at |-> "join"] /\ p11Mutex' = "free"
  /\ UNCHANGED <<moduleVars, worldVars, pending_, mon, waiter, calls, forks>>


FinalizeCancel ==
  /\ app.at = "cancel"
  /\ cancelled' = (cancelled \/ (app.tc = "alive" /\ mon.pc = "wait"))
  /\ EventSet
  /\ app' = [at |-> "join"] /\ p11Mutex' = "free"
  /\ UNCHANGED <<moduleVars, worldVars, mon, waiter, calls, forks>>

(* Thread.join() returns; relock, reset, clear the slot list. *)
FinalizeJoin_KeepThread ==
  /\ app.at = "join"
  /\ mon.pc = "exited"
  /\ Lock
  /\ bP11Terminate' = FALSE /\ slots' = <<>>
  /\ app' = Idle
  /\ UNCHANGED <<worldVars, bP11Initialized, bMonitorUpdate, joinable, mon,
                 p11Mutex, pending_, waiter, cancelled, calls, forks>>

FinalizeJoin ==
  /\ app.at = "join"
  /\ mon.pc = "exited"
  /\ Lock
  /\ joinable' = FALSE /\ mon' = NoThread
  /\ bP11Terminate' = FALSE /\ slots' = <<>>
  /\ app' = Idle
  /\ UNCHANGED <<worldVars, bP11Initialized, bMonitorUpdate, p11Mutex,
                 pending_, waiter, cancelled, calls, forks>>

(* fork() seen from the child: P11AtForkChild, and every thread but the    *)
(* one that forked is gone while Thread stays joinable.                    *)
P11AtForkChild ==
  /\ app = Idle /\ forks < MaxForks
  /\ forks' = forks + 1
  /\ bP11Initialized' = FALSE /\ bP11Terminate' = FALSE /\ p11Mutex' = "free"
  /\ mon' = IF mon.pc \in Running THEN [NoThread EXCEPT !.pc = "gone"] ELSE mon
  /\ waiter' = [w \in Waiters |-> "idle"]
  /\ UNCHANGED <<worldVars, slots, bMonitorUpdate, joinable, pending_, app,
                 cancelled, calls>>

----------------------------------------------------------------------------
(* C_WaitForSlotEvent. *)

(* The scan both forms make under p11Mutex: the first slot with an event   *)
(* gives it up.                                                            *)
TakeEvent ==
  /\ Events # {}
  /\ LET first == CHOOSE i \in Events : \A j \in Events : i <= j
     IN  slots' = [slots EXCEPT ![first].lastEvent = "NoEvent"]

C_WaitForSlotEvent_DontBlock ==
  /\ bP11Initialized /\ Lock
  /\ TakeEvent
  /\ UNCHANGED <<worldVars, bP11Initialized, bP11Terminate, bMonitorUpdate, joinable,
                 p11Mutex, pending_, app, mon, waiter, cancelled, calls, forks>>

(* The check of bP11Initialized on entry, before the wait. *)
WaitEnter(w) ==
  /\ waiter[w] = "idle" /\ bP11Initialized
  /\ waiter' = [waiter EXCEPT ![w] = "blocked"]
  /\ UNCHANGED <<moduleVars, worldVars, p11Mutex, pending_, app, mon,
                 cancelled, calls, forks>>

WaitWake(w) ==
  /\ waiter[w] = "blocked"
  /\ EventWait
  /\ waiter' = [waiter EXCEPT ![w] = "woken"]
  /\ UNCHANGED <<moduleVars, worldVars, p11Mutex, app, mon, cancelled, calls, forks>>

(* The check after the wait: CKR_CRYPTOKI_NOT_INITIALIZED, or the scan. *)
WaitCheck(w) ==
  /\ waiter[w] = "woken"
  /\ waiter' = [waiter EXCEPT ![w] = IF bP11Initialized THEN "scan" ELSE "idle"]
  /\ UNCHANGED <<moduleVars, worldVars, p11Mutex, pending_, app, mon,
                 cancelled, calls, forks>>

WaitScan(w) ==
  /\ waiter[w] = "scan" /\ Lock
  /\ \/ /\ TakeEvent
        /\ waiter' = [waiter EXCEPT ![w] = "idle"]
     \/ /\ Events = {}
        /\ waiter' = [waiter EXCEPT ![w] = "blocked"]
        /\ UNCHANGED slots
  /\ UNCHANGED <<worldVars, bP11Initialized, bP11Terminate, bMonitorUpdate, joinable,
                 p11Mutex, pending_, app, mon, cancelled, calls, forks>>

----------------------------------------------------------------------------
(* slotMonitor. *)

(* Leaving an iteration destroys the Context that ThreadContext points to. *)
DropContext ==
  app' = IF app.at = "cancel" /\ app.tc = "alive" THEN [app EXCEPT !.tc = "dangling"]
                                                  ELSE app

Exit == mon' = [NoThread EXCEPT !.pc = "exited"] /\ DropContext

(* The context is made and size() read, without the lock. *)
MonitorStart ==
  /\ mon.pc = "start"
  /\ mon' = [mon EXCEPT !.pc = "snapshot", !.num = Len(slots)]
  /\ UNCHANGED <<moduleVars, worldVars, p11Mutex, pending_, app, waiter,
                 cancelled, calls, forks>>

(* The snapshot of every slot's state, under the lock: not initialised, no *)
(* service or a reader PC/SC no longer knows end the thread, with no event *)
(* set.  The arrays hold the num slots counted before the lock was taken;  *)
(* the loop goes over the whole map, so that a slot added in between is    *)
(* written past their end.  Of what that can do, the process dies, which   *)
(* is a stop, or the write goes unnoticed, which is this step: only the    *)
(* num slots are watched.  A write that harms other memory is left out.    *)
MonitorSnapshot ==
  /\ mon.pc = "snapshot" /\ Lock
  /\ \/ /\ bP11Initialized /\ service
        /\ LET seen == SubSeq(slots, 1, mon.num)
           IN  mon' = [mon EXCEPT
                 !.pc = "clear",
                 !.watched = [i \in DOMAIN seen |-> seen[i].reader],
                 !.current = [i \in DOMAIN seen |-> ReaderState(seen[i].reader)]]
        /\ UNCHANGED app
     \/ /\ \/ ~bP11Initialized
           \/ ~service
           \/ ~(ReadersOf(slots) \subseteq plugged)
        /\ Exit
  /\ UNCHANGED <<moduleVars, worldVars, p11Mutex, pending_, waiter, cancelled,
                 calls, forks>>

(* bMonitorUpdate = false, after the lock is released. *)
MonitorClear ==
  /\ mon.pc = "clear"
  /\ bMonitorUpdate' = FALSE
  /\ mon' = [mon EXCEPT !.pc = "validate"]
  /\ UNCHANGED <<worldVars, bP11Initialized, bP11Terminate, slots, joinable,
                 p11Mutex, pending_, app, waiter, cancelled, calls, forks>>

(* Context.validate() under the lock, then the call of GetStatusChange. *)
MonitorValidate ==
  /\ mon.pc = "validate" /\ Lock
  /\ mon' = [mon EXCEPT !.pc = "wait"]
  /\ cancelled' = FALSE
  /\ UNCHANGED <<moduleVars, worldVars, p11Mutex, pending_, app, waiter, calls, forks>>

(* What SCardGetStatusChange may answer, with the states it saw. *)
GetStatusChange(ris, seen) ==
  CASE ris = "CANCELLED"      -> cancelled
    [] ris = "SERVICE"        -> ~service
    [] ris = "NO_READERS"     -> service /\ plugged = {}
    [] ris = "UNKNOWN_READER" -> service /\ \E i \in DOMAIN seen : seen[i] = "UNAVAILABLE"
    [] ris = "TIMEOUT"        -> service /\ seen = mon.current
    [] ris = "OK"             -> service /\ seen # mon.current

MonitorWait ==
  /\ mon.pc = "wait"
  /\ LET seen == [i \in DOMAIN mon.watched |-> ReaderState(mon.watched[i])]
     IN  \E ris \in Results :
           /\ GetStatusChange(ris, seen)
           /\ mon' = [mon EXCEPT !.pc = "returned", !.ris = ris,
                        !.event = IF ris \in {"OK", "TIMEOUT"} THEN seen ELSE @]
  /\ UNCHANGED <<moduleVars, worldVars, p11Mutex, pending_, app, waiter,
                 cancelled, calls, forks>>

(* The tests on the answer, in the code's order. *)
MustRestart == mon.ris # "OK" /\ (bMonitorUpdate \/ mon.ris = "SERVICE")

MustStop_OnlyCancel == mon.ris \in {"CANCELLED", "UNKNOWN_READER"}

MustStop == bP11Terminate \/ ~bP11Initialized \/ mon.ris \in {"CANCELLED", "UNKNOWN_READER"}

MonitorRestart ==
  /\ mon.pc = "returned" /\ MustRestart
  /\ mon' = [NoThread EXCEPT !.pc = "start"]
  /\ DropContext
  /\ UNCHANGED <<moduleVars, worldVars, p11Mutex, pending_, waiter, cancelled,
                 calls, forks>>

MonitorStop ==
  /\ mon.pc = "returned" /\ ~MustRestart /\ MustStop
  /\ EventSet
  /\ Exit
  /\ UNCHANGED <<moduleVars, worldVars, p11Mutex, waiter, cancelled, calls, forks>>

MonitorNoReaders ==
  /\ mon.pc = "returned" /\ ~MustRestart /\ ~MustStop
  /\ mon.ris = "NO_READERS"
  /\ Exit
  /\ UNCHANGED <<moduleVars, worldVars, p11Mutex, pending_, waiter, cancelled,
                 calls, forks>>

MonitorScan ==
  /\ mon.pc = "returned" /\ ~MustRestart /\ ~MustStop
  /\ mon.ris \in {"OK", "TIMEOUT"}
  /\ mon' = [mon EXCEPT !.pc = "handle", !.i = 1]
  /\ UNCHANGED <<moduleVars, worldVars, p11Mutex, pending_, app, waiter,
                 cancelled, calls, forks>>

(* The event a reader's two states show, if any. *)
Change(was, is) ==
  CASE was = "PRESENT" /\ is # "PRESENT" -> "Removed"
    [] was # "PRESENT" /\ is = "PRESENT" -> "Inserted"
    [] OTHER                             -> "NoEvent"

(* A slot that changed: the event is recorded and p11slotEvent set under   *)
(* the lock (with Final() or GetATR(), see SlotSessions).                  *)
MonitorReport_NoSet ==
  /\ mon.pc = "handle" /\ mon.i \in DOMAIN mon.watched
  /\ LET what == Change(mon.current[mon.i], mon.event[mon.i])
     IN  /\ what # "NoEvent"
         /\ Lock
         /\ slots' = [s \in DOMAIN slots |->
                        IF slots[s].reader = mon.watched[mon.i]
                          THEN [slots[s] EXCEPT !.lastEvent = what] ELSE slots[s]]
         /\ IF what = "Removed" THEN EventSet ELSE UNCHANGED pending_
  /\ mon' = [mon EXCEPT !.current[mon.i] = mon.event[mon.i], !.i = @ + 1]
  /\ UNCHANGED <<worldVars, bP11Initialized, bP11Terminate, bMonitorUpdate, joinable,
                 p11Mutex, app, waiter, cancelled, calls, forks>>

MonitorReport ==
  /\ mon.pc = "handle" /\ mon.i \in DOMAIN mon.watched
  /\ LET what == Change(mon.current[mon.i], mon.event[mon.i])
     IN  /\ what # "NoEvent"
         /\ Lock
         /\ slots' = [s \in DOMAIN slots |->
                        IF slots[s].reader = mon.watched[mon.i]
                          THEN [slots[s] EXCEPT !.lastEvent = what] ELSE slots[s]]
         /\ EventSet
  /\ mon' = [mon EXCEPT !.current[mon.i] = mon.event[mon.i], !.i = @ + 1]
  /\ UNCHANGED <<worldVars, bP11Initialized, bP11Terminate, bMonitorUpdate, joinable,
                 p11Mutex, app, waiter, cancelled, calls, forks>>

(* A slot that did not change, or the end of the loop. *)
MonitorSkip ==
  /\ mon.pc = "handle"
  /\ IF mon.i \in DOMAIN mon.watched
       THEN /\ Change(mon.current[mon.i], mon.event[mon.i]) = "NoEvent"
            /\ mon' = [mon EXCEPT !.current[mon.i] = mon.event[mon.i], !.i = @ + 1]
       ELSE mon' = [mon EXCEPT !.pc = "validate", !.i = 0]
  /\ UNCHANGED <<moduleVars, worldVars, p11Mutex, pending_, app, waiter,
                 cancelled, calls, forks>>

----------------------------------------------------------------------------
(* The world outside: cards, readers, the PC/SC service. *)

World ==
  /\ changes < MaxChanges /\ changes' = changes + 1
  /\ \/ \E r \in plugged :
          /\ cards' = IF r \in cards THEN cards \ {r} ELSE cards \cup {r}
          /\ UNCHANGED <<plugged, service>>
     \/ \E r \in Readers \ plugged :
          CanPlug /\ plugged' = plugged \cup {r} /\ UNCHANGED <<cards, service>>
     \/ \E r \in plugged :
          CanUnplug /\ plugged' = plugged \ {r} /\ cards' = cards \ {r} /\ UNCHANGED service
     \/ CanStop /\ service' = ~service /\ UNCHANGED <<plugged, cards>>
  /\ UNCHANGED <<moduleVars, p11Mutex, pending_, app, mon, waiter, cancelled,
                 calls, forks>>

----------------------------------------------------------------------------
AppStep == InitSlotListSweep \/ InitSlotListDone \/ FinalizeCancel \/ FinalizeJoin

MonitorNext ==
  \/ MonitorStart \/ MonitorSnapshot \/ MonitorClear \/ MonitorValidate
  \/ MonitorWait \/ MonitorRestart \/ MonitorStop \/ MonitorNoReaders
  \/ MonitorScan \/ MonitorReport \/ MonitorSkip

WaiterStep(w) == WaitWake(w) \/ WaitCheck(w) \/ WaitScan(w)

Next ==
  \/ C_Initialize \/ C_UpdateSlotList \/ C_Finalize \/ P11AtForkChild
  \/ AppStep
  \/ C_WaitForSlotEvent_DontBlock
  \/ \E w \in Waiters : WaitEnter(w) \/ WaiterStep(w)
  \/ MonitorNext
  \/ World

(* A thread that can run does: the application inside a call, the waiters  *)
(* (condition variable and mutex wake them), the monitor, whose call of    *)
(* SCardGetStatusChange returns after a second at the latest.  Nobody is   *)
(* obliged to call anything, nor to move cards and readers.                *)
Fairness ==
  /\ WF_vars(AppStep)
  /\ WF_vars(MonitorNext)
  /\ \A w \in Waiters : WF_vars(WaiterStep(w))

Spec == Init /\ [][Next]_vars /\ Fairness

----------------------------------------------------------------------------
(* Properties. *)

TypeOK ==
  /\ {bP11Initialized, bP11Terminate, bMonitorUpdate, joinable, cancelled, service}
       \subseteq BOOLEAN
  /\ p11Mutex \in {"free", "app"}
  /\ \A i \in DOMAIN slots :
       slots[i] \in [reader : Readers, lastEvent : {"NoEvent", "Inserted", "Removed"}]
  /\ {pending_, calls, forks, changes} \subseteq Nat
  /\ app \in AppTypes
  /\ mon.pc \in MonPCs /\ mon.ris \in Results /\ mon.num \in Nat
  /\ \A i \in DOMAIN mon.watched : mon.watched[i] \in Readers
  /\ mon.pc \in {"wait", "returned", "handle"} =>
       /\ DOMAIN mon.current = DOMAIN mon.watched
       /\ \A i \in DOMAIN mon.current : mon.current[i] \in States
  /\ waiter \in [Waiters -> {"idle", "blocked", "woken", "scan"}]
  /\ cards \subseteq plugged /\ plugged \subseteq Readers

(* No card event is lost between the monitor and the waiters: every event  *)
(* recorded in a slot still has a set() to be consumed, or a waiter that   *)
(* consumed one and is on its way to the scan (slot.cpp 190-205,           *)
(* pkcs11_functions.cpp 1531-1545, syncro_event.h "never coalesced").      *)
(* A fork loses the waiters and with them what they had consumed.          *)
EventsCovered ==
  bP11Initialized /\ forks = 0 =>
    Cardinality(Events) <=
      pending_ + Cardinality({w \in Waiters : waiter[w] \in {"woken", "scan"}})

(* A thread blocked in C_WaitForSlotEvent on an initialised module has     *)
(* somebody who can wake it: a running monitor, or a set() not consumed.   *)
BlockedWaiterHasMonitor ==
  bP11Initialized /\ app = Idle /\ (\E w \in Waiters : waiter[w] = "blocked") =>
    mon.pc \in Running \/ pending_ > 0

(* The slot list is cleared only when no monitor can still be iterating    *)
(* over it: slotMonitor dereferences pSlotMap->begin() without the lock.   *)
MonitorHasSlots == mon.pc \in Running => slots # <<>>

(* Neither a recorded event nor the monitor's ground under its feet is lost, *)
(* whatever readers, service, forks and C_* calls do meanwhile.              *)
MonitorSound == TypeOK /\ EventsCovered /\ MonitorHasSlots

(* Once C_Finalize waits for the monitor, it returns: slotMonitor notices  *)
(* bP11Terminate within one poll, even when the Cancel came too early.     *)
FinalizeReturns == app.at = "join" ~> app = Idle

(* C_Initialize and C_UpdateSlotList return. *)
SweepReturns == app.at = "sweep" ~> app = Idle

(* C_Finalize wakes C_WaitForSlotEvent: when the module stays finalized,   *)
(* not all the threads that wait stay blocked.  One set() is sure; slotMo- *)
(* nitor adds a second only on some of its exits, so that with more than   *)
(* one waiter some may stay.                                               *)
FinalizeWakes ==
  <>[]~bP11Initialized => <>[](\E w \in Waiters : waiter[w] = "idle")

(* A card event wakes a blocked thread, which returns unless some other    *)
(* call takes the event or the module is finalized first.                  *)
EventDelivered ==
  \A w \in Waiters :
    (waiter[w] = "blocked" /\ Events # {}) ~>
      (waiter[w] = "idle" \/ Events = {} \/ ~bP11Initialized)

(* A reader that C_UpdateSlotList added to the slot list comes to be       *)
(* watched by the monitor, as long as the module stays initialised.        *)
AddedReaderWatched ==
  \A r \in Readers :
    (bP11Initialized /\ r \in ReadersOf(slots)) ~>
      ((\E i \in DOMAIN mon.watched : mon.watched[i] = r) \/ ~bP11Initialized)
=============================================================================
