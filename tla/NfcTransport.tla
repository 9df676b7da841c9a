---------------------------- MODULE NfcTransport ----------------------------
(* The two NFC backends that createSmartCardTransport chooses from, each    *)
(* with cards that come and go, behind the promise of ISmartCardTransport.  *)
(* The clients (the slot monitor, cie_reader_watch, the PKCS#11 calls and   *)
(* the cie_* functions) call in any order and from any number of threads:   *)
(* mutex_ makes every call one step, except while a call polls.             *)
EXTENDS LinuxNfc, AndroidNfc

VARIABLE backend       \* "kernel" or "android"

vars == <<backend, cardVars, linuxVars, androidVars>>

(* createSmartCardTransport *)
Init == /\ backend \in {"kernel", "android"}
        /\ CardInit /\ LinuxInit /\ AndroidInit
        /\ backend = "android" => kernel = [device |-> FALSE, apart |-> FALSE]

Kernel(A) == backend = "kernel" /\ A /\ UNCHANGED <<backend, androidVars>>
Android(A) == backend = "android" /\ A /\ UNCHANGED <<backend, linuxVars>>

Polls == Kernel((Slice \/ GetStatusChangeEnds \/ ConnectEnds) /\ UNCHANGED cardVars)

Next ==
  \/ Polls
  \/ Kernel(EnterField /\ UNCHANGED <<kernel, netlink, polling, hasTarget, target, cachedATR,
                                      dataFd, cancelled, wait, rv>>)
  \/ Kernel(LeaveField /\ UNCHANGED <<kernel, netlink, polling, hasTarget, target, cachedATR,
                                      dataFd, cancelled, wait, rv>>)
  \/ Kernel(EstablishContext /\ UNCHANGED cardVars)
  \/ Kernel(ListReaders /\ UNCHANGED cardVars)
  \/ Kernel(GetStatusChange /\ UNCHANGED cardVars)
  \/ Kernel(Cancel /\ UNCHANGED cardVars)
  \/ Kernel(Connect /\ UNCHANGED cardVars)
  \/ Kernel(Disconnect /\ UNCHANGED cardVars)
  \/ Kernel(Reconnect /\ UNCHANGED cardVars)
  \/ Kernel(Transmit /\ UNCHANGED <<field, shown>>)
  \/ Kernel(GetAttrib /\ UNCHANGED cardVars)
  \/ Android((Enter \/ Leave) /\ UNCHANGED androidVars)
  \/ Android((cie_set_nfc_tag \/ cie_clear_nfc_tag) /\ UNCHANGED cardVars)
  \/ Android((NewTransport \/ DeleteTransport) /\ UNCHANGED cardVars)
  \/ Android((AConnect \/ ADisconnect) /\ UNCHANGED cardVars)
  \/ Android(ATransmit /\ UNCHANGED <<field, shown>>)

(* The polling loop runs on: each poll() ends after 200 ms at most. *)
Spec == Init /\ [][Next]_vars /\ WF_vars(Polls)

----------------------------------------------------------------------------
(* The card the transport is connected to, whatever the backend. *)
Connection == IF backend = "kernel" THEN dataFd ELSE IF connected THEN isoDep ELSE 0

Promised == INSTANCE CardTransport WITH conn <- Connection

(* Both backends keep the promise of ISmartCardTransport: an answer that    *)
(* Transmit gives comes from the card that was in the field when Connect or *)
(* Reconnect succeeded and is there still, though the target that Connect   *)
(* opens may come from a reply or an event that an earlier call left in the *)
(* netlink queue, or have been kept since a call before the last card left. *)
OneCardPerConnection == Promised!Spec

(* The bytes the templates are matched on for the card of an activation. *)
AtrOfCard(n) ==
  IF Card[n].ats # <<>> THEN Atr(HistoricalBytes(n))
  ELSE IF backend = "kernel" THEN MinimalAtr ELSE Atr(Card[n].hi)

(* When a connection is made, the ATR the transport holds is that of the    *)
(* card it is now connected to, with the same bytes under both backends for *)
(* a type A card, whichever datagram the target was taken from.             *)
ConnectHasItsATR ==
  [][Connection' \notin {0, Connection} =>
       (IF backend = "kernel" THEN cachedATR' ELSE atr') = AtrOfCard(Connection')]_vars

(* Cancel, which takes no lock, ends a GetStatusChange that is waiting, even *)
(* one without a timeout, with SCARD_E_CANCELLED: no EstablishContext of     *)
(* another thread can take the cancellation back before it is seen.          *)
CancelEndsWait ==
  (cancelled /\ wait.op = "status") ~> (wait = NoWait /\ rv = "CANCELLED")
=============================================================================
