------------------------------ MODULE LinuxNfc ------------------------------
(* LinuxNFCTransport: the NFC subsystem of the kernel.  One netlink socket  *)
(* carries requests, their replies and the events of the multicast group;   *)
(* a raw socket carries APDUs to one target.                                *)
(*                                                                          *)
(* The kernel answers a request while it is being sent, so a reply enters   *)
(* the queue nl behind whatever is there already: events, and what earlier  *)
(* calls left.  findDevice and waitForTarget read ONE datagram per request  *)
(* and do not look at its sequence number; a dump whose end comes in a      *)
(* datagram of its own (kernel.apart) therefore leaves one behind.          *)
(*                                                                          *)
(* mutex_ is held by a call from its first line to its last; every call is  *)
(* one step but for GetStatusChange and Connect, which hold it over the     *)
(* polling loop (wait).  Cancel alone does not take it.                     *)
EXTENDS NfcCards, FiniteSetsExt

CONSTANTS AckTries,       \* datagrams awaitAck reads before it gives up
          ConnectSlices,  \* polls of 200 ms in the 2 s of Connect
          StatusSlices,   \* ... in the timeouts given to GetStatusChange
          MaxQueue        \* bound: calls start while the queue is shorter

ASSUME LinuxAssumption == /\ {AckTries, ConnectSlices, MaxQueue} \subseteq Nat
                          /\ StatusSlices \subseteq Nat

Infinite == 0             \* a timeout that no number of slices reaches

VARIABLES kernel,      \* [device, apart]: the controller and the dump format
          netlink,     \* netlinkFd_ open and the family resolved
          nl,          \* the receive queue of netlinkFd_
          polling,     \* polling_
          hasTarget,   \* hasTarget_
          target,      \* target_
          cachedATR,   \* cachedATR_, << >> when empty
          dataFd,      \* the target dataFd_ is connected to, 0 when closed
          cancelled,   \* cancelled_
          wait,        \* the call that holds mutex_ over waitForTarget
          rv           \* what the last GetStatusChange returned

linuxVars == <<kernel, netlink, nl, polling, hasTarget, target, cachedATR, dataFd,
               cancelled, wait, rv>>

NoTarget == [t |-> 0, ats |-> <<>>]
NoWait == [op |-> "none", left |-> 0, stage |-> "none", found |-> NoTarget]

LinuxInit ==
  /\ kernel \in [device : BOOLEAN, apart : BOOLEAN]
  /\ netlink = FALSE /\ nl = <<>>
  /\ polling = FALSE /\ hasTarget = FALSE /\ target = NoTarget /\ cachedATR = <<>>
  /\ dataFd = 0 /\ cancelled = FALSE
  /\ wait = NoWait /\ rv = "none"

Free == wait = NoWait /\ Len(nl) < MaxQueue

----------------------------------------------------------------------------
(* The kernel's side of the netlink socket. *)

Msg(k, t) == [k |-> k, t |-> t, now |-> TRUE]

(* A dump: its entry, if any, and NLMSG_DONE. *)
Dump(entry) == IF entry = <<>> \/ kernel.apart THEN entry \o <<Msg("done", 0)>> ELSE entry

DeviceDump == Dump(IF kernel.device THEN <<Msg("dev", 0)>> ELSE <<>>)
TargetDump == Dump(IF kernel.device /\ field # 0 THEN <<Msg("target", field)>> ELSE <<>>)

(* NFC_EVENT_TARGETS_FOUND carries the device's index, NFC_EVENT_TARGET_LOST *)
(* the target's; the socket has joined their group once the family is known. *)
Event(k) == nl' = IF netlink THEN Append(nl, Msg(k, field)) ELSE nl

EnterField == kernel.device /\ Enter /\ Event("found")
LeaveField == Leave /\ Event("lost")

(* A new request gets a new sequence number: the acks that are still in the *)
(* queue are no longer the ones awaited.                                    *)
Requested(q, k) == [i \in DOMAIN q |-> [q[i] EXCEPT !.now = FALSE]] \o <<Msg(k, 0)>>

----------------------------------------------------------------------------
(* Netlink plumbing: each of these maps the queue to the queue it leaves.  *)

(* ensureNetlink: the family is resolved once, and asked for again until it is. *)
ensureNetlink(resolved) == netlink \/ resolved

(* findDevice: the first datagram, if it names a device. *)
findDevice(q) ==
  LET all == q \o DeviceDump
  IN [ok |-> Head(all).k \in {"dev", "found"}, nl |-> Tail(all)]

(* awaitAck: the ack of the last request, behind at most AckTries - 1 others. *)
awaitAck(q) ==
  LET at == {i \in DOMAIN q : i <= AckTries /\ q[i].k = "ack" /\ q[i].now}
      n == IF at = {} THEN AckTries ELSE Min(at)
  IN [ok |-> at # {}, nl |-> SubSeq(q, n + 1, Len(q))]

(* powerUpAndPoll: an error of DEV_UP is only logged.  started is what the  *)
(* kernel says of START_POLL, EBUSY counting as a yes.                      *)
powerUpAndPoll(q, started) ==
  LET up == awaitAck(Requested(q, "ack"))
      poll == awaitAck(Requested(up.nl, "ack"))
  IN [ok |-> poll.ok /\ started, nl |-> poll.nl]

(* The common head of GetStatusChange and Connect. *)
Started(resolved, started) ==
  LET dev == findDevice(nl)
      power == powerUpAndPoll(dev.nl, started)
  IN CASE ~ensureNetlink(resolved) -> [rv |-> "NO_READERS_AVAILABLE", nl |-> nl]
       [] ensureNetlink(resolved) /\ ~dev.ok -> [rv |-> "NO_READERS_AVAILABLE", nl |-> dev.nl]
       [] ensureNetlink(resolved) /\ dev.ok /\ polling -> [rv |-> "SUCCESS", nl |-> dev.nl]
       [] ensureNetlink(resolved) /\ dev.ok /\ ~polling ->
            [rv |-> IF power.ok THEN "SUCCESS" ELSE "NO_SERVICE", nl |-> power.nl]

Begin(op, left) ==
  \E resolved \in BOOLEAN, started \in BOOLEAN :
     LET s == Started(resolved, started)
         known == op = "connect" /\ hasTarget
     IN /\ netlink' = ensureNetlink(resolved)
        /\ nl' = s.nl
        /\ polling' = (polling \/ s.rv = "SUCCESS")
        /\ wait' = IF s.rv # "SUCCESS" THEN NoWait
                   ELSE [op |-> op, left |-> left,
                         stage |-> IF known THEN "open" ELSE "poll",
                         found |-> IF known THEN target ELSE NoTarget]
        /\ rv' = IF op = "status" /\ s.rv # "SUCCESS" THEN s.rv ELSE rv

(* waitForTarget, one turn of its loop: any datagram with a target index,  *)
(* an entry of the dump or the event that the target is lost, is a target. *)
Slice ==
  /\ wait.stage = "poll"
  /\ LET all == nl \o TargetDump
         m == Head(all)
     IN \/ /\ cancelled
           /\ wait' = [wait EXCEPT !.stage = "open"]
           /\ UNCHANGED nl
        \/ /\ ~cancelled
           /\ nl' = Tail(all)
           /\ wait' = IF m.k \in {"target", "lost"}
                      THEN [wait EXCEPT !.stage = "open",
                              !.found = [t |-> m.t,
                                         ats |-> IF m.k = "target" THEN Card[m.t].ats ELSE <<>>]]
                      ELSE [wait EXCEPT
                              !.left = IF @ = Infinite THEN @ ELSE @ - 1,
                              !.stage = IF wait.left = 1 THEN "open" ELSE @]
  /\ UNCHANGED <<kernel, netlink, polling, hasTarget, target, cachedATR, dataFd, cancelled, rv>>

----------------------------------------------------------------------------
(* ISmartCardTransport *)

EstablishContext_NoLock ==
  /\ cancelled' = FALSE
  /\ UNCHANGED <<kernel, netlink, nl, polling, hasTarget, target, cachedATR, dataFd, wait, rv>>

EstablishContext ==
  /\ wait = NoWait
  /\ \E resolved \in BOOLEAN :
       /\ netlink' = ensureNetlink(resolved)
       /\ cancelled' = IF netlink' THEN FALSE ELSE cancelled
  /\ UNCHANGED <<kernel, nl, polling, hasTarget, target, cachedATR, dataFd, wait, rv>>

ListReaders ==
  /\ Free
  /\ \E resolved \in BOOLEAN :
       /\ netlink' = ensureNetlink(resolved)
       /\ nl' = IF netlink' THEN findDevice(nl).nl ELSE nl
  /\ UNCHANGED <<kernel, polling, hasTarget, target, cachedATR, dataFd, cancelled, wait, rv>>

GetStatusChange ==
  /\ Free
  /\ \E left \in StatusSlices : Begin("status", left)
  /\ UNCHANGED <<kernel, hasTarget, target, cachedATR, dataFd, cancelled>>

GetStatusChangeEnds ==
  /\ wait.op = "status" /\ wait.stage = "open"
  /\ wait' = NoWait
  /\ LET present == wait.found # NoTarget /\ ~cancelled
     IN /\ rv' = IF cancelled THEN "CANCELLED" ELSE IF present THEN "SUCCESS" ELSE "TIMEOUT"
        /\ hasTarget' = (hasTarget \/ present)
        /\ target' = IF present THEN wait.found ELSE target
        /\ cachedATR' = IF present THEN AtrFromAts(wait.found.ats) ELSE cachedATR
  /\ UNCHANGED <<kernel, netlink, nl, polling, dataFd, cancelled>>

Cancel ==
  /\ ~cancelled /\ cancelled' = TRUE
  /\ UNCHANGED <<kernel, netlink, nl, polling, hasTarget, target, cachedATR, dataFd, wait, rv>>

Connect ==
  /\ Free
  /\ Begin("connect", ConnectSlices)
  /\ UNCHANGED <<kernel, hasTarget, target, cachedATR, dataFd, cancelled>>

(* openDataSocket: the old socket is closed first; connect() is refused for *)
(* a target that is no longer active and may fail for one that is.          *)
openDataSocket(t) == dataFd' \in {0} \union ({t} \cap {field})

ConnectEnds_StaleATR ==
  /\ wait.op = "connect" /\ wait.stage = "open"
  /\ wait' = NoWait
  /\ wait.found # NoTarget /\ openDataSocket(wait.found.t)
  /\ target' = wait.found /\ hasTarget' = TRUE /\ UNCHANGED cachedATR
  /\ UNCHANGED <<kernel, netlink, nl, polling, cancelled, rv>>

(* The second half of Connect; a failure leaves hasTarget_ as it was. *)
ConnectEnds ==
  /\ wait.op = "connect" /\ wait.stage = "open"
  /\ wait' = NoWait
  /\ \/ /\ wait.found = NoTarget
        /\ UNCHANGED <<dataFd, hasTarget, target, cachedATR>>
     \/ /\ wait.found # NoTarget
        /\ openDataSocket(wait.found.t)
        /\ \/ dataFd' = 0 /\ UNCHANGED <<hasTarget, target, cachedATR>>
           \/ /\ dataFd' # 0
              /\ hasTarget' = TRUE /\ target' = wait.found
              /\ cachedATR' = AtrFromAts(wait.found.ats)
  /\ UNCHANGED <<kernel, netlink, nl, polling, cancelled, rv>>

Disconnect ==
  /\ Free
  /\ dataFd' = 0 /\ hasTarget' = FALSE
  /\ UNCHANGED <<kernel, netlink, nl, polling, target, cachedATR, cancelled, wait, rv>>

Reconnect ==
  /\ Free
  /\ hasTarget /\ openDataSocket(target.t)
  /\ UNCHANGED <<kernel, netlink, nl, polling, hasTarget, target, cachedATR, cancelled, wait, rv>>

(* A failed send leaves everything; a failed receive closes the socket and  *)
(* forgets the target; an answer too long for the caller is dropped.        *)
Transmit ==
  /\ Free /\ dataFd # 0
  /\ \/ /\ dataFd = field /\ answer' = dataFd
        /\ UNCHANGED <<dataFd, hasTarget>>
     \/ /\ dataFd' = 0 /\ hasTarget' = FALSE
        /\ UNCHANGED answer
     \/ UNCHANGED <<dataFd, hasTarget, answer>>
  /\ UNCHANGED <<kernel, netlink, nl, polling, target, cachedATR, cancelled, wait, rv>>

(* GetAttrib of the ATR: builds one when there is none yet. *)
GetAttrib ==
  /\ Free /\ cachedATR = <<>>
  /\ cachedATR' = AtrFromAts(target.ats)
  /\ UNCHANGED <<kernel, netlink, nl, polling, hasTarget, target, dataFd, cancelled, wait, rv>>
=============================================================================
