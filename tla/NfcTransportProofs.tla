------------------------- MODULE NfcTransportProofs -------------------------
(* Proofs about the NFC transports, for any sequence of cards, any queue     *)
(* length and any timeouts: both backends implement CardTransport, and a     *)
(* connection has the ATR of its card.                                       *)
EXTENDS NfcTransport, TLAPS, FiniteSetTheorems, SequenceTheorems,
        WellFoundedInduction

----------------------------------------------------------------------------
(* The refinement.  It rests on the order of events alone: activations are  *)
(* numbered, and a socket or an IsoDep connects only to what is in the field. *)

RefInv == /\ shown \in Nat /\ field \in Nat /\ connected \in BOOLEAN
          /\ connected => isoDep # 0

(* What the steps do to the variables that CardTransport sees: the field     *)
(* moves, or the connection ends, is opened to the field or is used.         *)
Moves == /\ field' \in Nat /\ shown' \in Nat /\ (field # 0 => field' = 0)
         /\ UNCHANGED <<answer, backend, dataFd, connected, isoDep>>
Opens == /\ Connection' \in {0, field, Connection} /\ connected' \in BOOLEAN
         /\ (connected => isoDep # 0)'
         /\ UNCHANGED <<field, shown, answer, backend>>
Uses == /\ Connection # 0 /\ Connection = field /\ answer' = Connection
        /\ UNCHANGED <<field, shown, backend, dataFd, connected, isoDep>>

(* Every step of the kernel back end is a step of the abstract connection. *)
LEMMA KernelRefines ==
    ASSUME RefInv, backend = "kernel", [Next]_vars PROVE Moves \/ Opens \/ Uses
  <1> USE DEF RefInv, Moves, Opens, Uses, Connection, Kernel, cardVars, androidVars
  <1>1. CASE Polls
    BY <1>1 DEF Polls, Slice, GetStatusChangeEnds, ConnectEnds, openDataSocket
  <1>2. CASE Kernel(EnterField /\ UNCHANGED <<kernel, netlink, polling, hasTarget, target,
                       cachedATR, dataFd, cancelled, wait, rv>>)
    BY <1>2 DEF EnterField, Enter
  <1>3. CASE Kernel(LeaveField /\ UNCHANGED <<kernel, netlink, polling, hasTarget, target,
                       cachedATR, dataFd, cancelled, wait, rv>>)
    BY <1>3 DEF LeaveField, Leave
  <1>4. CASE Kernel((EstablishContext \/ ListReaders \/ GetStatusChange \/ Cancel \/ Connect
                     \/ Disconnect \/ Reconnect \/ GetAttrib) /\ UNCHANGED cardVars)
    BY <1>4 DEF EstablishContext, ListReaders, GetStatusChange, Cancel, Connect, Disconnect,
                Reconnect, GetAttrib, openDataSocket
  <1>5. CASE Kernel(Transmit /\ UNCHANGED <<field, shown>>)
    BY <1>5 DEF Transmit
  <1>6. CASE UNCHANGED vars
    BY <1>6 DEF vars, linuxVars
  <1> QED
    BY <1>1, <1>2, <1>3, <1>4, <1>5, <1>6 DEF Next, Android

(* Every step of the Android back end is a step of the abstract connection. *)
LEMMA AndroidRefines ==
    ASSUME RefInv, backend = "android", [Next]_vars PROVE Moves \/ Opens \/ Uses
  <1> USE DEF RefInv, Moves, Opens, Uses, Connection, Android, cardVars, linuxVars, androidVars
  <1>1. CASE Android((Enter \/ Leave) /\ UNCHANGED androidVars)
    BY <1>1 DEF Enter, Leave
  <1>2. CASE Android((cie_set_nfc_tag \/ cie_clear_nfc_tag) /\ UNCHANGED cardVars)
    BY <1>2 DEF cie_set_nfc_tag, cie_clear_nfc_tag
  <1>3. CASE Android((NewTransport \/ DeleteTransport) /\ UNCHANGED cardVars)
    BY <1>3 DEF NewTransport, DeleteTransport
  <1>4. CASE Android((AConnect \/ ADisconnect) /\ UNCHANGED cardVars)
    BY <1>4 DEF AConnect, ADisconnect
  <1>5. CASE Android(ATransmit /\ UNCHANGED <<field, shown>>)
    <2>1. CASE isoDep = field /\ answer' = isoDep /\ UNCHANGED connected
      <3>1. connected /\ alive /\ Connection = isoDep
        BY <1>5 DEF ATransmit
      <3> QED BY <1>5, <2>1, <3>1 DEF ATransmit
    <2>2. CASE connected' = FALSE /\ UNCHANGED answer
      <3>1. Connection' = 0
        BY <1>5, <2>2 DEF ATransmit
      <3> QED BY <1>5, <2>2, <3>1 DEF ATransmit
    <2>3. CASE isoDep = field /\ UNCHANGED <<answer, connected>>
      BY <1>5, <2>3 DEF ATransmit
    <2> QED BY <1>5, <2>1, <2>2, <2>3 DEF ATransmit
  <1>6. CASE UNCHANGED vars
    BY <1>6 DEF vars
  <1> QED
    BY <1>1, <1>2, <1>3, <1>4, <1>5, <1>6 DEF Next, Polls, Kernel

(* The backend is chosen once, and RefInv is kept. *)
LEMMA RefInvariance == Spec => [](RefInv /\ backend \in {"kernel", "android"})
  <1>1. Init => RefInv /\ backend \in {"kernel", "android"}
    <2>1. Init => shown \in Nat /\ field \in Nat
      BY DEF Init, CardInit
    <2>2. Init => connected = FALSE /\ backend \in {"kernel", "android"}
      BY Zenon DEF Init, AndroidInit
    <2> QED BY <2>1, <2>2 DEF RefInv
  <1>2. RefInv /\ backend \in {"kernel", "android"} /\ [Next]_vars
        => (RefInv /\ backend \in {"kernel", "android"})'
    BY KernelRefines, AndroidRefines DEF RefInv, Moves, Opens, Uses
  <1> QED BY <1>1, <1>2, PTL DEF Spec

(* Both backends keep the promise of ISmartCardTransport: what Transmit      *)
(* answers comes from the card that was in the field when the connection     *)
(* was made, and is there still (Connect, Reconnect, Transmit, openDataSocket, *)
(* IsoDep.connect).                                                          *)
THEOREM TransportIsImplemented == Spec => OneCardPerConnection
  <1>1. Init => Promised!Init
    BY DEF Init, CardInit, LinuxInit, AndroidInit, Connection, Promised!Init
  <1>2. RefInv /\ backend \in {"kernel", "android"} /\ [Next]_vars
        => [Promised!Next]_(Promised!vars)
    <2> SUFFICES ASSUME RefInv, backend \in {"kernel", "android"}, [Next]_vars
                 PROVE  [Promised!Next]_(Promised!vars)
      OBVIOUS
    <2>1. Moves \/ Opens \/ Uses
      BY KernelRefines, AndroidRefines
    <2>2. CASE Moves
      BY <2>2 DEF Moves, Connection, Promised!Next, Promised!Move
    <2>3. CASE Opens
      BY <2>3 DEF Opens, RefInv, Promised!Next, Promised!Open, Promised!Lose, Promised!vars
    <2>4. CASE Uses
      BY <2>4 DEF Uses, Connection, Promised!Next, Promised!Exchange
    <2> QED BY <2>1, <2>2, <2>3, <2>4
  <1> QED BY <1>1, <1>2, RefInvariance, PTL DEF Spec, OneCardPerConnection, Promised!Spec

----------------------------------------------------------------------------
(* The ATR.  What matters is where a target comes from: from the dump, with  *)
(* its ATS, or from the event that it was lost, without; the latter is never *)
(* in the field again, so that no socket opens to it.                        *)

Atses == {<<>>} \union {Card[n].ats : n \in DOMAIN Card}
Targets == [t : Nat, ats : Atses]
Waits == [op : {"none", "status", "connect"}, left : Nat,
          stage : {"none", "poll", "open"}, found : Targets]
Msgs == [k : {"dev", "done", "target", "found", "lost", "ack"}, t : Nat, now : BOOLEAN]

(* Datagrams that name a target name one that was shown. *)
SoundMsgs == {m \in Msgs : /\ m.k = "target" => m.t \in 1..shown
                           /\ m.k = "lost" => m.t \in 1..shown /\ m.t # field}

(* A target without the ATS of its card has left the field. *)
SoundTarget(x) == \/ x = NoTarget
                  \/ x.t \in 1..shown /\ (x.ats = Card[x.t].ats \/ x.t # field)

AtrInv ==
  /\ shown \in 0..Len(Card) /\ field \in 0..shown
  /\ nl \in Seq(SoundMsgs)
  /\ wait \in Waits /\ SoundTarget(wait.found)
  /\ target \in Targets /\ SoundTarget(target)
  /\ hasTarget => cachedATR = AtrFromAts(target.ats)
  /\ g_isoDep \in 0..shown
  /\ isoDep # 0 => atr = AtrFromTag(isoDep)

(* Datagrams that name no target are sound. *)
LEMMA OtherMsgs ==
    ASSUME NEW k \in {"dev", "done", "found", "ack"}, NEW t \in Nat
    PROVE  Msg(k, t) \in SoundMsgs
  BY DEF Msg, SoundMsgs, Msgs

(* The dumps of the kernel are not empty. *)
LEMMA DeviceDumpSound == DeviceDump \in Seq(SoundMsgs) /\ DeviceDump # <<>>
  <1>1. Msg("dev", 0) \in SoundMsgs /\ Msg("done", 0) \in SoundMsgs
    BY OtherMsgs
  <1>2. CASE ~kernel.device
    BY <1>1, <1>2 DEF DeviceDump, Dump
  <1>3. CASE kernel.device /\ kernel.apart
    BY <1>1, <1>3 DEF DeviceDump, Dump
  <1>4. CASE kernel.device /\ ~kernel.apart
    BY <1>1, <1>4 DEF DeviceDump, Dump
  <1> QED BY <1>2, <1>3, <1>4

(* The dump the kernel makes of its targets. *)
LEMMA TargetDumpSound ==
    ASSUME AtrInv PROVE TargetDump \in Seq(SoundMsgs) /\ TargetDump # <<>>
  <1>1. Msg("done", 0) \in SoundMsgs
    BY OtherMsgs
  <1>2. field # 0 => Msg("target", field) \in SoundMsgs
    BY CardAssumption DEF AtrInv, Msg, SoundMsgs, Msgs, IsSequence
  <1>3. CASE ~(kernel.device /\ field # 0)
    BY <1>1, <1>3 DEF TargetDump, Dump
  <1>4. CASE kernel.device /\ field # 0 /\ kernel.apart
    BY <1>1, <1>2, <1>4 DEF TargetDump, Dump
  <1>5. CASE kernel.device /\ field # 0 /\ ~kernel.apart
    BY <1>1, <1>2, <1>5 DEF TargetDump, Dump
  <1> QED BY <1>3, <1>4, <1>5

(* The calls that read datagrams leave a sound queue. *)
LEMMA FindDeviceSound ==
    ASSUME NEW q \in Seq(SoundMsgs) PROVE findDevice(q).nl \in Seq(SoundMsgs)
  BY DeviceDumpSound DEF findDevice

(* The queue after a request and its ack. *)
LEMMA RequestedSound ==
    ASSUME NEW q \in Seq(SoundMsgs) PROVE Requested(q, "ack") \in Seq(SoundMsgs)
  <1> DEFINE old == [i \in DOMAIN q |-> [q[i] EXCEPT !.now = FALSE]]
  <1>1. ASSUME NEW i \in DOMAIN q PROVE [q[i] EXCEPT !.now = FALSE] \in SoundMsgs
    <2>1. q[i] \in SoundMsgs
      OBVIOUS
    <2> QED BY <2>1 DEF SoundMsgs, Msgs
  <1>2. old \in Seq(SoundMsgs)
    <2>1. DOMAIN q = 1..Len(q) /\ Len(q) \in Nat
      OBVIOUS
    <2>2. old \in [1..Len(q) -> SoundMsgs]
      BY <1>1, <2>1
    <2> QED BY <2>1, <2>2, SeqDef
  <1>3. <<Msg("ack", 0)>> \in Seq(SoundMsgs)
    BY OtherMsgs
  <1> QED BY <1>2, <1>3 DEF Requested

(* A set of naturals that is not empty has a least element. *)
LEMMA LeastNat ==
    ASSUME NEW T \in SUBSET Nat, T # {}
    PROVE  \E x \in T : \A y \in T : x <= y
  <1> DEFINE R == OpToRel(<, Nat)
  <1>1. IsWellFoundedOn(R, Nat)
    BY NatLessThanWellFounded
  <1> HIDE DEF R
  <1>2. \E x \in T : \A y \in T : ~(<<y, x>> \in R)
    BY <1>1, WFMin
  <1>3. \A y, x \in Nat : y < x => <<y, x>> \in R
    BY DEF R, OpToRel
  <1>4. \A y, x \in T : ~(<<y, x>> \in R) => x <= y
    <2> SUFFICES ASSUME NEW y \in T, NEW x \in T, ~(<<y, x>> \in R) PROVE x <= y
      OBVIOUS
    <2>1. x \in Nat /\ y \in Nat
      OBVIOUS
    <2>2. ~(y < x)
      BY <1>3, <2>1
    <2> QED BY <2>1, <2>2
  <1> QED BY <1>2, <1>4

(* The queue after awaitAck has read from it. *)
LEMMA AwaitAckSound ==
    ASSUME NEW q \in Seq(SoundMsgs) PROVE awaitAck(q).nl \in Seq(SoundMsgs)
  <1> DEFINE at == {i \in DOMAIN q : i <= AckTries /\ q[i].k = "ack" /\ q[i].now}
             n == IF at = {} THEN AckTries ELSE Min(at)
  <1>1. n \in Nat
    <2>1. CASE at = {}
      BY <2>1, LinuxAssumption
    <2>2. CASE at # {}
      <3>1. \E i \in at : \A j \in at : i <= j
        <4>1. at \in SUBSET Nat
          OBVIOUS
        <4> HIDE DEF at
        <4> QED BY <2>2, <4>1, LeastNat
      <3> HIDE DEF at
      <3>2. Min(at) \in at
        BY <3>1 DEF Min
      <3>3. at \subseteq Nat
        BY DEF at
      <3> QED BY <2>2, <3>2, <3>3
    <2> QED BY <2>1, <2>2
  <1> HIDE DEF n
  <1>2. \A i \in n + 1 .. Len(q) : q[i] \in SoundMsgs
    BY <1>1
  <1>3. SubSeq(q, n + 1, Len(q)) \in Seq(SoundMsgs)
    BY <1>1, <1>2, SubSeqProperties
  <1> QED BY <1>3 DEF awaitAck, n

(* The queue after the start of a poll. *)
LEMMA StartedSound ==
    ASSUME nl \in Seq(SoundMsgs), NEW resolved, NEW started
    PROVE  Started(resolved, started).nl \in Seq(SoundMsgs)
  <1>1. findDevice(nl).nl \in Seq(SoundMsgs)
    BY FindDeviceSound
  <1>2. powerUpAndPoll(findDevice(nl).nl, started).nl \in Seq(SoundMsgs)
    BY <1>1, RequestedSound, AwaitAckSound DEF powerUpAndPoll
  <1> QED BY <1>1, <1>2 DEF Started

----------------------------------------------------------------------------
(* The ATR that linux_nfc_transport makes from the ATS of a card is the one  *)
(* its historical bytes make, as on Android.                                 *)
LEMMA AtrOfAts ==
    ASSUME NEW n \in DOMAIN Card
    PROVE  AtrFromAts(Card[n].ats) = IF Card[n].ats # <<>> THEN Atr(HistoricalBytes(n))
                                     ELSE MinimalAtr
  <1> DEFINE a == Card[n].ats
  <1>1. CASE a = <<>>
    BY <1>1 DEF AtrFromAts
  <1>2. CASE a # <<>>
    <2>1. Len(a) \in Nat /\ Len(a) >= 2 /\ IsFiniteSet(a[2])
      BY <1>2, CardAssumption DEF IsSequence
    <2>2. Cardinality(a[2]) \in Nat
      BY <2>1, FS_CardinalityType
    <2> DEFINE c == Cardinality(a[2])
    <2> HIDE DEF c
    <2>3. CASE 2 + c >= Len(a)
      <3>1. SubSeq(a, 3 + c, Len(a)) = <<>>
        BY <2>1, <2>2, <2>3, SubSeqEmpty DEF c
      <3> QED BY <1>2, <2>1, <2>2, <2>3, <3>1 DEF AtrFromAts, HistoricalBytes, MinimalAtr, c
    <2>4. CASE ~(2 + c >= Len(a))
      <3>1. 2 + c + 1 = 3 + c
        BY <2>2 DEF c
      <3> QED BY <1>2, <2>1, <2>2, <2>4, <3>1 DEF AtrFromAts, HistoricalBytes, c
    <2> QED BY <2>3, <2>4
  <1> QED BY <1>1, <1>2

(* A card that comes or goes leaves what was sound sound. *)
LEMMA FieldMoves ==
    ASSUME AtrInv, Enter \/ Leave
    PROVE  /\ shown' \in 0..Len(Card) /\ field' \in 0..shown'
           /\ SoundMsgs \subseteq SoundMsgs'
           /\ \A x \in Targets : SoundTarget(x) => SoundTarget(x)'
           /\ \A n \in 0..shown : n \in 0..shown'
  <1>1. /\ shown \in Nat /\ Len(Card) \in Nat /\ field \in 0..shown
        /\ shown' \in 0..Len(Card) /\ field' \in 0..shown' /\ shown <= shown'
        /\ field' = 0 \/ field' = shown + 1
    BY CardAssumption DEF AtrInv, Enter, Leave, IsSequence
  <1>2. SoundMsgs \subseteq SoundMsgs'
    BY <1>1 DEF SoundMsgs, Msgs
  <1>3. \A x \in Targets : SoundTarget(x) => SoundTarget(x)'
    BY <1>1 DEF SoundTarget, Targets
  <1> QED BY <1>1, <1>2, <1>3

(* The target that stands for none. *)
LEMMA NoTargetTyped == NoTarget \in Targets /\ NoWait \in Waits
  BY DEF NoTarget, NoWait, Targets, Waits, Atses

(* The invariant holds at the start. *)
LEMMA AtrInit == Init => AtrInv
  <1> SUFFICES ASSUME Init PROVE AtrInv
    OBVIOUS
  <1>1. Len(Card) \in Nat
    BY CardAssumption DEF IsSequence
  <1> QED
    BY <1>1, NoTargetTyped
       DEF Init, CardInit, LinuxInit, AndroidInit, AtrInv, NoWait, SoundTarget

(* EnterField and LeaveField, with the events they put into the queue. *)
LEMMA KernelFieldStep ==
    ASSUME AtrInv, EnterField \/ LeaveField,
           UNCHANGED <<androidVars, kernel, netlink, polling, hasTarget, target, cachedATR,
                       dataFd, cancelled, wait, rv>>
    PROVE  AtrInv'
  <1>1. Enter \/ Leave
    BY DEF EnterField, LeaveField
  <1>2. /\ shown' \in 0..Len(Card) /\ field' \in 0..shown'
        /\ SoundMsgs \subseteq SoundMsgs'
        /\ \A x \in Targets : SoundTarget(x) => SoundTarget(x)'
        /\ g_isoDep' \in 0..shown'
    BY <1>1, FieldMoves DEF AtrInv, androidVars
  <1>3. nl \in Seq(SoundMsgs')
    BY <1>2, SeqMonotonic DEF AtrInv
  <1>4. nl' \in Seq(SoundMsgs')
    <2>1. CASE EnterField
      <3>1. Msg("found", field) \in SoundMsgs'
        BY <2>1, <1>2, CardAssumption, OtherMsgs
           DEF EnterField, Enter, Msg, SoundMsgs, Msgs
      <3> QED BY <2>1, <1>3, <3>1 DEF EnterField, Event
    <2>2. CASE LeaveField
      <3>1. Msg("lost", field) \in SoundMsgs'
        BY <2>2, CardAssumption DEF LeaveField, Leave, Msg, SoundMsgs, Msgs, AtrInv, IsSequence
      <3> QED BY <2>2, <1>3, <3>1 DEF LeaveField, Event
    <2> QED BY <2>1, <2>2
  <1>5. /\ wait' = wait /\ target' = target /\ hasTarget' = hasTarget
        /\ cachedATR' = cachedATR /\ isoDep' = isoDep /\ atr' = atr
    BY DEF androidVars
  <1>6. wait'.found \in Targets /\ SoundTarget(wait.found)' /\ SoundTarget(target)'
    BY <1>2, <1>5 DEF AtrInv, Waits, SoundTarget
  <1> QED BY <1>2, <1>4, <1>5, <1>6 DEF AtrInv

(* While the cards stay, soundness is the same before and after a step. *)
LEMMA Stays ==
    ASSUME UNCHANGED <<field, shown>>
    PROVE  SoundMsgs' = SoundMsgs /\ \A x : SoundTarget(x)' <=> SoundTarget(x)
  BY DEF SoundMsgs, SoundTarget

(* A turn of waitForTarget: a target that it takes from a datagram is sound. *)
LEMMA SliceStep ==
    ASSUME AtrInv, Slice, UNCHANGED <<cardVars, androidVars>> PROVE AtrInv'
  <1>0. UNCHANGED <<field, shown>> /\ UNCHANGED <<target, hasTarget, cachedATR, g_isoDep, isoDep, atr>>
    BY DEF Slice, cardVars, androidVars
  <1> DEFINE all == nl \o TargetDump
             m == Head(all)
  <1>1. all \in Seq(SoundMsgs) /\ all # <<>>
    BY TargetDumpSound DEF AtrInv
  <1>2. m \in SoundMsgs /\ Tail(all) \in Seq(SoundMsgs)
    BY <1>1, HeadTailProperties
  <1>3. nl' \in Seq(SoundMsgs)
    BY <1>2 DEF Slice, AtrInv
  <1> HIDE DEF m
  <1> DEFINE new == [t |-> m.t, ats |-> IF m.k = "target" THEN Card[m.t].ats ELSE <<>>]
  <1>4. m.k \in {"target", "lost"} => new \in Targets /\ SoundTarget(new)
    <2>1. m.k = "target" => m.t \in 1..shown /\ m.t \in Nat
      BY <1>2 DEF SoundMsgs, Msgs
    <2>2. m.k = "lost" => m.t \in 1..shown /\ m.t # field /\ m.t \in Nat
      BY <1>2 DEF SoundMsgs, Msgs
    <2>3. 1..shown \subseteq DOMAIN Card
      BY CardAssumption DEF IsSequence, AtrInv
    <2> QED BY <2>1, <2>2, <2>3 DEF Targets, Atses, SoundTarget
  <1> HIDE DEF new
  <1>5. wait \in Waits /\ SoundTarget(wait.found)
    BY DEF AtrInv
  <1>6. wait' \in Waits /\ SoundTarget(wait'.found)
    <2>1. CASE wait' = [wait EXCEPT !.stage = "open"]
      BY <1>5, <2>1 DEF Waits
    <2>2. CASE m.k \in {"target", "lost"} /\ wait' = [wait EXCEPT !.stage = "open", !.found = new]
      BY <1>4, <1>5, <2>2 DEF Waits
    <2>3. CASE wait' = [wait EXCEPT !.left = IF @ = Infinite THEN @ ELSE @ - 1,
                                    !.stage = IF wait.left = 1 THEN "open" ELSE @]
      <3>1. wait.left \in Nat /\ wait.stage \in {"none", "poll", "open"}
        BY <1>5 DEF Waits
      <3>2. wait.left # Infinite => wait.left - 1 \in Nat
        BY <3>1 DEF Infinite
      <3> DEFINE left == IF wait.left = Infinite THEN wait.left ELSE wait.left - 1
                 stage == IF wait.left = 1 THEN "open" ELSE wait.stage
      <3>3. left \in Nat /\ stage \in {"none", "poll", "open"}
        BY <3>1, <3>2
      <3>4. wait' = [wait EXCEPT !.left = left, !.stage = stage]
        BY <2>3, <1>5 DEF Waits
      <3> HIDE DEF left, stage
      <3> QED BY <1>5, <3>3, <3>4 DEF Waits
    <2> QED BY <2>1, <2>2, <2>3 DEF Slice, m, new
  <1> QED BY <1>0, <1>3, <1>6, Stays DEF AtrInv

(* GetStatusChange and Connect, whether they fail or begin to poll. *)
LEMMA BeginStep ==
    ASSUME AtrInv, NEW op \in {"status", "connect"}, NEW left \in Nat, Begin(op, left),
           UNCHANGED <<hasTarget, target, cachedATR, cardVars, androidVars>>
    PROVE  AtrInv'
  <1>0. UNCHANGED <<field, shown>> /\ UNCHANGED <<target, hasTarget, cachedATR, g_isoDep, isoDep, atr>>
    BY DEF cardVars, androidVars
  <1>1. nl' \in Seq(SoundMsgs)
    BY StartedSound DEF Begin, AtrInv
  <1>2. \/ wait' = NoWait
        \/ \E stage \in {"open", "poll"}, found \in {target, NoTarget} :
              wait' = [op |-> op, left |-> left, stage |-> stage, found |-> found]
    BY DEF Begin
  <1>3. wait' \in Waits /\ SoundTarget(wait'.found)
    BY <1>2, NoTargetTyped DEF AtrInv, Waits, SoundTarget, NoWait
  <1> QED BY <1>0, <1>1, <1>3, Stays DEF AtrInv

(* The ends of the two calls: what they keep is what waitForTarget found. *)
LEMMA EndsStep ==
    ASSUME AtrInv, GetStatusChangeEnds \/ ConnectEnds, UNCHANGED <<cardVars, androidVars>>
    PROVE  AtrInv'
  <1>0. UNCHANGED <<field, shown>> /\ UNCHANGED <<nl, g_isoDep, isoDep, atr>>
    BY DEF GetStatusChangeEnds, ConnectEnds, cardVars, androidVars
  <1>1. wait' = NoWait /\ NoWait \in Waits /\ SoundTarget(NoWait.found)
    BY NoTargetTyped DEF GetStatusChangeEnds, ConnectEnds, SoundTarget, NoWait
  <1>2. \/ target' = target /\ cachedATR' = cachedATR /\ (hasTarget' <=> hasTarget)
        \/ target' = wait.found /\ cachedATR' = AtrFromAts(wait.found.ats)
    BY DEF GetStatusChangeEnds, ConnectEnds
  <1>3. /\ target' \in Targets /\ SoundTarget(target')
        /\ hasTarget' => cachedATR' = AtrFromAts(target'.ats)
    BY <1>2 DEF AtrInv, Waits
  <1> QED BY <1>0, <1>1, <1>3, Stays DEF AtrInv

(* The calls of one step. *)
LEMMA CallStep ==
    ASSUME AtrInv, UNCHANGED <<field, shown, androidVars>>,
           EstablishContext \/ ListReaders \/ Cancel \/ Disconnect \/ Reconnect \/ Transmit
           \/ GetAttrib
    PROVE  AtrInv'
  <1>0. UNCHANGED <<field, shown>> /\ UNCHANGED <<g_isoDep, isoDep, atr>>
    BY DEF androidVars
  <1>1. UNCHANGED <<wait, target>>
    BY DEF EstablishContext, ListReaders, Cancel, Disconnect, Reconnect, Transmit, GetAttrib
  <1>2. nl' \in Seq(SoundMsgs)
    BY FindDeviceSound
       DEF AtrInv, EstablishContext, ListReaders, Cancel, Disconnect, Reconnect, Transmit, GetAttrib
  <1>3. hasTarget' => cachedATR' = AtrFromAts(target'.ats)
    BY DEF AtrInv, EstablishContext, ListReaders, Cancel, Disconnect, Reconnect, Transmit, GetAttrib
  <1> QED BY <1>0, <1>1, <1>2, <1>3, Stays DEF AtrInv

(* The steps of the Android backend. *)
LEMMA AndroidStep ==
    ASSUME AtrInv, Next, backend = "android" PROVE AtrInv'
  <1> USE DEF Android
  <1>0. UNCHANGED <<nl, wait, target, hasTarget, cachedATR>>
    BY DEF Next, Polls, Kernel, linuxVars
  <1>1. CASE (Enter \/ Leave) /\ UNCHANGED androidVars
    <2>1. /\ shown' \in 0..Len(Card) /\ field' \in 0..shown'
          /\ SoundMsgs \subseteq SoundMsgs'
          /\ \A x \in Targets : SoundTarget(x) => SoundTarget(x)'
          /\ g_isoDep' \in 0..shown'
      BY <1>1, FieldMoves DEF AtrInv, androidVars
    <2>2. nl' \in Seq(SoundMsgs')
      BY <1>0, <2>1, SeqMonotonic DEF AtrInv
    <2>3. wait'.found \in Targets /\ SoundTarget(wait.found)' /\ SoundTarget(target)'
      BY <1>0, <2>1 DEF AtrInv, Waits, SoundTarget
    <2> QED BY <1>0, <1>1, <2>1, <2>2, <2>3 DEF AtrInv, androidVars
  <1>2. CASE UNCHANGED <<field, shown>> /\ g_isoDep' \in 0..shown
             /\ (isoDep' # 0 => atr' = AtrFromTag(isoDep'))
    BY <1>0, <1>2, Stays DEF AtrInv
  <1>3. CASE UNCHANGED <<field, shown>> /\ (cie_set_nfc_tag \/ cie_clear_nfc_tag)
    <2>1. g_isoDep' \in 0..shown /\ UNCHANGED <<isoDep, atr>>
      BY <1>3, CardAssumption DEF AtrInv, cie_set_nfc_tag, cie_clear_nfc_tag, IsSequence
    <2> QED BY <1>2, <1>3, <2>1 DEF AtrInv
  <1>4. CASE UNCHANGED <<field, shown>>
             /\ (NewTransport \/ DeleteTransport \/ AConnect \/ ADisconnect \/ ATransmit)
    <2>1. UNCHANGED g_isoDep /\ (isoDep' # 0 => atr' = AtrFromTag(isoDep'))
      BY <1>4 DEF AtrInv, NewTransport, DeleteTransport, AConnect, ADisconnect, ATransmit
    <2> QED BY <1>2, <1>4, <2>1 DEF AtrInv
  <1> QED BY <1>1, <1>3, <1>4 DEF Next, Polls, Kernel, cardVars

(* A stuttering step keeps the invariant. *)
LEMMA AtrStutter == AtrInv /\ UNCHANGED vars => AtrInv'
  <1> SUFFICES ASSUME AtrInv, UNCHANGED vars PROVE AtrInv'
    OBVIOUS
  <1>1. UNCHANGED <<field, shown, nl, wait, target, hasTarget, cachedATR, g_isoDep, isoDep, atr>>
    BY DEF vars, cardVars, linuxVars, androidVars
  <1> QED BY <1>1, Stays DEF AtrInv

(* The steps of the kernel backend. *)
LEMMA KernelStep ==
    ASSUME AtrInv, Next, backend = "kernel" PROVE AtrInv'
  <1>1. CASE Polls
    BY <1>1, SliceStep, EndsStep DEF Polls, Kernel
  <1>2. CASE Kernel((EnterField \/ LeaveField)
                    /\ UNCHANGED <<kernel, netlink, polling, hasTarget, target, cachedATR,
                                   dataFd, cancelled, wait, rv>>)
    BY <1>2, KernelFieldStep DEF Kernel
  <1>3. CASE Kernel((GetStatusChange \/ Connect) /\ UNCHANGED cardVars)
    <2>1. \E op \in {"status", "connect"}, left \in Nat : Begin(op, left)
      BY <1>3, LinuxAssumption DEF Kernel, GetStatusChange, Connect
    <2>2. UNCHANGED <<hasTarget, target, cachedATR, cardVars, androidVars>>
      BY <1>3 DEF Kernel, GetStatusChange, Connect
    <2> QED BY <2>1, <2>2, BeginStep
  <1>4. CASE Kernel((EstablishContext \/ ListReaders \/ Cancel \/ Disconnect \/ Reconnect
                     \/ Transmit \/ GetAttrib) /\ UNCHANGED <<field, shown>>)
    BY <1>4, CallStep DEF Kernel
  <1> QED
    BY <1>1, <1>2, <1>3, <1>4 DEF Next, Kernel, Android, cardVars

(* AtrInv is an invariant. *)
LEMMA AtrInvariance == Spec => [](AtrInv /\ backend \in {"kernel", "android"})
  <1>1. Init => AtrInv /\ backend \in {"kernel", "android"}
    BY AtrInit DEF Init
  <1>2. AtrInv /\ backend \in {"kernel", "android"} /\ [Next]_vars
        => (AtrInv /\ backend \in {"kernel", "android"})'
    <2>1. [Next]_vars => backend' = backend
      BY DEF Next, Polls, Kernel, Android, vars
    <2> QED BY <2>1, KernelStep, AndroidStep, AtrStutter
  <1> QED BY <1>1, <1>2, PTL DEF Spec

(* When Connect or Reconnect succeeds, the ATR that the transport holds is    *)
(* that of the card it is now connected to (ConnectEnds, Reconnect,           *)
(* linuxNfcAtrFromAts, buildATR), for every card and every order of datagrams *)
(* in the queue.                                                              *)
THEOREM ConnectionHasItsATR == Spec => ConnectHasItsATR
  <1> DEFINE P == Connection' \notin {0, Connection} =>
                  (IF backend = "kernel" THEN cachedATR' ELSE atr') = AtrOfCard(Connection')
  <1>1. ASSUME AtrInv, Next, backend = "kernel", Connection' \notin {0, Connection}
        PROVE  cachedATR' = AtrOfCard(Connection')
    <2>0. Connection = dataFd /\ Connection' = dataFd'
      BY <1>1 DEF Connection, Next, Polls, Kernel, Android
    <2>1. dataFd' # dataFd /\ dataFd' # 0
      BY <1>1, <2>0
    <2>2. /\ dataFd' = field /\ target'.t = field
          /\ cachedATR' = AtrFromAts(target'.ats) /\ UNCHANGED <<field, shown>>
      <3>1. CASE Polls
        BY <1>1, <2>1, <3>1
           DEF Polls, Kernel, Slice, GetStatusChangeEnds, ConnectEnds, openDataSocket, cardVars
      <3>2. CASE Kernel(Reconnect /\ UNCHANGED cardVars)
        BY <1>1, <2>1, <3>2 DEF Kernel, Reconnect, openDataSocket, cardVars, AtrInv
      <3> QED BY <1>1, <2>1, <3>1, <3>2
              DEF Next, Kernel, Android, EstablishContext, ListReaders, GetStatusChange, Cancel,
                  Connect, Disconnect, Transmit, GetAttrib
    <2>3. field \in DOMAIN Card
      BY <1>1, <2>1, <2>2, CardAssumption DEF AtrInv, IsSequence
    <2>4. target' \in Targets /\ SoundTarget(target')
      <3>1. AtrInv'
        BY <1>1, KernelStep
      <3> QED BY <2>2, <3>1, Stays DEF AtrInv
    <2>5. target'.ats = Card[field].ats
      BY <2>1, <2>2, <2>4 DEF SoundTarget, NoTarget
    <2> QED BY <1>1, <2>0, <2>2, <2>3, <2>5, AtrOfAts DEF AtrOfCard
  <1>2. ASSUME AtrInv, Next, backend = "android", Connection' \notin {0, Connection}
        PROVE  atr' = AtrOfCard(Connection')
    <2>1. backend' = "android"
      BY <1>2 DEF Next, Polls, Kernel, Android
    <2>2. Connection' = isoDep' /\ isoDep' # 0
      BY <1>2, <2>1 DEF Connection
    <2>3. AtrInv'
      BY <1>2, AndroidStep
    <2> QED BY <1>2, <2>2, <2>3 DEF AtrInv, AtrFromTag, AtrOfCard
  <1>3. ASSUME UNCHANGED vars PROVE Connection' = Connection
    BY <1>3 DEF vars, linuxVars, androidVars, Connection
  <1>4. AtrInv /\ backend \in {"kernel", "android"} /\ [Next]_vars => [P]_vars
    <2> SUFFICES ASSUME AtrInv, backend \in {"kernel", "android"}, Next PROVE P
      OBVIOUS
    <2>1. CASE backend = "kernel"
      BY <1>1, <2>1
    <2>2. CASE backend = "android"
      BY <1>2, <2>2
    <2> QED BY <2>1, <2>2
  <1> QED BY <1>4, AtrInvariance, PTL DEF Spec, ConnectHasItsATR
=============================================================================
