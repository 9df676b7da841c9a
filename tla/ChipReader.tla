------------------------------ MODULE ChipReader ------------------------------
(***************************************************************************)
(* Reading the data groups DG1 and DG2 of an electronic identity card:     *)
(* cie_read_dgs_can (PACE with the number printed on the card) and         *)
(* cie_read_dgs (DH key exchange, device authentication, PIN), with the    *)
(* secure messaging of both, the reading loops, the search over the        *)
(* readers and the retries after a broken link.                            *)
(*                                                                         *)
(* Keys are symbolic: two parties that ran PACE have the same key iff they *)
(* used the same number.  A byte of a file is the chip it is on, the file  *)
(* and its position.  One exchange with a chip is one step, and the faults *)
(* are what can befall an exchange: the link breaks before or after the    *)
(* chip executes the command, the answer arrives damaged, the chip         *)
(* refuses, another program resets the card, the card is lifted.           *)
(***************************************************************************)
EXTENDS Integers, Sequences, FiniteSets

CONSTANTS
    Chip,        \* Chip[r]: the card of reader r, a record of ChipKind
    CANs, PINs,  \* what an application may type
    Size,        \* Size[f]: the number of bytes of file f
    Header,      \* bytes of the first read, which hold the file's length
    Chunk,       \* bytes of every other read
    SfiBit,      \* READ BINARY takes no plain offset from here (0x8000)
    Capacity,    \* bytes that the caller's buffers take
    MaxCalls, MaxFaults, MaxPolls

Malformed == "malformed"
Readers == 1..Len(Chip)
Files == <<"DG1", "DG2">>

(* What tells one card from another.  hides: what it takes to make         *)
(* EF.CardAccess visible again once the CIE application was selected (0:   *)
(* it stays visible, 1: a warm reset, 2: an unpower, 3: a field cycle, 4:  *)
(* lifting the card); missing: the status of a read of a file that is not  *)
(* there; infos: the protocols that EF.CardAccess lists; wantsParam: MSE   *)
(* is refused without the number of the domain parameters.                 *)
ChipKind ==
    [can : CANs, pin : PINs, blocked : BOOLEAN, atr : BOOLEAN, access : BOOLEAN,
     missing : {"6A82", "6985"}, hides : 0..4, sfi : BOOLEAN,
     infos : Seq([pace : BOOLEAN, map : 1..6, cipher : 0..5, param : Nat]),
     wantsParam : BOOLEAN,
     cycles : SUBSET {"Ok", "Unsupported", "CardRemoved", "Failed"},
     extended : BOOLEAN]

ASSUME ChipReaderAssumption ==
    /\ Chip \in Seq(ChipKind)
    /\ Malformed \notin CANs \cup PINs
    /\ Size \in [{"DG1", "DG2"} -> Nat \ {0}]
    /\ {Header, Chunk, SfiBit} \subseteq Nat \ {0}
    /\ {Capacity, MaxCalls, MaxFaults, MaxPolls} \subseteq Nat

VARIABLES
    t,       \* the calling thread: pc, the call and what it has got so far
    chip,    \* the state of every chip
    there,   \* the readers that have their card
    ret,     \* the returned call: code, data
    kind,    \* the thread's g_lastError
    heard,   \* whether the last answer of Authenticate arrived whole or damaged
    calls, faults

vars == <<t, chip, there, ret, kind, heard, calls, faults>>

None == "none"
NoKey == <<>>
Min(a, b) == IF a < b THEN a ELSE b
NoChan == [key |-> NoKey, ssc |-> 0]
NoFiles == [f \in {"DG1", "DG2"} |-> <<>>]

(* A chip: the key and counter of its session, how far PACE has come, the  *)
(* PIN, the wrong secrets it counted in this call, whether a command came  *)
(* under the right key with a wrong counter, and the power that it takes   *)
(* to show EF.CardAccess.  Without power it forgets its session.           *)
Powered(c, power) ==
    [c EXCEPT !.key = NoKey, !.ssc = 0, !.stage = 0, !.verified = FALSE,
              !.hidden = IF @ <= power THEN 0 ELSE @]

-----------------------------------------------------------------------------
(* PACE: the protocol that is used and the key that comes of it.           *)

(* The entries of EF.CardAccess with a PACE identifier.                    *)
isPaceInfoOid(info) == info.pace
parseCardAccess(infos) == {i \in DOMAIN infos : isPaceInfoOid(infos[i])}

cipherFromOid(info) == info.cipher \in 1..4
findCurve(id) == id \in 8..18
findDhGroup(id) == id \in 0..2
ec(info) == info.map \in {2, 6}

Usable(info) ==
    /\ cipherFromOid(info)
    /\ \/ info.map = 1 /\ findDhGroup(info.param)
       \/ ec(info) /\ findCurve(info.param)

(* The first entry with the highest score; 0: none can be used.            *)
score(info) ==
    (IF ec(info) THEN 1000 ELSE 0) + info.cipher * 10 + (IF info.map = 6 THEN 0 ELSE 1)
selectProtocol(infos) ==
    LET usable == {i \in parseCardAccess(infos) : Usable(infos[i])}
    IN  IF usable = {} THEN 0
        ELSE CHOOSE i \in usable :
                \A j \in usable : \/ score(infos[i]) > score(infos[j])
                                  \/ score(infos[i]) = score(infos[j]) /\ i <= j
Selected == [r \in Readers |-> selectProtocol(Chip[r].infos)]
Protocol(r) == Chip[r].infos[Selected[r]]

(* What a party has computed from the number it knows.  Both mappings take *)
(* only a key of the other party that is in the group and is not their own *)
(* one; what they agree on then depends on the nonce alone.                *)
decryptNonce(can) == <<"nonce", can>>
EcMapping(nonce) == <<"ec", nonce>>
DhMapping(nonce) == <<"dh", nonce>>
makeMapping(r, nonce) ==
    IF ec(Protocol(r)) THEN EcMapping(nonce) ELSE DhMapping(nonce)
kdf(shared) == <<"pace", shared>>
PaceKey(r, nonce) == kdf(makeMapping(r, nonce))

(* The chip knows the other party by its token.                            *)
authToken(key) == <<"token", key>>
Damaged == <<"damaged", "nonce">>
-----------------------------------------------------------------------------
(* The chip.                                                               *)

(* A command: its operation, whether it is protected, its argument.        *)
Cmd(op, sm, arg) == [op |-> op, sm |-> sm, arg |-> arg]
Byte(r, f, i) == <<r, f, i>>
Bytes(r, f, from, n) == [i \in 1..n |-> Byte(r, f, from + i)]

PaceStage == [mse |-> 0, ga1 |-> 1, ga2 |-> 2, ga3 |-> 3, ga4 |-> 4]
Out(is, c) == [is |-> is, c |-> c, data |-> <<>>]

(* What the chip of reader r does with an unprotected command.             *)
Plain(r, c, cmd) ==
    CASE cmd.op = "mse" -> IF Chip[r].wantsParam THEN Out("6A80", c)
                           ELSE Out("ok", [c EXCEPT !.stage = 1])
      [] cmd.op = "mse_param" -> Out("ok", [c EXCEPT !.stage = 1])
      [] cmd.op \in {"ga1", "ga2", "ga3"} ->
            IF c.stage = PaceStage[cmd.op]
            THEN Out("ok", [c EXCEPT !.stage = @ + 1])
            ELSE Out("6985", c)
      [] cmd.op = "ga4" ->
            IF c.stage # 4 THEN Out("6985", c)
            ELSE LET key == PaceKey(r, decryptNonce(Chip[r].can))
                 IN  IF cmd.arg = authToken(key)
                     THEN Out("ok", [c EXCEPT !.stage = 0, !.key = key, !.ssc = 0])
                     ELSE Out("wrong", [c EXCEPT !.stage = 0, !.charged = @ + 1])
      [] cmd.op = "select_cie" ->
            Out("ok", [c EXCEPT !.hidden = IF @ < Chip[r].hides THEN Chip[r].hides ELSE @])
      [] cmd.op = "get_dh" -> Out("ok", [c EXCEPT !.key = <<"dh">>, !.ssc = 1])
      [] OTHER -> Out("ok", c)

(* What it does with the content of a protected one.  Without the PIN it   *)
(* gives no file; a READ BINARY whose offset has the high bit set          *)
(* addresses the current file from the low byte of the offset.             *)
Inner(r, c, cmd) ==
    CASE cmd.op = "verify" ->
            IF Chip[r].blocked THEN Out("6983", c)
            ELSE IF cmd.arg = Chip[r].pin
            THEN Out("ok", [c EXCEPT !.verified = TRUE])
            ELSE Out("wrong", [c EXCEPT !.charged = @ + 1])
      [] cmd.op = "random" -> Out("ok", [c EXCEPT !.ssc = 50])
      [] cmd.op = "read" ->
            LET off == IF cmd.arg.off >= SfiBit /\ ~cmd.arg.odd
                       THEN cmd.arg.off - SfiBit ELSE cmd.arg.off
                n == Min(cmd.arg.n, Size[cmd.arg.f] - off)
            IN  IF c.key = <<"dh">> /\ ~c.verified THEN Out("6982", c)
                ELSE IF cmd.arg.sfi /\ ~Chip[r].sfi THEN Out("6981", c)
                ELSE IF n <= 0 THEN Out("6B00", c)
                ELSE [is |-> "ok", c |-> c, data |-> Bytes(r, cmd.arg.f, off, n)]
      [] OTHER -> Out("ok", c)

(* The answer to a protected command is protected when the chip could      *)
(* check it; otherwise the chip refuses it and drops the session.          *)
Protected(r, c, cmd, ch) ==
    IF c.key = ch.key /\ c.ssc + 1 = ch.ssc
    THEN LET o == Inner(r, c, cmd)
         IN  [o EXCEPT !.c = IF cmd.op = "random" THEN @ ELSE [@ EXCEPT !.ssc = c.ssc + 2]]
    ELSE Out("6988", [c EXCEPT !.key = NoKey,
                              !.dropped = @ \/ c.key = ch.key])

Execute(r, c, cmd, ch) == IF cmd.sm THEN Protected(r, c, cmd, ch) ELSE Plain(r, c, cmd)

(* A refusal for a reason of the chip's own: the instruction is not there, *)
(* or any status that the callers have no case for.                        *)
OwnReason == {"6D00", "6F00"}

(* What can come of sending a command, and what the faults add: cost is 1  *)
(* for those.                                                              *)
Exchange(r, cmd, ch) ==
    LET done == Execute(r, chip[r], cmd, ch)
        of(is, c) == [is |-> is, c |-> c, data |-> <<>>, cost |-> 1]
        reset == Execute(r, Powered(chip[r], 1), cmd, ch)
    IN  IF r \notin there THEN {[of("lost", chip[r]) EXCEPT !.cost = 0]}
        ELSE {[is |-> done.is, c |-> done.c, data |-> done.data, cost |-> 0]}
             \cup IF faults = MaxFaults THEN {}
                  ELSE {of(sw, IF cmd.sm THEN [chip[r] EXCEPT !.key = NoKey] ELSE chip[r]) :
                           sw \in OwnReason}
                       \cup
                       {of("lost", chip[r]), of("lost", done.c), of("bad", done.c),
                        [is |-> reset.is, c |-> reset.c, data |-> reset.data, cost |-> 1]}
                       \cup (IF cmd.op = "ga1" THEN {of("6300", chip[r])} ELSE {})
-----------------------------------------------------------------------------
(* The commands of the library, one sequence per function that sends them. *)

SendAPDU(op) == <<Cmd(op, FALSE, None)>>
SendAPDU_SM(op) == <<Cmd(op, TRUE, None)>>
Chained(op) == <<Cmd(op, TRUE, None), Cmd(op, TRUE, None)>>

SelectAID_IAS == SendAPDU("select_ias")
SelectAID_CIE == SendAPDU("select_cie")
readfile == SendAPDU("select_file") \o SendAPDU("read_file")
ReadPAN == readfile
ReadDappPubKey == readfile
InitEncKey == SendAPDU("set_enc") \o SendAPDU("int_auth_plain")
InitDHParam == SendAPDU("get_data") \o SendAPDU("get_data") \o SendAPDU("get_data")
InitExtAuthKeyParam == SendAPDU("get_data")
DHKeyExchange == SendAPDU("set_dh") \o SendAPDU("get_dh")

(* The device proves itself, the chip proves itself, and both start a new  *)
(* send sequence counter.                                                  *)
DAPP ==
    SendAPDU_SM("set_key") \o Chained("verify_cert") \o SendAPDU_SM("set_chr")
    \o SendAPDU_SM("challenge") \o Chained("ext_auth") \o SendAPDU_SM("int_auth")
    \o SendAPDU_SM("random")

CardAuthenticateEx(pin) ==
    SelectAID_IAS \o SelectAID_CIE \o InitDHParam \o InitExtAuthKeyParam
    \o DHKeyExchange \o DAPP \o <<Cmd("verify", TRUE, pin)>>

(* The nonce as the library got it, and the key it derives.                *)
Nonce(can) == IF t.damaged THEN Damaged ELSE decryptNonce(can)
LibraryKey(can) == PaceKey(t.reader, Nonce(can))

performPace(can) ==
    SendAPDU("mse")
    \o (IF Chip[t.reader].wantsParam THEN SendAPDU("mse_param") ELSE <<>>)
    \o SendAPDU("ga1") \o SendAPDU("ga2") \o SendAPDU("ga3")
    \o <<Cmd("ga4", FALSE, authToken(LibraryKey(can)))>>
selectEmrtdApplication == SendAPDU_SM("select_emrtd")

Script ==
    IF t.mode = "can" THEN performPace(t.secret) \o selectEmrtdApplication
    ELSE SelectAID_IAS \o ReadPAN \o SelectAID_CIE \o ReadDappPubKey
         \o InitEncKey \o CardAuthenticateEx(t.secret)
Now == Script[t.i]

(* The keys of the larger DH groups do not fit a short command.            *)
Extended(op) ==
    /\ t.mode = "can" /\ op \in {"ga2", "ga3"}
    /\ ~ec(Protocol(t.reader)) /\ Protocol(t.reader).param # 0

-----------------------------------------------------------------------------
(* Secure messaging: a command takes the next value of the counter, its    *)
(* protected answer the one after.  wrap and unwrap are those of the PACE  *)
(* channel, SM and respSM of the IAS object.                               *)

incrementSsc(ch) == [ch EXCEPT !.ssc = @ + 1]
rollbackSsc(ch) == [ch EXCEPT !.ssc = @ - 1]
wrap(ch) == incrementSsc(ch)
unwrap(ch) == incrementSsc(ch)

increment(ch) == [ch EXCEPT !.ssc = @ + 1]
SM(ch) == increment(ch)
respSM(ch) == increment(ch)
Unprotected == OwnReason \cup {"6988"}
getResp_SM(ch, sw) == IF sw \in Unprotected THEN ch ELSE respSM(ch)

Sent(ch) == IF t.mode = "can" THEN wrap(ch) ELSE SM(ch)
Received(ch, sw) == IF t.mode = "can" THEN unwrap(ch) ELSE getResp_SM(ch, sw)

(* smSend after k refusals of the Le: the first is repeated as it is by    *)
(* sendPlain, the second makes smSend protect the command again.           *)
sendPlain(ch) == ch
smSend_NoRollback(ch, k) ==
    IF k < 2 THEN sendPlain(wrap(ch)) ELSE sendPlain(wrap(sendPlain(wrap(ch))))
smSend(ch, k) ==
    IF k < 2 THEN sendPlain(wrap(ch))
    ELSE sendPlain(wrap(rollbackSsc(sendPlain(wrap(ch)))))

(* The IAS object protects the command again at once; the chip counted the *)
(* first one only if its refusal was protected.                            *)
resendSM(ch) == SM(SM(ch))
-----------------------------------------------------------------------------
(* How an attempt and a call end.  The connection of an attempt resets the *)
(* card when it is closed.                                                 *)

Closed(c) == IF t.reader \in there THEN Powered(c, 1) ELSE c
Left(c) == chip' = [chip EXCEPT ![t.reader] = Closed(c)]
Here == chip[t.reader]

Attempt(n, polls) ==
    [t EXCEPT !.pc = "context", !.attempt = n, !.polls = polls, !.reader = 1,
              !.i = 1, !.level = 1, !.f = 1, !.chan = NoChan, !.out = <<>>,
              !.got = NoFiles, !.damaged = FALSE,
              !.unsupported = FALSE, !.resetRequired = FALSE]

Return(rc, data) ==
    /\ t' = [Attempt(1, 0) EXCEPT !.pc = "idle"]
    /\ ret' = [rc |-> rc, data |-> data]

(* The value of one readBothDGs...Once.  A repeated attempt waits for the  *)
(* card to come back: MaxPolls rounds stand for its ten seconds.           *)
OnceReturns_NoDeadline(rc, k) ==
    /\ kind' = k
    /\ IF t.attempt > 1 /\ rc \in {"TOKEN_NOT_RECOGNIZED", "TOKEN_NOT_PRESENT"}
       THEN t' = Attempt(t.attempt, t.polls) /\ UNCHANGED ret
       ELSE Return(rc, NoFiles)
OnceReturns(rc, k) ==
    /\ kind' = k
    /\ IF /\ t.attempt > 1 /\ t.polls < MaxPolls
          /\ rc \in {"TOKEN_NOT_RECOGNIZED", "TOKEN_NOT_PRESENT"}
       THEN t' = Attempt(t.attempt, t.polls + 1) /\ UNCHANGED ret
       ELSE Return(rc, NoFiles)

(* A card_link_error reaches RetryOnCardLinkError.                         *)
RetryOnCardLinkError(retryable) ==
    IF retryable /\ t.attempt < 3
    THEN t' = Attempt(t.attempt + 1, 0) /\ UNCHANGED <<ret, kind>>
    ELSE Return("DEVICE_ERROR", NoFiles) /\ kind' = "CARD_COMMUNICATION"

(* The kind of error that a status is.                                     *)
cie_classify_sw(sw) ==
    CASE sw \in {"wrong", "6300"} -> "WRONG_PIN"
      [] sw = "6983" -> "PIN_BLOCKED"
      [] sw = "6982" -> "SECURITY_NOT_SATISFIED"
      [] sw = "6A82" -> "FILE_NOT_FOUND"
      [] sw \in {"6A80", "6B00"} -> "WRONG_PARAMS"
      [] sw = "6D00" -> "INS_NOT_SUPPORTED"
      [] OTHER -> "UNKNOWN"

(* failFromResult: a definite status is recorded ("0": there is none), and *)
(* the code is the same for all.  A failed verification of a protected     *)
(* answer throws after the list of readers was freed, and the handler      *)
(* frees it again: the allocator stops the process, or the retry goes on.  *)
failFromResult(sw) ==
    OnceReturns("GENERAL_ERROR", IF sw = "0" THEN kind ELSE cie_classify_sw(sw))
failFromLinkError ==
    \/ t' = [Attempt(1, 0) EXCEPT !.pc = "dead"] /\ UNCHANGED <<ret, kind>>
    \/ RetryOnCardLinkError(TRUE)

(* A step of the thread that ends with answer x.                           *)
Cost(x) == faults' = faults + x.cost
World == UNCHANGED <<there, calls, heard>>
Goes(step) == t' = step /\ UNCHANGED <<ret, kind>>
Stay(x) == chip' = [chip EXCEPT ![t.reader] = x.c]

-----------------------------------------------------------------------------
(* The calls and the readers.                                              *)

(* cie_read_dgs_can clears the last error first, cie_read_dgs does not.    *)
Call(mode, secret) ==
    /\ t.pc = "idle" /\ calls < MaxCalls
    /\ calls' = calls + 1
    /\ kind' = IF mode = "can" THEN None ELSE kind
    /\ chip' = [r \in Readers |-> [chip[r] EXCEPT !.charged = 0, !.dropped = FALSE]]
    /\ heard' = "whole"
    /\ IF secret = Malformed
       THEN /\ ret' = [rc |-> IF mode = "can" THEN "ARGUMENTS_BAD" ELSE "PIN_LEN_RANGE",
                       data |-> NoFiles]
            /\ t' = [t EXCEPT !.mode = mode, !.secret = secret]
       ELSE /\ t' = [Attempt(1, 0) EXCEPT !.mode = mode, !.secret = secret]
            /\ ret' = [rc |-> None, data |-> NoFiles]
    /\ UNCHANGED <<there, faults>>

cie_read_dgs_can(can) == Call("can", can)
cie_read_dgs(pin) == Call("pin", pin)

EstablishContext ==
    /\ t.pc = "context"
    /\ \/ Goes([t EXCEPT !.pc = "reader"]) /\ UNCHANGED faults
       \/ /\ faults < MaxFaults /\ faults' = faults + 1
          /\ OnceReturns("DEVICE_ERROR", kind) \/ OnceReturns("TOKEN_NOT_PRESENT", kind)
    /\ World /\ UNCHANGED chip

NextReader(step) ==
    Goes([step EXCEPT !.pc = "reader", !.reader = @ + 1, !.i = 1, !.level = 1])

(* Connecting to the next reader and resetting its card.  An IAS object    *)
(* knows the families of chips by their ATR.                               *)
ConnectReader ==
    /\ t.pc = "reader" /\ t.reader \in Readers
    /\ IF t.reader \notin there
       THEN NextReader(t) /\ UNCHANGED <<chip, faults>>
       ELSE \/ /\ faults < MaxFaults /\ faults' = faults + 1
               /\ RetryOnCardLinkError(TRUE) /\ Left(Here)
            \/ /\ t.mode = "pin" /\ ~Chip[t.reader].atr
               /\ NextReader([t EXCEPT !.unsupported = TRUE])
               /\ Left(Here) /\ UNCHANGED faults
            \/ /\ t.mode = "pin" => Chip[t.reader].atr
               /\ Goes([t EXCEPT !.pc = IF t.mode = "can" THEN "access" ELSE "script"])
               /\ chip' = [chip EXCEPT ![t.reader] = Powered(@, 1)]
               /\ UNCHANGED faults
    /\ World

EndOfReaders ==
    /\ t.pc = "reader" /\ t.reader \notin Readers
    /\ CASE t.mode = "can" /\ t.resetRequired ->
              OnceReturns("FUNCTION_NOT_SUPPORTED", "CARD_RESET_REQUIRED")
         [] t.mode = "can" /\ ~t.resetRequired /\ t.unsupported ->
              OnceReturns("FUNCTION_NOT_SUPPORTED", "UNSUPPORTED_CARD")
         [] t.mode = "pin" /\ t.unsupported ->
              OnceReturns("TOKEN_NOT_RECOGNIZED", "UNSUPPORTED_CARD")
         [] OTHER -> OnceReturns("TOKEN_NOT_RECOGNIZED", kind)
    /\ World /\ UNCHANGED <<chip, faults>>
-----------------------------------------------------------------------------
(* EF.CardAccess, which a chip may hide until its power is cut: read after *)
(* the warm reset (level 1), an unpower (2) and a cycle of the field (3).  *)

AccessStatus(c) ==
    IF c.hidden > 0 THEN "6A82"
    ELSE IF ~Chip[t.reader].access THEN Chip[t.reader].missing ELSE "ok"
cardAccessMissing(sw) == sw \in {"6A82", "6985"}

readCardAccess ==
    LET of(is, cost) == [is |-> is, cost |-> cost]
    IN  IF t.reader \notin there THEN {of("lost", 0)}
        ELSE {of(AccessStatus(Here), 0)}
             \cup IF faults = MaxFaults THEN {}
                  ELSE {of("lost", 1), of("6F00", 1), of("bad", 1)}

powerCycleField ==
    \/ /\ "Ok" \in Chip[t.reader].cycles
       /\ Goes([t EXCEPT !.level = 3])
       /\ chip' = [chip EXCEPT ![t.reader] = Powered(@, 3)]
    \/ /\ "Unsupported" \in Chip[t.reader].cycles
       /\ NextReader([t EXCEPT !.resetRequired = TRUE]) /\ Left(Here)
    \/ /\ Chip[t.reader].cycles \cap {"CardRemoved", "Failed"} # {}
       /\ RetryOnCardLinkError(TRUE) /\ Left(Here)

CardAccess ==
    /\ t.pc = "access"
    /\ \E x \in readCardAccess :
        /\ Cost(x)
        /\ CASE x.is = "lost" -> RetryOnCardLinkError(TRUE) /\ Left(Here)
             [] x.is = "6F00" -> failFromResult("6F00") /\ Left(Here)
             [] x.is = "bad" ->
                  /\ \/ NextReader([t EXCEPT !.unsupported = TRUE])
                     \/ failFromResult("0")
                  /\ Left(Here)
             [] x.is = "ok" /\ Selected[t.reader] = 0 ->
                  NextReader([t EXCEPT !.unsupported = TRUE]) /\ Left(Here)
             [] x.is = "ok" /\ Selected[t.reader] > 0 ->
                  Goes([t EXCEPT !.pc = "script"]) /\ UNCHANGED chip
             [] cardAccessMissing(x.is) /\ t.level = 1 ->
                  /\ Goes([t EXCEPT !.level = 2])
                  /\ chip' = [chip EXCEPT ![t.reader] = Powered(@, 2)]
             [] x.is = "6A82" /\ t.level = 2 -> powerCycleField
             [] x.is = "6A82" /\ t.level = 3 ->
                  NextReader([t EXCEPT !.resetRequired = TRUE]) /\ Left(Here)
             [] OTHER -> NextReader([t EXCEPT !.unsupported = TRUE]) /\ Left(Here)
    /\ World

-----------------------------------------------------------------------------
(* PACE, or the key exchange and the two authentications with the PIN.     *)

(* The final GENERAL AUTHENTICATE and VERIFY are never sent twice.         *)
Retryable_All(op) == TRUE
Retryable(op) == op \notin {"ga4", "verify"}

(* The channel after a command was answered.                               *)
ChannelAfter(cmd) ==
    CASE cmd.op = "ga4" -> [key |-> LibraryKey(t.secret), ssc |-> 0]
      [] cmd.op = "get_dh" -> [key |-> <<"dh">>, ssc |-> 1]
      [] cmd.op = "random" -> [t.chan EXCEPT !.ssc = 50]
      [] cmd.sm /\ cmd.op # "random" -> Received(Sent(t.chan), "ok")
      [] OTHER -> t.chan

Advance(ch) ==
    Goes(IF t.i = Len(Script) THEN [t EXCEPT !.pc = "select", !.chan = ch]
         ELSE [t EXCEPT !.i = @ + 1, !.chan = ch])

WrongSecret_Unrecorded == OnceReturns("PIN_INCORRECT", kind)
WrongSecret == OnceReturns("PIN_INCORRECT", IF t.mode = "can" THEN "WRONG_CAN" ELSE kind)

(* The statuses that a final GENERAL AUTHENTICATE, and at the first one    *)
(* 63xx only, take for a wrong number; MSE repeated with the parameters.   *)
isAuthRejected(op, is) == is = "wrong" \/ (op = "ga1" /\ is = "6300")
WantsParameter(op, is) == op = "mse" /\ is = "6A80"

(* How the caller may read an answer in the clear that was damaged: as     *)
(* malformed (no status is recorded), or by the status that it now has.    *)
Misread == {"0"} \cup OwnReason

(* A protected answer that does not verify.                                *)
BadAnswer(op) ==
    IF t.mode = "can" THEN failFromLinkError ELSE RetryOnCardLinkError(Retryable(op))

Authenticate ==
    /\ t.pc = "script"
    /\ IF Extended(Now.op) /\ ~Chip[t.reader].extended
       THEN /\ OnceReturns("DEVICE_ERROR", "INS_NOT_SUPPORTED") /\ Left(Here)
            /\ UNCHANGED <<faults, heard>>
       ELSE \E x \in Exchange(t.reader, Now, IF Now.sm THEN Sent(t.chan) ELSE t.chan) :
            /\ Cost(x)
            /\ heard' = IF x.is = "bad" THEN "damaged" ELSE "whole"
            /\ CASE x.is = "ok" -> Advance(ChannelAfter(Now)) /\ Stay(x)
                 [] WantsParameter(Now.op, x.is) -> Advance(t.chan) /\ Stay(x)
                 [] isAuthRejected(Now.op, x.is) -> WrongSecret /\ Left(x.c)
                 [] x.is = "lost" -> RetryOnCardLinkError(Retryable(Now.op)) /\ Left(x.c)
                 [] x.is = "bad" /\ Now.sm -> BadAnswer(Now.op) /\ Left(x.c)
                 [] x.is = "bad" /\ Now.op = "ga4" ->
                      /\ WrongSecret \/ \E sw \in Misread : failFromResult(sw)
                      /\ Left(x.c)
                 [] x.is = "bad" /\ ~Now.sm /\ Now.op # "ga4" ->
                      \/ /\ IF t.mode = "can" THEN \E sw \in Misread : failFromResult(sw)
                            ELSE OnceReturns("GENERAL_ERROR", kind)
                         /\ Left(x.c)
                      \/ /\ t.mode = "pin" /\ Stay(x)
                         /\ Advance(IF Now.op = "get_dh" THEN [key |-> <<"bad">>, ssc |-> 1]
                                    ELSE ChannelAfter(Now))
                      \/ /\ Now.op = "ga1" /\ Stay(x)
                         /\ Goes([t EXCEPT !.i = @ + 1, !.damaged = TRUE])
                 [] x.is = "6983" -> OnceReturns("PIN_LOCKED", kind) /\ Left(x.c)
                 [] Now.op = "verify" /\ x.is \in Unprotected ->
                      Advance(getResp_SM(SM(t.chan), x.is)) /\ Stay(x)
                 [] OTHER -> /\ IF t.mode = "can" THEN failFromResult(x.is)
                                ELSE OnceReturns("GENERAL_ERROR", kind)
                             /\ Left(x.c)
    /\ UNCHANGED <<there, calls>>
-----------------------------------------------------------------------------
(* Reading the files.                                                      *)

File == Files[t.f]
ReadCmd(off, n, sfi, odd) ==
    Cmd("read", TRUE, [f |-> File, off |-> off, n |-> n, sfi |-> sfi, odd |-> odd])

(* dg2ToPhoto gives the decoded photo, or the file as it is when it cannot *)
(* be decoded, or needs more room for the photo than there is: by then the *)
(* caller has DG1.                                                         *)
findDG2ImagePayload == {TRUE, FALSE}
jp2ToPng == {"decoded", "decoded, too long", "not decoded"}
dg2ToPhoto(got) ==
    \E found \in findDG2ImagePayload :
    \E photo \in IF found THEN jp2ToPng ELSE {"not decoded"} :
        IF photo = "decoded, too long" THEN Return("BUFFER_TOO_SMALL", [NoFiles EXCEPT !["DG1"] = got["DG1"]])
        ELSE Return("OK", got)

(* The end of a file that is complete, and of the call when both are.      *)
FileRead(ch, bytes) ==
    LET got == [t.got EXCEPT ![File] = bytes]
    IN  IF t.f = 1
        THEN Goes([t EXCEPT !.pc = "select", !.f = 2, !.chan = ch, !.got = got, !.out = <<>>])
        ELSE IF \E f \in {"DG1", "DG2"} : Len(got[f]) > Capacity
        THEN OnceReturns("BUFFER_TOO_SMALL", kind)
        ELSE /\ kind' = None
             /\ dg2ToPhoto(got)

(* A failed exchange of the reading phase.                                 *)
ReadFails(x) ==
    /\ Left(x.c)
    /\ CASE x.is = "lost" -> RetryOnCardLinkError(TRUE)
         [] x.is = "bad" -> BadAnswer("read")
         [] OTHER -> failFromResult(x.is)

(* SELECT of the file in the PACE channel, of the eMRTD application, in    *)
(* the clear, for the PIN; and of the file by its identifier (fid_select), *)
(* protected, when readfile_SM reads it again.                             *)
SelectFile ==
    /\ t.pc \in {"select", "fid_select"}
    /\ LET cmd == Cmd("select_ef", t.mode = "can" \/ t.pc = "fid_select", None)
       IN  \E x \in Exchange(t.reader, cmd, Sent(t.chan)) :
            /\ Cost(x)
            /\ IF x.is = "ok" \/ (x.is = "bad" /\ ~cmd.sm)
               THEN /\ Stay(x)
                    /\ Goes([t EXCEPT !.pc = IF t.pc = "select" THEN "head" ELSE "fid",
                             !.chan = IF cmd.sm THEN Received(Sent(@), x.is) ELSE @])
               ELSE ReadFails(x)
    /\ World

Unread == Size[File] - Len(t.out)
Total(bytes) == SubSeq(bytes, 1, Min(Len(bytes), Size[File]))

(* The first bytes, which tell the length.  A chip without short file      *)
(* identifiers is asked again by readfile_SM.                              *)
ReadHead ==
    /\ t.pc = "head"
    /\ \E x \in Exchange(t.reader, ReadCmd(0, Header, t.mode = "pin", FALSE), Sent(t.chan)) :
        /\ Cost(x)
        /\ LET ch == Received(Sent(t.chan), x.is)
           IN  CASE x.is = "ok" /\ Size[File] <= Header -> FileRead(ch, Total(x.data)) /\ Stay(x)
                 [] x.is = "ok" /\ Size[File] > Header ->
                      Goes([t EXCEPT !.pc = "body", !.chan = ch, !.out = x.data]) /\ Stay(x)
                 [] x.is = "6981" /\ t.mode = "pin" ->
                      Goes([t EXCEPT !.pc = "fid_select", !.chan = ch, !.out = <<>>]) /\ Stay(x)
                 [] OTHER -> ReadFails(x)
    /\ World

(* The counters when the chip has refused the length k times.  For the     *)
(* IAS object, the first refusal may be unprotected or protected (k = 2),  *)
(* and only the protected one moves the chip's counter.                    *)
Refusals == IF faults < MaxFaults THEN 0..2 ELSE {0}
CommandChannel(k) ==
    CASE t.mode = "can" -> smSend(t.chan, k)
      [] t.mode = "pin" /\ k = 0 -> SM(t.chan)
      [] t.mode = "pin" /\ k = 1 -> resendSM(t.chan)
      [] t.mode = "pin" /\ k = 2 -> SM(respSM(SM(t.chan)))
Refused(k) ==
    IF t.mode = "pin" /\ k = 2 /\ Here.key = t.chan.key
    THEN [Here EXCEPT !.ssc = @ + 2] ELSE Here

More_Early(ch, bytes) ==
    IF Len(bytes) + 1 >= Size[File] THEN FileRead(ch, bytes)
    ELSE Goes([t EXCEPT !.chan = ch, !.out = bytes])
More(ch, bytes) ==
    IF Len(bytes) >= Size[File] THEN FileRead(ch, bytes)
    ELSE Goes([t EXCEPT !.chan = ch, !.out = bytes])

(* By the length in the header: readTransparent and readDGbySFI; or to the *)
(* end of the file: readfile_SM.                                           *)
Collect(ch, bytes) ==
    IF t.pc = "fid" THEN Goes([t EXCEPT !.chan = ch, !.out = bytes]) ELSE More(ch, bytes)

(* For the IAS object a file that ends early is complete.                  *)
Ended(sw) == t.mode = "pin" /\ sw = "6B00"

(* One more chunk.  A chip may give fewer bytes than it was asked for.     *)
ReadChunk(n) ==
    \E k \in Refusals :
    LET cmd == ReadCmd(Len(t.out), n, FALSE, t.mode = "can" /\ Len(t.out) >= SfiBit)
        ch == CommandChannel(k)
        x == Execute(t.reader, Refused(k), cmd, ch)
    IN  IF k > 0
        THEN /\ t.reader \in there /\ faults' = faults + 1
             /\ IF x.is = "ok"
                THEN Collect(Received(ch, x.is), t.out \o x.data) /\ Stay(x)
                ELSE IF Ended(x.is) THEN FileRead(Received(ch, x.is), t.out) /\ Stay(x)
                ELSE ReadFails(x)
        ELSE \E y \in Exchange(t.reader, cmd, ch) :
             /\ Cost(y)
             /\ IF y.is = "ok"
                THEN \E m \in 1..Len(y.data) :
                        Collect(Received(ch, y.is), t.out \o SubSeq(y.data, 1, m)) /\ Stay(y)
                ELSE IF Ended(y.is) THEN FileRead(Received(ch, y.is), t.out) /\ Stay(y)
                ELSE ReadFails(y)

ReadBody == t.pc = "body" /\ ReadChunk(Min(Chunk, Unread)) /\ World
ReadByFid == t.pc = "fid" /\ ReadChunk(Chunk) /\ World

-----------------------------------------------------------------------------
(* A card is lifted while it is used, or put on a reader before the thread *)
(* connects to it: at any other moment nobody would see the difference.    *)
Lift ==
    /\ t.pc \notin {"idle", "context", "dead"} /\ t.reader \in there
    /\ faults < MaxFaults /\ faults' = faults + 1
    /\ there' = there \ {t.reader}
    /\ chip' = [chip EXCEPT ![t.reader] = Powered(@, 4)]
    /\ UNCHANGED <<t, ret, kind, heard, calls>>

Place ==
    /\ t.pc = "reader" /\ t.reader \in Readers \ there
    /\ there' = there \cup {t.reader}
    /\ UNCHANGED <<t, chip, ret, kind, heard, calls, faults>>

Init ==
    /\ t = [pc |-> "idle", mode |-> "can", secret |-> Malformed, attempt |-> 1,
            polls |-> 0, reader |-> 1, i |-> 1, level |-> 1, f |-> 1,
            chan |-> NoChan, out |-> <<>>, got |-> NoFiles, damaged |-> FALSE,
            unsupported |-> FALSE, resetRequired |-> FALSE]
    /\ chip = [r \in Readers |-> [key |-> NoKey, ssc |-> 0, stage |-> 0,
                    verified |-> FALSE, charged |-> 0, dropped |-> FALSE, hidden |-> 0]]
    /\ there = {}
    /\ ret = [rc |-> None, data |-> NoFiles]
    /\ kind = None /\ heard = "whole"
    /\ calls = 0 /\ faults = 0

Thread ==
    \/ EstablishContext \/ ConnectReader \/ EndOfReaders \/ CardAccess
    \/ Authenticate \/ SelectFile \/ ReadHead \/ ReadBody \/ ReadByFid

Next ==
    \/ \E can \in CANs \cup {Malformed} : cie_read_dgs_can(can)
    \/ \E pin \in PINs \cup {Malformed} : cie_read_dgs(pin)
    \/ Thread
    \/ Lift \/ Place

(* A thread in a call keeps running: every exchange ends, with an answer   *)
(* or with the error of the transport.                                     *)
Spec == Init /\ [][Next]_vars /\ WF_vars(Thread)
-----------------------------------------------------------------------------
(* Properties.                                                             *)


(* Wherever the thread is between two exchanges, a chip that still has the *)
(* session of the channel expects exactly the counter that the channel     *)
(* will use next, whatever was lost, refused or sent again before, and in  *)
(* a PACE channel no command ever reaches the chip under another counter:  *)
(* SM/respSM, wrap/unwrap/rollbackSsc, DAPP's restart of the counter.      *)
ChannelInStep ==
    /\ t.mode = "can" => \A r \in Readers : ~chip[r].dropped
    /\ (/\ t.pc \in {"script", "select", "head", "body", "fid_select", "fid"}
        /\ t.chan.key # NoKey /\ chip[t.reader].key = t.chan.key)
       => chip[t.reader].ssc = t.chan.ssc

(* A call never costs a card more than one try of its CAN or PIN, however  *)
(* often RetryOnCardLinkError repeats it and however the answers get lost. *)
OneTryPerCall == \A r \in Readers : chip[r].charged <= 1

(* A call that cost a try says so, with the kind that cie_ext.h documents, *)
(* or reports the broken link that swallowed the card's answer.  Only an   *)
(* answer to the token of PACE that was damaged on its way, which nothing  *)
(* protects, may turn the charge into CKR_GENERAL_ERROR (performPace,      *)
(* failFromResult); no call that cost a try succeeds.                      *)
ChargedIsTold ==
    (t.pc = "idle" /\ \E r \in Readers : chip[r].charged > 0)
    => \/ ret.rc = "PIN_INCORRECT" /\ (t.mode = "can" => kind = "WRONG_CAN")
       \/ ret.rc = "DEVICE_ERROR" /\ kind = "CARD_COMMUNICATION"
       \/ ret.rc = "GENERAL_ERROR" /\ t.mode = "can" /\ heard = "damaged"

(* The failures of cie_read_dgs_can can be told apart the way cie_ext.h    *)
(* describes: the code and the kind belong together, and "lift the card"   *)
(* is asked only of a card whose EF.CardAccess was not found.  The kind    *)
(* INS_NOT_SUPPORTED alone does not tell the reader's refusal of a long    *)
(* command from a chip's 6D00, which comes with CKR_GENERAL_ERROR; with    *)
(* CKR_DEVICE_ERROR it is the reader's, which carries only short commands. *)
FailureModesTold ==
    (t.pc = "idle" /\ t.mode = "can" /\ ret.rc # None)
    => /\ ret.rc = "PIN_INCORRECT" <=> kind = "WRONG_CAN"
       /\ ret.rc = "FUNCTION_NOT_SUPPORTED"
          <=> kind \in {"UNSUPPORTED_CARD", "CARD_RESET_REQUIRED"}
       /\ kind = "CARD_COMMUNICATION" => ret.rc = "DEVICE_ERROR"
       /\ kind = "INS_NOT_SUPPORTED" => ret.rc \in {"DEVICE_ERROR", "GENERAL_ERROR"}
       /\ ret.rc = "DEVICE_ERROR" /\ kind = "INS_NOT_SUPPORTED"
          => \E r \in Readers : ~Chip[r].extended
       /\ ret.rc = "OK" => kind = None
       /\ kind = "CARD_RESET_REQUIRED"
          => \E r \in Readers : ~Chip[r].access \/ Chip[r].hides > 2

(* What the caller is told fits what happened to the card. *)
OutcomeTold == ChargedIsTold /\ FailureModesTold

(* The detailed calls implement what DocumentRead promises.                *)
Doc == INSTANCE DocumentRead WITH
    asked <- IF t.pc \in {"idle", "dead"} THEN [mode |-> "none", secret |-> "none"]
             ELSE [mode |-> t.mode, secret |-> t.secret],
    answer <- ret.data,
    charged <- [r \in Readers |-> chip[r].charged]
Promise == Doc!DocSpec

(* Every call returns (or ends with the process): the retries, the wait    *)
(* for the card, the reading loops and the list of readers all end.        *)
CallReturns == t.pc # "idle" ~> t.pc \in {"idle", "dead"}
=============================================================================
