-------------------------- MODULE ChipReaderProofs --------------------------
(* Proofs about reading the chip of a card, for any cards, files, chunk sizes *)
(* and numbers of faults, calls and retries: no call costs a card two tries,  *)
(* the secure channel stays in step, the outcome is told, and the reading     *)
(* implements DocumentRead.                                                   *)
EXTENDS ChipReader, TLAPS, SequenceTheorems

----------------------------------------------------------------------------
(* The scripts. *)

(* A sequence of one or two members of a set. *)
LEMMA ShortSeq ==
    ASSUME NEW S, NEW a \in S PROVE <<a>> \in Seq(S) /\ <<a, a>> \in Seq(S)
  OBVIOUS

(* A command appended to a script. *)
LEMMA Snoc ==
    ASSUME NEW S, NEW s \in Seq(S), NEW x
    PROVE  /\ Len(s \o <<x>>) = Len(s) + 1 /\ (s \o <<x>>)[Len(s) + 1] = x
           /\ \A i \in 1..Len(s) : (s \o <<x>>)[i] = s[i]
  <1> DEFINE T == S \cup {x}
  <1>1. s \in Seq(T) /\ <<x>> \in Seq(T)
    <2>1. S \subseteq T
      OBVIOUS
    <2> QED BY <2>1, SeqMonotonic, ShortSeq
  <1> HIDE DEF T
  <1> QED BY <1>1, ConcatProperties

PaceCmds == [op : {"mse", "mse_param", "ga1", "ga2", "ga3"}, sm : {FALSE}, arg : {None}]

PaceScript(r, k) ==
    SendAPDU("mse")
    \o (IF Chip[r].wantsParam THEN SendAPDU("mse_param") ELSE <<>>)
    \o SendAPDU("ga1") \o SendAPDU("ga2") \o SendAPDU("ga3")
    \o <<Cmd("ga4", FALSE, authToken(k))>> \o selectEmrtdApplication

(* The number of repetitions of MSE with the parameters. *)
Parameters(r) == Len(IF Chip[r].wantsParam THEN SendAPDU("mse_param") ELSE <<>>)

(* PACE ends with the token of the library, and only the command after it is *)
(* protected (performPace, selectEmrtdApplication).                          *)
LEMMA PaceScriptFacts ==
    ASSUME NEW r, NEW k
    PROVE  /\ Parameters(r) \in Nat /\ Len(PaceScript(r, k)) = Parameters(r) + 6
           /\ PaceScript(r, k)[Len(PaceScript(r, k))] = Cmd("select_emrtd", TRUE, None)
           /\ PaceScript(r, k)[Len(PaceScript(r, k)) - 1] = Cmd("ga4", FALSE, authToken(k))
           /\ \A i \in 1..Len(PaceScript(r, k)) - 2 : PaceScript(r, k)[i] \in PaceCmds
  <1> DEFINE p == SendAPDU("mse")
                  \o (IF Chip[r].wantsParam THEN SendAPDU("mse_param") ELSE <<>>)
                  \o SendAPDU("ga1") \o SendAPDU("ga2") \o SendAPDU("ga3")
             g == Cmd("ga4", FALSE, authToken(k))
             e == Cmd("select_emrtd", TRUE, None)
             S == PaceCmds \cup {g}
  <1>1. \A op \in {"mse", "mse_param", "ga1", "ga2", "ga3"} : SendAPDU(op) \in Seq(PaceCmds)
    BY ShortSeq DEF SendAPDU, Cmd, PaceCmds
  <1>2. p \in Seq(PaceCmds) /\ Len(p) \in Nat /\ Len(p) = Parameters(r) + 4
        /\ Parameters(r) \in Nat
    <2> DEFINE o == IF Chip[r].wantsParam THEN SendAPDU("mse_param") ELSE <<>>
               p1 == SendAPDU("mse") \o o
               p2 == p1 \o SendAPDU("ga1")
               p3 == p2 \o SendAPDU("ga2")
    <2>1. \A op \in {"mse", "mse_param", "ga1", "ga2", "ga3"} : Len(SendAPDU(op)) = 1
      BY DEF SendAPDU
    <2>2. o \in Seq(PaceCmds) /\ Len(o) \in Nat /\ Len(o) = Parameters(r)
      <3>1. SendAPDU("mse_param") \in Seq(PaceCmds) /\ <<>> \in Seq(PaceCmds)
        BY <1>1, EmptySeq
      <3>2. o \in Seq(PaceCmds)
        BY <3>1
      <3>3. Len(o) = Parameters(r)
        BY DEF Parameters
      <3> HIDE DEF o
      <3> QED BY <3>2, <3>3
    <2> HIDE DEF o
    <2>3. p1 \in Seq(PaceCmds) /\ Len(p1) = 1 + Len(o)
      <3>1. SendAPDU("mse") \in Seq(PaceCmds) /\ Len(SendAPDU("mse")) = 1
        BY <1>1, <2>1
      <3>2. o \in Seq(PaceCmds)
        BY <2>2
      <3> QED BY <3>1, <3>2, ConcatProperties
    <2> HIDE DEF p1
    <2>4. p2 \in Seq(PaceCmds) /\ Len(p2) = 2 + Len(o)
      <3>1. SendAPDU("ga1") \in Seq(PaceCmds) /\ Len(SendAPDU("ga1")) = 1
        BY <1>1, <2>1
      <3>2. Len(o) \in Nat
        BY <2>2
      <3>3. p2 \in Seq(PaceCmds) /\ Len(p2) = Len(p1) + Len(SendAPDU("ga1"))
        <4>1. p1 \in Seq(PaceCmds)
          BY <2>3
        <4> QED BY <3>1, <4>1, ConcatProperties
      <3> HIDE DEF p2
      <3>4. Len(p2) = Len(p1) + 1 /\ Len(p1) = 1 + Len(o)
        BY <2>3, <3>1, <3>3
      <3>5. Len(p2) = 2 + Len(o)
        BY <3>2, <3>4
      <3> QED BY <3>3, <3>5
    <2> HIDE DEF p2
    <2>5. p3 \in Seq(PaceCmds) /\ Len(p3) = 3 + Len(o)
      <3>1. SendAPDU("ga2") \in Seq(PaceCmds) /\ Len(SendAPDU("ga2")) = 1
        BY <1>1, <2>1
      <3>2. Len(o) \in Nat
        BY <2>2
      <3>3. p3 \in Seq(PaceCmds) /\ Len(p3) = Len(p2) + Len(SendAPDU("ga2"))
        <4>1. p2 \in Seq(PaceCmds)
          BY <2>4
        <4> QED BY <3>1, <4>1, ConcatProperties
      <3> HIDE DEF p3
      <3>4. Len(p3) = Len(p2) + 1 /\ Len(p2) = 2 + Len(o)
        BY <2>4, <3>1, <3>3
      <3>5. Len(p3) = 3 + Len(o)
        BY <3>2, <3>4
      <3> QED BY <3>3, <3>5
    <2> HIDE DEF p3, p
    <2> DEFINE p4 == p3 \o SendAPDU("ga3")
    <2>6. p4 \in Seq(PaceCmds) /\ Len(p4) = 4 + Len(o)
      <3>1. SendAPDU("ga3") \in Seq(PaceCmds) /\ Len(SendAPDU("ga3")) = 1
        BY <1>1, <2>1
      <3>2. Len(o) \in Nat
        BY <2>2
      <3>3. p4 \in Seq(PaceCmds) /\ Len(p4) = Len(p3) + Len(SendAPDU("ga3"))
        <4>1. p3 \in Seq(PaceCmds)
          BY <2>5
        <4> QED BY <3>1, <4>1, ConcatProperties
      <3> HIDE DEF p4
      <3>4. Len(p4) = Len(p3) + 1
        BY <3>1, <3>3
      <3>5. Len(p3) = 3 + Len(o)
        BY <2>5
      <3>6. Len(p4) = 4 + Len(o)
        BY <3>2, <3>4, <3>5
      <3> QED BY <3>3, <3>6
    <2>7. p = p4
      BY DEF o, p1, p2, p3, p
    <2> HIDE DEF p4
    <2> QED BY <2>2, <2>6, <2>7
  <1> HIDE DEF p
  <1>3. PaceScript(r, k) = p \o <<g>> \o <<e>>
    BY DEF PaceScript, selectEmrtdApplication, SendAPDU_SM, p
  <1>4. p \o <<g>> \in Seq(S)
    <2>1. p \in Seq(S) /\ <<g>> \in Seq(S)
      <3>1. PaceCmds \subseteq S
        OBVIOUS
      <3> QED BY <1>2, <3>1, SeqMonotonic, ShortSeq
    <2> HIDE DEF S, g
    <2> QED BY <2>1, ConcatProperties
  <1> HIDE DEF g, e, S
  <1>5. /\ Len(p \o <<g>>) = Len(p) + 1 /\ (p \o <<g>>)[Len(p) + 1] = g
        /\ \A i \in 1..Len(p) : (p \o <<g>>)[i] = p[i]
    <2>1. p \in Seq(PaceCmds)
      BY <1>2
    <2> QED BY <2>1, Snoc
  <1> DEFINE q == p \o <<g>>
  <1> HIDE DEF q
  <1>6. /\ Len(q \o <<e>>) = Len(q) + 1 /\ (q \o <<e>>)[Len(q) + 1] = e
        /\ \A i \in 1..Len(q) : (q \o <<e>>)[i] = q[i]
    BY <1>4, Snoc DEF q
  <1>7. Len(p) \in Nat /\ \A i \in 1..Len(p) : p[i] \in PaceCmds
    BY <1>2
  <1>8. PaceScript(r, k) = q \o <<e>> /\ Len(q) = Len(p) + 1 /\ q[Len(p) + 1] = g
        /\ \A i \in 1..Len(p) : q[i] = p[i]
    BY <1>3, <1>5 DEF q
  <1>9. Len(PaceScript(r, k)) = Len(p) + 2 /\ PaceScript(r, k)[Len(p) + 2] = e /\ PaceScript(r, k)[Len(p) + 1] = g
        /\ \A i \in 1..Len(p) : PaceScript(r, k)[i] = p[i]
    BY <1>6, <1>7, <1>8
  <1>10. Len(PaceScript(r, k)) - 1 = Len(p) + 1 /\ Len(PaceScript(r, k)) - 2 = Len(p) /\ Len(PaceScript(r, k)) >= 3
    BY <1>2, <1>7, <1>9
  <1>11. PaceScript(r, k)[Len(PaceScript(r, k))] = e /\ PaceScript(r, k)[Len(PaceScript(r, k)) - 1] = g
    BY <1>9, <1>10
  <1>12. \A i \in 1..Len(PaceScript(r, k)) - 2 : PaceScript(r, k)[i] \in PaceCmds
    BY <1>7, <1>9, <1>10
  <1>13. Parameters(r) \in Nat /\ Len(PaceScript(r, k)) = Parameters(r) + 6
    BY <1>2, <1>9
  <1> QED BY <1>10, <1>11, <1>12, <1>13 DEF g, e

(* The script of an attempt with the CAN: PACE, the token in the last       *)
(* GENERAL AUTHENTICATE but one command, then the protected SELECT.         *)
LEMMA ScriptOfCan ==
    ASSUME t.mode = "can"
    PROVE  /\ Script = PaceScript(t.reader, LibraryKey(t.secret))
           /\ Parameters(t.reader) \in Nat /\ Len(Script) = Parameters(t.reader) + 6
           /\ Script[Len(Script)] = Cmd("select_emrtd", TRUE, None)
           /\ Script[Len(Script) - 1] = Cmd("ga4", FALSE, authToken(LibraryKey(t.secret)))
           /\ \A i \in 1..Len(Script) - 2 : Script[i] \in PaceCmds
  <1>1. Script = PaceScript(t.reader, LibraryKey(t.secret))
    BY DEF Script, PaceScript, performPace
  <1> QED BY <1>1, PaceScriptFacts

(* The script depends on the call, the reader and the nonce alone. *)
LEMMA SameScript ==
    ASSUME t'.mode = t.mode, t'.secret = t.secret, t'.reader = t.reader, t'.damaged = t.damaged
    PROVE  Script' = Script /\ LibraryKey(t.secret)' = LibraryKey(t.secret)
  <1>1. LibraryKey(t.secret)' = LibraryKey(t.secret)
    BY DEF LibraryKey, Nonce
  <1>2. performPace(t.secret)' = performPace(t.secret)
    BY <1>1 DEF performPace
  <1> QED BY <1>1, <1>2 DEF Script, CardAuthenticateEx

(* A damaged nonce changes the token, not the number of commands. *)
LEMMA SameLength ==
    ASSUME t'.mode = "can", t.mode = "can", t'.reader = t.reader
    PROVE  Len(Script)' = Len(Script)
  <1>1. Script' = PaceScript(t.reader, LibraryKey(t.secret)')
    BY DEF Script, PaceScript, performPace
  <1>2. Len(PaceScript(t.reader, LibraryKey(t.secret)')) = Parameters(t.reader) + 6
    BY PaceScriptFacts
  <1> QED BY <1>1, <1>2, ScriptOfCan

Protecteds == {"set_key", "verify_cert", "set_chr", "challenge", "ext_auth", "int_auth",
               "random", "verify"}
Clears == {"select_ias", "select_cie", "select_file", "read_file", "set_enc", "int_auth_plain",
           "get_data", "set_dh", "get_dh"}
PinCmds == {c \in [op : Protecteds \cup Clears, sm : BOOLEAN, arg : {None, t.secret}] :
              (c.sm <=> c.op \in Protecteds) /\ (c.op = "verify" => c.arg = t.secret)}

(* Every command of a PIN operation is one of PinCmds. *)
LEMMA PinCmd ==
    /\ \A op \in Clears : SendAPDU(op) \in Seq(PinCmds)
    /\ \A op \in Protecteds \ {"verify"} :
          SendAPDU_SM(op) \in Seq(PinCmds) /\ Chained(op) \in Seq(PinCmds)
    /\ <<Cmd("verify", TRUE, t.secret)>> \in Seq(PinCmds)
  <1>1. ASSUME NEW op \in Clears PROVE SendAPDU(op) \in Seq(PinCmds)
    <2>1. Cmd(op, FALSE, None) \in PinCmds
      BY DEF PinCmds, Cmd, Clears, Protecteds
    <2> QED BY <2>1, ShortSeq DEF SendAPDU
  <1>2. ASSUME NEW op \in Protecteds \ {"verify"}
        PROVE SendAPDU_SM(op) \in Seq(PinCmds) /\ Chained(op) \in Seq(PinCmds)
    <2>1. Cmd(op, TRUE, None) \in PinCmds
      BY DEF PinCmds, Cmd, Protecteds
    <2> QED BY <2>1, ShortSeq DEF SendAPDU_SM, Chained
  <1>3. Cmd("verify", TRUE, t.secret) \in PinCmds
    BY DEF PinCmds, Cmd, Protecteds
  <1> QED BY <1>1, <1>2, <1>3, ShortSeq

Has(s, op) == \E i \in 1..Len(s) : s[i].op = op

(* A command that one of two sequences has is in their concatenation. *)
LEMMA HasConcat ==
    ASSUME NEW S, NEW r \in Seq(S), NEW s \in Seq(S), NEW op
    PROVE  /\ r \o s \in Seq(S)
           /\ Has(r, op) \/ Has(s, op) => Has(r \o s, op)
  <1>1. /\ r \o s \in Seq(S) /\ Len(r \o s) = Len(r) + Len(s) /\ Len(r) \in Nat /\ Len(s) \in Nat
        /\ \A i \in 1..Len(r) + Len(s) : (r \o s)[i] = IF i <= Len(r) THEN r[i] ELSE s[i - Len(r)]
    BY ConcatProperties
  <1>2. ASSUME NEW i \in 1..Len(r), r[i].op = op PROVE \E j \in 1..Len(r \o s) : (r \o s)[j].op = op
    <2>1. i \in 1..Len(r \o s) /\ (r \o s)[i] = r[i]
      BY <1>1
    <2> QED BY <1>2, <2>1
  <1>3. ASSUME NEW i \in 1..Len(s), s[i].op = op PROVE \E j \in 1..Len(r \o s) : (r \o s)[j].op = op
    <2>1. i + Len(r) \in 1..Len(r \o s) /\ (r \o s)[i + Len(r)] = s[i + Len(r) - Len(r)]
      BY <1>1
    <2>2. i + Len(r) - Len(r) = i
      BY <1>1
    <2> QED BY <1>3, <2>1, <2>2
  <1> QED BY <1>1, <1>2, <1>3 DEF Has

(* The commands of cie_read_dgs up to the PIN: protected after the exchange  *)
(* of keys, which is among them.                                             *)
LEMMA ScriptOfPin ==
    ASSUME t.mode = "pin"
    PROVE  Script \in Seq(PinCmds) /\ Has(Script, "get_dh")
  <1> USE PinCmd
  <1> HIDE DEF PinCmds
  <1>1. /\ SelectAID_IAS \in Seq(PinCmds) /\ SelectAID_CIE \in Seq(PinCmds)
        /\ readfile \in Seq(PinCmds) /\ InitEncKey \in Seq(PinCmds)
        /\ InitDHParam \in Seq(PinCmds) /\ InitExtAuthKeyParam \in Seq(PinCmds)
        /\ DHKeyExchange \in Seq(PinCmds)
    BY DEF SelectAID_IAS, SelectAID_CIE, readfile, InitEncKey, InitDHParam, InitExtAuthKeyParam,
           DHKeyExchange, Clears
  <1>2. DAPP \in Seq(PinCmds)
    BY DEF DAPP, Protecteds
  <1> DEFINE a == SelectAID_IAS \o ReadPAN \o SelectAID_CIE \o ReadDappPubKey \o InitEncKey
             b == SelectAID_IAS \o SelectAID_CIE \o InitDHParam \o InitExtAuthKeyParam
             v == <<Cmd("verify", TRUE, t.secret)>>
  <1>3. a \in Seq(PinCmds) /\ b \in Seq(PinCmds) /\ v \in Seq(PinCmds)
    BY <1>1, ConcatProperties DEF ReadPAN, ReadDappPubKey
  <1> HIDE PinCmd
  <1>4. Script = a \o (b \o DHKeyExchange \o DAPP \o v)
    BY DEF Script, CardAuthenticateEx
  <1>5. Has(DHKeyExchange, "get_dh")
    <2>1. DHKeyExchange[2].op = "get_dh" /\ Len(DHKeyExchange) = 2
      BY DEF DHKeyExchange, SendAPDU, Cmd
    <2> QED BY <2>1 DEF Has
  <1> HIDE DEF a, b, v
  <1> DEFINE s1 == b \o DHKeyExchange
             s2 == s1 \o DAPP
             s3 == s2 \o v
  <1>6. s1 \in Seq(PinCmds) /\ Has(s1, "get_dh")
    <2>1. DHKeyExchange \in Seq(PinCmds)
      BY <1>1
    <2> QED BY <1>3, <1>5, <2>1, HasConcat
  <1> HIDE DEF s1
  <1>7. s2 \in Seq(PinCmds) /\ Has(s2, "get_dh")
    BY <1>2, <1>6, HasConcat
  <1> HIDE DEF s2
  <1>8. s3 \in Seq(PinCmds) /\ Has(s3, "get_dh")
    BY <1>3, <1>7, HasConcat
  <1> HIDE DEF s3
  <1>9. a \o s3 \in Seq(PinCmds) /\ Has(a \o s3, "get_dh")
    <2>1. a \in Seq(PinCmds) /\ s3 \in Seq(PinCmds)
      BY <1>3, <1>8
    <2>2. Has(s3, "get_dh")
      BY <1>8
    <2> QED BY <2>1, <2>2, HasConcat
  <1> QED BY <1>4, <1>9 DEF s1, s2, s3

----------------------------------------------------------------------------
(* The chip: what a command does to its state. *)

OwnKey(r) == PaceKey(r, decryptNonce(Chip[r].can))
Keys == {NoKey, <<"dh">>, <<"bad">>}
        \cup {PaceKey(r, n) : r \in Readers, n \in {Damaged} \cup {decryptNonce(c) : c \in CANs}}
ChipFields == {"key", "ssc", "stage", "verified", "charged", "dropped", "hidden"}
IsChip(c) ==
  /\ DOMAIN c = ChipFields
  /\ c.key \in Keys /\ c.ssc \in Int /\ c.stage \in Nat /\ c.verified \in BOOLEAN
  /\ c.charged \in Nat /\ c.dropped \in BOOLEAN /\ c.hidden \in 0..4

(* The constants that describe a chip. *)
LEMMA ChipTyped ==
    ASSUME NEW r \in Readers
    PROVE  /\ Chip[r].can \in CANs /\ Chip[r].pin \in PINs /\ Chip[r].hides \in 0..4
           /\ OwnKey(r) \in Keys /\ OwnKey(r) # NoKey
  <1>1. Chip[r] \in ChipKind
    BY ChipReaderAssumption DEF Readers
  <1>2. OwnKey(r) # NoKey
    BY DEF OwnKey, PaceKey, kdf, NoKey
  <1> QED BY <1>1, <1>2 DEF ChipKind, OwnKey, Keys

(* What a power-up changes of a chip. *)
LEMMA PoweredTyped ==
    ASSUME NEW c, IsChip(c), NEW power \in Nat
    PROVE  /\ IsChip(Powered(c, power))
           /\ Powered(c, power).key = NoKey /\ Powered(c, power).stage = 0
           /\ Powered(c, power).charged = c.charged /\ Powered(c, power).dropped = c.dropped
           /\ Powered(c, power).verified = FALSE
           /\ Powered(c, power).hidden = IF c.hidden <= power THEN 0 ELSE c.hidden
  <1>1. NoKey \in Keys
    BY DEF Keys
  <1> QED BY <1>1 DEF IsChip, ChipFields, Powered

(* An unprotected command.  Only PACE and the exchange of keys give the chip *)
(* a session, and only the token of PACE costs a try.                        *)
PlainResult(r, d, cmd, o) ==
  /\ IsChip(o.c)
  /\ o.c.verified = d.verified /\ o.c.dropped = d.dropped
  /\ o.c.hidden \in {d.hidden, Chip[r].hides}
  /\ \/ o.c.charged = d.charged
     \/ o.c.charged = d.charged + 1 /\ cmd.op = "ga4" /\ o.is = "wrong" /\ d.stage = 4
  /\ \/ o.c.key = d.key /\ o.c.ssc = d.ssc /\ (cmd.op \in {"ga4", "get_dh"} => o.is # "ok")
     \/ /\ cmd.op = "ga4" /\ o.is = "ok" /\ o.c.key = OwnKey(r) /\ o.c.ssc = 0
        /\ cmd.arg = authToken(OwnKey(r)) /\ o.c.charged = d.charged
     \/ cmd.op = "get_dh" /\ o.is = "ok" /\ o.c.key = <<"dh">> /\ o.c.ssc = 1
  /\ o.is = "wrong" => cmd.op = "ga4"
  /\ o.is \in {"ok", "6A80", "6985", "wrong"}
  /\ o.is = "6A80" => cmd.op = "mse"
(* What an unprotected command does to a chip. *)
LEMMA PlainFacts ==
    ASSUME NEW r \in Readers, NEW d, IsChip(d), NEW cmd, NEW o, o = Plain(r, d, cmd)
    PROVE  PlainResult(r, d, cmd, o)
  <1>1. OwnKey(r) \in Keys /\ Chip[r].hides \in 0..4 /\ <<"dh">> \in Keys
    BY ChipTyped DEF Keys
  <1> USE DEF PlainResult, Plain, Out, IsChip, ChipFields
  <1>2. CASE cmd.op = "mse"
    BY <1>2
  <1>3. CASE cmd.op = "mse_param"
    BY <1>3
  <1>4. CASE cmd.op \in {"ga1", "ga2", "ga3"}
    BY <1>4
  <1>5. CASE cmd.op = "ga4"
    BY <1>1, <1>5 DEF OwnKey
  <1>6. CASE cmd.op = "select_cie"
    BY <1>1, <1>6
  <1>7. CASE cmd.op = "get_dh"
    <2>1. o.is = "ok" /\ o.c = [d EXCEPT !.key = <<"dh">>, !.ssc = 1]
      BY <1>7
    <2> HIDE DEF Plain
    <2>2. /\ IsChip(o.c) /\ o.c.verified = d.verified /\ o.c.dropped = d.dropped
          /\ o.c.hidden = d.hidden /\ o.c.charged = d.charged
          /\ o.c.key = <<"dh">> /\ o.c.ssc = 1
      BY <1>1, <2>1
    <2> QED BY <1>7, <2>1, <2>2
  <1>8. CASE cmd.op \notin {"mse", "mse_param", "ga1", "ga2", "ga3", "ga4", "select_cie", "get_dh"}
    BY <1>8
  <1> QED BY <1>2, <1>3, <1>4, <1>5, <1>6, <1>7, <1>8

(* A protected command: executed under the right key and counter, which the  *)
(* chip moves on, or refused with the loss of the session.                   *)
Answered(r, d, cmd, ch, o) ==
  /\ d.key = ch.key /\ d.ssc + 1 = ch.ssc /\ o.c.key = d.key
  /\ o.c.ssc = (IF cmd.op = "random" THEN 50 ELSE d.ssc + 2)
  /\ o.c.dropped = d.dropped
  /\ \/ o.c.charged = d.charged /\ o.is # "wrong"
     \/ /\ o.c.charged = d.charged + 1 /\ cmd.op = "verify" /\ o.is = "wrong"
        /\ cmd.arg # Chip[r].pin
  /\ \/ o.c.verified = d.verified
     \/ cmd.op = "verify" /\ cmd.arg = Chip[r].pin
  /\ o.is \notin {"6988", "6A80", "6300", "lost", "bad"} \cup OwnReason
  /\ cmd.op = "random" => o.is = "ok"
Dropped(d, ch, o) ==
  /\ ~(d.key = ch.key /\ d.ssc + 1 = ch.ssc) /\ o.is = "6988"
  /\ o.c.key = NoKey /\ o.c.charged = d.charged /\ o.c.verified = d.verified
  /\ o.c.dropped = (d.dropped \/ d.key = ch.key)
(* A protected command is answered in step, or drops the channel. *)
LEMMA ProtectedFacts ==
    ASSUME NEW r \in Readers, NEW d, IsChip(d), NEW cmd, NEW ch, NEW o,
           o = Protected(r, d, cmd, ch)
    PROVE  /\ IsChip(o.c) /\ o.c.hidden = d.hidden
           /\ Answered(r, d, cmd, ch, o) \/ Dropped(d, ch, o)
  <1>1. NoKey \in Keys
    BY DEF Keys
  <1> USE DEF Answered, Dropped, Protected, Inner, Out, IsChip, ChipFields, OwnReason
  <1>2. CASE ~(d.key = ch.key /\ d.ssc + 1 = ch.ssc)
    <2> DEFINE b == (d.dropped \/ d.key = ch.key)
    <2>1. o = Out("6988", [d EXCEPT !.key = NoKey, !.dropped = b])
      BY <1>2
    <2>2. b \in BOOLEAN
      OBVIOUS
    <2> HIDE DEF b
    <2>3. o.is = "6988" /\ o.c = [d EXCEPT !.key = NoKey, !.dropped = b]
      BY <2>1
    <2>4. IsChip(o.c) /\ o.c.hidden = d.hidden /\ o.c.key = NoKey /\ o.c.charged = d.charged
          /\ o.c.verified = d.verified /\ o.c.dropped = b
      BY <1>1, <2>2, <2>3
    <2> QED BY <1>2, <2>3, <2>4 DEF b
  <1>3. CASE d.key = ch.key /\ d.ssc + 1 = ch.ssc /\ cmd.op = "verify"
    <2>1. CASE Chip[r].blocked
      <3>1. o.is = "6983" /\ o.c = [d EXCEPT !.ssc = d.ssc + 2]
        BY <1>3, <2>1
      <3> HIDE DEF Protected, Inner
      <3> QED BY <1>3, <3>1
    <2>2. CASE ~Chip[r].blocked /\ cmd.arg = Chip[r].pin
      <3>1. o.is = "ok" /\ o.c = [[d EXCEPT !.verified = TRUE] EXCEPT !.ssc = d.ssc + 2]
        BY <1>3, <2>2
      <3> HIDE DEF Protected, Inner
      <3> QED BY <1>3, <2>2, <3>1
    <2>3. CASE ~Chip[r].blocked /\ cmd.arg # Chip[r].pin
      <3>1. o.is = "wrong" /\ o.c = [[d EXCEPT !.charged = @ + 1] EXCEPT !.ssc = d.ssc + 2]
        BY <1>3, <2>3
      <3> HIDE DEF Protected, Inner
      <3> QED BY <1>3, <2>3, <3>1
    <2> QED BY <2>1, <2>2, <2>3
  <1>4. CASE d.key = ch.key /\ d.ssc + 1 = ch.ssc /\ cmd.op = "random"
    BY <1>4
  <1>5. CASE d.key = ch.key /\ d.ssc + 1 = ch.ssc /\ cmd.op = "read"
    <2> DEFINE i == Inner(r, d, cmd)
    <2>1. i.c = d /\ i.is \in {"6982", "6981", "6B00", "ok"} /\ DOMAIN i = {"is", "c", "data"}
      BY <1>5
    <2>2. o = [i EXCEPT !.c = [@ EXCEPT !.ssc = d.ssc + 2]]
      BY <1>5
    <2> HIDE DEF i
    <2> QED BY <1>5, <2>1, <2>2
  <1>6. CASE d.key = ch.key /\ d.ssc + 1 = ch.ssc /\ cmd.op \notin {"verify", "random", "read"}
    <2>1. o.is = "ok" /\ o.c = [d EXCEPT !.ssc = d.ssc + 2]
      BY <1>6
    <2> HIDE DEF Protected, Inner
    <2> QED BY <1>6, <2>1
  <1> QED BY <1>2, <1>3, <1>4, <1>5, <1>6

----------------------------------------------------------------------------
(* The invariant. *)

Secrets == CANs \cup PINs \cup {Malformed}
Reading == {"select", "head", "body", "fid_select", "fid"}
Active == Reading \cup {"script"}
Outside == {"idle", "dead", "context", "reader"}
ThreadFields == {"pc", "mode", "secret", "attempt", "polls", "reader", "i", "level", "f", "chan",
                 "out", "got", "damaged", "unsupported", "resetRequired"}

IsChannel(ch) == DOMAIN ch = {"key", "ssc"} /\ ch.key \in Keys /\ ch.ssc \in Int

TypeInv ==
  /\ DOMAIN t = ThreadFields
  /\ t.pc \in Outside \cup {"access"} \cup Active /\ t.mode \in {"can", "pin"}
  /\ t.secret \in Secrets
  /\ t.attempt \in Nat /\ t.polls \in Nat /\ t.reader \in Nat \ {0} /\ t.i \in Nat \ {0}
  /\ t.level \in {1, 2, 3} /\ t.f \in {1, 2} /\ IsChannel(t.chan)
  /\ t.damaged \in BOOLEAN /\ t.unsupported \in BOOLEAN /\ t.resetRequired \in BOOLEAN
  /\ DOMAIN chip = Readers /\ \A r \in Readers : IsChip(chip[r])
  /\ faults \in Nat

(* Where the thread is and which reader and secret it uses. *)
PlaceInv ==
  /\ t.pc \notin {"idle", "dead"} => t.secret \in IF t.mode = "can" THEN CANs ELSE PINs
  /\ t.pc \in Active \cup {"access"} => t.reader \in Readers
  /\ t.pc = "access" => t.mode = "can"
  /\ t.pc = "script" => t.i <= Len(Script)
  /\ t.pc \notin Active => t.chan = NoChan /\ t.damaged = FALSE /\ t.i = 1
  /\ t.pc \in {"context", "reader"} => t.level = 1

(* The keys: a chip has a session only after PACE with its own number, or    *)
(* the exchange of keys, and the thread has a channel from then on.          *)
CanKeys ==
  /\ t.pc = "access" => chip[t.reader].key = NoKey
  /\ t.pc = "script" /\ t.i < Len(Script) => chip[t.reader].key = NoKey /\ t.chan.key = NoKey
  /\ t.pc \in Active => /\ chip[t.reader].key \in {NoKey, OwnKey(t.reader)}
                        /\ t.chan.key \in {NoKey, LibraryKey(t.secret)}
  /\ t.pc \in Reading \/ (t.pc = "script" /\ t.i = Len(Script)) => t.chan.key # NoKey
PinKeys ==
  /\ chip[t.reader].key \in {NoKey, <<"dh">>}
  /\ t.pc = "script" => \A j \in 1..t.i - 1 : Script[j].op = "get_dh" => t.chan.key # NoKey
  /\ t.pc \in Reading => t.chan.key # NoKey
  /\ chip[t.reader].verified => t.secret = Chip[t.reader].pin
KeyInv ==
  /\ t.pc \in Active \cup {"access"} => IF t.mode = "can" THEN CanKeys ELSE PinKeys
  /\ t.pc \in Active /\ t.chan.key # NoKey /\ chip[t.reader].key = t.chan.key
     => chip[t.reader].ssc = t.chan.ssc
  /\ t.mode = "can" => \A r \in Readers : ~chip[r].dropped

(* The tries: the exchange that costs one is the last of its call. *)
ChargeInv ==
  /\ t.pc \notin {"idle", "dead"} => \A r \in Readers : chip[r].charged = 0
  /\ \A r \in Readers : chip[r].charged \in {0, 1}

(* What the caller will be told. *)
ToldInv ==
  /\ t.mode = "can" /\ t.pc \notin {"idle", "dead"} => kind = None
  /\ t.resetRequired => \E r \in Readers : ~Chip[r].access \/ Chip[r].hides > 2
  /\ \A r \in Readers : chip[r].hidden \in {0, Chip[r].hides}
  /\ t.pc = "access" /\ t.level > 1 => chip[t.reader].hidden = 0 \/ chip[t.reader].hidden > 2

(* Whether the caller of cie_read_dgs_can can tell the failures apart, and    *)
(* whether a lost try is told.                                               *)
CanTold(rc, k) ==
  /\ rc = "PIN_INCORRECT" <=> k = "WRONG_CAN"
  /\ rc = "FUNCTION_NOT_SUPPORTED" <=> k \in {"UNSUPPORTED_CARD", "CARD_RESET_REQUIRED"}
  /\ k = "CARD_COMMUNICATION" => rc = "DEVICE_ERROR"
  /\ k = "INS_NOT_SUPPORTED" => rc \in {"DEVICE_ERROR", "GENERAL_ERROR"}
  /\ rc = "DEVICE_ERROR" /\ k = "INS_NOT_SUPPORTED" => \E r \in Readers : ~Chip[r].extended
  /\ rc = "OK" => k = None
  /\ k = "CARD_RESET_REQUIRED" => \E r \in Readers : ~Chip[r].access \/ Chip[r].hides > 2
TryTold(rc, k, h) ==
  \/ rc = "PIN_INCORRECT" /\ (t.mode = "can" => k = "WRONG_CAN")
  \/ rc = "DEVICE_ERROR" /\ k = "CARD_COMMUNICATION"
  \/ rc = "GENERAL_ERROR" /\ t.mode = "can" /\ h = "damaged"

(* What failFromResult records is a kind of its own, with its own code. *)
LEMMA ClassifiedTold ==
    ASSUME NEW sw PROVE CanTold("GENERAL_ERROR", cie_classify_sw(sw))
  <1> DEFINE k == cie_classify_sw(sw)
  <1>1. k \in {"WRONG_PIN", "PIN_BLOCKED", "SECURITY_NOT_SATISFIED", "FILE_NOT_FOUND",
               "WRONG_PARAMS", "INS_NOT_SUPPORTED", "UNKNOWN"}
    BY DEF cie_classify_sw
  <1> HIDE DEF k
  <1>2. CanTold("GENERAL_ERROR", k)
    BY <1>1 DEF CanTold, None
  <1> QED BY <1>2 DEF k

ChipInv == TypeInv /\ PlaceInv /\ KeyInv /\ ChargeInv /\ ToldInv /\ OutcomeTold

----------------------------------------------------------------------------
(* An exchange: what comes of it for the chip, by the answer. *)

Effect(r, c, x, cmd, ch) ==
  /\ IsChip(x.c) /\ x.c.hidden \in {c.hidden, Chip[r].hides, 0}
  /\ \/ x.c.charged = c.charged
     \/ /\ x.c.charged = c.charged + 1 /\ x.is \in {"wrong", "lost", "bad"}
        /\ IF cmd.sm THEN cmd.op = "verify" /\ cmd.arg # Chip[r].pin
           ELSE cmd.op = "ga4" /\ x.c.key \in {c.key, NoKey}
  /\ x.is = "wrong" => cmd.op \in {"ga4", "verify"}
  /\ x.is = "6300" => cmd.op = "ga1"
  /\ x.is = "6A80" => cmd.op = "mse"
  /\ x.c.verified => c.verified \/ (cmd.op = "verify" /\ cmd.arg = Chip[r].pin)
PlainEffect(r, c, x, cmd) ==
  /\ x.c.dropped = c.dropped
  /\ \/ /\ x.c.key \in {c.key, NoKey} /\ (x.c.key # NoKey => x.c.ssc = c.ssc)
        /\ cmd.op \in {"ga4", "get_dh"} => x.is # "ok"
     \/ /\ cmd.op = "ga4" /\ x.c.key = OwnKey(r) /\ x.c.ssc = 0
        /\ cmd.arg = authToken(OwnKey(r)) /\ x.c.charged = c.charged
     \/ cmd.op = "get_dh" /\ x.c.key = <<"dh">> /\ x.c.ssc = 1
SmEffect(c, x, cmd, ch) ==
  /\ x.c.key \in {c.key, NoKey}
  /\ x.is \in Unprotected => x.c.key = NoKey
  /\ x.is \notin {"lost", "bad"} \cup Unprotected
     => x.c.ssc = IF cmd.op = "random" THEN 50 ELSE ch.ssc + 1
  /\ ch.key # NoKey /\ (c.key = ch.key => c.ssc + 1 = ch.ssc) => x.c.dropped = c.dropped

(* Both kinds of command, in the words of the invariant. *)
LEMMA ExecuteEffect ==
    ASSUME NEW r \in Readers, NEW d, IsChip(d), NEW cmd, NEW ch, NEW x, IsChannel(ch),
           cmd.sm \in BOOLEAN,
           x.is = Execute(r, d, cmd, ch).is, x.c = Execute(r, d, cmd, ch).c
    PROVE  /\ Effect(r, d, x, cmd, ch) /\ x.is \notin {"lost", "bad"}
           /\ ~cmd.sm => PlainEffect(r, d, x, cmd)
           /\ cmd.sm => SmEffect(d, x, cmd, ch)
  <1> DEFINE o == Execute(r, d, cmd, ch)
  <1>1. CASE ~cmd.sm
    <2>1. o = Plain(r, d, cmd)
      BY <1>1 DEF Execute
    <2> HIDE DEF o
    <2>2. x.is = o.is /\ x.c = o.c
      BY DEF o
    <2>3. PlainResult(r, d, cmd, o)
      BY <2>1, PlainFacts
    <2>4. PlainEffect(r, d, x, cmd)
      BY <2>2, <2>3 DEF PlainEffect, PlainResult
    <2>5. Effect(r, d, x, cmd, ch)
      BY <1>1, <2>2, <2>3 DEF Effect, PlainResult
    <2> QED BY <1>1, <2>2, <2>3, <2>4, <2>5 DEF PlainResult
  <1>2. CASE cmd.sm
    <2>1. o = Protected(r, d, cmd, ch)
      BY <1>2 DEF Execute
    <2> HIDE DEF o
    <2>2. x.is = o.is /\ x.c = o.c
      BY DEF o
    <2>3. d.ssc \in Int /\ ch.ssc \in Int
      BY DEF IsChip, IsChannel
    <2>4. /\ IsChip(o.c) /\ o.c.hidden = d.hidden
          /\ Answered(r, d, cmd, ch, o) \/ Dropped(d, ch, o)
      BY <2>1, ProtectedFacts
    <2>5. CASE Answered(r, d, cmd, ch, o)
      <3>1. SmEffect(d, x, cmd, ch)
        BY <2>2, <2>3, <2>5 DEF SmEffect, Answered, Unprotected
      <3>2. Effect(r, d, x, cmd, ch)
        BY <1>2, <2>2, <2>4, <2>5 DEF Effect, Answered
      <3> QED BY <1>2, <2>2, <2>5, <3>1, <3>2 DEF Answered
    <2>6. CASE Dropped(d, ch, o)
      <3>1. SmEffect(d, x, cmd, ch)
        <4>1. /\ x.c.key = NoKey /\ x.is = "6988" /\ ~(d.key = ch.key /\ d.ssc + 1 = ch.ssc)
              /\ x.c.dropped = (d.dropped \/ d.key = ch.key)
          BY <2>2, <2>6 DEF Dropped
        <4>2. ASSUME d.key # ch.key PROVE x.c.dropped = d.dropped
          BY <4>1, <4>2 DEF IsChip
        <4>3. ASSUME ~(d.key # ch.key), d.key = ch.key => d.ssc + 1 = ch.ssc PROVE FALSE
          BY <4>1, <4>3
        <4> QED BY <4>1, <4>2, <4>3 DEF SmEffect, Unprotected
      <3>2. Effect(r, d, x, cmd, ch)
        BY <1>2, <2>2, <2>4, <2>6 DEF Effect, Dropped
      <3> QED BY <1>2, <2>2, <2>6, <3>1, <3>2 DEF Dropped
    <2> QED BY <2>4, <2>5, <2>6
  <1> QED BY <1>1, <1>2

(* Another program reset the card first, or the answer did not arrive. *)
Effects(r, c, x, cmd, ch) ==
  /\ Effect(r, c, x, cmd, ch)
  /\ ~cmd.sm => PlainEffect(r, c, x, cmd)
  /\ cmd.sm => SmEffect(c, x, cmd, ch)

(* A reset before the command adds nothing to what it may do. *)
LEMMA EffectAfterReset ==
    ASSUME NEW r \in Readers, NEW c, IsChip(c), NEW cmd, NEW ch, cmd.sm \in BOOLEAN, NEW x,
           Effects(r, Powered(c, 1), x, cmd, ch)
    PROVE  Effects(r, c, x, cmd, ch)
  <1> DEFINE d == Powered(c, 1)
  <1>1. /\ IsChip(d) /\ d.key = NoKey /\ d.charged = c.charged /\ d.dropped = c.dropped
        /\ d.verified = FALSE /\ d.hidden \in {0, c.hidden}
    BY PoweredTyped
  <1> HIDE DEF d
  <1>2. Effects(r, d, x, cmd, ch)
    BY DEF d
  <1>3. Effect(r, c, x, cmd, ch)
    BY <1>1, <1>2 DEF Effects, Effect
  <1>4. ~cmd.sm => PlainEffect(r, c, x, cmd)
    BY <1>1, <1>2 DEF Effects, PlainEffect
  <1>5. cmd.sm => SmEffect(c, x, cmd, ch)
    BY <1>1, <1>2 DEF Effects, SmEffect
  <1> QED BY <1>3, <1>4, <1>5 DEF Effects

(* The chip did the same when its answer is lost or damaged. *)
LEMMA EffectUnanswered ==
    ASSUME NEW r \in Readers, NEW c, IsChip(c), NEW cmd, NEW ch, cmd.sm \in BOOLEAN, NEW x, NEW y,
           Effects(r, c, x, cmd, ch), y.c = x.c, y.is \in {"lost", "bad"}
    PROVE  Effects(r, c, y, cmd, ch)
  <1>1. Effect(r, c, y, cmd, ch)
    BY DEF Effects, Effect
  <1>2. ~cmd.sm => PlainEffect(r, c, y, cmd)
    BY DEF Effects, PlainEffect
  <1>3. cmd.sm => SmEffect(c, y, cmd, ch)
    BY DEF Effects, SmEffect, Unprotected, OwnReason
  <1> QED BY <1>1, <1>2, <1>3 DEF Effects

(* Every exchange, with or without a fault. *)
LEMMA ExchangeEffects ==
    ASSUME NEW r \in Readers, IsChip(chip[r]), NEW cmd, cmd.sm \in BOOLEAN, NEW ch, IsChannel(ch),
           cmd.op = "ga1" => ~cmd.sm, NEW x \in Exchange(r, cmd, ch)
    PROVE  Effects(r, chip[r], x, cmd, ch) /\ x.cost \in {0, 1}
  <1> DEFINE c == chip[r]
             done == Execute(r, c, cmd, ch)
             reset == Execute(r, Powered(c, 1), cmd, ch)
             unanswered == [is |-> "lost", c |-> done.c]
  <1>1. Effects(r, c, done, cmd, ch)
    BY ExecuteEffect DEF Effects
  <1>2. Effects(r, c, reset, cmd, ch)
    <2>1. IsChip(Powered(c, 1))
      BY PoweredTyped
    <2>2. Effects(r, Powered(c, 1), reset, cmd, ch)
      BY <2>1, ExecuteEffect DEF Effects
    <2> QED BY <2>2, EffectAfterReset
  <1>3. \/ x.is = "lost" /\ x.c = c
        \/ x.is = done.is /\ x.c = done.c
        \/ x.is \in {"lost", "bad"} /\ x.c = done.c
        \/ x.is \in OwnReason /\ x.c = (IF cmd.sm THEN [c EXCEPT !.key = NoKey] ELSE c)
        \/ x.is = reset.is /\ x.c = reset.c
        \/ cmd.op = "ga1" /\ x.is = "6300" /\ x.c = c
    BY DEF Exchange
  <1>4. x.cost \in {0, 1}
    BY DEF Exchange
  <1>5. ASSUME x.c = c \/ (cmd.sm /\ x.is \in OwnReason /\ x.c = [c EXCEPT !.key = NoKey]),
               x.is \in {"lost", "6300"} \cup OwnReason, x.is \in OwnReason /\ cmd.sm => x.c.key = NoKey,
               x.is = "6300" => cmd.op = "ga1"
        PROVE  Effects(r, c, x, cmd, ch)
    <2>1. /\ IsChip(x.c) /\ x.c.hidden = c.hidden /\ x.c.charged = c.charged
          /\ x.c.verified = c.verified /\ x.c.dropped = c.dropped
          /\ x.c = c \/ x.c.key = NoKey
      BY <1>5 DEF IsChip, ChipFields, Keys
    <2> HIDE DEF c
    <2>2. Effect(r, c, x, cmd, ch)
      BY <1>5, <2>1 DEF Effect, OwnReason
    <2>3. ~cmd.sm => PlainEffect(r, c, x, cmd)
      BY <1>5, <2>1 DEF PlainEffect, OwnReason
    <2>4. cmd.sm => SmEffect(c, x, cmd, ch)
      BY <1>5, <2>1 DEF SmEffect, Unprotected
    <2> QED BY <2>2, <2>3, <2>4 DEF Effects
  <1>6. ASSUME NEW o, Effects(r, c, o, cmd, ch), x.is = o.is /\ x.c = o.c
        PROVE  Effects(r, c, x, cmd, ch)
    <2> HIDE DEF c
    <2>1. Effect(r, c, x, cmd, ch)
      BY <1>6 DEF Effects, Effect
    <2>2. ~cmd.sm => PlainEffect(r, c, x, cmd)
      BY <1>6 DEF Effects, PlainEffect
    <2>3. cmd.sm => SmEffect(c, x, cmd, ch)
      BY <1>6 DEF Effects, SmEffect
    <2> QED BY <2>1, <2>2, <2>3 DEF Effects
  <1> HIDE DEF done, reset, c
  <1>7. CASE x.is \in {"lost", "bad"} /\ x.c = done.c
    BY <1>1, <1>4, <1>7, EffectUnanswered DEF c
  <1>8. CASE x.is \in OwnReason /\ x.c = (IF cmd.sm THEN [c EXCEPT !.key = NoKey] ELSE c)
    <2>1. CASE cmd.sm
      <3>1. x.c.key = NoKey
        BY <1>8, <2>1 DEF IsChip, ChipFields, c
      <3> QED BY <1>4, <1>5, <1>8, <2>1, <3>1 DEF c, OwnReason
    <2>2. CASE ~cmd.sm
      BY <1>4, <1>5, <1>8, <2>2 DEF c, OwnReason
    <2> QED BY <2>1, <2>2
  <1> QED BY <1>1, <1>2, <1>3, <1>4, <1>5, <1>6, <1>7, <1>8 DEF c, OwnReason

----------------------------------------------------------------------------
(* How an attempt and a call end. *)

Ends ==
  \E q \in {"idle", "dead"}, n \in Nat, p \in Nat :
     t' = Attempt(n, p) \/ t' = [Attempt(n, p) EXCEPT !.pc = q]

(* An end that tells the caller which failure it was, and one that tells him *)
(* of a lost try.                                                            *)
EndTells ==
  /\ Ends
  /\ t'.pc = "idle" /\ t.mode = "can" => CanTold(ret'.rc, kind')
  /\ t'.pc = "context" /\ t.mode = "can" => kind' = None
EndTellsTry ==
  /\ EndTells /\ t'.pc # "context"
  /\ t'.pc = "idle" => TryTold(ret'.rc, kind', heard')

(* The thread after its attempt has ended. *)
LEMMA EndsFields ==
    ASSUME DOMAIN t = ThreadFields, Ends
    PROVE  /\ DOMAIN t' = ThreadFields /\ t'.pc \in {"idle", "context", "dead"}
           /\ t'.mode = t.mode /\ t'.secret = t.secret
           /\ t'.attempt \in Nat /\ t'.polls \in Nat /\ t'.reader = 1 /\ t'.i = 1
           /\ t'.level = 1 /\ t'.f = 1 /\ t'.chan = NoChan /\ t'.out = <<>> /\ t'.got = NoFiles
           /\ t'.damaged = FALSE /\ t'.unsupported = FALSE /\ t'.resetRequired = FALSE
  <1>1. PICK q \in {"idle", "dead"}, n \in Nat, p \in Nat :
          t' = Attempt(n, p) \/ t' = [Attempt(n, p) EXCEPT !.pc = q]
    BY DEF Ends
  <1>2. CASE t' = Attempt(n, p)
    BY <1>2 DEF Attempt, ThreadFields
  <1>3. CASE t' = [Attempt(n, p) EXCEPT !.pc = q]
    BY <1>3 DEF Attempt, ThreadFields
  <1> QED BY <1>1, <1>2, <1>3

(* What a call that returns tells, of a wrong secret and of a try. *)
LEMMA OnceTells ==
    ASSUME TypeInv, NEW rc, NEW k, OnceReturns(rc, k),
           t.mode = "can" => CanTold(rc, k),
           t.mode = "can" /\ rc \in {"TOKEN_NOT_RECOGNIZED", "TOKEN_NOT_PRESENT"} => k = None
    PROVE  /\ EndTells
           /\ rc = "PIN_INCORRECT" => EndTellsTry
           /\ rc = "GENERAL_ERROR" /\ t.mode = "can" /\ heard' = "damaged" => EndTellsTry
  <1>1. CASE Return(rc, NoFiles)
    <2>1. /\ t' = [Attempt(1, 0) EXCEPT !.pc = "idle"]
          /\ ret' = [rc |-> rc, data |-> NoFiles] /\ kind' = k
      BY <1>1 DEF Return, OnceReturns
    <2>2. Ends
      BY <2>1 DEF Ends
    <2>3. t'.pc = "idle"
      BY <2>1 DEF Attempt, TypeInv, ThreadFields
    <2>4. ret'.rc = rc
      BY <2>1
    <2>5. EndTells
      BY <2>1, <2>2, <2>3, <2>4 DEF EndTells
    <2>6. ASSUME rc = "PIN_INCORRECT" PROVE TryTold(ret'.rc, kind', heard')
      BY <2>1, <2>4, <2>6 DEF TryTold, CanTold
    <2>7. ASSUME rc = "GENERAL_ERROR", t.mode = "can", heard' = "damaged"
          PROVE  TryTold(ret'.rc, kind', heard')
      BY <2>4, <2>7 DEF TryTold
    <2> QED BY <2>3, <2>5, <2>6, <2>7 DEF EndTellsTry
  <1>2. CASE t' = Attempt(t.attempt, t.polls + 1)
             /\ rc \in {"TOKEN_NOT_RECOGNIZED", "TOKEN_NOT_PRESENT"}
    <2>2. Ends
      BY <1>2 DEF Ends, TypeInv
    <2>3. t'.pc = "context"
      BY <1>2 DEF Attempt, TypeInv, ThreadFields
    <2>4. kind' = k
      BY DEF OnceReturns
    <2> QED BY <1>2, <2>2, <2>3, <2>4 DEF EndTells
  <1> QED BY <1>1, <1>2 DEF OnceReturns

(* What a call tells that gives up or tries again after a link error. *)
LEMMA RetryTells ==
    ASSUME TypeInv, ToldInv, t.pc \notin {"idle", "dead"}, NEW b \in BOOLEAN,
           RetryOnCardLinkError(b)
    PROVE  EndTells /\ (~b => EndTellsTry)
  <1>1. CASE Return("DEVICE_ERROR", NoFiles) /\ kind' = "CARD_COMMUNICATION"
    <2>1. /\ t' = [Attempt(1, 0) EXCEPT !.pc = "idle"]
          /\ ret' = [rc |-> "DEVICE_ERROR", data |-> NoFiles]
      BY <1>1 DEF Return
    <2>2. Ends
      BY <2>1 DEF Ends
    <2>3. t'.pc = "idle"
      BY <2>1 DEF Attempt, TypeInv, ThreadFields
    <2>4. ret'.rc = "DEVICE_ERROR"
      BY <2>1
    <2>5. CanTold(ret'.rc, kind') /\ TryTold(ret'.rc, kind', heard')
      BY <1>1, <2>4 DEF CanTold, TryTold, None
    <2> QED BY <2>2, <2>3, <2>5 DEF EndTells, EndTellsTry
  <1>2. CASE b /\ t' = Attempt(t.attempt + 1, 0) /\ kind' = kind
    <2>1. t.attempt + 1 \in Nat /\ 0 \in Nat
      BY DEF TypeInv
    <2>2. Ends
      BY <1>2, <2>1 DEF Ends
    <2>3. t'.pc = "context"
      BY <1>2 DEF Attempt, TypeInv, ThreadFields
    <2>4. t.mode = "can" => kind' = None
      BY <1>2 DEF ToldInv
    <2> QED BY <1>2, <2>2, <2>3, <2>4 DEF EndTells
  <1> QED BY <1>1, <1>2 DEF RetryOnCardLinkError

(* What a call tells that ends in a link error. *)
LEMMA LinkErrorTells ==
    ASSUME TypeInv, ToldInv, t.pc \notin {"idle", "dead"}, failFromLinkError
    PROVE  EndTells
  <1>1. CASE t' = [Attempt(1, 0) EXCEPT !.pc = "dead"]
    <2>1. Ends
      BY <1>1 DEF Ends
    <2>2. t'.pc = "dead"
      BY <1>1 DEF Attempt, TypeInv, ThreadFields
    <2> QED BY <2>1, <2>2 DEF EndTells
  <1>2. CASE RetryOnCardLinkError(TRUE)
    BY <1>2, RetryTells
  <1> QED BY <1>1, <1>2 DEF failFromLinkError

(* The cards at such an end: at most one try was lost, and then it is told. *)
EndChips ==
  /\ DOMAIN chip' = Readers
  /\ \A r \in Readers : /\ IsChip(chip'[r]) /\ chip'[r].hidden \in {0, Chip[r].hides}
                        /\ t.mode = "can" => ~chip'[r].dropped
  /\ \/ \A r \in Readers : chip'[r].charged = 0
     \/ EndTellsTry /\ \A r \in Readers : chip'[r].charged \in {0, 1}

(* Such an end keeps the invariant. *)
LEMMA EndInv ==
    ASSUME ChipInv, t.pc \notin {"idle", "dead"}, EndTells, EndChips, faults' \in Nat
    PROVE  ChipInv'
  <1>1. /\ DOMAIN t' = ThreadFields /\ t'.pc \in {"idle", "context", "dead"}
        /\ t'.mode = t.mode /\ t'.secret = t.secret
        /\ t'.attempt \in Nat /\ t'.polls \in Nat /\ t'.reader = 1 /\ t'.i = 1
        /\ t'.level = 1 /\ t'.f = 1 /\ t'.chan = NoChan /\ t'.out = <<>> /\ t'.got = NoFiles
        /\ t'.damaged = FALSE /\ t'.unsupported = FALSE /\ t'.resetRequired = FALSE
    BY EndsFields DEF EndTells, ChipInv, TypeInv
  <1>2. IsChannel(NoChan)
    BY DEF IsChannel, NoChan, Keys
  <1>3. TypeInv'
    <2>1. t.mode \in {"can", "pin"} /\ t.secret \in Secrets
      BY DEF ChipInv, TypeInv
    <2>2. DOMAIN chip' = Readers /\ \A r \in Readers : IsChip(chip'[r])
      BY DEF EndChips
    <2>3. t'.pc \in Outside \cup {"access"} \cup Active
      BY <1>1 DEF Outside
    <2>4. IsChannel(t'.chan)
      BY <1>1, <1>2
    <2>5. /\ t'.attempt \in Nat /\ t'.polls \in Nat /\ t'.reader \in Nat \ {0} /\ t'.i \in Nat \ {0}
          /\ t'.level \in {1, 2, 3} /\ t'.f \in {1, 2}
      BY <1>1
    <2>7. t'.damaged \in BOOLEAN /\ t'.unsupported \in BOOLEAN /\ t'.resetRequired \in BOOLEAN
      BY <1>1, Zenon
    <2>6. DOMAIN t' = ThreadFields /\ t'.mode \in {"can", "pin"} /\ t'.secret \in Secrets
      BY <1>1, <2>1
    <2> QED BY <2>2, <2>3, <2>4, <2>5, <2>6, <2>7 DEF TypeInv
  <1>4. PlaceInv'
    <2>1. t.secret \in IF t.mode = "can" THEN CANs ELSE PINs
      BY DEF ChipInv, PlaceInv
    <2> QED BY <1>1, <2>1 DEF PlaceInv, Active, Reading
  <1>5. KeyInv'
    <2>1. t'.pc \notin Active \cup {"access"}
      BY <1>1 DEF Active, Reading
    <2>2. t.mode = "can" => \A r \in Readers : ~chip'[r].dropped
      BY DEF EndChips
    <2> QED BY <1>1, <2>1, <2>2 DEF KeyInv
  <1>6. ChargeInv'
    BY <1>1 DEF ChargeInv, EndChips, EndTellsTry
  <1>7. ToldInv'
    BY <1>1 DEF ToldInv, EndChips, EndTells
  <1>8. ChargedIsTold'
    <2> SUFFICES ASSUME t'.pc = "idle", NEW r \in Readers, chip'[r].charged > 0
                 PROVE  TryTold(ret'.rc, kind', heard')
      BY <1>1 DEF ChargedIsTold, TryTold
    <2> QED BY DEF EndChips, EndTellsTry
  <1>9. FailureModesTold'
    BY <1>1 DEF FailureModesTold, EndTells, CanTold
  <1> QED BY <1>3, <1>4, <1>5, <1>6, <1>7, <1>8, <1>9 DEF ChipInv, OutcomeTold

(* The state of the card on the current reader is replaced. *)
LEMMA ChipReplaced ==
    ASSUME TypeInv, t.reader \in Readers, NEW d, IsChip(d), chip' = [chip EXCEPT ![t.reader] = d]
    PROVE  /\ DOMAIN chip' = Readers /\ \A r \in Readers : IsChip(chip'[r])
           /\ chip'[t.reader] = d
           /\ \A r \in Readers \ {t.reader} : chip'[r] = chip[r]
  BY DEF TypeInv

(* The connection is closed, and the card as it is then. *)
LEMMA ClosedTyped ==
    ASSUME NEW c, IsChip(c)
    PROVE  /\ IsChip(Closed(c)) /\ Closed(c).charged = c.charged /\ Closed(c).dropped = c.dropped
           /\ Closed(c).hidden \in {0, c.hidden}
  BY PoweredTyped DEF Closed

(* The chips when a call ends, one of them as its last command left it. *)
LEMMA LeftChips ==
    ASSUME ChipInv, t.pc \notin {"idle", "dead"}, t.reader \in Readers, NEW c, IsChip(c),
           Left(c) \/ chip' = [chip EXCEPT ![t.reader] = c],
           c.hidden \in {0, chip[t.reader].hidden, Chip[t.reader].hides},
           t.mode = "can" => ~c.dropped,
           c.charged = 0 \/ (c.charged = 1 /\ EndTellsTry)
    PROVE  EndChips
  <1>1. PICK d : /\ chip' = [chip EXCEPT ![t.reader] = d] /\ IsChip(d)
                 /\ d.charged = c.charged /\ d.dropped = c.dropped /\ d.hidden \in {0, c.hidden}
    <2>1. CASE Left(c)
      BY <2>1, ClosedTyped DEF Left
    <2>2. CASE chip' = [chip EXCEPT ![t.reader] = c]
      BY <2>2
    <2> QED BY <2>1, <2>2
  <1>2. /\ DOMAIN chip' = Readers /\ \A r \in Readers : IsChip(chip'[r])
        /\ chip'[t.reader] = d
        /\ \A r \in Readers \ {t.reader} : chip'[r] = chip[r]
    BY <1>1, ChipReplaced DEF ChipInv
  <1>3. \A r \in Readers : chip[r].charged = 0 /\ chip[r].hidden \in {0, Chip[r].hides}
    BY DEF ChipInv, ChargeInv, ToldInv
  <1>4. t.mode = "can" => \A r \in Readers : ~chip[r].dropped
    BY DEF ChipInv, KeyInv
  <1>5. ASSUME NEW r \in Readers
        PROVE /\ IsChip(chip'[r]) /\ chip'[r].hidden \in {0, Chip[r].hides}
              /\ t.mode = "can" => ~chip'[r].dropped
              /\ chip'[r].charged = 0 \/ (r = t.reader /\ chip'[r].charged = c.charged)
    <2>1. CASE r = t.reader
      BY <1>1, <1>2, <1>3, <2>1
    <2>2. CASE r # t.reader
      BY <1>2, <1>3, <1>4, <2>2
    <2> QED BY <2>1, <2>2
  <1> QED BY <1>2, <1>5 DEF EndChips

----------------------------------------------------------------------------
(* The steps that go on with the attempt. *)

Moves ==
  /\ DOMAIN t' = ThreadFields /\ t'.mode = t.mode /\ t'.secret = t.secret
  /\ t'.attempt = t.attempt /\ t'.polls = t.polls
  /\ t'.pc \in {"reader", "access"} \cup Active
  /\ t'.reader \in Nat \ {0} /\ t'.i \in Nat \ {0} /\ t'.level \in {1, 2, 3} /\ t'.f \in {1, 2}
  /\ IsChannel(t'.chan)
  /\ t'.damaged \in BOOLEAN /\ t'.unsupported \in BOOLEAN /\ t'.resetRequired \in BOOLEAN
  /\ kind' = kind /\ faults' \in Nat
MoveChips ==
  /\ DOMAIN chip' = Readers
  /\ \A r \in Readers : /\ IsChip(chip'[r]) /\ chip'[r].hidden \in {0, Chip[r].hides}
                        /\ t.mode = "can" => ~chip'[r].dropped
                        /\ chip'[r].charged = 0

(* A step inside an attempt, put together from its parts. *)
LEMMA MoveInv ==
    ASSUME ChipInv, t.pc \notin {"idle", "dead"}, Moves, MoveChips, PlaceInv',
           t'.pc \in Active \cup {"access"} => IF t'.mode = "can" THEN CanKeys' ELSE PinKeys',
           t'.pc \in Active /\ t'.chan.key # NoKey /\ chip'[t'.reader].key = t'.chan.key
           => chip'[t'.reader].ssc = t'.chan.ssc,
           t'.resetRequired => \E r \in Readers : ~Chip[r].access \/ Chip[r].hides > 2,
           t'.pc = "access" /\ t'.level > 1
           => chip'[t'.reader].hidden = 0 \/ chip'[t'.reader].hidden > 2
    PROVE  ChipInv'
  <1>1. t'.pc \notin {"idle", "dead"}
    BY DEF Moves, Active, Reading
  <1>2. TypeInv'
    <2>1. t.mode \in {"can", "pin"} /\ t.secret \in Secrets /\ t.attempt \in Nat /\ t.polls \in Nat
      BY DEF ChipInv, TypeInv
    <2>2. DOMAIN chip' = Readers /\ \A r \in Readers : IsChip(chip'[r])
      BY DEF MoveChips
    <2>3. t'.pc \in Outside \cup {"access"} \cup Active
      BY DEF Outside, Moves
    <2>4. /\ DOMAIN t' = ThreadFields /\ t'.mode \in {"can", "pin"} /\ t'.secret \in Secrets
          /\ t'.attempt \in Nat /\ t'.polls \in Nat
      BY <2>1 DEF Moves
    <2> QED BY <2>2, <2>3, <2>4 DEF TypeInv, Moves
  <1>3. KeyInv'
    <2>1. t'.mode = "can" => \A r \in Readers : ~chip'[r].dropped
      BY DEF MoveChips, Moves
    <2> QED BY <2>1 DEF KeyInv
  <1>4. ChargeInv'
    BY DEF ChargeInv, MoveChips
  <1>5. ToldInv'
    <2>1. t'.mode = "can" => kind' = None
      BY DEF ChipInv, ToldInv, Moves
    <2>2. \A r \in Readers : chip'[r].hidden \in {0, Chip[r].hides}
      BY DEF MoveChips
    <2> QED BY <2>1, <2>2 DEF ToldInv
  <1>6. OutcomeTold'
    BY <1>1 DEF OutcomeTold, ChargedIsTold, FailureModesTold
  <1> QED BY <1>2, <1>3, <1>4, <1>5, <1>6 DEF ChipInv

(* The chips after a step that charged nothing. *)
LEMMA StayChips ==
    ASSUME ChipInv, t.pc \notin {"idle", "dead"}, t.reader \in Readers, NEW c, IsChip(c),
           Left(c) \/ chip' = [chip EXCEPT ![t.reader] = c],
           c.hidden \in {0, chip[t.reader].hidden, Chip[t.reader].hides},
           t.mode = "can" => ~c.dropped, c.charged = 0
    PROVE  MoveChips /\ EndChips
  <1>1. PICK d : /\ chip' = [chip EXCEPT ![t.reader] = d] /\ IsChip(d)
                 /\ d.charged = c.charged /\ d.dropped = c.dropped /\ d.hidden \in {0, c.hidden}
    <2>1. CASE Left(c)
      BY <2>1, ClosedTyped DEF Left
    <2>2. CASE chip' = [chip EXCEPT ![t.reader] = c]
      BY <2>2
    <2> QED BY <2>1, <2>2
  <1>2. EndChips
    BY LeftChips
  <1>3. /\ chip'[t.reader] = d
        /\ \A r \in Readers \ {t.reader} : chip'[r] = chip[r]
    BY <1>1, ChipReplaced DEF ChipInv
  <1>4. \A r \in Readers : chip[r].charged = 0
    BY DEF ChipInv, ChargeInv
  <1>5. \A r \in Readers : chip'[r].charged = 0
    BY <1>1, <1>3, <1>4
  <1> QED BY <1>2, <1>5 DEF EndChips, MoveChips

(* The chips after a step that touched none. *)
LEMMA SameChips ==
    ASSUME ChipInv, t.pc \notin {"idle", "dead"}, DOMAIN chip' = DOMAIN chip,
           \A r \in Readers : chip'[r] = chip[r]
    PROVE  MoveChips /\ EndChips
  <1>1. \A r \in Readers : chip[r].charged = 0 /\ chip[r].hidden \in {0, Chip[r].hides}
    BY DEF ChipInv, ChargeInv, ToldInv
  <1>2. t.mode = "can" => \A r \in Readers : ~chip[r].dropped
    BY DEF ChipInv, KeyInv
  <1>3. DOMAIN chip = Readers /\ \A r \in Readers : IsChip(chip[r])
    BY DEF ChipInv, TypeInv
  <1>4. MoveChips
    BY <1>1, <1>2, <1>3 DEF MoveChips
  <1> QED BY <1>4 DEF MoveChips, EndChips

----------------------------------------------------------------------------
(* The calls and the readers. *)

(* The invariant holds at the start. *)
LEMMA InitInv == Init => ChipInv
  <1> SUFFICES ASSUME Init PROVE ChipInv
    OBVIOUS
  <1>1. IsChannel(NoChan) /\ NoKey \in Keys
    BY DEF IsChannel, NoChan, Keys
  <1>2. /\ DOMAIN chip = Readers
        /\ \A r \in Readers : IsChip(chip[r]) /\ chip[r].charged = 0 /\ chip[r].hidden = 0
    <2>1. DOMAIN chip = Readers
      BY DEF Init
    <2>2. ASSUME NEW r \in Readers
          PROVE IsChip(chip[r]) /\ chip[r].charged = 0 /\ chip[r].hidden = 0
      <3> DEFINE c == chip[r]
      <3>1. c = [key |-> NoKey, ssc |-> 0, stage |-> 0, verified |-> FALSE, charged |-> 0,
                 dropped |-> FALSE, hidden |-> 0]
        BY DEF Init
      <3> HIDE DEF c
      <3>2. DOMAIN c = ChipFields /\ c.key = NoKey /\ c.ssc = 0 /\ c.stage = 0 /\ c.charged = 0
            /\ c.hidden = 0
        BY <3>1 DEF ChipFields
      <3>3. c.verified = FALSE /\ c.dropped = FALSE
        BY <3>1
      <3>4. c.verified \in BOOLEAN /\ c.dropped \in BOOLEAN
        BY <3>3, Zenon
      <3> QED BY <1>1, <3>2, <3>4 DEF IsChip, c
    <2> QED BY <2>1, <2>2
  <1>3. \A r \in Readers : chip[r].dropped = FALSE
    BY DEF Init
  <1>4. /\ DOMAIN t = ThreadFields /\ t.pc = "idle" /\ t.mode = "can" /\ t.secret = Malformed
        /\ t.attempt = 1 /\ t.polls = 0 /\ t.reader = 1 /\ t.i = 1 /\ t.level = 1 /\ t.f = 1
        /\ t.chan = NoChan
    BY DEF Init, ThreadFields
  <1>5. t.damaged = FALSE /\ t.unsupported = FALSE /\ t.resetRequired = FALSE
    BY DEF Init
  <1>6. TypeInv
    <2>1. t.damaged \in BOOLEAN /\ t.unsupported \in BOOLEAN /\ t.resetRequired \in BOOLEAN
      BY <1>5, Zenon
    <2>2. faults \in Nat
      BY DEF Init
    <2> QED BY <1>1, <1>2, <1>4, <2>1, <2>2 DEF TypeInv, Outside, Secrets
  <1>7. PlaceInv
    BY <1>4, <1>5 DEF PlaceInv, Active, Reading
  <1>8. KeyInv
    BY <1>3, <1>4 DEF KeyInv, Active, Reading
  <1>9. ChargeInv
    BY <1>2 DEF ChargeInv
  <1>10. ToldInv
    <2>1. kind = None
      BY DEF Init
    <2> QED BY <1>2, <1>4, <1>5, <2>1 DEF ToldInv
  <1>11. OutcomeTold
    BY <1>2 DEF Init, OutcomeTold, ChargedIsTold, FailureModesTold
  <1> QED BY <1>6, <1>7, <1>8, <1>9, <1>10, <1>11 DEF ChipInv

(* A call: nothing is charged yet. *)
LEMMA CallInv ==
    ASSUME ChipInv, NEW mode \in {"can", "pin"},
           NEW secret \in (IF mode = "can" THEN CANs ELSE PINs) \cup {Malformed}, Call(mode, secret)
    PROVE  ChipInv'
  <1>1. /\ DOMAIN chip' = Readers
        /\ \A r \in Readers : /\ IsChip(chip'[r]) /\ chip'[r].charged = 0
                              /\ chip'[r].hidden = chip[r].hidden
    BY DEF Call, IsChip, ChipFields, ChipInv, TypeInv
  <1>2. \A r \in Readers : chip'[r].dropped = FALSE
    BY DEF Call, IsChip, ChipFields, ChipInv, TypeInv
  <1>3. \A r \in Readers : chip'[r].hidden \in {0, Chip[r].hides}
    BY <1>1 DEF ChipInv, ToldInv
  <1>4. t.pc = "idle" /\ kind' = (IF mode = "can" THEN None ELSE kind) /\ faults' = faults
    BY DEF Call
  <1>5. ChargeInv'
    BY <1>1 DEF ChargeInv
  <1>6. secret \in Secrets /\ IsChannel(NoChan)
    BY DEF Secrets, IsChannel, NoChan, Keys
  <1> DEFINE Fields ==
        /\ DOMAIN t' = ThreadFields /\ t'.mode = mode /\ t'.secret = secret
        /\ t'.attempt \in Nat /\ t'.polls \in Nat /\ t'.reader \in Nat \ {0} /\ t'.i = 1
        /\ t'.level \in {1, 2, 3} /\ t'.f \in {1, 2} /\ t'.chan = NoChan
             Flags ==
        /\ t'.damaged = FALSE /\ t'.unsupported \in BOOLEAN /\ t'.resetRequired \in BOOLEAN
        /\ t'.resetRequired => \E r \in Readers : ~Chip[r].access \/ Chip[r].hides > 2
  <1>7. t.damaged = FALSE /\ t.chan = NoChan /\ t.i = 1
    BY <1>4 DEF ChipInv, PlaceInv, Active, Reading
  <1>8. ASSUME t' = [t EXCEPT !.mode = mode, !.secret = secret]
        PROVE  Fields /\ Flags /\ t'.pc = "idle"
    <2>1. Fields /\ t'.pc = "idle"
      BY <1>4, <1>7, <1>8 DEF ChipInv, TypeInv, ThreadFields
    <2>2. t'.damaged = t.damaged /\ t'.unsupported = t.unsupported /\ t'.resetRequired = t.resetRequired
      BY <1>8 DEF ChipInv, TypeInv, ThreadFields
    <2>3. Flags
      BY <1>7, <2>2, Zenon DEF ChipInv, TypeInv, ToldInv
    <2> QED BY <2>1, <2>3
  <1>9. ASSUME t' = [Attempt(1, 0) EXCEPT !.mode = mode, !.secret = secret]
        PROVE  Fields /\ Flags /\ t'.pc = "context" /\ t'.level = 1
    <2>1. Fields /\ t'.pc = "context" /\ t'.level = 1
      <3>1. DOMAIN t = ThreadFields
        BY DEF ChipInv, TypeInv
      <3> DEFINE a == Attempt(1, 0)
      <3>2. /\ DOMAIN a = ThreadFields /\ a.pc = "context" /\ a.attempt = 1 /\ a.polls = 0
            /\ a.reader = 1 /\ a.i = 1 /\ a.level = 1 /\ a.f = 1 /\ a.chan = NoChan
        BY <3>1 DEF ThreadFields, Attempt
      <3> HIDE DEF a
      <3>3. t' = [a EXCEPT !.mode = mode, !.secret = secret]
        BY <1>9 DEF a
      <3>4. /\ DOMAIN t' = ThreadFields /\ t'.pc = "context" /\ t'.mode = mode /\ t'.secret = secret
            /\ t'.attempt = 1 /\ t'.polls = 0 /\ t'.reader = 1 /\ t'.i = 1 /\ t'.level = 1
            /\ t'.f = 1 /\ t'.chan = NoChan
        BY <3>2, <3>3 DEF ThreadFields
      <3> QED BY <3>4
    <2>2. t'.damaged = FALSE /\ t'.unsupported = FALSE /\ t'.resetRequired = FALSE
      BY <1>9 DEF ChipInv, TypeInv, ThreadFields, Attempt
    <2>3. Flags
      BY <2>2, Zenon
    <2> QED BY <2>1, <2>3
  <1>10. Fields /\ Flags /\ t'.pc \in {"idle", "context"} /\ (t'.pc = "context" => t'.level = 1)
    BY <1>8, <1>9 DEF Call
  <1> HIDE DEF Fields, Flags
  <1>11. TypeInv'
    <2>1. /\ t'.damaged \in BOOLEAN /\ t'.unsupported \in BOOLEAN /\ t'.resetRequired \in BOOLEAN
      BY <1>10, Zenon DEF Flags
    <2>2. faults \in Nat
      BY DEF ChipInv, TypeInv
    <2>3. t'.pc \in Outside \cup {"access"} \cup Active
      BY <1>10 DEF Outside
    <2> QED BY <1>1, <1>4, <1>6, <1>10, <2>1, <2>2, <2>3 DEF TypeInv, Fields
  <1>12. PlaceInv'
    <2>1. t'.pc = "context" => secret # Malformed
      <3>1. secret = Malformed => t' = [t EXCEPT !.mode = mode, !.secret = secret]
        BY DEF Call
      <3> QED BY <1>8, <3>1
    <2>2. t'.pc \notin Active \cup {"script", "access"}
      BY <1>10 DEF Active, Reading
    <2>3. /\ t'.pc \notin {"idle", "dead"} => t'.secret \in IF t'.mode = "can" THEN CANs ELSE PINs
          /\ t'.chan = NoChan /\ t'.i = 1
      BY <1>10, <2>1 DEF Fields
    <2>4. t'.damaged = FALSE
      BY <1>10 DEF Flags
    <2>5. t'.pc \in {"context", "reader"} => t'.level = 1
      BY <1>10
    <2> QED BY <2>2, <2>3, <2>4, <2>5 DEF PlaceInv
  <1>13. KeyInv'
    BY <1>2, <1>10 DEF KeyInv, Active, Reading
  <1>14. ToldInv'
    <2>1. t'.mode = "can" => kind' = None
      BY <1>4, <1>10 DEF Fields
    <2>2. t'.resetRequired => \E r \in Readers : ~Chip[r].access \/ Chip[r].hides > 2
      BY <1>10 DEF Flags
    <2>3. t'.pc # "access"
      BY <1>10
    <2> QED BY <1>3, <2>1, <2>2, <2>3 DEF ToldInv
  <1>15. ChargedIsTold'
    BY <1>1 DEF ChargedIsTold
  <1>16. FailureModesTold'
    <2> SUFFICES ASSUME t'.pc = "idle", t'.mode = "can", ret'.rc # None
                 PROVE  CanTold(ret'.rc, kind')
      BY DEF FailureModesTold, CanTold
    <2>1. mode = "can" /\ kind' = None
      BY <1>4, <1>10 DEF Fields
    <2>2. ret'.rc = "ARGUMENTS_BAD"
      <3>1. secret # Malformed => t' = [Attempt(1, 0) EXCEPT !.mode = mode, !.secret = secret]
        BY DEF Call
      <3>2. secret = Malformed
        BY <1>9, <3>1
      <3>3. ret' = [rc |-> IF mode = "can" THEN "ARGUMENTS_BAD" ELSE "PIN_LEN_RANGE",
                    data |-> NoFiles]
        BY <3>2, Zenon DEF Call
      <3> QED BY <2>1, <3>3
    <2> QED BY <2>1, <2>2 DEF CanTold, None
  <1> QED BY <1>5, <1>11, <1>12, <1>13, <1>14, <1>15, <1>16 DEF ChipInv, OutcomeTold

(* Going to a reader: the channel is still closed. *)
LEMMA ReaderInv ==
    ASSUME ChipInv, t.pc \in {"context", "reader", "access"}, Moves, MoveChips,
           t'.pc = "reader", t'.chan = t.chan, t'.damaged = t.damaged, t'.i = 1,
           t'.level = 1, t'.resetRequired => \E r \in Readers : ~Chip[r].access \/ Chip[r].hides > 2
    PROVE  ChipInv'
  <1>1. t.chan = NoChan /\ t.i = 1 /\ t.secret \in IF t.mode = "can" THEN CANs ELSE PINs
    BY DEF ChipInv, PlaceInv, Active, Reading
  <1>2. t.damaged = FALSE
    BY DEF ChipInv, PlaceInv, Active, Reading
  <1>3. t'.pc \notin Active \cup {"access", "script"}
    BY DEF Active, Reading
  <1>4. PlaceInv'
    BY <1>1, <1>2, <1>3 DEF PlaceInv, Moves
  <1> QED BY <1>3, <1>4, MoveInv

(* Going on to the next reader. *)
LEMMA NextReaderInv ==
    ASSUME ChipInv, t.pc \in {"reader", "access"}, MoveChips, faults' \in Nat,
           NEW step, NextReader(step),
           \/ step = t
           \/ step = [t EXCEPT !.unsupported = TRUE]
           \/ /\ step = [t EXCEPT !.resetRequired = TRUE]
              /\ \E r \in Readers : ~Chip[r].access \/ Chip[r].hides > 2
    PROVE  ChipInv'
  <1>1. t' = [step EXCEPT !.pc = "reader", !.reader = @ + 1, !.i = 1, !.level = 1] /\ kind' = kind
    BY DEF NextReader, Goes
  <1>2. /\ DOMAIN step = ThreadFields /\ step.mode = t.mode /\ step.secret = t.secret
        /\ step.attempt = t.attempt /\ step.polls = t.polls /\ step.reader = t.reader
        /\ step.f = t.f /\ step.chan = t.chan
    BY DEF ChipInv, TypeInv, ThreadFields
  <1>3. /\ step.damaged = t.damaged /\ step.unsupported \in BOOLEAN /\ step.resetRequired \in BOOLEAN
        /\ step.resetRequired => \E r \in Readers : ~Chip[r].access \/ Chip[r].hides > 2
    <2>1. t.unsupported \in BOOLEAN /\ t.resetRequired \in BOOLEAN
      BY DEF ChipInv, TypeInv
    <2>2. t.resetRequired => \E r \in Readers : ~Chip[r].access \/ Chip[r].hides > 2
      BY DEF ChipInv, ToldInv
    <2>3. DOMAIN t = ThreadFields
      BY DEF ChipInv, TypeInv
    <2>4. CASE step = t
      BY <2>1, <2>2, <2>4
    <2>5. CASE step = [t EXCEPT !.unsupported = TRUE]
      <3>1. step.damaged = t.damaged /\ step.unsupported = TRUE /\ step.resetRequired = t.resetRequired
        BY <2>3, <2>5 DEF ThreadFields
      <3> QED BY <2>1, <2>2, <3>1
    <2>6. CASE /\ step = [t EXCEPT !.resetRequired = TRUE]
               /\ \E r \in Readers : ~Chip[r].access \/ Chip[r].hides > 2
      <3>1. step.damaged = t.damaged /\ step.unsupported = t.unsupported /\ step.resetRequired = TRUE
        BY <2>3, <2>6 DEF ThreadFields
      <3> QED BY <2>1, <2>6, <3>1
    <2> QED BY <2>4, <2>5, <2>6
  <1>4. /\ DOMAIN t' = ThreadFields /\ t'.mode = t.mode /\ t'.secret = t.secret
        /\ t'.attempt = t.attempt /\ t'.polls = t.polls /\ t'.pc = "reader"
        /\ t'.reader = t.reader + 1 /\ t'.i = 1 /\ t'.level = 1 /\ t'.f = t.f /\ t'.chan = t.chan
    BY <1>1, <1>2 DEF ThreadFields
  <1>5. /\ t'.damaged = step.damaged /\ t'.unsupported = step.unsupported
        /\ t'.resetRequired = step.resetRequired
    BY <1>1, <1>2 DEF ThreadFields
  <1>6. t.reader \in Nat \ {0} /\ t.f \in {1, 2} /\ IsChannel(t.chan) /\ t.damaged \in BOOLEAN
    BY DEF ChipInv, TypeInv
  <1>7. Moves
    <2>1. t'.damaged \in BOOLEAN /\ t'.unsupported \in BOOLEAN /\ t'.resetRequired \in BOOLEAN
      BY <1>3, <1>5, <1>6
    <2> QED BY <1>1, <1>4, <1>6, <2>1 DEF Moves
  <1> QED BY <1>3, <1>4, <1>5, <1>7, ReaderInv

(* The start of an attempt. *)
LEMMA EstablishContextInv ==
    ASSUME ChipInv, EstablishContext PROVE ChipInv'
  <1>1. t.pc = "context" /\ chip' = chip
    BY DEF EstablishContext
  <1>2. MoveChips /\ EndChips
    BY <1>1, SameChips
  <1>3. faults' \in Nat
    BY DEF EstablishContext, ChipInv, TypeInv
  <1>4. CASE Goes([t EXCEPT !.pc = "reader"])
    <2>1. t' = [t EXCEPT !.pc = "reader"] /\ kind' = kind
      BY <1>4 DEF Goes
    <2>2. TypeInv
      BY DEF ChipInv
    <2>3. /\ DOMAIN t' = ThreadFields /\ t'.mode = t.mode /\ t'.secret = t.secret
          /\ t'.attempt = t.attempt /\ t'.polls = t.polls /\ t'.pc = "reader"
          /\ t'.reader = t.reader /\ t'.i = t.i /\ t'.level = t.level /\ t'.f = t.f
          /\ t'.chan = t.chan
      BY <2>1, <2>2 DEF TypeInv, ThreadFields
    <2>4. /\ t'.damaged = t.damaged /\ t'.unsupported = t.unsupported
          /\ t'.resetRequired = t.resetRequired
      BY <2>1, <2>2 DEF TypeInv, ThreadFields
    <2>5. Moves
      <3>1. t'.damaged \in BOOLEAN /\ t'.unsupported \in BOOLEAN /\ t'.resetRequired \in BOOLEAN
        BY <2>2, <2>4 DEF TypeInv
      <3> QED BY <1>3, <2>1, <2>2, <2>3, <3>1 DEF Moves, TypeInv
    <2>6. t'.resetRequired => \E r \in Readers : ~Chip[r].access \/ Chip[r].hides > 2
      BY <2>4 DEF ChipInv, ToldInv
    <2>7. t.i = 1 /\ t.level = 1
      BY <1>1 DEF ChipInv, PlaceInv, Active, Reading
    <2> QED BY <1>1, <1>2, <2>3, <2>4, <2>5, <2>6, <2>7, ReaderInv
  <1>5. CASE OnceReturns("DEVICE_ERROR", kind) \/ OnceReturns("TOKEN_NOT_PRESENT", kind)
    <2>1. t.mode = "can" => kind = None
      BY <1>1 DEF ChipInv, ToldInv
    <2>2. t.mode = "can" => CanTold("DEVICE_ERROR", kind) /\ CanTold("TOKEN_NOT_PRESENT", kind)
      BY <2>1 DEF CanTold, None
    <2>3. EndTells
      BY <1>5, <2>1, <2>2, OnceTells DEF ChipInv
    <2> QED BY <1>1, <1>2, <1>3, <2>3, EndInv
  <1> QED BY <1>4, <1>5 DEF EstablishContext

(* No reader is left: the attempt ends. *)
LEMMA EndOfReadersInv ==
    ASSUME ChipInv, EndOfReaders PROVE ChipInv'
  <1>1. t.pc = "reader" /\ chip' = chip /\ faults' \in Nat
    BY DEF EndOfReaders, ChipInv, TypeInv
  <1>2. EndChips
    BY <1>1, SameChips
  <1>3. TypeInv /\ (t.mode = "can" => kind = None)
    BY <1>1 DEF ChipInv, ToldInv
  <1>4. EndTells
    <2>1. CASE t.mode = "can" /\ t.resetRequired
      <3>1. CanTold("FUNCTION_NOT_SUPPORTED", "CARD_RESET_REQUIRED")
        BY <2>1 DEF CanTold, ChipInv, ToldInv, None
      <3>2. OnceReturns("FUNCTION_NOT_SUPPORTED", "CARD_RESET_REQUIRED")
        BY <2>1 DEF EndOfReaders
      <3> QED BY <1>3, <3>1, <3>2, OnceTells
    <2>2. CASE t.mode = "can" /\ ~t.resetRequired /\ t.unsupported
      <3>1. CanTold("FUNCTION_NOT_SUPPORTED", "UNSUPPORTED_CARD")
        BY DEF CanTold, None
      <3>2. OnceReturns("FUNCTION_NOT_SUPPORTED", "UNSUPPORTED_CARD")
        BY <2>2 DEF EndOfReaders
      <3> QED BY <1>3, <3>1, <3>2, OnceTells
    <2>3. CASE t.mode = "pin" /\ t.unsupported
      <3>1. OnceReturns("TOKEN_NOT_RECOGNIZED", "UNSUPPORTED_CARD")
        BY <2>3 DEF EndOfReaders
      <3> QED BY <1>3, <2>3, <3>1, OnceTells
    <2>4. CASE OnceReturns("TOKEN_NOT_RECOGNIZED", kind)
      <3>1. t.mode = "can" => CanTold("TOKEN_NOT_RECOGNIZED", kind)
        BY <1>3 DEF CanTold, None
      <3> QED BY <1>3, <2>4, <3>1, OnceTells
    <2> QED BY <2>1, <2>2, <2>3, <2>4 DEF EndOfReaders
  <1> QED BY <1>1, <1>2, <1>4, EndInv

(* There is always a first command. *)
LEMMA ScriptLength ==
    ASSUME t.mode \in {"can", "pin"}
    PROVE  Len(Script) \in Nat /\ Len(Script) >= 1 /\ (t.mode = "can" => Len(Script) # 1)
  <1>1. CASE t.mode = "can"
    <2>1. Len(Script) = Parameters(t.reader) + 6 /\ Parameters(t.reader) \in Nat
      BY <1>1, ScriptOfCan
    <2> QED BY <2>1
  <1>2. CASE t.mode = "pin"
    <2>1. Script \in Seq(PinCmds) /\ Has(Script, "get_dh")
      BY <1>2, ScriptOfPin
    <2>2. Len(Script) \in Nat
      BY <2>1
    <2>3. \E i \in 1..Len(Script) : TRUE
      BY <2>1 DEF Has
    <2> QED BY <1>2, <2>2, <2>3
  <1> QED BY <1>1, <1>2

(* The steps within an attempt that change only some of its fields. *)
Keeps ==
  /\ DOMAIN t' = ThreadFields /\ t'.mode = t.mode /\ t'.secret = t.secret
  /\ t'.attempt = t.attempt /\ t'.polls = t.polls /\ t'.reader = t.reader
  /\ t'.unsupported = t.unsupported /\ t'.resetRequired = t.resetRequired
  /\ kind' = kind /\ faults' \in Nat

(* A card is powered, and no session is open. *)
LEMMA OpenInv ==
    ASSUME ChipInv, t.pc \in {"reader", "access"}, t.reader \in Readers, Keeps, MoveChips,
           t'.pc \in {"access", "script"}, t'.chan = t.chan, t'.i = t.i, t'.f = t.f,
           t'.damaged = t.damaged, t'.level \in {1, 2, 3},
           t'.pc = "access" => t.mode = "can",
           chip'[t.reader].key = NoKey, t.mode = "pin" => ~chip'[t.reader].verified,
           t'.pc = "access" /\ t'.level > 1
           => chip'[t.reader].hidden = 0 \/ chip'[t.reader].hidden > 2
    PROVE  ChipInv'
  <1>1. TypeInv
    BY DEF ChipInv
  <1>2. t.chan = NoChan /\ t.i = 1 /\ t.secret \in IF t.mode = "can" THEN CANs ELSE PINs
    BY DEF ChipInv, PlaceInv, Active, Reading
  <1>3. t.damaged = FALSE
    BY DEF ChipInv, PlaceInv, Active, Reading
  <1>4. Moves
    <2>1. t'.damaged \in BOOLEAN /\ t'.unsupported \in BOOLEAN /\ t'.resetRequired \in BOOLEAN
      BY <1>1 DEF Keeps, TypeInv
    <2>2. IsChannel(t'.chan) /\ t'.i \in Nat \ {0} /\ t'.f \in {1, 2} /\ t'.reader \in Nat \ {0}
      BY <1>1 DEF Keeps, TypeInv
    <2>3. t'.pc \in {"reader", "access"} \cup Active
      BY DEF Active
    <2> QED BY <2>1, <2>2, <2>3 DEF Moves, Keeps
  <1>5. Script' = Script /\ LibraryKey(t.secret)' = LibraryKey(t.secret)
    BY SameScript DEF Keeps
  <1>6. Len(Script) \in Nat /\ Len(Script) >= 1
    BY <1>1, ScriptLength DEF TypeInv
  <1>7. PlaceInv'
    BY <1>2, <1>3, <1>5, <1>6 DEF PlaceInv, Keeps, Active
  <1>8. t'.chan.key = NoKey /\ t'.pc \notin Reading /\ chip'[t'.reader].key = NoKey /\ t'.i = 1
    BY <1>2 DEF NoChan, Reading, Keeps
  <1>9. CASE t.mode = "can"
    <2>1. t'.mode = "can"
      BY <1>9 DEF Keeps
    <2>2. Len(Script) # 1
      BY <1>1, <1>9, ScriptLength
    <2>3. CanKeys'
      <3>1. Len(Script') = Len(Script) /\ 1 # Len(Script)
        BY <1>5, <2>2
      <3> QED BY <1>8, <3>1 DEF CanKeys
    <2>4. t'.resetRequired => \E r \in Readers : ~Chip[r].access \/ Chip[r].hides > 2
      BY DEF Keeps, ChipInv, ToldInv
    <2> QED BY <1>4, <1>7, <1>8, <2>1, <2>3, <2>4, MoveInv DEF Keeps
  <1>10. CASE t.mode = "pin"
    <2>1. t'.mode = "pin" /\ t'.reader = t.reader
      BY <1>10 DEF Keeps
    <2>2. PinKeys'
      BY <1>8, <1>10, <2>1 DEF PinKeys
    <2>3. t'.resetRequired => \E r \in Readers : ~Chip[r].access \/ Chip[r].hides > 2
      BY DEF Keeps, ChipInv, ToldInv
    <2>4. t'.mode # "can" /\ t'.pc # "access"
      BY <1>10, <2>1
    <2> QED BY <1>4, <1>7, <1>8, <2>2, <2>3, <2>4, MoveInv
  <1> QED BY <1>1, <1>9, <1>10 DEF TypeInv

(* A reader is connected to, or passed over. *)
LEMMA ConnectReaderInv ==
    ASSUME ChipInv, ConnectReader PROVE ChipInv'
  <1>1. t.pc = "reader" /\ t.reader \in Readers /\ TypeInv /\ ToldInv /\ faults \in Nat
    BY DEF ConnectReader, ChipInv, TypeInv
  <1>2. /\ IsChip(Here) /\ Here.charged = 0 /\ Here.hidden = chip[t.reader].hidden
        /\ t.mode = "can" => ~Here.dropped
    BY <1>1 DEF TypeInv, ChipInv, ChargeInv, KeyInv, Here
  <1>3. CASE NextReader(t) /\ UNCHANGED <<chip, faults>>
    <2>1. MoveChips
      BY <1>1, <1>3, SameChips
    <2> QED BY <1>1, <1>3, <2>1, NextReaderInv
  <1>4. CASE faults' = faults + 1 /\ RetryOnCardLinkError(TRUE) /\ Left(Here)
    <2>1. EndChips
      BY <1>1, <1>2, <1>4, StayChips
    <2>2. EndTells
      BY <1>1, <1>4, RetryTells
    <2> QED BY <1>1, <1>4, <2>1, <2>2, EndInv
  <1>5. CASE NextReader([t EXCEPT !.unsupported = TRUE]) /\ Left(Here) /\ UNCHANGED faults
    <2>1. MoveChips
      BY <1>1, <1>2, <1>5, StayChips
    <2> QED BY <1>1, <1>5, <2>1, NextReaderInv
  <1>6. CASE /\ t.mode = "pin" => Chip[t.reader].atr
             /\ Goes([t EXCEPT !.pc = IF t.mode = "can" THEN "access" ELSE "script"])
             /\ chip' = [chip EXCEPT ![t.reader] = Powered(@, 1)]
             /\ UNCHANGED faults
    <2> DEFINE d == Powered(chip[t.reader], 1)
    <2>1. /\ IsChip(d) /\ d.key = NoKey /\ d.charged = 0 /\ d.dropped = Here.dropped
          /\ d.hidden \in {0, chip[t.reader].hidden}
      BY <1>2, PoweredTyped DEF Here
    <2>2. d.verified = FALSE
      BY <1>2, PoweredTyped DEF Here
    <2> HIDE DEF d
    <2>3. chip' = [chip EXCEPT ![t.reader] = d]
      BY <1>6 DEF d
    <2>4. MoveChips
      BY <1>1, <1>2, <2>1, <2>3, StayChips
    <2>5. chip'[t.reader] = d
      BY <1>1, <2>1, <2>3, ChipReplaced
    <2>6. t' = [t EXCEPT !.pc = IF t.mode = "can" THEN "access" ELSE "script"] /\ kind' = kind
      BY <1>6 DEF Goes
    <2>7. /\ DOMAIN t' = ThreadFields /\ t'.mode = t.mode /\ t'.secret = t.secret
          /\ t'.attempt = t.attempt /\ t'.polls = t.polls /\ t'.reader = t.reader
          /\ t'.i = t.i /\ t'.level = t.level /\ t'.f = t.f /\ t'.chan = t.chan
          /\ t'.pc = IF t.mode = "can" THEN "access" ELSE "script"
      BY <1>1, <2>6 DEF TypeInv, ThreadFields
    <2>8. /\ t'.damaged = t.damaged /\ t'.unsupported = t.unsupported
          /\ t'.resetRequired = t.resetRequired
      BY <1>1, <2>6 DEF TypeInv, ThreadFields
    <2>9. Keeps
      BY <1>1, <1>6, <2>6, <2>7, <2>8 DEF Keeps
    <2>10. t.level = 1
      BY <1>1 DEF ChipInv, PlaceInv
    <2>11. t.level \in {1, 2, 3}
      BY <1>1 DEF TypeInv
    <2> QED BY <1>1, <2>1, <2>2, <2>4, <2>5, <2>7, <2>8, <2>9, <2>10, <2>11, OpenInv
  <1> QED BY <1>3, <1>4, <1>5, <1>6 DEF ConnectReader

(* EF.CardAccess: a card that hides it after the power was cut twice has to  *)
(* be lifted.                                                                *)
LEMMA CardAccessInv ==
    ASSUME ChipInv, CardAccess PROVE ChipInv'
  <1>1. /\ t.pc = "access" /\ t.mode = "can" /\ t.reader \in Readers /\ TypeInv /\ ToldInv
        /\ kind = None
    BY DEF CardAccess, ChipInv, PlaceInv, ToldInv
  <1>2. /\ IsChip(Here) /\ Here.charged = 0 /\ Here.hidden = chip[t.reader].hidden
        /\ ~Here.dropped /\ Here.key = NoKey
    BY <1>1 DEF TypeInv, ChipInv, ChargeInv, KeyInv, CanKeys, Here
  <1>3. PICK x \in readCardAccess : CardAccess!2!(x)
    BY DEF CardAccess
  <1>4. x.cost \in {0, 1} /\ faults' = faults + x.cost
    BY <1>3 DEF readCardAccess, Cost
  <1>5. faults' \in Nat
    BY <1>1, <1>4 DEF TypeInv
  <1>6. ASSUME Left(Here) PROVE MoveChips /\ EndChips
    BY <1>1, <1>2, <1>6, StayChips
  <1>7. ASSUME RetryOnCardLinkError(TRUE), Left(Here) PROVE ChipInv'
    BY <1>1, <1>5, <1>6, <1>7, RetryTells, EndInv
  <1>8. ASSUME NEW sw, failFromResult(sw), Left(Here) PROVE ChipInv'
    <2> DEFINE k == IF sw = "0" THEN kind ELSE cie_classify_sw(sw)
    <2>1. OnceReturns("GENERAL_ERROR", k)
      BY <1>8 DEF failFromResult
    <2>2. CanTold("GENERAL_ERROR", k)
      <3>1. CanTold("GENERAL_ERROR", kind)
        BY <1>1 DEF CanTold, None
      <3> QED BY <3>1, ClassifiedTold
    <2> HIDE DEF k
    <2>3. EndTells
      BY <1>1, <2>1, <2>2, OnceTells
    <2> QED BY <1>1, <1>5, <1>6, <1>8, <2>3, EndInv
  <1>9. ASSUME NextReader([t EXCEPT !.unsupported = TRUE]), Left(Here) PROVE ChipInv'
    BY <1>1, <1>5, <1>6, <1>9, NextReaderInv
  <1>10. ASSUME NextReader([t EXCEPT !.resetRequired = TRUE]), Left(Here),
                \E r \in Readers : ~Chip[r].access \/ Chip[r].hides > 2
         PROVE  ChipInv'
    BY <1>1, <1>5, <1>6, <1>10, NextReaderInv
  <1>11. ASSUME NEW n \in {2, 3}, Goes([t EXCEPT !.level = n]),
                chip' = [chip EXCEPT ![t.reader] = Powered(@, n)]
         PROVE  ChipInv'
    <2> DEFINE d == Powered(chip[t.reader], n)
    <2>1. /\ IsChip(d) /\ d.key = NoKey /\ d.charged = 0 /\ d.dropped = Here.dropped
          /\ d.hidden = IF chip[t.reader].hidden <= n THEN 0 ELSE chip[t.reader].hidden
      <3>1. n \in Nat /\ IsChip(chip[t.reader])
        BY <1>2 DEF Here
      <3> HIDE DEF d
      <3>2. /\ IsChip(Powered(chip[t.reader], n)) /\ Powered(chip[t.reader], n).key = NoKey
            /\ Powered(chip[t.reader], n).charged = chip[t.reader].charged
            /\ Powered(chip[t.reader], n).dropped = chip[t.reader].dropped
            /\ Powered(chip[t.reader], n).hidden
               = IF chip[t.reader].hidden <= n THEN 0 ELSE chip[t.reader].hidden
        BY <3>1, PoweredTyped
      <3> QED BY <1>2, <3>2 DEF d, Here
    <2>2. d.hidden \in {0, chip[t.reader].hidden} /\ (d.hidden = 0 \/ d.hidden > 2)
      <3>1. chip[t.reader].hidden \in 0..4
        BY <1>2 DEF Here, IsChip
      <3> HIDE DEF d
      <3> QED BY <2>1, <3>1
    <2> HIDE DEF d
    <2>3. chip' = [chip EXCEPT ![t.reader] = d]
      BY <1>11 DEF d
    <2>4. MoveChips
      BY <1>1, <1>2, <2>1, <2>2, <2>3, StayChips
    <2>5. chip'[t.reader] = d
      BY <1>1, <2>1, <2>3, ChipReplaced
    <2>6. t' = [t EXCEPT !.level = n] /\ kind' = kind
      BY <1>11 DEF Goes
    <2>7. /\ DOMAIN t' = ThreadFields /\ t'.mode = t.mode /\ t'.secret = t.secret
          /\ t'.attempt = t.attempt /\ t'.polls = t.polls /\ t'.reader = t.reader
          /\ t'.i = t.i /\ t'.level = n /\ t'.f = t.f /\ t'.chan = t.chan /\ t'.pc = "access"
      BY <1>1, <2>6 DEF TypeInv, ThreadFields
    <2>8. /\ t'.damaged = t.damaged /\ t'.unsupported = t.unsupported
          /\ t'.resetRequired = t.resetRequired
      BY <1>1, <2>6 DEF TypeInv, ThreadFields
    <2>9. Keeps
      BY <1>5, <2>6, <2>7, <2>8 DEF Keeps
    <2> QED BY <1>1, <2>1, <2>2, <2>4, <2>5, <2>7, <2>8, <2>9, OpenInv
  <1>12. ASSUME Goes([t EXCEPT !.pc = "script"]), UNCHANGED chip PROVE ChipInv'
    <2>1. MoveChips
      BY <1>1, <1>12, SameChips
    <2>2. t' = [t EXCEPT !.pc = "script"] /\ kind' = kind
      BY <1>12 DEF Goes
    <2>3. /\ DOMAIN t' = ThreadFields /\ t'.mode = t.mode /\ t'.secret = t.secret
          /\ t'.attempt = t.attempt /\ t'.polls = t.polls /\ t'.reader = t.reader
          /\ t'.i = t.i /\ t'.level = t.level /\ t'.f = t.f /\ t'.chan = t.chan /\ t'.pc = "script"
      BY <1>1, <2>2 DEF TypeInv, ThreadFields
    <2>4. /\ t'.damaged = t.damaged /\ t'.unsupported = t.unsupported
          /\ t'.resetRequired = t.resetRequired
      BY <1>1, <2>2 DEF TypeInv, ThreadFields
    <2>5. Keeps
      BY <1>5, <2>2, <2>3, <2>4 DEF Keeps
    <2>6. chip'[t.reader].key = NoKey /\ t.mode # "pin" /\ t.level \in {1, 2, 3}
      BY <1>1, <1>2, <1>12 DEF Here, TypeInv
    <2> QED BY <1>1, <2>1, <2>3, <2>4, <2>5, <2>6, OpenInv
  <1>13. ASSUME x.is = "6A82", t.level # 1
         PROVE  \E r \in Readers : ~Chip[r].access \/ Chip[r].hides > 2
    <2>1. x.is = AccessStatus(Here)
      BY <1>13 DEF readCardAccess
    <2>2. t.level > 1
      BY <1>1, <1>13 DEF TypeInv
    <2>3. chip[t.reader].hidden = 0 \/ chip[t.reader].hidden > 2
      BY <1>1, <2>2 DEF ToldInv
    <2>4. chip[t.reader].hidden \in {0, Chip[t.reader].hides}
      BY <1>1 DEF ToldInv
    <2>5. CASE chip[t.reader].hidden > 2
      BY <1>1, <2>4, <2>5
    <2>6. CASE chip[t.reader].hidden = 0
      <3>1. ~Chip[t.reader].access
        BY <1>13, <2>1, <2>6 DEF AccessStatus, Here
      <3> QED BY <1>1, <3>1
    <2> QED BY <2>3, <2>5, <2>6
  <1>14. ASSUME x.is = "6A82", t.level # 1, powerCycleField PROVE ChipInv'
    BY <1>7, <1>10, <1>11, <1>13, <1>14 DEF powerCycleField
  <1>15. t.level \in {1, 2, 3}
    BY <1>1 DEF TypeInv
  <1>16. CASE x.is = "lost"
    BY <1>3, <1>7, <1>16 DEF cardAccessMissing
  <1>17. CASE x.is = "6F00"
    BY <1>3, <1>8, <1>17 DEF cardAccessMissing
  <1>18. CASE x.is = "bad" \/ (x.is = "ok" /\ Selected[t.reader] = 0)
    <2>1. CASE x.is = "bad"
      <3>1. NextReader([t EXCEPT !.unsupported = TRUE]) \/ failFromResult("0")
        BY <1>3, <2>1 DEF cardAccessMissing
      <3>2. Left(Here)
        BY <1>3, <2>1 DEF cardAccessMissing
      <3> QED BY <1>8, <1>9, <3>1, <3>2
    <2>2. CASE x.is = "ok" /\ Selected[t.reader] = 0
      BY <1>3, <1>9, <2>2 DEF cardAccessMissing
    <2> QED BY <1>18, <2>1, <2>2
  <1>19. CASE x.is = "ok" /\ Selected[t.reader] > 0
    <2>1. Goes([t EXCEPT !.pc = "script"]) \/ NextReader([t EXCEPT !.unsupported = TRUE])
      BY <1>3, <1>19 DEF cardAccessMissing
    <2> QED BY <1>3, <1>9, <1>12, <1>19 DEF cardAccessMissing
  <1>20. CASE cardAccessMissing(x.is) /\ t.level = 1
    BY <1>3, <1>11, <1>20 DEF cardAccessMissing
  <1>21. CASE x.is = "6A82" /\ t.level = 2
    BY <1>3, <1>14, <1>21 DEF cardAccessMissing
  <1>22. CASE x.is = "6A82" /\ t.level = 3
    BY <1>3, <1>10, <1>13, <1>22 DEF cardAccessMissing
  <1>23. CASE /\ x.is # "lost" /\ x.is # "6F00"
              /\ ~(x.is = "bad" \/ (x.is = "ok" /\ Selected[t.reader] = 0))
              /\ ~(x.is = "ok" /\ Selected[t.reader] > 0)
              /\ ~(cardAccessMissing(x.is) /\ t.level = 1)
              /\ ~(x.is = "6A82" /\ t.level = 2) /\ ~(x.is = "6A82" /\ t.level = 3)
    <2>1. NextReader([t EXCEPT !.unsupported = TRUE]) /\ Left(Here)
      BY <1>3, <1>23
    <2> QED BY <1>9, <2>1
  <1> QED BY <1>16, <1>17, <1>18, <1>19, <1>20, <1>21, <1>22, <1>23

----------------------------------------------------------------------------
(* The steps with a card. *)

(* A step inside a connection, put together from its parts. *)
LEMMA ActiveInv ==
    ASSUME ChipInv, t.pc \in Active, Keeps, MoveChips, t'.pc \in Active,
           t'.level \in {1, 2, 3}, t'.f \in {1, 2}, t'.i \in Nat \ {0}, IsChannel(t'.chan),
           t'.damaged \in BOOLEAN, t'.pc = "script" => t'.i <= Len(Script'),
           IF t.mode = "can" THEN CanKeys' ELSE PinKeys',
           t'.chan.key # NoKey /\ chip'[t.reader].key = t'.chan.key
           => chip'[t.reader].ssc = t'.chan.ssc
    PROVE  ChipInv'
  <1>1. TypeInv /\ t.pc \notin {"idle", "dead", "access", "context", "reader"}
    BY DEF ChipInv, Active, Reading
  <1>2. Moves
    <2>1. t'.unsupported \in BOOLEAN /\ t'.resetRequired \in BOOLEAN
      BY <1>1 DEF Keeps, TypeInv
    <2>2. t'.reader \in Nat \ {0} /\ t'.pc \in {"reader", "access"} \cup Active
      BY <1>1 DEF Keeps, TypeInv
    <2> QED BY <2>1, <2>2 DEF Moves, Keeps
  <1>3. t.secret \in IF t.mode = "can" THEN CANs ELSE PINs
    BY <1>1 DEF ChipInv, PlaceInv
  <1>4. t.reader \in Readers
    BY DEF ChipInv, PlaceInv
  <1>5. t'.pc \notin {"idle", "dead", "access", "context", "reader"}
    BY DEF Active, Reading
  <1>6. PlaceInv'
    <2>1. t'.secret \in IF t'.mode = "can" THEN CANs ELSE PINs
      BY <1>3 DEF Keeps
    <2>2. t'.reader \in Readers
      BY <1>4 DEF Keeps
    <2> QED BY <1>5, <2>1, <2>2 DEF PlaceInv
  <1>7. t'.resetRequired => \E r \in Readers : ~Chip[r].access \/ Chip[r].hides > 2
    BY DEF Keeps, ChipInv, ToldInv
  <1>8. IF t'.mode = "can" THEN CanKeys' ELSE PinKeys'
    BY DEF Keeps
  <1>9. t'.reader = t.reader
    BY DEF Keeps
  <1> QED BY <1>1, <1>2, <1>5, <1>6, <1>7, <1>8, <1>9, MoveInv

(* A card after an exchange that cost no try. *)
GoodChip(c) ==
  /\ IsChip(c) /\ c.hidden \in {0, chip[t.reader].hidden, Chip[t.reader].hides}
  /\ c.charged = 0 /\ (t.mode = "can" => ~c.dropped)
  /\ c.key \in {NoKey, chip[t.reader].key}
  /\ c.verified => chip[t.reader].verified

(* The chips after a command that went as it should. *)
LEMMA GoodChips ==
    ASSUME ChipInv, t.pc \in Active, NEW c, GoodChip(c),
           Left(c) \/ chip' = [chip EXCEPT ![t.reader] = c]
    PROVE  MoveChips /\ EndChips
  <1>1. t.pc \notin {"idle", "dead"} /\ t.reader \in Readers
    BY DEF Active, Reading, ChipInv, PlaceInv
  <1> QED BY <1>1, StayChips DEF GoodChip

(* A protected command other than VERIFY and the last one of the device's    *)
(* authentication, sent with the next value of the counter.                  *)
Recounted(d) ==
  /\ IsChip(d)
  /\ d.key = Here.key /\ d.charged = Here.charged /\ d.dropped = Here.dropped
  /\ d.verified = Here.verified /\ d.hidden = Here.hidden /\ (t.mode = "can" => d = Here)
IsProtected(cmd) == cmd.sm = TRUE /\ cmd.op \notin {"verify", "random", "ga1"}
NextCounter(ch) ==
  /\ IsChannel(ch) /\ ch.key = t.chan.key
  /\ t.mode = "can" => ch.ssc = t.chan.ssc + 1 /\ t.chan.key # NoKey
(* A protected command keeps both send counters in step, or ends the        *)
(* channel of the chip.                                                     *)
LEMMA SmStep ==
    ASSUME ChipInv, t.pc \in Active, NEW d, Recounted(d), NEW cmd, IsProtected(cmd),
           NEW ch, NextCounter(ch), NEW x, Effects(t.reader, d, x, cmd, ch)
    PROVE  /\ GoodChip(x.c)
           /\ x.is \in Unprotected => x.c.key = NoKey
           /\ x.is \notin {"lost", "bad"} \cup Unprotected => x.c.ssc = ch.ssc + 1
  <1> USE DEF Recounted, IsProtected, NextCounter
  <1>1. Effect(t.reader, d, x, cmd, ch) /\ SmEffect(d, x, cmd, ch)
    BY DEF Effects
  <1>2. Here = chip[t.reader] /\ t.pc \notin {"idle", "dead"} /\ t.reader \in Readers
    BY DEF Here, Active, Reading, ChipInv, PlaceInv
  <1>3. Here.charged = 0
    BY <1>2 DEF ChipInv, ChargeInv
  <1>4. x.c.charged = 0
    BY <1>1, <1>3 DEF Effect
  <1>5. ASSUME t.mode = "can" PROVE ~x.c.dropped
    <2>1. ~Here.dropped
      BY <1>2, <1>5 DEF ChipInv, KeyInv
    <2>2. Here.key = t.chan.key => Here.ssc = t.chan.ssc
      BY <1>2, <1>5 DEF ChipInv, KeyInv
    <2>3. x.c.dropped = d.dropped
      BY <1>1, <1>5, <2>2 DEF SmEffect
    <2> QED BY <2>1, <2>3
  <1>6. x.c.verified => chip[t.reader].verified
    BY <1>1, <1>2 DEF Effect
  <1>7. IsChip(x.c) /\ x.c.hidden \in {0, chip[t.reader].hidden, Chip[t.reader].hides}
    BY <1>1, <1>2 DEF Effect
  <1>8. x.c.key \in {NoKey, chip[t.reader].key}
    BY <1>1, <1>2 DEF SmEffect
  <1>9. GoodChip(x.c)
    BY <1>4, <1>5, <1>6, <1>7, <1>8 DEF GoodChip
  <1> QED BY <1>1, <1>9 DEF SmEffect

(* The counters of a channel. *)
LEMMA SentFacts ==
    ASSUME NEW ch, IsChannel(ch)
    PROVE  /\ IsChannel(Sent(ch)) /\ Sent(ch).key = ch.key /\ Sent(ch).ssc = ch.ssc + 1
           /\ IsChannel(SM(ch)) /\ SM(ch).key = ch.key /\ SM(ch).ssc = ch.ssc + 1
           /\ \A sw : /\ IsChannel(Received(ch, sw)) /\ Received(ch, sw).key = ch.key
                      /\ sw \notin Unprotected => Received(ch, sw).ssc = ch.ssc + 1
           /\ \A sw : /\ IsChannel(getResp_SM(ch, sw)) /\ getResp_SM(ch, sw).key = ch.key
  <1> DEFINE n == [ch EXCEPT !.ssc = @ + 1]
  <1>1. IsChannel(n) /\ n.key = ch.key /\ n.ssc = ch.ssc + 1
    BY DEF IsChannel
  <1>2. Sent(ch) = n /\ SM(ch) = n
    BY DEF Sent, wrap, incrementSsc, SM, increment
  <1>3. ASSUME NEW sw PROVE getResp_SM(ch, sw) \in {n, ch} /\ (sw \notin Unprotected => getResp_SM(ch, sw) = n)
    BY DEF getResp_SM, respSM, increment
  <1>4. ASSUME NEW sw PROVE Received(ch, sw) \in {n, ch} /\ (sw \notin Unprotected => Received(ch, sw) = n)
    BY <1>3 DEF Received, unwrap, incrementSsc
  <1> HIDE DEF n
  <1> QED BY <1>1, <1>2, <1>3, <1>4

(* A step into the reading phase with the session of the channel. *)
LEMMA ReadStepInv ==
    ASSUME ChipInv, t.pc \in Active, t.chan.key # NoKey, Keeps, t'.pc \in Reading,
           t'.level = t.level, t'.f \in {1, 2}, t'.i = t.i, t'.damaged = t.damaged,
           IsChannel(t'.chan), t'.chan.key = t.chan.key,
           NEW c, GoodChip(c), chip' = [chip EXCEPT ![t.reader] = c],
           c.key = t.chan.key => c.ssc = t'.chan.ssc
    PROVE  ChipInv'
  <1>1. TypeInv /\ t.reader \in Readers
    BY DEF ChipInv, PlaceInv
  <1>2. MoveChips
    BY GoodChips
  <1>3. chip'[t.reader] = c
    BY <1>1, ChipReplaced DEF GoodChip
  <1>4. Script' = Script /\ LibraryKey(t.secret)' = LibraryKey(t.secret)
    BY SameScript DEF Keeps
  <1>5. t'.pc \in Active /\ t'.pc # "script" /\ t'.pc # "access"
    BY DEF Active, Reading
  <1>6. t'.reader = t.reader /\ t'.mode = t.mode /\ t'.secret = t.secret
    BY DEF Keeps
  <1>7. CASE t.mode = "can"
    <2>1. /\ chip[t.reader].key \in {NoKey, OwnKey(t.reader)}
          /\ t.chan.key \in {NoKey, LibraryKey(t.secret)}
      BY <1>7 DEF ChipInv, KeyInv, CanKeys
    <2>2. c.key \in {NoKey, OwnKey(t.reader)}
      BY <2>1 DEF GoodChip
    <2>3. CanKeys'
      BY <1>3, <1>4, <1>5, <1>6, <2>1, <2>2 DEF CanKeys
    <2> QED BY <1>1, <1>2, <1>3, <1>5, <1>7, <2>3, ActiveInv DEF TypeInv
  <1>8. CASE t.mode # "can"
    <2>1. /\ chip[t.reader].key \in {NoKey, <<"dh">>}
          /\ chip[t.reader].verified => t.secret = Chip[t.reader].pin
      BY <1>8 DEF ChipInv, KeyInv, PinKeys
    <2>2. c.key \in {NoKey, <<"dh">>} /\ (c.verified => t.secret = Chip[t.reader].pin)
      BY <2>1 DEF GoodChip
    <2>3. PinKeys'
      BY <1>3, <1>5, <1>6, <2>2 DEF PinKeys
    <2> QED BY <1>1, <1>2, <1>3, <1>5, <1>8, <2>3, ActiveInv DEF TypeInv
  <1> QED BY <1>7, <1>8

(* Files are read only over a channel. *)
LEMMA ReadingKey ==
    ASSUME ChipInv, t.pc \in Reading
    PROVE  /\ t.chan.key # NoKey /\ t.pc \in Active /\ t.pc \notin {"idle", "dead"}
           /\ t.reader \in Readers /\ IsChip(Here) /\ IsChannel(t.chan) /\ TypeInv /\ ToldInv
           /\ t.mode = "can" => kind = None
  <1>1. t.pc \in Active /\ t.pc \notin {"idle", "dead"}
    BY DEF Active, Reading
  <1>2. t.chan.key # NoKey
    BY <1>1 DEF ChipInv, KeyInv, CanKeys, PinKeys
  <1> QED BY <1>1, <1>2 DEF ChipInv, PlaceInv, TypeInv, ToldInv, Here

(* A failed exchange of the reading phase ends the attempt. *)
LEMMA ReadFailsInv ==
    ASSUME ChipInv, t.pc \in Reading, NEW x, GoodChip(x.c), ReadFails(x), faults' \in Nat
    PROVE  ChipInv'
  <1>1. t.pc \in Active /\ t.pc \notin {"idle", "dead"} /\ TypeInv /\ ToldInv
    BY ReadingKey
  <1>2. EndChips
    BY <1>1, GoodChips DEF ReadFails
  <1>3. ASSUME NEW sw, failFromResult(sw) PROVE EndTells
    <2>1. t.mode = "can" => CanTold("GENERAL_ERROR", IF sw = "0" THEN kind ELSE cie_classify_sw(sw))
      <3>1. t.mode = "can" => CanTold("GENERAL_ERROR", kind)
        BY ReadingKey DEF CanTold, None
      <3> QED BY <3>1, ClassifiedTold
    <2> QED BY <1>1, <1>3, <2>1, OnceTells DEF failFromResult
  <1>4. ASSUME NEW op, BadAnswer(op) PROVE EndTells
    <2>1. Retryable(op) \in BOOLEAN
      BY DEF Retryable
    <2> QED BY <1>1, <1>4, <2>1, LinkErrorTells, RetryTells DEF BadAnswer
  <1>5. EndTells
    <2>1. CASE RetryOnCardLinkError(TRUE)
      BY <1>1, <2>1, RetryTells
    <2> QED BY <1>3, <1>4, <2>1 DEF ReadFails
  <1> QED BY <1>1, <1>2, <1>5, EndInv

(* The end of a file, and of the call. *)
LEMMA FileReadInv ==
    ASSUME ChipInv, t.pc \in Reading, NEW ch, IsChannel(ch), ch.key = t.chan.key, NEW bytes,
           FileRead(ch, bytes), NEW x, Stay(x), GoodChip(x.c), faults' \in Nat,
           x.c.key = t.chan.key => x.c.ssc = ch.ssc
    PROVE  ChipInv'
  <1>1. t.pc \in Active /\ t.pc \notin {"idle", "dead"} /\ TypeInv /\ ToldInv /\ t.chan.key # NoKey
    BY ReadingKey
  <1>2. chip' = [chip EXCEPT ![t.reader] = x.c]
    BY DEF Stay
  <1>3. CASE t.f = 1
    <2> DEFINE got == [t.got EXCEPT ![File] = bytes]
    <2>1. /\ t' = [t EXCEPT !.pc = "select", !.f = 2, !.chan = ch, !.got = got, !.out = <<>>]
          /\ kind' = kind
      BY <1>3 DEF FileRead, Goes
    <2> HIDE DEF got
    <2>2. /\ DOMAIN t' = ThreadFields /\ t'.mode = t.mode /\ t'.secret = t.secret
          /\ t'.attempt = t.attempt /\ t'.polls = t.polls /\ t'.reader = t.reader
          /\ t'.i = t.i /\ t'.level = t.level /\ t'.f = 2 /\ t'.chan = ch /\ t'.pc = "select"
      BY <1>1, <2>1 DEF TypeInv, ThreadFields
    <2>3. /\ t'.damaged = t.damaged /\ t'.unsupported = t.unsupported
          /\ t'.resetRequired = t.resetRequired
      BY <1>1, <2>1 DEF TypeInv, ThreadFields
    <2>4. Keeps
      BY <2>1, <2>2, <2>3 DEF Keeps
    <2>5. t'.pc \in Reading
      BY <2>2 DEF Reading
    <2> QED BY <1>1, <1>2, <2>2, <2>3, <2>4, <2>5, ReadStepInv
  <1>4. CASE t.f # 1
    <2>1. EndChips
      BY <1>1, <1>2, GoodChips
    <2>2. EndTells
      <3>1. CASE OnceReturns("BUFFER_TOO_SMALL", kind)
        <4>1. t.mode = "can" => CanTold("BUFFER_TOO_SMALL", kind)
          BY ReadingKey DEF CanTold, None
        <4> QED BY <1>1, <3>1, <4>1, OnceTells
      <3>2. CASE /\ kind' = None
                 /\ \E rc \in {"OK", "BUFFER_TOO_SMALL"} : \E data : Return(rc, data)
        <4>0. PICK rc \in {"OK", "BUFFER_TOO_SMALL"} : \E data : Return(rc, data)
          BY <3>2
        <4>1. PICK data : Return(rc, data)
          BY <4>0
        <4>2. t' = [Attempt(1, 0) EXCEPT !.pc = "idle"] /\ ret' = [rc |-> rc, data |-> data]
          BY <4>1 DEF Return
        <4>3. Ends
          BY <4>2 DEF Ends
        <4>4. t'.pc = "idle"
          BY <1>1, <4>2 DEF Attempt, TypeInv, ThreadFields
        <4>5. ret'.rc = rc
          BY <4>2
        <4>6. CanTold(ret'.rc, kind')
          BY <3>2, <4>5 DEF CanTold, None
        <4> QED BY <4>3, <4>4, <4>6 DEF EndTells
      <3> QED BY <1>4, <3>1, <3>2 DEF FileRead, dg2ToPhoto
    <2> QED BY <1>1, <2>1, <2>2, EndInv
  <1> QED BY <1>3, <1>4

(* A command in the clear that starts no session. *)
LEMMA PlainStep ==
    ASSUME ChipInv, t.pc \in Active, NEW cmd, cmd.sm = FALSE, cmd.op \notin {"ga4", "get_dh", "verify"},
           NEW ch, NEW x, Effects(t.reader, Here, x, cmd, ch)
    PROVE  GoodChip(x.c) /\ (x.c.key # NoKey => x.c.ssc = Here.ssc)
  <1>1. Effect(t.reader, Here, x, cmd, ch) /\ PlainEffect(t.reader, Here, x, cmd)
    BY DEF Effects
  <1>2. Here = chip[t.reader] /\ t.pc \notin {"idle", "dead"} /\ t.reader \in Readers
    BY DEF Here, Active, Reading, ChipInv, PlaceInv
  <1>3. Here.charged = 0
    BY <1>2 DEF ChipInv, ChargeInv
  <1>4. x.c.charged = 0
    BY <1>1, <1>3 DEF Effect
  <1>5. ASSUME t.mode = "can" PROVE ~x.c.dropped
    <2>1. ~Here.dropped
      BY <1>2, <1>5 DEF ChipInv, KeyInv
    <2>2. x.c.dropped = Here.dropped
      BY <1>1 DEF PlainEffect
    <2> QED BY <2>1, <2>2
  <1>6. x.c.verified => chip[t.reader].verified
    BY <1>1, <1>2 DEF Effect
  <1>7. IsChip(x.c) /\ x.c.hidden \in {0, chip[t.reader].hidden, Chip[t.reader].hides}
    BY <1>1, <1>2 DEF Effect
  <1>8. x.c.key \in {NoKey, chip[t.reader].key} /\ (x.c.key # NoKey => x.c.ssc = Here.ssc)
    BY <1>1, <1>2 DEF PlainEffect
  <1> QED BY <1>4, <1>5, <1>6, <1>7, <1>8 DEF GoodChip

(* A fault is counted. *)
LEMMA CostTyped ==
    ASSUME ChipInv, NEW x, Cost(x), x.cost \in {0, 1} PROVE faults' \in Nat
  BY DEF Cost, ChipInv, TypeInv

(* SELECT of the next file. *)
LEMMA SelectFileInv ==
    ASSUME ChipInv, SelectFile PROVE ChipInv'
  <1> DEFINE cmd == Cmd("select_ef", t.mode = "can" \/ t.pc = "fid_select", None)
             ch == Sent(t.chan)
             pc == IF t.pc = "select" THEN "head" ELSE "fid"
  <1>1. pc \in Reading /\ t.pc \in Reading
    BY DEF SelectFile, Reading
  <1>2. /\ t.chan.key # NoKey /\ t.pc \in Active /\ t.reader \in Readers /\ IsChip(Here)
        /\ IsChannel(t.chan) /\ TypeInv /\ t.mode \in {"can", "pin"}
    BY <1>1, ReadingKey DEF TypeInv
  <1>3. /\ IsChannel(ch) /\ ch.key = t.chan.key /\ ch.ssc = t.chan.ssc + 1
        /\ \A sw : /\ IsChannel(Received(ch, sw)) /\ Received(ch, sw).key = ch.key
                   /\ sw \notin Unprotected => Received(ch, sw).ssc = ch.ssc + 1
    BY <1>2, SentFacts
  <1>4. PICK x \in Exchange(t.reader, cmd, ch) :
          /\ Cost(x)
          /\ IF x.is = "ok" \/ (x.is = "bad" /\ ~cmd.sm)
             THEN /\ Stay(x)
                  /\ Goes([t EXCEPT !.pc = pc,
                           !.chan = IF cmd.sm THEN Received(Sent(@), x.is) ELSE @])
             ELSE ReadFails(x)
    BY DEF SelectFile
  <1>5. cmd.op = "select_ef"
    BY DEF Cmd
  <1>11. cmd.sm \in BOOLEAN
    BY DEF Cmd
  <1> HIDE DEF cmd, ch, pc
  <1>6. Effects(t.reader, Here, x, cmd, ch) /\ x.cost \in {0, 1}
    <2>1. cmd.sm \in BOOLEAN /\ cmd.op # "ga1" /\ IsChip(chip[t.reader])
      BY <1>2, <1>5, <1>11 DEF Here
    <2>2. Effects(t.reader, chip[t.reader], x, cmd, ch) /\ x.cost \in {0, 1}
      BY <1>2, <1>3, <1>4, <2>1, ExchangeEffects
    <2> QED BY <2>2 DEF Here
  <1>7. faults' \in Nat
    BY <1>4, <1>6, CostTyped
  <1> DEFINE new == IF cmd.sm THEN Received(ch, x.is) ELSE t.chan
  <1>8. /\ GoodChip(x.c) /\ IsChannel(new) /\ new.key = t.chan.key
        /\ (x.is = "ok" \/ (x.is = "bad" /\ ~cmd.sm)) /\ x.c.key = t.chan.key => x.c.ssc = new.ssc
    <2>1. CASE cmd.sm
      <3>1. cmd.sm = TRUE
        BY <1>11, <2>1
      <3>2. /\ GoodChip(x.c)
            /\ x.is \notin {"lost", "bad"} \cup Unprotected => x.c.ssc = ch.ssc + 1
        <4>1. IsProtected(cmd) /\ NextCounter(ch) /\ Recounted(Here)
          BY <1>2, <1>3, <1>5, <3>1 DEF IsProtected, NextCounter, Recounted
        <4> QED BY <1>2, <1>3, <1>6, <3>1, <4>1, SmStep
      <3>3. new = Received(ch, x.is)
        BY <3>1
      <3> QED BY <1>3, <3>1, <3>2, <3>3 DEF Unprotected, OwnReason
    <2>2. CASE ~cmd.sm
      <3>1. cmd.sm = FALSE
        BY <1>11, <2>2
      <3>2. GoodChip(x.c) /\ (x.c.key # NoKey => x.c.ssc = Here.ssc)
        BY <1>2, <1>5, <1>6, <3>1, PlainStep
      <3>3. new = t.chan
        BY <3>1
      <3>4. Here.key = t.chan.key => Here.ssc = t.chan.ssc
        BY <1>2 DEF ChipInv, KeyInv, Here
      <3>5. x.c.key = t.chan.key => Here.key = t.chan.key
        BY <1>2, <3>2 DEF GoodChip, Here
      <3> QED BY <1>2, <3>2, <3>3, <3>4, <3>5
    <2> QED BY <2>1, <2>2
  <1>9. CASE x.is = "ok" \/ (x.is = "bad" /\ ~cmd.sm)
    <2>1. t' = [t EXCEPT !.pc = pc, !.chan = new] /\ kind' = kind
      BY <1>4, <1>9 DEF Goes, ch
    <2> HIDE DEF new
    <2>2. /\ DOMAIN t' = ThreadFields /\ t'.mode = t.mode /\ t'.secret = t.secret
          /\ t'.attempt = t.attempt /\ t'.polls = t.polls /\ t'.reader = t.reader
          /\ t'.i = t.i /\ t'.level = t.level /\ t'.f = t.f /\ t'.chan = new /\ t'.pc = pc
      BY <1>2, <2>1 DEF TypeInv, ThreadFields
    <2>3. /\ t'.damaged = t.damaged /\ t'.unsupported = t.unsupported
          /\ t'.resetRequired = t.resetRequired
      BY <1>2, <2>1 DEF TypeInv, ThreadFields
    <2>4. Keeps
      BY <1>7, <2>1, <2>2, <2>3 DEF Keeps
    <2>5. t'.pc \in Reading /\ t.f \in {1, 2}
      BY <1>1, <1>2, <2>2 DEF TypeInv
    <2>6. chip' = [chip EXCEPT ![t.reader] = x.c]
      BY <1>4, <1>9 DEF Stay
    <2> QED BY <1>2, <1>8, <1>9, <2>2, <2>3, <2>4, <2>5, <2>6, ReadStepInv
  <1>10. CASE ~(x.is = "ok" \/ (x.is = "bad" /\ ~cmd.sm))
    <2>1. ReadFails(x)
      BY <1>4, <1>10
    <2> QED BY <1>1, <1>7, <1>8, <2>1, ReadFailsInv
  <1> QED BY <1>9, <1>10

(* READ BINARY in the channel. *)
LEMMA ReadExchange ==
    ASSUME ChipInv, t.pc \in Reading, NEW arg, NEW ch, NextCounter(ch),
           NEW x \in Exchange(t.reader, Cmd("read", TRUE, arg), ch)
    PROVE  /\ GoodChip(x.c) /\ x.cost \in {0, 1}
           /\ x.is \notin {"lost", "bad"} \cup Unprotected => x.c.ssc = ch.ssc + 1
  <1> DEFINE cmd == Cmd("read", TRUE, arg)
  <1>1. IsProtected(cmd) /\ cmd.sm \in BOOLEAN /\ (cmd.op = "ga1" => ~cmd.sm)
    BY DEF IsProtected, Cmd
  <1>2. t.pc \in Active /\ t.reader \in Readers /\ IsChip(Here) /\ IsChip(chip[t.reader])
    BY ReadingKey DEF Here
  <1>3. Recounted(Here) /\ IsChannel(ch)
    BY <1>2 DEF Recounted, NextCounter
  <1> HIDE DEF cmd
  <1>4. Effects(t.reader, chip[t.reader], x, cmd, ch) /\ x.cost \in {0, 1}
    <2>1. x \in Exchange(t.reader, cmd, ch)
      BY DEF cmd
    <2> QED BY <1>1, <1>2, <1>3, <2>1, ExchangeEffects
  <1>5. Effects(t.reader, Here, x, cmd, ch)
    BY <1>4 DEF Here
  <1> QED BY <1>1, <1>2, <1>3, <1>4, <1>5, SmStep

(* The step to the next bytes of the file. *)
ToBytes(pc, ch, bytes) ==
  \/ Goes([t EXCEPT !.pc = pc, !.chan = ch, !.out = bytes])
  \/ pc = t.pc /\ Goes([t EXCEPT !.chan = ch, !.out = bytes])
  \/ bytes = t.out /\ Goes([t EXCEPT !.pc = pc, !.chan = ch])
(* An answer of READ BINARY taken over, and the way on from there. *)
LEMMA BytesInv ==
    ASSUME ChipInv, t.pc \in Reading, NEW pc \in Reading, NEW ch, IsChannel(ch),
           ch.key = t.chan.key, NEW bytes,
           ToBytes(pc, ch, bytes),
           NEW x, Stay(x), GoodChip(x.c), faults' \in Nat,
           x.c.key = t.chan.key => x.c.ssc = ch.ssc
    PROVE  ChipInv'
  <1>1. t.pc \in Active /\ TypeInv /\ t.chan.key # NoKey /\ t.f \in {1, 2}
    BY ReadingKey DEF TypeInv
  <1>2. /\ \/ t' = [t EXCEPT !.pc = pc, !.chan = ch, !.out = bytes]
           \/ pc = t.pc /\ t' = [t EXCEPT !.chan = ch, !.out = bytes]
           \/ bytes = t.out /\ t' = [t EXCEPT !.pc = pc, !.chan = ch]
        /\ kind' = kind /\ chip' = [chip EXCEPT ![t.reader] = x.c]
    BY DEF ToBytes, Goes, Stay
  <1>3. /\ DOMAIN t' = ThreadFields /\ t'.mode = t.mode /\ t'.secret = t.secret
        /\ t'.attempt = t.attempt /\ t'.polls = t.polls /\ t'.reader = t.reader
        /\ t'.i = t.i /\ t'.level = t.level /\ t'.f = t.f /\ t'.chan = ch /\ t'.pc = pc
    BY <1>1, <1>2 DEF TypeInv, ThreadFields
  <1>4. /\ t'.damaged = t.damaged /\ t'.unsupported = t.unsupported
        /\ t'.resetRequired = t.resetRequired
    BY <1>1, <1>2 DEF TypeInv, ThreadFields
  <1>5. Keeps
    BY <1>2, <1>3, <1>4 DEF Keeps
  <1> QED BY <1>1, <1>2, <1>3, <1>4, <1>5, ReadStepInv

(* READ BINARY of a file's first bytes. *)
LEMMA ReadHeadInv ==
    ASSUME ChipInv, ReadHead PROVE ChipInv'
  <1> DEFINE arg == [f |-> File, off |-> 0, n |-> Header, sfi |-> t.mode = "pin", odd |-> FALSE]
             c == Sent(t.chan)
  <1>1. t.pc = "head" /\ t.pc \in Reading
    BY DEF ReadHead, Reading
  <1>2. t.chan.key # NoKey /\ IsChannel(t.chan)
    BY <1>1, ReadingKey
  <1>3. /\ IsChannel(c) /\ c.key = t.chan.key /\ c.ssc = t.chan.ssc + 1
        /\ \A sw : /\ IsChannel(Received(c, sw)) /\ Received(c, sw).key = c.key
                   /\ sw \notin Unprotected => Received(c, sw).ssc = c.ssc + 1
    BY <1>2, SentFacts
  <1>4. NextCounter(c)
    BY <1>2, <1>3 DEF NextCounter
  <1> HIDE DEF c
  <1>5. PICK x \in Exchange(t.reader, Cmd("read", TRUE, arg), c) :
          /\ Cost(x)
          /\ LET ch == Received(c, x.is)
             IN CASE x.is = "ok" /\ Size[File] <= Header -> FileRead(ch, Total(x.data)) /\ Stay(x)
                  [] x.is = "ok" /\ Size[File] > Header ->
                       Goes([t EXCEPT !.pc = "body", !.chan = ch, !.out = x.data]) /\ Stay(x)
                  [] x.is = "6981" /\ t.mode = "pin" ->
                       Goes([t EXCEPT !.pc = "fid_select", !.chan = ch, !.out = <<>>]) /\ Stay(x)
                  [] OTHER -> ReadFails(x)
    BY DEF ReadHead, ReadCmd, c
  <1> HIDE DEF arg
  <1>6. /\ GoodChip(x.c) /\ x.cost \in {0, 1}
        /\ x.is \notin {"lost", "bad"} \cup Unprotected => x.c.ssc = c.ssc + 1
    BY <1>1, <1>4, ReadExchange
  <1>7. faults' \in Nat
    BY <1>5, <1>6, CostTyped
  <1> DEFINE ch == Received(c, x.is)
  <1>8. /\ IsChannel(ch) /\ ch.key = t.chan.key
        /\ x.is \in {"ok", "6981"} => x.c.ssc = ch.ssc
    BY <1>3, <1>6 DEF Unprotected, OwnReason
  <1> HIDE DEF ch
  <1>9. \/ x.is = "ok" /\ FileRead(ch, Total(x.data)) /\ Stay(x)
        \/ x.is = "ok" /\ Goes([t EXCEPT !.pc = "body", !.chan = ch, !.out = x.data]) /\ Stay(x)
        \/ x.is = "6981" /\ Goes([t EXCEPT !.pc = "fid_select", !.chan = ch, !.out = <<>>]) /\ Stay(x)
        \/ ReadFails(x)
    BY <1>5 DEF ch
  <1>10. CASE x.is = "ok" /\ FileRead(ch, Total(x.data)) /\ Stay(x)
    BY <1>1, <1>6, <1>7, <1>8, <1>10, FileReadInv
  <1>11. CASE x.is = "ok" /\ Goes([t EXCEPT !.pc = "body", !.chan = ch, !.out = x.data]) /\ Stay(x)
    <2>1. "body" \in Reading /\ ToBytes("body", ch, x.data)
      BY <1>11 DEF Reading, ToBytes
    <2> QED BY <1>1, <1>6, <1>7, <1>8, <1>11, <2>1, BytesInv
  <1>12. CASE x.is = "6981" /\ Goes([t EXCEPT !.pc = "fid_select", !.chan = ch, !.out = <<>>]) /\ Stay(x)
    <2>1. "fid_select" \in Reading /\ ToBytes("fid_select", ch, <<>>)
      BY <1>12 DEF Reading, ToBytes
    <2> QED BY <1>1, <1>6, <1>7, <1>8, <1>12, <2>1, BytesInv
  <1>13. CASE ReadFails(x)
    BY <1>1, <1>6, <1>7, <1>13, ReadFailsInv
  <1> QED BY <1>9, <1>10, <1>11, <1>12, <1>13

(* However often the chip refused the length, the command that it accepts    *)
(* carries the next value of the counter in a PACE channel.                  *)
LEMMA CommandChannelFacts ==
    ASSUME NEW k \in 0..2, IsChannel(t.chan), t.chan.key # NoKey, t.mode \in {"can", "pin"}
    PROVE  NextCounter(CommandChannel(k))
  <1>1. t.chan.ssc \in Int /\ DOMAIN t.chan = {"key", "ssc"} /\ t.chan.key \in Keys
    BY DEF IsChannel
  <1> DEFINE n(ch) == [ch EXCEPT !.ssc = @ + 1]
             b(ch) == [ch EXCEPT !.ssc = @ - 1]
  <1>2. ASSUME NEW ch, IsChannel(ch)
        PROVE /\ IsChannel(n(ch)) /\ n(ch).key = ch.key /\ n(ch).ssc = ch.ssc + 1
              /\ IsChannel(b(ch)) /\ b(ch).key = ch.key /\ b(ch).ssc = ch.ssc - 1
    BY <1>2 DEF IsChannel
  <1>3. CASE t.mode = "can"
    <2> DEFINE c == CommandChannel(k)
               c1 == n(t.chan)
               c2 == b(c1)
               c3 == n(c2)
    <2>1. c = c1 \/ c = c3
      BY <1>3 DEF CommandChannel, smSend, sendPlain, wrap, incrementSsc, rollbackSsc
    <2>2. IsChannel(c1) /\ c1.key = t.chan.key /\ c1.ssc = t.chan.ssc + 1
      BY <1>2
    <2> HIDE DEF c, c1
    <2>3. IsChannel(c2) /\ c2.key = c1.key /\ c2.ssc = c1.ssc - 1
      BY <1>2, <2>2
    <2> HIDE DEF c2
    <2>4. IsChannel(c3) /\ c3.key = c2.key /\ c3.ssc = c2.ssc + 1
      BY <1>2, <2>3
    <2> HIDE DEF c3
    <2>5. c3.ssc = t.chan.ssc + 1
      BY <1>1, <2>2, <2>3, <2>4
    <2>6. IsChannel(c) /\ c.key = t.chan.key /\ c.ssc = t.chan.ssc + 1
      BY <2>1, <2>2, <2>3, <2>4, <2>5
    <2> QED BY <2>6 DEF c, NextCounter
  <1>4. CASE t.mode = "pin"
    <2> DEFINE c == CommandChannel(k)
    <2>1. c = n(t.chan) \/ c = n(n(t.chan)) \/ c = n(n(n(t.chan)))
      <3>1. k = 0 \/ k = 1 \/ k = 2
        OBVIOUS
      <3> QED BY <1>4, <3>1 DEF CommandChannel, resendSM, SM, respSM, increment
    <2> HIDE DEF c, n
    <2>2. IsChannel(n(t.chan)) /\ n(t.chan).key = t.chan.key
      BY <1>2
    <2>3. IsChannel(n(n(t.chan))) /\ n(n(t.chan)).key = t.chan.key
      BY <1>2, <2>2
    <2>4. IsChannel(n(n(n(t.chan)))) /\ n(n(n(t.chan))).key = t.chan.key
      BY <1>2, <2>3
    <2>5. IsChannel(c) /\ c.key = t.chan.key
      BY <2>1, <2>2, <2>3, <2>4
    <2> QED BY <1>4, <2>5 DEF c, NextCounter
  <1> QED BY <1>3, <1>4

(* A chip that refused commands has only counted them. *)
LEMMA RefusedFacts ==
    ASSUME NEW k, IsChip(Here), t.mode \in {"can", "pin"} PROVE Recounted(Refused(k))
  <1> DEFINE e == [Here EXCEPT !.ssc = @ + 2]
  <1>1. /\ IsChip(e) /\ e.key = Here.key /\ e.charged = Here.charged /\ e.hidden = Here.hidden
    BY DEF IsChip, ChipFields
  <1>2. e.dropped = Here.dropped /\ e.verified = Here.verified
    BY DEF IsChip, ChipFields
  <1> HIDE DEF e
  <1>3. CASE t.mode = "can"
    <2>1. Refused(k) = Here
      BY <1>3 DEF Refused
    <2> QED BY <2>1 DEF Recounted
  <1>4. CASE t.mode # "can"
    <2>1. Refused(k) = e \/ Refused(k) = Here
      BY DEF Refused, e
    <2>2. CASE Refused(k) = e
      BY <1>1, <1>2, <1>4, <2>2 DEF Recounted
    <2>3. CASE Refused(k) = Here
      BY <2>3 DEF Recounted
    <2> QED BY <2>1, <2>2, <2>3
  <1> QED BY <1>3, <1>4

(* More bytes, or the end of the file. *)
LEMMA CollectInv ==
    ASSUME ChipInv, t.pc \in Reading, NEW ch, IsChannel(ch), ch.key = t.chan.key, NEW bytes,
           Collect(ch, bytes) \/ FileRead(ch, bytes),
           NEW x, Stay(x), GoodChip(x.c), faults' \in Nat, x.c.ssc = ch.ssc
    PROVE  ChipInv'
  <1>1. ToBytes(t.pc, ch, bytes) \/ FileRead(ch, bytes)
    BY DEF Collect, More, ToBytes
  <1>2. CASE ToBytes(t.pc, ch, bytes)
    BY <1>2, BytesInv
  <1>3. CASE FileRead(ch, bytes)
    BY <1>3, FileReadInv
  <1> QED BY <1>1, <1>2, <1>3

(* READ BINARY of the next chunk. *)
LEMMA ReadChunkInv ==
    ASSUME ChipInv, t.pc \in {"body", "fid"}, NEW n, ReadChunk(n) PROVE ChipInv'
  <1>1. t.pc \in Reading /\ faults \in Nat
    BY DEF Reading, ChipInv, TypeInv
  <1>2. /\ t.chan.key # NoKey /\ IsChannel(t.chan) /\ t.pc \in Active /\ t.reader \in Readers
        /\ IsChip(Here) /\ t.mode \in {"can", "pin"}
    BY <1>1, ReadingKey DEF TypeInv
  <1> DEFINE arg == [f |-> File, off |-> Len(t.out), n |-> n, sfi |-> FALSE,
                     odd |-> t.mode = "can" /\ Len(t.out) >= SfiBit]
             cmd == Cmd("read", TRUE, arg)
  <1>3. PICK k \in Refusals :
         LET ch == CommandChannel(k)
             x == Execute(t.reader, Refused(k), cmd, ch)
         IN  IF k > 0
             THEN /\ t.reader \in there /\ faults' = faults + 1
                  /\ IF x.is = "ok"
                     THEN Collect(Received(ch, x.is), t.out \o x.data) /\ Stay(x)
                     ELSE IF Ended(x.is) THEN FileRead(Received(ch, x.is), t.out) /\ Stay(x)
                     ELSE ReadFails(x)
             ELSE \E y \in Exchange(t.reader, cmd, ch) :
                  /\ Cost(y)
                  /\ IF y.is = "ok"
                     THEN \E m \in 1..Len(y.data) :
                             Collect(Received(ch, y.is), t.out \o SubSeq(y.data, 1, m)) /\ Stay(y)
                     ELSE IF Ended(y.is) THEN FileRead(Received(ch, y.is), t.out) /\ Stay(y)
                     ELSE ReadFails(y)
    BY DEF ReadChunk, ReadCmd
  <1> DEFINE ch == CommandChannel(k)
             x == Execute(t.reader, Refused(k), cmd, ch)
  <1>4. NextCounter(ch) /\ IsChannel(ch) /\ ch.key = t.chan.key
    <2>1. k \in 0..2
      BY DEF Refusals
    <2> QED BY <1>2, <2>1, CommandChannelFacts DEF NextCounter
  <1>5. \A sw : /\ IsChannel(Received(ch, sw)) /\ Received(ch, sw).key = ch.key
                /\ sw \notin Unprotected => Received(ch, sw).ssc = ch.ssc + 1
    BY <1>4, SentFacts
  <1> HIDE DEF ch
  <1>6. ASSUME NEW y, NEW bytes, GoodChip(y.c), faults' \in Nat,
               y.is \notin {"lost", "bad"} \cup Unprotected => y.c.ssc = ch.ssc + 1,
               \/ (y.is = "ok" \/ Ended(y.is)) /\ Stay(y)
                  /\ (Collect(Received(ch, y.is), bytes) \/ FileRead(Received(ch, y.is), bytes))
               \/ ReadFails(y)
        PROVE  ChipInv'
    <2>1. CASE ReadFails(y)
      BY <1>1, <1>6, <2>1, ReadFailsInv
    <2>2. CASE /\ (y.is = "ok" \/ Ended(y.is)) /\ Stay(y)
               /\ (Collect(Received(ch, y.is), bytes) \/ FileRead(Received(ch, y.is), bytes))
      <3> DEFINE c == Received(ch, y.is)
      <3>1. IsChannel(c) /\ c.key = t.chan.key /\ y.c.ssc = c.ssc
        BY <1>4, <1>5, <1>6, <2>2 DEF Ended, Unprotected, OwnReason
      <3> HIDE DEF c
      <3>2. Collect(c, bytes) \/ FileRead(c, bytes)
        BY <2>2 DEF c
      <3> QED BY <1>1, <1>6, <2>2, <3>1, <3>2, CollectInv
    <2> QED BY <1>6, <2>1, <2>2
  <1>7. CASE k > 0
    <2>1. /\ faults' = faults + 1
          /\ IF x.is = "ok"
             THEN Collect(Received(ch, x.is), t.out \o x.data) /\ Stay(x)
             ELSE IF Ended(x.is) THEN FileRead(Received(ch, x.is), t.out) /\ Stay(x)
             ELSE ReadFails(x)
      BY <1>3, <1>7 DEF ch
    <2>2. Recounted(Refused(k)) /\ IsChip(Refused(k))
      BY <1>2, RefusedFacts DEF Recounted
    <2>3. IsProtected(cmd) /\ cmd.sm \in BOOLEAN
      BY DEF IsProtected, Cmd
    <2> HIDE DEF cmd
    <2>4. Effects(t.reader, Refused(k), x, cmd, ch)
      BY <1>2, <1>4, <2>2, <2>3, ExecuteEffect DEF Effects
    <2> HIDE DEF x
    <2>5. GoodChip(x.c) /\ (x.is \notin {"lost", "bad"} \cup Unprotected => x.c.ssc = ch.ssc + 1)
      BY <1>2, <1>4, <2>2, <2>3, <2>4, SmStep
    <2>6. faults' \in Nat
      BY <1>1, <2>1
    <2>7. CASE x.is = "ok"
      BY <1>6, <2>1, <2>5, <2>6, <2>7
    <2>8. CASE x.is # "ok" /\ Ended(x.is)
      BY <1>6, <2>1, <2>5, <2>6, <2>8
    <2>9. CASE x.is # "ok" /\ ~Ended(x.is)
      BY <1>6, <2>1, <2>5, <2>6, <2>9
    <2> QED BY <2>7, <2>8, <2>9
  <1>8. CASE ~(k > 0)
    <2> HIDE DEF arg
    <2>1. PICK y \in Exchange(t.reader, cmd, ch) :
            /\ Cost(y)
            /\ IF y.is = "ok"
               THEN \E m \in 1..Len(y.data) :
                       Collect(Received(ch, y.is), t.out \o SubSeq(y.data, 1, m)) /\ Stay(y)
               ELSE IF Ended(y.is) THEN FileRead(Received(ch, y.is), t.out) /\ Stay(y)
               ELSE ReadFails(y)
      BY <1>3, <1>8 DEF ch
    <2>2. /\ GoodChip(y.c) /\ y.cost \in {0, 1}
          /\ y.is \notin {"lost", "bad"} \cup Unprotected => y.c.ssc = ch.ssc + 1
      BY <1>1, <1>4, ReadExchange
    <2>3. faults' \in Nat
      BY <2>1, <2>2, CostTyped
    <2> HIDE DEF cmd
    <2>4. CASE y.is = "ok"
      <3>1. PICK m \in 1..Len(y.data) :
              Collect(Received(ch, y.is), t.out \o SubSeq(y.data, 1, m)) /\ Stay(y)
        BY <2>1, <2>4
      <3> QED BY <1>6, <2>2, <2>3, <2>4, <3>1
    <2>5. CASE y.is # "ok" /\ Ended(y.is)
      BY <1>6, <2>1, <2>2, <2>3, <2>5
    <2>6. CASE y.is # "ok" /\ ~Ended(y.is)
      BY <1>6, <2>1, <2>2, <2>3, <2>6
    <2> QED BY <2>4, <2>5, <2>6
  <1> QED BY <1>7, <1>8

(* A card is lifted or put on a reader. *)
LEMMA LiftInv ==
    ASSUME ChipInv, Lift PROVE ChipInv'
  <1>1. /\ t' = t /\ kind' = kind /\ ret' = ret /\ faults' = faults + 1
        /\ t.pc \notin {"idle", "context", "dead"} /\ t.reader \in there
        /\ chip' = [chip EXCEPT ![t.reader] = Powered(@, 4)]
    BY DEF Lift
  <1>2. TypeInv /\ DOMAIN chip = Readers /\ faults' \in Nat
    BY <1>1 DEF ChipInv, TypeInv
  <1>3. CASE t.reader \notin Readers
    <2>1. DOMAIN chip' = DOMAIN chip /\ \A r \in Readers : chip'[r] = chip[r]
      BY <1>1, <1>2, <1>3
    <2>2. MoveChips
      BY <1>1, <2>1, SameChips
    <2>3. Moves
      <3>1. t.pc \in {"reader", "access"} \cup Active
        BY <1>1, <1>2 DEF TypeInv, Outside
      <3> QED BY <1>1, <1>2, <3>1 DEF Moves, TypeInv
    <2>4. t.pc = "reader"
      BY <1>1, <1>2, <1>3 DEF ChipInv, PlaceInv, TypeInv, Outside
    <2>5. t.i = 1 /\ t.level = 1
      BY <2>4 DEF ChipInv, PlaceInv, Active, Reading
    <2>6. t.resetRequired => \E r \in Readers : ~Chip[r].access \/ Chip[r].hides > 2
      BY DEF ChipInv, ToldInv
    <2> QED BY <1>1, <2>2, <2>3, <2>4, <2>5, <2>6, ReaderInv
  <1>4. CASE t.reader \in Readers
    <2> DEFINE d == Powered(chip[t.reader], 4)
    <2>1. IsChip(chip[t.reader]) /\ chip[t.reader].charged = 0 /\ chip[t.reader].hidden \in 0..4
      BY <1>1, <1>2, <1>4 DEF TypeInv, ChipInv, ChargeInv, IsChip
    <2>2. t.mode = "can" => ~chip[t.reader].dropped
      BY <1>4 DEF ChipInv, KeyInv
    <2>3. /\ IsChip(d) /\ d.key = NoKey /\ d.charged = 0
          /\ d.hidden = 0
      <3>1. /\ IsChip(d) /\ d.key = NoKey /\ d.charged = chip[t.reader].charged
            /\ d.hidden = IF chip[t.reader].hidden <= 4 THEN 0 ELSE chip[t.reader].hidden
        BY <2>1, PoweredTyped
      <3> HIDE DEF d
      <3> QED BY <2>1, <3>1
    <2>4. d.verified = FALSE /\ d.dropped = chip[t.reader].dropped
      BY <2>1, PoweredTyped
    <2> HIDE DEF d
    <2>5. chip' = [chip EXCEPT ![t.reader] = d]
      BY <1>1 DEF d
    <2>6. MoveChips
      BY <1>1, <1>4, <2>2, <2>3, <2>4, <2>5, StayChips
    <2>7. chip'[t.reader] = d
      BY <1>2, <1>4, <2>3, <2>5, ChipReplaced
    <2>8. Moves
      <3>1. t.pc \in {"reader", "access"} \cup Active
        BY <1>1, <1>2 DEF TypeInv, Outside
      <3> QED BY <1>1, <1>2, <3>1 DEF Moves, TypeInv
    <2>9. Script' = Script /\ LibraryKey(t.secret)' = LibraryKey(t.secret)
      BY <1>1, SameScript
    <2>10. PlaceInv'
      BY <1>1, <2>9 DEF ChipInv, PlaceInv
    <2>11. ASSUME t.pc \in Active \cup {"access"} PROVE IF t.mode = "can" THEN CanKeys' ELSE PinKeys'
      <3>1. CASE t.mode = "can"
        <4>1. CanKeys
          BY <2>11, <3>1 DEF ChipInv, KeyInv
        <4>2. CanKeys'
          BY <1>1, <2>3, <2>7, <2>9, <4>1 DEF CanKeys
        <4> QED BY <3>1, <4>2
      <3>2. CASE t.mode # "can"
        <4>1. PinKeys
          BY <2>11, <3>2 DEF ChipInv, KeyInv
        <4>2. PinKeys'
          BY <1>1, <2>3, <2>4, <2>7, <2>9, <4>1 DEF PinKeys
        <4> QED BY <3>2, <4>2
      <3> QED BY <3>1, <3>2
    <2>12. t.resetRequired => \E r \in Readers : ~Chip[r].access \/ Chip[r].hides > 2
      BY DEF ChipInv, ToldInv
    <2> QED BY <1>1, <2>3, <2>6, <2>7, <2>8, <2>10, <2>11, <2>12, MoveInv
  <1> QED BY <1>3, <1>4

(* The invariant speaks of these variables only. *)
LEMMA UnchangedInv ==
    ASSUME ChipInv, UNCHANGED <<t, chip, ret, kind, heard, faults>> PROVE ChipInv'
  <1>1. Script' = Script /\ LibraryKey(t.secret)' = LibraryKey(t.secret)
    BY SameScript
  <1>2. TypeInv'
    BY DEF ChipInv, TypeInv
  <1>3. PlaceInv'
    BY <1>1 DEF ChipInv, PlaceInv
  <1>4. CanKeys => CanKeys'
    BY <1>1 DEF CanKeys
  <1>5. PinKeys => PinKeys'
    BY <1>1 DEF PinKeys
  <1>6. KeyInv'
    BY <1>4, <1>5 DEF ChipInv, KeyInv
  <1>7. ChargeInv' /\ ToldInv'
    BY DEF ChipInv, ChargeInv, ToldInv
  <1>8. OutcomeTold'
    BY DEF ChipInv, OutcomeTold, ChargedIsTold, FailureModesTold
  <1> QED BY <1>2, <1>3, <1>6, <1>7, <1>8 DEF ChipInv

----------------------------------------------------------------------------
(* PACE, or the key exchange and the two authentications. *)

(* The current command. *)
LEMMA NowFacts ==
    ASSUME ChipInv, t.pc = "script"
    PROVE  /\ Now.sm \in BOOLEAN /\ (Now.op = "ga1" => ~Now.sm)
           /\ Now.op = "verify" => Now.sm /\ Now.arg = t.secret /\ t.mode = "pin"
           /\ Now.op = "ga4" => ~Now.sm /\ t.mode = "can" /\ t.i = Len(Script) - 1
           /\ Now.op = "random" => Now.sm
           /\ Now.op = "get_dh" => ~Now.sm /\ t.mode = "pin"
           /\ Now.op = "mse" => t.mode = "can"
           /\ t.mode = "can" => \/ t.i < Len(Script) - 1 /\ Now \in PaceCmds
                                \/ /\ t.i = Len(Script) - 1
                                   /\ Now = Cmd("ga4", FALSE, authToken(LibraryKey(t.secret)))
                                \/ t.i = Len(Script) /\ Now = Cmd("select_emrtd", TRUE, None)
           /\ t.i \in 1..Len(Script) /\ Len(Script) \in Nat
  <1>1. t.mode \in {"can", "pin"} /\ t.i \in Nat \ {0} /\ t.i <= Len(Script)
    BY DEF ChipInv, TypeInv, PlaceInv
  <1>2. Len(Script) \in Nat /\ t.i \in 1..Len(Script)
    BY <1>1, ScriptLength
  <1>3. CASE t.mode = "can"
    <2>1. /\ Script[Len(Script)] = Cmd("select_emrtd", TRUE, None)
          /\ Script[Len(Script) - 1] = Cmd("ga4", FALSE, authToken(LibraryKey(t.secret)))
          /\ \A i \in 1..Len(Script) - 2 : Script[i] \in PaceCmds
      BY <1>3, ScriptOfCan
    <2>2. t.i = Len(Script) \/ t.i = Len(Script) - 1 \/ (t.i < Len(Script) - 1 /\ t.i \in 1..Len(Script) - 2)
      BY <1>2
    <2>3. CASE t.i = Len(Script)
      <3>1. Now = Cmd("select_emrtd", TRUE, None)
        BY <2>1, <2>3 DEF Now
      <3>2. Now.op = "select_emrtd" /\ Now.sm = TRUE
        BY <3>1 DEF Cmd
      <3> QED BY <1>2, <2>3, <3>1, <3>2
    <2>4. CASE t.i = Len(Script) - 1
      <3>1. Now = Cmd("ga4", FALSE, authToken(LibraryKey(t.secret)))
        BY <2>1, <2>4 DEF Now
      <3>2. Now.op = "ga4" /\ Now.sm = FALSE
        BY <3>1 DEF Cmd
      <3> QED BY <1>2, <1>3, <2>4, <3>1, <3>2
    <2>5. CASE t.i < Len(Script) - 1 /\ t.i \in 1..Len(Script) - 2
      <3>1. Now \in PaceCmds
        BY <2>1, <2>5 DEF Now
      <3>2. Now.op \in {"mse", "mse_param", "ga1", "ga2", "ga3"} /\ Now.sm = FALSE
        BY <3>1 DEF PaceCmds
      <3> QED BY <1>2, <1>3, <2>5, <3>1, <3>2
    <2> QED BY <2>2, <2>3, <2>4, <2>5
  <1>4. CASE t.mode = "pin"
    <2>1. Now \in PinCmds
      BY <1>2, <1>4, ScriptOfPin DEF Now
    <2>2. /\ Now.op \in Protecteds \cup Clears /\ Now.sm \in BOOLEAN
          /\ (Now.sm <=> Now.op \in Protecteds) /\ (Now.op = "verify" => Now.arg = t.secret)
      BY <2>1 DEF PinCmds
    <2>3. "verify" \in Protecteds /\ "random" \in Protecteds
      BY DEF Protecteds
    <2>4. "get_dh" \notin Protecteds /\ {"ga1", "ga4", "mse"} \cap (Protecteds \cup Clears) = {}
      BY DEF Protecteds, Clears
    <2> QED BY <1>2, <1>4, <2>2, <2>3, <2>4
  <1> QED BY <1>1, <1>3, <1>4

(* What the exchange of the current command does to the card. *)
Told(x) == Now.op \in {"ga4", "verify"} /\ x.is \in {"wrong", "lost", "bad"}
(* What a command of the script does to the chip, the try it may charge     *)
(* included.                                                                *)
LEMMA AuthChip ==
    ASSUME ChipInv, t.pc = "script", NEW ch, ch = IF Now.sm THEN Sent(t.chan) ELSE t.chan,
           NEW x, Effects(t.reader, Here, x, Now, ch)
    PROVE  /\ IsChip(x.c) /\ x.c.hidden \in {0, chip[t.reader].hidden, Chip[t.reader].hides}
           /\ t.mode = "can" => ~x.c.dropped
           /\ \/ x.c.charged = 0
              \/ x.c.charged = 1 /\ Told(x) /\ (Now.op = "ga4" => x.c.key = NoKey)
  <1>1. t.pc \in Active /\ t.pc \notin {"idle", "dead"} /\ t.reader \in Readers
    BY DEF Active, ChipInv, PlaceInv
  <1>2. Here = chip[t.reader] /\ Here.charged = 0
    BY <1>1 DEF Here, ChipInv, ChargeInv
  <1>3. /\ Now.sm \in BOOLEAN
        /\ Now.op = "ga4" => ~Now.sm /\ t.mode = "can" /\ t.i = Len(Script) - 1
        /\ Now.op = "verify" => Now.sm
        /\ t.i \in 1..Len(Script) /\ Len(Script) \in Nat
    BY NowFacts
  <1>4. Effect(t.reader, Here, x, Now, ch)
    BY DEF Effects
  <1>5. Now.op = "ga4" => Here.key = NoKey
    <2> SUFFICES ASSUME Now.op = "ga4" PROVE Here.key = NoKey
      OBVIOUS
    <2>1. t.mode = "can" /\ t.i < Len(Script)
      BY <1>3
    <2> QED BY <1>1, <1>2, <2>1 DEF ChipInv, KeyInv, CanKeys
  <1>6. \/ x.c.charged = 0
        \/ x.c.charged = 1 /\ Told(x) /\ (Now.op = "ga4" => x.c.key = NoKey)
    <2>1. CASE x.c.charged = Here.charged
      BY <1>2, <2>1
    <2>2. CASE /\ x.c.charged = Here.charged + 1 /\ x.is \in {"wrong", "lost", "bad"}
               /\ IF Now.sm THEN Now.op = "verify" /\ Now.arg # Chip[t.reader].pin
                  ELSE Now.op = "ga4" /\ x.c.key \in {Here.key, NoKey}
      <3>1. Now.op \in {"ga4", "verify"} /\ (Now.op = "ga4" => x.c.key = NoKey)
        BY <1>3, <1>5, <2>2
      <3> QED BY <1>2, <2>2, <3>1 DEF Told
    <2> QED BY <1>4, <2>1, <2>2 DEF Effect
  <1>7. ASSUME t.mode = "can" PROVE ~x.c.dropped
    <2>1. ~Here.dropped
      BY <1>1, <1>2, <1>7 DEF ChipInv, KeyInv
    <2>2. CASE ~Now.sm
      <3>1. x.c.dropped = Here.dropped
        BY <2>2 DEF Effects, PlainEffect
      <3> QED BY <2>1, <3>1
    <2>3. CASE Now.sm
      <3>1. t.i = Len(Script)
        <4>1. ASSUME Now \in PaceCmds PROVE FALSE
          <5>1. Now.sm = FALSE
            BY <4>1 DEF PaceCmds
          <5> QED BY <2>3, <5>1
        <4>2. ASSUME Now = Cmd("ga4", FALSE, authToken(LibraryKey(t.secret))) PROVE FALSE
          <5>1. Now.sm = FALSE
            BY <4>2 DEF Cmd
          <5> QED BY <2>3, <5>1
        <4> QED BY <1>7, <4>1, <4>2, NowFacts
      <3>2. t.chan.key # NoKey
        BY <1>1, <1>7, <3>1 DEF ChipInv, KeyInv, CanKeys
      <3>3. Here.key = t.chan.key => Here.ssc = t.chan.ssc
        BY <1>1, <1>2, <3>2 DEF ChipInv, KeyInv
      <3>4. ch.key = t.chan.key /\ ch.ssc = t.chan.ssc + 1
        BY <2>3, SentFacts DEF ChipInv, TypeInv
      <3>5. x.c.dropped = Here.dropped
        BY <2>3, <3>2, <3>3, <3>4 DEF Effects, SmEffect
      <3> QED BY <2>1, <3>5
    <2> QED BY <1>3, <2>2, <2>3
  <1>8. IsChip(x.c) /\ x.c.hidden \in {0, chip[t.reader].hidden, Chip[t.reader].hides}
    BY <1>2, <1>4 DEF Effect
  <1> QED BY <1>6, <1>7, <1>8

(* The command of the script is exchanged in the channel. *)
LEMMA AuthExchange ==
    ASSUME ChipInv, t.pc = "script", NEW ch, ch = IF Now.sm THEN Sent(t.chan) ELSE t.chan,
           NEW x \in Exchange(t.reader, Now, ch)
    PROVE  Effects(t.reader, Here, x, Now, ch) /\ x.cost \in {0, 1}
  <1>1. t.reader \in Readers /\ IsChip(chip[t.reader]) /\ IsChannel(t.chan)
    BY DEF Active, ChipInv, PlaceInv, TypeInv
  <1>2. Now.sm \in BOOLEAN /\ (Now.op = "ga1" => ~Now.sm)
    BY NowFacts
  <1>3. IsChannel(ch)
    BY <1>1, SentFacts
  <1> QED BY <1>1, <1>2, <1>3, ExchangeEffects DEF Here

(* The card after such an exchange. *)
AuthOutcome(x) ==
  /\ IsChip(x.c) /\ x.c.hidden \in {0, chip[t.reader].hidden, Chip[t.reader].hides}
  /\ t.mode = "can" => ~x.c.dropped
  /\ \/ x.c.charged = 0
     \/ x.c.charged = 1 /\ Told(x) /\ (Now.op = "ga4" => x.c.key = NoKey)

(* The attempt ends after the exchange, and tells of the try when it cost one. *)
LEMMA AuthEnd ==
    ASSUME ChipInv, t.pc = "script", NEW x, AuthOutcome(x), Left(x.c), faults' \in Nat,
           EndTells, x.c.charged = 0 \/ EndTellsTry
    PROVE  ChipInv'
  <1>1. t.pc \notin {"idle", "dead"} /\ t.reader \in Readers
    BY DEF ChipInv, PlaceInv, Active
  <1>2. EndChips
    BY <1>1, LeftChips DEF AuthOutcome
  <1> QED BY <1>1, <1>2, EndInv

(* What the ends of the authentication tell. *)
LEMMA AuthTells ==
    ASSUME ChipInv, t.pc = "script"
    PROVE  /\ WrongSecret => EndTellsTry
           /\ \A sw : /\ failFromResult(sw) => EndTells
                      /\ failFromResult(sw) /\ t.mode = "can" /\ heard' = "damaged" => EndTellsTry
           /\ OnceReturns("GENERAL_ERROR", kind) => EndTells
           /\ OnceReturns("PIN_LOCKED", kind) => EndTells
           /\ OnceReturns("DEVICE_ERROR", "INS_NOT_SUPPORTED") /\ ~Chip[t.reader].extended
              => EndTells
           /\ \A op : /\ RetryOnCardLinkError(Retryable(op)) => EndTells
                      /\ RetryOnCardLinkError(Retryable(op)) /\ op \in {"ga4", "verify"} => EndTellsTry
                      /\ BadAnswer(op) => EndTells
                      /\ BadAnswer(op) /\ t.mode # "can" /\ op \in {"ga4", "verify"} => EndTellsTry
  <1>1. t.pc \notin {"idle", "dead"} /\ TypeInv /\ ToldInv /\ (t.mode = "can" => kind = None)
    BY DEF ChipInv, ToldInv
  <1>2. ASSUME WrongSecret PROVE EndTellsTry
    <2> DEFINE k == IF t.mode = "can" THEN "WRONG_CAN" ELSE kind
    <2>1. t.mode = "can" => CanTold("PIN_INCORRECT", k)
      BY DEF CanTold
    <2>2. OnceReturns("PIN_INCORRECT", k)
      BY <1>2 DEF WrongSecret
    <2> HIDE DEF k
    <2> QED BY <1>1, <2>1, <2>2, OnceTells
  <1>3. ASSUME NEW sw, failFromResult(sw)
        PROVE  EndTells /\ (t.mode = "can" /\ heard' = "damaged" => EndTellsTry)
    <2>1. t.mode = "can" => CanTold("GENERAL_ERROR", IF sw = "0" THEN kind ELSE cie_classify_sw(sw))
      <3>1. t.mode = "can" => CanTold("GENERAL_ERROR", kind)
        BY <1>1 DEF CanTold, None
      <3> QED BY <3>1, ClassifiedTold
    <2> QED BY <1>1, <1>3, <2>1, OnceTells DEF failFromResult
  <1>4. ASSUME OnceReturns("GENERAL_ERROR", kind) PROVE EndTells
    <2>1. t.mode = "can" => CanTold("GENERAL_ERROR", kind)
      BY <1>1 DEF CanTold, None
    <2> QED BY <1>1, <1>4, <2>1, OnceTells
  <1>5. ASSUME OnceReturns("PIN_LOCKED", kind) PROVE EndTells
    <2>1. t.mode = "can" => CanTold("PIN_LOCKED", kind)
      BY <1>1 DEF CanTold, None
    <2> QED BY <1>1, <1>5, <2>1, OnceTells
  <1>6. ASSUME OnceReturns("DEVICE_ERROR", "INS_NOT_SUPPORTED"), ~Chip[t.reader].extended
        PROVE  EndTells
    <2>0. t.reader \in Readers
      BY DEF ChipInv, PlaceInv, Active
    <2>1. t.mode = "can" => CanTold("DEVICE_ERROR", "INS_NOT_SUPPORTED")
      BY <1>6, <2>0 DEF CanTold, None
    <2> QED BY <1>1, <1>6, <2>1, OnceTells
  <1>7. ASSUME NEW op, RetryOnCardLinkError(Retryable(op))
        PROVE  EndTells /\ (op \in {"ga4", "verify"} => EndTellsTry)
    <2> DEFINE b == Retryable(op)
    <2>1. b \in BOOLEAN /\ (op \in {"ga4", "verify"} => ~b) /\ RetryOnCardLinkError(b)
      BY <1>7 DEF Retryable
    <2> HIDE DEF b
    <2> QED BY <1>1, <2>1, RetryTells
  <1>8. ASSUME NEW op, BadAnswer(op)
        PROVE  EndTells /\ (t.mode # "can" /\ op \in {"ga4", "verify"} => EndTellsTry)
    BY <1>1, <1>7, <1>8, LinkErrorTells DEF BadAnswer
  <1> QED BY <1>2, <1>3, <1>4, <1>5, <1>6, <1>7, <1>8

(* The fields of the thread after a command of the script was answered. *)
LEMMA AdvanceFields ==
    ASSUME ChipInv, t.pc = "script", NEW ch, IsChannel(ch), Advance(ch), faults' \in Nat
    PROVE  /\ Keeps /\ t'.chan = ch /\ t'.level = t.level /\ t'.f = t.f /\ t'.damaged = t.damaged
           /\ t.i = Len(Script) => t'.pc = "select" /\ t'.i = t.i
           /\ t.i # Len(Script) => t'.pc = "script" /\ t'.i = t.i + 1
  <1>1. DOMAIN t = ThreadFields
    BY DEF ChipInv, TypeInv
  <1>2. CASE t.i = Len(Script)
    <2>1. t' = [t EXCEPT !.pc = "select", !.chan = ch] /\ kind' = kind
      BY <1>2 DEF Advance, Goes
    <2> QED BY <1>1, <1>2, <2>1 DEF Keeps, ThreadFields
  <1>3. CASE t.i # Len(Script)
    <2>1. t' = [t EXCEPT !.i = @ + 1, !.chan = ch] /\ kind' = kind
      BY <1>3 DEF Advance, Goes
    <2> QED BY <1>1, <1>3, <2>1 DEF Keeps, ThreadFields
  <1> QED BY <1>2, <1>3

(* A step of PACE. *)
LEMMA CanStep ==
    ASSUME ChipInv, t.pc = "script", t.mode = "can", t.i < Len(Script), Keeps, MoveChips,
           t'.pc = "script", t'.i = t.i + 1, t'.level = t.level, t'.f = t.f,
           t'.damaged \in BOOLEAN, IsChannel(t'.chan),
           chip'[t.reader].key \in {NoKey, OwnKey(t.reader)},
           t.i + 1 < Len(Script) => chip'[t.reader].key = NoKey /\ t'.chan.key = NoKey,
           t.i + 1 = Len(Script) => t'.chan.key = LibraryKey(t.secret)',
           t'.chan.key # NoKey /\ chip'[t.reader].key = t'.chan.key
           => chip'[t.reader].ssc = t'.chan.ssc
    PROVE  ChipInv'
  <1>1. TypeInv /\ t.pc \in Active /\ t'.pc \in Active
    BY DEF ChipInv, Active
  <1>2. t'.mode = "can" /\ t'.reader = t.reader /\ t'.secret = t.secret
    BY DEF Keeps
  <1>3. Len(Script') = Len(Script)
    BY <1>2, SameLength
  <1>4. t.i \in Nat /\ Len(Script) \in Nat /\ t'.i \in Nat \ {0} /\ t'.i <= Len(Script)
    BY <1>1, ScriptLength DEF TypeInv
  <1>5. LibraryKey(t.secret)' # NoKey
    BY DEF LibraryKey, PaceKey, kdf, NoKey
  <1>6. t'.i = Len(Script) \/ t'.i < Len(Script)
    BY <1>4
  <1>7. CanKeys'
    <2>1. CASE t'.i = Len(Script)
      <3>1. t'.chan.key = LibraryKey(t.secret)' /\ ~(t'.i < Len(Script'))
        BY <1>3, <1>4, <2>1
      <3> QED BY <1>2, <1>5, <3>1 DEF CanKeys, Reading
    <2>2. CASE t'.i < Len(Script)
      <3>1. chip'[t.reader].key = NoKey /\ t'.chan.key = NoKey /\ t'.i # Len(Script')
        BY <1>3, <1>4, <2>2
      <3> QED BY <1>2, <3>1 DEF CanKeys, Reading
    <2> QED BY <1>6, <2>1, <2>2
  <1>8. t'.level \in {1, 2, 3} /\ t'.f \in {1, 2}
    BY <1>1 DEF TypeInv
  <1> QED BY <1>1, <1>3, <1>4, <1>7, <1>8, ActiveInv

(* The channel after the answer, by the command. *)
LEMMA ChannelAfterFacts ==
    ASSUME ChipInv, t.pc = "script"
    PROVE  /\ Now.op = "ga4" => ChannelAfter(Now) = [key |-> LibraryKey(t.secret), ssc |-> 0]
           /\ Now.op = "get_dh" => ChannelAfter(Now) = [key |-> <<"dh">>, ssc |-> 1]
           /\ Now.op = "random" => ChannelAfter(Now) = [t.chan EXCEPT !.ssc = 50]
           /\ Now.sm /\ Now.op # "random" => ChannelAfter(Now) = Received(Sent(t.chan), "ok")
           /\ ~Now.sm /\ Now.op \notin {"ga4", "get_dh"} => ChannelAfter(Now) = t.chan
  <1>1. /\ Now.op = "ga4" => ~Now.sm
        /\ Now.op = "random" => Now.sm
        /\ Now.op = "get_dh" => ~Now.sm
    BY NowFacts
  <1>2. CASE Now.op \in {"ga4", "get_dh", "random"}
    BY <1>1, <1>2 DEF ChannelAfter
  <1>3. CASE Now.op \notin {"ga4", "get_dh", "random"} /\ Now.sm
    BY <1>1, <1>3 DEF ChannelAfter
  <1>4. CASE Now.op \notin {"ga4", "get_dh", "random"} /\ ~Now.sm
    BY <1>1, <1>4 DEF ChannelAfter
  <1> QED BY <1>1, <1>2, <1>3, <1>4

(* The commands of PACE before the token. *)
LEMMA PaceStep ==
    ASSUME ChipInv, t.pc = "script", t.mode = "can", Now \in PaceCmds, t.i < Len(Script) - 1,
           NEW ch, NEW x, Effects(t.reader, Here, x, Now, ch), Stay(x), faults' \in Nat,
           Advance(t.chan) \/ Goes([t EXCEPT !.i = @ + 1, !.damaged = TRUE])
    PROVE  ChipInv'
  <1>1. TypeInv /\ t.pc \in Active /\ t.reader \in Readers
    BY DEF ChipInv, PlaceInv, Active
  <1>2. t.i \in Nat /\ Len(Script) \in Nat /\ t.i < Len(Script) /\ t.i + 1 < Len(Script)
    BY <1>1, ScriptLength DEF TypeInv
  <1>3. chip[t.reader].key = NoKey /\ t.chan.key = NoKey
    BY <1>1, <1>2 DEF ChipInv, KeyInv, CanKeys
  <1>4. Now.op \notin {"ga4", "get_dh", "verify"}
    BY DEF PaceCmds
  <1>5. Now.sm = FALSE
    BY DEF PaceCmds
  <1>6. GoodChip(x.c)
    BY <1>1, <1>4, <1>5, PlainStep
  <1>7. chip' = [chip EXCEPT ![t.reader] = x.c]
    BY DEF Stay
  <1>8. MoveChips /\ chip'[t.reader] = x.c
    BY <1>1, <1>6, <1>7, GoodChips, ChipReplaced DEF GoodChip
  <1>9. chip'[t.reader].key = NoKey
    BY <1>3, <1>6, <1>8 DEF GoodChip
  <1>10. /\ Keeps /\ t'.chan = t.chan /\ t'.pc = "script" /\ t'.i = t.i + 1
         /\ t'.level = t.level /\ t'.f = t.f /\ t'.damaged \in BOOLEAN
    <2>1. CASE Advance(t.chan)
      <3>1. IsChannel(t.chan) /\ t.damaged \in BOOLEAN
        BY <1>1 DEF TypeInv
      <3> QED BY <1>2, <2>1, <3>1, AdvanceFields
    <2>2. CASE Goes([t EXCEPT !.i = @ + 1, !.damaged = TRUE])
      <3>1. t' = [t EXCEPT !.i = @ + 1, !.damaged = TRUE] /\ kind' = kind
        BY <2>2 DEF Goes
      <3>2. Keeps /\ t'.chan = t.chan /\ t'.pc = "script" /\ t'.i = t.i + 1
            /\ t'.level = t.level /\ t'.f = t.f
        BY <1>1, <3>1 DEF Keeps, TypeInv, ThreadFields
      <3>3. t'.damaged = TRUE
        BY <1>1, <3>1 DEF TypeInv, ThreadFields
      <3>4. t'.damaged \in BOOLEAN
        BY <3>3, Zenon
      <3> QED BY <3>2, <3>4
    <2> QED BY <2>1, <2>2
  <1>11. IsChannel(t'.chan) /\ t'.chan.key = NoKey /\ t.i + 1 # Len(Script)
    BY <1>1, <1>2, <1>3, <1>10 DEF TypeInv
  <1> QED BY <1>2, <1>8, <1>9, <1>10, <1>11, CanStep

(* The token is accepted: both have the key of the same number. *)
LEMMA TokenStep ==
    ASSUME ChipInv, t.pc = "script", t.mode = "can", t.i = Len(Script) - 1,
           Now = Cmd("ga4", FALSE, authToken(LibraryKey(t.secret))),
           NEW ch, NEW x, x.is = "ok", Effects(t.reader, Here, x, Now, ch), AuthOutcome(x),
           Stay(x), faults' \in Nat, Advance([key |-> LibraryKey(t.secret), ssc |-> 0])
    PROVE  ChipInv'
  <1> DEFINE new == [key |-> LibraryKey(t.secret), ssc |-> 0]
  <1>1. TypeInv /\ t.pc \notin {"idle", "dead"} /\ t.reader \in Readers /\ t.secret \in CANs
        /\ t.damaged \in BOOLEAN
    BY DEF ChipInv, PlaceInv, Active, TypeInv
  <1>2. t.i \in Nat /\ Len(Script) \in Nat /\ t.i < Len(Script) /\ t.i + 1 = Len(Script)
    BY <1>1, ScriptLength DEF TypeInv
  <1>3. IsChannel(new) /\ new.key = LibraryKey(t.secret) /\ new.ssc = 0
    <2>1. LibraryKey(t.secret) \in Keys
      BY <1>1 DEF LibraryKey, Nonce, Keys
    <2> QED BY <2>1 DEF IsChannel
  <1>4. Now.op = "ga4" /\ Now.op # "get_dh"
    BY DEF Cmd
  <1>5. Now.sm = FALSE
    BY DEF Cmd
  <1>6. x.c.key = OwnKey(t.reader) /\ x.c.ssc = 0
    BY <1>4, <1>5 DEF Effects, PlainEffect
  <1>7. x.c.charged = 0
    BY DEF AuthOutcome, Told
  <1>8. chip' = [chip EXCEPT ![t.reader] = x.c]
    BY DEF Stay
  <1>9. MoveChips /\ chip'[t.reader] = x.c
    <2>1. IsChip(x.c) /\ x.c.hidden \in {0, chip[t.reader].hidden, Chip[t.reader].hides}
          /\ (t.mode = "can" => ~x.c.dropped)
      BY DEF AuthOutcome
    <2> QED BY <1>1, <1>7, <1>8, <2>1, StayChips, ChipReplaced
  <1> HIDE DEF new
  <1>10. /\ Keeps /\ t'.chan = new /\ t'.pc = "script" /\ t'.i = t.i + 1
         /\ t'.level = t.level /\ t'.f = t.f /\ t'.damaged = t.damaged
    <2>1. Advance(new)
      BY DEF new
    <2>2. t.i # Len(Script)
      BY <1>1, ScriptLength DEF TypeInv
    <2>3. /\ Keeps /\ t'.chan = new /\ t'.level = t.level /\ t'.f = t.f /\ t'.damaged = t.damaged
          /\ t.i # Len(Script) => t'.pc = "script" /\ t'.i = t.i + 1
      BY <1>3, <2>1, AdvanceFields
    <2> QED BY <2>2, <2>3
  <1>11. LibraryKey(t.secret)' = LibraryKey(t.secret)
    BY <1>10, SameScript DEF Keeps
  <1>12. ~(t.i + 1 < Len(Script)) /\ t'.damaged \in BOOLEAN
    BY <1>1, <1>2, <1>10
  <1> QED BY <1>2, <1>3, <1>6, <1>9, <1>10, <1>11, <1>12, CanStep

(* The eMRTD application is selected in the channel. *)
LEMMA ApplicationStep ==
    ASSUME ChipInv, t.pc = "script", t.mode = "can", t.i = Len(Script),
           Now = Cmd("select_emrtd", TRUE, None),
           NEW x, x.is = "ok", Effects(t.reader, Here, x, Now, Sent(t.chan)),
           Stay(x), faults' \in Nat, Advance(Received(Sent(t.chan), "ok"))
    PROVE  ChipInv'
  <1> DEFINE ch == Sent(t.chan)
             new == Received(ch, "ok")
  <1>1. TypeInv /\ t.pc \in Active /\ t.reader \in Readers /\ IsChannel(t.chan) /\ t.f \in {1, 2}
    BY DEF ChipInv, PlaceInv, Active, TypeInv
  <1>2. t.chan.key # NoKey
    BY <1>1 DEF ChipInv, KeyInv, CanKeys
  <1>3. IsChannel(ch) /\ ch.key = t.chan.key /\ ch.ssc = t.chan.ssc + 1
    BY <1>1, SentFacts
  <1> HIDE DEF ch
  <1>4. IsChannel(new) /\ new.key = t.chan.key /\ new.ssc = ch.ssc + 1
    BY <1>3, SentFacts DEF Unprotected, OwnReason
  <1>5. Effects(t.reader, Here, x, Now, ch) /\ Advance(new)
    BY DEF ch
  <1> HIDE DEF new
  <1>6. IsProtected(Now) /\ NextCounter(ch) /\ Recounted(Here)
    <2>1. Now.op = "select_emrtd"
      BY DEF Cmd
    <2>2. Now.sm = TRUE
      BY DEF Cmd
    <2>3. IsChip(Here)
      BY <1>1 DEF TypeInv, Here
    <2> QED BY <1>2, <1>3, <2>1, <2>2, <2>3 DEF IsProtected, NextCounter, Recounted
  <1>7. GoodChip(x.c) /\ x.c.ssc = ch.ssc + 1
    <2>1. x.is \notin {"lost", "bad"} \cup Unprotected
      BY DEF Unprotected, OwnReason
    <2> DEFINE cmd == Now
    <2>2. IsProtected(cmd)
      BY <1>6
    <2>3. Effects(t.reader, Here, x, cmd, ch)
      BY <1>5
    <2> HIDE DEF cmd
    <2>4. NextCounter(ch) /\ Recounted(Here) /\ t.pc \in Active
      BY <1>1, <1>6
    <2>5. /\ GoodChip(x.c)
          /\ x.is \notin {"lost", "bad"} \cup Unprotected => x.c.ssc = ch.ssc + 1
      BY <2>2, <2>3, <2>4, SmStep
    <2> QED BY <2>1, <2>5
  <1>8. /\ Keeps /\ t'.chan = new /\ t'.pc = "select" /\ t'.i = t.i
        /\ t'.level = t.level /\ t'.f = t.f /\ t'.damaged = t.damaged
    BY <1>4, <1>5, AdvanceFields
  <1>9. chip' = [chip EXCEPT ![t.reader] = x.c] /\ t'.pc \in Reading
    BY <1>8 DEF Stay, Reading
  <1> QED BY <1>1, <1>2, <1>4, <1>7, <1>8, <1>9, ReadStepInv

(* A step of the authentications with the PIN. *)
PinGood(c) ==
  /\ c.charged = 0 /\ c.key \in {NoKey, <<"dh">>}
  /\ c.verified => t.secret = Chip[t.reader].pin
PinChannel(c, new) ==
  /\ IsChannel(new)
  /\ t.chan.key # NoKey \/ Now.op = "get_dh" => new.key # NoKey
  /\ new.key # NoKey /\ c.key = new.key => c.ssc = new.ssc

(* A PIN operation goes on to its next command. *)
LEMMA PinStep ==
    ASSUME ChipInv, t.pc = "script", t.mode = "pin", NEW x, AuthOutcome(x), PinGood(x.c),
           NEW new, PinChannel(x.c, new), Stay(x), Advance(new), faults' \in Nat
    PROVE  ChipInv'
  <1>1. /\ TypeInv /\ t.pc \in Active /\ t.pc \notin {"idle", "dead"} /\ t.reader \in Readers
        /\ t.f \in {1, 2} /\ t.level \in {1, 2, 3} /\ t.i \in Nat \ {0}
    BY DEF ChipInv, PlaceInv, Active, TypeInv
  <1>2. t.i \in 1..Len(Script) /\ Len(Script) \in Nat
    BY NowFacts
  <1>3. IsChannel(new)
    BY DEF PinChannel
  <1>4. /\ Keeps /\ t'.chan = new /\ t'.level = t.level /\ t'.f = t.f /\ t'.damaged = t.damaged
        /\ t.i = Len(Script) => t'.pc = "select" /\ t'.i = t.i
        /\ t.i # Len(Script) => t'.pc = "script" /\ t'.i = t.i + 1
    BY <1>3, AdvanceFields
  <1>5. Script' = Script
    BY <1>4, SameScript DEF Keeps
  <1>6. chip' = [chip EXCEPT ![t.reader] = x.c]
    BY DEF Stay
  <1>7. MoveChips /\ chip'[t.reader] = x.c
    <2>1. IsChip(x.c) /\ x.c.hidden \in {0, chip[t.reader].hidden, Chip[t.reader].hides}
          /\ (t.mode = "can" => ~x.c.dropped) /\ x.c.charged = 0
      BY DEF AuthOutcome, PinGood
    <2> QED BY <1>1, <1>6, <2>1, StayChips, ChipReplaced
  <1>8. ASSUME NEW j \in 1..t.i, Script[j].op = "get_dh" PROVE new.key # NoKey
    <2>1. \A k \in 1..t.i - 1 : Script[k].op = "get_dh" => t.chan.key # NoKey
      BY <1>1 DEF ChipInv, KeyInv, PinKeys
    <2>2. CASE j = t.i
      BY <1>8, <2>2 DEF PinChannel, Now
    <2>3. CASE j # t.i
      <3>1. j \in 1..t.i - 1
        BY <1>1, <2>3
      <3> QED BY <1>8, <2>1, <3>1 DEF PinChannel
    <2> QED BY <2>2, <2>3
  <1>9. t'.mode = "pin" /\ t'.reader = t.reader /\ t'.secret = t.secret
    BY <1>4 DEF Keeps
  <1>10. PinKeys'
    <2>1. chip'[t'.reader].key \in {NoKey, <<"dh">>}
      BY <1>7, <1>9 DEF PinGood
    <2>2. chip'[t'.reader].verified => t'.secret = Chip[t'.reader].pin
      BY <1>7, <1>9 DEF PinGood
    <2>3. CASE t.i = Len(Script)
      <3>1. PICK j \in 1..Len(Script) : Script[j].op = "get_dh"
        BY ScriptOfPin DEF Has
      <3>2. new.key # NoKey
        BY <1>8, <2>3, <3>1
      <3> QED BY <1>4, <2>1, <2>2, <2>3, <3>2 DEF PinKeys, Reading
    <2>4. CASE t.i # Len(Script)
      <3>1. \A j \in 1..t'.i - 1 : Script'[j].op = "get_dh" => t'.chan.key # NoKey
        <4>1. t'.i - 1 = t.i
          BY <1>1, <1>4, <2>4
        <4> QED BY <1>4, <1>5, <1>8, <4>1
      <3>2. t'.pc = "script" /\ t'.pc \notin Reading
        BY <1>4, <2>4 DEF Reading
      <3> QED BY <2>1, <2>2, <3>1, <3>2 DEF PinKeys
    <2> QED BY <2>3, <2>4
  <1>11. t'.pc \in Active /\ t'.i \in Nat \ {0} /\ (t'.pc = "script" => t'.i <= Len(Script'))
    <2>1. CASE t.i = Len(Script)
      BY <1>1, <1>4, <2>1 DEF Active, Reading
    <2>2. CASE t.i # Len(Script)
      <3>1. t.i + 1 \in Nat \ {0} /\ t.i + 1 <= Len(Script)
        BY <1>2, <2>2
      <3> QED BY <1>4, <1>5, <2>2, <3>1 DEF Active
    <2> QED BY <2>1, <2>2
  <1>12. t'.damaged \in BOOLEAN
    BY <1>1, <1>4 DEF TypeInv
  <1>13. new.key # NoKey /\ chip'[t.reader].key = new.key => chip'[t.reader].ssc = new.ssc
    BY <1>7 DEF PinChannel
  <1> QED BY <1>1, <1>3, <1>4, <1>7, <1>10, <1>11, <1>12, <1>13, ActiveInv

(* Which state of the card the exchanges before and at the PIN leave. *)
LEMMA PinExchange ==
    ASSUME ChipInv, t.pc = "script", t.mode = "pin", NEW ch,
           ch = IF Now.sm THEN Sent(t.chan) ELSE t.chan,
           NEW x, Effects(t.reader, Here, x, Now, ch), AuthOutcome(x), ~Told(x)
    PROVE  PinGood(x.c)
  <1>1. t.pc \in Active /\ t.reader \in Readers /\ Here = chip[t.reader]
    BY DEF ChipInv, PlaceInv, Active, Here
  <1>2. /\ Here.key \in {NoKey, <<"dh">>}
        /\ Here.verified => t.secret = Chip[t.reader].pin
    BY <1>1 DEF ChipInv, KeyInv, PinKeys
  <1>3. /\ Now.sm \in BOOLEAN /\ (Now.op = "verify" => Now.arg = t.secret)
        /\ Now.op # "ga4"
    BY NowFacts
  <1>4. x.c.charged = 0
    BY DEF AuthOutcome
  <1>5. x.c.key \in {NoKey, <<"dh">>}
    BY <1>2, <1>3 DEF Effects, PlainEffect, SmEffect
  <1>6. x.c.verified => t.secret = Chip[t.reader].pin
    BY <1>2, <1>3 DEF Effects, Effect
  <1> QED BY <1>4, <1>5, <1>6 DEF PinGood

(* The answers after which cie_read_dgs goes on, and the channel then. *)
LEMMA PinAnswer ==
    ASSUME ChipInv, t.pc = "script", t.mode = "pin", NEW ch,
           ch = IF Now.sm THEN Sent(t.chan) ELSE t.chan,
           NEW x, Effects(t.reader, Here, x, Now, ch), PinGood(x.c)
    PROVE  /\ x.is = "ok" => PinChannel(x.c, ChannelAfter(Now))
           /\ x.is = "bad" /\ ~Now.sm
              => PinChannel(x.c, IF Now.op = "get_dh" THEN [key |-> <<"bad">>, ssc |-> 1]
                                 ELSE ChannelAfter(Now))
           /\ Now.op = "verify" /\ x.is \in Unprotected
              => PinChannel(x.c, getResp_SM(SM(t.chan), x.is))
  <1>1. t.pc \in Active /\ t.reader \in Readers /\ Here = chip[t.reader] /\ IsChannel(t.chan)
    BY DEF ChipInv, PlaceInv, Active, Here, TypeInv
  <1>2. t.chan.key # NoKey /\ Here.key = t.chan.key => Here.ssc = t.chan.ssc
    BY <1>1 DEF ChipInv, KeyInv
  <1>3. /\ Now.sm \in BOOLEAN /\ Now.op # "ga4" /\ (Now.op = "verify" => Now.sm)
        /\ (Now.op = "random" => Now.sm) /\ (Now.op = "get_dh" => ~Now.sm)
    BY NowFacts
  <1>4. CASE Now.op = "get_dh"
    <2> DEFINE a == [key |-> <<"dh">>, ssc |-> 1]
               b == [key |-> <<"bad">>, ssc |-> 1]
    <2>1. ChannelAfter(Now) = a
      BY <1>4, ChannelAfterFacts
    <2>2. IsChannel(a) /\ IsChannel(b) /\ a.key = <<"dh">> /\ a.ssc = 1 /\ b.key = <<"bad">>
      BY DEF IsChannel, Keys
    <2>3. a.key # NoKey /\ b.key # NoKey
      BY DEF NoKey
    <2>4. x.is = "ok" => x.c.ssc = 1
      BY <1>3, <1>4 DEF Effects, PlainEffect
    <2>5. x.c.key # <<"bad">>
      <3>1. <<"dh">> # <<"bad">> /\ NoKey # <<"bad">>
        BY DEF NoKey
      <3> QED BY <3>1 DEF PinGood
    <2> HIDE DEF a, b
    <2>6. (x.is = "ok" => PinChannel(x.c, a)) /\ PinChannel(x.c, b)
      BY <2>2, <2>3, <2>4, <2>5 DEF PinChannel
    <2> QED BY <1>3, <1>4, <2>1, <2>6 DEF b
  <1>5. CASE Now.op # "get_dh" /\ ~Now.sm
    <2>1. ChannelAfter(Now) = t.chan
      BY <1>3, <1>5, ChannelAfterFacts
    <2>2. x.c.key \in {Here.key, NoKey} /\ (x.c.key # NoKey => x.c.ssc = Here.ssc)
      BY <1>3, <1>5 DEF Effects, PlainEffect
    <2>3. PinChannel(x.c, t.chan)
      BY <1>1, <1>2, <1>5, <2>2 DEF PinChannel
    <2> QED BY <1>3, <1>5, <2>1, <2>3
  <1>6. CASE Now.sm
    <2>1. ch = Sent(t.chan) /\ IsChannel(ch) /\ ch.key = t.chan.key /\ ch.ssc = t.chan.ssc + 1
      BY <1>1, <1>6, SentFacts
    <2>2. Now.op # "get_dh"
      BY <1>3, <1>6
    <2>3. SmEffect(Here, x, Now, ch)
      BY <1>6 DEF Effects
    <2>4. ASSUME x.is = "ok" PROVE PinChannel(x.c, ChannelAfter(Now))
      <3>1. x.c.ssc = IF Now.op = "random" THEN 50 ELSE ch.ssc + 1
        BY <2>3, <2>4 DEF SmEffect, Unprotected, OwnReason
      <3>2. CASE Now.op = "random"
        <4> DEFINE a == [t.chan EXCEPT !.ssc = 50]
        <4>1. IsChannel(a) /\ a.key = t.chan.key /\ a.ssc = 50
          BY <1>1 DEF IsChannel
        <4>2. ChannelAfter(Now) = a
          BY <3>2, ChannelAfterFacts
        <4> HIDE DEF a
        <4> QED BY <2>2, <3>1, <3>2, <4>1, <4>2 DEF PinChannel
      <3>3. CASE Now.op # "random"
        <4> DEFINE a == Received(ch, "ok")
        <4>1. IsChannel(a) /\ a.key = t.chan.key /\ a.ssc = ch.ssc + 1
          BY <2>1, SentFacts DEF Unprotected, OwnReason
        <4>2. ChannelAfter(Now) = a
          BY <1>6, <2>1, <3>3, ChannelAfterFacts
        <4> HIDE DEF a
        <4> QED BY <2>2, <3>1, <3>3, <4>1, <4>2 DEF PinChannel
      <3> QED BY <3>2, <3>3
    <2>5. ASSUME x.is \in Unprotected PROVE PinChannel(x.c, getResp_SM(SM(t.chan), x.is))
      <3> DEFINE s == SM(t.chan)
                 a == getResp_SM(s, x.is)
      <3>1. IsChannel(s) /\ s.key = t.chan.key
        BY <1>1, SentFacts
      <3> HIDE DEF s
      <3>2. IsChannel(a) /\ a.key = t.chan.key
        BY <3>1, SentFacts
      <3>3. x.c.key = NoKey
        BY <2>3, <2>5 DEF SmEffect
      <3> HIDE DEF a
      <3>4. PinChannel(x.c, a)
        BY <2>2, <3>2, <3>3 DEF PinChannel
      <3> QED BY <3>4 DEF a, s
    <2> QED BY <1>6, <2>4, <2>5
  <1> QED BY <1>3, <1>4, <1>5, <1>6

(* The answers after which the script goes on. *)
AuthContinues(x) ==
  \/ x.is = "ok" /\ Advance(ChannelAfter(Now))
  \/ WantsParameter(Now.op, x.is) /\ Advance(t.chan)
  \/ /\ x.is = "bad" /\ ~Now.sm /\ Now.op # "ga4"
     /\ \/ /\ t.mode = "pin"
           /\ Advance(IF Now.op = "get_dh" THEN [key |-> <<"bad">>, ssc |-> 1]
                      ELSE ChannelAfter(Now))
        \/ Now.op = "ga1" /\ Goes([t EXCEPT !.i = @ + 1, !.damaged = TRUE])
  \/ /\ Now.op = "verify" /\ x.is \in Unprotected
     /\ Advance(getResp_SM(SM(t.chan), x.is))

(* An attempt with the CAN goes on after an answer. *)
LEMMA CanContinues ==
    ASSUME ChipInv, t.pc = "script", t.mode = "can", NEW ch,
           ch = IF Now.sm THEN Sent(t.chan) ELSE t.chan,
           NEW x, Effects(t.reader, Here, x, Now, ch), AuthOutcome(x), AuthContinues(x),
           Stay(x), faults' \in Nat
    PROVE  ChipInv'
  <1>1. /\ Now.op # "verify" /\ Now.sm \in BOOLEAN
        /\ \/ t.i < Len(Script) - 1 /\ Now \in PaceCmds
           \/ t.i = Len(Script) - 1 /\ Now = Cmd("ga4", FALSE, authToken(LibraryKey(t.secret)))
           \/ t.i = Len(Script) /\ Now = Cmd("select_emrtd", TRUE, None)
    BY NowFacts
  <1>2. CASE t.i < Len(Script) - 1 /\ Now \in PaceCmds
    <2>1. Now.sm = FALSE
      BY <1>2 DEF PaceCmds
    <2>2. Now.op \notin {"ga4", "get_dh"}
      BY <1>2 DEF PaceCmds
    <2>3. ChannelAfter(Now) = t.chan
      BY <2>1, <2>2, ChannelAfterFacts
    <2>4. Advance(t.chan) \/ Goes([t EXCEPT !.i = @ + 1, !.damaged = TRUE])
      BY <1>1, <2>3 DEF AuthContinues
    <2> QED BY <1>2, <2>4, PaceStep
  <1>3. CASE t.i = Len(Script) - 1 /\ Now = Cmd("ga4", FALSE, authToken(LibraryKey(t.secret)))
    <2>1. Now.op = "ga4"
      BY <1>3 DEF Cmd
    <2>2. ChannelAfter(Now) = [key |-> LibraryKey(t.secret), ssc |-> 0]
      BY <2>1, ChannelAfterFacts
    <2>3. x.is = "ok" /\ Advance(ChannelAfter(Now))
      BY <1>1, <2>1 DEF AuthContinues, WantsParameter
    <2>4. Advance([key |-> LibraryKey(t.secret), ssc |-> 0])
      BY <2>2, <2>3
    <2> QED BY <1>3, <2>3, <2>4, TokenStep
  <1>4. CASE t.i = Len(Script) /\ Now = Cmd("select_emrtd", TRUE, None)
    <2>1. Now.op = "select_emrtd"
      BY <1>4 DEF Cmd
    <2>2. Now.sm = TRUE
      BY <1>4 DEF Cmd
    <2>3. ChannelAfter(Now) = Received(Sent(t.chan), "ok") /\ ch = Sent(t.chan)
      BY <2>1, <2>2, ChannelAfterFacts
    <2>4. x.is = "ok" /\ Advance(ChannelAfter(Now))
      BY <2>1, <2>2 DEF AuthContinues, WantsParameter
    <2> QED BY <1>4, <2>3, <2>4, ApplicationStep
  <1> QED BY <1>1, <1>2, <1>3, <1>4

(* A PIN operation goes on after an answer. *)
LEMMA PinContinues ==
    ASSUME ChipInv, t.pc = "script", t.mode = "pin", NEW ch,
           ch = IF Now.sm THEN Sent(t.chan) ELSE t.chan,
           NEW x, Effects(t.reader, Here, x, Now, ch), AuthOutcome(x), AuthContinues(x),
           Stay(x), faults' \in Nat
    PROVE  ChipInv'
  <1>1. /\ Now.op \notin {"ga4", "mse"} /\ (Now.op = "verify" => Now.sm)
        /\ (Now.op = "get_dh" => ~Now.sm)
    BY NowFacts
  <1>2. Now.op # "ga1"
    <2>1. Now \in PinCmds
      BY NowFacts, ScriptOfPin DEF Now
    <2> QED BY <2>1 DEF PinCmds, Protecteds, Clears
  <1>3. ~Told(x)
    BY <1>1 DEF Told, AuthContinues, WantsParameter, Unprotected, OwnReason
  <1>4. PinGood(x.c)
    BY <1>3, PinExchange
  <1>5. \/ x.is = "ok" /\ Advance(ChannelAfter(Now))
        \/ /\ x.is = "bad" /\ ~Now.sm
           /\ Advance(IF Now.op = "get_dh" THEN [key |-> <<"bad">>, ssc |-> 1]
                      ELSE ChannelAfter(Now))
        \/ /\ Now.op = "verify" /\ x.is \in Unprotected
           /\ Advance(getResp_SM(SM(t.chan), x.is))
    BY <1>1, <1>2 DEF AuthContinues, WantsParameter
  <1>6. PICK new : PinChannel(x.c, new) /\ Advance(new)
    <2>1. CASE x.is = "ok" /\ Advance(ChannelAfter(Now))
      <3>1. PinChannel(x.c, ChannelAfter(Now))
        BY <1>4, <2>1, PinAnswer
      <3> QED BY <2>1, <3>1
    <2>2. CASE /\ x.is = "bad" /\ ~Now.sm
               /\ Advance(IF Now.op = "get_dh" THEN [key |-> <<"bad">>, ssc |-> 1]
                          ELSE ChannelAfter(Now))
      <3> DEFINE new == IF Now.op = "get_dh" THEN [key |-> <<"bad">>, ssc |-> 1]
                        ELSE ChannelAfter(Now)
      <3>1. PinChannel(x.c, new)
        BY <1>4, <2>2, PinAnswer
      <3>2. Advance(new)
        BY <2>2
      <3> HIDE DEF new
      <3> QED BY <3>1, <3>2
    <2>3. CASE /\ Now.op = "verify" /\ x.is \in Unprotected
               /\ Advance(getResp_SM(SM(t.chan), x.is))
      <3>1. PinChannel(x.c, getResp_SM(SM(t.chan), x.is))
        BY <1>4, <2>3, PinAnswer
      <3> QED BY <2>3, <3>1
    <2> QED BY <1>5, <2>1, <2>2, <2>3
  <1> QED BY <1>4, <1>6, PinStep

(* The answers after which the attempt ends. *)
AuthFails(x) ==
  \/ isAuthRejected(Now.op, x.is) /\ WrongSecret
  \/ x.is = "lost" /\ RetryOnCardLinkError(Retryable(Now.op))
  \/ x.is = "bad" /\ Now.sm /\ BadAnswer(Now.op)
  \/ x.is = "bad" /\ Now.op = "ga4" /\ (WrongSecret \/ \E sw \in Misread : failFromResult(sw))
  \/ /\ x.is = "bad" /\ ~Now.sm /\ Now.op # "ga4"
     /\ (\E sw \in Misread : failFromResult(sw)) \/ OnceReturns("GENERAL_ERROR", kind)
  \/ x.is = "6983" /\ OnceReturns("PIN_LOCKED", kind)
  \/ /\ x.is \notin {"lost", "bad", "wrong"}
     /\ \/ failFromResult(x.is)
        \/ OnceReturns("GENERAL_ERROR", kind)

(* An attempt ends inside its script. *)
LEMMA AuthFailsInv ==
    ASSUME ChipInv, t.pc = "script", NEW x, AuthOutcome(x), AuthFails(x), Left(x.c),
           heard' = (IF x.is = "bad" THEN "damaged" ELSE "whole"), faults' \in Nat
    PROVE  ChipInv'
  <1> USE AuthTells
  <1>1. /\ Now.op = "verify" => Now.sm /\ t.mode = "pin"
        /\ Now.op = "ga4" => ~Now.sm /\ t.mode = "can"
    BY NowFacts
  <1>2. \/ x.c.charged = 0
        \/ /\ Now.op \in {"ga4", "verify"} /\ x.is \in {"wrong", "lost", "bad"}
           /\ Now.op = "ga4" => x.c.key = NoKey
    BY DEF AuthOutcome, Told
  <1>3. CASE isAuthRejected(Now.op, x.is) /\ WrongSecret
    BY <1>3, AuthEnd DEF EndTellsTry
  <1>4. CASE x.is = "lost" /\ RetryOnCardLinkError(Retryable(Now.op))
    BY <1>2, <1>4, AuthEnd
  <1>5. CASE x.is = "bad" /\ Now.sm /\ BadAnswer(Now.op)
    BY <1>1, <1>2, <1>5, AuthEnd
  <1>6. CASE /\ x.is = "bad" /\ Now.op = "ga4"
             /\ WrongSecret \/ \E sw \in Misread : failFromResult(sw)
    <2>1. CASE WrongSecret
      BY <2>1, AuthEnd DEF EndTellsTry
    <2>2. ASSUME NEW sw \in Misread, failFromResult(sw) PROVE ChipInv'
      <3>1. EndTellsTry
        BY <1>1, <1>6, <2>2
      <3> QED BY <3>1, AuthEnd DEF EndTellsTry
    <2> QED BY <1>6, <2>1, <2>2
  <1>7. CASE /\ x.is = "bad" /\ ~Now.sm /\ Now.op # "ga4"
             /\ (\E sw \in Misread : failFromResult(sw)) \/ OnceReturns("GENERAL_ERROR", kind)
    BY <1>1, <1>2, <1>7, AuthEnd
  <1>8. CASE x.is = "6983" /\ OnceReturns("PIN_LOCKED", kind)
    BY <1>2, <1>8, AuthEnd
  <1>9. CASE /\ x.is \notin {"lost", "bad", "wrong"}
             /\ failFromResult(x.is) \/ OnceReturns("GENERAL_ERROR", kind)
    BY <1>2, <1>9, AuthEnd
  <1> QED BY <1>3, <1>4, <1>5, <1>6, <1>7, <1>8, <1>9 DEF AuthFails

(* A command of the script was exchanged: the attempt goes on or ends. *)
LEMMA AuthSplit ==
    ASSUME Authenticate, ~(Extended(Now.op) /\ ~Chip[t.reader].extended),
           NEW ch, ch = IF Now.sm THEN Sent(t.chan) ELSE t.chan
    PROVE  \E x \in Exchange(t.reader, Now, ch) :
              /\ Cost(x) /\ heard' = (IF x.is = "bad" THEN "damaged" ELSE "whole")
              /\ (AuthContinues(x) /\ Stay(x)) \/ (AuthFails(x) /\ Left(x.c))
  <1>1. PICK x \in Exchange(t.reader, Now, ch) :
          /\ Cost(x) /\ heard' = (IF x.is = "bad" THEN "damaged" ELSE "whole")
          /\ CASE x.is = "ok" -> Advance(ChannelAfter(Now)) /\ Stay(x)
               [] WantsParameter(Now.op, x.is) -> Advance(t.chan) /\ Stay(x)
               [] isAuthRejected(Now.op, x.is) -> WrongSecret /\ Left(x.c)
               [] x.is = "lost" -> RetryOnCardLinkError(Retryable(Now.op)) /\ Left(x.c)
               [] x.is = "bad" /\ Now.sm -> BadAnswer(Now.op) /\ Left(x.c)
               [] x.is = "bad" /\ Now.op = "ga4" ->
                    /\ WrongSecret \/ \E sw \in Misread : failFromResult(sw)
                    /\ Left(x.c)
               [] x.is = "bad" /\ ~Now.sm /\ Now.op # "ga4" ->
                    \/ /\ IF t.mode = "can" THEN \E sw \in Misread : failFromResult(sw)
                          ELSE OnceReturns("GENERAL_ERROR", kind)
                       /\ Left(x.c)
                    \/ /\ t.mode = "pin" /\ Stay(x)
                       /\ Advance(IF Now.op = "get_dh" THEN [key |-> <<"bad">>, ssc |-> 1]
                                  ELSE ChannelAfter(Now))
                    \/ /\ Now.op = "ga1" /\ Stay(x)
                       /\ Goes([t EXCEPT !.i = @ + 1, !.damaged = TRUE])
               [] x.is = "6983" -> OnceReturns("PIN_LOCKED", kind) /\ Left(x.c)
               [] Now.op = "verify" /\ x.is \in Unprotected ->
                    Advance(getResp_SM(SM(t.chan), x.is)) /\ Stay(x)
               [] OTHER -> /\ IF t.mode = "can" THEN failFromResult(x.is)
                              ELSE OnceReturns("GENERAL_ERROR", kind)
                           /\ Left(x.c)
    BY DEF Authenticate
  <1>2. (AuthContinues(x) /\ Stay(x)) \/ (AuthFails(x) /\ Left(x.c))
    <2> DEFINE goes == Advance(ChannelAfter(Now)) /\ Stay(x)
               again == Advance(t.chan) /\ Stay(x)
               wrong == WrongSecret /\ Left(x.c)
               retries == RetryOnCardLinkError(Retryable(Now.op)) /\ Left(x.c)
               bad == BadAnswer(Now.op) /\ Left(x.c)
               badToken == /\ WrongSecret \/ \E sw \in Misread : failFromResult(sw)
                           /\ Left(x.c)
               badClear == \/ /\ IF t.mode = "can" THEN \E sw \in Misread : failFromResult(sw)
                                 ELSE OnceReturns("GENERAL_ERROR", kind)
                              /\ Left(x.c)
                           \/ /\ t.mode = "pin" /\ Stay(x)
                              /\ Advance(IF Now.op = "get_dh" THEN [key |-> <<"bad">>, ssc |-> 1]
                                         ELSE ChannelAfter(Now))
                           \/ /\ Now.op = "ga1" /\ Stay(x)
                              /\ Goes([t EXCEPT !.i = @ + 1, !.damaged = TRUE])
               locked == OnceReturns("PIN_LOCKED", kind) /\ Left(x.c)
               clear == Advance(getResp_SM(SM(t.chan), x.is)) /\ Stay(x)
               fails == /\ IF t.mode = "can" THEN failFromResult(x.is)
                           ELSE OnceReturns("GENERAL_ERROR", kind)
                        /\ Left(x.c)
               goal == (AuthContinues(x) /\ Stay(x)) \/ (AuthFails(x) /\ Left(x.c))
               wants == WantsParameter(Now.op, x.is)
               rejected == isAuthRejected(Now.op, x.is)
    <2>1. (CASE x.is = "ok" -> goes
            [] wants -> again
            [] rejected -> wrong
            [] x.is = "lost" -> retries
            [] x.is = "bad" /\ Now.sm -> bad
            [] x.is = "bad" /\ Now.op = "ga4" -> badToken
            [] x.is = "bad" /\ ~Now.sm /\ Now.op # "ga4" -> badClear
            [] x.is = "6983" -> locked
            [] Now.op = "verify" /\ x.is \in Unprotected -> clear
            [] OTHER -> fails)
      BY <1>1
    <2>2. x.is = "ok" /\ goes => goal
      BY DEF AuthContinues
    <2>3. wants /\ again => goal
      BY DEF AuthContinues
    <2>4. rejected /\ wrong => goal
      BY DEF AuthFails
    <2>5. x.is = "lost" /\ retries => goal
      BY DEF AuthFails
    <2>6. x.is = "bad" /\ Now.sm /\ bad => goal
      BY DEF AuthFails
    <2>7. x.is = "bad" /\ Now.op = "ga4" /\ badToken => goal
      BY DEF AuthFails
    <2>8. x.is = "bad" /\ ~Now.sm /\ Now.op # "ga4" /\ badClear => goal
      BY DEF AuthFails, AuthContinues
    <2>9. x.is = "6983" /\ locked => goal
      BY DEF AuthFails
    <2>10. Now.op = "verify" /\ x.is \in Unprotected /\ clear => goal
      BY DEF AuthContinues
    <2>11. x.is \notin {"lost", "bad", "wrong"} /\ fails => goal
      BY DEF AuthFails
    <2>12. ~rejected => x.is # "wrong"
      BY DEF isAuthRejected
    <2> HIDE DEF goes, again, wrong, retries, bad, badToken, badClear, locked, clear, fails, goal,
                 wants, rejected
    <2>13. goal
      BY <2>1, <2>2, <2>3, <2>4, <2>5, <2>6, <2>7, <2>8, <2>9, <2>10, <2>11, <2>12
    <2> QED BY <2>13 DEF goal
  <1> QED BY <1>1, <1>2

(* One command of the script. *)
LEMMA AuthenticateInv ==
    ASSUME ChipInv, Authenticate PROVE ChipInv'
  <1>1. t.pc = "script" /\ t.pc \notin {"idle", "dead"} /\ t.reader \in Readers /\ TypeInv
    BY DEF Authenticate, ChipInv, PlaceInv, Active
  <1>2. CASE Extended(Now.op) /\ ~Chip[t.reader].extended
    <2>1. OnceReturns("DEVICE_ERROR", "INS_NOT_SUPPORTED") /\ Left(Here) /\ UNCHANGED faults
      BY <1>2 DEF Authenticate
    <2>2. EndTells /\ faults' \in Nat
      BY <1>1, <1>2, <2>1, AuthTells DEF TypeInv
    <2>3. IsChip(Here) /\ Here.charged = 0 /\ (t.mode = "can" => ~Here.dropped)
          /\ Here.hidden = chip[t.reader].hidden
      BY <1>1 DEF Here, TypeInv, ChipInv, ChargeInv, KeyInv
    <2>4. EndChips
      BY <1>1, <2>1, <2>3, StayChips
    <2> QED BY <1>1, <2>2, <2>4, EndInv
  <1>3. CASE ~(Extended(Now.op) /\ ~Chip[t.reader].extended)
    <2> DEFINE ch == IF Now.sm THEN Sent(t.chan) ELSE t.chan
    <2>1. PICK x \in Exchange(t.reader, Now, ch) :
            /\ Cost(x) /\ heard' = (IF x.is = "bad" THEN "damaged" ELSE "whole")
            /\ (AuthContinues(x) /\ Stay(x)) \/ (AuthFails(x) /\ Left(x.c))
      BY <1>3, AuthSplit
    <2>2. Effects(t.reader, Here, x, Now, ch) /\ x.cost \in {0, 1}
      BY <1>1, AuthExchange
    <2>3. faults' \in Nat
      BY <2>1, <2>2, CostTyped
    <2>4. AuthOutcome(x)
      BY <1>1, <2>2, AuthChip DEF AuthOutcome
    <2>5. t.mode = "can" \/ t.mode = "pin"
      BY <1>1 DEF TypeInv
    <2> QED BY <1>1, <2>2, <2>3, <2>1, <2>4, <2>5, CanContinues, PinContinues, AuthFailsInv
  <1> QED BY <1>2, <1>3

----------------------------------------------------------------------------
(* The theorems. *)

(* Every step of the thread and of the cards keeps the invariant. *)
LEMMA NextInv ==
    ASSUME ChipInv, [Next]_vars PROVE ChipInv'
  <1>1. CASE \E can \in CANs \cup {Malformed} : cie_read_dgs_can(can)
    BY <1>1, CallInv DEF cie_read_dgs_can, Secrets
  <1>2. CASE \E pin \in PINs \cup {Malformed} : cie_read_dgs(pin)
    BY <1>2, CallInv DEF cie_read_dgs, Secrets
  <1>3. CASE EstablishContext
    BY <1>3, EstablishContextInv
  <1>4. CASE ConnectReader
    BY <1>4, ConnectReaderInv
  <1>5. CASE EndOfReaders
    BY <1>5, EndOfReadersInv
  <1>6. CASE CardAccess
    BY <1>6, CardAccessInv
  <1>7. CASE Authenticate
    BY <1>7, AuthenticateInv
  <1>8. CASE SelectFile
    BY <1>8, SelectFileInv
  <1>9. CASE ReadHead
    BY <1>9, ReadHeadInv
  <1>10. CASE ReadBody
    BY <1>10, ReadChunkInv DEF ReadBody
  <1>11. CASE ReadByFid
    BY <1>11, ReadChunkInv DEF ReadByFid
  <1>12. CASE Lift
    BY <1>12, LiftInv
  <1>13. CASE Place \/ UNCHANGED vars
    BY <1>13, UnchangedInv DEF Place, vars
  <1> QED BY <1>1, <1>2, <1>3, <1>4, <1>5, <1>6, <1>7, <1>8, <1>9, <1>10, <1>11, <1>12, <1>13
          DEF Next, Thread

(* The invariant holds of every state of every behaviour. *)
LEMMA ChipInvariance == Spec => []ChipInv
  <1>1. Init => ChipInv
    BY InitInv
  <1>2. ChipInv /\ [Next]_vars => ChipInv'
    BY NextInv
  <1> QED BY <1>1, <1>2, PTL DEF Spec

(* However often RetryOnCardLinkError repeats a call, and whatever answers   *)
(* get lost, the call costs a card at most one try of its CAN or PIN: the    *)
(* exchange that costs it is the last one that the call makes.               *)
THEOREM AtMostOneTry == Spec => []OneTryPerCall
  <1>1. ChipInv => OneTryPerCall
    BY DEF ChipInv, ChargeInv, OneTryPerCall
  <1> QED BY <1>1, ChipInvariance, PTL

(* The counters of the library and of a card that share a session never      *)
(* drift apart, and no card ever drops a PACE channel for its counter: wrap, *)
(* unwrap, rollbackSsc, SM, respSM and the restart of the counter in DAPP.   *)
THEOREM ChannelStaysInStep == Spec => []ChannelInStep
  <1>1. ChipInv => ChannelInStep
    BY DEF ChipInv, KeyInv, ChannelInStep, Active, Reading
  <1> QED BY <1>1, ChipInvariance, PTL

(* A call that cost a try says so, and the callers of cie_read_dgs_can can   *)
(* tell the failures apart by the code and the kind of cie_ext.h.            *)
THEOREM OutcomeIsTold == Spec => []OutcomeTold
  <1>1. ChipInv => OutcomeTold
    BY DEF ChipInv
  <1> QED BY <1>1, ChipInvariance, PTL

----------------------------------------------------------------------------
(* What the caller is given.  READ BINARY with an offset takes its high bit  *)
(* for a short file identifier, and cie_read_dgs does not use the other      *)
(* instruction: files that are read with the PIN end below this bit.         *)

SmallFiles == PINs # {} => \A f \in {"DG1", "DG2"} : Size[f] < SfiBit

(* The bytes of a file, taken in pieces. *)
LEMMA BytesFacts ==
    ASSUME NEW r, NEW f, NEW a \in Nat, NEW n \in Nat
    PROVE  /\ Len(Bytes(r, f, a, n)) = n /\ Bytes(r, f, a, n) \in Seq({Byte(r, f, i) : i \in Nat})
           /\ Bytes(r, f, 0, a) \o Bytes(r, f, a, n) = Bytes(r, f, 0, a + n)
           /\ \A m \in 0..n : SubSeq(Bytes(r, f, a, n), 1, m) = Bytes(r, f, a, m)
  <1> DEFINE S == {Byte(r, f, i) : i \in Nat}
  <1>1. ASSUME NEW from \in Nat, NEW m \in Nat
        PROVE  /\ Bytes(r, f, from, m) \in Seq(S) /\ Len(Bytes(r, f, from, m)) = m
               /\ \A i \in 1..m : Bytes(r, f, from, m)[i] = Byte(r, f, from + i)
    <2>1. \A i \in 1..m : Byte(r, f, from + i) \in S
      OBVIOUS
    <2>2. Bytes(r, f, from, m) = [i \in 1..m |-> Byte(r, f, from + i)]
      BY DEF Bytes
    <2> QED BY <2>1, <2>2
  <1> HIDE DEF S
  <1>2. Bytes(r, f, 0, a) \o Bytes(r, f, a, n) = Bytes(r, f, 0, a + n)
    <2> DEFINE s == Bytes(r, f, 0, a)
               u == Bytes(r, f, a, n)
               v == Bytes(r, f, 0, a + n)
    <2>1. s \in Seq(S) /\ Len(s) = a /\ \A i \in 1..a : s[i] = Byte(r, f, 0 + i)
      BY <1>1
    <2>2. u \in Seq(S) /\ Len(u) = n /\ \A i \in 1..n : u[i] = Byte(r, f, a + i)
      BY <1>1
    <2>3. v \in Seq(S) /\ Len(v) = a + n /\ \A i \in 1..a + n : v[i] = Byte(r, f, 0 + i)
      <3> DEFINE w == a + n
      <3>1. w \in Nat /\ 0 \in Nat
        OBVIOUS
      <3> HIDE DEF w
      <3>2. /\ Bytes(r, f, 0, w) \in Seq(S) /\ Len(Bytes(r, f, 0, w)) = w
            /\ \A i \in 1..w : Bytes(r, f, 0, w)[i] = Byte(r, f, 0 + i)
        BY <1>1, <3>1
      <3> QED BY <3>2 DEF w
    <2> HIDE DEF s, u, v
    <2>4. /\ s \o u \in Seq(S) /\ Len(s \o u) = a + n
          /\ \A i \in 1..a + n : (s \o u)[i] = IF i <= a THEN s[i] ELSE u[i - a]
      BY <2>1, <2>2, ConcatProperties
    <2>5. ASSUME NEW i \in 1..a + n PROVE (s \o u)[i] = v[i]
      <3>1. CASE i <= a
        BY <2>1, <2>3, <2>4, <3>1
      <3>2. CASE i > a
        <4> DEFINE j == i - a
        <4>1. j \in 1..n /\ a + j = i /\ 0 + i = i /\ ~(i <= a)
          BY <3>2
        <4>2. (s \o u)[i] = u[j]
          BY <2>4, <4>1
        <4> HIDE DEF j
        <4>3. u[j] = Byte(r, f, a + j)
          BY <2>2, <4>1
        <4>4. v[i] = Byte(r, f, 0 + i)
          BY <2>3
        <4>5. Byte(r, f, a + j) = Byte(r, f, 0 + i)
          BY <4>1 DEF Byte
        <4> QED BY <4>2, <4>3, <4>4, <4>5, Zenon
      <3>3. i <= a \/ i > a
        OBVIOUS
      <3> QED BY <3>1, <3>2, <3>3, Zenon
    <2>6. s \o u = v
      BY <2>3, <2>4, <2>5, SeqEqual
    <2> QED BY <2>6 DEF s, u, v
  <1>3. ASSUME NEW m \in 0..n PROVE SubSeq(Bytes(r, f, a, n), 1, m) = Bytes(r, f, a, m)
    <2> DEFINE s == Bytes(r, f, a, n)
               u == Bytes(r, f, a, m)
    <2>1. s \in Seq(S) /\ Len(s) = n /\ \A i \in 1..n : s[i] = Byte(r, f, a + i)
      BY <1>1
    <2>2. u \in Seq(S) /\ Len(u) = m /\ \A i \in 1..m : u[i] = Byte(r, f, a + i)
      BY <1>1
    <2> HIDE DEF s, u
    <2>3. /\ SubSeq(s, 1, m) \in Seq(S) /\ Len(SubSeq(s, 1, m)) = m
          /\ \A i \in 1..m : SubSeq(s, 1, m)[i] = s[i]
      BY <2>1
    <2>4. \A i \in 1..m : SubSeq(s, 1, m)[i] = u[i]
      BY <2>1, <2>2, <2>3
    <2>5. SubSeq(s, 1, m) = u
      BY <2>2, <2>3, <2>4, SeqEqual
    <2> QED BY <2>5 DEF s, u
  <1> QED BY <1>1, <1>2, <1>3 DEF S

(* Its parts, one at a time. *)
LEMMA BytesLen ==
    ASSUME NEW r, NEW f, NEW a \in Nat, NEW n \in Nat PROVE Len(Bytes(r, f, a, n)) = n
  BY BytesFacts
(* Bytes read from where the last ones ended. *)
LEMMA BytesConcat ==
    ASSUME NEW r, NEW f, NEW a \in Nat, NEW n \in Nat
    PROVE  Bytes(r, f, 0, a) \o Bytes(r, f, a, n) = Bytes(r, f, 0, a + n)
  BY BytesFacts
(* The first of the bytes read. *)
LEMMA BytesPrefix ==
    ASSUME NEW r, NEW f, NEW a \in Nat, NEW n \in Nat, NEW m \in 0..n
    PROVE  SubSeq(Bytes(r, f, a, n), 1, m) = Bytes(r, f, a, m)
  BY BytesFacts

(* What PACE agrees on tells the numbers that were used. *)
LEMMA KeyTellsNumber ==
    ASSUME NEW r, NEW a, NEW b, PaceKey(r, a) = PaceKey(r, b) PROVE a = b
  BY DEF PaceKey, kdf, makeMapping, EcMapping, DhMapping

(* The card in use knows the secret. *)
RightSecret == t.secret = IF t.mode = "can" THEN Chip[t.reader].can ELSE Chip[t.reader].pin

(* The bytes that a chip reads, from the offset it understands. *)
Offset(arg) == IF arg.off >= SfiBit /\ ~arg.odd THEN arg.off - SfiBit ELSE arg.off
Count(arg) == Min(arg.n, Size[arg.f] - Offset(arg))
Answers(arg, x) ==
  /\ RightSecret
  /\ x.is = "ok" => Count(arg) > 0 /\ x.data = Bytes(t.reader, arg.f, Offset(arg), Count(arg))
  /\ x.is = "6B00" => ~(Count(arg) > 0)

(* A chip that reads has the session of the channel and was shown its own    *)
(* secret.                                                                   *)
LEMMA ReadAnswer ==
    ASSUME ChipInv, t.pc \in Reading, NEW d, Recounted(d), NEW ch, NextCounter(ch), NEW arg,
           Count(arg) \in Int,
           NEW x, x = Execute(t.reader, d, Cmd("read", TRUE, arg), ch), x.is \in {"ok", "6B00"}
    PROVE  Answers(arg, x)
  <1> DEFINE cmd == Cmd("read", TRUE, arg)
             o == Inner(t.reader, d, cmd)
  <1>1. cmd.op = "read" /\ cmd.sm = TRUE /\ cmd.arg = arg
    BY DEF Cmd
  <1>2. x = Protected(t.reader, d, cmd, ch)
    BY <1>1 DEF Execute
  <1> HIDE DEF cmd
  <1>3. d.key = ch.key /\ d.ssc + 1 = ch.ssc
    <2> SUFFICES ASSUME ~(d.key = ch.key /\ d.ssc + 1 = ch.ssc) PROVE FALSE
      OBVIOUS
    <2> DEFINE e == [d EXCEPT !.key = NoKey, !.dropped = @ \/ d.key = ch.key]
    <2>1. x = Out("6988", e)
      BY <1>2 DEF Protected
    <2> HIDE DEF e
    <2>2. Out("6988", e).is = "6988"
      BY DEF Out
    <2>3. x.is = "6988"
      BY <2>1, <2>2
    <2> QED BY <2>3
  <1>4. x = [o EXCEPT !.c = [@ EXCEPT !.ssc = d.ssc + 2]]
    BY <1>1, <1>2, <1>3 DEF Protected
  <1>5. /\ o.is = "ok" \/ o.is = "6B00" => ~(d.key = <<"dh">> /\ ~d.verified)
        /\ o.is = "ok" => Count(arg) > 0 /\ o.data = Bytes(t.reader, arg.f, Offset(arg), Count(arg))
        /\ o.is = "6B00" => ~(Count(arg) > 0)
        /\ DOMAIN o = {"is", "c", "data"}
    BY <1>1 DEF Inner, Out, Offset, Count
  <1> HIDE DEF o
  <1>6. x.is = o.is /\ x.data = o.data
    BY <1>4, <1>5
  <1>11. RightSecret => Answers(arg, x)
    <2>1. x.is = "ok" => Count(arg) > 0 /\ x.data = Bytes(t.reader, arg.f, Offset(arg), Count(arg))
      BY <1>5, <1>6
    <2>2. x.is = "6B00" => ~(Count(arg) > 0)
      BY <1>5, <1>6
    <2> QED BY <2>1, <2>2, Zenon DEF Answers
  <1>7. /\ t.chan.key # NoKey /\ t.pc \in Active /\ t.reader \in Readers /\ t.mode \in {"can", "pin"}
    BY ReadingKey DEF TypeInv
  <1>8. Here.key = t.chan.key /\ Here = chip[t.reader] /\ d.verified = Here.verified
    BY <1>3 DEF Recounted, NextCounter, Here
  <1>9. CASE t.mode = "can"
    <2>1. OwnKey(t.reader) = LibraryKey(t.secret)
      BY <1>7, <1>8, <1>9 DEF ChipInv, KeyInv, CanKeys
    <2>2. decryptNonce(Chip[t.reader].can) = Nonce(t.secret)
      BY <2>1, KeyTellsNumber DEF OwnKey, LibraryKey
    <2>3. Chip[t.reader].can = t.secret
      BY <2>2 DEF Nonce, decryptNonce, Damaged
    <2> QED BY <1>9, <1>11, <2>3 DEF RightSecret
  <1>10. CASE t.mode = "pin"
    <2>1. /\ Here.key = <<"dh">> /\ (Here.verified => t.secret = Chip[t.reader].pin)
      BY <1>7, <1>8, <1>10 DEF ChipInv, KeyInv, PinKeys
    <2>2. d.key = <<"dh">>
      BY <2>1 DEF Recounted
    <2>3. t.secret = Chip[t.reader].pin
      BY <1>5, <1>6, <1>8, <2>1, <2>2
    <2>4. t.mode # "can"
      BY <1>10
    <2> QED BY <1>11, <2>3, <2>4 DEF RightSecret
  <1> QED BY <1>7, <1>9, <1>10

(* The same of an exchange: a chip that was reset in between has no session. *)
LEMMA ExchangeAnswer ==
    ASSUME ChipInv, t.pc \in Reading, NEW ch, NextCounter(ch), NEW arg, Count(arg) \in Int,
           NEW x \in Exchange(t.reader, Cmd("read", TRUE, arg), ch), x.is \in {"ok", "6B00"}
    PROVE  Answers(arg, x)
  <1> DEFINE cmd == Cmd("read", TRUE, arg)
             done == Execute(t.reader, Here, cmd, ch)
             d == Powered(Here, 1)
             reset == Execute(t.reader, d, cmd, ch)
  <1>1. IsChip(Here) /\ t.chan.key # NoKey
    BY ReadingKey
  <1>2. reset.is = "6988"
    <2>1. d.key = NoKey
      BY <1>1, PoweredTyped
    <2>2. cmd.sm = TRUE
      BY DEF Cmd
    <2>3. ch.key # NoKey
      BY <1>1 DEF NextCounter
    <2> HIDE DEF cmd, d
    <2> QED BY <2>1, <2>2, <2>3 DEF Execute, Protected, Out
  <1>3. Recounted(Here)
    BY <1>1 DEF Recounted
  <1>4. done.is \in {"ok", "6B00"} => Answers(arg, done)
    BY <1>3, ReadAnswer
  <1> HIDE DEF cmd, done, reset
  <1>5. \/ x.is \in {"lost", "bad", "6300"} \cup OwnReason
        \/ x.is = done.is /\ x.data = done.data
        \/ x.is = reset.is
    <2>1. x \in Exchange(t.reader, cmd, ch)
      BY DEF cmd
    <2> QED BY <2>1 DEF Exchange, done, reset, Here
  <1> QED BY <1>2, <1>4, <1>5 DEF Answers, OwnReason

----------------------------------------------------------------------------
(* What the thread has read so far is of the card in use. *)

Collecting == {"body", "fid_select", "fid"}
DataInv ==
  /\ t.pc # "idle" => ret.data = NoFiles
  /\ DOMAIN t.got = {"DG1", "DG2"}
  /\ t.pc \notin Reading => t.f = 1
  /\ t.pc \in Reading /\ t.f = 2 => t.got["DG1"] = Bytes(t.reader, "DG1", 0, Size["DG1"])
  /\ t.pc \in Collecting => \E n \in 0..Size[File] : t.out = Bytes(t.reader, File, 0, n)

(* A step of a call gives the caller nothing, or the files of a card that    *)
(* knows the secret.                                                         *)
Proceeds == DataInv' /\ ret'.data = NoFiles /\ t'.mode = t.mode /\ t'.secret = t.secret
First(r) == [Doc!Empty EXCEPT !["DG1"] = Doc!Content(r)["DG1"]]
Delivers ==
  /\ DataInv' /\ RightSecret /\ t.reader \in Readers
  /\ t'.pc = "idle" /\ ret'.data \in {Doc!Content(t.reader), First(t.reader)}

EndsEmpty == Ends /\ (ret' = ret \/ ret'.data = NoFiles)

(* An attempt that ends gives nothing. *)
LEMMA EndProceeds ==
    ASSUME ChipInv, DataInv, t.pc # "idle", EndsEmpty PROVE Proceeds
  <1>1. DOMAIN t = ThreadFields
    BY DEF ChipInv, TypeInv
  <1>2. /\ t'.pc \in {"idle", "context", "dead"} /\ t'.mode = t.mode /\ t'.secret = t.secret
        /\ t'.f = 1 /\ t'.got = NoFiles
    BY <1>1, EndsFields DEF EndsEmpty
  <1>3. ret'.data = NoFiles
    BY DEF EndsEmpty, DataInv
  <1>4. t'.pc \notin Reading /\ t'.pc \notin Collecting
    BY <1>2 DEF Reading, Collecting
  <1>5. DOMAIN t'.got = {"DG1", "DG2"}
    BY <1>2 DEF NoFiles
  <1>6. DataInv'
    BY <1>2, <1>3, <1>4, <1>5 DEF DataInv
  <1> QED BY <1>2, <1>3, <1>6 DEF Proceeds

(* The ends of an attempt. *)
LEMMA OnceEmpty ==
    ASSUME ChipInv, NEW rc, NEW k, OnceReturns(rc, k) PROVE EndsEmpty
  <1>1. CASE Return(rc, NoFiles)
    <2>1. t' = [Attempt(1, 0) EXCEPT !.pc = "idle"] /\ ret' = [rc |-> rc, data |-> NoFiles]
      BY <1>1 DEF Return
    <2> QED BY <2>1 DEF EndsEmpty, Ends
  <1>2. CASE t' = Attempt(t.attempt, t.polls + 1) /\ UNCHANGED ret
    <2>1. t.attempt \in Nat /\ t.polls + 1 \in Nat
      BY DEF ChipInv, TypeInv
    <2> QED BY <1>2, <2>1 DEF EndsEmpty, Ends
  <1> QED BY <1>1, <1>2 DEF OnceReturns

(* retryOnCardLinkError repeats the call or ends it with empty buffers. *)
LEMMA RetryEmpty ==
    ASSUME ChipInv, NEW b, RetryOnCardLinkError(b) PROVE EndsEmpty
  <1>1. CASE Return("DEVICE_ERROR", NoFiles)
    <2>1. /\ t' = [Attempt(1, 0) EXCEPT !.pc = "idle"]
          /\ ret' = [rc |-> "DEVICE_ERROR", data |-> NoFiles]
      BY <1>1 DEF Return
    <2> QED BY <2>1 DEF EndsEmpty, Ends
  <1>2. CASE t' = Attempt(t.attempt + 1, 0) /\ UNCHANGED ret
    <2>1. t.attempt + 1 \in Nat /\ 0 \in Nat
      BY DEF ChipInv, TypeInv
    <2> QED BY <1>2, <2>1 DEF EndsEmpty, Ends
  <1> QED BY <1>1, <1>2 DEF RetryOnCardLinkError

(* A broken link or an answer that makes no sense gives the caller no data. *)
LEMMA LinkErrorEmpty ==
    ASSUME ChipInv, NEW op, failFromLinkError \/ BadAnswer(op) PROVE EndsEmpty
  <1>1. CASE t' = [Attempt(1, 0) EXCEPT !.pc = "dead"] /\ UNCHANGED ret
    BY <1>1 DEF EndsEmpty, Ends
  <1> QED BY <1>1, RetryEmpty DEF failFromLinkError, BadAnswer

(* A step before the files, or between two files' bytes. *)
LEMMA MoveProceeds ==
    ASSUME ChipInv, DataInv, t.pc # "idle", t'.pc \notin Collecting \cup {"idle"},
           t.pc \notin Reading \/ (t'.pc \in Reading /\ t'.reader = t.reader),
           t'.mode = t.mode, t'.secret = t.secret, t'.f = t.f, t'.got = t.got, ret' = ret
    PROVE  Proceeds
  <1>1. ret'.data = NoFiles
    BY DEF DataInv
  <1>2. DataInv'
    <2>1. DOMAIN t'.got = {"DG1", "DG2"}
      BY DEF DataInv
    <2>2. CASE t.pc \notin Reading
      <3>1. t'.f = 1
        BY <2>2 DEF DataInv
      <3> QED BY <1>1, <2>1, <3>1 DEF DataInv
    <2>3. CASE t'.pc \in Reading /\ t'.reader = t.reader /\ t.pc \in Reading
      <3>1. t'.f = 2 => t'.got["DG1"] = Bytes(t'.reader, "DG1", 0, Size["DG1"])
        BY <2>3 DEF DataInv
      <3> QED BY <1>1, <2>1, <2>3, <3>1 DEF DataInv
    <2> QED BY <2>2, <2>3
  <1> QED BY <1>1, <1>2 DEF Proceeds

(* More bytes of a file. *)
LEMMA BytesProceed ==
    ASSUME ChipInv, DataInv, t.pc \in Reading, NEW pc \in Collecting, NEW ch, NEW bytes,
           ToBytes(pc, ch, bytes), NEW n \in 0..Size[File], bytes = Bytes(t.reader, File, 0, n)
    PROVE  Proceeds
  <1>1. DOMAIN t = ThreadFields
    BY DEF ChipInv, TypeInv
  <1>2. /\ \/ t' = [t EXCEPT !.pc = pc, !.chan = ch, !.out = bytes]
           \/ pc = t.pc /\ t' = [t EXCEPT !.chan = ch, !.out = bytes]
           \/ bytes = t.out /\ t' = [t EXCEPT !.pc = pc, !.chan = ch]
        /\ ret' = ret
    BY DEF ToBytes, Goes
  <1>3. /\ t'.mode = t.mode /\ t'.secret = t.secret /\ t'.reader = t.reader /\ t'.f = t.f
        /\ t'.got = t.got /\ t'.pc = pc /\ t'.out = bytes
    BY <1>1, <1>2 DEF ThreadFields
  <1>4. ret'.data = NoFiles
    BY <1>2 DEF DataInv, Reading
  <1>5. DataInv'
    <2>1. DOMAIN t'.got = {"DG1", "DG2"}
      BY <1>3 DEF DataInv
    <2>2. t'.f = 2 => t'.got["DG1"] = Bytes(t'.reader, "DG1", 0, Size["DG1"])
      BY <1>3 DEF DataInv
    <2>3. t'.pc \in Reading
      BY <1>3 DEF Reading, Collecting
    <2>4. File' = File
      BY <1>3 DEF File
    <2>5. \E i \in 0..Size[File'] : t'.out = Bytes(t'.reader, File', 0, i)
      BY <1>3, <2>4
    <2> QED BY <1>4, <2>1, <2>2, <2>3, <2>5 DEF DataInv
  <1> QED BY <1>3, <1>4, <1>5 DEF Proceeds

(* A complete file: the next one, or the end of the call with both of them. *)
LEMMA FileProceeds ==
    ASSUME ChipInv, DataInv, t.pc \in Reading, NEW ch, NEW bytes, FileRead(ch, bytes), RightSecret,
           bytes = Bytes(t.reader, File, 0, Size[File])
    PROVE  Proceeds \/ Delivers
  <1> DEFINE got == [t.got EXCEPT ![File] = bytes]
  <1>1. DOMAIN t = ThreadFields /\ t.pc # "idle" /\ t.f \in {1, 2} /\ t.reader \in Readers
    BY ReadingKey DEF ChipInv, TypeInv, Reading
  <1>2. DOMAIN t.got = {"DG1", "DG2"}
    BY DEF DataInv
  <1>3. CASE t.f = 1
    <2>1. File = "DG1"
      BY <1>3 DEF File, Files
    <2>2. DOMAIN got = {"DG1", "DG2"} /\ got["DG1"] = bytes
      BY <1>2, <2>1
    <2>3. /\ t' = [t EXCEPT !.pc = "select", !.f = 2, !.chan = ch, !.got = got, !.out = <<>>]
          /\ ret' = ret
      BY <1>3 DEF FileRead, Goes
    <2> HIDE DEF got
    <2>4. /\ t'.mode = t.mode /\ t'.secret = t.secret /\ t'.reader = t.reader /\ t'.f = 2
          /\ t'.got = got /\ t'.pc = "select"
      BY <1>1, <2>3 DEF ThreadFields
    <2>5. ret'.data = NoFiles
      BY <1>1, <2>3 DEF DataInv
    <2>6. DataInv'
      BY <2>1, <2>2, <2>4, <2>5 DEF DataInv, Reading, Collecting
    <2> QED BY <2>4, <2>5, <2>6 DEF Proceeds
  <1>4. CASE t.f = 2
    <2>1. File = "DG2"
      BY <1>4 DEF File, Files
    <2>2. got = Doc!Content(t.reader)
      <3>1. /\ got["DG1"] = Bytes(t.reader, "DG1", 0, Size["DG1"])
            /\ got["DG2"] = Bytes(t.reader, "DG2", 0, Size["DG2"])
            /\ DOMAIN got = {"DG1", "DG2"}
        BY <1>2, <1>4, <2>1 DEF DataInv
      <3>2. ASSUME NEW f \in {"DG1", "DG2"}
            PROVE  Bytes(t.reader, f, 0, Size[f]) = [i \in 1..Size[f] |-> <<t.reader, f, i>>]
        BY DEF Bytes, Byte
      <3>3. got = [f \in {"DG1", "DG2"} |-> got[f]]
        BY <3>1
      <3>4. \A f \in {"DG1", "DG2"} : got[f] = [i \in 1..Size[f] |-> <<t.reader, f, i>>]
        BY <3>1, <3>2
      <3> HIDE DEF got
      <3> QED BY <3>3, <3>4 DEF Doc!Content
    <2>3. CASE OnceReturns("BUFFER_TOO_SMALL", kind)
      BY <1>1, <2>3, OnceEmpty, EndProceeds
    <2> DEFINE first == [NoFiles EXCEPT !["DG1"] = got["DG1"]]
    <2>4. first = First(t.reader)
      <3> HIDE DEF got
      <3> QED BY <2>2 DEF First, NoFiles, Doc!Empty
    <2> HIDE DEF first
    <2>5. ASSUME NEW rc, NEW data \in {got, first}, Return(rc, data) PROVE Delivers
      <3>1. t' = [Attempt(1, 0) EXCEPT !.pc = "idle"] /\ ret' = [rc |-> rc, data |-> data]
        BY <2>5 DEF Return
      <3> HIDE DEF got
      <3>2. Ends
        BY <3>1 DEF Ends
      <3>3. t'.f = 1 /\ t'.got = NoFiles
        BY <1>1, <3>2, EndsFields
      <3>4. t'.pc = "idle"
        BY <1>1, <3>1 DEF Attempt, ThreadFields
      <3>5. DOMAIN t'.got = {"DG1", "DG2"}
        BY <3>3 DEF NoFiles
      <3>6. DataInv'
        BY <3>3, <3>4, <3>5 DEF DataInv, Reading, Collecting
      <3>7. ret'.data \in {Doc!Content(t.reader), First(t.reader)}
        BY <2>2, <2>4, <2>5, <3>1
      <3> QED BY <1>1, <3>4, <3>6, <3>7 DEF Delivers
    <2>6. t.f # 1
      BY <1>4
    <2>7. \/ OnceReturns("BUFFER_TOO_SMALL", kind) \/ Return("BUFFER_TOO_SMALL", first)
          \/ Return("OK", got)
      BY <2>6 DEF FileRead, dg2ToPhoto, first
    <2> QED BY <2>3, <2>5, <2>7
  <1> QED BY <1>1, <1>3, <1>4

(* The tries: only a wrong secret, or PACE with a damaged nonce, costs one,  *)
(* and only on the card in use.                                              *)
Uncharged == \A r \in Readers : chip'[r].charged = 0
ChargesWrong ==
  \A r \in Readers :
     \/ chip'[r].charged = 0
     \/ r = t.reader /\ chip'[r].charged = 1 /\ (t.mode = "can" \/ t.secret # Chip[r].pin)
KeepsPromise == (Proceeds /\ ChargesWrong) \/ (Delivers /\ Uncharged)

(* A step that charges no card. *)
LEMMA Free ==
    ASSUME Proceeds \/ Delivers, MoveChips PROVE KeepsPromise
  BY DEF MoveChips, Uncharged, ChargesWrong, KeepsPromise

(* The start of an attempt and the search over the readers. *)
LEMMA EstablishContextKeeps ==
    ASSUME ChipInv, DataInv, EstablishContext PROVE KeepsPromise
  <1>1. t.pc = "context" /\ chip' = chip /\ DOMAIN t = ThreadFields
    BY DEF EstablishContext, ChipInv, TypeInv
  <1>2. MoveChips
    BY <1>1, SameChips
  <1>3. CASE Goes([t EXCEPT !.pc = "reader"])
    <2>1. t' = [t EXCEPT !.pc = "reader"] /\ ret' = ret
      BY <1>3 DEF Goes
    <2>2. /\ t'.mode = t.mode /\ t'.secret = t.secret /\ t'.f = t.f /\ t'.got = t.got
          /\ t'.pc = "reader"
      BY <1>1, <2>1 DEF ThreadFields
    <2>3. Proceeds
      BY <1>1, <2>1, <2>2, MoveProceeds DEF Reading, Collecting
    <2> QED BY <1>2, <2>3, Free
  <1>4. CASE OnceReturns("DEVICE_ERROR", kind) \/ OnceReturns("TOKEN_NOT_PRESENT", kind)
    BY <1>1, <1>2, <1>4, OnceEmpty, EndProceeds, Free
  <1> QED BY <1>3, <1>4 DEF EstablishContext

(* The last reader was tried without success (cie_read_chip_once). *)
LEMMA EndOfReadersKeeps ==
    ASSUME ChipInv, DataInv, EndOfReaders PROVE KeepsPromise
  <1>1. t.pc = "reader" /\ chip' = chip
    BY DEF EndOfReaders
  <1>2. MoveChips
    BY <1>1, SameChips
  <1>3. \E rc, k : OnceReturns(rc, k)
    BY DEF EndOfReaders
  <1> QED BY <1>1, <1>2, <1>3, OnceEmpty, EndProceeds, Free

(* Going on with the next reader forgets nothing that was read. *)
LEMMA NextReaderProceeds ==
    ASSUME ChipInv, DataInv, t.pc \in {"reader", "access"}, NEW step, NextReader(step),
           \/ step = t
           \/ step = [t EXCEPT !.unsupported = TRUE]
           \/ step = [t EXCEPT !.resetRequired = TRUE]
    PROVE  Proceeds
  <1>1. t' = [step EXCEPT !.pc = "reader", !.reader = @ + 1, !.i = 1, !.level = 1] /\ ret' = ret
    BY DEF NextReader, Goes
  <1>2. /\ DOMAIN step = ThreadFields /\ step.mode = t.mode /\ step.secret = t.secret
        /\ step.f = t.f /\ step.got = t.got
    BY DEF ChipInv, TypeInv, ThreadFields
  <1>3. /\ t'.mode = t.mode /\ t'.secret = t.secret /\ t'.f = t.f /\ t'.got = t.got
        /\ t'.pc = "reader"
    BY <1>1, <1>2 DEF ThreadFields
  <1> QED BY <1>1, <1>3, MoveProceeds DEF Reading, Collecting

(* The current card with what the connection needs of it. *)
LEMMA HereFree ==
    ASSUME ChipInv, t.pc \notin {"idle", "dead"}, t.reader \in Readers
    PROVE  /\ IsChip(Here) /\ Here.charged = 0
           /\ Left(Here) => MoveChips
           /\ \A n \in Nat : chip' = [chip EXCEPT ![t.reader] = Powered(@, n)] => MoveChips
  <1>1. /\ IsChip(Here) /\ Here.charged = 0 /\ Here.hidden = chip[t.reader].hidden
        /\ t.mode = "can" => ~Here.dropped
    BY DEF TypeInv, ChipInv, ChargeInv, KeyInv, Here
  <1>2. ASSUME Left(Here) PROVE MoveChips
    BY <1>1, <1>2, StayChips
  <1>3. ASSUME NEW n \in Nat, chip' = [chip EXCEPT ![t.reader] = Powered(@, n)] PROVE MoveChips
    <2> DEFINE d == Powered(chip[t.reader], n)
    <2>1. IsChip(d) /\ d.charged = 0 /\ d.dropped = Here.dropped
      BY <1>1, PoweredTyped DEF Here
    <2>2. d.hidden \in {0, chip[t.reader].hidden}
      <3>1. d.hidden = IF chip[t.reader].hidden <= n THEN 0 ELSE chip[t.reader].hidden
        BY <1>1, PoweredTyped DEF Here
      <3> QED BY <3>1
    <2>3. chip' = [chip EXCEPT ![t.reader] = d]
      BY <1>3
    <2> HIDE DEF d
    <2> QED BY <1>1, <2>1, <2>2, <2>3, StayChips
  <1> QED BY <1>1, <1>2, <1>3

(* Connecting to the card of a reader. *)
LEMMA ConnectReaderKeeps ==
    ASSUME ChipInv, DataInv, ConnectReader PROVE KeepsPromise
  <1>1. t.pc = "reader" /\ t.reader \in Readers /\ DOMAIN t = ThreadFields
    BY DEF ConnectReader, ChipInv, TypeInv
  <1>2. CASE NextReader(t) /\ UNCHANGED chip
    BY <1>1, <1>2, SameChips, NextReaderProceeds, Free
  <1>3. CASE RetryOnCardLinkError(TRUE) /\ Left(Here)
    BY <1>1, <1>3, HereFree, RetryEmpty, EndProceeds, Free
  <1>4. CASE NextReader([t EXCEPT !.unsupported = TRUE]) /\ Left(Here)
    BY <1>1, <1>4, HereFree, NextReaderProceeds, Free
  <1>5. CASE /\ Goes([t EXCEPT !.pc = IF t.mode = "can" THEN "access" ELSE "script"])
             /\ chip' = [chip EXCEPT ![t.reader] = Powered(@, 1)]
    <2>1. t' = [t EXCEPT !.pc = IF t.mode = "can" THEN "access" ELSE "script"] /\ ret' = ret
      BY <1>5 DEF Goes
    <2>2. /\ t'.mode = t.mode /\ t'.secret = t.secret /\ t'.f = t.f /\ t'.got = t.got
          /\ t'.pc \in {"access", "script"}
      BY <1>1, <2>1 DEF ThreadFields
    <2>3. Proceeds
      BY <1>1, <2>1, <2>2, MoveProceeds DEF Reading, Collecting
    <2>4. MoveChips
      BY <1>1, <1>5, HereFree
    <2> QED BY <2>3, <2>4, Free
  <1> QED BY <1>2, <1>3, <1>4, <1>5 DEF ConnectReader

(* EF.CardAccess. *)
LEMMA CardAccessKeeps ==
    ASSUME ChipInv, DataInv, CardAccess PROVE KeepsPromise
  <1>1. t.pc = "access" /\ t.reader \in Readers /\ DOMAIN t = ThreadFields
    BY DEF CardAccess, ChipInv, PlaceInv, TypeInv
  <1>2. PICK x \in readCardAccess : CardAccess!2!(x)
    BY DEF CardAccess
  <1>3. CASE RetryOnCardLinkError(TRUE) /\ Left(Here)
    BY <1>1, <1>3, HereFree, RetryEmpty, EndProceeds, Free
  <1>4. ASSUME NEW sw, failFromResult(sw), Left(Here) PROVE KeepsPromise
    BY <1>1, <1>4, HereFree, OnceEmpty, EndProceeds, Free DEF failFromResult
  <1>5. CASE NextReader([t EXCEPT !.unsupported = TRUE]) /\ Left(Here)
    BY <1>1, <1>5, HereFree, NextReaderProceeds, Free
  <1>6. CASE NextReader([t EXCEPT !.resetRequired = TRUE]) /\ Left(Here)
    BY <1>1, <1>6, HereFree, NextReaderProceeds, Free
  <1>7. ASSUME NEW n \in {2, 3}, Goes([t EXCEPT !.level = n]),
               chip' = [chip EXCEPT ![t.reader] = Powered(@, n)]
        PROVE  KeepsPromise
    <2>1. t' = [t EXCEPT !.level = n] /\ ret' = ret
      BY <1>7 DEF Goes
    <2>2. /\ t'.mode = t.mode /\ t'.secret = t.secret /\ t'.f = t.f /\ t'.got = t.got
          /\ t'.pc = "access"
      BY <1>1, <2>1 DEF ThreadFields
    <2>3. Proceeds
      BY <1>1, <2>1, <2>2, MoveProceeds DEF Reading, Collecting
    <2>4. n \in Nat
      OBVIOUS
    <2>5. MoveChips
      BY <1>1, <1>7, <2>4, HereFree
    <2> QED BY <2>3, <2>5, Free
  <1>8. CASE Goes([t EXCEPT !.pc = "script"]) /\ UNCHANGED chip
    <2>1. t' = [t EXCEPT !.pc = "script"] /\ ret' = ret
      BY <1>8 DEF Goes
    <2>2. /\ t'.mode = t.mode /\ t'.secret = t.secret /\ t'.f = t.f /\ t'.got = t.got
          /\ t'.pc = "script"
      BY <1>1, <2>1 DEF ThreadFields
    <2>3. Proceeds
      BY <1>1, <2>1, <2>2, MoveProceeds DEF Reading, Collecting
    <2> QED BY <1>1, <1>8, <2>3, SameChips, Free
  <1>9. CASE powerCycleField
    BY <1>3, <1>6, <1>7, <1>9 DEF powerCycleField
  <1> DEFINE retries == RetryOnCardLinkError(TRUE) /\ Left(Here)
             fails == failFromResult("6F00") /\ Left(Here)
             malformed == failFromResult("0") /\ Left(Here)
             unsupported == NextReader([t EXCEPT !.unsupported = TRUE]) /\ Left(Here)
             reset == NextReader([t EXCEPT !.resetRequired = TRUE]) /\ Left(Here)
             level == /\ Goes([t EXCEPT !.level = 2])
                      /\ chip' = [chip EXCEPT ![t.reader] = Powered(@, 2)]
             script == Goes([t EXCEPT !.pc = "script"]) /\ UNCHANGED chip
  <1>10. retries \/ fails \/ malformed \/ unsupported \/ reset \/ level \/ script \/ powerCycleField
    <2>1. (CASE x.is = "lost" -> retries
            [] x.is = "6F00" -> fails
            [] x.is = "bad" -> malformed \/ unsupported
            [] x.is = "ok" /\ Selected[t.reader] = 0 -> unsupported
            [] x.is = "ok" /\ Selected[t.reader] > 0 -> script
            [] cardAccessMissing(x.is) /\ t.level = 1 -> level
            [] x.is = "6A82" /\ t.level = 2 -> powerCycleField
            [] x.is = "6A82" /\ t.level = 3 -> reset
            [] OTHER -> unsupported)
      BY <1>2
    <2> HIDE DEF retries, fails, malformed, unsupported, reset, level, script
    <2> QED BY <2>1
  <1>11. level => KeepsPromise
    BY <1>7
  <1>12. fails \/ malformed => KeepsPromise
    BY <1>4
  <1> QED BY <1>3, <1>5, <1>6, <1>8, <1>9, <1>10, <1>11, <1>12

(* A command of the script: the try that it may cost is of a wrong PIN, or   *)
(* of PACE.                                                                  *)
LEMMA AuthenticateKeeps ==
    ASSUME ChipInv, DataInv, Authenticate, ChipInv' PROVE KeepsPromise
  <1>1. t.pc = "script" /\ t.reader \in Readers /\ DOMAIN t = ThreadFields
    BY DEF Authenticate, ChipInv, PlaceInv, TypeInv, Active
  <1>2. CASE Extended(Now.op) /\ ~Chip[t.reader].extended
    <2>1. OnceReturns("DEVICE_ERROR", "INS_NOT_SUPPORTED") /\ Left(Here)
      BY <1>2 DEF Authenticate
    <2> QED BY <1>1, <2>1, HereFree, OnceEmpty, EndProceeds, Free
  <1>3. CASE ~(Extended(Now.op) /\ ~Chip[t.reader].extended)
    <2> DEFINE ch == IF Now.sm THEN Sent(t.chan) ELSE t.chan
    <2>1. PICK x \in Exchange(t.reader, Now, ch) :
            (AuthContinues(x) /\ Stay(x)) \/ (AuthFails(x) /\ Left(x.c))
      BY <1>3, AuthSplit
    <2>2. CASE AuthContinues(x) /\ Stay(x)
      <3>1. (\E c : Advance(c)) \/ Goes([t EXCEPT !.i = @ + 1, !.damaged = TRUE])
        BY <2>2 DEF AuthContinues
      <3>2. /\ t'.mode = t.mode /\ t'.secret = t.secret /\ t'.f = t.f /\ t'.got = t.got
            /\ t'.pc \in {"script", "select"} /\ ret' = ret
        <4>1. CASE Goes([t EXCEPT !.i = @ + 1, !.damaged = TRUE])
          BY <1>1, <4>1 DEF Goes, ThreadFields
        <4>2. ASSUME NEW c, Advance(c)
              PROVE  /\ t'.mode = t.mode /\ t'.secret = t.secret /\ t'.f = t.f /\ t'.got = t.got
                     /\ t'.pc \in {"script", "select"} /\ ret' = ret
          <5>1. \/ t' = [t EXCEPT !.pc = "select", !.chan = c]
                \/ t' = [t EXCEPT !.i = @ + 1, !.chan = c]
            BY <4>2 DEF Advance, Goes
          <5>2. ret' = ret
            BY <4>2 DEF Advance, Goes
          <5> QED BY <1>1, <5>1, <5>2 DEF ThreadFields
        <4> QED BY <3>1, <4>1, <4>2
      <3>3. Proceeds
        BY <1>1, <3>2, MoveProceeds DEF Reading, Collecting
      <3>4. t'.pc \notin {"idle", "dead"}
        BY <3>2
      <3>5. Uncharged
        BY <3>4 DEF ChipInv, ChargeInv, Uncharged
      <3> QED BY <3>3, <3>5 DEF KeepsPromise, Uncharged, ChargesWrong
    <2>3. CASE AuthFails(x) /\ Left(x.c)
      <3>1. Proceeds
        <4>1. EndsEmpty
          BY <2>3, OnceEmpty, RetryEmpty, LinkErrorEmpty DEF AuthFails, WrongSecret, failFromResult
        <4> QED BY <1>1, <4>1, EndProceeds
      <3>2. Effects(t.reader, Here, x, Now, ch)
        BY <1>1, AuthExchange
      <3>3. IsChip(x.c)
        BY <3>2 DEF Effects, Effect
      <3>4. IsChip(Closed(x.c)) /\ Closed(x.c).charged = x.c.charged
        BY <3>3, ClosedTyped
      <3>5. /\ chip'[t.reader] = Closed(x.c)
            /\ \A r \in Readers \ {t.reader} : chip'[r] = chip[r]
        BY <1>1, <2>3, <3>4, ChipReplaced DEF Left, ChipInv
      <3>6. Here.charged = 0 /\ \A r \in Readers : chip[r].charged = 0
        BY <1>1 DEF ChipInv, ChargeInv, Here
      <3>7. x.c.charged = 0 \/ (x.c.charged = 1 /\ (t.mode = "can" \/ t.secret # Chip[t.reader].pin))
        <4>1. /\ Now.op = "verify" => Now.arg = t.secret
              /\ Now.op = "ga4" => t.mode = "can"
          BY <1>1, NowFacts
        <4>2. \/ x.c.charged = Here.charged
              \/ /\ x.c.charged = Here.charged + 1
                 /\ IF Now.sm THEN Now.op = "verify" /\ Now.arg # Chip[t.reader].pin ELSE Now.op = "ga4"
          BY <3>2 DEF Effects, Effect
        <4>3. CASE x.c.charged = Here.charged
          BY <3>6, <4>3
        <4>4. CASE /\ x.c.charged = Here.charged + 1
                   /\ IF Now.sm THEN Now.op = "verify" /\ Now.arg # Chip[t.reader].pin
                      ELSE Now.op = "ga4"
          <5>1. x.c.charged = 1
            BY <3>6, <4>4
          <5> QED BY <4>1, <4>4, <5>1
        <4> QED BY <4>2, <4>3, <4>4
      <3>8. ChargesWrong
        BY <3>4, <3>5, <3>6, <3>7 DEF ChargesWrong
      <3> QED BY <3>1, <3>8 DEF KeepsPromise
    <2> QED BY <2>1, <2>2, <2>3
  <1> QED BY <1>2, <1>3

----------------------------------------------------------------------------
(* Reading the files. *)

(* The file in hand and the sizes of the reads. *)
LEMMA FileFacts ==
    ASSUME t.f \in {1, 2}
    PROVE  /\ File \in {"DG1", "DG2"} /\ Size[File] \in Nat \ {0}
           /\ Header \in Nat \ {0} /\ Chunk \in Nat \ {0} /\ SfiBit \in Nat \ {0}
  BY ChipReaderAssumption DEF File, Files

(* A failed exchange. *)
LEMMA ReadFailsKeeps ==
    ASSUME ChipInv, DataInv, t.pc \in Reading, NEW x, GoodChip(x.c), ReadFails(x)
    PROVE  KeepsPromise
  <1>1. t.pc \in Active /\ t.pc # "idle"
    BY ReadingKey
  <1>2. MoveChips
    BY <1>1, GoodChips DEF ReadFails
  <1>3. EndsEmpty
    BY OnceEmpty, RetryEmpty, LinkErrorEmpty DEF ReadFails, failFromResult
  <1> QED BY <1>1, <1>2, <1>3, EndProceeds, Free

(* SELECT of a file. *)
LEMMA SelectFileKeeps ==
    ASSUME ChipInv, DataInv, SelectFile PROVE KeepsPromise
  <1> DEFINE cmd == Cmd("select_ef", t.mode = "can" \/ t.pc = "fid_select", None)
             ch == Sent(t.chan)
             pc == IF t.pc = "select" THEN "head" ELSE "fid"
  <1>1. /\ t.pc \in Reading /\ pc \in Reading /\ DOMAIN t = ThreadFields
        /\ pc \in Collecting => t.pc \in Collecting
    BY DEF SelectFile, Reading, Collecting, ChipInv, TypeInv
  <1>2. /\ t.chan.key # NoKey /\ t.pc \in Active /\ t.reader \in Readers /\ IsChip(Here)
        /\ IsChannel(t.chan) /\ t.mode \in {"can", "pin"}
    BY <1>1, ReadingKey DEF TypeInv
  <1>3. PICK x \in Exchange(t.reader, cmd, ch) :
          \/ /\ Stay(x)
             /\ Goes([t EXCEPT !.pc = pc,
                      !.chan = IF cmd.sm THEN Received(Sent(@), x.is) ELSE @])
          \/ ReadFails(x)
    BY DEF SelectFile
  <1>4. IsChannel(ch) /\ ch.key = t.chan.key /\ ch.ssc = t.chan.ssc + 1
    BY <1>2, SentFacts
  <1>5. cmd.op = "select_ef" /\ cmd.sm \in BOOLEAN
    BY DEF Cmd
  <1> DEFINE new == IF cmd.sm THEN Received(ch, x.is) ELSE t.chan
  <1>7. Goes([t EXCEPT !.pc = pc, !.chan = IF cmd.sm THEN Received(Sent(@), x.is) ELSE @])
        => Goes([t EXCEPT !.pc = pc, !.chan = new])
    BY DEF Goes
  <1> HIDE DEF cmd, ch, new, pc
  <1>8. GoodChip(x.c)
    <2>1. Effects(t.reader, Here, x, cmd, ch)
      BY <1>2, <1>4, <1>5, ExchangeEffects DEF Here
    <2>2. CASE cmd.sm
      <3>1. IsProtected(cmd) /\ NextCounter(ch) /\ Recounted(Here)
        BY <1>2, <1>4, <1>5, <2>2 DEF IsProtected, NextCounter, Recounted
      <3> QED BY <1>2, <2>1, <3>1, SmStep
    <2>3. CASE ~cmd.sm
      <3>1. cmd.sm = FALSE
        BY <1>5, <2>3
      <3> QED BY <1>2, <1>5, <2>1, <3>1, PlainStep
    <2> QED BY <2>2, <2>3
  <1>9. CASE ReadFails(x)
    BY <1>1, <1>8, <1>9, ReadFailsKeeps
  <1>10. CASE Stay(x) /\ Goes([t EXCEPT !.pc = pc, !.chan = new])
    <2>1. /\ t'.mode = t.mode /\ t'.secret = t.secret /\ t'.f = t.f /\ t'.got = t.got
          /\ t'.pc = pc /\ t'.reader = t.reader /\ ret' = ret
      BY <1>1, <1>10 DEF ThreadFields, Goes
    <2>2. Proceeds
      <3>1. CASE pc \notin Collecting
        <4>1. t.pc # "idle" /\ t'.pc \notin Collecting \cup {"idle"}
          BY <1>1, <2>1, <3>1 DEF Reading
        <4> QED BY <1>1, <2>1, <4>1, MoveProceeds
      <3>2. CASE pc \in Collecting
        <4>1. PICK n \in 0..Size[File] : t.out = Bytes(t.reader, File, 0, n)
          BY <1>1, <3>2 DEF DataInv
        <4>2. ToBytes(pc, new, t.out)
          BY <1>10 DEF ToBytes
        <4> QED BY <1>1, <3>2, <4>1, <4>2, BytesProceed
      <3> QED BY <3>1, <3>2
    <2>3. MoveChips
      BY <1>2, <1>8, <1>10, GoodChips DEF Stay
    <2> QED BY <2>2, <2>3, Free
  <1> QED BY <1>3, <1>7, <1>9, <1>10

(* The first bytes of a file. *)
LEMMA ReadHeadKeeps ==
    ASSUME ChipInv, DataInv, ReadHead PROVE KeepsPromise
  <1> DEFINE arg == [f |-> File, off |-> 0, n |-> Header, sfi |-> t.mode = "pin", odd |-> FALSE]
             c == Sent(t.chan)
             n == Min(Header, Size[File])
  <1>1. t.pc = "head" /\ t.pc \in Reading
    BY DEF ReadHead, Reading
  <1>2. t.chan.key # NoKey /\ IsChannel(t.chan) /\ t.pc \in Active /\ t.f \in {1, 2}
    BY <1>1, ReadingKey DEF TypeInv
  <1>3. NextCounter(c)
    BY <1>2, SentFacts DEF NextCounter
  <1> HIDE DEF c
  <1>4. PICK x \in Exchange(t.reader, Cmd("read", TRUE, arg), c) :
          LET ch == Received(c, x.is)
          IN  CASE x.is = "ok" /\ Size[File] <= Header -> FileRead(ch, Total(x.data)) /\ Stay(x)
                [] x.is = "ok" /\ Size[File] > Header ->
                     Goes([t EXCEPT !.pc = "body", !.chan = ch, !.out = x.data]) /\ Stay(x)
                [] x.is = "6981" /\ t.mode = "pin" ->
                     Goes([t EXCEPT !.pc = "fid_select", !.chan = ch, !.out = <<>>]) /\ Stay(x)
                [] OTHER -> ReadFails(x)
    BY DEF ReadHead, ReadCmd, c
  <1>5. Size[File] \in Nat \ {0} /\ Header \in Nat \ {0} /\ SfiBit \in Nat \ {0}
    BY <1>2, FileFacts
  <1>6. arg.f = File /\ Offset(arg) = 0 /\ Count(arg) = n
    <2>1. arg.f = File /\ arg.off = 0 /\ arg.n = Header
      OBVIOUS
    <2>2. Offset(arg) = 0
      <3> HIDE DEF arg
      <3> QED BY <1>5, <2>1 DEF Offset
    <2> HIDE DEF arg
    <2>3. Size[File] - 0 = Size[File]
      BY <1>5
    <2> QED BY <2>1, <2>2, <2>3 DEF Count
  <1>7. /\ n \in Nat \ {0} /\ n <= Size[File] /\ (Size[File] <= Header => n = Size[File])
        /\ Min(n, Size[File]) = n
    BY <1>5 DEF Min
  <1> HIDE DEF arg, n
  <1>8. GoodChip(x.c)
    BY <1>1, <1>3, ReadExchange
  <1>9. MoveChips \/ ~Stay(x)
    BY <1>2, <1>8, GoodChips DEF Stay
  <1>10. x.is = "ok" => RightSecret /\ x.data = Bytes(t.reader, File, 0, n)
    <2>1. Count(arg) \in Int
      BY <1>6, <1>7
    <2> QED BY <1>1, <1>3, <1>6, <2>1, ExchangeAnswer DEF Answers
  <1> DEFINE ch == Received(c, x.is)
  <1>11. \/ x.is = "ok" /\ Size[File] <= Header /\ FileRead(ch, Total(x.data)) /\ Stay(x)
         \/ x.is = "ok" /\ Goes([t EXCEPT !.pc = "body", !.chan = ch, !.out = x.data]) /\ Stay(x)
         \/ Goes([t EXCEPT !.pc = "fid_select", !.chan = ch, !.out = <<>>]) /\ Stay(x)
         \/ ReadFails(x)
    BY <1>4
  <1> HIDE DEF ch
  <1>12. CASE x.is = "ok" /\ Size[File] <= Header /\ FileRead(ch, Total(x.data)) /\ Stay(x)
    <2>0. /\ Len(Bytes(t.reader, File, 0, n)) = n
          /\ \A m \in 0..n : SubSeq(Bytes(t.reader, File, 0, n), 1, m) = Bytes(t.reader, File, 0, m)
      <3>1. n \in Nat /\ 0 \in Nat
        BY <1>7
      <3> QED BY <3>1, BytesFacts
    <2>1. n = Size[File] /\ x.data = Bytes(t.reader, File, 0, n) /\ Len(x.data) = n
      BY <1>7, <1>10, <1>12, <2>0
    <2>2. Total(x.data) = SubSeq(Bytes(t.reader, File, 0, n), 1, n)
      BY <1>7, <2>1 DEF Total
    <2>3. n \in 0..n
      BY <1>7
    <2>4. Total(x.data) = Bytes(t.reader, File, 0, n)
      BY <2>0, <2>2, <2>3
    <2>5. Proceeds \/ Delivers
      BY <1>1, <1>10, <1>12, <2>1, <2>4, FileProceeds
    <2> QED BY <1>9, <1>12, <2>5, Free
  <1>13. CASE x.is = "ok" /\ Goes([t EXCEPT !.pc = "body", !.chan = ch, !.out = x.data]) /\ Stay(x)
    <2>1. "body" \in Collecting /\ ToBytes("body", ch, x.data)
      BY <1>13 DEF ToBytes, Collecting
    <2>2. n \in 0..Size[File]
      BY <1>5, <1>7
    <2>3. Proceeds
      BY <1>1, <1>10, <1>13, <2>1, <2>2, BytesProceed
    <2> QED BY <1>9, <1>13, <2>3, Free
  <1>14. CASE Goes([t EXCEPT !.pc = "fid_select", !.chan = ch, !.out = <<>>]) /\ Stay(x)
    <2>1. "fid_select" \in Collecting /\ ToBytes("fid_select", ch, <<>>)
      BY <1>14 DEF ToBytes, Collecting
    <2>2. 0 \in 0..Size[File]
      BY <1>5
    <2>3. <<>> = Bytes(t.reader, File, 0, 0)
      BY DEF Bytes
    <2>4. Proceeds
      BY <1>1, <2>1, <2>2, <2>3, BytesProceed
    <2> QED BY <1>9, <1>14, <2>4, Free
  <1>15. CASE ReadFails(x)
    BY <1>1, <1>8, <1>15, ReadFailsKeeps
  <1> QED BY <1>11, <1>12, <1>13, <1>14, <1>15

(* The offset of the next bytes, as the chip understands it. *)
NextArg(n) == [f |-> File, off |-> Len(t.out), n |-> n, sfi |-> FALSE,
               odd |-> t.mode = "can" /\ Len(t.out) >= SfiBit]

(* READ BINARY asks for the bytes after those read, also in PIN mode when the file ends
   below the bit that marks a short file identifier. *)
LEMMA NextArgFacts ==
    ASSUME SmallFiles, ChipInv, DataInv, t.pc \in {"body", "fid"},
           NEW n \in {Chunk, Min(Chunk, Unread)}
    PROVE  \E m \in 0..Size[File] :
              /\ t.out = Bytes(t.reader, File, 0, m) /\ Len(t.out) = m /\ NextArg(n).f = File
              /\ Offset(NextArg(n)) = m /\ Count(NextArg(n)) = Min(n, Size[File] - m)
              /\ Count(NextArg(n)) \in Int /\ Count(NextArg(n)) <= Size[File] - m
              /\ ~(Count(NextArg(n)) > 0) => m = Size[File]
  <1>1. t.f \in {1, 2} /\ t.mode \in {"can", "pin"} /\ t.pc \notin {"idle", "dead"}
    BY DEF ChipInv, TypeInv
  <1>2. /\ File \in {"DG1", "DG2"} /\ Size[File] \in Nat \ {0} /\ Chunk \in Nat \ {0}
        /\ SfiBit \in Nat \ {0}
    BY <1>1, FileFacts
  <1>3. PICK m \in 0..Size[File] : t.out = Bytes(t.reader, File, 0, m)
    BY DEF DataInv, Collecting
  <1>4. m \in Nat /\ 0 \in Nat
    BY <1>2
  <1>5. Len(t.out) = m
    BY <1>3, <1>4, BytesLen
  <1>6. /\ NextArg(n).f = File /\ NextArg(n).off = m /\ NextArg(n).n = n
        /\ NextArg(n).odd = (t.mode = "can" /\ m >= SfiBit)
    BY <1>5 DEF NextArg
  <1>7. Offset(NextArg(n)) = m
    <2>1. CASE t.mode = "can"
      BY <1>6, <2>1 DEF Offset
    <2>2. CASE t.mode = "pin"
      <3>1. PINs # {}
        BY <1>1, <2>2 DEF ChipInv, PlaceInv
      <3>2. m < SfiBit
        BY <1>2, <1>4, <3>1 DEF SmallFiles
      <3>3. ~(m >= SfiBit)
        BY <1>2, <1>4, <3>2
      <3> QED BY <1>6, <3>3 DEF Offset
    <2> QED BY <1>1, <2>1, <2>2
  <1>8. Count(NextArg(n)) = Min(n, Size[File] - m)
    BY <1>6, <1>7 DEF Count
  <1>9. n \in Int /\ (n <= 0 => m = Size[File])
    <2>1. Unread = Size[File] - m
      BY <1>5 DEF Unread
    <2> QED BY <1>2, <1>4, <2>1 DEF Min
  <1>10. /\ Min(n, Size[File] - m) \in Int /\ Min(n, Size[File] - m) <= Size[File] - m
         /\ ~(Min(n, Size[File] - m) > 0) => m = Size[File]
    BY <1>2, <1>4, <1>9 DEF Min
  <1> QED BY <1>3, <1>5, <1>6, <1>7, <1>8, <1>10

(* More bytes of the file, or the last ones. *)
LEMMA CollectProceeds ==
    ASSUME ChipInv, DataInv, t.pc \in {"body", "fid"}, RightSecret, NEW ch, NEW bytes,
           Collect(ch, bytes), NEW m \in 0..Size[File], bytes = Bytes(t.reader, File, 0, m)
    PROVE  Proceeds \/ Delivers
  <1>1. t.pc \in Reading /\ t.f \in {1, 2}
    BY DEF Reading, ChipInv, TypeInv
  <1>2. Size[File] \in Nat
    BY <1>1, FileFacts
  <1>3. m \in Nat /\ 0 \in Nat
    BY <1>2
  <1>4. Len(bytes) = m
    BY <1>3, BytesFacts
  <1>5. CASE Goes([t EXCEPT !.chan = ch, !.out = bytes])
    BY <1>1, <1>5, BytesProceed DEF ToBytes, Collecting
  <1>6. CASE FileRead(ch, bytes) /\ Len(bytes) >= Size[File]
    <2>1. m = Size[File]
      BY <1>2, <1>3, <1>4, <1>6
    <2> QED BY <1>1, <1>6, <2>1, FileProceeds
  <1> QED BY <1>5, <1>6 DEF Collect, More

(* One more chunk of a file. *)
LEMMA ReadChunkKeeps ==
    ASSUME SmallFiles, ChipInv, DataInv, t.pc \in {"body", "fid"},
           NEW n \in {Chunk, Min(Chunk, Unread)}, ReadChunk(n)
    PROVE  KeepsPromise
  <1>1. t.pc \in Reading /\ t.f \in {1, 2}
    BY DEF Reading, ChipInv, TypeInv
  <1>2. /\ t.chan.key # NoKey /\ IsChannel(t.chan) /\ t.pc \in Active /\ t.reader \in Readers
        /\ IsChip(Here) /\ t.mode \in {"can", "pin"}
    BY <1>1, ReadingKey DEF TypeInv
  <1> DEFINE cmd == Cmd("read", TRUE, NextArg(n))
  <1>3. PICK k \in Refusals :
         LET ch == CommandChannel(k)
             x == Execute(t.reader, Refused(k), cmd, ch)
         IN  IF k > 0
             THEN IF x.is = "ok"
                  THEN Collect(Received(ch, x.is), t.out \o x.data) /\ Stay(x)
                  ELSE IF Ended(x.is) THEN FileRead(Received(ch, x.is), t.out) /\ Stay(x)
                  ELSE ReadFails(x)
             ELSE \E y \in Exchange(t.reader, cmd, ch) :
                  IF y.is = "ok"
                  THEN \E m \in 1..Len(y.data) :
                          Collect(Received(ch, y.is), t.out \o SubSeq(y.data, 1, m)) /\ Stay(y)
                  ELSE IF Ended(y.is) THEN FileRead(Received(ch, y.is), t.out) /\ Stay(y)
                  ELSE ReadFails(y)
    BY DEF ReadChunk, ReadCmd, NextArg
  <1> DEFINE ch == CommandChannel(k)
             x == Execute(t.reader, Refused(k), cmd, ch)
             arg == NextArg(n)
             count == Count(arg)
  <1>4. NextCounter(ch) /\ IsChannel(ch) /\ ch.key = t.chan.key
    <2>1. k \in 0..2
      BY DEF Refusals
    <2> QED BY <1>2, <2>1, CommandChannelFacts DEF NextCounter
  <1>5. PICK m \in 0..Size[File] :
              /\ t.out = Bytes(t.reader, File, 0, m) /\ arg.f = File
              /\ Offset(arg) = m /\ count \in Int /\ count <= Size[File] - m
              /\ ~(count > 0) => m = Size[File]
    BY NextArgFacts
  <1>6. Size[File] \in Nat /\ m \in Nat
    BY <1>1, FileFacts
  <1> HIDE DEF ch, arg, count
  <1>7. ASSUME NEW y, Answers(arg, y), NEW j \in 1..count, y.is = "ok", NEW new,
               Collect(new, t.out \o SubSeq(y.data, 1, j)) \/ (j = count /\ Collect(new, t.out \o y.data))
        PROVE  Proceeds \/ Delivers
    <2>1. RightSecret /\ y.data = Bytes(t.reader, File, m, count) /\ count \in Nat
      BY <1>5, <1>7 DEF Answers, count
    <2>2. j \in Nat /\ j \in 0..count /\ m + j \in 0..Size[File]
      BY <1>5, <1>6, <1>7
    <2>3. SubSeq(y.data, 1, j) = Bytes(t.reader, File, m, j)
      <3>1. SubSeq(Bytes(t.reader, File, m, count), 1, j) = Bytes(t.reader, File, m, j)
        BY <1>6, <2>1, <2>2, BytesPrefix
      <3> QED BY <2>1, <3>1, Zenon
    <2>4. t.out \o Bytes(t.reader, File, m, j) = Bytes(t.reader, File, 0, m + j)
      <3>1. Bytes(t.reader, File, 0, m) \o Bytes(t.reader, File, m, j)
            = Bytes(t.reader, File, 0, m + j)
        BY <1>6, <2>2, BytesConcat
      <3> QED BY <1>5, <3>1, Zenon
    <2>5. Collect(new, t.out \o Bytes(t.reader, File, m, j))
      BY <1>7, <2>1, <2>3
    <2> QED BY <2>1, <2>2, <2>4, <2>5, CollectProceeds
  <1>8. ASSUME NEW y, Answers(arg, y), Ended(y.is), NEW new, FileRead(new, t.out)
        PROVE  Proceeds \/ Delivers
    <2>1. RightSecret /\ m = Size[File]
      BY <1>5, <1>8 DEF Answers, count, Ended
    <2> QED BY <1>1, <1>5, <1>8, <2>1, FileProceeds
  <1>9. CASE k > 0
    <2>1. IF x.is = "ok"
          THEN Collect(Received(ch, x.is), t.out \o x.data) /\ Stay(x)
          ELSE IF Ended(x.is) THEN FileRead(Received(ch, x.is), t.out) /\ Stay(x)
          ELSE ReadFails(x)
      BY <1>3, <1>9 DEF ch
    <2>2. Recounted(Refused(k)) /\ IsChip(Refused(k))
      BY <1>2, RefusedFacts DEF Recounted
    <2>3. IsProtected(cmd) /\ cmd.sm \in BOOLEAN
      BY DEF IsProtected, Cmd
    <2>4. x.is \in {"ok", "6B00"} => Answers(arg, x)
      BY <1>1, <1>4, <1>5, <2>2, ReadAnswer DEF arg, count
    <2> HIDE DEF cmd
    <2>5. Effects(t.reader, Refused(k), x, cmd, ch)
      BY <1>2, <1>4, <2>2, <2>3, ExecuteEffect DEF Effects
    <2> HIDE DEF x
    <2>6. GoodChip(x.c)
      BY <1>2, <1>4, <2>2, <2>3, <2>5, SmStep
    <2>7. Stay(x) => MoveChips
      BY <1>2, <2>6, GoodChips DEF Stay
    <2>8. CASE x.is = "ok"
      <3>1. Answers(arg, x) /\ count \in 1..count
        BY <1>5, <2>4, <2>8 DEF Answers, count
      <3>2. Proceeds \/ Delivers
        BY <1>7, <2>1, <2>8, <3>1
      <3> QED BY <2>1, <2>7, <2>8, <3>2, Free
    <2>9. CASE x.is # "ok" /\ Ended(x.is)
      <3>1. Answers(arg, x)
        BY <2>4, <2>9 DEF Ended
      <3>2. Proceeds \/ Delivers
        BY <1>8, <2>1, <2>9, <3>1
      <3> QED BY <2>1, <2>7, <2>9, <3>2, Free
    <2>10. CASE x.is # "ok" /\ ~Ended(x.is)
      BY <1>1, <2>1, <2>6, <2>10, ReadFailsKeeps
    <2> QED BY <2>8, <2>9, <2>10
  <1>10. CASE ~(k > 0)
    <2>1. PICK y \in Exchange(t.reader, cmd, ch) :
            IF y.is = "ok"
            THEN \E j \in 1..Len(y.data) :
                    Collect(Received(ch, y.is), t.out \o SubSeq(y.data, 1, j)) /\ Stay(y)
            ELSE IF Ended(y.is) THEN FileRead(Received(ch, y.is), t.out) /\ Stay(y)
            ELSE ReadFails(y)
      BY <1>3, <1>10 DEF ch
    <2>2. GoodChip(y.c)
      BY <1>1, <1>4, ReadExchange
    <2>3. Stay(y) => MoveChips
      BY <1>2, <2>2, GoodChips DEF Stay
    <2>4. y.is \in {"ok", "6B00"} => Answers(arg, y)
      BY <1>1, <1>4, <1>5, ExchangeAnswer DEF arg, count
    <2> HIDE DEF cmd
    <2>5. CASE y.is = "ok"
      <3>1. PICK j \in 1..Len(y.data) :
              Collect(Received(ch, y.is), t.out \o SubSeq(y.data, 1, j)) /\ Stay(y)
        BY <2>1, <2>5
      <3>2. Answers(arg, y) /\ y.data = Bytes(t.reader, File, m, count) /\ count \in Nat
        BY <1>5, <2>4, <2>5 DEF Answers, count
      <3>3. Len(y.data) = count
        BY <1>6, <3>2, BytesLen
      <3>4. Proceeds \/ Delivers
        BY <1>7, <2>5, <3>1, <3>2, <3>3
      <3> QED BY <2>3, <3>1, <3>4, Free
    <2>6. CASE y.is # "ok" /\ Ended(y.is)
      <3>1. Answers(arg, y)
        BY <2>4, <2>6 DEF Ended
      <3>2. Proceeds \/ Delivers
        BY <1>8, <2>1, <2>6, <3>1
      <3> QED BY <2>1, <2>3, <2>6, <3>2, Free
    <2>7. CASE y.is # "ok" /\ ~Ended(y.is)
      BY <1>1, <2>1, <2>2, <2>7, ReadFailsKeeps
    <2> QED BY <2>5, <2>6, <2>7
  <1> QED BY <1>9, <1>10

----------------------------------------------------------------------------
(* The calls implement DocumentRead. *)

(* A step of a call is one of DocumentRead, or none. *)
LEMMA RunningStep ==
    ASSUME ChipInv, ChipInv', DataInv, t.pc \notin {"idle", "dead"}, KeepsPromise
    PROVE  [Doc!DocNext]_(Doc!dvars)
  <1> DEFINE asked == IF t.pc \in {"idle", "dead"} THEN [mode |-> "none", secret |-> "none"]
                      ELSE [mode |-> t.mode, secret |-> t.secret]
             charged == [r \in Readers |-> chip[r].charged]
  <1>1. t.mode \in {"can", "pin"} /\ t.pc # "idle" /\ Readers = 1..Len(Chip)
    BY DEF ChipInv, TypeInv, Readers
  <1>2. asked = [mode |-> t.mode, secret |-> t.secret] /\ asked # Doc!Nobody
    BY <1>1 DEF Doc!Nobody
  <1>3. ret.data = NoFiles
    BY <1>1 DEF DataInv
  <1>4. charged = [r \in Readers |-> 0] /\ \A r \in Readers : chip[r].charged = 0
    BY DEF ChipInv, ChargeInv
  <1>5. ASSUME t'.mode = t.mode, t'.secret = t.secret PROVE asked' \in {asked, Doc!Nobody}
    BY <1>2, <1>5 DEF Doc!Nobody
  <1>6. CASE Proceeds /\ Uncharged
    <2>1. charged' = charged
      BY <1>4, <1>6 DEF Uncharged
    <2>2. ret'.data = ret.data /\ asked' \in {asked, Doc!Nobody}
      BY <1>3, <1>5, <1>6 DEF Proceeds
    <2>3. CASE asked' = asked
      BY <2>1, <2>2, <2>3 DEF Doc!dvars
    <2>4. CASE asked' = Doc!Nobody
      BY <1>2, <2>1, <2>2, <2>4 DEF Doc!DocNext, Doc!Refuse
    <2> QED BY <2>2, <2>3, <2>4
  <1>7. CASE Proceeds /\ ChargesWrong /\ ~Uncharged
    <2>1. PICK r \in Readers : chip'[r].charged # 0
      BY <1>7 DEF Uncharged
    <2>2. /\ r = t.reader /\ chip'[r].charged = 1 /\ (t.mode = "can" \/ t.secret # Chip[r].pin)
          /\ \A q \in Readers \ {r} : chip'[q].charged = 0
      BY <1>7, <2>1 DEF ChargesWrong
    <2>3. charged' = [charged EXCEPT ![r] = 1]
      BY <1>4, <2>2
    <2>4. ret'.data = ret.data /\ asked' \in {asked, Doc!Nobody}
      BY <1>3, <1>5, <1>7 DEF Proceeds
    <2>5. asked.mode = t.mode /\ asked.secret = t.secret
      BY <1>2
    <2>6. ~Doc!Knows(r, asked) \/ asked.mode = "can"
      BY <1>1, <2>2, <2>5 DEF Doc!Knows
    <2>7. charged[r] = 0
      BY <1>4
    <2>8. Doc!Count(r)
      BY <1>2, <2>3, <2>4, <2>6, <2>7 DEF Doc!Count
    <2> QED BY <1>1, <2>8 DEF Doc!DocNext
  <1>8. CASE Delivers /\ Uncharged
    <2>1. charged' = charged
      BY <1>4, <1>8 DEF Uncharged
    <2>2. asked' = Doc!Nobody
      BY <1>8 DEF Delivers, Doc!Nobody
    <2>3. asked.mode = t.mode /\ asked.secret = t.secret
      BY <1>2
    <2>4. Doc!Knows(t.reader, asked)
      BY <1>8, <2>3 DEF Delivers, RightSecret, Doc!Knows
    <2>5. t.reader \in Readers
      BY <1>8 DEF Delivers
    <2>6. Doc!Deliver(t.reader) \/ Doc!DeliverFirst(t.reader)
      BY <1>2, <1>4, <1>8, <2>1, <2>2, <2>4, <2>5
      DEF Doc!Deliver, Doc!DeliverFirst, Delivers, First
    <2> QED BY <1>1, <2>5, <2>6 DEF Doc!DocNext
  <1> QED BY <1>6, <1>7, <1>8 DEF KeepsPromise

(* A new call. *)
LEMMA CallStep ==
    ASSUME ChipInv, DataInv, NEW mode \in {"can", "pin"}, NEW secret, Call(mode, secret)
    PROVE  DataInv' /\ [Doc!DocNext]_(Doc!dvars)
  <1>1. t.pc = "idle" /\ DOMAIN t = ThreadFields
    BY DEF Call, ChipInv, TypeInv
  <1>2. chip' = [r \in Readers |-> [chip[r] EXCEPT !.charged = 0, !.dropped = FALSE]]
    BY DEF Call
  <1>3. [r \in Readers |-> chip[r].charged]' = [r \in 1..Len(Chip) |-> 0]
    <2>1. ASSUME NEW r \in Readers PROVE chip'[r].charged = 0
      <3>1. IsChip(chip[r])
        BY DEF ChipInv, TypeInv
      <3>2. chip'[r] = [chip[r] EXCEPT !.charged = 0, !.dropped = FALSE]
        BY <1>2
      <3> QED BY <3>1, <3>2 DEF IsChip, ChipFields
    <2> QED BY <2>1 DEF Readers
  <1>4. ret'.data = NoFiles
    <2>1. \E rc : ret' = [rc |-> rc, data |-> NoFiles]
      BY Zenon DEF Call
    <2> QED BY <2>1
  <1>5. NoFiles = Doc!Empty
    BY DEF NoFiles, Doc!Empty
  <1>6. CASE secret = Malformed
    <2>1. t' = [t EXCEPT !.mode = mode, !.secret = secret]
      BY <1>6 DEF Call
    <2>2. t'.pc = "idle" /\ t'.f = t.f /\ t'.got = t.got
      BY <1>1, <2>1 DEF ThreadFields
    <2>3. DataInv'
      BY <1>1, <2>2 DEF DataInv, Reading, Collecting
    <2>4. Doc!RefuseAtOnce
      BY <1>1, <1>3, <1>4, <1>5, <2>2 DEF Doc!RefuseAtOnce, Doc!Nobody
    <2> QED BY <2>3, <2>4 DEF Doc!DocNext
  <1>7. CASE secret # Malformed
    <2> DEFINE a == Attempt(1, 0)
    <2>1. t' = [a EXCEPT !.mode = mode, !.secret = secret]
      BY <1>7 DEF Call
    <2>2. DOMAIN a = ThreadFields /\ a.pc = "context" /\ a.f = 1 /\ a.got = NoFiles
      BY <1>1 DEF Attempt, ThreadFields
    <2> HIDE DEF a
    <2>3. t'.pc = "context" /\ t'.f = 1 /\ t'.got = NoFiles /\ t'.mode = mode /\ t'.secret = secret
      BY <2>1, <2>2 DEF ThreadFields
    <2>4. DOMAIN t'.got = {"DG1", "DG2"}
      BY <2>3 DEF NoFiles
    <2>5. DataInv'
      BY <1>4, <2>3, <2>4 DEF DataInv, Reading, Collecting
    <2>6. Doc!Ask
      <3>1. [mode |-> t'.mode, secret |-> t'.secret] # Doc!Nobody
        BY <2>3 DEF Doc!Nobody
      <3>2. t'.pc \notin {"idle", "dead"} /\ t.pc \in {"idle", "dead"}
        BY <1>1, <2>3
      <3> QED BY <1>3, <1>4, <1>5, <3>1, <3>2 DEF Doc!Ask, Doc!Nobody
    <2> QED BY <2>5, <2>6 DEF Doc!DocNext
  <1> QED BY <1>6, <1>7

(* A card that is lifted, or put on a reader, is not a step of DocumentRead. *)
LEMMA WorldStep ==
    ASSUME ChipInv, DataInv, Lift \/ Place \/ UNCHANGED vars
    PROVE  DataInv' /\ UNCHANGED Doc!dvars
  <1>1. t' = t /\ ret' = ret
    BY DEF Lift, Place, vars
  <1>2. [r \in Readers |-> chip[r].charged]' = [r \in Readers |-> chip[r].charged]
    <2>1. CASE chip' = chip
      BY <2>1
    <2>2. CASE chip' = [chip EXCEPT ![t.reader] = Powered(@, 4)]
      <3>1. ASSUME NEW r \in Readers PROVE chip'[r].charged = chip[r].charged
        <4>1. IsChip(chip[r]) /\ DOMAIN chip = Readers
          BY DEF ChipInv, TypeInv
        <4>2. Powered(chip[r], 4).charged = chip[r].charged
          BY <4>1, PoweredTyped
        <4> QED BY <2>2, <4>1, <4>2
      <3> QED BY <3>1
    <2> QED BY <2>1, <2>2 DEF Lift, Place, vars
  <1>3. DataInv'
    <2>1. File' = File
      BY <1>1 DEF File
    <2> QED BY <1>1, <2>1 DEF DataInv
  <1>4. UNCHANGED Doc!dvars
    BY <1>1, <1>2 DEF Doc!dvars
  <1> QED BY <1>3, <1>4

(* A step of the thread. *)
LEMMA ThreadKeeps ==
    ASSUME SmallFiles, ChipInv, ChipInv', DataInv, Thread PROVE KeepsPromise
  <1>1. CASE EstablishContext
    BY <1>1, EstablishContextKeeps
  <1>2. CASE ConnectReader
    BY <1>2, ConnectReaderKeeps
  <1>3. CASE EndOfReaders
    BY <1>3, EndOfReadersKeeps
  <1>4. CASE CardAccess
    BY <1>4, CardAccessKeeps
  <1>5. CASE Authenticate
    BY <1>5, AuthenticateKeeps
  <1>6. CASE SelectFile
    BY <1>6, SelectFileKeeps
  <1>7. CASE ReadHead
    BY <1>7, ReadHeadKeeps
  <1>8. CASE ReadBody
    BY <1>8, ReadChunkKeeps DEF ReadBody
  <1>9. CASE ReadByFid
    BY <1>9, ReadChunkKeeps DEF ReadByFid
  <1> QED BY <1>1, <1>2, <1>3, <1>4, <1>5, <1>6, <1>7, <1>8, <1>9 DEF Thread

(* Every step. *)
LEMMA NextStep ==
    ASSUME SmallFiles, ChipInv, ChipInv', DataInv, [Next]_vars
    PROVE  DataInv' /\ [Doc!DocNext]_(Doc!dvars)
  <1>1. CASE \E can \in CANs \cup {Malformed} : cie_read_dgs_can(can)
    BY <1>1, CallStep DEF cie_read_dgs_can
  <1>2. CASE \E pin \in PINs \cup {Malformed} : cie_read_dgs(pin)
    BY <1>2, CallStep DEF cie_read_dgs
  <1>3. CASE Thread
    <2>1. t.pc \notin {"idle", "dead"}
      BY <1>3 DEF Thread, EstablishContext, ConnectReader, EndOfReaders, CardAccess, Authenticate,
                  SelectFile, ReadHead, ReadBody, ReadByFid
    <2>2. KeepsPromise
      BY <1>3, ThreadKeeps
    <2>3. [Doc!DocNext]_(Doc!dvars)
      BY <2>1, <2>2, RunningStep
    <2>4. DataInv'
      BY <2>2 DEF KeepsPromise, Proceeds, Delivers
    <2> QED BY <2>3, <2>4
  <1>4. CASE Lift \/ Place \/ UNCHANGED vars
    BY <1>4, WorldStep
  <1> QED BY <1>1, <1>2, <1>3, <1>4 DEF Next

(* The calls implement DocumentRead: whatever happens to the link, to the    *)
(* cards and to the answers, a call of cie_read_dgs_can or cie_read_dgs      *)
(* gives the complete and unchanged DG1 and DG2 of one card that knows the   *)
(* secret (its DG1 alone when the photo does not fit the caller's buffer),   *)
(* or nothing, and no card counts a right PIN, nor more than one wrong       *)
(* secret.                                                                   *)
THEOREM PromiseIsKept ==
    ASSUME SmallFiles PROVE Spec => Promise
  <1>1. Init => Doc!DocInit /\ DataInv
    <2> SUFFICES ASSUME Init PROVE Doc!DocInit /\ DataInv
      OBVIOUS
    <2>1. t.pc = "idle" /\ t.f = 1 /\ t.got = NoFiles /\ ret.data = NoFiles
      BY DEF Init
    <2>2. [r \in Readers |-> chip[r].charged] = [r \in 1..Len(Chip) |-> 0]
      BY DEF Init, Readers
    <2>3. NoFiles = Doc!Empty /\ DOMAIN NoFiles = {"DG1", "DG2"}
      BY DEF NoFiles, Doc!Empty
    <2>4. Doc!DocInit
      BY <2>1, <2>2, <2>3 DEF Doc!DocInit, Doc!Nobody
    <2>5. DataInv
      BY <2>1, <2>3 DEF DataInv, Reading, Collecting
    <2> QED BY <2>4, <2>5
  <1>2. ChipInv /\ ChipInv' /\ DataInv /\ [Next]_vars => DataInv' /\ [Doc!DocNext]_(Doc!dvars)
    BY NextStep
  <1> QED BY <1>1, <1>2, ChipInvariance, PTL DEF Spec, Promise, Doc!DocSpec
=============================================================================
