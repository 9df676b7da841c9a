----------------------------- MODULE EnrolData ------------------------------
(* What cie_enable reads from a card, and what it makes of it (cie_enable.cpp *)
(* 364-545, with IAS::readfile and the SOD checks of ias.cpp): the public     *)
(* files before the PIN, in two blocks that are each retried when the link to *)
(* the card breaks, the authentication of chip and PIN, serial and            *)
(* certificate over the secure channel, the SOD, the cache file.  The card    *)
(* may be lifted while a retry waits, and put back or replaced.               *)
(*                                                                            *)
(* IAS::readfile appends to the buffer it is given and reads on from the      *)
(* offset the buffer's length gives: a buffer is the sequence of the chunks   *)
(* (of 224 bytes) that were appended, each the i-th of a file of a card.      *)
EXTENDS Sod, Naturals, Sequences

CONSTANTS Cards,        \* the documents that may lie on the reader
          Doc,          \* Doc[c]: the SOD of c, the contents its files have, and
                        \* whether the certificate among them is an X.509 one
          Issuers,      \* the keys that sign the SODs of genuine documents
          Chunks,       \* Chunks[f]: chunks of file f
          Blocks,       \* bound: calls of write() that a cache file takes
          MaxDrops,     \* bound: times the link breaks
          MaxSwaps,     \* bound: times another card is put on the reader
          MaxCalls      \* bound: calls of cie_enable

NoCard == "none"
Groups == {"IdServizi", "IntAuth", "IntAuthServizi", "DH", "Serial", "Cert"}
PublicFiles == {"PAN", "IntAuth", "IdServizi", "SOD", "IntAuthServizi", "DH"}
ASSUME EnrolAssumption ==
    /\ DOMAIN Chunks = PublicFiles /\ \A f \in PublicFiles : Chunks[f] \in Nat \ {0}
    /\ DOMAIN Doc = Cards /\ NoCard \notin Cards
    /\ {MaxDrops, MaxSwaps, MaxCalls, Blocks} \subseteq Nat

(* What a file reads as whose chunks come from two cards. *)
Garbled(f) == <<"garbled", f>>

(* An issuer signs complete lists, each of the contents of one document: a   *)
(* list that two groups of two documents match is of the first of them, and  *)
(* none lists a file that no document has.  A document may still hold other  *)
(* contents than its list, a list that was not signed, or a list signed by   *)
(* anyone: cie_enable chains the certificate that an SOD encloses to no      *)
(* issuer, so nothing is assumed of a list whose signer is not one.          *)
ASSUME IssuerAssumption ==
    \A c \in Cards : PssSignature(Doc[c].sod) /\ Doc[c].sod.certKey \in Issuers =>
       LET Lists(g, content) == Doc[c].sod.lds.hashes[g] = Digest("sha512", content)
       IN /\ DOMAIN Doc[c].sod.lds.hashes = Groups
          /\ \A f \in PublicFiles \cap Groups : ~Lists(f, Garbled(f))
          /\ \A d, e \in Cards, f, g \in Groups :
                Lists(f, Doc[d].data[f]) /\ Lists(g, Doc[e].data[g]) => Lists(g, Doc[d].data[g])

VARIABLES card,         \* the card on the reader
          buf,          \* buf[f]: the chunks appended to the buffer of f
          todo,         \* what is left of the block being run
          inFile,       \* readfile is past its first chunk
          stage,        \* the block of cie_enable being run
          attempt,      \* of RetryOnCardLinkError
          encCard,      \* the card that CardEncKey comes from
          chip,         \* the card of the secure channel
          entries,      \* entries[c]: what is cached under the PAN of c
          outcome,      \* of the last call
          drops, swaps, calls,
          pc, tmp, path, size   \* the cache file: see CacheFile

reading == <<card, buf, todo, inFile, attempt, encCard, drops, swaps>>
file == <<pc, tmp, path, size>>
vars == <<reading, stage, chip, entries, outcome, calls, file>>

CF == INSTANCE CacheFile WITH Writers <- {"cie_enable"}

(* readPublicHeader, and the block after it. *)
HeaderBlock == <<"reset", "select", "PAN", "select", "IntAuth", "enckey", "IdServizi">>
DataBlock == <<"SOD", "IntAuthServizi", "select", "DH">>
Block(st, n) == CASE st = "header" -> HeaderBlock
                  [] st = "data" -> IF n > 1 THEN HeaderBlock \o DataBlock ELSE DataBlock
                  [] OTHER -> <<>>

Image(c, f) == [i \in 1..Chunks[f] |-> <<c, i>>]
(* The card whose file f the buffer b begins with, NoCard when the chunks at *)
(* its beginning are not one file.                                           *)
Source(f, b) == LET from == {c \in Cards : SubSeq(b, 1, Chunks[f]) = Image(c, f)}
                IN IF from = {} THEN NoCard ELSE CHOOSE c \in from : TRUE
ReadFrom(f) == Source(f, buf[f])
(* CASNParser::Parse throws unless tags fill the whole buffer: what follows  *)
(* a file of several chunks is always the beginning of another copy.         *)
Parses(f, b) == Source(f, b) # NoCard /\ (Chunks[f] = 1 \/ Len(b) = Chunks[f])

(* IdServizi.left(12), x.left(GetASN1DataLenght(x)). *)
Value(f) == IF ReadFrom(f) = NoCard THEN Garbled(f) ELSE Doc[ReadFrom(f)].data[f]
(* hashSet of cie_enable. *)
HashSet(alg) == [g \in Groups |->
    Digest(alg, IF g \in PublicFiles THEN Value(g) ELSE Doc[chip].data[g])]

NoEntry == [cert |-> NoCard, key |-> NoCard]
Init == /\ card \in Cards /\ buf = [f \in PublicFiles |-> <<>>]
        /\ todo = <<>> /\ inFile = FALSE /\ stage = "idle" /\ attempt = 1
        /\ encCard = NoCard /\ chip = NoCard
        /\ entries = [c \in Cards |-> NoEntry]
        /\ outcome = "none" /\ drops = 0 /\ swaps = 0 /\ calls = 0
        /\ CF!Init

Enter(st) == stage' = st /\ attempt' = 1 /\ todo' = Block(st, 1) /\ inFile' = FALSE
Return(rv) == stage' = "idle" /\ attempt' = 1 /\ todo' = <<>> /\ inFile' = FALSE /\ outcome' = rv

cie_enable == /\ stage = "idle" /\ calls < MaxCalls
              /\ calls' = calls + 1 /\ outcome' = "none" /\ Enter("header")
              /\ buf' = [f \in PublicFiles |-> <<>>] /\ encCard' = NoCard /\ chip' = NoCard
              /\ UNCHANGED <<card, entries, drops, swaps, file>>

(* Reset, SELECT, and InitEncKey, whose key the card on the reader derives. *)
Command == /\ todo # <<>> /\ Head(todo) \notin PublicFiles
           /\ todo' = Tail(todo)
           /\ encCard' = IF Head(todo) = "enckey" THEN card ELSE encCard
           /\ UNCHANGED <<card, buf, inFile, attempt, drops, swaps, stage, chip, entries,
                          outcome, calls, file>>

(* After the last chunk of IntAuth the key is parsed, after the last of the  *)
(* SOD its digest algorithm is looked up.                                    *)
Understood(f, b) ==
    CASE f = "IntAuth" -> Parses(f, b)
      [] f = "SOD" -> Parses(f, b) /\ GetSODDigestAlg(Doc[Source(f, b)].sod) # "unsupported"
      [] OTHER -> TRUE

(* cnt is 0 for the first chunk and content.size() for the next, whatever    *)
(* the buffer held before.                                                   *)
AppendChunk(f) == Append(buf[f], <<card, IF inFile THEN Len(buf[f]) + 1 ELSE 1>>)

readfile == /\ todo # <<>> /\ Head(todo) \in PublicFiles
            /\ LET f == Head(todo)  b == AppendChunk(f) IN
               /\ buf' = [buf EXCEPT ![f] = b]
               /\ \/ /\ Len(b) < Chunks[f]
                     /\ inFile' = TRUE /\ UNCHANGED <<todo, stage, attempt, outcome>>
                  \/ /\ Len(b) >= Chunks[f] /\ Understood(f, b)
                     /\ inFile' = FALSE /\ todo' = Tail(todo) /\ UNCHANGED <<stage, attempt, outcome>>
                  \/ /\ Len(b) >= Chunks[f] /\ ~Understood(f, b)
                     /\ Return("rejected")
            /\ UNCHANGED <<card, encCard, drops, swaps, chip, entries, calls, file>>

(* ias.IsEnrolled() under the PAN the buffer begins with. *)
HeaderEnds == /\ stage = "header" /\ todo = <<>>
              /\ IF entries[ReadFrom("PAN")] # NoEntry
                 THEN Return("already") ELSE Enter("data") /\ UNCHANGED outcome
              /\ UNCHANGED <<card, buf, encCard, drops, swaps, chip, entries, calls, file>>

DataEnds == /\ stage = "data" /\ todo = <<>>
            /\ Enter("auth")
            /\ UNCHANGED <<card, buf, encCard, drops, swaps, chip, entries, calls, file, outcome>>

(* The card is lifted: it, or another, lies there when the command is sent   *)
(* again.  A break in VERIFY, and after it, is not retried.                  *)
LinkBreaks == /\ todo # <<>> \/ stage \in {"auth", "secured"}
              /\ drops < MaxDrops
              /\ drops' = drops + 1
              /\ \E c \in Cards : /\ card' = c
                                  /\ c # card => swaps < MaxSwaps
                                  /\ swaps' = swaps + (IF c = card THEN 0 ELSE 1)
              /\ \/ /\ stage # "secured" /\ attempt < 3
                    /\ attempt' = attempt + 1 /\ todo' = Block(stage, attempt + 1)
                    /\ inFile' = FALSE /\ UNCHANGED <<stage, outcome>>
                 \/ /\ stage \in {"auth", "secured"} \/ attempt = 3
                    /\ Return("link")
              /\ UNCHANGED <<buf, encCard, chip, entries, calls, file>>

(* DAPP: the chip signs, and DappPubKey, kept from the header, verifies. *)
ChipAuthentic == ReadFrom("IntAuth") = card

CardAuthenticateEx ==
    /\ stage = "auth"
    /\ \/ ~ChipAuthentic /\ Return("rejected") /\ UNCHANGED chip
       \/ ChipAuthentic /\ Return("pin") /\ UNCHANGED chip        \* 63Cx, 6983, 6700, 6300
       \/ ChipAuthentic /\ Enter("secured") /\ chip' = card /\ UNCHANGED outcome
    /\ UNCHANGED <<card, buf, encCard, drops, swaps, entries, calls, file>>

(* Serial and certificate come over the channel; the rest was read before.   *)
SodAccepts == LET sod == Doc[ReadFrom("SOD")].sod
                  alg == GetSODDigestAlg(sod)
              IN IF alg = "sha256" THEN VerificaSOD(sod, HashSet(alg))
                 ELSE VerificaSODPSS(sod, HashSet(alg))

VerifySod == /\ stage = "secured"
             /\ IF SodAccepts THEN Enter("store") /\ UNCHANGED outcome
                ELSE Return("rejected")
             /\ pc' = [w \in {"cie_enable"} |-> "unlink"] /\ path' = "old"
             /\ size' = [w \in {"cie_enable"} |-> 0]
             /\ UNCHANGED <<card, buf, encCard, drops, swaps, chip, entries, calls, tmp>>

(* SetCache, under the PAN the buffer begins with; CacheFile says how.  The  *)
(* certificate is parsed, for the name in it, when it is already stored.     *)
WriteCache == /\ stage = "store" /\ CF!Next
              /\ UNCHANGED <<reading, stage, chip, entries, outcome, calls>>

SetCache == /\ stage = "store" /\ pc["cie_enable"] \in {"done", "failed"}
            /\ IF pc["cie_enable"] = "done"
               THEN /\ entries' = [entries EXCEPT ![ReadFrom("PAN")] = [cert |-> chip, key |-> encCard]]
                    /\ Return(IF Doc[chip].x509 THEN "ok" ELSE "no certificate")
               ELSE Return("file") /\ UNCHANGED entries
            /\ UNCHANGED <<card, buf, encCard, drops, swaps, chip, calls, file>>

Next == \/ cie_enable \/ Command \/ readfile \/ HeaderEnds \/ DataEnds \/ LinkBreaks
        \/ CardAuthenticateEx \/ VerifySod \/ WriteCache \/ SetCache

Spec == Init /\ [][Next]_vars

(* Whatever was lifted and replaced meanwhile, the certificate being stored  *)
(* is of the chip whose key the header gave.  In the RSA-PSS / SHA-512       *)
(* generation the SOD in the buffer is signed with the key that it encloses, *)
(* and what was read of every group it lists is as listed, whoever signed:   *)
(* a list may leave groups out.  If the signer is an issuer, which the code  *)
(* does not ask, the document is one: the files read before the PIN and the  *)
(* certificate read after it are those of the chip.  Of the older            *)
(* generation a digest that differs is only logged.                          *)
StoredIsVouched == stage = "store" =>
    /\ chip = ReadFrom("IntAuth")
    /\ LET sod == Doc[ReadFrom("SOD")].sod
       IN sod.digestAlg = "sha512" =>
             /\ PssSignature(sod)
             /\ \A g \in DOMAIN sod.lds.hashes :
                   g \in Groups /\ sod.lds.hashes[g] = HashSet("sha512")[g]
             /\ sod.certKey \in Issuers =>
                   \A f \in {"IdServizi", "IntAuth", "IntAuthServizi", "DH", "Cert"} :
                      sod.lds.hashes[f] = Digest("sha512", Doc[chip].data[f])

(* The SOD that an issuer of either generation makes for these contents. *)
IssuedSod(sigAlg, data, key) ==
    LET alg == IF sigAlg = "rsaPss" THEN "sha512" ELSE "sha256"
        lds == [version |-> IF alg = "sha512" THEN 1 ELSE 0, alg |-> alg,
                hashes |-> [g \in Groups |-> Digest(alg, data[g])]]
    IN [oids |-> TRUE, digestAlg |-> alg, signerDigest |-> alg, sigAlg |-> sigAlg,
        pssHash |-> IF alg = "sha512" THEN alg ELSE "none",
        md |-> Digest(alg, lds), certKey |-> key, lds |-> lds,
        signature |-> [key |-> key, md |-> Digest(alg, lds),
                       hash |-> IF sigAlg = "rsaSha1" THEN "sha1" ELSE alg]]
Genuine(c) == \E sigAlg \in {"rsaPss", "rsaSha1", "rsaSha256"} :
                 Doc[c].sod = IssuedSod(sigAlg, Doc[c].data, Doc[c].sod.certKey)
(* While the link holds, cie_enable refuses no genuine document: the checks  *)
(* of the SOD ask nothing that an issued SOD does not have.                  *)
GenuineIsAccepted == outcome = "rejected" /\ drops = 0 => ~Genuine(card)

(* One writer, killed or failing at any system call, leaves at the path the  *)
(* old cache file or a whole new one (WriteFileAtomic).                      *)
NeverCorrupt == CF!NeverCorrupt

(* "Public reads only (no PIN, no writes): safe to retry on a link drop."    *)
(* (cie_enable.cpp:374): a genuine card that stays on the reader is not      *)
(* refused because the link broke and the reads were repeated.               *)
RetryRecovers == outcome = "rejected" /\ swaps = 0 => ~Genuine(card)
=============================================================================
