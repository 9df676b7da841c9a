--------------------------- MODULE EnrolDataProofs ---------------------------
(* Proofs about cie_enable, for any documents, file lengths and numbers of    *)
(* broken links and swapped cards: what is stored is what the SOD vouches     *)
(* for, no genuine document is refused while the link holds, and the cache    *)
(* file is never half written.                                                *)
EXTENDS EnrolData, TLAPS, SequenceTheorems

----------------------------------------------------------------------------
(* The cache file.  Rename is reached only after all blocks are written, and *)
(* nothing is written after it.                                              *)

W == "cie_enable"
Steps == {"unlink", "open", "write", "rename", "cleanup", "done", "failed"}
FileInv == /\ pc \in [{W} -> Steps] /\ size \in [{W} -> Nat]
           /\ tmp \in {"none", W} /\ path \in {"old", W}
           /\ pc[W] = "rename" => size[W] = Blocks
           /\ path = W => pc[W] = "done" /\ size[W] = Blocks

(* A system call of WriteFileAtomic, or a crash before it, keeps FileInv. *)
LEMMA WriteStep == ASSUME FileInv, CF!Next PROVE FileInv'
  <1>1. Blocks \in Nat
    BY EnrolAssumption
  <1> USE <1>1 DEF FileInv, Steps, W, CF!Goto
  <1>2. \/ CF!Unlink(W) \/ CF!Open(W) \/ CF!Write(W) \/ CF!Rename(W) \/ CF!Cleanup(W)
        \/ CF!Crash(W)
    BY DEF CF!Next
  <1>3. CASE CF!Unlink(W)
    BY <1>3 DEF CF!Unlink
  <1>4. CASE CF!Open(W)
    BY <1>4 DEF CF!Open
  <1>5. CASE CF!Write(W)
    BY <1>5 DEF CF!Write
  <1>6. CASE CF!Rename(W)
    BY <1>6 DEF CF!Rename
  <1>7. CASE CF!Cleanup(W)
    BY <1>7 DEF CF!Cleanup
  <1>8. CASE CF!Crash(W)
    BY <1>8 DEF CF!Crash
  <1> QED BY <1>2, <1>3, <1>4, <1>5, <1>6, <1>7, <1>8

(* Whatever else cie_enable does leaves the file alone, or starts a new one. *)
LEMMA OtherFileStep ==
    ASSUME [Next]_vars
    PROVE  \/ UNCHANGED file \/ CF!Next
           \/ /\ pc' = [w \in {W} |-> "unlink"] /\ path' = "old"
              /\ size' = [w \in {W} |-> 0] /\ UNCHANGED tmp
  BY DEF Next, vars, cie_enable, Command, readfile, HeaderEnds, DataEnds, LinkBreaks,
         CardAuthenticateEx, VerifySod, WriteCache, SetCache, W

(* One process that writes the cache, killed or failing at any system call    *)
(* of WriteFileAtomic, leaves at the path the old file or a whole new one.    *)
THEOREM CacheNeverCorrupt == Spec => []NeverCorrupt
  <1>1. Init => FileInv
    BY EnrolAssumption DEF Init, CF!Init, FileInv, Steps, W
  <1>2. FileInv /\ [Next]_vars => FileInv'
    <2> SUFFICES ASSUME FileInv, [Next]_vars PROVE FileInv'
      OBVIOUS
    <2>1. CASE UNCHANGED file
      BY <2>1 DEF file, FileInv
    <2>2. CASE /\ pc' = [w \in {W} |-> "unlink"] /\ path' = "old"
               /\ size' = [w \in {W} |-> 0] /\ UNCHANGED tmp
      BY <2>2 DEF FileInv, Steps, W
    <2> QED BY <2>1, <2>2, WriteStep, OtherFileStep
  <1>3. FileInv => NeverCorrupt
    BY DEF FileInv, NeverCorrupt, CF!NeverCorrupt
  <1> QED BY <1>1, <1>2, <1>3, PTL DEF Spec

----------------------------------------------------------------------------
(* What is stored.  The buffers do not change after the last block; chip and *)
(* SOD are compared with them as they are.                                   *)

Stages == {"idle", "header", "data", "auth", "secured", "store"}
Items == {"reset", "select", "enckey", "PAN", "IntAuth", "IdServizi", "SOD",
          "IntAuthServizi", "DH"}
InTodo(x) == \E i \in 1..Len(todo) : todo[i] = x

VouchInv ==
  /\ stage \in Stages /\ card \in Cards
  /\ todo \in Seq(Items) /\ (stage \notin {"header", "data"} => todo = <<>>)
  /\ buf \in [PublicFiles -> Seq(Cards \X Nat)]
  /\ stage \in {"data", "auth", "secured", "store"} /\ ~InTodo("SOD") => ReadFrom("SOD") \in Cards
  /\ stage \in {"secured", "store"} => chip \in Cards /\ chip = ReadFrom("IntAuth")
  /\ stage = "store" => SodAccepts

(* A buffer begins with the file of a card, or of none. *)
LEMMA SourceTyped == \A f, b : Source(f, b) \in Cards \/ Source(f, b) = NoCard
  <1> TAKE f, b
  <1> DEFINE from == {c \in Cards : SubSeq(b, 1, Chunks[f]) = Image(c, f)}
  <1>1. CASE from = {}
    BY <1>1 DEF Source
  <1>2. CASE from # {}
    <2> HIDE DEF from
    <2>1. (CHOOSE c \in from : TRUE) \in from
      BY <1>2
    <2>2. from \subseteq Cards
      BY DEF from
    <2> QED BY <1>2, <2>1, <2>2 DEF Source, from
  <1> QED BY <1>1, <1>2

(* A block consists of commands and files; one that reads the data groups    *)
(* reads the SOD.                                                            *)
LEMMA BlocksTyped ==
    /\ \A st, n : Block(st, n) \in Seq(Items)
    /\ \A n : \E i \in 1..Len(Block("data", n)) : Block("data", n)[i] = "SOD"
  <1>1. HeaderBlock \in Seq(Items) /\ DataBlock \in Seq(Items)
    BY DEF HeaderBlock, DataBlock, Items
  <1>2. \A st, n : Block(st, n) \in Seq(Items)
    <2>1. HeaderBlock \o DataBlock \in Seq(Items) /\ <<>> \in Seq(Items)
      BY <1>1
    <2> HIDE DEF Items
    <2> QED BY <1>1, <2>1, Zenon DEF Block
  <1>3. DataBlock[1] = "SOD" /\ Len(DataBlock) = 4
    BY DEF DataBlock
  <1>4. (HeaderBlock \o DataBlock)[8] = "SOD" /\ Len(HeaderBlock \o DataBlock) = 11
    <2>1. Len(HeaderBlock) = 7
      BY DEF HeaderBlock
    <2> HIDE DEF Items
    <2>2. /\ Len(HeaderBlock \o DataBlock) = Len(HeaderBlock) + Len(DataBlock)
          /\ \A i \in 1 .. Len(HeaderBlock) + Len(DataBlock) : (HeaderBlock \o DataBlock)[i] =
                IF i <= Len(HeaderBlock) THEN HeaderBlock[i] ELSE DataBlock[i - Len(HeaderBlock)]
      BY <1>1, ConcatProperties, Zenon
    <2> QED BY <1>3, <2>1, <2>2
  <1>5. \A n : \E i \in 1..Len(Block("data", n)) : Block("data", n)[i] = "SOD"
    BY <1>3, <1>4 DEF Block
  <1> QED BY <1>2, <1>5

(* An entry of a list that is not its head is in its tail. *)
LEMMA HeadOrTail ==
    ASSUME todo \in Seq(Items), todo # <<>>, todo' = Tail(todo), NEW x
    PROVE  /\ todo' \in Seq(Items)
           /\ InTodo(x) => Head(todo) = x \/ InTodo(x)'
           /\ InTodo(x)' => InTodo(x)
  <1>1. /\ Tail(todo) \in Seq(Items) /\ Len(Tail(todo)) = Len(todo) - 1
        /\ \A i \in 1..Len(todo) - 1 : Tail(todo)[i] = todo[i + 1]
        /\ Head(todo) = todo[1] /\ Len(todo) \in Nat /\ Len(todo) > 0
    BY HeadTailProperties, EmptySeq
  <1>2. ASSUME NEW i \in 1..Len(todo), todo[i] = x PROVE Head(todo) = x \/ InTodo(x)'
    <2>1. CASE i = 1
      BY <1>1, <1>2, <2>1
    <2>2. CASE i # 1
      <3>1. i - 1 \in 1..Len(todo) - 1 /\ Tail(todo)[i - 1] = todo[i]
        BY <1>1, <2>2
      <3> QED BY <1>1, <1>2, <3>1 DEF InTodo
    <2> QED BY <2>1, <2>2
  <1>3. ASSUME NEW i \in 1..Len(todo'), todo'[i] = x PROVE InTodo(x)
    <2>1. i + 1 \in 1..Len(todo) /\ todo[i + 1] = x
      BY <1>1, <1>3
    <2> QED BY <2>1 DEF InTodo
  <1> QED BY <1>1, <1>2, <1>3 DEF InTodo

(* While the buffers and the chip stay, so does what is made of them. *)
LEMMA SameBuffers ==
    ASSUME UNCHANGED buf
    PROVE  /\ \A f : ReadFrom(f)' = ReadFrom(f)
           /\ UNCHANGED chip => (SodAccepts' <=> SodAccepts)
  BY DEF ReadFrom, SodAccepts, HashSet, Value

(* The steps that read from the card. *)
LEMMA VouchReads ==
    ASSUME VouchInv, cie_enable \/ Command \/ readfile PROVE VouchInv'
  <1>1. CASE cie_enable
    <2>1. stage' = "header" /\ todo' = Block("header", 1) /\ card' = card
          /\ buf' = [f \in PublicFiles |-> <<>>]
      BY <1>1 DEF cie_enable, Enter
    <2> QED BY <2>1, BlocksTyped DEF VouchInv, Stages
  <1>2. CASE Command
    <2>1. /\ stage' = stage /\ card' = card /\ buf' = buf /\ chip' = chip /\ todo' = Tail(todo)
          /\ todo # <<>> /\ Head(todo) # "SOD"
      BY <1>2 DEF Command, PublicFiles
    <2>2. stage \in {"header", "data"} /\ todo \in Seq(Items)
      BY <2>1 DEF VouchInv, Stages
    <2>3. todo' \in Seq(Items) /\ (~InTodo("SOD")' => ~InTodo("SOD"))
      BY <2>1, <2>2, HeadOrTail
    <2> QED BY <2>1, <2>2, <2>3, SameBuffers DEF VouchInv
  <1>3. CASE readfile
    <2> DEFINE f == Head(todo)
               b == AppendChunk(f)
    <2>1. /\ todo # <<>> /\ f \in PublicFiles /\ buf' = [buf EXCEPT ![f] = b] /\ card' = card
          /\ chip' = chip
      BY <1>3 DEF readfile
    <2>2. stage \in {"header", "data"} /\ todo \in Seq(Items)
      BY <2>1 DEF VouchInv, Stages
    <2>3. b \in Seq(Cards \X Nat)
      <3>1. buf[f] \in Seq(Cards \X Nat)
        BY <2>1 DEF VouchInv
      <3>2. Len(buf[f]) + 1 \in Nat
        BY <3>1
      <3> HIDE DEF f
      <3> DEFINE n == IF inFile THEN Len(buf[f]) + 1 ELSE 1
      <3>3. n \in Nat
        BY <3>2
      <3> HIDE DEF n
      <3>4. <<card, n>> \in Cards \X Nat
        BY <3>3 DEF VouchInv
      <3>5. AppendChunk(f) = Append(buf[f], <<card, n>>)
        BY DEF AppendChunk, n
      <3> DEFINE x == <<card, n>>
                 S == Cards \X Nat
      <3>6. x \in S /\ buf[f] \in Seq(S)
        BY <3>1, <3>4
      <3> HIDE DEF x, S
      <3>7. Append(buf[f], x) \in Seq(S)
        BY <3>6, AppendProperties
      <3> QED BY <3>5, <3>7 DEF x, S
    <2>4. buf' \in [PublicFiles -> Seq(Cards \X Nat)] /\ buf'[f] = b
          /\ \A g \in PublicFiles \ {f} : buf'[g] = buf[g]
      BY <2>1, <2>3 DEF VouchInv
    <2> HIDE DEF b
    <2>5. CASE stage' = "idle" /\ todo' = <<>>
      BY <2>1, <2>4, <2>5 DEF VouchInv, Stages
    <2>6. CASE stage' = stage /\ todo' = todo
      <3>1. InTodo("SOD") \/ f # "SOD"
        <4>1. todo[1] = f /\ 1 \in 1..Len(todo)
          BY <2>1, <2>2, HeadTailProperties, EmptySeq
        <4> QED BY <4>1 DEF InTodo
      <3>2. f # "SOD" => ReadFrom("SOD")' = ReadFrom("SOD")
        BY <2>4 DEF ReadFrom, PublicFiles
      <3> QED BY <2>1, <2>2, <2>4, <2>6, <3>1, <3>2 DEF VouchInv, InTodo
    <2>7. CASE stage' = stage /\ todo' = Tail(todo) /\ Understood(f, b)
      <3>1. todo' \in Seq(Items) /\ (InTodo("SOD") => f = "SOD" \/ InTodo("SOD")')
        BY <2>1, <2>2, <2>7, HeadOrTail
      <3>2. f = "SOD" => ReadFrom("SOD")' \in Cards
        BY <2>4, <2>7, SourceTyped DEF ReadFrom, Understood, Parses
      <3>3. f # "SOD" => ReadFrom("SOD")' = ReadFrom("SOD")
        BY <2>4 DEF ReadFrom, PublicFiles
      <3> QED BY <2>1, <2>2, <2>4, <2>7, <3>1, <3>2, <3>3 DEF VouchInv
    <2>8. \/ UNCHANGED <<todo, stage, attempt, outcome>>
          \/ Understood(f, b) /\ todo' = Tail(todo) /\ UNCHANGED <<stage, attempt, outcome>>
          \/ Return("rejected")
      BY <1>3, Zenon DEF readfile, b
    <2> HIDE DEF f
    <2> QED BY <2>5, <2>6, <2>7, <2>8 DEF Return
  <1> QED BY <1>1, <1>2, <1>3

(* The steps between and after the blocks, and the breaks. *)
LEMMA VouchStages ==
    ASSUME VouchInv, HeaderEnds \/ DataEnds \/ LinkBreaks \/ CardAuthenticateEx \/ VerifySod
                     \/ WriteCache \/ SetCache
    PROVE  VouchInv'
  <1>0. UNCHANGED buf /\ card' \in Cards
    BY DEF VouchInv, HeaderEnds, DataEnds, LinkBreaks, CardAuthenticateEx, VerifySod, WriteCache,
           SetCache, reading
  <1>1. CASE stage' = "idle" /\ todo' = <<>>
    BY <1>0, <1>1 DEF VouchInv, Stages
  <1>2. CASE HeaderEnds
    <2>1. CASE stage' = "data" /\ todo' = Block("data", 1)
      BY <1>0, <2>1, BlocksTyped DEF VouchInv, Stages, InTodo
    <2> QED BY <1>1, <1>2, <2>1 DEF HeaderEnds, Return, Enter
  <1>3. CASE DataEnds
    <2>1. stage = "data" /\ todo = <<>> /\ stage' = "auth" /\ todo' = <<>>
      BY <1>3 DEF DataEnds, Enter, Block
    <2>2. ~InTodo("SOD") /\ <<>> \in Seq(Items)
      BY <2>1 DEF InTodo
    <2> QED BY <1>0, <2>1, <2>2, SameBuffers DEF VouchInv, Stages
  <1>4. CASE LinkBreaks
    <2>1. CASE stage' = stage /\ todo' = Block(stage, attempt + 1) /\ chip' = chip
      <3>1. CASE stage = "data"
        BY <1>0, <2>1, <3>1, BlocksTyped DEF VouchInv, Stages, InTodo
      <3>2. CASE stage = "header"
        BY <1>0, <2>1, <3>2, BlocksTyped DEF VouchInv, Stages
      <3>3. CASE stage \notin {"header", "data"}
        <4>1. todo' = <<>> /\ todo = <<>>
          BY <2>1, <3>3 DEF Block, VouchInv
        <4> QED BY <1>0, <2>1, <3>3, <4>1, SameBuffers DEF VouchInv, InTodo
      <3> QED BY <3>1, <3>2, <3>3
    <2> QED BY <1>1, <1>4, <2>1 DEF LinkBreaks, Return
  <1>5. CASE CardAuthenticateEx
    <2>1. CASE ChipAuthentic /\ Enter("secured") /\ chip' = card
      <3>1. stage = "auth" /\ stage' = "secured" /\ todo = <<>> /\ todo' = <<>>
        BY <1>5, <2>1 DEF CardAuthenticateEx, Enter, Block, VouchInv
      <3> QED BY <1>0, <2>1, <3>1, SameBuffers DEF VouchInv, Stages, InTodo, ChipAuthentic
    <2> QED BY <1>1, <1>5, <2>1 DEF CardAuthenticateEx, Return
  <1>6. CASE VerifySod
    <2>1. CASE SodAccepts /\ Enter("store")
      <3>1. stage = "secured" /\ stage' = "store" /\ todo = <<>> /\ todo' = <<>> /\ chip' = chip
        BY <1>6, <2>1 DEF VerifySod, Enter, Block, VouchInv
      <3> QED BY <1>0, <2>1, <3>1, SameBuffers DEF VouchInv, Stages, InTodo
    <2> QED BY <1>1, <1>6, <2>1 DEF VerifySod, Return
  <1>7. CASE WriteCache
    <2>1. UNCHANGED <<stage, todo, chip, card>>
      BY <1>7 DEF WriteCache, reading
    <2> QED BY <1>0, <2>1, SameBuffers DEF VouchInv, InTodo
  <1>8. CASE SetCache
    BY <1>1, <1>8 DEF SetCache, Return
  <1> QED BY <1>2, <1>3, <1>4, <1>5, <1>6, <1>7, <1>8

(* VouchInv is an invariant. *)
LEMMA VouchInvariance == Spec => []VouchInv
  <1>1. Init => VouchInv
    BY DEF Init, VouchInv, Stages
  <1>2. VouchInv /\ [Next]_vars => VouchInv'
    <2> SUFFICES ASSUME VouchInv, [Next]_vars PROVE VouchInv'
      OBVIOUS
    <2>1. CASE UNCHANGED vars
      <3>1. UNCHANGED <<stage, todo, chip, card, buf>>
        BY <2>1 DEF vars, reading
      <3> QED BY <3>1, SameBuffers DEF VouchInv, InTodo
    <2> QED BY <2>1, VouchReads, VouchStages DEF Next
  <1> QED BY <1>1, <1>2, PTL DEF Spec

(* Whatever is lifted and replaced while cie_enable runs, what it stores is   *)
(* of the chip whose key the header gave (DAPP).  For a document of the       *)
(* RSA-PSS generation every group that the SOD lists was read as listed, and  *)
(* the list is signed with the key the SOD encloses (VerificaSODPSS); only if *)
(* that key is an issuer's, which the code does not check, everything that    *)
(* was read is of that chip's document.                                       *)
THEOREM StoredIsVouchedFor == Spec => []StoredIsVouched
  <1>1. VouchInv => StoredIsVouched
    <2> SUFFICES ASSUME VouchInv, stage = "store"
                 PROVE  /\ chip = ReadFrom("IntAuth")
                        /\ LET sod == Doc[ReadFrom("SOD")].sod
                           IN sod.digestAlg = "sha512" =>
                                /\ PssSignature(sod)
                                /\ \A g \in DOMAIN sod.lds.hashes :
                                     g \in Groups /\ sod.lds.hashes[g] = HashSet("sha512")[g]
                                /\ sod.certKey \in Issuers =>
                                     \A f \in {"IdServizi", "IntAuth", "IntAuthServizi", "DH", "Cert"} :
                                       sod.lds.hashes[f] = Digest("sha512", Doc[chip].data[f])
      BY DEF StoredIsVouched
    <2> DEFINE c == ReadFrom("SOD")
               sod == Doc[c].sod
    <2>1. chip \in Cards /\ chip = ReadFrom("IntAuth") /\ SodAccepts /\ c \in Cards
      <3>1. todo = <<>>
        BY DEF VouchInv
      <3>2. ~InTodo("SOD")
        BY <3>1 DEF InTodo
      <3> QED BY <3>2 DEF VouchInv
    <2>3. ASSUME sod.digestAlg = "sha512"
          PROVE  /\ PssSignature(sod)
                 /\ \A g \in DOMAIN sod.lds.hashes :
                       g \in Groups /\ sod.lds.hashes[g] = HashSet("sha512")[g]
      <3>1. PssSignature(sod) /\ PssGroups(sod, HashSet("sha512"))
        BY <2>1, <2>3 DEF SodAccepts, GetSODDigestAlg, VerificaSODPSS
      <3>2. DOMAIN HashSet("sha512") = Groups
        BY DEF HashSet
      <3> HIDE DEF c
      <3> QED BY <3>1, <3>2 DEF PssGroups
    <2>2. ASSUME sod.digestAlg = "sha512", sod.certKey \in Issuers
          PROVE  \A f \in {"IdServizi", "IntAuth", "IntAuthServizi", "DH", "Cert"} :
                     sod.lds.hashes[f] = Digest("sha512", Doc[chip].data[f])
      <3>1. PssSignature(sod) /\ PssGroups(sod, HashSet("sha512"))
        BY <2>1, <2>2 DEF SodAccepts, GetSODDigestAlg, VerificaSODPSS
      <3> HIDE DEF c
      <3>2. /\ DOMAIN sod.lds.hashes = Groups
            /\ \A f \in PublicFiles \cap Groups : sod.lds.hashes[f] # Digest("sha512", Garbled(f))
            /\ \A d, e \in Cards, f, g \in Groups :
                 /\ sod.lds.hashes[f] = Digest("sha512", Doc[d].data[f])
                 /\ sod.lds.hashes[g] = Digest("sha512", Doc[e].data[g])
                 => sod.lds.hashes[g] = Digest("sha512", Doc[d].data[g])
        BY <2>1, <2>2, <3>1, IssuerAssumption, Zenon
      <3>3. \A g \in Groups : sod.lds.hashes[g] = HashSet("sha512")[g]
        BY <3>1, <3>2 DEF PssGroups
      <3>4. sod.lds.hashes["Cert"] = Digest("sha512", Doc[chip].data["Cert"])
        BY <3>3 DEF HashSet, Groups, PublicFiles
      <3>5. ASSUME NEW f \in PublicFiles \cap Groups
            PROVE  /\ ReadFrom(f) \in Cards
                   /\ sod.lds.hashes[f] = Digest("sha512", Doc[ReadFrom(f)].data[f])
        <4>1. sod.lds.hashes[f] = Digest("sha512", Value(f))
          BY <3>3 DEF HashSet
        <4>2. ReadFrom(f) # NoCard
          BY <3>2, <4>1 DEF Value
        <4> QED BY <4>1, <4>2, SourceTyped DEF Value, ReadFrom
      <3>6. \A f \in PublicFiles \cap Groups : sod.lds.hashes[f] = Digest("sha512", Doc[chip].data[f])
        BY <2>1, <3>2, <3>4, <3>5 DEF Groups
      <3> QED BY <3>4, <3>6 DEF Groups, PublicFiles
    <2> QED BY <2>1, <2>2, <2>3
  <1> QED BY <1>1, VouchInvariance, PTL

----------------------------------------------------------------------------
(* While the link holds.  Every file is read once, from its first chunk to   *)
(* its last, so that each buffer is the file of the card on the reader.      *)

Later(st) == IF st = "header" THEN {"SOD", "IntAuthServizi", "DH"} ELSE {}
Read(f) == IF InTodo(f) THEN (IF inFile /\ Head(todo) = f THEN 1..Chunks[f] - 1 ELSE {0})
           ELSE IF f \in Later(stage) THEN {0} ELSE {Chunks[f]}
Clean ==
  /\ \A i, j \in 1..Len(todo) : todo[i] = todo[j] /\ todo[i] \in PublicFiles => i = j
  /\ \A f \in Later(stage) : ~InTodo(f)
  /\ inFile => todo # <<>> /\ Head(todo) \in PublicFiles
  /\ \A f \in PublicFiles : /\ Len(buf[f]) \in Read(f)
                             /\ \A i \in 1..Len(buf[f]) : buf[f][i] = <<card, i>>
  /\ stage \in {"secured", "store"} => chip = card
CleanInv == /\ drops \in Nat
            /\ drops = 0 => (stage # "idle" => Clean) /\ (outcome = "rejected" => ~Genuine(card))

(* The buffer of a file that was read once begins with that file. *)
LEMMA SourceOfImage ==
    ASSUME NEW c \in Cards, NEW f \in PublicFiles, NEW b \in Seq(Cards \X Nat),
           Len(b) = Chunks[f], \A i \in 1..Len(b) : b[i] = <<c, i>>
    PROVE  Source(f, b) = c
  <1>1. Chunks[f] \in Nat /\ Chunks[f] >= 1
    BY EnrolAssumption
  <1> DEFINE S == Cards \X Nat
  <1>2. b \in Seq(S)
    OBVIOUS
  <1>3. SubSeq(b, 1, Chunks[f]) = b
    <2> HIDE DEF S
    <2>1. \A i \in 1..Chunks[f] : b[i] \in S
      BY <1>2
    <2>2. /\ SubSeq(b, 1, Chunks[f]) \in Seq(S)
          /\ Len(SubSeq(b, 1, Chunks[f])) = Chunks[f]
          /\ \A i \in 1..Chunks[f] : SubSeq(b, 1, Chunks[f])[i] = b[i]
      BY <1>1, <1>2, <2>1, SubSeqProperties
    <2> QED BY <1>2, <2>2, SeqEqual
  <1>4. \A d \in Cards : Image(d, f)[1] = <<d, 1>>
    BY <1>1 DEF Image
  <1>5. b = Image(c, f)
    BY <1>1 DEF Image
  <1>6. {d \in Cards : SubSeq(b, 1, Chunks[f]) = Image(d, f)} = {c}
    BY <1>3, <1>4, <1>5
  <1> QED BY <1>6 DEF Source

(* The SOD that an issuer makes is accepted for its document. *)
LEMMA GenuineAccepted ==
    ASSUME VouchInv, Genuine(card), chip = card, \A f \in PublicFiles : ReadFrom(f) = card
    PROVE  SodAccepts
  <1> DEFINE sod == Doc[card].sod
             data == Doc[card].data
  <1>1. card \in Cards /\ NoCard \notin Cards
    BY EnrolAssumption DEF VouchInv
  <1>2. PICK sigAlg \in {"rsaPss", "rsaSha1", "rsaSha256"} : sod = IssuedSod(sigAlg, data, sod.certKey)
    BY DEF Genuine
  <1>3. \A alg : HashSet(alg) = [g \in Groups |-> Digest(alg, data[g])]
    BY <1>1 DEF HashSet, Value
  <1>4. ReadFrom("SOD") = card
    BY DEF PublicFiles
  <1>5. CASE sigAlg = "rsaPss"
    <2>1. /\ sod.oids /\ sod.digestAlg = "sha512" /\ sod.signerDigest = "sha512"
          /\ sod.pssHash = "sha512" /\ sod.sigAlg = "rsaPss"
          /\ sod.md = Digest("sha512", sod.lds)
          /\ sod.signature = [key |-> sod.certKey, md |-> sod.md, hash |-> "sha512"]
          /\ sod.lds.version = 1 /\ sod.lds.alg = "sha512"
          /\ sod.lds.hashes = [g \in Groups |-> Digest("sha512", data[g])]
      BY <1>2, <1>5 DEF IssuedSod
    <2> HIDE DEF sod
    <2> QED BY <1>3, <1>4, <2>1
            DEF SodAccepts, GetSODDigestAlg, VerificaSODPSS, PssFields, PssSignature, PssGroups, sod
  <1>6. CASE sigAlg # "rsaPss"
    <2>1. /\ sod.oids /\ sod.digestAlg = "sha256" /\ sod.signerDigest = "sha256"
          /\ sod.sigAlg = sigAlg
          /\ sod.md = Digest("sha256", sod.lds)
          /\ sod.signature = [key |-> sod.certKey, md |-> sod.md,
                              hash |-> IF sigAlg = "rsaSha1" THEN "sha1" ELSE "sha256"]
          /\ sod.lds.version = 0 /\ sod.lds.alg = "sha256"
      BY <1>2, <1>6 DEF IssuedSod
    <2> HIDE DEF sod
    <2> QED BY <1>2, <1>4, <1>6, <2>1
            DEF SodAccepts, GetSODDigestAlg, VerificaSOD, Pkcs1Fields, Pkcs1Signature, Pkcs1Groups, sod
  <1> QED BY <1>5, <1>6

(* Once nothing is left to read, every buffer is a file of the card. *)
LEMMA AllRead ==
    ASSUME VouchInv, Clean, todo = <<>>, stage # "header"
    PROVE  \A f \in PublicFiles : ReadFrom(f) = card
  <1> SUFFICES ASSUME NEW f \in PublicFiles PROVE ReadFrom(f) = card
    OBVIOUS
  <1>1. ~InTodo(f)
    BY DEF InTodo
  <1>2. Len(buf[f]) = Chunks[f] /\ \A i \in 1..Len(buf[f]) : buf[f][i] = <<card, i>>
    BY <1>1 DEF Clean, Read, Later
  <1> QED BY <1>2, SourceOfImage DEF VouchInv, ReadFrom

(* Each public file is read once, by readPublicHeader or by the block after. *)
LEMMA BlockFiles ==
    /\ \A i, j \in 1..Len(HeaderBlock) :
          HeaderBlock[i] = HeaderBlock[j] /\ HeaderBlock[i] \in PublicFiles => i = j
    /\ \A i, j \in 1..Len(DataBlock) :
          DataBlock[i] = DataBlock[j] /\ DataBlock[i] \in PublicFiles => i = j
    /\ \A f \in PublicFiles :
          (\E i \in 1..Len(HeaderBlock) : HeaderBlock[i] = f) <=> f \notin Later("header")
    /\ \A f \in PublicFiles :
          (\E i \in 1..Len(DataBlock) : DataBlock[i] = f) <=> f \in Later("header")
  <1>1. /\ Len(HeaderBlock) = 7 /\ HeaderBlock[1] = "reset" /\ HeaderBlock[2] = "select"
        /\ HeaderBlock[3] = "PAN" /\ HeaderBlock[4] = "select" /\ HeaderBlock[5] = "IntAuth"
        /\ HeaderBlock[6] = "enckey" /\ HeaderBlock[7] = "IdServizi"
    BY DEF HeaderBlock
  <1>2. /\ Len(DataBlock) = 4 /\ DataBlock[1] = "SOD" /\ DataBlock[2] = "IntAuthServizi"
        /\ DataBlock[3] = "select" /\ DataBlock[4] = "DH"
    BY DEF DataBlock
  <1>3. \A i \in 1..7 : i = 1 \/ i = 2 \/ i = 3 \/ i = 4 \/ i = 5 \/ i = 6 \/ i = 7
    OBVIOUS
  <1>4. \A i \in 1..4 : i = 1 \/ i = 2 \/ i = 3 \/ i = 4
    OBVIOUS
  <1>5. \A i, j \in 1..Len(HeaderBlock) :
          HeaderBlock[i] = HeaderBlock[j] /\ HeaderBlock[i] \in PublicFiles => i = j
    BY <1>1, <1>3 DEF PublicFiles
  <1>6. \A i, j \in 1..Len(DataBlock) :
          DataBlock[i] = DataBlock[j] /\ DataBlock[i] \in PublicFiles => i = j
    BY <1>2, <1>4 DEF PublicFiles
  <1>7. \A f \in PublicFiles :
          (\E i \in 1..Len(HeaderBlock) : HeaderBlock[i] = f) <=> f \notin Later("header")
    BY <1>1, <1>3 DEF PublicFiles, Later
  <1>8. \A f \in PublicFiles :
          (\E i \in 1..Len(DataBlock) : DataBlock[i] = f) <=> f \in Later("header")
    BY <1>2, <1>4 DEF PublicFiles, Later
  <1> QED BY <1>5, <1>6, <1>7, <1>8

(* cie_enable starts with empty buffers. *)
LEMMA CleanStart ==
    ASSUME cie_enable PROVE Clean'
  <1>1. /\ stage' = "header" /\ todo' = HeaderBlock /\ inFile' = FALSE
        /\ buf' = [f \in PublicFiles |-> <<>>]
    BY DEF cie_enable, Enter, Block
  <1>2. \A f \in PublicFiles : InTodo(f)' <=> f \notin Later("header")
    BY <1>1, BlockFiles DEF InTodo
  <1>3. \A f \in PublicFiles : Read(f)' = {0} /\ buf'[f] = <<>>
    BY <1>1, <1>2 DEF Read
  <1>4. Later("header") \subseteq PublicFiles
    BY DEF Later, PublicFiles
  <1> QED BY <1>1, <1>2, <1>3, <1>4, BlockFiles DEF Clean

(* The end of a list: distinct entries stay distinct. *)
LEMMA TailDistinct ==
    ASSUME todo \in Seq(Items), todo # <<>>, todo' = Tail(todo),
           \A i, j \in 1..Len(todo) : todo[i] = todo[j] /\ todo[i] \in PublicFiles => i = j
    PROVE  /\ \A i, j \in 1..Len(todo') : todo'[i] = todo'[j] /\ todo'[i] \in PublicFiles => i = j
           /\ \A f \in PublicFiles : f = Head(todo) => ~InTodo(f)'
  <1>1. /\ Tail(todo) \in Seq(Items) /\ Len(Tail(todo)) = Len(todo) - 1
        /\ \A i \in 1..Len(todo) - 1 : Tail(todo)[i] = todo[i + 1]
        /\ Head(todo) = todo[1] /\ Len(todo) \in Nat /\ Len(todo) > 0
    BY HeadTailProperties, EmptySeq
  <1>2. ASSUME NEW i \in 1..Len(todo'), NEW j \in 1..Len(todo'), todo'[i] = todo'[j],
               todo'[i] \in PublicFiles
        PROVE  i = j
    <2>1. /\ i + 1 \in 1..Len(todo) /\ j + 1 \in 1..Len(todo) /\ todo[i + 1] = todo'[i]
          /\ todo[j + 1] = todo'[j]
      BY <1>1
    <2>2. i + 1 = j + 1
      BY <1>2, <2>1
    <2> QED BY <2>2
  <1>3. ASSUME Head(todo) \in PublicFiles, NEW i \in 1..Len(todo'), todo'[i] = Head(todo)
        PROVE  FALSE
    <2>1. i + 1 \in 1..Len(todo) /\ 1 \in 1..Len(todo) /\ todo[i + 1] = todo[1] /\ todo[1] \in PublicFiles
      BY <1>1, <1>3
    <2>2. i + 1 = 1
      BY <2>1
    <2> QED BY <2>2
  <1> QED BY <1>1, <1>2, <1>3 DEF InTodo

(* A chip that is not tampered with keeps its files clean. *)
LEMMA CleanCommand ==
    ASSUME VouchInv, Clean, Command PROVE Clean'
  <1>1. /\ todo # <<>> /\ Head(todo) \notin PublicFiles /\ todo' = Tail(todo)
        /\ UNCHANGED <<card, buf, inFile, stage, chip>> /\ todo \in Seq(Items)
    BY DEF Command, VouchInv
  <1>2. ~inFile
    BY <1>1 DEF Clean
  <1>3. \A f \in PublicFiles : InTodo(f)' <=> InTodo(f)
    BY <1>1, HeadOrTail
  <1>4. \A f \in PublicFiles : Read(f)' = Read(f)
    BY <1>1, <1>2, <1>3 DEF Read
  <1>5. Later(stage) \subseteq PublicFiles
    BY DEF Later, PublicFiles
  <1> QED BY <1>1, <1>2, <1>3, <1>4, <1>5, TailDistinct DEF Clean

(* A chunk that is read is the next one of the card's file. *)
LEMMA NextChunk ==
    ASSUME VouchInv, Clean, todo # <<>>, Head(todo) \in PublicFiles
    PROVE  LET f == Head(todo)  b == AppendChunk(f)
           IN /\ b \in Seq(Cards \X Nat) /\ Len(b) \in 1..Chunks[f]
              /\ \A i \in 1..Len(b) : b[i] = <<card, i>>
  <1> DEFINE f == Head(todo)
             n == Len(buf[f])
             S == Cards \X Nat
  <1>1. /\ buf[f] \in Seq(S) /\ Chunks[f] \in Nat /\ Chunks[f] >= 1 /\ n \in Nat
        /\ \A i \in 1..n : buf[f][i] = <<card, i>>
    BY EnrolAssumption DEF VouchInv, Clean
  <1>2. InTodo(f)
    BY TailDistinct, HeadTailProperties, EmptySeq DEF VouchInv, InTodo
  <1>3. IF inFile THEN n \in 1..Chunks[f] - 1 ELSE n = 0
    BY <1>2 DEF Clean, Read
  <1>4. n < Chunks[f] /\ (~inFile => n + 1 = 1)
    BY <1>1, <1>3
  <1> HIDE DEF n
  <1>5. AppendChunk(f) = Append(buf[f], <<card, n + 1>>)
    BY <1>4 DEF AppendChunk, n
  <1> DEFINE x == <<card, n + 1>>
  <1>6. x \in S
    BY <1>1 DEF VouchInv
  <1> HIDE DEF x, S
  <1>7. /\ Append(buf[f], x) \in Seq(S) /\ Len(Append(buf[f], x)) = n + 1
        /\ \A i \in 1..n : Append(buf[f], x)[i] = buf[f][i]
        /\ Append(buf[f], x)[n + 1] = x
    BY <1>1, <1>6, AppendProperties DEF n
  <1> HIDE DEF f
  <1>8. \A i \in 1..n + 1 : Append(buf[f], x)[i] = <<card, i>>
    BY <1>1, <1>7 DEF x
  <1>9. Len(Append(buf[f], x)) \in 1..Chunks[f]
    BY <1>1, <1>4, <1>7
  <1>10. AppendChunk(f) = Append(buf[f], x)
    BY <1>5 DEF x
  <1>11. /\ AppendChunk(f) \in Seq(S) /\ Len(AppendChunk(f)) \in 1..Chunks[f]
         /\ \A i \in 1..Len(AppendChunk(f)) : AppendChunk(f)[i] = <<card, i>>
    BY <1>7, <1>8, <1>9, <1>10
  <1> QED BY <1>11, Zenon DEF S, f

(* readfile goes on with the file, or ends it; it refuses only a SOD of an   *)
(* algorithm that no issuer uses.                                            *)
LEMMA CleanReadfile ==
    ASSUME VouchInv, Clean, readfile
    PROVE  IF stage' = "idle" THEN ~Genuine(card) ELSE Clean' /\ UNCHANGED outcome
  <1> DEFINE f == Head(todo)
             b == AppendChunk(f)
  <1>1. /\ todo # <<>> /\ f \in PublicFiles /\ buf' = [buf EXCEPT ![f] = b]
        /\ UNCHANGED <<card, chip>> /\ todo \in Seq(Items)
        /\ stage \in {"header", "data"} /\ card \in Cards
    BY DEF readfile, VouchInv, Stages
  <1>2. /\ b \in Seq(Cards \X Nat) /\ Len(b) \in 1..Chunks[f]
        /\ \A i \in 1..Len(b) : b[i] = <<card, i>>
    BY <1>1, NextChunk, Zenon
  <1>3. /\ buf'[f] = b
        /\ \A g \in PublicFiles : g # f => buf'[g] = buf[g]
    BY <1>1 DEF VouchInv
  <1>4. Chunks[f] \in Nat /\ Len(b) \in Nat /\ Len(b) <= Chunks[f]
    BY <1>1, <1>2, EnrolAssumption
  <1>5. \/ Len(b) < Chunks[f] /\ inFile' = TRUE /\ UNCHANGED <<todo, stage, attempt, outcome>>
        \/ /\ Len(b) >= Chunks[f] /\ inFile' = FALSE /\ todo' = Tail(todo)
           /\ UNCHANGED <<stage, attempt, outcome>>
        \/ Len(b) >= Chunks[f] /\ ~Understood(f, b) /\ Return("rejected")
    BY Zenon DEF readfile
  <1> HIDE DEF b
  <1>6. InTodo(f) /\ Later(stage) \subseteq PublicFiles
    BY <1>1, HeadTailProperties, EmptySeq DEF InTodo, Later, PublicFiles
  <1>7. CASE Len(b) < Chunks[f] /\ inFile' = TRUE /\ UNCHANGED <<todo, stage, attempt, outcome>>
    <2>1. \A g \in PublicFiles : InTodo(g)' <=> InTodo(g)
      BY <1>7 DEF InTodo
    <2>2. \A g \in PublicFiles : g # f => Read(g)' = Read(g)
      BY <1>7, <2>1 DEF Read
    <2>3. \A g \in PublicFiles : g = f => Len(b) \in Read(g)'
      <3>1. Len(b) \in 1..Chunks[f] - 1
        BY <1>2, <1>4, <1>7
      <3> HIDE DEF f
      <3> QED BY <1>6, <1>7, <2>1, <3>1 DEF Read, f
    <2> HIDE DEF f
    <2>4. \A g \in PublicFiles : /\ Len(buf'[g]) \in Read(g)'
                                 /\ \A i \in 1..Len(buf'[g]) : buf'[g][i] = <<card', i>>
      <3> SUFFICES ASSUME NEW g \in PublicFiles
                   PROVE  /\ Len(buf'[g]) \in Read(g)'
                          /\ \A i \in 1..Len(buf'[g]) : buf'[g][i] = <<card', i>>
        OBVIOUS
      <3>1. CASE g = f
        BY <1>1, <1>2, <1>3, <2>3, <3>1
      <3>2. CASE g # f
        BY <1>1, <1>3, <2>2, <3>2 DEF Clean
      <3> QED BY <3>1, <3>2
    <2>5. stage' \in {"header", "data"}
      BY <1>1, <1>7
    <2> QED BY <1>1, <1>6, <1>7, <2>1, <2>4, <2>5 DEF Clean, f
  <1>8. CASE /\ Len(b) >= Chunks[f] /\ inFile' = FALSE /\ todo' = Tail(todo)
             /\ UNCHANGED <<stage, attempt, outcome>>
    <2>0. Len(b) = Chunks[f]
      BY <1>4, <1>8
    <2>1. /\ \A g \in PublicFiles : g # f => (InTodo(g)' <=> InTodo(g))
          /\ \A g \in PublicFiles : g = f => ~InTodo(g)'
          /\ \A i, j \in 1..Len(todo') : todo'[i] = todo'[j] /\ todo'[i] \in PublicFiles => i = j
      BY <1>1, <1>8, HeadOrTail, TailDistinct DEF Clean
    <2>2. f \notin Later(stage)
      BY <1>6 DEF Clean
    <2>3. \A g \in PublicFiles : g # f => Read(g)' = Read(g)
      BY <1>8, <2>1 DEF Read
    <2>4. \A g \in PublicFiles : g = f => Chunks[g] \in Read(g)'
      BY <1>8, <2>1, <2>2 DEF Read
    <2>5. \A g \in Later(stage) : ~InTodo(g)'
      BY <1>6, <2>1 DEF Clean
    <2> HIDE DEF f
    <2>6. \A g \in PublicFiles : /\ Len(buf'[g]) \in Read(g)'
                                 /\ \A i \in 1..Len(buf'[g]) : buf'[g][i] = <<card', i>>
      <3> SUFFICES ASSUME NEW g \in PublicFiles
                   PROVE  /\ Len(buf'[g]) \in Read(g)'
                          /\ \A i \in 1..Len(buf'[g]) : buf'[g][i] = <<card', i>>
        OBVIOUS
      <3>1. CASE g = f
        BY <1>1, <1>2, <1>3, <2>0, <2>4, <3>1
      <3>2. CASE g # f
        BY <1>1, <1>3, <2>3, <3>2 DEF Clean
      <3> QED BY <3>1, <3>2
    <2> QED BY <1>1, <1>8, <2>1, <2>5, <2>6 DEF Clean
  <1>9. CASE Len(b) >= Chunks[f] /\ ~Understood(f, b) /\ Return("rejected")
    <2>1. Len(b) = Chunks[f]
      BY <1>4, <1>9
    <2> HIDE DEF f
    <2>2. Source(f, b) = card
      BY <1>1, <1>2, <2>1, SourceOfImage
    <2>3. Parses(f, b)
      BY <1>1, <2>1, <2>2, EnrolAssumption DEF Parses
    <2>4. GetSODDigestAlg(Doc[card].sod) = "unsupported"
      BY <1>9, <2>2, <2>3 DEF Understood
    <2>5. ~Genuine(card)
      BY <2>4 DEF GetSODDigestAlg, Genuine, IssuedSod
    <2> QED BY <1>9, <2>5 DEF Return
  <1>10. stage \in {"header", "data"}
    BY <1>1
  <1> QED BY <1>5, <1>7, <1>8, <1>9, <1>10

(* The other steps of a call whose link holds. *)
LEMMA CleanStages ==
    ASSUME VouchInv, Clean, stage # "idle",
           HeaderEnds \/ DataEnds \/ CardAuthenticateEx \/ VerifySod \/ WriteCache \/ SetCache
    PROVE  /\ stage' # "idle" => Clean'
           /\ outcome' = "rejected" => outcome = "rejected" \/ ~Genuine(card)
  <1>0. UNCHANGED <<buf, card>>
    BY DEF HeaderEnds, DataEnds, CardAuthenticateEx, VerifySod, WriteCache, SetCache, reading
  <1>1. ASSUME stage \notin {"header", "idle"}, todo = <<>>, todo' = <<>>, inFile' = FALSE,
               stage' \notin {"header", "idle"},
               stage' \in {"secured", "store"} => chip' = card
        PROVE  Clean'
    <2>1. \A f : ~InTodo(f) /\ ~InTodo(f)'
      BY <1>1 DEF InTodo
    <2>2. \A f \in PublicFiles : Read(f)' = Read(f)
      BY <1>1, <2>1 DEF Read, Later
    <2> QED BY <1>0, <1>1, <2>1, <2>2 DEF Clean
  <1>2. CASE HeaderEnds
    <2>1. CASE stage' = "idle"
      BY <1>2, <2>1 DEF HeaderEnds, Return, Enter
    <2>2. CASE stage' # "idle"
      <3>1. /\ stage = "header" /\ todo = <<>> /\ stage' = "data" /\ todo' = DataBlock
            /\ inFile' = FALSE /\ outcome' = outcome
        BY <1>2, <2>2 DEF HeaderEnds, Return, Enter, Block
      <3>2. \A f \in PublicFiles : ~InTodo(f) /\ (InTodo(f)' <=> f \in Later("header"))
        BY <3>1, BlockFiles DEF InTodo
      <3>3. \A f \in PublicFiles : Read(f)' = Read(f)
        BY <3>1, <3>2 DEF Read, Later
      <3> QED BY <1>0, <3>1, <3>3, BlockFiles DEF Clean, Later
    <2> QED BY <2>1, <2>2
  <1>3. CASE DataEnds
    <2>1. /\ stage = "data" /\ todo = <<>> /\ stage' = "auth" /\ todo' = <<>> /\ inFile' = FALSE
          /\ outcome' = outcome
      BY <1>3 DEF DataEnds, Enter, Block
    <2> QED BY <1>1, <2>1
  <1>4. CASE CardAuthenticateEx
    <2>1. stage = "auth" /\ todo = <<>>
      BY <1>4 DEF CardAuthenticateEx, VouchInv
    <2>2. ChipAuthentic
      BY <2>1, AllRead DEF ChipAuthentic, PublicFiles
    <2>3. CASE Return("pin")
      BY <2>3 DEF Return
    <2>4. CASE Enter("secured") /\ chip' = card /\ UNCHANGED outcome
      <3>1. stage' = "secured" /\ todo' = <<>> /\ inFile' = FALSE
        BY <2>4 DEF Enter, Block
      <3> QED BY <1>1, <2>1, <2>4, <3>1
    <2> QED BY <1>4, <2>2, <2>3, <2>4 DEF CardAuthenticateEx
  <1>5. CASE VerifySod
    <2>1. stage = "secured" /\ todo = <<>> /\ chip = card /\ chip' = chip
      BY <1>5 DEF VerifySod, VouchInv, Clean
    <2>2. CASE SodAccepts
      <3>1. stage' = "store" /\ todo' = <<>> /\ inFile' = FALSE /\ outcome' = outcome
        BY <1>5, <2>2 DEF VerifySod, Enter, Block
      <3> QED BY <1>1, <2>1, <3>1
    <2>3. CASE ~SodAccepts
      <3>1. stage' = "idle"
        BY <1>5, <2>3 DEF VerifySod, Return
      <3>2. ~Genuine(card)
        BY <2>1, <2>3, AllRead, GenuineAccepted
      <3> QED BY <3>1, <3>2
    <2> QED BY <2>2, <2>3
  <1>6. CASE WriteCache
    <2>1. UNCHANGED <<stage, todo, inFile, chip, outcome>>
      BY <1>6 DEF WriteCache, reading
    <2>2. \A f : (InTodo(f)' <=> InTodo(f)) /\ Read(f)' = Read(f)
      BY <2>1 DEF Read, InTodo
    <2> QED BY <1>0, <2>1, <2>2 DEF Clean
  <1>7. CASE SetCache
    BY <1>7 DEF SetCache, Return
  <1> QED BY <1>2, <1>3, <1>4, <1>5, <1>6, <1>7

(* While no link has broken, cie_enable refuses no genuine document of either *)
(* generation: every check of the key, the SOD and its digests passes for the *)
(* SOD that an issuer makes (ReadDappPubKey, DAPP, VerificaSOD,               *)
(* VerificaSODPSS).                                                           *)
THEOREM GenuineIsNeverRefused == Spec => []GenuineIsAccepted
  <1>1. Init => CleanInv
    BY DEF Init, CleanInv
  <1>2. VouchInv /\ CleanInv /\ [Next]_vars => CleanInv'
    <2> SUFFICES ASSUME VouchInv, CleanInv, [Next]_vars PROVE CleanInv'
      OBVIOUS
    <2>1. CASE LinkBreaks
      BY <2>1 DEF LinkBreaks, CleanInv
    <2>2. CASE UNCHANGED vars
      <3>1. UNCHANGED <<stage, todo, inFile, chip, outcome, buf, card, drops>>
        BY <2>2 DEF vars, reading
      <3>2. \A f : (InTodo(f)' <=> InTodo(f)) /\ Read(f)' = Read(f)
        BY <3>1 DEF Read, InTodo
      <3>3. Clean => Clean'
        BY <3>1, <3>2 DEF Clean
      <3> QED BY <3>1, <3>3 DEF CleanInv, Genuine
    <2>3. ASSUME Next, ~LinkBreaks PROVE UNCHANGED <<drops, card>>
      BY <2>3 DEF Next, cie_enable, Command, readfile, HeaderEnds, DataEnds, CardAuthenticateEx,
                  VerifySod, WriteCache, SetCache, reading
    <2>4. CASE cie_enable
      <3>1. Clean' /\ outcome' = "none" /\ UNCHANGED drops
        BY <2>4, CleanStart DEF cie_enable
      <3> QED BY <3>1 DEF CleanInv
    <2>5. CASE Next /\ ~LinkBreaks /\ ~cie_enable
      <3>1. stage # "idle"
        BY <2>5 DEF Next, Command, readfile, HeaderEnds, DataEnds, CardAuthenticateEx, VerifySod,
                    WriteCache, SetCache, VouchInv
      <3>2. ASSUME Clean
            PROVE  /\ stage' # "idle" => Clean'
                   /\ outcome' = "rejected" => outcome = "rejected" \/ ~Genuine(card)
        <4>1. CASE Command
          BY <3>2, <4>1, CleanCommand DEF Command
        <4>2. CASE readfile
          BY <3>2, <4>2, CleanReadfile
        <4> QED BY <2>5, <3>1, <3>2, <4>1, <4>2, CleanStages DEF Next
      <3>3. Genuine(card)' <=> Genuine(card)
        BY <2>3, <2>5 DEF Genuine
      <3> QED BY <2>3, <2>5, <3>1, <3>2, <3>3 DEF CleanInv
    <2> QED BY <2>1, <2>2, <2>4, <2>5
  <1>3. CleanInv => GenuineIsAccepted
    BY DEF CleanInv, GenuineIsAccepted
  <1> QED BY <1>1, <1>2, <1>3, VouchInvariance, PTL DEF Spec
=============================================================================
