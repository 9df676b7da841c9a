---------------------------- MODULE MCEnrolData -----------------------------
(* Documents of both generations, a document whose certificate is not the    *)
(* one its SOD lists, one whose list was not the one signed, one that signed *)
(* its own list, of its certificate only, and an old one whose certificate   *)
(* does not parse.                                                           *)
EXTENDS EnrolData, TLC

Contents(c) == [g \in Groups |-> <<c, g>>]
Document(sigAlg, c) == [sod |-> IssuedSod(sigAlg, Contents(c), "signer"), data |-> Contents(c),
                        x509 |-> c # "unparsed"]
OwnSod(c) == LET sod == IssuedSod("rsaPss", Contents(c), "own")
                 lds == [sod.lds EXCEPT !.hashes = [g \in {"Cert"} |-> @[g]]]
             IN [sod EXCEPT !.lds = lds, !.md = Digest("sha512", lds),
                            !.signature.md = Digest("sha512", lds)]
MCDoc == [c \in Cards |->
    CASE c = "new" -> Document("rsaPss", c)
      [] c = "new2" -> Document("rsaPss", c)
      [] c = "old" -> Document("rsaSha1", c)
      [] c = "unparsed" -> Document("rsaSha256", c)
      [] c = "selfsigned" -> [Document("rsaPss", c) EXCEPT !.sod = OwnSod(c)]
      [] c = "altered" -> [Document("rsaPss", c) EXCEPT !.data["Cert"] = <<"another", "Cert">>]
      [] c = "relisted" -> [Document("rsaPss", c) EXCEPT !.sod.lds.hashes["Cert"] =
                                                    Digest("sha512", <<"another", "Cert">>)]]

(* Only the SOD, which holds a certificate, surely needs several chunks. *)
MCChunks == [f \in PublicFiles |-> IF f = "SOD" THEN 3 ELSE 1]
=============================================================================
