----------------------------- MODULE MCSignVerify -----------------------------
(***************************************************************************)
(* A handful of documents for SignVerify, signed in the PKI of MCPki.      *)
(***************************************************************************)
EXTENDS SignVerify, MCPki

\* A sound signature by c over content s, with signed attributes.
Sig(c, s) == [parent |-> 0, cert |-> c, by |-> MCCerts[c].key, exact |-> TRUE,
              alg |-> "sha256", declared |-> "sha256", attrs |-> {"MD", "CT", "SC"},
              signed |-> "attributes", md |-> s, tst |-> FALSE, sub |-> "detached"]
Plain(c, s) == [Sig(c, s) EXCEPT !.attrs = {}, !.signed = s]
Lost(s) == [Sig("A", s) EXCEPT !.cert = "null"]

Doc(type, nodes, token) ==
    [type |-> type, exists |-> TRUE, parses |-> TRUE, dotPdf |-> FALSE,
     detached |-> FALSE, content |-> "text", nodes |-> nodes, token |-> token]

Token == <<Sig("D", "tst_info")>>
Foreign == <<Sig("X", "tst_info")>>

\* Every file type, with the defects the code tells apart.
MCDocs ==
    [counter |-> Doc("p7m", <<[Sig("A", "text") EXCEPT !.tst = TRUE],
                              [Sig("X", "signature_of_parent") EXCEPT !.parent = 1]>>, Foreign),
     forged  |-> [Doc("p7m", <<Plain("F", "text")>>, Foreign) EXCEPT !.dotPdf = TRUE],
     lost    |-> Doc("p7m", <<Plain("X", "text"), Lost("text")>>, Foreign),
     apart   |-> [Doc("p7m", <<Sig("B", "plain")>>, Foreign) EXCEPT !.detached = TRUE],
     absent  |-> [Doc("pdf", <<>>, Foreign) EXCEPT !.exists = FALSE],
     broken  |-> [Doc("m7m", <<>>, Foreign) EXCEPT !.parses = FALSE],
     mixed   |-> Doc("m7m", <<Sig("X", "text")>>, Foreign),
     swapped |-> Doc("m7m", <<Sig("F", "text")>>, <<>>),
     pdf     |-> Doc("pdf", <<[Sig("D", "text") EXCEPT !.tst = TRUE],
                              [Sig("X", "text") EXCEPT !.md = "other"]>>, Token),
     noRect  |-> Doc("pdf", <<Sig("X", "text"), [Sig("B", "text") EXCEPT !.sub = "no_rect"]>>, Foreign),
     rsaSha1 |-> Doc("pdf", <<[Sig("X", "other") EXCEPT !.sub = "other"]>>, Foreign),
     parts   |-> Doc("pdf", <<[Sig("D", "enclosed") EXCEPT !.sub = "sha1"],
                              [Sig("F", "part") EXCEPT !.sub = "part"],
                              [Sig("X", "text") EXCEPT !.sub = "outside"]>>, Foreign),
     tsd     |-> [Doc("tsd", <<Sig("F", "text"), Lost("text")>>, Foreign) EXCEPT !.detached = TRUE],
     tsr     |-> Doc("tsr", <<>>, Token),
     xml     |-> Doc("xml", <<[Sig("B", "text") EXCEPT !.attrs = {"MD"}]>>, Foreign),
     xmlPart |-> Doc("xml", <<[Sig("X", "part") EXCEPT !.attrs = {"MD", "SC"}, !.sub = "part"]>>, Foreign),
     xml2    |-> Doc("xml", <<Sig("F", "text"), Lost("text")>>, Foreign),
     word    |-> Doc("other", <<>>, Foreign)]

=============================================================================
