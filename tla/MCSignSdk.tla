------------------------------ MODULE MCSignSdk ------------------------------
(***************************************************************************)
(* Files and options for SignSdk, with the PKI of MCPki.                   *)
(***************************************************************************)
EXTENDS SignSdk, MCPki

Plain(name) == [NoFile EXCEPT !.form = "plain", !.content = <<name>>]
OldSigner == [parent |-> 0, cert |-> "B", by |-> "KB", exact |-> TRUE, alg |-> "sha256",
              declared |-> "sha256", attrs |-> {"MD", "CT", "SC"}, signed |-> "attributes",
              md |-> <<"text">>, value |-> <<"B", <<"text">>, 0>>, token |-> NoToken]

MCInputs == (<<"text">> :> Plain("text")) @@
            (<<"cms">>  :> [Plain("text") EXCEPT !.form = "cms", !.parses = TRUE,
                                                 !.nodes = <<OldSigner>>]) @@
            (<<"pdf">>  :> [Plain("pages") EXCEPT !.form = "pdf", !.parses = TRUE]) @@
            (<<"xml">>  :> [Plain("tags") EXCEPT !.form = "xml", !.parses = TRUE])

Base == [ias |-> TRUE, pin |-> "right", in |-> <<"text">>, out |-> NoPath, cades |-> TRUE,
         type |-> "plain", detached |-> FALSE, verify |-> FALSE, tsa |-> "none",
         visible |-> FALSE]

MCOptionSets ==
    {Base, [Base EXCEPT !.detached = TRUE, !.tsa = "url"],
     [Base EXCEPT !.verify = TRUE], [Base EXCEPT !.in = <<"cms">>, !.type = "p7m"],
     [Base EXCEPT !.in = <<"text">>, !.type = "p7m"],
     [Base EXCEPT !.in = <<"pdf">>, !.type = "pdf", !.tsa = "url", !.verify = TRUE,
                !.visible = TRUE],
     [Base EXCEPT !.in = <<"text">>, !.type = "pdf"],
     [Base EXCEPT !.in = <<"xml">>, !.type = "xml", !.verify = TRUE, !.detached = TRUE],
     [Base EXCEPT !.in = <<"text">>, !.type = "xml"],
     [Base EXCEPT !.in = <<"missing">>], [Base EXCEPT !.out = <<"text">>, !.cades = FALSE],
     [Base EXCEPT !.tsa = "user_only"], [Base EXCEPT !.ias = FALSE], [Base EXCEPT !.pin = "wrong"]}

MCReaderLists == {<<"empty", "unsupported", "target">>, <<"other", "broken">>, <<"other", "empty">>,
                  <<"unsupported">>, <<>>}
=============================================================================
