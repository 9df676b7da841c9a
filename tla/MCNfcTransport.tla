--------------------------- MODULE MCNfcTransport ---------------------------
(* Two activations: a type A card whose ATS announces two interface bytes,  *)
(* then a type B card.                                                      *)
EXTENDS NfcTransport

MCCard == << [ats |-> <<6, {"TA", "TC"}, "ta", "tc", "h1", "h2">>, hi |-> <<>>],
             [ats |-> <<>>, hi |-> <<"b1">>] >>
=============================================================================
