-------------------------------- MODULE MCPki --------------------------------
(***************************************************************************)
(* A small PKI.  R is the root and S the issuing CA, both compiled in,     *)
(* with C, which falls into the bucket of S.  A and B are citizens'        *)
(* certificates, D a delegated OCSP responder, X a stranger's self-signed  *)
(* certificate whose name falls into the bucket of R, F a certificate that *)
(* names S as its issuer and is signed by the stranger.                    *)
(***************************************************************************)
Cert(subj, iss, ski, aki, serial, key, by) ==
    [subject |-> subj, issuer |-> iss, ski |-> ski, aki |-> aki, serial |-> serial,
     key |-> key, signedBy |-> by, consistent |-> TRUE, from |-> 0, to |-> 9,
     nonRep |-> TRUE, qc |-> TRUE, eku |-> FALSE, ocsp |-> FALSE, dps |-> 1]

MCCerts == [R |-> [Cert("R", "R", "kR", "kR", 1, "KR", "KR") EXCEPT !.dps = 0],
            S |-> Cert("S", "R", "kS", "kR", 2, "KS", "KR"),
            C |-> Cert("C", "R", "kC", "kR", 3, "KC", "KR"),
            A |-> [Cert("A", "S", "none", "kS", 4, "KA", "KS") EXCEPT !.ocsp = TRUE],
            B |-> [Cert("B", "S", "none", "kS", 5, "KB", "KS") EXCEPT !.dps = 2],
            D |-> [Cert("D", "S", "none", "kS", 6, "KD", "KS") EXCEPT !.eku = TRUE, !.qc = FALSE, !.to = 0],
            X |-> [Cert("X", "X", "none", "none", 7, "KX", "KX") EXCEPT !.nonRep = FALSE],
            F |-> Cert("F", "S", "none", "kS", 8, "KX", "KX")]

MCBucket == [kR |-> 1, kS |-> 2, kC |-> 2, R |-> 3, S |-> 3, C |-> 3, X |-> 1,
             A |-> 4, B |-> 4, D |-> 4, F |-> 4]
MCBuiltIn == <<"C", "S", "R">>
MCRevokedAt == [R |-> 9, S |-> 9, C |-> 9, A |-> 1, B |-> 1, D |-> 9, X |-> 9, F |-> 9]
MCOnHold == {"B"}
=============================================================================
