---------------------------- MODULE MCOperations ----------------------------
(* Instances of Operations for TLC. *)
EXTENDS Operations, TLC

CONSTANTS r1, c1, c2, none, p1, p2, nopin, d1, d2

OneReader == {r1}
TwoCards == {c1, c2}
WorksOrNot == {"fail", "ok"}
TwoPins == {p1, p2}
ShortAndLong == {d1, d2}
OnlyLong == {d2}
OneDigest == {"CKM_SHA256"}
BothFamilies == {"CKM_RSA_PKCS", "CKM_SHA256_RSA_PKCS"}
KeyPair == {{"public", "private"}}
ReadWrite == {TRUE}
Sym == Permutations(TwoCards)
=============================================================================
