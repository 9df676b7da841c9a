-------------------------------- MODULE Sod ---------------------------------
(* The Document Security Object of a CIE, as IAS::GetSODDigestAlg,          *)
(* VerificaSODPSS and VerificaSOD read it (shared/src/csp/ias.cpp).         *)
(*                                                                          *)
(* An SOD is what those functions tell apart: whether its object            *)
(* identifiers and version numbers are the expected ones, the algorithms it *)
(* names in four places, the digest in its signed attributes, who signed    *)
(* those attributes and with which hash, the key of the certificate it      *)
(* encloses, and the list of data group digests.  A digest is the pair of   *)
(* the algorithm and what it was computed over: no two contents collide.    *)
Digest(alg, content) == <<alg, content>>

(* The first digestAlgorithms entry, read before the PIN is asked. *)
GetSODDigestAlg(sod) ==
    IF sod.digestAlg \in {"sha256", "sha512"} THEN sod.digestAlg ELSE "unsupported"

(* Object identifiers, versions and algorithm identifiers. *)
PssFields(sod) == /\ sod.oids
                  /\ sod.digestAlg = "sha512" /\ sod.signerDigest = "sha512"
                  /\ sod.pssHash = "sha512" /\ sod.sigAlg = "rsaPss"

(* The attribute holds the digest of the list; the enclosed certificate's   *)
(* key verifies the attributes.  That certificate is chained to no issuer.  *)
PssSignature(sod) == /\ sod.md = Digest("sha512", sod.lds)
                     /\ sod.signature = [key |-> sod.certKey, hash |-> "sha512", md |-> sod.md]

PssGroups_Logged(sod, hashSet) == sod.lds.version = 1 /\ sod.lds.alg = "sha512"
(* Every listed group has been read, and reads as listed.  A group that was *)
(* read and is not listed is not asked for.                                 *)
PssGroups(sod, hashSet) ==
    /\ sod.lds.version = 1 /\ sod.lds.alg = "sha512"
    /\ \A g \in DOMAIN sod.lds.hashes :
          g \in DOMAIN hashSet /\ hashSet[g] = sod.lds.hashes[g]

VerificaSODPSS(sod, hashSet) == PssFields(sod) /\ PssSignature(sod) /\ PssGroups(sod, hashSet)

Pkcs1Fields_Sha256(sod) ==
    sod.oids /\ {sod.digestAlg, sod.signerDigest} = {"sha256"} /\ sod.sigAlg = "rsaSha256"
Pkcs1Fields(sod) == /\ sod.oids
                    /\ sod.digestAlg = "sha256" /\ sod.signerDigest = "sha256"
                    /\ sod.sigAlg \in {"rsaSha1", "rsaSha256"}

Pkcs1Signature(sod) ==
    /\ sod.md = Digest("sha256", sod.lds)
    /\ sod.signature = [key |-> sod.certKey, md |-> sod.md,
                        hash |-> IF sod.sigAlg = "rsaSha1" THEN "sha1" ELSE "sha256"]

(* A group that was not read, or reads otherwise, is logged and accepted. *)
Pkcs1Groups(sod, hashSet) == sod.lds.version = 0 /\ sod.lds.alg = "sha256"

VerificaSOD(sod, hashSet) == Pkcs1Fields(sod) /\ Pkcs1Signature(sod) /\ Pkcs1Groups(sod, hashSet)
=============================================================================
