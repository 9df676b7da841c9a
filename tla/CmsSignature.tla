---------------------------- MODULE CmsSignature ----------------------------
(***************************************************************************)
(* A CMS SignerInfo as the signature SDK writes and reads it (sign-sdk/src *)
(* /asn1/signer_info.cpp): what the signature is over, and what            *)
(* CSignerInfo::verifySignature finds when it looks.  SignVerify reads     *)
(* such records, SignSdk makes them.                                       *)
(*                                                                         *)
(* A record names its certificate (Null when it is not enclosed), the key  *)
(* that really signed, the hash of the DigestInfo and the one declared,    *)
(* the signed attributes present, what was signed (the attributes or a     *)
(* content), and what the message digest attribute is the digest of.       *)
(***************************************************************************)
EXTENDS CertTrust

NodeRecord == [parent: Nat, cert: DOMAIN Certs \cup {Null}, by: Keys,
               exact: BOOLEAN, alg: STRING, declared: STRING,
               attrs: SUBSET {"MD", "CT", "SC"}, signed: STRING, md: STRING,
               tst: BOOLEAN, sub: STRING]

Bit(name, p) == IF p THEN {name} ELSE {}

\* The recovered block is exactly one DigestInfo, with the hash declared.
DigestInfoOk(node) == node.exact /\ node.alg = node.declared

\* With signed attributes the signature is over them and the message digest
\* attribute over the content; without, it is over the content itself.
SignatureMatches(node, source) ==
    /\ node.alg \in {"sha256", "sha1"}
    /\ node.signed = (IF node.attrs = {} THEN source ELSE "attributes")
    /\ node.attrs # {} => "MD" \in node.attrs /\ node.md = source

SignatureBits(node, source) ==
    IF node.by # Certs[node.cert].key \/ ~DigestInfoOk(node) THEN {}
    ELSE node.attrs \cup Bit("SHA256", node.alg = "sha256")
                    \cup Bit("SIGNATURE", SignatureMatches(node, source))

\* CSignedDocument::getContent reads the EncapsulatedContentInfo, object
\* identifier first, as a C string: never the content, and never a CMS
\* message either, so no signature inside a signature is ever found.
getContent(d) == "oid_then_cut"

=============================================================================
