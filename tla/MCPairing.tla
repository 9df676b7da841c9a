----------------------------- MODULE MCPairing -----------------------------
(* Instances of Pairing for TLC. *)
EXTENDS Pairing, TLC

CONSTANTS c1, c2, p1, p2, h1, h2, none

OneReader == <<c1>>
TwoReaders == <<c1, c2>>
CieOps == ScanOps \union FileOps
AllOps == P11Ops \union CieOps
KeepingOps == AllOps \ {"C_SetPIN", "C_InitPIN"}
Symmetry == Permutations({p1, p2}) \union Permutations({h1, h2})
=============================================================================
