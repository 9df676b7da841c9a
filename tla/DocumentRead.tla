----------------------------- MODULE DocumentRead -----------------------------
(***************************************************************************)
(* What cie_read_dgs_can and cie_read_dgs promise, whatever happens to the *)
(* card, the reader and the link: an application asks with a secret, and   *)
(* is given the two files of one card that knows this secret, complete and *)
(* unchanged, or it is refused; and no card counts more than one wrong     *)
(* secret for a request.  A refusal may come with the first file, when the *)
(* caller's buffer is too small for the other.                             *)
(***************************************************************************)
EXTENDS Integers, Sequences

CONSTANTS Chip, Size

VARIABLES asked, answer, charged

dvars == <<asked, answer, charged>>

Nobody == [mode |-> "none", secret |-> "none"]
Content(r) == [f \in {"DG1", "DG2"} |-> [i \in 1..Size[f] |-> <<r, f, i>>]]
Empty == [f \in {"DG1", "DG2"} |-> <<>>]

Knows(r, request) ==
    request.secret = IF request.mode = "can" THEN Chip[r].can ELSE Chip[r].pin

DocInit ==
    /\ asked = Nobody /\ answer = Empty
    /\ charged = [r \in 1..Len(Chip) |-> 0]

Ask ==
    /\ asked = Nobody /\ asked' # Nobody
    /\ answer' = Empty
    /\ charged' = [r \in 1..Len(Chip) |-> 0]

(* A request that is not well formed is refused at once.                   *)
RefuseAtOnce ==
    /\ asked = Nobody /\ UNCHANGED asked
    /\ answer' = Empty
    /\ charged' = [r \in 1..Len(Chip) |-> 0]

(* A card may count a wrong secret before the refusal or with it.  It      *)
(* takes the right number for a wrong one when the nonce that it sent was  *)
(* damaged on its way: the nonce of PACE is not protected.                 *)
Count(r) ==
    /\ asked # Nobody
    /\ ~Knows(r, asked) \/ asked.mode = "can"
    /\ charged[r] = 0
    /\ charged' = [charged EXCEPT ![r] = 1]
    /\ asked' \in {asked, Nobody} /\ UNCHANGED answer

Deliver(r) ==
    /\ asked # Nobody /\ asked' = Nobody
    /\ Knows(r, asked) /\ charged[r] = 0
    /\ answer' = Content(r)
    /\ UNCHANGED charged

DeliverFirst(r) ==
    /\ asked # Nobody /\ asked' = Nobody
    /\ Knows(r, asked) /\ charged[r] = 0
    /\ answer' = [Empty EXCEPT !["DG1"] = Content(r)["DG1"]]
    /\ UNCHANGED charged

Refuse ==
    /\ asked # Nobody /\ asked' = Nobody
    /\ UNCHANGED <<answer, charged>>

DocNext ==
    \/ Ask \/ RefuseAtOnce \/ Refuse
    \/ \E r \in 1..Len(Chip) : Count(r) \/ Deliver(r) \/ DeliverFirst(r)

DocSpec == DocInit /\ [][DocNext]_dvars
=============================================================================
