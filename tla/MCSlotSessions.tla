--------------------------- MODULE MCSlotSessions ---------------------------
(* Instances of SlotSessions for TLC. *)
EXTENDS SlotSessions

CONSTANTS r1, c1, c2, none

OneReader == {r1}
OneCard == {c1}
TwoCards == {c1, c2}
AllAnswers == Answer
=============================================================================
