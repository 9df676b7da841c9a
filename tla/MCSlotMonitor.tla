--------------------------- MODULE MCSlotMonitor ---------------------------
(* SlotMonitor for TLC: the readers r1, r2 and the waiting threads w1, w2  *)
(* are model values.                                                       *)
EXTENDS SlotMonitor

CONSTANTS r1, r2, w1, w2
=============================================================================
