--------------------------- MODULE CardTransport ----------------------------
(* What the users of ISmartCardTransport rely on (the IAS protocol keeps a  *)
(* secure channel and a PIN state over many Transmit calls): a connection   *)
(* is to one card, the one that was in the field when it was made, and only *)
(* that card, still there, answers on it.  A connection may be lost at any  *)
(* time, and is never replaced by one to another card without a Connect or  *)
(* a Reconnect.                                                             *)
EXTENDS Naturals

VARIABLES field,    \* the card in the field, 0 for none
          conn,     \* the card of the connection, 0 for none
          answer    \* the card whose answer Transmit gave last, 0 for none

vars == <<field, conn, answer>>

Init == field = 0 /\ conn = 0 /\ answer = 0

Move == /\ field' \in Nat /\ (field # 0 => field' = 0)
        /\ UNCHANGED <<conn, answer>>

Open == /\ field # 0 /\ conn' = field
        /\ UNCHANGED <<field, answer>>

Lose == /\ conn' = 0
        /\ UNCHANGED <<field, answer>>

Exchange == /\ conn # 0 /\ conn = field /\ answer' = conn
            /\ UNCHANGED <<field, conn>>

Next == Move \/ Open \/ Lose \/ Exchange

Spec == Init /\ [][Next]_vars
=============================================================================
