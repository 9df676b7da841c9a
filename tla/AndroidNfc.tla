----------------------------- MODULE AndroidNfc -----------------------------
(* AndroidNFCTransport: IsoDep through JNI.  The app hands the Tag of each  *)
(* discovery to cie_set_nfc_tag; a transport takes its own reference to the *)
(* one that is set when it is created and keeps it for its life.            *)
EXTENDS NfcCards

VARIABLES g_isoDep,      \* the Tag last handed over, 0 for none
          alive,         \* the transport object exists
          isoDep,        \* isoDep_: its Tag, 0 for none
          atr,           \* cachedATR_
          connected      \* connected_

androidVars == <<g_isoDep, alive, isoDep, atr, connected>>

AndroidInit == /\ g_isoDep = 0
               /\ alive = FALSE /\ isoDep = 0 /\ atr = <<>> /\ connected = FALSE

(* onTagDiscovered hands over the Tag in the field, or one that has left it. *)
cie_set_nfc_tag == /\ g_isoDep' \in {0, field, shown} \ {g_isoDep}
                   /\ UNCHANGED <<alive, isoDep, atr, connected>>

cie_clear_nfc_tag == /\ g_isoDep # 0 /\ g_isoDep' = 0
                     /\ UNCHANGED <<alive, isoDep, atr, connected>>

(* The constructor; without a JNIEnv the object has no Tag. *)
NewTransport ==
  /\ ~alive /\ alive' = TRUE
  /\ \E env \in BOOLEAN : isoDep' = IF env THEN g_isoDep ELSE 0
  /\ atr' = IF isoDep' = 0 THEN <<>> ELSE AtrFromTag(isoDep')
  /\ connected' = FALSE
  /\ UNCHANGED g_isoDep

DeleteTransport ==
  /\ alive /\ alive' = FALSE
  /\ isoDep' = 0 /\ atr' = <<>> /\ connected' = FALSE
  /\ UNCHANGED g_isoDep

AConnect_Unchecked ==
  /\ alive /\ isoDep # 0 /\ connected' = TRUE
  /\ UNCHANGED <<g_isoDep, alive, isoDep, atr>>

(* IsoDep.connect() throws when the Tag has left; isConnected() asks the    *)
(* controller, so a Tag that it calls connected is in the field.            *)
AConnect ==
  /\ alive /\ isoDep # 0
  /\ connected' \in {connected} \union {isoDep = field}
  /\ UNCHANGED <<g_isoDep, alive, isoDep, atr>>

ADisconnect ==
  /\ alive /\ connected /\ connected' = FALSE
  /\ UNCHANGED <<g_isoDep, alive, isoDep, atr>>

(* transceive answers, or throws; then connected_ is cleared, and Reconnect, *)
(* which does nothing, does not set it again.                                *)
ATransmit ==
  /\ alive /\ connected
  /\ \/ isoDep = field /\ answer' = isoDep /\ UNCHANGED connected
     \/ connected' = FALSE /\ UNCHANGED answer
     \/ isoDep = field /\ UNCHANGED <<answer, connected>>  \* too long, dropped
  /\ UNCHANGED <<g_isoDep, alive, isoDep, atr>>
=============================================================================
