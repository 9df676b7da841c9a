------------------------------ MODULE NfcCards ------------------------------
(* What both NFC transports stand on: the cards that come into the field of *)
(* the phone's controller and leave it, and the ATR that the PKCS#11 slots  *)
(* match card templates on, which a contactless card does not have and the  *)
(* transports synthesise.                                                   *)
(*                                                                          *)
(* An activation of a card is a number: the kernel never gives a target     *)
(* index twice, and Android makes a Tag object per discovery.  Card[n] is   *)
(* the card that activation n finds: its ATS (empty for a type B card), in  *)
(* which byte 2 is the set of the interface bytes that T0 announces, and    *)
(* the higher-layer response of a type B card.                              *)
EXTENDS Naturals, Sequences, FiniteSets

CONSTANT Card

(* A sequence whose elements need not belong to one set. *)
IsSequence(s) == Len(s) \in Nat /\ s = [i \in 1..Len(s) |-> s[i]]

ASSUME CardAssumption ==
  /\ IsSequence(Card)
  /\ \A n \in DOMAIN Card :
       /\ IsSequence(Card[n].ats)
       /\ Card[n].ats # <<>> => Len(Card[n].ats) >= 2 /\ IsFiniteSet(Card[n].ats[2])
       /\ Card[n].ats = <<>> => Card[n].hi # <<>>

VARIABLES field,    \* the activation in the field, 0 when there is none
          shown,    \* activations so far
          answer    \* the activation that answered the last APDU, 0 none

cardVars == <<field, shown, answer>>

CardInit == field = 0 /\ shown = 0 /\ answer = 0

Enter == /\ field = 0 /\ shown < Len(Card)
         /\ shown' = shown + 1 /\ field' = shown'
         /\ UNCHANGED answer

Leave == /\ field # 0 /\ field' = 0
         /\ UNCHANGED <<shown, answer>>

(* The bytes that decide an ATR: T0 holds the count of the historical bytes *)
(* in four bits; TS, TD1 and TD2 are fixed and TCK is a function of the rest. *)
Atr(bytes) == <<Len(bytes) % 16>> \o bytes

MinimalAtr == Atr(<<>>)

(* linuxNfcAtrFromAts: what follows the interface bytes of the ATS. *)
AtrFromAts(ats) ==
  LET offset == IF Len(ats) >= 2 THEN 2 + Cardinality(ats[2]) ELSE Len(ats)
  IN IF offset >= Len(ats) THEN MinimalAtr
     ELSE Atr(SubSeq(ats, offset + 1, Len(ats)))

(* IsoDep.getHistoricalBytes and getHiLayerResponse: null for a card of the *)
(* other type.                                                              *)
HistoricalBytes(n) ==
  SubSeq(Card[n].ats, 3 + Cardinality(Card[n].ats[2]), Len(Card[n].ats))

(* AndroidNFCTransport::buildATR *)
AtrFromTag(n) == IF Card[n].ats # <<>> THEN Atr(HistoricalBytes(n)) ELSE Atr(Card[n].hi)
=============================================================================
