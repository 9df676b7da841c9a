---------------------------- MODULE MCChipReader ----------------------------
EXTENDS ChipReader

(* The readers, in the order of the list: a card without PACE, a card with *)
(* a mapping that is not supported, an Actalis-like card that hides        *)
(* EF.CardAccess once the CIE application was used and has no short file   *)
(* identifiers, a card in a reader that carries only short commands, and   *)
(* one with a blocked PIN.                                                 *)
Dh == [pace |-> TRUE, map |-> 1, cipher |-> 2, param |-> 2]
Ec == [pace |-> TRUE, map |-> 6, cipher |-> 4, param |-> 13]
Im == [pace |-> TRUE, map |-> 4, cipher |-> 4, param |-> 13]
NoCipher == [Ec EXCEPT !.cipher = 5]
ChipAuthentication == [Ec EXCEPT !.pace = FALSE]
Card == [can |-> "c1", pin |-> "p1", blocked |-> FALSE, atr |-> TRUE, access |-> TRUE,
         missing |-> "6A82", hides |-> 0, sfi |-> TRUE, infos |-> <<Dh, Im>>, wantsParam |-> FALSE,
         cycles |-> {"Ok"}, extended |-> TRUE]
NoPace == [Card EXCEPT !.access = FALSE, !.missing = "6985", !.atr = FALSE]
OtherPace == [Card EXCEPT !.infos = <<ChipAuthentication, Im>>, !.atr = FALSE]
Hiding == [Card EXCEPT !.hides = 3, !.sfi = FALSE, !.infos = <<NoCipher, Dh, Ec>>,
                       !.cycles = {"Ok", "Unsupported", "CardRemoved"}]
Small == [Card EXCEPT !.can = "c2", !.wantsParam = TRUE, !.pin = "p2", !.extended = FALSE]
Blocked == [Small EXCEPT !.blocked = TRUE, !.hides = 4]

ReadersMixed == <<NoPace, OtherPace, Hiding, Small, Blocked>>
FileSizes == [DG1 |-> 1, DG2 |-> 5]
=============================================================================
