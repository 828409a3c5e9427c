---------------------------- MODULE MCTapDevices ----------------------------
(***************************************************************************)
(* A keyboard with Meta and a mouse.                                       *)
(***************************************************************************)
EXTENDS TapDevices

CONSTANTS keyboard, mouse

MCCodesOf == [d \in {keyboard, mouse} |-> IF d = keyboard THEN {"meta", "f12"} ELSE {"other"}]
=============================================================================
