--------------------------- MODULE MCKbController ---------------------------
(***************************************************************************)
(* Instance of KbController for TLC: G, D and W go down and up, together   *)
(* and in an order that moves a held key to another entry; 5 is a key that *)
(* is no button.                                                           *)
(***************************************************************************)
EXTENDS KbController

MCReports == {<<0, 0, 0>>, <<10, 0, 0>>, <<10, 7, 0>>, <<7, 10, 26>>, <<5, 7, 0>>}
=============================================================================
