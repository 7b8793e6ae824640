--------------------------- MODULE MCArrivalPrompts ---------------------------
(***************************************************************************)
(* A small instance of ArrivalPrompts.                                     *)
(***************************************************************************)
EXTENDS ArrivalPrompts, TLC

CONSTANTS e1, moved

Events == {<<e1, "owner">>, <<e1, "customer">>, moved}
APromptOrAChange == {<<{e1}, {}>>, <<{}, {moved}>>}
===============================================================================
