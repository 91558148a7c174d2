--------------------------- MODULE MCTurnControl ----------------------------
(***************************************************************************)
(* TurnControl on one branch with a handful of operations; each .cfg gives *)
(* the bounds.                                                             *)
(***************************************************************************)
EXTENDS TurnControl
=============================================================================
