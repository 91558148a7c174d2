--------------------------- MODULE MCRelatedSessions --------------------------
(* Instances of RelatedSessions for TLC. *)
EXTENDS RelatedSessions, TLC

CONSTANTS r, a, b

Asking == {<<"question", TRUE>>}

SessionSymmetry == Permutations(Sessions \ {Root})
=============================================================================
