--------------------------- MODULE MCSessionStore ---------------------------
(***************************************************************************)
(* SessionStore on small tables, any caller at any time.                   *)
(***************************************************************************)
EXTENDS SessionStore
=============================================================================
