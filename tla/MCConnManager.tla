--------------------------- MODULE MCConnManager ---------------------------
(***************************************************************************)
(* Small instances of ConnManager.                                         *)
(***************************************************************************)
EXTENDS ConnManager
=============================================================================
