------------------------------- MODULE MCFota -------------------------------
(***************************************************************************)
(* Small instances of Fota: packages of one to three chunks.               *)
(***************************************************************************)
EXTENDS Fota

\* The package is replaced by a longer and then by a shorter one.
Changing == <<2, 3, 1>>
=============================================================================
