----------------------------- MODULE MCWebPath -----------------------------
(***************************************************************************)
(* Small instances of WebPath.                                             *)
(***************************************************************************)
EXTENDS WebPath
=============================================================================
