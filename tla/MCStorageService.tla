-------------------------- MODULE MCStorageService --------------------------
(***************************************************************************)
(* A small instance of StorageService.                                     *)
(***************************************************************************)
EXTENDS StorageService
=============================================================================
