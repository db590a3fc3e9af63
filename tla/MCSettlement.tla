---------------------------- MODULE MCSettlement ----------------------------
(***************************************************************************)
(* Small instances of SettlementService: rooms for two, three players, one *)
(* worker beside the timer.                                                *)
(***************************************************************************)
EXTENDS SettlementService
=============================================================================
