-------------------------- MODULE MCSessionTokens --------------------------
(***************************************************************************)
(* A small instance of SessionTokens.                                      *)
(***************************************************************************)
EXTENDS SessionTokens, TLC

(* Nothing tells one device or one connection from another.                *)
Symmetry == Permutations(Clients) \cup Permutations(Connections)
=============================================================================
