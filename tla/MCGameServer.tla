--------------------------- MODULE MCGameServer ---------------------------
(***************************************************************************)
(* Small instances of GameServer: two workers, which get the connections   *)
(* in turn, or one, and the timer; rooms for two.                          *)
(***************************************************************************)
EXTENDS GameServer

MCWorkers == {0, 1}
MCTimer == 2
TakenInTurn == [c \in Conns |-> c % 2]

OneWorker == {0}
AllOfOne == [c \in Conns |-> 0]
=============================================================================
