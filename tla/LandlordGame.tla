---------------------------- MODULE LandlordGame ----------------------------
(***************************************************************************)
(* What one game promises its players, without cards, turns, versions or   *)
(* marks: the stake and the landlord are settled by bidding and stay as    *)
(* they are while cards are played, cards only ever leave a hand, and the  *)
(* game is over, once, when a hand is empty or when the server settles it  *)
(* early.  RoomManager implements this specification.                      *)
(***************************************************************************)
EXTENDS Integers

CONSTANT Players  \* not containing NoPlayer

NoPlayer == 0

VARIABLES
  phase,      \* "bidding", "playing" or "over"
  stake,      \* what every loser pays
  landlord,
  cards_left, \* how many cards every player holds
  winner      \* who emptied a hand, NoPlayer if nobody did

gameVars == <<phase, stake, landlord, cards_left, winner>>

Init ==
  /\ phase = "bidding"
  /\ stake = 1
  /\ landlord = NoPlayer
  /\ cards_left = [p \in Players |-> 0]
  /\ winner = NoPlayer

(* A call, a robbery, the deal: nothing of it lowers the stake.            *)
Bid ==
  /\ phase = "bidding" /\ phase' = "bidding"
  /\ stake' >= stake
  /\ landlord' \in Players \cup {landlord}
  /\ \A p \in Players : cards_left'[p] >= cards_left[p]
  /\ UNCHANGED winner

(* The last bid: there is a landlord, everybody holds cards.               *)
StartPlay ==
  /\ phase = "bidding" /\ phase' = "playing"
  /\ stake' >= stake
  /\ landlord' \in Players
  /\ \A p \in Players : cards_left'[p] > 0 /\ cards_left'[p] >= cards_left[p]
  /\ UNCHANGED winner

Play(p) ==
  /\ phase = "playing"
  /\ \A q \in Players : q # p => cards_left'[q] = cards_left[q]
  /\ cards_left'[p] < cards_left[p]
  /\ IF cards_left'[p] = 0
     THEN phase' = "over" /\ winner' = p
     ELSE UNCHANGED <<phase, winner>>
  /\ UNCHANGED <<stake, landlord>>

SettleEarly ==
  /\ phase # "over" /\ phase' = "over"
  /\ UNCHANGED <<stake, landlord, cards_left, winner>>

Next == Bid \/ StartPlay \/ (\E p \in Players : Play(p)) \/ SettleEarly

Spec == Init /\ [][Next]_gameVars
=============================================================================
