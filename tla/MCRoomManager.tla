--------------------------- MODULE MCRoomManager ---------------------------
(***************************************************************************)
(* Small decks for RoomManager: nine cards, two for every player and three *)
(* for the landlord, chosen so that singles, pairs, a triple with and      *)
(* without a wing, a bomb and the rocket are played.                       *)
(***************************************************************************)
EXTENDS RoomManager

(* Three of a kind split over two hands and the bottom, and the rocket.    *)
TripleDeck == <<0, 1, 14, 13, 2, 52, 26, 12, 53>>

(* A bomb the landlord completes with the bottom cards.                    *)
BombDeck == <<0, 15, 52, 13, 2, 53, 26, 39, 12>>

MCDecks == {TripleDeck, BombDeck}

Before(c, d) ==
  \/ CardRank(c) < CardRank(d)
  \/ CardRank(c) = CardRank(d) /\ c < d

Sorted(cards) ==
  [i \in 1..Cardinality(cards) |->
     CHOOSE c \in cards : Cardinality({d \in cards : Before(d, c)}) = i - 1]

AllCards == UNION {CardsIn(deck) : deck \in MCDecks}

(* Every score a player may call, and one too low and one too high.        *)
AllScores == -1..4

(* Every combination of the cards, and plays that name a card twice.       *)
MCPlays ==
  {play \in {Sorted(cards) : cards \in {C \in SUBSET AllCards : Cardinality(C) \in 1..5}} :
     IsValid(Analyze(play))}
    \cup {<<c, c>> : c \in AllCards} \cup {<<1, 2>>}

(* For the runs about marks and trustees: one card for everybody, three    *)
(* more for the landlord, played one by one, and one play of no type.      *)
SingleDecks == {<<0, 15, 1, 14, 12, 2>>}

SinglePlays == {<<c>> : c \in CardsIn(CHOOSE deck \in SingleDecks : TRUE)} \cup {<<1, 2>>}
=============================================================================
