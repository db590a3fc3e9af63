------------------------- MODULE RoomManagerProofs -------------------------
(***************************************************************************)
(* Proofs about RoomManager for all decks, plays, scores and marks.        *)
(*                                                                         *)
(* IInv is the inductive invariant: the type of the state, the turn order  *)
(* of every phase, where the cards are, and what is still empty before the *)
(* game reaches the phase that fills it.  RoomInv adds to it what bidding  *)
(* has not touched yet and what the stake says of the bids; with it the    *)
(* second half shows that the room plays the game of LandlordGame: that    *)
(* every step is one of the game or leaves it alone, what the stake is     *)
(* made of, where cards go, when the version rises, and that a trustee has *)
(* a legal move.                                                           *)
(***************************************************************************)
EXTENDS RoomManager, FiniteSetTheorems, WellFoundedInduction, TLAPS

-----------------------------------------------------------------------------
(* What a phase has not used yet.                                          *)
EarlyPhases ==
  /\ state \in {"WaitStart", "CallScore", "RobLandlord"} =>
       last_play_cards = <<>> /\ last_play_player_id = NoPlayer /\ consecutive_pass_count = 0
  /\ state = "WaitStart" =>
       /\ state_action_count = 0 /\ current_operator_player_id = 1
       /\ highest_call_score = 0 /\ highest_call_player_id = NoPlayer

(* The part of the invariant about the room, without the timer's move.     *)
GameInv ==
  /\ GameTypeOK
  /\ EarlyPhases
  /\ TurnOrder
  /\ CardsInOnePlace
  /\ EverybodyHoldsCards

(* The cards a request carries are a sequence; the timer's are one card of *)
(* a hand or none.                                                         *)
PlainCards(request) ==
  \/ request.cards \in Seq(CardIds)
  \/ request.cards = <<request.cards[1]>>

IInv ==
  /\ GameInv
  /\ trustee_move.player \in Players \cup {NoPlayer}
  /\ PlainCards(trustee_move.request)

-----------------------------------------------------------------------------
(* Requests.                                                               *)

(* What a player can send carries a sequence of card ids.                 *)
LEMMA RequestsHaveCards ==
  ASSUME NEW request \in Requests
  PROVE  request.cards \in Seq(CardIds)
<1>1. Plays \cup {<<>>} \subseteq Seq(CardIds) /\ <<>> \in Seq(CardIds)
  <2>1. <<>> \in Seq(CardIds)
    OBVIOUS
  <2>2. Plays \subseteq Seq(CardIds)
    BY PlaysAssumption
  <2>3. QED
    BY <2>1, <2>2
<1>2. \/ \E score \in Scores : request = CallScoreRequest(score)
      \/ \E flag \in -1..2 : request = RobLandlordRequest(flag)
      \/ \E cards \in Plays \cup {<<>>} : request = PlayCardsRequest(cards)
      \/ \E cards \in Plays \cup {<<>>} : request = PassRequest(cards)
  BY Zenon DEF Requests
<1>3. QED
  BY <1>1, <1>2 DEF CallScoreRequest, RobLandlordRequest, PlayCardsRequest, PassRequest

(* Cards that are played come from the hand, so they are card ids.         *)
LEMMA PlayedCardsAreCards ==
  ASSUME NEW request, NEW hand \in SUBSET CardIds,
         PlainCards(request), InHand(hand, request.cards)
  PROVE  request.cards \in Seq(CardIds) /\ CardsIn(request.cards) \subseteq hand
<1>1. CASE request.cards \in Seq(CardIds)
  BY <1>1 DEF InHand
<1>2. CASE request.cards = <<request.cards[1]>>
  <2>1. 1 \in DOMAIN request.cards
    BY <1>2
  <2>2. request.cards[1] \in hand
    BY <2>1 DEF InHand, CardsIn
  <2>3. <<request.cards[1]>> \in Seq(CardIds)
    BY <2>2
  <2>4. QED
    BY <1>2, <2>3 DEF InHand
<1>3. QED
  BY <1>1, <1>2 DEF PlainCards

-----------------------------------------------------------------------------
(* The deal.                                                               *)

(* DealCards: every player gets cards, and neither two players nor a       *)
(* player and the bottom cards get the same one.                           *)
LEMMA DealtHands ==
  ASSUME NEW deck \in Decks, NEW p \in Players
  PROVE  /\ DealtTo(deck, p) \subseteq CardIds
         /\ DealtTo(deck, p) # {}
         /\ BottomOf(deck) \subseteq CardIds
         /\ DealtTo(deck, p) \cap BottomOf(deck) = {}
         /\ \A q \in Players : q # p => DealtTo(deck, p) \cap DealtTo(deck, q) = {}
<1>1. /\ deck \in Seq(CardIds) /\ Len(deck) \in Nat /\ Len(deck) >= 6
      /\ \A i \in 1..Len(deck) : deck[i] \in CardIds
      /\ \A i, j \in 1..Len(deck) : deck[i] = deck[j] => i = j
  BY DecksAssumption DEF NumBottom, NumPlayers
<1>2. DealtTo(deck, p) \subseteq CardIds /\ BottomOf(deck) \subseteq CardIds
  BY <1>1 DEF DealtTo, BottomOf, NumBottom
<1>3. DealtTo(deck, p) # {}
  <2>1. p \in 1..(Len(deck) - NumBottom) /\ (p - 1) % NumPlayers = p - 1
    BY <1>1 DEF Players, NumPlayers, NumBottom
  <2>2. deck[p] \in DealtTo(deck, p)
    BY <2>1 DEF DealtTo
  <2>3. QED
    BY <2>2
<1>4. DealtTo(deck, p) \cap BottomOf(deck) = {}
  BY <1>1 DEF DealtTo, BottomOf, NumBottom
<1>5. ASSUME NEW q \in Players, q # p
      PROVE  DealtTo(deck, p) \cap DealtTo(deck, q) = {}
  <2>1. \A c \in DealtTo(deck, p) : \E i \in 1..Len(deck) :
          deck[i] = c /\ (i - 1) % NumPlayers = p - 1
    BY <1>1 DEF DealtTo, NumBottom
  <2>2. \A c \in DealtTo(deck, q) : \E i \in 1..Len(deck) :
          deck[i] = c /\ (i - 1) % NumPlayers = q - 1
    BY <1>1 DEF DealtTo, NumBottom
  <2>3. SUFFICES ASSUME NEW c, c \in DealtTo(deck, p), c \in DealtTo(deck, q) PROVE FALSE
    OBVIOUS
  <2>4. PICK i \in 1..Len(deck) : deck[i] = c /\ (i - 1) % NumPlayers = p - 1
    BY <2>1, <2>3
  <2>5. PICK j \in 1..Len(deck) : deck[j] = c /\ (j - 1) % NumPlayers = q - 1
    BY <2>2, <2>3
  <2>6. i = j
    BY <1>1, <2>4, <2>5
  <2>7. p - 1 = q - 1
    BY <2>4, <2>5, <2>6
  <2>8. QED
    BY <1>5, <2>7 DEF Players, NumPlayers
<1>6. QED
  BY <1>2, <1>3, <1>4, <1>5

-----------------------------------------------------------------------------
(* The initial state.                                                      *)

(* A room as CreateRoom makes it satisfies the inductive invariant.        *)
LEMMA InitInvariant == Init => IInv
<1>1. SUFFICES ASSUME Init PROVE IInv
  OBVIOUS
<1>2. <<>> \in Seq(CardIds) /\ CardsIn(<<>>) = {}
  BY DEF CardsIn
<1>3. GameTypeOK
  BY <1>1, <1>2 DEF Init, GameTypeOK, States, Players, NumPlayers, NoPlayer
<1>4. EarlyPhases /\ TurnOrder /\ CardsInOnePlace /\ EverybodyHoldsCards
  BY <1>1, <1>2 DEF Init, EarlyPhases, TurnOrder, CallTurn, RobTurn, TrickTurn,
                    CardsInOnePlace, EverybodyHoldsCards, HasAutomaticMove
<1>5. trustee_move.player \in Players \cup {NoPlayer} /\ PlainCards(trustee_move.request)
  BY <1>1, <1>2 DEF Init, NoMove, Undecided, PlainCards
<1>6. QED
  BY <1>3, <1>4, <1>5 DEF IInv, GameInv

-----------------------------------------------------------------------------
(* Bidding.                                                                *)

(* The turn goes round the seats.                                          *)
LEMMA SeatArithmetic ==
  ASSUME NEW p \in Players
  PROVE  /\ NextOperator(p) \in Players
         /\ SeatAfter(p, 0) = p
         /\ NextOperator(p) = SeatAfter(p, 1)
         /\ \A k \in 0..2 : NextOperator(SeatAfter(p, k)) = SeatAfter(p, k + 1)
         /\ SeatAfter(p, 1) # p /\ SeatAfter(p, 2) # p
BY DEF NextOperator, SeatAfter, Players, NumPlayers

(* Whether or not the first action of the room deals the cards, they are   *)
(* apart afterwards and everybody has some.                                *)
LEMMA DealKeepsCardsApart ==
  ASSUME GameInv, DealIfWaiting
  PROVE  /\ hands' \in [Players -> SUBSET CardIds]
         /\ landlord_bottom_cards' \in SUBSET CardIds
         /\ \A p \in Players : hands'[p] # {}
         /\ \A p, q \in Players : p # q => hands'[p] \cap hands'[q] = {}
         /\ \A p \in Players : hands'[p] \cap landlord_bottom_cards' = {}
<1>1. CASE state = "WaitStart"
  <2>1. PICK deck \in Decks : /\ hands' = [p \in Players |-> DealtTo(deck, p)]
                              /\ landlord_bottom_cards' = BottomOf(deck)
    BY <1>1 DEF DealIfWaiting
  <2>2. 1 \in Players
    BY DEF Players, NumPlayers
  <2>3. QED
    BY <2>1, <2>2, DealtHands
<1>2. CASE state = "CallScore" /\ UNCHANGED cardVars
  BY <1>2 DEF GameInv, GameTypeOK, CardsInOnePlace, EverybodyHoldsCards,
              HasAutomaticMove, cardVars
<1>3. QED
  BY <1>1, <1>2 DEF DealIfWaiting

(* An accepted call, the dealing one included, keeps the invariant.        *)
LEMMA CallScorePreserves ==
  ASSUME GameInv, NEW p \in Players, NEW request, CallScore(p, request)
  PROVE  GameInv'
<1> DEFINE raises == request.call_score > highest_call_score
           caller == IF raises THEN p ELSE highest_call_player_id
           chosen == IF caller = NoPlayer THEN 1 ELSE caller
<1>1. /\ current_operator_player_id = p /\ state \in {"WaitStart", "CallScore"}
      /\ request.call_score \in 0..3
      /\ UNCHANGED <<landlord_player_id, trickVars, markVars>>
  BY DEF CallScore, MayAct, ValidCall
<1>2. /\ highest_call_score \in 0..3 /\ state_action_count \in 0..2
      /\ highest_call_player_id \in Players \cup {NoPlayer} /\ base_coin \in Nat \ {0}
      /\ caller \in Players \cup {NoPlayer} /\ chosen \in Players
  BY <1>1 DEF GameInv, GameTypeOK, Players, NumPlayers
<1>3. /\ current_operator_player_id = SeatAfter(1, state_action_count)
      /\ highest_call_player_id = NoPlayer <=> highest_call_score = 0
  <2>1. 1 \in Players
    BY DEF Players, NumPlayers
  <2>2. CASE state = "WaitStart"
    BY <2>1, <2>2, SeatArithmetic DEF GameInv, EarlyPhases
  <2>3. CASE state = "CallScore"
    BY <2>3 DEF GameInv, TurnOrder, CallTurn
  <2>4. QED
    BY <1>1, <2>2, <2>3
<1>4. /\ hands' \in [Players -> SUBSET CardIds]
      /\ landlord_bottom_cards' \in SUBSET CardIds
      /\ \A q \in Players : hands'[q] # {}
      /\ \A q, r \in Players : q # r => hands'[q] \cap hands'[r] = {}
      /\ \A q \in Players : hands'[q] \cap landlord_bottom_cards' = {}
  BY DealKeepsCardsApart DEF CallScore
<1>5. \/ /\ state' = "RobLandlord" /\ state_action_count' = 0
         /\ highest_call_player_id' = chosen /\ current_operator_player_id' = chosen
         /\ base_coin' = AtLeastOne(highest_call_score')
      \/ /\ state' = "CallScore" /\ state_action_count' = state_action_count + 1
         /\ state_action_count + 1 < NumPlayers
         /\ highest_call_player_id' = caller
         /\ current_operator_player_id' = NextOperator(p)
         /\ base_coin' = base_coin
  BY <1>2 DEF CallScore, NumPlayers
<1>6. /\ highest_call_score' = IF raises THEN request.call_score ELSE highest_call_score
      /\ highest_call_score' \in 0..3
      /\ caller = NoPlayer <=> highest_call_score' = 0
  BY <1>1, <1>2, <1>3 DEF CallScore, Players, NumPlayers, NoPlayer
<1>7. GameTypeOK'
  BY <1>1, <1>2, <1>4, <1>5, <1>6, SeatArithmetic
     DEF CallScore, BumpSnapshotVersion, GameInv, GameTypeOK, States, NumPlayers,
         AtLeastOne, trickVars, markVars
<1>8. EarlyPhases'
  BY <1>1, <1>5 DEF GameInv, EarlyPhases, trickVars
<1>9. TurnOrder'
  <2>1. CASE state' = "RobLandlord"
    BY <1>2, <1>5, <2>1, SeatArithmetic DEF TurnOrder, CallTurn, RobTurn, TrickTurn
  <2>2. CASE state' = "CallScore"
    <3>1. 1 \in Players /\ state_action_count \in 0..2
      BY <1>2 DEF Players, NumPlayers
    <3>2. NextOperator(p) = SeatAfter(1, state_action_count + 1)
      BY <1>1, <1>3, <3>1, SeatArithmetic
    <3>3. QED
      BY <1>5, <1>6, <2>2, <3>2 DEF TurnOrder, CallTurn, RobTurn, TrickTurn
  <2>3. QED
    BY <1>5, <2>1, <2>2
<1>10. CardsInOnePlace' /\ EverybodyHoldsCards'
  <2>1. last_play_cards' = <<>>
    BY <1>1 DEF GameInv, EarlyPhases, trickVars
  <2>2. QED
    BY <1>4, <2>1 DEF CardsInOnePlace, EverybodyHoldsCards, CardsIn
<1>11. QED
  BY <1>7, <1>8, <1>9, <1>10 DEF GameInv

(* So does a rejected first action that deals the cards, ...               *)
LEMMA RejectedFirstActionPreserves ==
  ASSUME GameInv, NEW p \in Players, NEW request, RejectedFirstAction(p, request)
  PROVE  GameInv'
<1>1. /\ state = "WaitStart" /\ state' = "CallScore" /\ DealIfWaiting
      /\ UNCHANGED <<current_operator_player_id, bidVars, trickVars, versionVars, markVars>>
  BY DEF RejectedFirstAction
<1>2. GameTypeOK'
  BY <1>1, DealKeepsCardsApart
     DEF GameInv, GameTypeOK, States, bidVars, trickVars, versionVars, markVars
<1>3. EarlyPhases'
  BY <1>1 DEF GameInv, EarlyPhases, trickVars
<1>4. TurnOrder'
  <2>1. 1 \in Players
    BY DEF Players, NumPlayers
  <2>2. QED
    BY <1>1, <2>1, SeatArithmetic
       DEF GameInv, EarlyPhases, TurnOrder, CallTurn, RobTurn, TrickTurn, bidVars
<1>5. CardsInOnePlace' /\ EverybodyHoldsCards'
  BY <1>1, DealKeepsCardsApart
     DEF GameInv, EarlyPhases, CardsInOnePlace, EverybodyHoldsCards, CardsIn, trickVars
<1>6. QED
  BY <1>2, <1>3, <1>4, <1>5 DEF GameInv

(* ... and an answer to the robbing question, the last of which gives the  *)
(* landlord the bottom cards.                                              *)
LEMMA RobLandlordPreserves ==
  ASSUME GameInv, NEW p \in Players, NEW request, RobLandlord(p, request)
  PROVE  GameInv'
<1> DEFINE robber == IF request.rob = 1 THEN p ELSE landlord_player_id
           chosen == IF robber = NoPlayer THEN highest_call_player_id ELSE robber
<1>1. /\ current_operator_player_id = p /\ state = "RobLandlord"
      /\ base_coin' = StakeAfter(request)
      /\ UNCHANGED <<landlord_bottom_cards, highest_call_score, highest_call_player_id,
                     markVars>>
  BY DEF RobLandlord, MayAct, ValidRob
<1>2. /\ state_action_count \in 0..2 /\ highest_call_player_id \in Players
      /\ landlord_player_id \in Players \cup {NoPlayer} /\ base_coin \in Nat \ {0}
      /\ robber \in Players \cup {NoPlayer} /\ chosen \in Players
      /\ p = SeatAfter(highest_call_player_id, state_action_count)
      /\ last_play_cards = <<>> /\ last_play_player_id = NoPlayer
      /\ consecutive_pass_count = 0
  BY <1>1 DEF GameInv, GameTypeOK, EarlyPhases, TurnOrder, RobTurn, Players, NumPlayers
<1>3. base_coin' \in Nat \ {0}
  BY <1>1, <1>2 DEF StakeAfter, AtLeastOne
<1>4. CASE state' = "Playing" /\ state_action_count' = 0 /\ landlord_player_id' = chosen
           /\ hands' = [hands EXCEPT ![chosen] = @ \cup landlord_bottom_cards]
           /\ current_operator_player_id' = chosen /\ last_play_cards' = <<>>
           /\ last_play_player_id' = NoPlayer /\ consecutive_pass_count' = 0
  <2>1. GameTypeOK'
    BY <1>1, <1>2, <1>3, <1>4
       DEF RobLandlord, BumpSnapshotVersion, GameInv, GameTypeOK, States, NumPlayers, markVars
  <2>2. EarlyPhases' /\ TurnOrder'
    BY <1>4 DEF EarlyPhases, TurnOrder, CallTurn, RobTurn, TrickTurn
  <2>3. CardsInOnePlace' /\ EverybodyHoldsCards'
    BY <1>1, <1>2, <1>4
       DEF GameInv, GameTypeOK, CardsInOnePlace, EverybodyHoldsCards, HasAutomaticMove, CardsIn
  <2>4. QED
    BY <2>1, <2>2, <2>3 DEF GameInv
<1>5. CASE state_action_count + 1 < NumPlayers
           /\ state_action_count' = state_action_count + 1 /\ landlord_player_id' = robber
           /\ current_operator_player_id' = NextOperator(p)
           /\ UNCHANGED <<state, hands, trickVars>>
  <2>1. GameTypeOK'
    BY <1>1, <1>2, <1>3, <1>5, SeatArithmetic
       DEF RobLandlord, BumpSnapshotVersion, GameInv, GameTypeOK, NumPlayers, markVars,
           trickVars
  <2>2. EarlyPhases'
    BY <1>1, <1>5 DEF GameInv, EarlyPhases, trickVars
  <2>3. TurnOrder'
    <3>1. NextOperator(p) = SeatAfter(highest_call_player_id, state_action_count + 1)
      BY <1>2, SeatArithmetic
    <3>2. QED
      BY <1>1, <1>2, <1>5, <3>1 DEF TurnOrder, CallTurn, RobTurn, TrickTurn
  <2>4. CardsInOnePlace' /\ EverybodyHoldsCards'
    BY <1>1, <1>5 DEF GameInv, CardsInOnePlace, EverybodyHoldsCards, HasAutomaticMove, trickVars
  <2>5. QED
    BY <2>1, <2>2, <2>3, <2>4 DEF GameInv
<1>6. QED
  BY <1>2, <1>4, <1>5 DEF RobLandlord, NumPlayers

-----------------------------------------------------------------------------
(* Playing.                                                                *)

(* A pass keeps the invariant, whether or not it ends the trick.           *)
LEMMA PassPreserves ==
  ASSUME GameInv, NEW p \in Players, NEW request, Pass(p, request)
  PROVE  GameInv'
<1>1. /\ current_operator_player_id = p /\ state = "Playing"
      /\ last_play_cards # <<>>
      /\ UNCHANGED <<state, cardVars, bidVars, markVars>>
  BY DEF Pass, MayAct, ValidPass
<1>2. /\ last_play_player_id \in Players /\ consecutive_pass_count \in 0..1
      /\ p = SeatAfter(last_play_player_id, consecutive_pass_count + 1)
  BY <1>1 DEF GameInv, GameTypeOK, TurnOrder, TrickTurn, NumPlayers
<1>3. CASE /\ current_operator_player_id' = last_play_player_id
           /\ last_play_cards' = <<>> /\ last_play_player_id' = NoPlayer
           /\ consecutive_pass_count' = 0
  <2>1. GameTypeOK'
    BY <1>1, <1>2, <1>3
       DEF Pass, BumpSnapshotVersion, GameInv, GameTypeOK, NumPlayers, cardVars, bidVars, markVars
  <2>2. EarlyPhases' /\ TurnOrder'
    BY <1>1, <1>3 DEF EarlyPhases, TurnOrder, CallTurn, RobTurn, TrickTurn
  <2>3. CardsInOnePlace' /\ EverybodyHoldsCards'
    BY <1>1, <1>3
       DEF GameInv, CardsInOnePlace, EverybodyHoldsCards, HasAutomaticMove, CardsIn, cardVars
  <2>4. QED
    BY <2>1, <2>2, <2>3 DEF GameInv
<1>4. CASE /\ consecutive_pass_count + 1 < NumPlayers - 1
           /\ current_operator_player_id' = NextOperator(p)
           /\ consecutive_pass_count' = consecutive_pass_count + 1
           /\ UNCHANGED <<last_play_cards, last_play_player_id>>
  <2>1. GameTypeOK'
    BY <1>1, <1>2, <1>4, SeatArithmetic
       DEF Pass, BumpSnapshotVersion, GameInv, GameTypeOK, NumPlayers, cardVars, bidVars, markVars
  <2>2. EarlyPhases'
    BY <1>1 DEF EarlyPhases
  <2>3. NextOperator(p) = SeatAfter(last_play_player_id, consecutive_pass_count + 2)
    <3>1. consecutive_pass_count + 1 \in 0..2
      BY <1>2
    <3>2. NextOperator(p) = SeatAfter(last_play_player_id, (consecutive_pass_count + 1) + 1)
      BY <1>2, <3>1, SeatArithmetic
    <3>3. QED
      BY <1>2, <3>2
  <2>4. TurnOrder'
    BY <1>1, <1>2, <1>4, <2>3 DEF TurnOrder, CallTurn, RobTurn, TrickTurn
  <2>5. CardsInOnePlace' /\ EverybodyHoldsCards'
    BY <1>1, <1>4 DEF GameInv, CardsInOnePlace, EverybodyHoldsCards, HasAutomaticMove, cardVars
  <2>6. QED
    BY <2>1, <2>2, <2>4, <2>5 DEF GameInv
<1>5. QED
  BY <1>2, <1>3, <1>4 DEF Pass, NumPlayers

(* A play keeps the invariant, whether or not it empties the hand: a       *)
(* running game stays one in which everybody holds cards.                  *)
LEMMA PlayCardsPreserves ==
  ASSUME GameInv, NEW p \in Players, NEW request, PlainCards(request), PlayCards(p, request)
  PROVE  GameInv'
<1> DEFINE left == hands[p] \ CardsIn(request.cards)
<1>1. /\ current_operator_player_id = p /\ state = "Playing"
      /\ request.cards # <<>> /\ InHand(hands[p], request.cards)
      /\ hands' = [hands EXCEPT ![p] = left]
      /\ last_play_cards' = request.cards /\ last_play_player_id' = p
      /\ consecutive_pass_count' = 0
      /\ state' = IF left = {} THEN "Settling" ELSE state
      /\ current_operator_player_id' = IF left = {} THEN p ELSE NextOperator(p)
      /\ UNCHANGED <<landlord_bottom_cards, bidVars, markVars>>
  BY DEF PlayCards, MayAct, ValidPlay
<1>2. hands \in [Players -> SUBSET CardIds]
  BY DEF GameInv, GameTypeOK
<1>3. request.cards \in Seq(CardIds) /\ CardsIn(request.cards) \subseteq hands[p]
  BY <1>1, <1>2, PlayedCardsAreCards
<1>4. GameTypeOK'
  BY <1>1, <1>2, <1>3, SeatArithmetic
     DEF PlayCards, BumpSnapshotVersion, GameInv, GameTypeOK, States, NumPlayers, bidVars, markVars
<1>5. EarlyPhases'
  BY <1>1 DEF EarlyPhases
<1>6. TurnOrder'
  BY <1>1, SeatArithmetic DEF TurnOrder, CallTurn, RobTurn, TrickTurn
<1>7. CardsInOnePlace'
  BY <1>1, <1>2, <1>3 DEF GameInv, CardsInOnePlace
<1>8. EverybodyHoldsCards'
  BY <1>1, <1>2 DEF GameInv, EverybodyHoldsCards, HasAutomaticMove
<1>9. QED
  BY <1>4, <1>5, <1>6, <1>7, <1>8 DEF GameInv

(* Whatever ApplyPlayerAction does keeps the invariant.                    *)
LEMMA ApplyPlayerActionPreserves ==
  ASSUME GameInv, NEW p \in Players, NEW request, PlainCards(request),
         ApplyPlayerAction(p, request)
  PROVE  GameInv'
BY CallScorePreserves, RejectedFirstActionPreserves, RobLandlordPreserves, PassPreserves,
   PlayCardsPreserves DEF ApplyPlayerAction

-----------------------------------------------------------------------------
(* The other operations.                                                   *)

(* A step that only concerns the timer keeps the invariant of the game.    *)
LEMMA SameGameSameInvariant ==
  ASSUME GameInv, UNCHANGED <<gameVars, versionVars, markVars>>
  PROVE  GameInv'
BY DEF GameInv, GameTypeOK, EarlyPhases, TurnOrder, CallTurn, RobTurn, TrickTurn,
       CardsInOnePlace, EverybodyHoldsCards, HasAutomaticMove, gameVars, cardVars, bidVars,
       trickVars, versionVars, markVars

(* Marks on players leave the game alone.                                  *)
LEMMA MarksPreserve ==
  ASSUME GameInv, UNCHANGED gameVars, BumpSnapshotVersion(FALSE),
         online_by_player' \in [Players -> BOOLEAN],
         trustee_by_player' \in [Players -> BOOLEAN]
  PROVE  GameInv'
BY DEF GameInv, GameTypeOK, EarlyPhases, TurnOrder, CallTurn, RobTurn, TrickTurn,
       CardsInOnePlace, EverybodyHoldsCards, HasAutomaticMove, gameVars, cardVars, bidVars,
       trickVars, BumpSnapshotVersion

(* Settling and finishing end the game wherever it is.                     *)
LEMMA EndPreserves ==
  ASSUME GameInv, state' \in Over, BumpSnapshotVersion(FALSE),
         UNCHANGED <<cardVars, current_operator_player_id, bidVars, trickVars, markVars>>
  PROVE  GameInv'
BY DEF GameInv, GameTypeOK, EarlyPhases, TurnOrder, CallTurn, RobTurn, TrickTurn,
       CardsInOnePlace, EverybodyHoldsCards, HasAutomaticMove, cardVars, bidVars,
       trickVars, markVars, Over, States, BumpSnapshotVersion

(* ApplyTrusteeAction decides on one card or none.                        *)
LEMMA TrusteeRequestIsPlain ==
  ASSUME NEW p
  PROVE  PlainCards(TrusteeRequest(p))
<1>1. <<>> \in Seq(CardIds)
  OBVIOUS
<1>2. \A c : <<c>> = <<<<c>>[1]>>
  OBVIOUS
<1>3. QED
  BY <1>1, <1>2
     DEF TrusteeRequest, PlainCards, CallScoreRequest, RobLandlordRequest, PlayCardsRequest,
         PassRequest

(* The timer has no cards in mind before it has decided.                   *)
LEMMA NoMoveIsPlain == PlainCards(Undecided)
<1>1. <<>> \in Seq(CardIds)
  OBVIOUS
<1>2. QED
  BY <1>1 DEF PlainCards, Undecided

(* Every step of the room, of its players and of the timer keeps the       *)
(* inductive invariant.                                                    *)
LEMMA NextPreserves ==
  ASSUME IInv, [Next]_vars
  PROVE  IInv'
<1>1. ASSUME NEW p \in Players, PlayerActs(p)
      PROVE  IInv'
  <2>1. PICK request \in Requests : ApplyPlayerAction(p, request)
    BY <1>1 DEF PlayerActs
  <2>2. PlainCards(request)
    BY RequestsHaveCards DEF PlainCards
  <2>3. GameInv'
    BY <2>1, <2>2, ApplyPlayerActionPreserves DEF IInv
  <2>4. QED
    BY <1>1, <2>3 DEF IInv, PlayerActs, PlainCards
<1>2. CASE TrusteeDecides
  <2>1. GameInv'
    BY <1>2, SameGameSameInvariant DEF IInv, TrusteeDecides
  <2>2. CASE trustee_move' = NoMove
    BY <2>1, <2>2, NoMoveIsPlain DEF IInv, NoMove, PlainCards
  <2>3. CASE trustee_move' = [player |-> trustee_move.player,
                              request |-> TrusteeRequest(trustee_move.player)]
    <3>1. PlainCards(trustee_move'.request)
      BY <2>3, TrusteeRequestIsPlain
    <3>2. QED
      BY <2>1, <2>3, <3>1 DEF IInv, PlainCards
  <2>4. QED
    BY <1>2, <2>2, <2>3 DEF TrusteeDecides
<1>3. CASE TrusteeApplies
  <2>1. trustee_move.player \in Players \/ UNCHANGED <<gameVars, versionVars, markVars>>
    <3>1. current_operator_player_id \in Players
      BY DEF IInv, GameInv, GameTypeOK
    <3>2. QED
      BY <1>3, <3>1
         DEF TrusteeApplies, ApplyPlayerAction, CallScore, RejectedFirstAction, RobLandlord,
             Pass, PlayCards, MayAct
  <2>2. GameInv'
    BY <1>3, <2>1, ApplyPlayerActionPreserves, SameGameSameInvariant DEF IInv, TrusteeApplies
  <2>3. QED
    BY <1>3, <2>2, NoMoveIsPlain DEF IInv, TrusteeApplies, NoMove, PlainCards
<1>4. ASSUME NEW p \in Players, MarkPlayerOffline(p) \/ MarkPlayerOnline(p)
      PROVE  IInv'
  <2>1. /\ UNCHANGED <<gameVars, trustee_move>> /\ BumpSnapshotVersion(FALSE)
        /\ online_by_player' \in [Players -> BOOLEAN]
        /\ trustee_by_player' \in [Players -> BOOLEAN]
    BY <1>4 DEF IInv, GameInv, GameTypeOK, MarkPlayerOffline, MarkPlayerOnline
  <2>2. QED
    BY <2>1, MarksPreserve DEF IInv, PlainCards
<1>5. ASSUME NEW p \in Players, MarkPlayerTrustee(p)
      PROVE  IInv'
  <2>1. /\ UNCHANGED <<gameVars, online_by_player>>
        /\ trustee_by_player' \in [Players -> BOOLEAN]
    BY <1>5 DEF IInv, GameInv, GameTypeOK, MarkPlayerTrustee
  <2>2. GameInv'
    <3>1. CASE UNCHANGED <<trustee_by_player, versionVars>>
      BY <2>1, <3>1, SameGameSameInvariant DEF IInv, markVars
    <3>2. CASE BumpSnapshotVersion(FALSE)
      BY <2>1, <3>2, MarksPreserve DEF IInv, GameInv, GameTypeOK
    <3>3. QED
      BY <1>5, <3>1, <3>2 DEF MarkPlayerTrustee
  <2>3. trustee_move' = [player |-> p, request |-> Undecided]
    BY <1>5 DEF MarkPlayerTrustee
  <2>4. QED
    BY <2>2, <2>3, NoMoveIsPlain DEF IInv, PlainCards
<1>6. CASE MarkSettling \/ MarkFinished
  BY <1>6, EndPreserves DEF IInv, PlainCards, MarkSettling, MarkFinished, Over
<1>7. CASE UNCHANGED vars
  BY <1>7, SameGameSameInvariant DEF IInv, PlainCards, vars
<1>8. QED
  BY <1>1, <1>2, <1>3, <1>4, <1>5, <1>6, <1>7 DEF Next

-----------------------------------------------------------------------------
(* Theorems.                                                               *)

(* IInv holds in every state of a room: players, timer, sessions and       *)
(* settlement may call RoomManager in any order.                           *)
THEOREM Invariance == Spec => []IInv
<1>1. Init => IInv
  BY InitInvariant
<1>2. IInv /\ [Next]_vars => IInv'
  BY NextPreserves
<1>3. QED
  BY <1>1, <1>2, PTL DEF Spec

(* The state of a room always has its type.                                *)
THEOREM TypeCorrectness == Spec => []TypeOK
<1>1. IInv => TypeOK
  BY DEF IInv, GameInv, TypeOK
<1>2. QED
  BY <1>1, Invariance, PTL

(* Every phase asks the players in the order of its rules, whatever the    *)
(* players and the timer send and in whatever order the calls take the     *)
(* room's lock: in particular nobody is in turn on his own play, so        *)
(* "leading player cannot pass" is dead code.                              *)
THEOREM TurnsFollowTheRules == Spec => []TurnOrder
<1>1. IInv => TurnOrder
  BY DEF IInv, GameInv
<1>2. QED
  BY <1>1, Invariance, PTL

(* No card is ever in two hands, or in a hand and on the table, and a      *)
(* running game has no empty hand, for every deck without a repeated card. *)
THEOREM CardsStayApart == Spec => [](CardsInOnePlace /\ EverybodyHoldsCards)
<1>1. IInv => CardsInOnePlace /\ EverybodyHoldsCards
  BY DEF IInv, GameInv
<1>2. QED
  BY <1>1, Invariance, PTL

-----------------------------------------------------------------------------
(* What is still as CreateRoom left it.                                    *)
Untouched ==
  /\ state \in {"WaitStart", "CallScore"} => base_coin = 1 /\ landlord_player_id = NoPlayer
  /\ state = "WaitStart" => hands = [p \in Players |-> {}]

RoomInv == IInv /\ Untouched /\ StakeMatchesBids

(* What a step of the room is to the game: an action of a player or of the *)
(* timer for him, the end of the game, or a mark.                          *)
Acts == \E p \in Players : \E request : PlainCards(request) /\ ApplyPlayerAction(p, request)

Ends ==
  /\ state # "Finished" /\ state' \in Over /\ (state' = "Finished" => state = "Settling")
  /\ BumpSnapshotVersion(FALSE)
  /\ UNCHANGED <<cardVars, current_operator_player_id, bidVars, trickVars, markVars>>

Marks ==
  /\ UNCHANGED gameVars
  /\ BumpSnapshotVersion(FALSE) \/ UNCHANGED <<versionVars, markVars>>

(* There are no other steps, whoever takes them.                           *)
LEMMA StepsOfTheRoom ==
  ASSUME IInv, [Next]_vars
  PROVE  Acts \/ Ends \/ Marks
<1>1. ASSUME NEW p \in Players, PlayerActs(p)
      PROVE  Acts
  <2>1. PICK request \in Requests : ApplyPlayerAction(p, request)
    BY <1>1 DEF PlayerActs
  <2>2. PlainCards(request)
    BY RequestsHaveCards DEF PlainCards
  <2>3. QED
    BY <2>1, <2>2 DEF Acts
<1>2. CASE TrusteeDecides
  BY <1>2 DEF TrusteeDecides, Marks
<1>3. CASE TrusteeApplies
  <2>1. CASE UNCHANGED <<gameVars, versionVars, markVars>>
    BY <2>1 DEF Marks
  <2>2. CASE ApplyPlayerAction(trustee_move.player, trustee_move.request)
    <3>1. trustee_move.player \in Players
      <4>1. current_operator_player_id \in Players
        BY DEF IInv, GameInv, GameTypeOK
      <4>2. QED
        BY <2>2, <4>1
           DEF ApplyPlayerAction, CallScore, RejectedFirstAction, RobLandlord, Pass,
               PlayCards, MayAct
    <3>2. PlainCards(trustee_move.request)
      BY DEF IInv
    <3>3. QED
      BY <2>2, <3>1, <3>2 DEF Acts
  <2>3. QED
    BY <1>3, <2>1, <2>2 DEF TrusteeApplies
<1>4. ASSUME NEW p \in Players,
             MarkPlayerOffline(p) \/ MarkPlayerOnline(p) \/ MarkPlayerTrustee(p)
      PROVE  Marks
  BY <1>4 DEF MarkPlayerOffline, MarkPlayerOnline, MarkPlayerTrustee, Marks, markVars
<1>5. CASE MarkSettling \/ MarkFinished
  BY <1>5 DEF MarkSettling, MarkFinished, Ends, Over
<1>6. CASE UNCHANGED vars
  BY <1>6 DEF vars, Marks
<1>7. QED
  BY <1>1, <1>2, <1>3, <1>4, <1>5, <1>6 DEF Next

-----------------------------------------------------------------------------
(* The stake.                                                              *)

(* CallStake and its doublings are positive and do what they say.          *)
LEMMA Doubling ==
  ASSUME highest_call_score \in 0..3
  PROVE  /\ CallStake \in 1..3
         /\ Doubled(0) = CallStake
         /\ \A robs \in 0..2 : Doubled(robs + 1) = Doubled(robs) * 2
         /\ \A robs \in 0..3 : Doubled(robs) \in Nat /\ Doubled(robs) >= CallStake
         /\ \A robs \in 1..3 : Doubled(robs) > CallStake
<1>1. CallStake \in 1..3
  BY DEF CallStake, AtLeastOne
<1>2. /\ Doubled(0) = CallStake * 1 /\ Doubled(1) = CallStake * 2
      /\ Doubled(2) = CallStake * 4 /\ Doubled(3) = CallStake * 8
  BY DEF Doubled
<1>3. /\ 0..2 = {0, 1, 2} /\ 0..3 = {0, 1, 2, 3} /\ 1..3 = {1, 2, 3}
      /\ 0 + 1 = 1 /\ 1 + 1 = 2 /\ 2 + 1 = 3
  OBVIOUS
<1>4. \A robs \in 0..2 : Doubled(robs + 1) = Doubled(robs) * 2
  <2>1. Doubled(0 + 1) = Doubled(0) * 2
    BY <1>1, <1>2, <1>3
  <2>2. Doubled(1 + 1) = Doubled(1) * 2
    BY <1>1, <1>2, <1>3
  <2>3. Doubled(2 + 1) = Doubled(2) * 2
    BY <1>1, <1>2, <1>3
  <2>4. QED
    BY <2>1, <2>2, <2>3
<1>5. \A robs \in 0..3 : Doubled(robs) \in Nat /\ Doubled(robs) >= CallStake
  BY <1>1, <1>2, <1>3
<1>6. \A robs \in 1..3 : Doubled(robs) > CallStake
  BY <1>1, <1>2, <1>3
<1>7. QED
  BY <1>1, <1>2, <1>4, <1>5, <1>6

(* An answer to the robbing question keeps the stake in step with the      *)
(* robberies, and the last answer settles who is the landlord.             *)
LEMMA RobbingKeepsTheStake ==
  ASSUME IInv, StakeMatchesBids, NEW p \in Players, NEW request, RobLandlord(p, request)
  PROVE  StakeMatchesBids'
<1> DEFINE robber == IF request.rob = 1 THEN p ELSE landlord_player_id
           chosen == IF robber = NoPlayer THEN highest_call_player_id ELSE robber
<1>1. /\ state = "RobLandlord" /\ request.rob \in {0, 1}
      /\ base_coin' = IF request.rob = 1 THEN AtLeastOne(base_coin) * 2 ELSE base_coin
      /\ UNCHANGED <<highest_call_score, highest_call_player_id>>
  BY DEF RobLandlord, ValidRob, StakeAfter
<1>2. /\ state_action_count \in 0..2 /\ highest_call_score \in 0..3
      /\ highest_call_player_id \in Players /\ p # NoPlayer
      /\ landlord_player_id \in Players \cup {NoPlayer}
  BY <1>1 DEF IInv, GameInv, GameTypeOK, TurnOrder, RobTurn, Players, NumPlayers, NoPlayer
<1>3. PICK robs \in 0..state_action_count : base_coin = Doubled(robs)
  BY <1>1 DEF StakeMatchesBids, Robbing
<1>4. landlord_player_id = NoPlayer <=> base_coin = CallStake
  BY <1>1 DEF StakeMatchesBids, Robbing
<1>5. CallStake' = CallStake /\ \A n : Doubled(n)' = Doubled(n)
  BY <1>1 DEF CallStake, Doubled
<1>6. robs \in 0..2 /\ base_coin \in Nat /\ base_coin >= CallStake /\ CallStake \in 1..3
  <2>1. robs \in 0..2
    BY <1>2
  <2>2. QED
    BY <1>2, <1>3, <2>1, Doubling
<1>7. CASE request.rob = 1
  <2>1. base_coin' = Doubled(robs + 1)
    BY <1>1, <1>2, <1>3, <1>6, <1>7, Doubling DEF AtLeastOne
  <2>2. base_coin' > CallStake
    BY <1>1, <1>6, <1>7 DEF AtLeastOne
  <2>3. base_coin' # CallStake'
    BY <1>5, <1>6, <2>2
  <2>4. \/ state' = "Playing" /\ landlord_player_id' = p
        \/ /\ state' = "RobLandlord" /\ state_action_count' = state_action_count + 1
           /\ landlord_player_id' = p
    BY <1>1, <1>2, <1>7 DEF RobLandlord
  <2>5. robs + 1 \in 0..(state_action_count + 1) /\ robs + 1 \in 0..NumPlayers
    BY <1>2, <1>6 DEF NumPlayers
  <2>6. QED
    BY <1>2, <1>5, <2>1, <2>3, <2>4, <2>5 DEF StakeMatchesBids, Robbing, RobbingIsOver
<1>8. CASE request.rob = 0
  <2>1. base_coin' = Doubled(robs) /\ base_coin' = base_coin
    BY <1>1, <1>3, <1>8
  <2>2. \/ state' = "Playing" /\ landlord_player_id' = chosen
        \/ /\ state' = "RobLandlord" /\ state_action_count' = state_action_count + 1
           /\ landlord_player_id' = landlord_player_id
    BY <1>1, <1>8 DEF RobLandlord
  <2>3. robs \in 0..(state_action_count + 1) /\ robs \in 0..NumPlayers
    BY <1>2, <1>6 DEF NumPlayers
  <2>4. chosen \in Players /\ (landlord_player_id = NoPlayer => chosen = highest_call_player_id)
    BY <1>2, <1>8
  <2>5. CASE state' = "RobLandlord"
    BY <1>4, <1>5, <2>1, <2>2, <2>3, <2>5 DEF StakeMatchesBids, Robbing
  <2>6. CASE state' = "Playing"
    BY <1>1, <1>4, <1>5, <2>1, <2>2, <2>3, <2>4, <2>6 DEF StakeMatchesBids, RobbingIsOver
  <2>7. QED
    BY <2>2, <2>5, <2>6 DEF StakeMatchesBids
<1>9. QED
  BY <1>1, <1>7, <1>8

(* The stake and the landlord are as the bids made them in every phase.    *)
LEMMA RoomInvPreserved ==
  ASSUME RoomInv, [Next]_vars
  PROVE  RoomInv'
<1>1. IInv'
  BY NextPreserves DEF RoomInv
<1>2. highest_call_score \in 0..3 /\ state \in States
  BY DEF RoomInv, IInv, GameInv, GameTypeOK
<1>3. ASSUME NEW p \in Players, NEW request, CallScore(p, request)
      PROVE  Untouched' /\ StakeMatchesBids'
  <2>1. /\ base_coin = 1 /\ landlord_player_id' = NoPlayer
        /\ highest_call_score' \in 0..3
    BY <1>2, <1>3 DEF CallScore, ValidCall, RoomInv, Untouched
  <2>2. \/ /\ state' = "RobLandlord" /\ state_action_count' = 0
           /\ base_coin' = AtLeastOne(highest_call_score')
        \/ state' = "CallScore" /\ base_coin' = 1
    BY <1>3, <2>1 DEF CallScore
  <2>3. CASE state' = "RobLandlord"
    <3>1. base_coin' = CallStake'
      BY <2>2, <2>3 DEF CallStake
    <3>2. CallStake' \in 1..3 /\ Doubled(0)' = CallStake'
      <4>1. CallStake' \in 1..3
        BY <2>1 DEF CallStake, AtLeastOne
      <4>2. Doubled(0)' = CallStake' * 1
        BY DEF Doubled
      <4>3. QED
        BY <4>1, <4>2
    <3>3. Robbing'
      BY <2>1, <2>2, <2>3, <3>1, <3>2 DEF Robbing
    <3>4. QED
      BY <2>3, <3>3 DEF Untouched, StakeMatchesBids
  <2>4. CASE state' = "CallScore" /\ base_coin' = 1
    BY <2>1, <2>4 DEF Untouched, StakeMatchesBids
  <2>5. QED
    BY <2>2, <2>3, <2>4
<1>4. ASSUME NEW p \in Players, NEW request, RejectedFirstAction(p, request)
      PROVE  Untouched' /\ StakeMatchesBids'
  BY <1>4 DEF RejectedFirstAction, RoomInv, Untouched, StakeMatchesBids, bidVars
<1>5. ASSUME NEW p \in Players, NEW request, RobLandlord(p, request)
      PROVE  Untouched' /\ StakeMatchesBids'
  <2>1. state' \in {"RobLandlord", "Playing"}
    BY <1>5 DEF RobLandlord, ValidRob
  <2>2. QED
    BY <1>5, <2>1, RobbingKeepsTheStake DEF RoomInv, Untouched
<1>6. ASSUME NEW p \in Players, NEW request, Pass(p, request) \/ PlayCards(p, request)
      PROVE  Untouched' /\ StakeMatchesBids'
  <2>1. /\ state = "Playing" /\ state' \in {"Playing", "Settling"} /\ UNCHANGED bidVars
    BY <1>6 DEF Pass, ValidPass, PlayCards, ValidPlay
  <2>2. QED
    BY <2>1 DEF RoomInv, Untouched, StakeMatchesBids, RobbingIsOver, CallStake, Doubled, bidVars
<1>7. ASSUME Acts PROVE Untouched' /\ StakeMatchesBids'
  BY <1>3, <1>4, <1>5, <1>6, <1>7 DEF Acts, ApplyPlayerAction
<1>8. ASSUME Ends PROVE Untouched' /\ StakeMatchesBids'
  BY <1>8 DEF Ends, Over, Untouched, StakeMatchesBids
<1>9. ASSUME Marks PROVE Untouched' /\ StakeMatchesBids'
  BY <1>9 DEF Marks, RoomInv, Untouched, StakeMatchesBids, Robbing, RobbingIsOver, CallStake,
              Doubled, gameVars, cardVars, bidVars
<1>10. QED
  BY <1>1, <1>7, <1>8, <1>9, StepsOfTheRoom DEF RoomInv

(* RoomInv holds in every state of a room.                                 *)
THEOREM RoomInvariance == Spec => []RoomInv
<1>1. Init => RoomInv
  BY InitInvariant DEF RoomInv, Init, Untouched, StakeMatchesBids
<1>2. RoomInv /\ [Next]_vars => RoomInv'
  BY RoomInvPreserved
<1>3. QED
  BY <1>1, <1>2, PTL DEF Spec

(* The stake is the highest call, doubled no more than three times, and    *)
(* doubled at all exactly if somebody has robbed; if nobody has, the       *)
(* highest caller is the landlord.  No order in which requests, the        *)
(* timer's moves and settlement come makes a robbery count twice.          *)
THEOREM StakeFollowsTheBids == Spec => []StakeMatchesBids
<1>1. RoomInv => StakeMatchesBids
  BY DEF RoomInv
<1>2. QED
  BY <1>1, RoomInvariance, PTL

-----------------------------------------------------------------------------
(* Versions.                                                               *)

(* An accepted action raises the version.                                  *)
LEMMA ActionsRaiseTheVersion ==
  ASSUME IInv, NEW p \in Players, NEW request, ApplyPlayerAction(p, request),
         state # "WaitStart"
  PROVE  snapshot_version' > snapshot_version
<1>1. snapshot_version \in Nat
  BY DEF IInv, GameInv, GameTypeOK
<1>2. BumpSnapshotVersion(TRUE)
  BY DEF ApplyPlayerAction, CallScore, RejectedFirstAction, RobLandlord, Pass, PlayCards
<1>3. QED
  BY <1>1, <1>2 DEF BumpSnapshotVersion

(* Once the cards are dealt, nothing a snapshot shows changes without a    *)
(* new version: neither an action nor a mark nor the end of the game.      *)
THEOREM SnapshotsAreVersioned == Spec => VersionCoversGame
<1>1. ASSUME IInv, [Next]_vars, state # "WaitStart", PublicView' # PublicView
      PROVE  snapshot_version' > snapshot_version
  <2>1. snapshot_version \in Nat
    BY <1>1 DEF IInv, GameInv, GameTypeOK
  <2>2. CASE Acts
    BY <1>1, <2>2, ActionsRaiseTheVersion DEF Acts
  <2>3. CASE BumpSnapshotVersion(FALSE)
    BY <2>1, <2>3 DEF BumpSnapshotVersion
  <2>4. CASE UNCHANGED gameVars /\ UNCHANGED markVars
    <3>1. PublicView' = PublicView
      BY <2>4 DEF PublicView, CardsLeft, gameVars, cardVars, bidVars, trickVars, markVars
    <3>2. QED
      BY <1>1, <3>1
  <2>5. QED
    BY <1>1, <2>2, <2>3, <2>4, StepsOfTheRoom DEF Ends, Marks
<1>2. IInv /\ [Next]_vars =>
        [state # "WaitStart" /\ PublicView' # PublicView =>
           snapshot_version' > snapshot_version]_vars
  BY <1>1
<1>3. QED
  BY <1>2, Invariance, PTL DEF Spec, VersionCoversGame

-----------------------------------------------------------------------------
(* Where the cards go.                                                     *)

(* A play that names no card twice has as many cards as it names.          *)
LEMMA DistinctCards ==
  ASSUME NEW cards \in Seq(CardIds),
         \A i, j \in DOMAIN cards : cards[i] = cards[j] => i = j
  PROVE  Cardinality(CardsIn(cards)) = Len(cards)
<1>1. /\ Len(cards) \in Nat /\ DOMAIN cards = 1..Len(cards)
      /\ cards \in [1..Len(cards) -> CardsIn(cards)]
  <2>1. Len(cards) \in Nat /\ DOMAIN cards = 1..Len(cards)
    OBVIOUS
  <2>2. cards \in [1..Len(cards) -> CardIds]
    BY <2>1
  <2>3. cards \in [1..Len(cards) -> CardsIn(cards)]
    BY <2>1, <2>2 DEF CardsIn
  <2>4. QED
    BY <2>1, <2>3
<1>2. cards \in Surjection(1..Len(cards), CardsIn(cards))
  BY <1>1 DEF Surjection, CardsIn
<1>3. cards \in Injection(1..Len(cards), CardsIn(cards))
  BY <1>1 DEF Injection, IsInjective
<1>4. IsFiniteSet(1..Len(cards)) /\ Cardinality(1..Len(cards)) = Len(cards)
  BY <1>1, FS_Interval
<1>5. QED
  BY <1>1, <1>2, <1>3, <1>4, FS_Surjection

(* Cards leave a hand by PlayCards only: the owner is in turn, what he     *)
(* loses is what lies on the table, and no card of the request is counted  *)
(* twice.                                                                  *)
THEOREM CardsGoToTheTable == Spec => CardsLeaveToTheTable
<1> DEFINE ToTheTable ==
      \A p \in Players : ~(hands[p] \subseteq hands'[p]) /\ state # "WaitStart" =>
        /\ current_operator_player_id = p /\ last_play_player_id' = p
        /\ CardsIn(last_play_cards') = hands[p] \ hands'[p]
        /\ Cardinality(hands[p] \ hands'[p]) = Len(last_play_cards')
<1>1. ASSUME IInv, NEW p \in Players, NEW request, PlainCards(request), PlayCards(p, request)
      PROVE  ToTheTable
  <2>1. hands \in [Players -> SUBSET CardIds]
    BY <1>1 DEF IInv, GameInv, GameTypeOK
  <2>2. /\ current_operator_player_id = p /\ InHand(hands[p], request.cards)
        /\ hands' = [hands EXCEPT ![p] = hands[p] \ CardsIn(request.cards)]
        /\ last_play_cards' = request.cards /\ last_play_player_id' = p
    BY <1>1 DEF PlayCards, MayAct, ValidPlay
  <2>3. request.cards \in Seq(CardIds) /\ CardsIn(request.cards) \subseteq hands[p]
    BY <1>1, <2>1, <2>2, PlayedCardsAreCards
  <2>4. Cardinality(CardsIn(request.cards)) = Len(request.cards)
    BY <2>2, <2>3, DistinctCards DEF InHand
  <2>5. hands[p] \ hands'[p] = CardsIn(request.cards)
    BY <2>1, <2>2, <2>3
  <2>6. \A q \in Players : q # p => hands'[q] = hands[q]
    BY <2>1, <2>2
  <2>7. QED
    BY <2>2, <2>4, <2>5, <2>6
<1>2. ASSUME IInv, NEW p \in Players, NEW request, state # "WaitStart",
             CallScore(p, request) \/ RejectedFirstAction(p, request)
               \/ RobLandlord(p, request) \/ Pass(p, request)
      PROVE  \A q \in Players : hands[q] \subseteq hands'[q]
  <2>1. hands \in [Players -> SUBSET CardIds]
    BY <1>2 DEF IInv, GameInv, GameTypeOK
  <2>2. \/ hands' = hands
        \/ \E q : hands' = [hands EXCEPT ![q] = @ \cup landlord_bottom_cards]
    BY <1>2 DEF CallScore, DealIfWaiting, RejectedFirstAction, RobLandlord, Pass, cardVars
  <2>3. QED
    BY <2>1, <2>2
<1>3. ASSUME IInv, [Next]_vars
      PROVE  ToTheTable
  <2>1. CASE Acts
    <3>0. PICK p \in Players :
            \E request : PlainCards(request) /\ ApplyPlayerAction(p, request)
      BY <2>1 DEF Acts
    <3>1. PICK request : PlainCards(request) /\ ApplyPlayerAction(p, request)
      BY <3>0
    <3>2. CASE PlayCards(p, request)
      BY <1>1, <1>3, <3>1, <3>2
    <3>3. CASE CallScore(p, request) \/ RejectedFirstAction(p, request)
                 \/ RobLandlord(p, request) \/ Pass(p, request)
      BY <1>2, <1>3, <3>3
    <3>4. QED
      BY <3>1, <3>2, <3>3 DEF ApplyPlayerAction
  <2>2. CASE Ends \/ Marks
    BY <2>2 DEF Ends, Marks, gameVars, cardVars
  <2>3. QED
    BY <1>3, <2>1, <2>2, StepsOfTheRoom
<1>4. IInv /\ [Next]_vars => [ToTheTable]_vars
  BY <1>3
<1>5. QED
  BY <1>4, Invariance, PTL DEF Spec, CardsLeaveToTheTable

-----------------------------------------------------------------------------
(* The room plays LandlordGame.                                            *)

(* Counting a hand: a number, nothing only for no cards, fewer for fewer.  *)
LEMMA CountingCards ==
  /\ \A S \in SUBSET CardIds : /\ IsFiniteSet(S) /\ Cardinality(S) \in Nat
                               /\ Cardinality(S) = 0 <=> S = {}
  /\ \A S, T \in SUBSET CardIds : S \subseteq T =>
       /\ Cardinality(S) <= Cardinality(T)
       /\ S # T => Cardinality(S) < Cardinality(T)
<1>1. IsFiniteSet(CardIds)
  <2>1. 0 \in Int /\ 53 \in Int
    OBVIOUS
  <2>2. IsFiniteSet(0..53)
    BY ONLY <2>1, FS_Interval, Zenon
  <2>3. QED
    BY <2>2 DEF CardIds
<1>2. \A S \in SUBSET CardIds : IsFiniteSet(S)
  BY <1>1, FS_Subset
<1>3. \A S \in SUBSET CardIds : Cardinality(S) \in Nat /\ (Cardinality(S) = 0 <=> S = {})
  BY <1>2, FS_CardinalityType, FS_EmptySet
<1>4. ASSUME NEW S \in SUBSET CardIds, NEW T \in SUBSET CardIds, S \subseteq T
      PROVE  /\ Cardinality(S) <= Cardinality(T)
             /\ S # T => Cardinality(S) < Cardinality(T)
  <2>1. /\ Cardinality(S) <= Cardinality(T)
        /\ Cardinality(T) = Cardinality(S) => T = S
    BY <1>2, <1>4, FS_Subset
  <2>2. QED
    BY <1>3, <2>1
<1>5. QED
  BY <1>2, <1>3, <1>4

(* Nobody has won while a game is running, nor when it is settled early.   *)
LEMMA RunningHasNoWinner ==
  ASSUME GameInv, state \notin Over
  PROVE  /\ Winner = NoPlayer
         /\ last_play_cards # <<>> => hands[last_play_player_id] # {}
<1>1. state \in {"WaitStart", "CallScore", "RobLandlord", "Playing"}
  BY DEF GameInv, GameTypeOK, States, Over
<1>2. CASE state = "Playing"
  BY <1>2 DEF GameInv, EverybodyHoldsCards, HasAutomaticMove, TurnOrder, TrickTurn, Winner, Over
<1>3. CASE state # "Playing"
  BY <1>1, <1>3 DEF GameInv, EarlyPhases, Winner, Over
<1>4. QED
  BY <1>2, <1>3

(* The room's phases are the game's.                                       *)
LEMMA PhaseOfState ==
  /\ state \in {"WaitStart", "CallScore", "RobLandlord"} => Phase = "bidding"
  /\ state = "Playing" => Phase = "playing"
  /\ state \in Over => Phase = "over"
BY DEF Phase, Over

(* A call is a bid, and so is a first request that only deals the cards.   *)
LEMMA CallsAreBids ==
  ASSUME RoomInv, RoomInv', NEW p \in Players, NEW request,
         CallScore(p, request) \/ RejectedFirstAction(p, request)
  PROVE  Game!Bid
<1>1. /\ state \in {"WaitStart", "CallScore"} /\ state' \in {"CallScore", "RobLandlord"}
      /\ DealIfWaiting /\ landlord_player_id' = landlord_player_id
  BY DEF CallScore, ValidCall, RejectedFirstAction, bidVars
<1>2. Phase = "bidding" /\ Phase' = "bidding"
  BY <1>1 DEF Phase
<1>3. base_coin' >= base_coin
  <2>1. base_coin = 1 /\ base_coin' \in Nat \ {0}
    BY <1>1 DEF RoomInv, Untouched, IInv, GameInv, GameTypeOK
  <2>2. QED
    BY <2>1
<1>4. Winner = NoPlayer /\ Winner' = NoPlayer
  <2>1. state \notin Over /\ state' \notin Over
    BY <1>1 DEF Over
  <2>2. QED
    BY <2>1 DEF Winner
<1>5. \A q \in Players : CardsLeft'[q] >= CardsLeft[q]
  <2>1. hands \in [Players -> SUBSET CardIds] /\ hands' \in [Players -> SUBSET CardIds]
    BY DEF RoomInv, IInv, GameInv, GameTypeOK
  <2>2. \A q \in Players : hands[q] \subseteq hands'[q]
    BY <1>1, <2>1 DEF DealIfWaiting, cardVars, RoomInv, Untouched
  <2>3. ASSUME NEW q \in Players PROVE Cardinality(hands'[q]) >= Cardinality(hands[q])
    <3>1. /\ hands[q] \in SUBSET CardIds /\ hands'[q] \in SUBSET CardIds
          /\ hands[q] \subseteq hands'[q]
      BY <2>1, <2>2
    <3>2. /\ Cardinality(hands[q]) \in Nat /\ Cardinality(hands'[q]) \in Nat
          /\ Cardinality(hands[q]) <= Cardinality(hands'[q])
      BY <3>1, CountingCards
    <3>3. QED
      BY <3>2
  <2>4. QED
    BY <2>3 DEF CardsLeft
<1>6. QED
  BY <1>1, <1>2, <1>3, <1>4, <1>5 DEF Game!Bid

(* Robbing bids until everybody has been asked; the last answer starts the *)
(* play with a landlord and no empty hand.                                 *)
LEMMA RobbingIsBidding ==
  ASSUME RoomInv, RoomInv', NEW p \in Players, NEW request, RobLandlord(p, request)
  PROVE  Game!Bid \/ Game!StartPlay
<1>1. /\ state = "RobLandlord" /\ base_coin' = StakeAfter(request)
      /\ state' \in {"RobLandlord", "Playing"}
  BY DEF RobLandlord, ValidRob
<1>2. base_coin' >= base_coin
  <2>1. base_coin \in Nat \ {0}
    BY DEF RoomInv, IInv, GameInv, GameTypeOK
  <2>2. QED
    BY <1>1, <2>1 DEF StakeAfter, AtLeastOne
<1>3. Winner = NoPlayer /\ Winner' = NoPlayer
  BY <1>1 DEF Winner, Over
<1>4. hands \in [Players -> SUBSET CardIds] /\ hands' \in [Players -> SUBSET CardIds]
  BY DEF RoomInv, IInv, GameInv, GameTypeOK
<1>5. \A q \in Players : CardsLeft'[q] > 0 /\ CardsLeft'[q] >= CardsLeft[q]
  <2>1. \A q \in Players : hands[q] \subseteq hands'[q]
    BY <1>4 DEF RobLandlord
  <2>2. ASSUME NEW q \in Players
        PROVE  /\ Cardinality(hands'[q]) > 0
               /\ Cardinality(hands'[q]) >= Cardinality(hands[q])
    <3>1. /\ hands[q] \in SUBSET CardIds /\ hands'[q] \in SUBSET CardIds
          /\ hands[q] \subseteq hands'[q]
      BY <1>4, <2>1
    <3>2. hands'[q] # {}
      BY <1>1 DEF RoomInv, IInv, GameInv, EverybodyHoldsCards, HasAutomaticMove
    <3>3. /\ Cardinality(hands[q]) \in Nat /\ Cardinality(hands'[q]) \in Nat
          /\ Cardinality(hands[q]) <= Cardinality(hands'[q])
          /\ Cardinality(hands'[q]) # 0
      BY <3>1, <3>2, CountingCards
    <3>4. QED
      BY <3>3
  <2>3. QED
    BY <2>2 DEF CardsLeft
<1>6. CASE state' = "RobLandlord"
  <2>1. landlord_player_id' \in Players \cup {landlord_player_id}
    BY <1>6 DEF RobLandlord
  <2>2. Phase = "bidding" /\ Phase' = "bidding"
    BY <1>1, <1>6 DEF Phase
  <2>3. QED
    BY <1>2, <1>3, <1>5, <2>1, <2>2 DEF Game!Bid
<1>7. CASE state' = "Playing"
  <2>1. landlord_player_id' \in Players
    BY <1>7 DEF RoomInv, StakeMatchesBids, RobbingIsOver
  <2>2. Phase = "bidding" /\ Phase' = "playing"
    BY <1>1, <1>7 DEF Phase
  <2>3. QED
    BY <1>2, <1>3, <1>5, <2>1, <2>2 DEF Game!StartPlay
<1>8. QED
  BY <1>1, <1>6, <1>7

(* A play is a play of its player, who wins with an empty hand.            *)
LEMMA PlaysArePlays ==
  ASSUME RoomInv, RoomInv', NEW p \in Players, NEW request, PlainCards(request),
         PlayCards(p, request)
  PROVE  Game!Play(p)
<1>1. /\ state = "Playing" /\ request.cards # <<>> /\ InHand(hands[p], request.cards)
      /\ hands' = [hands EXCEPT ![p] = hands[p] \ CardsIn(request.cards)]
      /\ last_play_cards' = request.cards /\ last_play_player_id' = p
      /\ state' = IF hands[p] \ CardsIn(request.cards) = {} THEN "Settling" ELSE state
      /\ UNCHANGED bidVars
  BY DEF PlayCards, ValidPlay
<1>2. hands \in [Players -> SUBSET CardIds] /\ hands' \in [Players -> SUBSET CardIds]
  BY DEF RoomInv, IInv, GameInv, GameTypeOK
<1>3. hands'[p] = hands[p] \ CardsIn(request.cards)
  BY <1>1, <1>2
<1>4. hands'[p] \subseteq hands[p] /\ hands'[p] # hands[p]
  <2>1. request.cards \in Seq(CardIds) /\ CardsIn(request.cards) \subseteq hands[p]
    BY <1>1, <1>2, PlayedCardsAreCards
  <2>2. request.cards[1] \in CardsIn(request.cards)
    BY <1>1, <2>1 DEF CardsIn
  <2>3. QED
    BY <1>3, <2>1, <2>2
<1>5. /\ Cardinality(hands'[p]) < Cardinality(hands[p])
      /\ Cardinality(hands'[p]) = 0 <=> hands'[p] = {}
  BY <1>2, <1>4, CountingCards
<1>6. CardsLeft'[p] < CardsLeft[p] /\ (CardsLeft'[p] = 0 <=> hands'[p] = {})
  BY <1>5 DEF CardsLeft
<1>7. \A q \in Players : q # p => CardsLeft'[q] = CardsLeft[q]
  BY <1>1, <1>2 DEF CardsLeft
<1>8. Phase = "playing" /\ Winner = NoPlayer
  BY <1>1 DEF Phase, Winner, Over
<1>9. CASE hands'[p] = {}
  <2>1. Phase' = "over" /\ Winner' = p
    BY <1>1, <1>3, <1>9 DEF Phase, Winner, Over
  <2>2. QED
    BY <1>1, <1>6, <1>7, <1>8, <1>9, <2>1 DEF Game!Play, bidVars
<1>10. CASE hands'[p] # {}
  <2>1. Phase' = "playing" /\ Winner' = NoPlayer
    BY <1>1, <1>3, <1>10 DEF Phase, Winner, Over
  <2>2. QED
    BY <1>1, <1>6, <1>7, <1>8, <1>10, <2>1 DEF Game!Play, bidVars
<1>11. QED
  BY <1>9, <1>10

(* Settlement ends a running game early and leaves one that is over alone; *)
(* it makes nobody the winner.                                             *)
LEMMA EndsSettleEarly ==
  ASSUME RoomInv, Ends
  PROVE  Game!SettleEarly \/ UNCHANGED Game!gameVars
<1>1. /\ UNCHANGED <<hands, landlord_player_id, base_coin, last_play_player_id, last_play_cards>>
      /\ state' \in Over
  BY DEF Ends, cardVars, bidVars, trickVars
<1>2. Phase' = "over" /\ CardsLeft' = CardsLeft
  BY <1>1 DEF Phase, Over, CardsLeft
<1>3. CASE state \in Over
  <2>1. Phase = "over" /\ Winner' = Winner
    BY <1>1, <1>3 DEF Phase, Winner, Over
  <2>2. QED
    BY <1>1, <1>2, <2>1 DEF Game!gameVars
<1>4. CASE state \notin Over
  <2>1. Winner = NoPlayer /\ Winner' = NoPlayer
    BY <1>1, <1>4, RunningHasNoWinner DEF RoomInv, IInv, Winner
  <2>2. Phase # "over"
    BY <1>4 DEF Phase, RoomInv, IInv, GameInv, GameTypeOK, States, Over
  <2>3. QED
    BY <1>1, <1>2, <2>1, <2>2 DEF Game!SettleEarly
<1>5. QED
  BY <1>3, <1>4

(* A pass or a mark is no step of the game.                                *)
LEMMA SameCardsSameGame ==
  ASSUME UNCHANGED <<state, cardVars, bidVars>>, state \notin Over \/ UNCHANGED trickVars
  PROVE  UNCHANGED Game!gameVars
<1>1. Phase' = Phase /\ CardsLeft' = CardsLeft
  BY DEF Phase, CardsLeft, cardVars
<1>2. Winner' = Winner
  BY DEF Winner, cardVars, trickVars
<1>3. QED
  BY <1>1, <1>2 DEF Game!gameVars, bidVars

(* The room implements LandlordGame: whatever requests, automatic moves,   *)
(* marks and settlements take the room's lock in whatever order, the stake *)
(* never falls and is fixed once cards are played, cards only leave hands, *)
(* and the game ends once, with the player who emptied his hand as the     *)
(* winner or, settled early, with none.                                    *)
THEOREM RoomPlaysTheGame == Spec => ImplementsGame
<1>1. Init => Game!Init
  <2>1. SUFFICES ASSUME Init PROVE Game!Init
    OBVIOUS
  <2>2. Cardinality({}) = 0
    BY FS_EmptySet
  <2>3. CardsLeft = [p \in Players |-> 0]
    BY <2>1, <2>2 DEF Init, CardsLeft
  <2>4. Phase = "bidding" /\ Winner = NoPlayer
    BY <2>1 DEF Init, Phase, Winner, Over
  <2>5. QED
    BY <2>1, <2>3, <2>4 DEF Init, Game!Init, Game!NoPlayer, NoPlayer
<1>2. ASSUME RoomInv, RoomInv', [Next]_vars
      PROVE  Game!Next \/ UNCHANGED Game!gameVars
  <2>1. CASE Acts
    <3>0. PICK p \in Players :
            \E request : PlainCards(request) /\ ApplyPlayerAction(p, request)
      BY <2>1 DEF Acts
    <3>1. PICK request : PlainCards(request) /\ ApplyPlayerAction(p, request)
      BY <3>0
    <3>2. CASE CallScore(p, request) \/ RejectedFirstAction(p, request)
      BY <1>2, <3>2, CallsAreBids DEF Game!Next
    <3>3. CASE RobLandlord(p, request)
      BY <1>2, <3>3, RobbingIsBidding DEF Game!Next
    <3>4. CASE PlayCards(p, request)
      BY <1>2, <3>1, <3>4, PlaysArePlays DEF Game!Next
    <3>5. CASE Pass(p, request)
      <4>1. state \notin Over /\ UNCHANGED <<state, cardVars, bidVars>>
        BY <3>5 DEF Pass, MayAct
      <4>2. QED
        BY <4>1, SameCardsSameGame
    <3>6. QED
      BY <3>1, <3>2, <3>3, <3>4, <3>5 DEF ApplyPlayerAction
  <2>2. CASE Ends
    BY <1>2, <2>2, EndsSettleEarly DEF Game!Next
  <2>3. CASE Marks
    BY <2>3, SameCardsSameGame DEF Marks, gameVars
  <2>4. QED
    BY <1>2, <2>1, <2>2, <2>3, StepsOfTheRoom DEF RoomInv
<1>3. RoomInv /\ RoomInv' /\ [Next]_vars => [Game!Next]_Game!gameVars
  BY <1>2
<1>4. QED
  BY <1>1, <1>3, RoomInvariance, PTL DEF Spec, ImplementsGame, Game!Spec

-----------------------------------------------------------------------------
(* The automatic move.                                                     *)

(* A set of numbers that is not empty has a least one.                     *)
LEMMA LeastNumber ==
  ASSUME NEW T \in SUBSET Nat, T # {}
  PROVE  \E x \in T : \A y \in T : x <= y
<1>1. PICK x \in T : \A y \in T : <<y, x>> \notin OpToRel(<, Nat)
  BY NatLessThanWellFounded, WFMin
<1>2. \A y \in T : ~(y < x)
  BY <1>1 DEF OpToRel
<1>3. QED
  BY <1>2

(* Every card has the rank of a card.                                      *)
LEMMA RanksOfCards == \A c \in CardIds : CardRank(c) \in 3..17
BY DEF CardIds, CardRank, SmallJoker, BigJoker

(* SortCards puts one card of a hand first.                                *)
LEMMA FirstCardIsACard ==
  ASSUME NEW hand \in SUBSET CardIds, hand # {}
  PROVE  FirstCard(hand) \in hand
<1> DEFINE Key(c) == CardRank(c) * 54 + c
           Keys == {Key(c) : c \in hand}
<1>1. \A c \in hand : c \in 0..53 /\ CardRank(c) \in 3..17 /\ Key(c) \in Nat
  BY RanksOfCards DEF CardIds
<1>2. Keys \in SUBSET Nat /\ Keys # {}
  BY <1>1
<1>3. PICK x \in Keys : \A y \in Keys : x <= y
  <2> HIDE DEF Keys
  <2>1. QED
    BY <1>2, LeastNumber
<1>4. PICK c \in hand : x = Key(c)
  OBVIOUS
<1>5. \A d \in hand : Key(c) <= Key(d)
  BY <1>3, <1>4
<1>6. ASSUME NEW d \in hand \ {c}
      PROVE  CardRank(c) < CardRank(d) \/ (CardRank(c) = CardRank(d) /\ c < d)
  <2>1. CardRank(c) * 54 + c <= CardRank(d) * 54 + d
    BY <1>5
  <2>2. /\ c \in 0..53 /\ d \in 0..53 /\ c # d
        /\ CardRank(c) \in 3..17 /\ CardRank(d) \in 3..17
    BY <1>1
  <2>3. QED
    BY <2>1, <2>2
<1>7. QED
  BY <1>6 DEF FirstCard

(* One card is a combination.                                              *)
LEMMA SinglesAreValid ==
  ASSUME NEW c \in CardIds
  PROVE  IsValid(Analyze(<<c>>))
<1>1. Len(<<c>>) = 1 /\ RanksOf(<<c>>) = {CardRank(c)}
  BY DEF RanksOf
<1>2. 0 \notin RanksOf(<<c>>)
  BY <1>1, RanksOfCards
<1>3. Analyze(<<c>>) = Combo("Single", RanksOf(<<c>>), 1)
  BY <1>1, <1>2 DEF Analyze
<1>4. QED
  BY <1>3 DEF IsValid, Combo

(* A card of a hand may be played on its own if it leads or beats.         *)
LEMMA OneCardMayBePlayed ==
  ASSUME NEW p \in Players, NEW c \in hands[p], hands[p] \in SUBSET CardIds,
         state = "Playing",
         \/ last_play_cards = <<>> \/ last_play_player_id = p
         \/ CanBeat(Single(c), Analyze(last_play_cards))
  PROVE  ValidPlay(p, PlayCardsRequest(<<c>>))
<1>1. /\ PlayCardsRequest(<<c>>).action_type = "PlayCards"
      /\ PlayCardsRequest(<<c>>).cards = <<c>>
  BY DEF PlayCardsRequest
<1>2. InHand(hands[p], <<c>>) /\ <<c>> # <<>>
  BY DEF InHand, CardsIn
<1>3. IsValid(Analyze(<<c>>))
  BY SinglesAreValid
<1>4. QED
  BY <1>1, <1>2, <1>3 DEF ValidPlay, Single

(* Whatever players, timer and settlement have done to a room, as long as  *)
(* its game runs the automatic move of the player in turn is accepted:     *)
(* ApplyTrusteeAction never fails for a trustee in turn, and no player is  *)
(* ever without a legal move.                                              *)
THEOREM TrusteesHaveALegalMove == Spec => []TrusteeMoveIsLegal
<1> DEFINE p == current_operator_player_id
<1>1. ASSUME IInv, HasAutomaticMove
      PROVE  Accepts(p, TrusteeRequest(p))
  <2>1. p \in Players /\ hands[p] \in SUBSET CardIds /\ hands[p] # {}
    BY <1>1 DEF IInv, GameInv, GameTypeOK, EverybodyHoldsCards
  <2>2. MayAct(p)
    BY <1>1 DEF MayAct, HasAutomaticMove, Over
  <2>3. CASE state = "CallScore"
    <3>1. TrusteeRequest(p) = CallScoreRequest(0)
      BY <2>3 DEF TrusteeRequest
    <3>2. ValidCall(CallScoreRequest(0))
      BY <2>3 DEF ValidCall, CallScoreRequest
    <3>3. QED
      BY <2>2, <3>1, <3>2 DEF Accepts
  <2>4. CASE state = "RobLandlord"
    <3>1. TrusteeRequest(p) = RobLandlordRequest(0)
      BY <2>4 DEF TrusteeRequest
    <3>2. ValidRob(RobLandlordRequest(0))
      BY <2>4 DEF ValidRob, RobLandlordRequest
    <3>3. QED
      BY <2>2, <3>1, <3>2 DEF Accepts
  <2>5. CASE state = "Playing" /\ (last_play_cards = <<>> \/ last_play_player_id = p)
    <3>1. TrusteeRequest(p) = PlayCardsRequest(<<FirstCard(hands[p])>>)
      BY <2>5 DEF TrusteeRequest, Leads
    <3>2. ValidPlay(p, PlayCardsRequest(<<FirstCard(hands[p])>>))
      BY <2>1, <2>5, FirstCardIsACard, OneCardMayBePlayed
    <3>3. QED
      BY <2>2, <3>1, <3>2 DEF Accepts
  <2>6. CASE /\ state = "Playing" /\ last_play_cards # <<>> /\ last_play_player_id # p
             /\ Beating(p) # {}
    <3>1. TrusteeRequest(p) = PlayCardsRequest(<<FirstCard(Beating(p))>>)
      BY <2>6 DEF TrusteeRequest, Leads
    <3>2. FirstCard(Beating(p)) \in Beating(p)
      <4>1. Beating(p) \in SUBSET CardIds
        BY <2>1 DEF Beating
      <4>2. QED
        BY <2>6, <4>1, FirstCardIsACard
    <3>3. /\ FirstCard(Beating(p)) \in hands[p]
          /\ CanBeat(Single(FirstCard(Beating(p))), Analyze(last_play_cards))
      BY <3>2 DEF Beating
    <3>4. ValidPlay(p, PlayCardsRequest(<<FirstCard(Beating(p))>>))
      BY <2>1, <2>6, <3>3, OneCardMayBePlayed
    <3>5. QED
      BY <2>2, <3>1, <3>4 DEF Accepts
  <2>7. CASE /\ state = "Playing" /\ last_play_cards # <<>> /\ last_play_player_id # p
             /\ Beating(p) = {}
    <3>1. TrusteeRequest(p) = PassRequest(<<>>)
      BY <2>7 DEF TrusteeRequest, Leads
    <3>2. ValidPass(p, PassRequest(<<>>))
      BY <2>7 DEF ValidPass, PassRequest
    <3>3. QED
      BY <2>2, <3>1, <3>2 DEF Accepts
  <2>8. QED
    BY <1>1, <2>3, <2>4, <2>5, <2>6, <2>7 DEF HasAutomaticMove
<1>2. IInv => TrusteeMoveIsLegal
  BY <1>1 DEF TrusteeMoveIsLegal
<1>3. QED
  BY <1>2, Invariance, PTL
=============================================================================
