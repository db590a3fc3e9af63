---------------------------- MODULE RoomManager ----------------------------
(***************************************************************************)
(* One room of service/room/room_manager.cpp, from CreateRoom to           *)
(* MarkFinished: calling for the landlord, robbing, playing tricks, and    *)
(* the marks the server puts on players that come and go.                  *)
(*                                                                         *)
(* Every operation holds RoomManager::mu_ for its whole body and is one    *)
(* action here, except what the timer thread does about a trustee: it      *)
(* marks him, then ApplyTrusteeAction decides on a move under the lock,    *)
(* releases it and applies the move as a player action.  These are three   *)
(* steps, with anything in between.                                        *)
(*                                                                         *)
(* Players are the seats 1..3 of room.players (only mode 3 is matched),    *)
(* 0 is "no player".  offline_at_ms is not kept: it is positive exactly    *)
(* when the player is marked offline.  dealt is state # "WaitStart".       *)
(***************************************************************************)
EXTENDS DdzRuleEngine

CONSTANTS
  Decks,     \* the shuffled decks a room may be dealt, as sequences of cards
  Scores,    \* the scores requests call
  Plays,     \* the card sequences requests carry
  MaxMarks   \* bound: version bumps that are not player actions

NumPlayers == 3
Players == 1..NumPlayers
NoPlayer == 0
NumBottom == 3
CardIds == 0..53

(* A shuffled deck has no card twice and leaves every player a hand; the   *)
(* program deals 54 cards.                                                 *)
ASSUME DecksAssumption ==
  \A deck \in Decks :
    /\ deck \in Seq(CardIds)
    /\ Len(deck) >= NumBottom + NumPlayers
    /\ \A i, j \in 1..Len(deck) : deck[i] = deck[j] => i = j

ASSUME ScoresAssumption == Scores \subseteq Int

ASSUME PlaysAssumption == Plays \subseteq Seq(CardIds)

ASSUME MaxMarksAssumption == MaxMarks \in Nat

VARIABLES
  state,                       \* Room::state
  hands,                       \* Room::hands, the sorted vectors as sets
  landlord_bottom_cards,
  current_operator_player_id,
  state_action_count,          \* accepted actions in the current bidding phase
  highest_call_score,
  highest_call_player_id,
  landlord_player_id,
  base_coin,
  last_play_player_id,         \* who played the cards on the table
  last_play_cards,             \* the cards on the table, <<>> at a new trick
  consecutive_pass_count,
  snapshot_version,
  last_action_seq,
  online_by_player,
  trustee_by_player,
  trustee_move                 \* whom the timer looks after, and with what move

bidVars == <<state_action_count, highest_call_score, highest_call_player_id,
             landlord_player_id, base_coin>>
trickVars == <<last_play_player_id, last_play_cards, consecutive_pass_count>>
cardVars == <<hands, landlord_bottom_cards>>
gameVars == <<state, cardVars, current_operator_player_id, bidVars, trickVars>>
versionVars == <<snapshot_version, last_action_seq>>
markVars == <<online_by_player, trustee_by_player>>
vars == <<gameVars, versionVars, markVars, trustee_move>>

-----------------------------------------------------------------------------
(* Requests: PlayerActionRequest, with -1 and <<>> where a field is absent *)

CallScoreRequest(score) ==
  [action_type |-> "CallScore", call_score |-> score, rob |-> -1, cards |-> <<>>]
RobLandlordRequest(flag) ==
  [action_type |-> "RobLandlord", call_score |-> -1, rob |-> flag, cards |-> <<>>]
PlayCardsRequest(cards) ==
  [action_type |-> "PlayCards", call_score |-> -1, rob |-> -1, cards |-> cards]
PassRequest(cards) ==
  [action_type |-> "Pass", call_score |-> -1, rob |-> -1, cards |-> cards]

Requests ==
  {CallScoreRequest(score) : score \in Scores} \cup
  {RobLandlordRequest(flag) : flag \in -1..2} \cup
  {PlayCardsRequest(cards) : cards \in Plays \cup {<<>>}} \cup
  {PassRequest(cards) : cards \in Plays \cup {<<>>}}

Undecided == [action_type |-> "None", call_score |-> -1, rob |-> -1, cards |-> <<>>]

NoMove == [player |-> NoPlayer, request |-> Undecided]

States == {"WaitStart", "CallScore", "RobLandlord", "Playing", "Settling", "Finished"}
Over == {"Settling", "Finished"}

-----------------------------------------------------------------------------
(* Helpers.                                                                *)

PreviousOperator(p) == IF p = 1 THEN NumPlayers ELSE p - 1  \* mutant of NextOperator

NextSeat(p) == p + 1                                         \* mutant of NextOperator

(* The next seat, in a circle.                                             *)
NextOperator(p) == IF p = NumPlayers THEN 1 ELSE p + 1

AtLeastOne(n) == IF n > 1 THEN n ELSE 1

CardsIn(cards) == {cards[i] : i \in DOMAIN cards}

DealtTo(deck, p) ==
  {deck[i] : i \in {j \in 1..(Len(deck) - NumBottom) : (j - 1) % NumPlayers = p - 1}}

BottomTooBig(deck) == {deck[i] : i \in (Len(deck) - NumBottom)..Len(deck)}  \* mutant of BottomOf

BottomOf(deck) == {deck[i] : i \in (Len(deck) - NumBottom + 1)..Len(deck)}

(* A request that names a card twice counts as a pair for the rule engine  *)
(* and only fails here.                                                    *)
InHandOnceOrMore(hand, cards) == CardsIn(cards) \subseteq hand  \* mutant of InHand

InHand(hand, cards) ==
  /\ CardsIn(cards) \subseteq hand
  /\ \A i, j \in DOMAIN cards : cards[i] = cards[j] => i = j

(* The first card of a hand in the order of SortCards.                     *)
FirstCard(hand) ==
  CHOOSE c \in hand : \A d \in hand \ {c} :
    \/ CardRank(c) < CardRank(d)
    \/ CardRank(c) = CardRank(d) /\ c < d

Single(card) == Analyze(<<card>>)

BumpSnapshotVersion(count_as_action) ==
  /\ snapshot_version' = snapshot_version + 1
  /\ last_action_seq' = IF count_as_action THEN last_action_seq + 1 ELSE last_action_seq

(* MaxMarks bounds the bumps that count no action.                         *)
MayMark == snapshot_version - last_action_seq <= MaxMarks

-----------------------------------------------------------------------------
(* CreateRoom.                                                             *)

Init ==
  /\ state = "WaitStart"
  /\ hands = [p \in Players |-> {}]
  /\ landlord_bottom_cards = {}
  /\ current_operator_player_id = 1
  /\ state_action_count = 0
  /\ highest_call_score = 0
  /\ highest_call_player_id = NoPlayer
  /\ landlord_player_id = NoPlayer
  /\ base_coin = 1
  /\ last_play_player_id = NoPlayer
  /\ last_play_cards = <<>>
  /\ consecutive_pass_count = 0
  /\ snapshot_version = 1
  /\ last_action_seq = 0
  /\ online_by_player = [p \in Players |-> TRUE]
  /\ trustee_by_player = [p \in Players |-> FALSE]
  /\ trustee_move = NoMove

-----------------------------------------------------------------------------
(* ApplyPlayerAction(p, request).                                          *)

MayAct(p) == current_operator_player_id = p /\ state \notin Over

(* The first request of the operator deals the cards, whatever it asks.    *)
DealIfWaiting ==
  \/ /\ state = "WaitStart"
     /\ \E deck \in Decks :
          /\ hands' = [p \in Players |-> DealtTo(deck, p)]
          /\ landlord_bottom_cards' = BottomOf(deck)
  \/ state = "CallScore" /\ UNCHANGED cardVars

ValidCall(request) ==
  /\ state \in {"WaitStart", "CallScore"}
  /\ request.action_type = "CallScore" /\ request.call_score \in 0..3

CallScore(p, request) ==
  LET raises == request.call_score > highest_call_score
      score == IF raises THEN request.call_score ELSE highest_call_score
      caller == IF raises THEN p ELSE highest_call_player_id
      last == request.call_score = 3 \/ state_action_count + 1 >= NumPlayers
      chosen == IF caller = NoPlayer THEN 1 ELSE caller
  IN /\ MayAct(p) /\ ValidCall(request)
     /\ DealIfWaiting
     /\ highest_call_score' = score
     /\ \/ /\ last
           /\ state' = "RobLandlord"
           /\ state_action_count' = 0
           /\ highest_call_player_id' = chosen
           /\ base_coin' = AtLeastOne(score)
           /\ current_operator_player_id' = chosen
        \/ /\ ~last
           /\ state' = "CallScore"
           /\ state_action_count' = state_action_count + 1
           /\ highest_call_player_id' = caller
           /\ current_operator_player_id' = NextOperator(p)
           /\ UNCHANGED base_coin
     /\ BumpSnapshotVersion(TRUE)
     /\ UNCHANGED <<landlord_player_id, trickVars, markVars>>

(* A first request that is not a valid call is answered with an error, but *)
(* the room has left WaitStart and the cards are dealt.                    *)
RejectedFirstAction(p, request) ==
  /\ MayAct(p) /\ state = "WaitStart" /\ ~ValidCall(request)
  /\ DealIfWaiting
  /\ state' = "CallScore"
  /\ UNCHANGED <<current_operator_player_id, bidVars, trickVars, versionVars, markVars>>

ValidRob(request) ==
  /\ state = "RobLandlord"
  /\ request.action_type = "RobLandlord" /\ request.rob \in {0, 1}

StakeAlwaysDoubled(request) == AtLeastOne(base_coin) * 2  \* mutant of StakeAfter

StakeFromCall(request) ==  \* mutant of StakeAfter
  IF request.rob = 1 THEN AtLeastOne(highest_call_score) * 2 ELSE AtLeastOne(highest_call_score)

StakeAfter(request) == IF request.rob = 1 THEN AtLeastOne(base_coin) * 2 ELSE base_coin

RobLandlord(p, request) ==
  LET robber == IF request.rob = 1 THEN p ELSE landlord_player_id
      landlord == IF robber = NoPlayer THEN highest_call_player_id ELSE robber
      last == state_action_count + 1 >= NumPlayers
  IN /\ MayAct(p) /\ ValidRob(request)
     /\ base_coin' = StakeAfter(request)
     /\ \/ /\ last
           /\ state' = "Playing"
           /\ state_action_count' = 0
           /\ landlord_player_id' = landlord
           /\ hands' = [hands EXCEPT ![landlord] = @ \cup landlord_bottom_cards]
           /\ current_operator_player_id' = landlord
           /\ last_play_cards' = <<>>
           /\ last_play_player_id' = NoPlayer
           /\ consecutive_pass_count' = 0
        \/ /\ ~last
           /\ state_action_count' = state_action_count + 1
           /\ landlord_player_id' = robber
           /\ current_operator_player_id' = NextOperator(p)
           /\ UNCHANGED <<state, hands, trickVars>>
     /\ BumpSnapshotVersion(TRUE)
     /\ UNCHANGED <<landlord_bottom_cards, highest_call_score, highest_call_player_id,
                    markVars>>

ValidPass(p, request) ==
  /\ state = "Playing"
  /\ request.action_type = "Pass" /\ request.cards = <<>>
  /\ last_play_cards # <<>>
  /\ last_play_player_id # p

Pass(p, request) ==
  LET last == consecutive_pass_count + 1 >= NumPlayers - 1
  IN /\ MayAct(p) /\ ValidPass(p, request)
     /\ \/ /\ last
           /\ current_operator_player_id' = last_play_player_id
           /\ last_play_cards' = <<>>
           /\ last_play_player_id' = NoPlayer
           /\ consecutive_pass_count' = 0
        \/ /\ ~last
           /\ current_operator_player_id' = NextOperator(p)
           /\ consecutive_pass_count' = consecutive_pass_count + 1
           /\ UNCHANGED <<last_play_cards, last_play_player_id>>
     /\ BumpSnapshotVersion(TRUE)
     /\ UNCHANGED <<state, cardVars, bidVars, markVars>>

ValidPlay(p, request) ==
  /\ state = "Playing"
  /\ request.action_type = "PlayCards" /\ request.cards # <<>>
  /\ InHand(hands[p], request.cards)
  /\ IsValid(Analyze(request.cards))
  /\ last_play_cards # <<>> /\ last_play_player_id # p =>
       CanBeat(Analyze(request.cards), Analyze(last_play_cards))

PlayCards(p, request) ==
  LET left == hands[p] \ CardsIn(request.cards)
  IN /\ MayAct(p) /\ ValidPlay(p, request)
     /\ hands' = [hands EXCEPT ![p] = left]
     /\ last_play_cards' = request.cards
     /\ last_play_player_id' = p
     /\ consecutive_pass_count' = 0
     /\ state' = IF left = {} THEN "Settling" ELSE state
     /\ current_operator_player_id' = IF left = {} THEN p ELSE NextOperator(p)
     /\ BumpSnapshotVersion(TRUE)
     /\ UNCHANGED <<landlord_bottom_cards, bidVars, markVars>>

Accepts(p, request) ==
  MayAct(p) /\ (ValidCall(request) \/ ValidRob(request)
                \/ ValidPass(p, request) \/ ValidPlay(p, request))

ApplyPlayerAction(p, request) ==
  \/ CallScore(p, request)
  \/ RejectedFirstAction(p, request)
  \/ RobLandlord(p, request)
  \/ Pass(p, request)
  \/ PlayCards(p, request)

(* A player's request; one that is rejected without an effect is no step.  *)
PlayerActs(p) ==
  /\ \E request \in Requests : ApplyPlayerAction(p, request)
  /\ UNCHANGED trustee_move

-----------------------------------------------------------------------------
(* ApplyTrusteeAction(p), called by the timer for a trustee.               *)

Beating(p) == {c \in hands[p] : CanBeat(Single(c), Analyze(last_play_cards))}

TrusteeNeverPasses(p) ==  \* mutant of TrusteeRequest
  CASE state = "CallScore" -> CallScoreRequest(0)
    [] state = "RobLandlord" -> RobLandlordRequest(0)
    [] OTHER -> PlayCardsRequest(<<FirstCard(hands[p])>>)

Leads(p) == last_play_cards = <<>> \/ last_play_player_id = p

(* Call nothing, do not rob, lead the first card of the hand, follow with  *)
(* the first single card that beats the table, else pass.                  *)
TrusteeRequest(p) ==
  CASE state = "CallScore" -> CallScoreRequest(0)
    [] state = "RobLandlord" -> RobLandlordRequest(0)
    [] state = "Playing" /\ Leads(p) -> PlayCardsRequest(<<FirstCard(hands[p])>>)
    [] state = "Playing" /\ ~Leads(p) /\ Beating(p) # {} ->
         PlayCardsRequest(<<FirstCard(Beating(p))>>)
    [] OTHER -> PassRequest(<<>>)

(* "room state not support trustee action" otherwise.                      *)
HasAutomaticMove == state \in {"CallScore", "RobLandlord", "Playing"}

(* Under the lock: decide, if the trustee is in turn.                      *)
TrusteeDecides ==
  LET p == trustee_move.player
      InTurn == current_operator_player_id = p /\ HasAutomaticMove
  IN /\ p # NoPlayer /\ trustee_move.request = Undecided
     /\ \/ InTurn /\ trustee_move' = [player |-> p, request |-> TrusteeRequest(p)]
        \/ ~InTurn /\ trustee_move' = NoMove
     /\ UNCHANGED <<gameVars, versionVars, markVars>>

(* Under the lock again: apply, or be rejected if the room has moved on.   *)
TrusteeApplies ==
  LET p == trustee_move.player
      request == trustee_move.request
  IN /\ request # Undecided
     /\ trustee_move' = NoMove
     /\ \/ ApplyPlayerAction(p, request)
        \/ ~Accepts(p, request) /\ UNCHANGED <<gameVars, versionVars, markVars>>

-----------------------------------------------------------------------------
(* Marks.                                                                  *)

MarkPlayerOffline(p) ==
  /\ MayMark
  /\ online_by_player[p]
  /\ online_by_player' = [online_by_player EXCEPT ![p] = FALSE]
  /\ BumpSnapshotVersion(FALSE)
  /\ UNCHANGED <<gameVars, trustee_by_player, trustee_move>>

MarkPlayerOnline(p) ==
  /\ MayMark
  /\ ~online_by_player[p] \/ trustee_by_player[p]
  /\ online_by_player' = [online_by_player EXCEPT ![p] = TRUE]
  /\ trustee_by_player' = [trustee_by_player EXCEPT ![p] = FALSE]
  /\ BumpSnapshotVersion(FALSE)
  /\ UNCHANGED <<gameVars, trustee_move>>

MarkTrusteeSilently(p) ==  \* mutant of MarkPlayerTrustee
  /\ trustee_move = NoMove
  /\ MayMark
  /\ trustee_by_player' = [trustee_by_player EXCEPT ![p] = TRUE]
  /\ trustee_move' = [player |-> p, request |-> Undecided]
  /\ UNCHANGED <<gameVars, versionVars, online_by_player>>

(* The timer only ever sets the mark; MarkPlayerOnline takes it away, and  *)
(* may do so before the timer has gone on to ApplyTrusteeAction.           *)
MarkPlayerTrustee(p) ==
  /\ trustee_move = NoMove
  /\ \/ /\ trustee_by_player[p]
        /\ UNCHANGED <<trustee_by_player, versionVars>>
     \/ /\ MayMark /\ ~trustee_by_player[p]
        /\ trustee_by_player' = [trustee_by_player EXCEPT ![p] = TRUE]
        /\ BumpSnapshotVersion(FALSE)
  /\ trustee_move' = [player |-> p, request |-> Undecided]
  /\ UNCHANGED <<gameVars, online_by_player>>

(* SettlementService settles any room it is told to, in whatever state,    *)
(* and again after a failed attempt.                                       *)
MarkSettling ==
  /\ MayMark
  /\ state # "Finished"
  /\ state' = "Settling"
  /\ BumpSnapshotVersion(FALSE)
  /\ UNCHANGED <<cardVars, current_operator_player_id, bidVars, trickVars, markVars,
                 trustee_move>>

MarkFinished ==
  /\ MayMark
  /\ state = "Settling"
  /\ state' = "Finished"
  /\ BumpSnapshotVersion(FALSE)
  /\ UNCHANGED <<cardVars, current_operator_player_id, bidVars, trickVars, markVars,
                 trustee_move>>

-----------------------------------------------------------------------------
Next ==
  \/ \E p \in Players :
       \/ PlayerActs(p)
       \/ MarkPlayerOffline(p)
       \/ MarkPlayerOnline(p)
       \/ MarkPlayerTrustee(p)
  \/ TrusteeDecides
  \/ TrusteeApplies
  \/ MarkSettling
  \/ MarkFinished

Spec == Init /\ [][Next]_vars

(* The timer thread looks after every trustee on every tick and finishes   *)
(* what it has begun; players are free never to act.                       *)
TimerFairness ==
  /\ \A p \in Players : SF_vars(trustee_by_player[p] /\ MarkPlayerTrustee(p))
  /\ WF_vars(TrusteeDecides)
  /\ WF_vars(TrusteeApplies)

FairSpec == Spec /\ TimerFairness

-----------------------------------------------------------------------------
(* Properties.                                                             *)

GameTypeOK ==
  /\ state \in States
  /\ hands \in [Players -> SUBSET CardIds]
  /\ landlord_bottom_cards \in SUBSET CardIds
  /\ current_operator_player_id \in Players
  /\ state_action_count \in 0..(NumPlayers - 1)
  /\ highest_call_score \in 0..3
  /\ highest_call_player_id \in Players \cup {NoPlayer}
  /\ landlord_player_id \in Players \cup {NoPlayer}
  /\ base_coin \in Nat \ {0}
  /\ last_play_player_id \in Players \cup {NoPlayer}
  /\ last_play_cards \in Seq(CardIds)
  /\ consecutive_pass_count \in 0..(NumPlayers - 2)
  /\ snapshot_version \in Nat
  /\ last_action_seq \in Nat
  /\ online_by_player \in [Players -> BOOLEAN]
  /\ trustee_by_player \in [Players -> BOOLEAN]

TypeOK ==
  /\ GameTypeOK
  /\ trustee_move.player \in Players \cup {NoPlayer}

(* The seat k places after p.                                              *)
SeatAfter(p, k) == ((p - 1 + k) % NumPlayers) + 1

(* Calling starts with the first player and goes round once.               *)
CallTurn ==
  state = "CallScore" =>
    /\ current_operator_player_id = SeatAfter(1, state_action_count)
    /\ highest_call_player_id = NoPlayer <=> highest_call_score = 0

(* Robbing starts with the highest caller and goes round once, so every    *)
(* player is asked exactly once, the highest caller included.              *)
RobTurn ==
  state = "RobLandlord" =>
    /\ highest_call_player_id \in Players
    /\ current_operator_player_id = SeatAfter(highest_call_player_id, state_action_count)

(* Behind the cards on the table sit exactly the players that have passed  *)
(* on them; at a new trick there are neither cards nor passes.             *)
TrickTurn ==
  state = "Playing" =>
    IF last_play_cards = <<>>
    THEN last_play_player_id = NoPlayer /\ consecutive_pass_count = 0
    ELSE /\ last_play_player_id \in Players
         /\ current_operator_player_id =
              SeatAfter(last_play_player_id, consecutive_pass_count + 1)

(* The turn is where the rules of the phase put it.  In particular the     *)
(* operator never is the one who played the cards on the table: the error  *)
(* "leading player cannot pass" cannot occur and no play skips CanBeat.    *)
TurnOrder == CallTurn /\ RobTurn /\ TrickTurn

(* No card is in two places: in two hands, in a hand and on the table, or  *)
(* in a hand and in the bottom cards before the landlord has taken them.   *)
CardsInOnePlace ==
  /\ \A p, q \in Players : p # q => hands[p] \cap hands[q] = {}
  /\ \A p \in Players : hands[p] \cap CardsIn(last_play_cards) = {}
  /\ state \in {"CallScore", "RobLandlord"} =>
       \A p \in Players : hands[p] \cap landlord_bottom_cards = {}

(* While a game is running everybody holds cards: the first hand to become *)
(* empty ends the game, and "trustee hand empty" cannot occur.             *)
EverybodyHoldsCards ==
  HasAutomaticMove => \A p \in Players : hands[p] # {}

(* The stake is the highest call, doubled at most once for every player    *)
(* who has been asked to rob.  It is doubled exactly when somebody has     *)
(* robbed; if nobody has, the landlord is the highest caller.              *)
CallStake == AtLeastOne(highest_call_score)

(* What up to three robberies make of the stake.                           *)
Doubled(robs) == CallStake * <<1, 2, 4, 8>>[robs + 1]

Robbing ==
  /\ \E robs \in 0..state_action_count : base_coin = Doubled(robs)
  /\ landlord_player_id = NoPlayer <=> base_coin = CallStake

RobbingIsOver ==
  /\ \E robs \in 0..NumPlayers : base_coin = Doubled(robs)
  /\ landlord_player_id \in Players
  /\ base_coin = CallStake => landlord_player_id = highest_call_player_id

StakeMatchesBids ==
  /\ state = "RobLandlord" => Robbing
  /\ state = "Playing" => RobbingIsOver

(* Whoever is in turn, the automatic move of ApplyTrusteeAction would be   *)
(* accepted: no hand, table or phase leaves a trustee without a legal      *)
(* move, and so no operator either.                                        *)
TrusteeMoveIsLegal ==
  HasAutomaticMove =>
    Accepts(current_operator_player_id, TrusteeRequest(current_operator_player_id))

(* Cards leave a hand only when their owner is in turn, only to the table, *)
(* and as many as the play on the table shows: no request makes one card   *)
(* count twice.                                                            *)
CardsLeaveToTheTable ==
  [][\A p \in Players : ~(hands[p] \subseteq hands'[p]) /\ state # "WaitStart" =>
       /\ current_operator_player_id = p /\ last_play_player_id' = p
       /\ CardsIn(last_play_cards') = hands[p] \ hands'[p]
       /\ Cardinality(hands[p] \ hands'[p]) = Len(last_play_cards')]_vars

CardsLeft == [p \in Players |-> Cardinality(hands[p])]

(* What MakePushSnapshotV2 shows to every player of the room.              *)
PublicView ==
  [room_state |-> state,
   current_operator |-> current_operator_player_id,
   landlord |-> landlord_player_id,
   base_coin |-> base_coin,
   online |-> online_by_player,
   trustees |-> trustee_by_player,
   last_play_player |-> last_play_player_id,
   last_play |-> last_play_cards,
   bottom |-> IF state \in {"Playing"} \cup Over THEN landlord_bottom_cards ELSE {},
   card_counts |-> CardsLeft]

(* Two snapshots with the same version show the same room: README promises *)
(* a client whose version lags behind a SNAPSHOT_VERSION_CONFLICT, and     *)
(* HandleReconnect compares nothing but the version.                       *)
VersionCoversChanges ==
  [][PublicView' # PublicView => snapshot_version' > snapshot_version]_vars

(* The same once the cards are dealt.                                      *)
VersionCoversGame ==
  [][state # "WaitStart" /\ PublicView' # PublicView =>
       snapshot_version' > snapshot_version]_vars

(* A game in which everybody has become a trustee is played to its end by  *)
(* the timer alone.                                                        *)
TrusteesFinishTheGame ==
  <>[](state # "WaitStart" /\ \A p \in Players : trustee_by_player[p]) => <>(state \in Over)

(* The room plays the game of LandlordGame.                                *)
Winner ==
  IF state \in Over /\ last_play_cards # <<>> /\ hands[last_play_player_id] = {}
  THEN last_play_player_id ELSE NoPlayer

Phase ==
  CASE state \in {"WaitStart", "CallScore", "RobLandlord"} -> "bidding"
    [] state = "Playing" -> "playing"
    [] OTHER -> "over"

Game == INSTANCE LandlordGame WITH
  phase <- Phase,
  stake <- base_coin,
  landlord <- landlord_player_id,
  cards_left <- CardsLeft,
  winner <- Winner

ImplementsGame == Game!Spec

(* A player offline for 30 s becomes a trustee with automatic moves        *)
(* (README, P3): a trustee in turn has one.                                *)
TrusteeInTurnHasAMove ==
  state \notin Over /\ trustee_by_player[current_operator_player_id] => HasAutomaticMove
=============================================================================
