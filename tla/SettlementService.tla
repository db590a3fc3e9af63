------------------------- MODULE SettlementService -------------------------
(***************************************************************************)
(* Settling a room (service/settlement/settlement_service.cpp) while other *)
(* threads settle it too, match its players into new rooms and ask for     *)
(* them.                                                                   *)
(*                                                                         *)
(* SettleByServerResult takes settle_mu_ to enter and to leave the set of  *)
(* rooms being settled, and in between the lock of one manager after the   *)
(* other.  Every such stretch is a step of its own here, and the steps of  *)
(* different threads interleave.                                           *)
(*                                                                         *)
(* It is called by the worker whose player has emptied his hand, and by    *)
(* the timer, for a trustee's last card and for players who have been      *)
(* offline too long.  Of the game itself only its end is kept, of matching *)
(* only that three players in the lobby get a room.  Settlements are       *)
(* persisted as by the in-memory store: all of one or nothing.             *)
(***************************************************************************)
EXTENDS Integers, Sequences, FiniteSets

CONSTANTS
  Players,      \* player ids
  NumSeats,     \* players of a room, 3 in the program
  Rooms,        \* room ids 1..n: bounds the games that are played
  Workers,      \* I/O workers; the timer is a thread as well
  Timer,
  StartCoin,    \* 1000 in the program
  Stakes,       \* Room::base_coin at the end of a game
  MaxFailures   \* bound: transactions that fail

ASSUME SeatsAssumption == NumSeats \in Nat /\ NumSeats >= 2

ASSUME RoomsAssumption == Rooms \subseteq Nat \ {0}

ASSUME PlayersAssumption == Players \subseteq Nat \ {0}

ASSUME ThreadsAssumption == Timer \notin Workers

ASSUME StakesAssumption == StartCoin \in Nat \ {0} /\ Stakes \subseteq Nat \ {0}

ASSUME FailuresAssumption == MaxFailures \in Nat

VARIABLES
  room_state,      \* of RoomManager::rooms_: "none", Room::state or "destroyed"
  seats,           \* Room::players
  player_to_room,  \* RoomManager::player_to_room_, 0 without an entry
  session_room,    \* Session::room_id, 0 in the lobby
  coin,            \* PlayerData::coin
  stored_coin,     \* the coins of PlayerDao, NoRow before the first settlement
  game_records,    \* the records of GameRecordDao
  settling_rooms,  \* SettlementService::settling_rooms_
  call,            \* what every thread is doing in SettleByServerResult
  failures         \* transactions that have failed

roomVars == <<room_state, seats, player_to_room>>
storeVars == <<stored_coin, game_records, failures>>
vars == <<roomVars, session_room, coin, storeVars, settling_rooms, call>>

Threads == Workers \cup {Timer}
Seats == 1..NumSeats
NoRoom == 0
NoRow == -1

RoomStates == {"none", "open", "Settling", "Finished", "destroyed"}
Exists(r) == room_state[r] \in {"open", "Settling", "Finished"}

Steps == {"idle", "TryBegin", "GetRoom", "ReadCoins", "Persist", "AddCoins",
          "Release", "MarkFinished", "Destroy", "End"}

Idle == [step |-> "idle", room |-> NoRoom, winner |-> 0, base_coin |-> 0,
         found |-> "none", before |-> [i \in Seats |-> 0], next |-> 1]

-----------------------------------------------------------------------------
Init ==
  /\ room_state = [r \in Rooms |-> "none"]
  /\ seats = [r \in Rooms |-> <<>>]
  /\ player_to_room = [p \in Players |-> NoRoom]
  /\ session_room = [p \in Players |-> NoRoom]
  /\ coin = [p \in Players |-> StartCoin]
  /\ stored_coin = [p \in Players |-> NoRow]
  /\ game_records = {}
  /\ settling_rooms = {}
  /\ call = [t \in Threads |-> Idle]
  /\ failures = 0

(* HandleMatch, from the queue to SetRoomId, as one step: players that are *)
(* in the lobby get the next room.                                         *)
OpenRoom(r, players) ==
  /\ room_state[r] = "none"
  /\ \A s \in Rooms : s < r => room_state[s] # "none"
  /\ \A i, j \in Seats : players[i] = players[j] => i = j
  /\ \A i \in Seats : session_room[players[i]] = NoRoom
  /\ room_state' = [room_state EXCEPT ![r] = "open"]
  /\ seats' = [seats EXCEPT ![r] = players]
  /\ player_to_room' =
       [p \in Players |-> IF \E i \in Seats : players[i] = p THEN r ELSE player_to_room[p]]
  /\ session_room' =
       [p \in Players |-> IF \E i \in Seats : players[i] = p THEN r ELSE session_room[p]]
  /\ UNCHANGED <<coin, storeVars, settling_rooms, call>>

-----------------------------------------------------------------------------
(* Who calls SettleByServerResult(room, winner, base_coin).                *)

Call(t, r, winner, base_coin) ==
  /\ call[t].step = "idle"
  /\ call' = [call EXCEPT ![t] = [Idle EXCEPT !.step = "TryBegin", !.room = r,
                                              !.winner = winner, !.base_coin = base_coin]]

(* The last card of a hand: the room is in Settling before the lock of the *)
(* room is released, so this happens once in a room.                       *)
GameOver(t, r, i, base_coin) ==
  /\ room_state[r] = "open"
  /\ room_state' = [room_state EXCEPT ![r] = "Settling"]
  /\ Call(t, r, seats[r][i], base_coin)
  /\ UNCHANGED <<seats, player_to_room, session_room, coin, storeVars, settling_rooms>>

(* PickWinnerForOfflineLose: the first player who is not the loser.  The   *)
(* timer works on a copy of the sessions, so the room may be any that      *)
(* exists, won or not.                                                     *)
OfflineLose(r, i) ==
  /\ Exists(r)
  /\ Call(Timer, r, IF i = 1 THEN seats[r][2] ELSE seats[r][1], 1)
  /\ UNCHANGED <<roomVars, session_room, coin, storeVars, settling_rooms>>

-----------------------------------------------------------------------------
(* SettleByServerResult, in the order of its statements.                   *)

InOrder(step) ==
  CASE step = "TryBegin" -> "GetRoom"
    [] step = "GetRoom" -> "ReadCoins"
    [] step = "ReadCoins" -> "Persist"
    [] step = "Persist" -> "AddCoins"
    [] step = "AddCoins" -> "Release"
    [] step = "Release" -> "MarkFinished"
    [] step = "MarkFinished" -> "Destroy"
    [] step = "Destroy" -> "End"
    [] OTHER -> "idle"

(* Mutants of StepAfter: the room free for the next settlement before it   *)
(* is destroyed, the players released from a destroyed room, the players   *)
(* released before they are paid.                                          *)
EndBeforeDestroy(step) ==
  CASE step = "MarkFinished" -> "End"
    [] step = "End" -> "Destroy"
    [] step = "Destroy" -> "idle"
    [] OTHER -> InOrder(step)

ReleaseBeforeAddCoins(step) ==
  CASE step = "Persist" -> "Release"
    [] step = "Release" -> "AddCoins"
    [] step = "AddCoins" -> "MarkFinished"
    [] OTHER -> InOrder(step)

StepAfter(step) == InOrder(step)

(* Every failure breaks out of the do-while, to EndSettlement.             *)
ReturnAtOnce == "idle"  \* mutant of Break

Break == "End"

At(t, step) == call[t].step = step
GoTo(t, step) == call' = [call EXCEPT ![t].step = step]
Finish(t) == call' = [call EXCEPT ![t] = Idle]

TryBeginSettlement(t) ==
  /\ At(t, "TryBegin")
  /\ \/ /\ call[t].room \in settling_rooms
        /\ Finish(t)
        /\ UNCHANGED settling_rooms
     \/ /\ call[t].room \notin settling_rooms
        /\ settling_rooms' = settling_rooms \cup {call[t].room}
        /\ GoTo(t, StepAfter("TryBegin"))
  /\ UNCHANGED <<roomVars, session_room, coin, storeVars>>

(* GetRoomById and MarkSettling.  Nothing but a settlement of this room    *)
(* could destroy it in between, and of the copy of the room only the       *)
(* players are used.                                                       *)
GetRoom(t) ==
  LET r == call[t].room
  IN /\ At(t, "GetRoom")
     /\ \/ /\ Exists(r)
           /\ room_state' = [room_state EXCEPT ![r] = "Settling"]
           /\ call' = [call EXCEPT ![t].step = StepAfter("GetRoom"),
                                   ![t].found = room_state[r]]
        \/ /\ ~Exists(r)
           /\ GoTo(t, Break)
           /\ UNCHANGED room_state
     /\ UNCHANGED <<seats, player_to_room, session_room, coin, storeVars, settling_rooms>>

(* The coins every player has before the settlement.                       *)
ReadCoins(t) ==
  /\ At(t, "ReadCoins")
  /\ call' = [call EXCEPT ![t].step = StepAfter("ReadCoins"),
                          ![t].before = [i \in Seats |-> coin[seats[call[t].room][i]]]]
  /\ UNCHANGED <<roomVars, session_room, coin, storeVars, settling_rooms>>

(* The winner gets from every other player what they pay.                  *)
Delta(c, p) == IF p = c.winner THEN c.base_coin * (NumSeats - 1) ELSE -c.base_coin

(* PersistSettlementTransaction: the coins after the settlement and the    *)
(* record, or nothing.                                                     *)
Persist(t) ==
  LET c == call[t]
      room == seats[c.room]
  IN /\ At(t, "Persist")
     /\ \/ /\ stored_coin' =
                [p \in Players |->
                   IF \E i \in Seats : room[i] = p
                   THEN c.before[CHOOSE i \in Seats : room[i] = p] + Delta(c, p)
                   ELSE stored_coin[p]]
           /\ game_records' = game_records \cup
                {[id |-> Cardinality(game_records) + 1, room |-> c.room,
                  winner |-> c.winner, base_coin |-> c.base_coin]}
           /\ GoTo(t, StepAfter("Persist"))
           /\ UNCHANGED failures
        \/ /\ failures < MaxFailures
           /\ failures' = failures + 1
           /\ GoTo(t, Break)
           /\ UNCHANGED <<stored_coin, game_records>>
     /\ UNCHANGED <<roomVars, session_room, coin, settling_rooms>>

(* BatchAddCoin.  It cannot fail: players are never removed.               *)
AddCoins(t) ==
  LET c == call[t]
  IN /\ At(t, "AddCoins")
     /\ coin' = [p \in Players |->
                   IF \E i \in Seats : seats[c.room][i] = p
                   THEN coin[p] + Delta(c, p) ELSE coin[p]]
     /\ GoTo(t, StepAfter("AddCoins"))
     /\ UNCHANGED <<roomVars, session_room, storeVars, settling_rooms>>

(* ForceState gives a player without coins a new start.                    *)
CoinsInLobby(coins) == IF coins = 0 THEN StartCoin ELSE coins

IsPastTheSeats(i) == i > NumSeats  \* mutant of IsLastSeat

IsLastSeat(i) == i = NumSeats

(* The loop over the players: ClearRoomId and ForceState(Lobby) for one    *)
(* player after the other.  The two calls are one step: nobody is matched  *)
(* before ForceState, and only a match looks at both.                      *)
Release(t) ==
  LET c == call[t]
      p == seats[c.room][c.next]
  IN /\ At(t, "Release")
     /\ session_room' = [session_room EXCEPT ![p] = NoRoom]
     /\ coin' = [coin EXCEPT ![p] = CoinsInLobby(@)]
     /\ IF IsLastSeat(c.next)
        THEN GoTo(t, StepAfter("Release"))
        ELSE call' = [call EXCEPT ![t].next = @ + 1]
     /\ UNCHANGED <<roomVars, storeVars, settling_rooms>>

MarkFinished(t) ==
  /\ At(t, "MarkFinished")
  /\ room_state' = [room_state EXCEPT ![call[t].room] = "Finished"]
  /\ GoTo(t, StepAfter("MarkFinished"))
  /\ UNCHANGED <<seats, player_to_room, session_room, coin, storeVars, settling_rooms>>

(* DestroyRoom takes its players out of player_to_room_, whatever room     *)
(* their entry names by now.                                               *)
DestroyRoom(t) ==
  LET r == call[t].room
  IN /\ At(t, "Destroy")
     /\ room_state' = [room_state EXCEPT ![r] = "destroyed"]
     /\ player_to_room' = [p \in Players |->
          IF \E i \in Seats : seats[r][i] = p THEN NoRoom ELSE player_to_room[p]]
     /\ GoTo(t, StepAfter("Destroy"))
     /\ UNCHANGED <<seats, session_room, coin, storeVars, settling_rooms>>

EndSettlement(t) ==
  /\ At(t, "End")
  /\ settling_rooms' = settling_rooms \ {call[t].room}
  /\ IF StepAfter("End") = "idle" THEN Finish(t) ELSE GoTo(t, StepAfter("End"))
  /\ UNCHANGED <<roomVars, session_room, coin, storeVars>>

SettleStep(t) ==
  \/ TryBeginSettlement(t)
  \/ GetRoom(t)
  \/ ReadCoins(t)
  \/ Persist(t)
  \/ AddCoins(t)
  \/ Release(t)
  \/ MarkFinished(t)
  \/ DestroyRoom(t)
  \/ EndSettlement(t)

Next ==
  \/ \E r \in Rooms, players \in [Seats -> Players] : OpenRoom(r, players)
  \/ \E t \in Threads, r \in Rooms, i \in Seats, base_coin \in Stakes :
       GameOver(t, r, i, base_coin)
  \/ \E r \in Rooms, i \in Seats : OfflineLose(r, i)
  \/ \E t \in Threads : SettleStep(t)

Spec == Init /\ [][Next]_vars

(* A thread that settles runs on.                                          *)
FairSpec == Spec /\ \A t \in Threads : WF_vars(SettleStep(t))

-----------------------------------------------------------------------------
(* Properties.                                                             *)

Calls ==
  [step : Steps, room : Rooms \cup {NoRoom}, winner : Players \cup {0},
   base_coin : Nat, found : RoomStates, before : [Seats -> Int], next : Seats]

TypeOK ==
  /\ room_state \in [Rooms -> RoomStates]
  /\ seats \in [Rooms -> [Seats -> Players] \cup {<<>>}]
  /\ \A r \in Rooms : room_state[r] # "none" => seats[r] \in [Seats -> Players]
  /\ player_to_room \in [Players -> Rooms \cup {NoRoom}]
  /\ session_room \in [Players -> Rooms \cup {NoRoom}]
  /\ coin \in [Players -> Int]
  /\ stored_coin \in [Players -> Int]
  /\ game_records \subseteq
       [id : Nat, room : Rooms, winner : Players \cup {0}, base_coin : Nat]
  /\ settling_rooms \subseteq Rooms
  /\ call \in [Threads -> Calls]
  /\ failures \in Nat

(* A room is recorded at most once, and so paid for at most once, whoever  *)
(* settles it: the worker with the last card and the timer, which tries    *)
(* again on every tick, at the same time or one after the other, after     *)
(* failures and after successes.                                           *)
SettledOnce ==
  \A a, b \in game_records : a.room = b.room => a = b

(* What the store has for a player is what the server has: a transaction   *)
(* that is committed reaches the memory before any player of the room can  *)
(* leave it, and one that fails reaches neither.  Between the two the      *)
(* player is still in the room.  The exception is the new start of a       *)
(* player without coins, which is in memory only.                          *)
BeingPaid(p) ==
  \E t \in Threads : At(t, "AddCoins") /\ session_room[p] = call[t].room

StoredCoinIsCoin ==
  \A p \in Players :
    \/ stored_coin[p] \in {coin[p], NoRow}
    \/ stored_coin[p] = 0 /\ coin[p] = StartCoin
    \/ BeingPaid(p)

(* A room that has been recorded plays no more and keeps nobody: when its  *)
(* settlement is over it does not exist.                                   *)
RecordedRoomsAreDestroyed ==
  \A record \in game_records :
    room_state[record.room] = "destroyed" \/ record.room \in settling_rooms

(* Every settlement comes to its end, on whatever path it leaves: a room   *)
(* does not stay locked against the next attempt.                          *)
SettlementEnds ==
  \A r \in Rooms : r \in settling_rooms ~> r \notin settling_rooms

(* "Transaction failpoint does not corrupt coin balances or room state"    *)
(* (runbooks/p5_fault_drill_runbook.md): the room of a settlement whose    *)
(* transaction fails is in the state in which it was found.                *)
FailedSettlementLeavesRoom ==
  [][failures' > failures =>
       \A t \in Threads : At(t, "Persist") /\ call'[t].step # call[t].step =>
         room_state'[call[t].room] = call[t].found]_vars

(* A player whose session names a room is found in it: OnConnectionClosed  *)
(* and the timer mark him offline, and later a trustee, through            *)
(* player_to_room_ (README, recovery from a lost connection).              *)
SeatedPlayersAreFound ==
  \A p \in Players : session_room[p] # NoRoom => player_to_room[p] = session_room[p]
=============================================================================
