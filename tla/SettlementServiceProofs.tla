---------------------- MODULE SettlementServiceProofs ----------------------
(***************************************************************************)
(* Theorems about SettlementService, for every set of players, rooms and   *)
(* threads: no room is settled twice, a room that has been settled does    *)
(* not stay, and the store has the coins the server has.                   *)
(***************************************************************************)
EXTENDS SettlementService, FiniteSetTheorems, TLAPS

(* Between the locks of TryBeginSettlement and EndSettlement.              *)
Inside(t) == call[t].step \notin {"idle", "TryBegin"}

(* The room has been found and has not been destroyed yet.                 *)
HasRoom(t) ==
  call[t].step \in {"ReadCoins", "Persist", "AddCoins", "Release", "MarkFinished", "Destroy"}

(* The transaction has been committed.                                     *)
HasPersisted(t) == call[t].step \in {"AddCoins", "Release", "MarkFinished", "Destroy"}

(* settling_rooms is a lock per room.                                      *)
LockHeld ==
  /\ \A t \in Threads : call[t].step # "idle" => call[t].room \in Rooms
  /\ \A t \in Threads : Inside(t) => call[t].room \in settling_rooms
  /\ \A t, u \in Threads :
       Inside(t) /\ Inside(u) /\ call[t].room = call[u].room => t = u

RoomsStay == \A t \in Threads : HasRoom(t) => Exists(call[t].room)

RecordsAccounted ==
  /\ IsFiniteSet(game_records)
  /\ \A record \in game_records :
       \/ room_state[record.room] = "destroyed"
       \/ \E t \in Threads : HasPersisted(t) /\ call[t].room = record.room

IInv == TypeOK /\ LockHeld /\ RoomsStay /\ RecordsAccounted /\ SettledOnce

(* Before the first room nobody settles anything.                          *)
LEMMA InitIInv == Init => IInv
<1> SUFFICES ASSUME Init PROVE IInv
  OBVIOUS
<1>1. Idle \in Calls
  BY SeatsAssumption DEF Idle, Calls, Steps, RoomStates, Seats, NoRoom
<1>2. TypeOK
  BY <1>1, StakesAssumption, FailuresAssumption
  DEF Init, TypeOK, RoomStates, NoRoom, NoRow
<1>3. LockHeld /\ RoomsStay
  BY DEF Init, LockHeld, RoomsStay, Inside, HasRoom, Idle
<1>4. RecordsAccounted /\ SettledOnce
  BY FS_EmptySet DEF Init, RecordsAccounted, SettledOnce
<1>. QED  BY <1>2, <1>3, <1>4 DEF IInv

-----------------------------------------------------------------------------
(* How the record of one thread may change.                                *)

(* A thread may go to any step of SettleByServerResult.                    *)
LEMMA StepTyped ==
  ASSUME TypeOK, NEW t \in Threads, NEW step \in Steps
  PROVE  [call EXCEPT ![t].step = step] \in [Threads -> Calls]
BY DEF TypeOK, Calls

(* A new record for one thread.                                            *)
LEMMA CallUpdate ==
  ASSUME TypeOK, NEW t \in Threads, NEW c \in Calls, call' = [call EXCEPT ![t] = c]
  PROVE  /\ call' \in [Threads -> Calls]
         /\ \A u \in Threads \ {t} : call'[u] = call[u]
         /\ call'[t] = c
BY DEF TypeOK

(* The record of a thread that settles nothing.                            *)
LEMMA IdleTyped ==
  Idle \in Calls
BY SeatsAssumption DEF Idle, Calls, Steps, RoomStates, Seats, NoRoom

(* What a player gains or pays is a number of coins.                       *)
LEMMA DeltaTyped ==
  ASSUME NEW c \in Calls, NEW p
  PROVE  Delta(c, p) \in Int
<1>1. c.base_coin \in Nat /\ NumSeats - 1 \in Int
  BY SeatsAssumption DEF Calls
<1>2. \A a, b \in Int : a * b \in Int
  OBVIOUS
<1>3. c.base_coin * (NumSeats - 1) \in Int /\ -c.base_coin \in Int
  BY <1>1, <1>2
<1>4. QED
  BY <1>3 DEF Delta

(* Whoever has a room has its players.                                     *)
LEMMA RoomHasPlayers ==
  ASSUME IInv, NEW t \in Threads, HasRoom(t)
  PROVE  /\ call[t].room \in Rooms
         /\ seats[call[t].room] \in [Seats -> Players]
         /\ call[t].next \in Seats
BY DEF IInv, TypeOK, LockHeld, RoomsStay, HasRoom, Exists, Calls, Inside

(* A step of one thread inside, in its room, that changes neither rooms    *)
(* nor records nor locks, and does not go back.                            *)
LEMMA QuietStep ==
  ASSUME IInv, NEW t \in Threads, NEW step,
         UNCHANGED <<room_state, settling_rooms, game_records>>,
         \A u \in Threads \ {t} : call'[u] = call[u],
         call'[t].room = call[t].room, call'[t].step = step,
         Inside(t), step \notin {"idle", "TryBegin"},
         HasRoom(t)' => HasRoom(t),
         HasPersisted(t) => HasPersisted(t)'
  PROVE  LockHeld' /\ RoomsStay' /\ RecordsAccounted' /\ SettledOnce'
<1>1. \A u \in Threads : /\ call'[u].room = call[u].room
                         /\ Inside(u)' <=> Inside(u)
                         /\ HasRoom(u)' => HasRoom(u)
                         /\ HasPersisted(u) => HasPersisted(u)'
  BY DEF Inside, HasRoom, HasPersisted
<1>2. LockHeld'
  <2>1. \A u \in Threads : call'[u].step # "idle" => call[u].step # "idle"
    BY DEF Inside
  <2>2. QED
    BY <1>1, <2>1 DEF IInv, LockHeld
<1>3. RoomsStay'
  BY <1>1 DEF IInv, RoomsStay, Exists
<1>4. RecordsAccounted' /\ SettledOnce'
  BY <1>1 DEF IInv, RecordsAccounted, SettledOnce
<1>5. QED
  BY <1>2, <1>3, <1>4

-----------------------------------------------------------------------------
(* A match changes only a room that does not exist yet.                    *)
LEMMA OpenRoomPreserves ==
  ASSUME IInv, NEW r \in Rooms, NEW players \in [Seats -> Players], OpenRoom(r, players)
  PROVE  IInv'
<1>1. TypeOK'
  BY DEF IInv, TypeOK, OpenRoom, RoomStates, storeVars
<1>2. \A s \in Rooms : Exists(s) => Exists(s)'
  BY DEF IInv, TypeOK, OpenRoom, Exists
<1>3. \A s \in Rooms : room_state[s] = "destroyed" => room_state'[s] = "destroyed"
  BY DEF IInv, TypeOK, OpenRoom
<1>4. UNCHANGED <<settling_rooms, call, game_records>>
  BY DEF OpenRoom, storeVars
<1>5. LockHeld' /\ RoomsStay'
  BY <1>2, <1>4 DEF IInv, LockHeld, RoomsStay, Inside, HasRoom
<1>6. RecordsAccounted' /\ SettledOnce'
  BY <1>3, <1>4 DEF IInv, RecordsAccounted, SettledOnce, TypeOK, HasPersisted
<1>7. QED
  BY <1>1, <1>5, <1>6 DEF IInv

(* GameOver and OfflineLose: a thread that is idle calls.                  *)
LEMMA CallPreserves ==
  ASSUME IInv, NEW t \in Threads, NEW r \in Rooms, NEW winner \in Players,
         NEW base_coin \in Nat, Call(t, r, winner, base_coin),
         room_state' \in [Rooms -> RoomStates],
         \A s \in Rooms : Exists(s)' <=> Exists(s),
         \A s \in Rooms : room_state'[s] \in {"none", "destroyed"} =>
                            room_state'[s] = room_state[s],
         \A s \in Rooms : room_state[s] = "destroyed" => room_state'[s] = "destroyed",
         UNCHANGED <<seats, player_to_room, session_room, coin, storeVars, settling_rooms>>
  PROVE  IInv'
<1>1. /\ call' \in [Threads -> Calls]
      /\ \A u \in Threads \ {t} : call'[u] = call[u]
      /\ call'[t].step = "TryBegin" /\ call'[t].room = r
      /\ call[t].step = "idle"
  <2>1. [Idle EXCEPT !.step = "TryBegin", !.room = r, !.winner = winner,
                     !.base_coin = base_coin] \in Calls
    BY IdleTyped DEF Calls, Steps
  <2>2. /\ [Idle EXCEPT !.step = "TryBegin", !.room = r, !.winner = winner,
                        !.base_coin = base_coin].step = "TryBegin"
        /\ [Idle EXCEPT !.step = "TryBegin", !.room = r, !.winner = winner,
                        !.base_coin = base_coin].room = r
    BY DEF Idle
  <2>3. QED
    BY <2>1, <2>2 DEF Call, IInv, TypeOK
<1>2. TypeOK'
  <2>1. \A s \in Rooms : room_state'[s] # "none" => room_state[s] # "none"
    BY DEF Exists, RoomStates
  <2>2. QED
    BY <1>1, <2>1 DEF IInv, TypeOK, storeVars
<1>3. LockHeld'
  BY <1>1 DEF IInv, LockHeld, Inside
<1>4. RoomsStay'
  BY <1>1 DEF IInv, RoomsStay, HasRoom, LockHeld
<1>5. RecordsAccounted' /\ SettledOnce'
  <2>1. \A u \in Threads : HasPersisted(u) =>
          HasPersisted(u)' /\ call'[u].room = call[u].room
    BY <1>1 DEF HasPersisted
  <2>2. UNCHANGED game_records /\ \A record \in game_records : record.room \in Rooms
    BY DEF storeVars, IInv, TypeOK
  <2>3. QED
    BY <2>1, <2>2 DEF IInv, RecordsAccounted, SettledOnce
<1>6. QED
  BY <1>2, <1>3, <1>4, <1>5 DEF IInv

(* The last card of a hand leaves the room existing and calls.             *)
LEMMA GameOverPreserves ==
  ASSUME IInv, NEW t \in Threads, NEW r \in Rooms, NEW i \in Seats,
         NEW base_coin \in Stakes, GameOver(t, r, i, base_coin)
  PROVE  IInv'
<1>1. seats[r][i] \in Players /\ base_coin \in Nat
  BY StakesAssumption DEF GameOver, IInv, TypeOK
<1>2. /\ room_state' \in [Rooms -> RoomStates]
      /\ \A s \in Rooms : Exists(s)' <=> Exists(s)
      /\ \A s \in Rooms : room_state'[s] \in {"none", "destroyed"} =>
                            room_state'[s] = room_state[s]
      /\ \A s \in Rooms : room_state[s] = "destroyed" => room_state'[s] = "destroyed"
  BY DEF GameOver, IInv, TypeOK, RoomStates, Exists
<1>3. QED
  BY <1>1, <1>2, CallPreserves DEF GameOver

(* The timer calls with a player of the room as the winner.                *)
LEMMA OfflineLosePreserves ==
  ASSUME IInv, NEW r \in Rooms, NEW i \in Seats, OfflineLose(r, i)
  PROVE  IInv'
<1>1. seats[r][1] \in Players /\ seats[r][2] \in Players
  BY SeatsAssumption DEF OfflineLose, IInv, TypeOK, Exists, Seats
<1>2. UNCHANGED room_state /\ room_state \in [Rooms -> RoomStates]
  BY DEF OfflineLose, roomVars, IInv, TypeOK
<1>3. \A s \in Rooms : Exists(s)' <=> Exists(s)
  BY <1>2 DEF Exists
<1>4. Timer \in Threads /\ 1 \in Nat
  BY DEF Threads
<1>5. QED
  BY <1>1, <1>2, <1>3, <1>4, CallPreserves DEF OfflineLose, roomVars

(* Whoever gets in is the only one inside with his room.                   *)
LEMMA TryBeginPreserves ==
  ASSUME IInv, NEW t \in Threads, TryBeginSettlement(t)
  PROVE  IInv'
<1>1. call[t].step = "TryBegin" /\ call[t].room \in Rooms
  BY DEF TryBeginSettlement, At, IInv, LockHeld
<1>2. UNCHANGED <<room_state, game_records>>
  BY DEF TryBeginSettlement, roomVars, storeVars
<1>3. CASE call[t].room \in settling_rooms
  <2>1. UNCHANGED settling_rooms /\ call' = [call EXCEPT ![t] = Idle]
    BY <1>3 DEF TryBeginSettlement, Finish
  <2>2. /\ \A u \in Threads \ {t} : call'[u] = call[u]
        /\ call'[t].step = "idle"
        /\ call' \in [Threads -> Calls]
    BY <2>1, IdleTyped DEF IInv, TypeOK, Idle
  <2>3. TypeOK'
    BY <2>1, <2>2 DEF IInv, TypeOK, TryBeginSettlement, roomVars, storeVars
  <2>4. LockHeld' /\ RoomsStay' /\ RecordsAccounted' /\ SettledOnce'
    BY <1>1, <1>2, <2>1, <2>2
    DEF IInv, LockHeld, RoomsStay, RecordsAccounted, SettledOnce, Inside, HasRoom,
        HasPersisted, Exists
  <2>5. QED
    BY <2>3, <2>4 DEF IInv
<1>4. CASE call[t].room \notin settling_rooms
  <2>1. /\ settling_rooms' = settling_rooms \cup {call[t].room}
        /\ call' = [call EXCEPT ![t].step = "GetRoom"]
    BY <1>4 DEF TryBeginSettlement, GoTo, StepAfter, InOrder
  <2>2. call' \in [Threads -> Calls]
    BY <2>1, StepTyped DEF IInv, Steps
  <2>3. /\ \A u \in Threads \ {t} : call'[u] = call[u]
        /\ call'[t].step = "GetRoom" /\ call'[t].room = call[t].room
    BY <2>1 DEF IInv, TypeOK, Calls
  <2>4. TypeOK'
    BY <1>1, <2>1, <2>2 DEF IInv, TypeOK, TryBeginSettlement, roomVars, storeVars
  <2>5. LockHeld'
    BY <1>1, <1>4, <2>1, <2>3 DEF IInv, LockHeld, Inside
  <2>6. RoomsStay' /\ RecordsAccounted' /\ SettledOnce'
    BY <1>1, <1>2, <2>3
    DEF IInv, RoomsStay, RecordsAccounted, SettledOnce, HasRoom, HasPersisted, Exists
  <2>7. QED
    BY <2>4, <2>5, <2>6 DEF IInv
<1>5. QED
  BY <1>3, <1>4

(* What a GoTo does to the records of the threads.                         *)
LEMMA GoToEffect ==
  ASSUME TypeOK, NEW t \in Threads, NEW step \in Steps, GoTo(t, step)
  PROVE  /\ call' \in [Threads -> Calls]
         /\ \A u \in Threads \ {t} : call'[u] = call[u]
         /\ call'[t].room = call[t].room
         /\ call'[t].step = step
<1> DEFINE c == [call[t] EXCEPT !.step = step]
<1>1. c \in Calls /\ c.room = call[t].room /\ c.step = step
  BY DEF TypeOK, Calls
<1>2. call' = [call EXCEPT ![t] = c]
  BY DEF GoTo
<1>3. QED
  BY <1>1, <1>2, CallUpdate

(* The room that is found exists until its own settlement destroys it.     *)
LEMMA GetRoomPreserves ==
  ASSUME IInv, NEW t \in Threads, GetRoom(t)
  PROVE  IInv'
<1> DEFINE r == call[t].room
<1>1. call[t].step = "GetRoom" /\ r \in Rooms /\ Inside(t)
  BY DEF GetRoom, At, IInv, LockHeld, Inside
<1>2. UNCHANGED <<seats, player_to_room, session_room, coin, storeVars, settling_rooms>>
  BY DEF GetRoom
<1>3. CASE ~Exists(r)
  <2>1. UNCHANGED room_state /\ GoTo(t, "End")
    BY <1>3 DEF GetRoom, Break
  <2>2. /\ call' \in [Threads -> Calls]
        /\ \A u \in Threads \ {t} : call'[u] = call[u]
        /\ call'[t].room = call[t].room /\ call'[t].step = "End"
    BY <2>1, GoToEffect DEF IInv, Steps
  <2>3. TypeOK'
    BY <1>2, <2>1, <2>2 DEF IInv, TypeOK, storeVars
  <2>4. HasRoom(t)' => HasRoom(t)
    BY <2>2 DEF HasRoom
  <2>5. HasPersisted(t) => HasPersisted(t)'
    BY <1>1 DEF HasPersisted
  <2>6. LockHeld' /\ RoomsStay' /\ RecordsAccounted' /\ SettledOnce'
    BY <1>1, <1>2, <2>1, <2>2, <2>4, <2>5, QuietStep DEF storeVars
  <2>7. QED
    BY <2>3, <2>6 DEF IInv
<1>4. CASE Exists(r)
  <2>1. /\ room_state' = [room_state EXCEPT ![r] = "Settling"]
        /\ call' = [call EXCEPT ![t].step = "ReadCoins", ![t].found = room_state[r]]
    BY <1>4 DEF GetRoom, StepAfter, InOrder
  <2>2. /\ call' \in [Threads -> Calls]
        /\ \A u \in Threads \ {t} : call'[u] = call[u]
        /\ call'[t].room = r /\ call'[t].step = "ReadCoins"
    <3> DEFINE c == [call[t] EXCEPT !.step = "ReadCoins", !.found = room_state[r]]
    <3>1. c \in Calls /\ c.room = r /\ c.step = "ReadCoins"
      BY <1>1 DEF IInv, TypeOK, Calls, Steps
    <3>2. call' = [call EXCEPT ![t] = c]
      BY <2>1 DEF IInv, TypeOK
    <3>3. QED
      BY <3>1, <3>2, CallUpdate DEF IInv
  <2>3. /\ room_state' \in [Rooms -> RoomStates]
        /\ \A s \in Rooms : Exists(s)' <=> Exists(s)
        /\ \A s \in Rooms : room_state'[s] # "none" => room_state[s] # "none"
        /\ \A s \in Rooms : room_state[s] = "destroyed" => room_state'[s] = "destroyed"
    BY <1>1, <1>4, <2>1 DEF IInv, TypeOK, RoomStates, Exists
  <2>4. TypeOK'
    BY <1>2, <2>2, <2>3 DEF IInv, TypeOK, storeVars
  <2>5. LockHeld'
    BY <1>1, <1>2, <2>2 DEF IInv, LockHeld, Inside
  <2>6. RoomsStay'
    BY <1>1, <1>4, <2>2, <2>3 DEF IInv, RoomsStay, HasRoom, LockHeld
  <2>7. RecordsAccounted' /\ SettledOnce'
    <3>1. \A u \in Threads : HasPersisted(u) =>
            HasPersisted(u)' /\ call'[u].room = call[u].room
      BY <1>1, <2>2 DEF HasPersisted
    <3>2. UNCHANGED game_records /\ \A record \in game_records : record.room \in Rooms
      BY <1>2 DEF storeVars, IInv, TypeOK
    <3>3. QED
      BY <2>3, <3>1, <3>2 DEF IInv, RecordsAccounted, SettledOnce
  <2>8. QED
    BY <2>4, <2>5, <2>6, <2>7 DEF IInv
<1>5. QED
  BY <1>3, <1>4

(* Reading the coins changes nothing but the caller's copy.                *)
LEMMA ReadCoinsPreserves ==
  ASSUME IInv, NEW t \in Threads, ReadCoins(t)
  PROVE  IInv'
<1> DEFINE before == [i \in Seats |-> coin[seats[call[t].room][i]]]
<1>1. call[t].step = "ReadCoins" /\ Inside(t) /\ HasRoom(t)
  BY DEF ReadCoins, At, Inside, HasRoom
<1>2. UNCHANGED <<roomVars, session_room, coin, storeVars, settling_rooms>>
  BY DEF ReadCoins
<1>3. before \in [Seats -> Int]
  BY <1>1, RoomHasPlayers DEF IInv, TypeOK
<1>4. call' = [call EXCEPT ![t].step = "Persist", ![t].before = before]
  BY DEF ReadCoins, StepAfter, InOrder
<1>5. /\ call' \in [Threads -> Calls]
      /\ \A u \in Threads \ {t} : call'[u] = call[u]
      /\ call'[t].room = call[t].room /\ call'[t].step = "Persist"
  <2> DEFINE c == [call[t] EXCEPT !.step = "Persist", !.before = before]
  <2>1. c \in Calls /\ c.room = call[t].room /\ c.step = "Persist"
    BY <1>3 DEF IInv, TypeOK, Calls, Steps
  <2>2. call' = [call EXCEPT ![t] = c]
    BY <1>4 DEF IInv, TypeOK
  <2>3. QED
    BY <2>1, <2>2, CallUpdate DEF IInv
<1>6. TypeOK'
  BY <1>2, <1>5 DEF IInv, TypeOK, roomVars, storeVars
<1>7. HasPersisted(t) => HasPersisted(t)'
  BY <1>1 DEF HasPersisted
<1>8. LockHeld' /\ RoomsStay' /\ RecordsAccounted' /\ SettledOnce'
  BY <1>1, <1>2, <1>5, <1>7, QuietStep DEF roomVars, storeVars
<1>9. QED
  BY <1>6, <1>8 DEF IInv

(* Paying the players changes only coins, after the commit.                *)
LEMMA AddCoinsPreserves ==
  ASSUME IInv, NEW t \in Threads, AddCoins(t)
  PROVE  IInv'
<1>1. call[t].step = "AddCoins" /\ Inside(t) /\ HasRoom(t)
  BY DEF AddCoins, At, Inside, HasRoom
<1>2. UNCHANGED <<roomVars, session_room, storeVars, settling_rooms>> /\ GoTo(t, "Release")
  BY DEF AddCoins, StepAfter, InOrder
<1>3. /\ call' \in [Threads -> Calls]
      /\ \A u \in Threads \ {t} : call'[u] = call[u]
      /\ call'[t].room = call[t].room /\ call'[t].step = "Release"
  BY <1>2, GoToEffect DEF IInv, Steps
<1>4. coin' \in [Players -> Int]
  <2>1. \A p \in Players : Delta(call[t], p) \in Int /\ coin[p] \in Int
    BY DeltaTyped DEF IInv, TypeOK
  <2>2. QED
    BY <2>1 DEF AddCoins
<1>5. TypeOK'
  BY <1>2, <1>3, <1>4 DEF IInv, TypeOK, roomVars, storeVars
<1>6. HasPersisted(t)'
  BY <1>3 DEF HasPersisted
<1>7. LockHeld' /\ RoomsStay' /\ RecordsAccounted' /\ SettledOnce'
  BY <1>1, <1>2, <1>3, <1>6, QuietStep DEF roomVars, storeVars
<1>8. QED
  BY <1>5, <1>7 DEF IInv

(* The transaction is committed only when no record names the room yet.    *)
LEMMA PersistPreserves ==
  ASSUME IInv, NEW t \in Threads, Persist(t)
  PROVE  IInv'
<1> DEFINE r == call[t].room
           record == [id |-> Cardinality(game_records) + 1, room |-> r,
                      winner |-> call[t].winner, base_coin |-> call[t].base_coin]
<1>1. call[t].step = "Persist" /\ Inside(t) /\ HasRoom(t) /\ ~HasPersisted(t)
  BY DEF Persist, At, Inside, HasRoom, HasPersisted
<1>2. UNCHANGED <<roomVars, session_room, coin, settling_rooms>>
  BY DEF Persist
<1>3. r \in Rooms /\ seats[r] \in [Seats -> Players] /\ Exists(r)
  BY <1>1, RoomHasPlayers DEF IInv, RoomsStay
<1>4. CASE failures' = failures + 1 /\ GoTo(t, Break) /\ UNCHANGED <<stored_coin, game_records>>
  <2>1. /\ call' \in [Threads -> Calls]
        /\ \A u \in Threads \ {t} : call'[u] = call[u]
        /\ call'[t].room = r /\ call'[t].step = "End"
    BY <1>4, GoToEffect DEF IInv, Steps, Break
  <2>2. TypeOK'
    BY <1>2, <1>4, <2>1 DEF IInv, TypeOK, roomVars
  <2>3. LockHeld' /\ RoomsStay' /\ RecordsAccounted' /\ SettledOnce'
    BY <1>1, <1>2, <1>4, <2>1, QuietStep DEF roomVars
  <2>4. QED
    BY <2>2, <2>3 DEF IInv
<1>5. CASE /\ game_records' = game_records \cup {record}
           /\ GoTo(t, "AddCoins")
           /\ UNCHANGED failures
           /\ stored_coin' =
                [p \in Players |->
                   IF \E i \in Seats : seats[r][i] = p
                   THEN call[t].before[CHOOSE i \in Seats : seats[r][i] = p]
                          + Delta(call[t], p)
                   ELSE stored_coin[p]]
  <2>1. /\ call' \in [Threads -> Calls]
        /\ \A u \in Threads \ {t} : call'[u] = call[u]
        /\ call'[t].room = r /\ call'[t].step = "AddCoins"
    BY <1>5, GoToEffect DEF IInv, Steps
  <2>2. record \in [id : Nat, room : Rooms, winner : Players \cup {0}, base_coin : Nat]
    <3>1. Cardinality(game_records) + 1 \in Nat
      BY FS_CardinalityType DEF IInv, RecordsAccounted
    <3>2. call[t].winner \in Players \cup {0} /\ call[t].base_coin \in Nat
      BY DEF IInv, TypeOK, Calls
    <3>3. QED
      BY <1>3, <3>1, <3>2
  <2>3. stored_coin' \in [Players -> Int]
    <3>1. ASSUME NEW p \in Players, \E i \in Seats : seats[r][i] = p
          PROVE  call[t].before[CHOOSE i \in Seats : seats[r][i] = p] \in Int
      <4>1. (CHOOSE i \in Seats : seats[r][i] = p) \in Seats
        BY <3>1
      <4>2. call[t].before \in [Seats -> Int]
        BY DEF IInv, TypeOK, Calls
      <4>3. QED
        BY <4>1, <4>2
    <3>2. \A p \in Players : Delta(call[t], p) \in Int /\ stored_coin[p] \in Int
      BY DeltaTyped DEF IInv, TypeOK
    <3>3. \A a, b \in Int : a + b \in Int
      OBVIOUS
    <3>4. QED
      BY <1>5, <3>1, <3>2, <3>3
  <2>4. TypeOK'
    BY <1>2, <1>5, <2>1, <2>2, <2>3 DEF IInv, TypeOK, roomVars
  <2>5. \A u \in Threads : /\ call'[u].room = call[u].room
                           /\ Inside(u)' <=> Inside(u)
                           /\ HasRoom(u)' <=> HasRoom(u)
                           /\ HasPersisted(u) => HasPersisted(u)'
                           /\ call'[u].step = "idle" <=> call[u].step = "idle"
    BY <1>1, <2>1 DEF Inside, HasRoom, HasPersisted
  <2>6. LockHeld' /\ RoomsStay'
    BY <1>2, <2>5 DEF IInv, LockHeld, RoomsStay, roomVars, Exists
  <2>7. RecordsAccounted'
    <3>1. IsFiniteSet(game_records')
      BY <1>5, FS_AddElement DEF IInv, RecordsAccounted
    <3>2. HasPersisted(t)' /\ call'[t].room = record.room
      BY <2>1 DEF HasPersisted
    <3>3. UNCHANGED room_state
      BY <1>2 DEF roomVars
    <3>4. QED
      BY <1>5, <2>5, <3>1, <3>2, <3>3 DEF IInv, RecordsAccounted
  <2>8. \A other \in game_records : other.room # r
    <3>1. SUFFICES ASSUME NEW other \in game_records, other.room = r PROVE FALSE
      OBVIOUS
    <3>2. room_state[r] # "destroyed"
      BY <1>3 DEF Exists
    <3>3. PICK u \in Threads : HasPersisted(u) /\ call[u].room = r
      BY <3>1, <3>2 DEF IInv, RecordsAccounted
    <3>4. u = t
      BY <1>1, <3>3 DEF IInv, LockHeld, HasPersisted, Inside
    <3>5. QED
      BY <1>1, <3>3, <3>4
  <2>9. SettledOnce'
    BY <1>5, <2>8 DEF IInv, SettledOnce
  <2>10. QED
    BY <2>4, <2>6, <2>7, <2>9 DEF IInv
<1>6. QED
  BY <1>4, <1>5 DEF Persist, StepAfter, InOrder

(* Releasing goes from the first seat to the last and then on.             *)
LEMMA ReleasePreserves ==
  ASSUME IInv, NEW t \in Threads, Release(t)
  PROVE  IInv'
<1> DEFINE r == call[t].room
           i == call[t].next
<1>1. call[t].step = "Release" /\ Inside(t) /\ HasRoom(t)
  BY DEF Release, At, Inside, HasRoom
<1>2. r \in Rooms /\ i \in Seats /\ seats[r][i] \in Players
  BY <1>1, RoomHasPlayers
<1>3. UNCHANGED <<roomVars, storeVars, settling_rooms>>
  BY DEF Release
<1>4. /\ session_room' \in [Players -> Rooms \cup {NoRoom}]
      /\ coin' \in [Players -> Int]
  BY <1>2, StakesAssumption DEF Release, CoinsInLobby, IInv, TypeOK
<1>5. /\ call' \in [Threads -> Calls]
      /\ \A u \in Threads \ {t} : call'[u] = call[u]
      /\ call'[t].room = r
      /\ call'[t].step \in {"Release", "MarkFinished"}
  <2>1. CASE IsLastSeat(i)
    BY <2>1, GoToEffect DEF Release, StepAfter, InOrder, IInv, Steps
  <2>2. CASE ~IsLastSeat(i)
    <3> DEFINE c == [call[t] EXCEPT !.next = i + 1]
    <3>1. i + 1 \in Seats
      BY <1>2, <2>2, SeatsAssumption DEF Seats, IsLastSeat
    <3>2. c \in Calls /\ c.room = r /\ c.step = "Release"
      BY <1>1, <3>1 DEF IInv, TypeOK, Calls
    <3>3. call' = [call EXCEPT ![t] = c]
      BY <2>2 DEF Release
    <3>4. QED
      BY <3>2, <3>3, CallUpdate DEF IInv
  <2>3. QED
    BY <2>1, <2>2
<1>6. TypeOK'
  BY <1>3, <1>4, <1>5 DEF IInv, TypeOK, roomVars, storeVars
<1>7. HasPersisted(t)'
  BY <1>5 DEF HasPersisted
<1>8. LockHeld' /\ RoomsStay' /\ RecordsAccounted' /\ SettledOnce'
  BY <1>1, <1>3, <1>5, <1>7, QuietStep DEF roomVars, storeVars
<1>9. QED
  BY <1>6, <1>8 DEF IInv

(* MarkFinished and DestroyRoom: nobody else is inside with the room whose *)
(* state changes.                                                          *)
LEMMA MarkFinishedPreserves ==
  ASSUME IInv, NEW t \in Threads, MarkFinished(t)
  PROVE  IInv'
<1> DEFINE r == call[t].room
<1>1. call[t].step = "MarkFinished" /\ Inside(t) /\ HasRoom(t)
  BY DEF MarkFinished, At, Inside, HasRoom
<1>2. r \in Rooms /\ Exists(r)
  BY <1>1, RoomHasPlayers DEF IInv, RoomsStay
<1>3. /\ UNCHANGED <<seats, player_to_room, session_room, coin, storeVars, settling_rooms>>
      /\ room_state' = [room_state EXCEPT ![r] = "Finished"]
      /\ GoTo(t, "Destroy")
  BY DEF MarkFinished, StepAfter, InOrder
<1>4. /\ call' \in [Threads -> Calls]
      /\ \A u \in Threads \ {t} : call'[u] = call[u]
      /\ call'[t].room = r /\ call'[t].step = "Destroy"
  BY <1>3, GoToEffect DEF IInv, Steps
<1>5. /\ room_state' \in [Rooms -> RoomStates]
      /\ \A s \in Rooms : Exists(s) => Exists(s)'
      /\ \A s \in Rooms : room_state'[s] # "none" => room_state[s] # "none"
      /\ \A s \in Rooms : room_state[s] = "destroyed" => room_state'[s] = "destroyed"
  BY <1>2, <1>3 DEF IInv, TypeOK, RoomStates, Exists
<1>6. TypeOK'
  BY <1>3, <1>4, <1>5 DEF IInv, TypeOK, storeVars
<1>7. \A u \in Threads : /\ call'[u].room = call[u].room
                         /\ Inside(u)' <=> Inside(u)
                         /\ HasRoom(u)' <=> HasRoom(u)
                         /\ HasPersisted(u) => HasPersisted(u)'
                         /\ call'[u].step = "idle" <=> call[u].step = "idle"
  BY <1>1, <1>4 DEF Inside, HasRoom, HasPersisted
<1>8. LockHeld'
  BY <1>3, <1>7 DEF IInv, LockHeld
<1>9. RoomsStay'
  BY <1>5, <1>7 DEF IInv, RoomsStay, LockHeld, HasRoom
<1>10. RecordsAccounted' /\ SettledOnce'
  <2>1. UNCHANGED game_records /\ \A record \in game_records : record.room \in Rooms
    BY <1>3 DEF storeVars, IInv, TypeOK
  <2>2. QED
    BY <1>5, <1>7, <2>1 DEF IInv, RecordsAccounted, SettledOnce
<1>11. QED
  BY <1>6, <1>8, <1>9, <1>10 DEF IInv

(* Only the one thread inside with the room loses it.                      *)
LEMMA DestroyRoomPreserves ==
  ASSUME IInv, NEW t \in Threads, DestroyRoom(t)
  PROVE  IInv'
<1> DEFINE r == call[t].room
<1>1. call[t].step = "Destroy" /\ Inside(t) /\ HasRoom(t)
  BY DEF DestroyRoom, At, Inside, HasRoom
<1>2. r \in Rooms /\ Exists(r)
  BY <1>1, RoomHasPlayers DEF IInv, RoomsStay
<1>3. /\ UNCHANGED <<seats, session_room, coin, storeVars, settling_rooms>>
      /\ room_state' = [room_state EXCEPT ![r] = "destroyed"]
      /\ GoTo(t, "End")
  BY DEF DestroyRoom, StepAfter, InOrder
<1>4. /\ call' \in [Threads -> Calls]
      /\ \A u \in Threads \ {t} : call'[u] = call[u]
      /\ call'[t].room = r /\ call'[t].step = "End"
  BY <1>3, GoToEffect DEF IInv, Steps
<1>5. /\ room_state' \in [Rooms -> RoomStates]
      /\ \A s \in Rooms \ {r} : room_state'[s] = room_state[s]
      /\ room_state'[r] = "destroyed"
      /\ \A s \in Rooms : room_state'[s] # "none" => room_state[s] # "none"
  BY <1>2, <1>3 DEF IInv, TypeOK, RoomStates, Exists
<1>6. player_to_room' \in [Players -> Rooms \cup {NoRoom}]
  BY DEF DestroyRoom, IInv, TypeOK
<1>7. TypeOK'
  BY <1>3, <1>4, <1>5, <1>6 DEF IInv, TypeOK, storeVars
<1>8. \A u \in Threads : /\ call'[u].room = call[u].room
                         /\ Inside(u)' <=> Inside(u)
                         /\ u # t => (HasRoom(u)' <=> HasRoom(u))
                         /\ u # t => (HasPersisted(u)' <=> HasPersisted(u))
                         /\ call'[u].step = "idle" <=> call[u].step = "idle"
  BY <1>1, <1>4 DEF Inside, HasRoom, HasPersisted
<1>9. LockHeld'
  BY <1>3, <1>8 DEF IInv, LockHeld
<1>10. RoomsStay'
  <2>1. ASSUME NEW u \in Threads, HasRoom(u)' PROVE Exists(call[u].room)'
    <3>1. u # t
      BY <1>4, <2>1 DEF HasRoom
    <3>2. HasRoom(u) /\ Inside(u)
      BY <1>8, <2>1, <3>1 DEF HasRoom, Inside
    <3>3. call[u].room \in Rooms /\ call[u].room # r
      BY <1>1, <3>1, <3>2 DEF IInv, LockHeld, Inside
    <3>4. call'[u].room = call[u].room
      BY <1>8
    <3>5. QED
      BY <1>5, <3>2, <3>3, <3>4 DEF IInv, RoomsStay, Exists
  <2>2. QED
    BY <2>1 DEF RoomsStay
<1>11. RecordsAccounted' /\ SettledOnce'
  <2>1. UNCHANGED game_records /\ \A record \in game_records : record.room \in Rooms
    BY <1>3 DEF storeVars, IInv, TypeOK
  <2>2. QED
    BY <1>5, <1>8, <2>1 DEF IInv, RecordsAccounted, SettledOnce
<1>12. QED
  BY <1>7, <1>9, <1>10, <1>11 DEF IInv

(* When the lock of a room goes, nobody is inside with it.                 *)
LEMMA EndSettlementPreserves ==
  ASSUME IInv, NEW t \in Threads, EndSettlement(t)
  PROVE  IInv'
<1>1. call[t].step = "End" /\ Inside(t) /\ ~HasPersisted(t)
  BY DEF EndSettlement, At, Inside, HasPersisted
<1>2. UNCHANGED <<roomVars, session_room, coin, storeVars>>
  BY DEF EndSettlement
<1>3. settling_rooms' = settling_rooms \ {call[t].room} /\ call' = [call EXCEPT ![t] = Idle]
  BY DEF EndSettlement, StepAfter, InOrder, Finish
<1>4. /\ call' \in [Threads -> Calls]
      /\ \A u \in Threads \ {t} : call'[u] = call[u]
      /\ call'[t].step = "idle"
  BY <1>3, IdleTyped, CallUpdate DEF IInv, Idle
<1>5. TypeOK'
  BY <1>2, <1>3, <1>4 DEF IInv, TypeOK, roomVars, storeVars
<1>6. LockHeld'
  BY <1>1, <1>3, <1>4 DEF IInv, LockHeld, Inside
<1>7. RoomsStay'
  BY <1>2, <1>4 DEF IInv, RoomsStay, HasRoom, Exists, roomVars
<1>8. RecordsAccounted' /\ SettledOnce'
  BY <1>1, <1>2, <1>4
  DEF IInv, RecordsAccounted, SettledOnce, HasPersisted, roomVars, storeVars
<1>9. QED
  BY <1>5, <1>6, <1>7, <1>8 DEF IInv

-----------------------------------------------------------------------------
(* Every step keeps the inductive invariant.                               *)
LEMMA NextPreserves == IInv /\ [Next]_vars => IInv'
<1> SUFFICES ASSUME IInv, [Next]_vars PROVE IInv'
  OBVIOUS
<1>1. CASE \E r \in Rooms, players \in [Seats -> Players] : OpenRoom(r, players)
  BY <1>1, OpenRoomPreserves
<1>2. CASE \E t \in Threads, r \in Rooms, i \in Seats, base_coin \in Stakes :
             GameOver(t, r, i, base_coin)
  BY <1>2, GameOverPreserves
<1>3. CASE \E r \in Rooms, i \in Seats : OfflineLose(r, i)
  BY <1>3, OfflineLosePreserves
<1>4. CASE \E t \in Threads : SettleStep(t)
  <2>1. PICK t \in Threads : SettleStep(t)
    BY <1>4
  <2>2. QED
    BY <2>1, TryBeginPreserves, GetRoomPreserves, ReadCoinsPreserves, PersistPreserves,
       AddCoinsPreserves, ReleasePreserves, MarkFinishedPreserves, DestroyRoomPreserves,
       EndSettlementPreserves
    DEF SettleStep
<1>5. CASE UNCHANGED vars
  BY <1>5
  DEF IInv, TypeOK, LockHeld, RoomsStay, RecordsAccounted, SettledOnce, Inside, HasRoom,
      HasPersisted, Exists, Calls, vars, roomVars, storeVars
<1>6. QED
  BY <1>1, <1>2, <1>3, <1>4, <1>5 DEF Next

(* IInv holds in every state, whichever threads settle which rooms.        *)
THEOREM Invariance == Spec => []IInv
<1>1. QED
  BY InitIInv, NextPreserves, PTL DEF Spec

(* The state always has its type: in particular the loop over the players  *)
(* of a room stays within its seats.                                       *)
THEOREM TypeCorrectness == Spec => []TypeOK
<1>1. IInv => TypeOK
  BY DEF IInv
<1>2. QED
  BY <1>1, Invariance, PTL

(* TryBeginSettlement and EndSettlement enclose enough: however many       *)
(* workers and timer ticks try to settle a room, at once or after one      *)
(* another, its coins are paid and its record is written at most once.     *)
THEOREM NoRoomIsSettledTwice == Spec => []SettledOnce
<1>1. IInv => SettledOnce
  BY DEF IInv
<1>2. QED
  BY <1>1, Invariance, PTL

(* A room that has a record is gone once nobody settles it any more.       *)
THEOREM RecordedRoomsGo == Spec => []RecordedRoomsAreDestroyed
<1>1. IInv => RecordedRoomsAreDestroyed
  BY DEF IInv, RecordsAccounted, LockHeld, RecordedRoomsAreDestroyed, Inside, HasPersisted
<1>2. QED
  BY <1>1, Invariance, PTL

-----------------------------------------------------------------------------
(* Coins in memory and in the store.                                       *)

(* The players of a room are different players; a player in a room has a   *)
(* seat there.                                                             *)
DistinctSeats ==
  \A r \in Rooms : room_state[r] # "none" =>
    \A i, j \in Seats : seats[r][i] = seats[r][j] => i = j

SessionsHaveSeats ==
  \A p \in Players : session_room[p] # NoRoom =>
    /\ room_state[session_room[p]] # "none"
    /\ \E i \in Seats : seats[session_room[p]][i] = p

(* Nobody leaves a room but by Release.                                    *)
Released(t, i) ==
  \/ call[t].step = "Release" /\ i < call[t].next
  \/ call[t].step \in {"MarkFinished", "Destroy"}

PlayersStay ==
  \A r \in Rooms, i \in Seats : Exists(r) =>
    \/ session_room[seats[r][i]] = r
    \/ \E t \in Threads : call[t].room = r /\ Released(t, i)

(* The coins a thread has read are still those of the players, and once    *)
(* they are committed the store is ahead by what AddCoins will add.        *)
CoinsRead ==
  \A t \in Threads, i \in Seats : At(t, "Persist") =>
    call[t].before[i] = coin[seats[call[t].room][i]]

CoinsOwed ==
  \A t \in Threads, i \in Seats : At(t, "AddCoins") =>
    stored_coin[seats[call[t].room][i]] =
      coin[seats[call[t].room][i]] + Delta(call[t], seats[call[t].room][i])

CoinInv ==
  /\ DistinctSeats /\ SessionsHaveSeats /\ PlayersStay
  /\ CoinsRead /\ CoinsOwed /\ StoredCoinIsCoin

(* Before the first room nothing has been stored.                          *)
LEMMA InitCoinInv == Init => CoinInv
<1> SUFFICES ASSUME Init PROVE CoinInv
  OBVIOUS
<1>1. DistinctSeats /\ SessionsHaveSeats /\ PlayersStay
  BY DEF Init, DistinctSeats, SessionsHaveSeats, PlayersStay, Exists
<1>2. CoinsRead /\ CoinsOwed
  BY DEF Init, CoinsRead, CoinsOwed, At, Idle
<1>3. StoredCoinIsCoin
  BY DEF Init, StoredCoinIsCoin
<1>4. QED
  BY <1>1, <1>2, <1>3 DEF CoinInv

(* Until it releases them, the players of a thread's room are in it.       *)
LEMMA OwnPlayers ==
  ASSUME IInv, CoinInv, NEW t \in Threads, HasRoom(t), NEW i \in Seats, ~Released(t, i)
  PROVE  /\ call[t].room \in Rooms /\ call[t].room # NoRoom
         /\ seats[call[t].room][i] \in Players
         /\ session_room[seats[call[t].room][i]] = call[t].room
<1>1. /\ call[t].room \in Rooms /\ seats[call[t].room] \in [Seats -> Players]
      /\ Exists(call[t].room)
  BY RoomHasPlayers DEF IInv, RoomsStay
<1>2. \A u \in Threads : call[u].room = call[t].room /\ Released(u, i) => u = t
  BY DEF IInv, LockHeld, Inside, HasRoom, Released
<1>3. QED
  BY <1>1, <1>2, RoomsAssumption DEF CoinInv, PlayersStay, NoRoom

(* So no two threads that have not released theirs have a player in        *)
(* common.                                                                 *)
LEMMA NoCommonPlayers ==
  ASSUME IInv, CoinInv, NEW t \in Threads, NEW u \in Threads, t # u,
         HasRoom(t), HasRoom(u), NEW i \in Seats, NEW j \in Seats,
         ~Released(t, i), ~Released(u, j)
  PROVE  seats[call[t].room][i] # seats[call[u].room][j]
<1>1. /\ session_room[seats[call[t].room][i]] = call[t].room
      /\ session_room[seats[call[u].room][j]] = call[u].room
  BY OwnPlayers
<1>2. call[t].room # call[u].room
  BY DEF IInv, LockHeld, Inside, HasRoom
<1>3. QED
  BY <1>1, <1>2

(* The record of a thread that goes on differs in its step only.           *)
LEMMA GoToKeeps ==
  ASSUME TypeOK, NEW t \in Threads, NEW step \in Steps, GoTo(t, step)
  PROVE  /\ \A u \in Threads \ {t} : call'[u] = call[u]
         /\ call'[t] = [call[t] EXCEPT !.step = step]
         /\ call'[t].step = step /\ call'[t].room = call[t].room
         /\ call'[t].winner = call[t].winner /\ call'[t].base_coin = call[t].base_coin
         /\ call'[t].before = call[t].before /\ call'[t].next = call[t].next
<1> DEFINE c == [call[t] EXCEPT !.step = step]
<1>1. /\ c \in Calls /\ c.step = step /\ c.room = call[t].room
      /\ c.winner = call[t].winner /\ c.base_coin = call[t].base_coin
      /\ c.before = call[t].before /\ c.next = call[t].next
  BY DEF TypeOK, Calls
<1>2. call' = [call EXCEPT ![t] = c]
  BY DEF GoTo
<1> HIDE DEF c
<1>3. call'[t] = c /\ \A u \in Threads \ {t} : call'[u] = call[u]
  BY <1>1, <1>2, CallUpdate
<1>4. QED
  BY <1>1, <1>3 DEF c

-----------------------------------------------------------------------------
(* Steps without coins: a thread goes on, or a room ends.                  *)
LEMMA NoCoinsMove ==
  ASSUME IInv, CoinInv, NEW t \in Threads,
         UNCHANGED <<seats, session_room, coin, stored_coin>>,
         \A u \in Threads \ {t} : call'[u] = call[u],
         \A r \in Rooms : Exists(r)' => Exists(r),
         \A r \in Rooms : room_state'[r] = "none" <=> room_state[r] = "none",
         \A i \in Seats : Released(t, i) =>
           \/ call'[t].room = call[t].room /\ Released(t, i)'
           \/ room_state'[call[t].room] = "destroyed",
         ~At(t, "AddCoins"), ~At(t, "AddCoins")',
         \A i \in Seats : At(t, "Persist")' =>
           call'[t].before[i] = coin[seats[call'[t].room][i]]
  PROVE  CoinInv'
<1>1. DistinctSeats'
  BY DEF CoinInv, DistinctSeats
<1>2. SessionsHaveSeats'
  BY DEF CoinInv, SessionsHaveSeats, IInv, TypeOK, NoRoom
<1>3. PlayersStay'
  <2>1. SUFFICES ASSUME NEW r \in Rooms, NEW i \in Seats, Exists(r)'
                 PROVE  \/ session_room'[seats'[r][i]] = r
                        \/ \E u \in Threads : call'[u].room = r /\ Released(u, i)'
    BY DEF PlayersStay, Exists
  <2>2. CASE session_room[seats[r][i]] = r
    BY <2>2
  <2>3. CASE \E u \in Threads : call[u].room = r /\ Released(u, i)
    <3>1. PICK u \in Threads : call[u].room = r /\ Released(u, i)
      BY <2>3
    <3>2. CASE u = t
      BY <2>1, <3>1, <3>2 DEF Exists
    <3>3. CASE u # t
      BY <3>1, <3>3 DEF Released
    <3>4. QED
      BY <3>2, <3>3
  <2>4. QED
    BY <2>1, <2>2, <2>3 DEF CoinInv, PlayersStay
<1>4. CoinsRead'
  BY DEF CoinInv, CoinsRead, At
<1>5. CoinsOwed'
  BY DEF CoinInv, CoinsOwed, At, Delta
<1>6. StoredCoinIsCoin'
  <2>1. \A p \in Players : BeingPaid(p) => BeingPaid(p)'
    BY DEF BeingPaid, At
  <2>2. QED
    BY <2>1 DEF CoinInv, StoredCoinIsCoin
<1>7. QED
  BY <1>1, <1>2, <1>3, <1>4, <1>5, <1>6 DEF CoinInv

(* A match takes players who are in no room and gives them one that nobody *)
(* settles.                                                                *)
LEMMA OpenRoomKeepsCoins ==
  ASSUME IInv, CoinInv, NEW r \in Rooms, NEW players \in [Seats -> Players],
         OpenRoom(r, players)
  PROVE  CoinInv'
<1>1. /\ room_state[r] = "none"
      /\ room_state' = [room_state EXCEPT ![r] = "open"]
      /\ seats' = [seats EXCEPT ![r] = players]
      /\ session_room' =
           [p \in Players |-> IF \E i \in Seats : players[i] = p THEN r ELSE session_room[p]]
      /\ \A i, j \in Seats : players[i] = players[j] => i = j
      /\ \A i \in Seats : session_room[players[i]] = NoRoom
      /\ UNCHANGED <<coin, stored_coin, call>>
  BY DEF OpenRoom, storeVars
<1>2. /\ room_state' \in [Rooms -> RoomStates] /\ room_state'[r] = "open" /\ seats'[r] = players
      /\ \A s \in Rooms \ {r} : seats'[s] = seats[s] /\ room_state'[s] = room_state[s]
      /\ r # NoRoom
  BY <1>1, RoomsAssumption DEF IInv, TypeOK, RoomStates, NoRoom
<1>3. DistinctSeats'
  <2>1. ASSUME NEW s \in Rooms, s # r, room_state'[s] # "none"
        PROVE  \A i, j \in Seats : seats'[s][i] = seats'[s][j] => i = j
    BY <1>2, <2>1 DEF CoinInv, DistinctSeats
  <2>2. QED
    BY <1>1, <1>2, <2>1 DEF DistinctSeats
<1>4. SessionsHaveSeats'
  <2>1. SUFFICES ASSUME NEW p \in Players, session_room'[p] # NoRoom
                 PROVE  /\ room_state'[session_room'[p]] # "none"
                        /\ \E i \in Seats : seats'[session_room'[p]][i] = p
    BY DEF SessionsHaveSeats
  <2>2. CASE \E i \in Seats : players[i] = p
    BY <1>1, <1>2, <2>2
  <2>3. CASE ~\E i \in Seats : players[i] = p
    <3>1. session_room'[p] = session_room[p] /\ session_room[p] \in Rooms
      BY <1>1, <2>1, <2>3 DEF IInv, TypeOK
    <3>2. session_room[p] # r
      BY <1>1, <2>1, <3>1 DEF CoinInv, SessionsHaveSeats
    <3>3. QED
      BY <1>2, <2>1, <3>1, <3>2 DEF CoinInv, SessionsHaveSeats
  <2>4. QED
    BY <2>2, <2>3
<1>5. PlayersStay'
  <2>1. SUFFICES ASSUME NEW s \in Rooms, NEW i \in Seats, Exists(s)'
                 PROVE  \/ session_room'[seats'[s][i]] = s
                        \/ \E t \in Threads : call'[t].room = s /\ Released(t, i)'
    BY DEF PlayersStay, Exists
  <2>2. CASE s = r
    BY <1>1, <1>2, <2>2
  <2>3. CASE s # r
    <3>1. Exists(s) /\ seats'[s] = seats[s] /\ seats[s] \in [Seats -> Players] /\ s # NoRoom
      BY <1>2, <2>1, <2>3, RoomsAssumption DEF Exists, IInv, TypeOK, NoRoom
    <3>2. CASE session_room[seats[s][i]] = s
      BY <1>1, <3>1, <3>2
    <3>3. CASE \E t \in Threads : call[t].room = s /\ Released(t, i)
      BY <1>1, <3>3 DEF Released
    <3>4. QED
      BY <3>1, <3>2, <3>3 DEF CoinInv, PlayersStay
  <2>4. QED
    BY <2>2, <2>3
<1>6. \A t \in Threads : HasRoom(t) => call[t].room \in Rooms \ {r}
  <2>1. ASSUME NEW t \in Threads, HasRoom(t) PROVE call[t].room \in Rooms /\ Exists(call[t].room)
    BY <2>1, RoomHasPlayers DEF IInv, RoomsStay
  <2>2. QED
    BY <1>1, <2>1 DEF Exists
<1>7. CoinsRead' /\ CoinsOwed'
  <2>1. \A t \in Threads : At(t, "Persist") \/ At(t, "AddCoins") =>
          seats'[call[t].room] = seats[call[t].room]
    BY <1>2, <1>6 DEF At, HasRoom
  <2>2. QED
    BY <1>1, <2>1 DEF CoinInv, CoinsRead, CoinsOwed, At, Delta
<1>8. StoredCoinIsCoin'
  <2>1. ASSUME NEW p \in Players, BeingPaid(p) PROVE BeingPaid(p)'
    <3>1. PICK t \in Threads : At(t, "AddCoins") /\ session_room[p] = call[t].room
      BY <2>1 DEF BeingPaid
    <3>2. session_room[p] # NoRoom
      BY <1>6, <3>1, RoomsAssumption DEF At, HasRoom, NoRoom
    <3>3. session_room'[p] = session_room[p]
      BY <1>1, <3>2
    <3>4. QED
      BY <1>1, <3>1, <3>3 DEF BeingPaid, At
  <2>2. QED
    BY <1>1, <2>1 DEF CoinInv, StoredCoinIsCoin
<1>9. QED
  BY <1>3, <1>4, <1>5, <1>7, <1>8 DEF CoinInv

(* The commit: the players of the room are being paid from now on, and the *)
(* store is ahead by what they are paid.                                   *)
LEMMA CommitKeepsCoins ==
  ASSUME IInv, CoinInv, NEW t \in Threads, Persist(t), GoTo(t, "AddCoins"),
         stored_coin' =
           [p \in Players |->
              IF \E i \in Seats : seats[call[t].room][i] = p
              THEN call[t].before[CHOOSE i \in Seats : seats[call[t].room][i] = p]
                     + Delta(call[t], p)
              ELSE stored_coin[p]]
  PROVE  CoinInv'
<1> DEFINE r == call[t].room
<1>1. /\ call[t].step = "Persist" /\ HasRoom(t) /\ \A i \in Seats : ~Released(t, i)
      /\ UNCHANGED <<room_state, seats, session_room, coin>>
  BY DEF Persist, At, HasRoom, Released, roomVars
<1>2. /\ r \in Rooms /\ seats[r] \in [Seats -> Players] /\ Exists(r)
      /\ \A i \in Seats : session_room[seats[r][i]] = r
  BY <1>1, RoomHasPlayers, OwnPlayers DEF IInv, RoomsStay
<1>3. /\ \A u \in Threads \ {t} : call'[u] = call[u]
      /\ call'[t].step = "AddCoins" /\ call'[t].room = r
      /\ call'[t].winner = call[t].winner /\ call'[t].base_coin = call[t].base_coin
  BY GoToKeeps DEF IInv, Steps
<1>4. \A i, j \in Seats : seats[r][i] = seats[r][j] => i = j
  BY <1>2 DEF CoinInv, DistinctSeats, Exists
<1>5. \A i \in Seats :
        stored_coin'[seats[r][i]] = coin[seats[r][i]] + Delta(call[t], seats[r][i])
  <2>1. SUFFICES ASSUME NEW i \in Seats
                 PROVE stored_coin'[seats[r][i]] = coin[seats[r][i]] + Delta(call[t], seats[r][i])
    OBVIOUS
  <2>2. (CHOOSE j \in Seats : seats[r][j] = seats[r][i]) = i
    BY <1>4
  <2>3. call[t].before[i] = coin[seats[r][i]]
    BY <1>1 DEF CoinInv, CoinsRead, At
  <2>4. seats[r][i] \in Players
    BY <1>2
  <2>5. QED
    BY <2>2, <2>3, <2>4
<1>6. \A p \in Players : ~(\E i \in Seats : seats[r][i] = p) => stored_coin'[p] = stored_coin[p]
  OBVIOUS
<1>7. DistinctSeats' /\ SessionsHaveSeats'
  BY <1>1 DEF CoinInv, DistinctSeats, SessionsHaveSeats
<1>8. PlayersStay'
  <2>1. \A u \in Threads, i \in Seats : Released(u, i) => Released(u, i)' /\ call'[u].room = call[u].room
    BY <1>1, <1>3 DEF Released
  <2>2. QED
    BY <1>1, <2>1 DEF CoinInv, PlayersStay, Exists
<1>9. CoinsRead'
  BY <1>1, <1>3 DEF CoinInv, CoinsRead, At
<1>10. CoinsOwed'
  <2>1. SUFFICES ASSUME NEW u \in Threads, NEW i \in Seats, At(u, "AddCoins")'
                 PROVE  stored_coin'[seats'[call'[u].room][i]] =
                          coin'[seats'[call'[u].room][i]]
                            + Delta(call'[u], seats'[call'[u].room][i])
    BY DEF CoinsOwed, At
  <2>2. CASE u = t
    <3>1. \A p \in Players : Delta(call'[t], p) = Delta(call[t], p)
      BY <1>3 DEF Delta
    <3>2. /\ call'[u].room = r /\ seats'[r][i] = seats[r][i]
          /\ coin'[seats[r][i]] = coin[seats[r][i]] /\ seats[r][i] \in Players
      BY <1>1, <1>2, <1>3, <2>2
    <3>3. stored_coin'[seats[r][i]] = coin[seats[r][i]] + Delta(call[t], seats[r][i])
      BY <1>5
    <3>4. QED
      BY <2>2, <3>1, <3>2, <3>3
  <2>3. CASE u # t
    <3>1. /\ call'[u] = call[u] /\ At(u, "AddCoins") /\ HasRoom(u)
          /\ \A j \in Seats : ~Released(u, j)
      BY <1>3, <2>1, <2>3 DEF At, HasRoom, Released
    <3>2. seats[call[u].room][i] \in Players
      BY <3>1, OwnPlayers
    <3>3. \A j \in Seats : seats[r][j] # seats[call[u].room][i]
      BY <1>1, <2>3, <3>1, NoCommonPlayers
    <3>4. QED
      BY <1>1, <1>6, <3>1, <3>2, <3>3 DEF CoinInv, CoinsOwed
  <2>4. QED
    BY <2>2, <2>3
<1>11. StoredCoinIsCoin'
  <2>1. SUFFICES ASSUME NEW p \in Players
                 PROVE  \/ stored_coin'[p] \in {coin'[p], NoRow}
                        \/ stored_coin'[p] = 0 /\ coin'[p] = StartCoin
                        \/ BeingPaid(p)'
    BY DEF StoredCoinIsCoin
  <2>2. CASE \E i \in Seats : seats[r][i] = p
    BY <1>1, <1>2, <1>3, <2>2 DEF BeingPaid, At
  <2>3. CASE ~\E i \in Seats : seats[r][i] = p
    <3>1. stored_coin'[p] = stored_coin[p]
      BY <1>6, <2>3
    <3>2. BeingPaid(p) => BeingPaid(p)'
      BY <1>1, <1>3 DEF BeingPaid, At
    <3>3. QED
      BY <1>1, <3>1, <3>2 DEF CoinInv, StoredCoinIsCoin
  <2>4. QED
    BY <2>2, <2>3
<1>12. QED
  BY <1>7, <1>8, <1>9, <1>10, <1>11 DEF CoinInv

(* Paying makes the coins in memory those in the store.                    *)
LEMMA PayingKeepsCoins ==
  ASSUME IInv, CoinInv, NEW t \in Threads, AddCoins(t)
  PROVE  CoinInv'
<1> DEFINE r == call[t].room
<1>1. /\ call[t].step = "AddCoins" /\ HasRoom(t) /\ \A i \in Seats : ~Released(t, i)
      /\ UNCHANGED <<room_state, seats, session_room, stored_coin>>
      /\ GoTo(t, "Release")
  BY DEF AddCoins, At, HasRoom, Released, roomVars, storeVars, StepAfter, InOrder
<1>2. coin' = [p \in Players |-> IF \E i \in Seats : seats[r][i] = p
                                 THEN coin[p] + Delta(call[t], p) ELSE coin[p]]
  BY DEF AddCoins
<1>3. /\ r \in Rooms /\ r # NoRoom /\ seats[r] \in [Seats -> Players]
      /\ \A i \in Seats : session_room[seats[r][i]] = r
  BY <1>1, RoomHasPlayers, OwnPlayers, RoomsAssumption DEF NoRoom
<1>4. /\ \A u \in Threads \ {t} : call'[u] = call[u]
      /\ call'[t].step = "Release" /\ call'[t].room = r
  BY <1>1, GoToKeeps DEF IInv, Steps
<1>5. \A p \in Players : ~(\E i \in Seats : seats[r][i] = p) => coin'[p] = coin[p]
  BY <1>2
<1>6. DistinctSeats' /\ SessionsHaveSeats'
  BY <1>1 DEF CoinInv, DistinctSeats, SessionsHaveSeats
<1>7. PlayersStay'
  <2>1. \A u \in Threads, i \in Seats : Released(u, i) => Released(u, i)' /\ call'[u].room = call[u].room
    BY <1>1, <1>4 DEF Released
  <2>2. QED
    BY <1>1, <2>1 DEF CoinInv, PlayersStay, Exists
<1>8. ASSUME NEW u \in Threads, NEW i \in Seats, At(u, "Persist")' \/ At(u, "AddCoins")'
      PROVE  /\ u # t /\ call'[u] = call[u]
             /\ coin'[seats[call[u].room][i]] = coin[seats[call[u].room][i]]
  <2>1. u # t /\ call'[u] = call[u]
    BY <1>4, <1>8 DEF At
  <2>2. HasRoom(u) /\ \A j \in Seats : ~Released(u, j)
    BY <1>8, <2>1 DEF At, HasRoom, Released
  <2>3. seats[call[u].room][i] \in Players
    BY <2>2, OwnPlayers
  <2>4. \A j \in Seats : seats[r][j] # seats[call[u].room][i]
    BY <1>1, <2>1, <2>2, NoCommonPlayers
  <2>5. QED
    BY <1>5, <2>1, <2>3, <2>4
<1>9. CoinsRead' /\ CoinsOwed'
  BY <1>1, <1>8 DEF CoinInv, CoinsRead, CoinsOwed, At
<1>10. StoredCoinIsCoin'
  <2>1. SUFFICES ASSUME NEW p \in Players
                 PROVE  \/ stored_coin'[p] \in {coin'[p], NoRow}
                        \/ stored_coin'[p] = 0 /\ coin'[p] = StartCoin
                        \/ BeingPaid(p)'
    BY DEF StoredCoinIsCoin
  <2>2. CASE \E i \in Seats : seats[r][i] = p
    <3>1. PICK i \in Seats : seats[r][i] = p
      BY <2>2
    <3>2. stored_coin[p] = coin[p] + Delta(call[t], p)
      BY <1>1, <3>1 DEF CoinInv, CoinsOwed, At
    <3>3. coin'[p] = coin[p] + Delta(call[t], p)
      BY <1>2, <2>2
    <3>4. QED
      BY <1>1, <3>2, <3>3
  <2>3. CASE ~\E i \in Seats : seats[r][i] = p
    <3>1. coin'[p] = coin[p]
      BY <1>5, <2>3
    <3>2. session_room[p] # r
      BY <1>3, <2>3 DEF CoinInv, SessionsHaveSeats
    <3>3. BeingPaid(p) => BeingPaid(p)'
      BY <1>1, <1>4, <3>2 DEF BeingPaid, At
    <3>4. QED
      BY <1>1, <3>1, <3>3 DEF CoinInv, StoredCoinIsCoin
  <2>4. QED
    BY <2>2, <2>3
<1>11. QED
  BY <1>6, <1>7, <1>9, <1>10 DEF CoinInv

(* A player who is released is the thread's own and is not being paid; his *)
(* new start, if he has no coins, is what the property allows.             *)
LEMMA ReleaseKeepsCoins ==
  ASSUME IInv, CoinInv, NEW t \in Threads, Release(t)
  PROVE  CoinInv'
<1> DEFINE r == call[t].room
           n == call[t].next
           p == seats[r][n]
<1>1. /\ call[t].step = "Release" /\ HasRoom(t)
      /\ UNCHANGED <<room_state, seats, stored_coin>>
      /\ session_room' = [session_room EXCEPT ![p] = NoRoom]
      /\ coin' = [coin EXCEPT ![p] = CoinsInLobby(coin[p])]
  BY DEF Release, At, HasRoom, roomVars, storeVars
<1>2. n \in Seats /\ n \in 1..NumSeats /\ NumSeats \in Nat
  BY <1>1, RoomHasPlayers, SeatsAssumption DEF Seats
<1>3. ~Released(t, n)
  BY <1>1, <1>2 DEF Released
<1>4. /\ r \in Rooms /\ r # NoRoom /\ seats[r] \in [Seats -> Players]
      /\ p \in Players /\ session_room[p] = r /\ Exists(r)
  BY <1>1, <1>2, <1>3, RoomHasPlayers, OwnPlayers DEF IInv, RoomsStay
<1>5. /\ \A u \in Threads \ {t} : call'[u] = call[u]
      /\ call'[t].room = r
      /\ \/ call'[t].step = "MarkFinished"
         \/ call'[t].step = "Release" /\ call'[t].next = n + 1
  <2>1. CASE IsLastSeat(n)
    BY <2>1, GoToKeeps DEF Release, StepAfter, InOrder, IInv, Steps
  <2>2. CASE ~IsLastSeat(n)
    <3> DEFINE c == [call[t] EXCEPT !.next = n + 1]
    <3>1. n + 1 \in Seats
      BY <1>2, <2>2 DEF Seats, IsLastSeat
    <3>2. c \in Calls /\ c.room = r /\ c.step = "Release" /\ c.next = n + 1
      BY <1>1, <3>1 DEF IInv, TypeOK, Calls
    <3>3. call' = [call EXCEPT ![t] = c]
      BY <2>2 DEF Release
    <3>4. QED
      BY <3>2, <3>3, CallUpdate DEF IInv
  <2>3. QED
    BY <2>1, <2>2
<1>6. /\ session_room' \in [Players -> Rooms \cup {NoRoom}]
      /\ session_room'[p] = NoRoom
      /\ \A q \in Players \ {p} : session_room'[q] = session_room[q] /\ coin'[q] = coin[q]
  BY <1>1, <1>4 DEF IInv, TypeOK
<1>7. DistinctSeats'
  BY <1>1 DEF CoinInv, DistinctSeats
<1>8. SessionsHaveSeats'
  BY <1>1, <1>6 DEF CoinInv, SessionsHaveSeats
<1>9. \A u \in Threads, i \in Seats :
        Released(u, i) => Released(u, i)' /\ call'[u].room = call[u].room
  <2>1. SUFFICES ASSUME NEW i \in Seats, Released(t, i) PROVE Released(t, i)'
    BY <1>5 DEF Released
  <2>2. i < n /\ i \in Nat
    BY <1>1, <2>1 DEF Released, Seats
  <2>3. QED
    BY <1>2, <1>5, <2>2 DEF Released
<1>10. PlayersStay'
  <2>1. SUFFICES ASSUME NEW s \in Rooms, NEW i \in Seats, Exists(s)'
                 PROVE  \/ session_room'[seats'[s][i]] = s
                        \/ \E u \in Threads : call'[u].room = s /\ Released(u, i)'
    BY DEF PlayersStay, Exists
  <2>2. Exists(s) /\ seats[s] \in [Seats -> Players]
    BY <1>1, <2>1 DEF Exists, IInv, TypeOK
  <2>3. CASE \E u \in Threads : call[u].room = s /\ Released(u, i)
    BY <1>9, <2>3
  <2>4. CASE session_room[seats[s][i]] = s /\ seats[s][i] # p
    BY <1>1, <1>6, <2>2, <2>4
  <2>5. CASE session_room[seats[s][i]] = s /\ seats[s][i] = p
    <3>1. s = r
      BY <1>4, <2>5
    <3>2. i = n
      BY <1>2, <1>4, <2>5, <3>1 DEF CoinInv, DistinctSeats, Exists
    <3>3. Released(t, i)'
      BY <1>2, <1>5, <3>2 DEF Released
    <3>4. QED
      BY <1>5, <3>1, <3>3
  <2>6. QED
    BY <2>2, <2>3, <2>4, <2>5 DEF CoinInv, PlayersStay
<1>11. ASSUME NEW u \in Threads, NEW i \in Seats, At(u, "Persist")' \/ At(u, "AddCoins")'
       PROVE  /\ u # t /\ call'[u] = call[u]
              /\ coin'[seats[call[u].room][i]] = coin[seats[call[u].room][i]]
  <2>1. u # t /\ call'[u] = call[u]
    BY <1>5, <1>11 DEF At
  <2>2. HasRoom(u) /\ ~Released(u, i)
    BY <1>11, <2>1 DEF At, HasRoom, Released
  <2>3. seats[call[u].room][i] \in Players
    BY <2>2, OwnPlayers
  <2>4. p # seats[call[u].room][i]
    BY <1>1, <1>2, <1>3, <2>1, <2>2, NoCommonPlayers
  <2>5. QED
    BY <1>6, <2>1, <2>3, <2>4
<1>12. CoinsRead' /\ CoinsOwed'
  BY <1>1, <1>11 DEF CoinInv, CoinsRead, CoinsOwed, At
<1>13. StoredCoinIsCoin'
  <2>1. SUFFICES ASSUME NEW q \in Players
                 PROVE  \/ stored_coin'[q] \in {coin'[q], NoRow}
                        \/ stored_coin'[q] = 0 /\ coin'[q] = StartCoin
                        \/ BeingPaid(q)'
    BY DEF StoredCoinIsCoin
  <2>2. CASE q = p
    <3>1. ~BeingPaid(p)
      BY <1>1, <1>4 DEF BeingPaid, At, HasRoom, IInv, LockHeld, Inside
    <3>2. \/ stored_coin[p] \in {coin[p], NoRow}
          \/ stored_coin[p] = 0 /\ coin[p] = StartCoin
      BY <1>4, <3>1 DEF CoinInv, StoredCoinIsCoin
    <3>3. coin'[p] = IF coin[p] = 0 THEN StartCoin ELSE coin[p]
      BY <1>1, <1>4 DEF CoinsInLobby, IInv, TypeOK
    <3>4. QED
      BY <1>1, <2>2, <3>2, <3>3
  <2>3. CASE q # p
    <3>1. session_room'[q] = session_room[q] /\ coin'[q] = coin[q]
      BY <1>6, <2>3
    <3>2. BeingPaid(q) => BeingPaid(q)'
      BY <1>1, <1>5, <3>1 DEF BeingPaid, At
    <3>3. QED
      BY <1>1, <3>1, <3>2 DEF CoinInv, StoredCoinIsCoin
  <2>4. QED
    BY <2>2, <2>3
<1>14. QED
  BY <1>7, <1>8, <1>10, <1>12, <1>13 DEF CoinInv

(* Calling SettleByServerResult, whoever does and for whatever room, moves *)
(* no coins.                                                               *)
LEMMA CallingMovesNoCoins ==
  ASSUME IInv, CoinInv, NEW t \in Threads, NEW r, NEW winner, NEW base_coin,
         Call(t, r, winner, base_coin), UNCHANGED <<seats, session_room, coin, stored_coin>>,
         \A s \in Rooms : Exists(s)' => Exists(s),
         \A s \in Rooms : room_state'[s] = "none" <=> room_state[s] = "none"
  PROVE  CoinInv'
<1>1. /\ call[t].step = "idle" /\ \A u \in Threads \ {t} : call'[u] = call[u]
      /\ call'[t].step = "TryBegin"
  BY DEF Call, Idle, IInv, TypeOK
<1>2. QED
  BY <1>1, NoCoinsMove DEF Released, At

(* Neither does entering or leaving, let in or not, ...                    *)
LEMMA EnteringMovesNoCoins ==
  ASSUME IInv, CoinInv, NEW t \in Threads, TryBeginSettlement(t) \/ EndSettlement(t)
  PROVE  CoinInv'
<1>1. UNCHANGED <<room_state, seats, session_room, coin, stored_coin>>
  BY DEF TryBeginSettlement, EndSettlement, roomVars, storeVars
<1>2. call[t].step \in {"TryBegin", "End"}
  BY DEF TryBeginSettlement, EndSettlement, At
<1>3. /\ \A u \in Threads \ {t} : call'[u] = call[u]
      /\ call'[t].step \in {"idle", "GetRoom"}
  BY DEF TryBeginSettlement, EndSettlement, Finish, GoTo, StepAfter, InOrder, Idle, IInv, TypeOK,
         Calls
<1>4. \A s \in Rooms : Exists(s)' => Exists(s)
  BY <1>1 DEF Exists
<1>5. QED
  BY <1>1, <1>2, <1>3, <1>4, NoCoinsMove DEF Released, At

(* ... finding the room, or finding none, ...                              *)
LEMMA FindingMovesNoCoins ==
  ASSUME IInv, CoinInv, NEW t \in Threads, GetRoom(t)
  PROVE  CoinInv'
<1>1. /\ call[t].step = "GetRoom" /\ call[t].room \in Rooms
      /\ UNCHANGED <<seats, session_room, coin, stored_coin>>
  BY DEF GetRoom, At, storeVars, IInv, LockHeld
<1>2. /\ \A u \in Threads \ {t} : call'[u] = call[u]
      /\ call'[t].step \in {"ReadCoins", "End"}
  BY DEF GetRoom, GoTo, Break, StepAfter, InOrder, IInv, TypeOK, Calls
<1>3. /\ \A s \in Rooms : Exists(s)' => Exists(s)
      /\ \A s \in Rooms : room_state'[s] = "none" <=> room_state[s] = "none"
  BY <1>1 DEF GetRoom, Exists, IInv, TypeOK
<1>4. QED
  BY <1>1, <1>2, <1>3, NoCoinsMove DEF Released, At

(* ... and reading the coins, which makes the thread's copy that of the    *)
(* players.                                                                *)
LEMMA ReadingMovesNoCoins ==
  ASSUME IInv, CoinInv, NEW t \in Threads, ReadCoins(t)
  PROVE  CoinInv'
<1> DEFINE before == [i \in Seats |-> coin[seats[call[t].room][i]]]
<1>1. /\ call[t].step = "ReadCoins" /\ HasRoom(t)
      /\ UNCHANGED <<room_state, seats, session_room, coin, stored_coin>>
  BY DEF ReadCoins, At, HasRoom, roomVars, storeVars
<1>2. before \in [Seats -> Int]
  BY <1>1, RoomHasPlayers DEF IInv, TypeOK
<1>3. call' = [call EXCEPT ![t].step = "Persist", ![t].before = before]
  BY DEF ReadCoins, StepAfter, InOrder
<1>4. /\ \A u \in Threads \ {t} : call'[u] = call[u]
      /\ call'[t].step = "Persist" /\ call'[t].room = call[t].room
      /\ call'[t].before = before
  <2> DEFINE c == [call[t] EXCEPT !.step = "Persist", !.before = before]
  <2>1. /\ c \in Calls /\ c.step = "Persist" /\ c.room = call[t].room /\ c.before = before
    BY <1>2 DEF IInv, TypeOK, Calls, Steps
  <2>2. call' = [call EXCEPT ![t] = c]
    BY <1>3 DEF IInv, TypeOK
  <2>3. QED
    BY <2>1, <2>2, CallUpdate DEF IInv
<1>5. \A s \in Rooms : Exists(s)' => Exists(s)
  BY <1>1 DEF Exists
<1>6. QED
  BY <1>1, <1>4, <1>5, NoCoinsMove DEF Released, At

(* A transaction that fails leaves everything, and one that is committed   *)
(* makes the thread the one who pays.                                      *)
LEMMA PersistKeepsCoins ==
  ASSUME IInv, CoinInv, NEW t \in Threads, Persist(t)
  PROVE  CoinInv'
<1>1. CASE GoTo(t, Break) /\ UNCHANGED <<stored_coin, game_records>>
  <2>1. /\ call[t].step = "Persist"
        /\ UNCHANGED <<room_state, seats, session_room, coin, stored_coin>>
    BY <1>1 DEF Persist, At, roomVars
  <2>2. /\ \A u \in Threads \ {t} : call'[u] = call[u]
        /\ call'[t].step = "End"
    BY <1>1, GoToKeeps DEF IInv, Break, Steps
  <2>3. \A s \in Rooms : Exists(s)' => Exists(s)
    BY <2>1 DEF Exists
  <2>4. QED
    BY <2>1, <2>2, <2>3, NoCoinsMove DEF Released, At
<1>2. CASE /\ GoTo(t, "AddCoins")
           /\ stored_coin' =
                [p \in Players |->
                   IF \E i \in Seats : seats[call[t].room][i] = p
                   THEN call[t].before[CHOOSE i \in Seats : seats[call[t].room][i] = p]
                          + Delta(call[t], p)
                   ELSE stored_coin[p]]
  BY <1>2, CommitKeepsCoins
<1>3. QED
  BY <1>1, <1>2 DEF Persist, StepAfter, InOrder

(* A room that is finished or destroyed takes no coins with it.            *)
LEMMA EndingMovesNoCoins ==
  ASSUME IInv, CoinInv, NEW t \in Threads, MarkFinished(t) \/ DestroyRoom(t)
  PROVE  CoinInv'
<1> DEFINE r == call[t].room
<1>1. /\ call[t].step \in {"MarkFinished", "Destroy"} /\ HasRoom(t)
      /\ UNCHANGED <<seats, session_room, coin, stored_coin>>
  BY DEF MarkFinished, DestroyRoom, At, HasRoom, storeVars
<1>2. r \in Rooms /\ Exists(r)
  BY <1>1, RoomHasPlayers DEF IInv, RoomsStay
<1>3. /\ \A u \in Threads \ {t} : call'[u] = call[u]
      /\ call'[t].room = r
      /\ \/ room_state' = [room_state EXCEPT ![r] = "Finished"] /\ call'[t].step = "Destroy"
         \/ room_state' = [room_state EXCEPT ![r] = "destroyed"] /\ call'[t].step = "End"
  BY GoToKeeps DEF MarkFinished, DestroyRoom, StepAfter, InOrder, IInv, Steps
<1>4. /\ \A s \in Rooms : Exists(s)' => Exists(s)
      /\ \A s \in Rooms : room_state'[s] = "none" <=> room_state[s] = "none"
      /\ call'[t].step = "End" => room_state'[r] = "destroyed"
  BY <1>2, <1>3 DEF Exists, IInv, TypeOK
<1>5. \A i \in Seats : Released(t, i)' \/ room_state'[r] = "destroyed"
  BY <1>3, <1>4 DEF Released
<1>6. QED
  BY <1>1, <1>3, <1>4, <1>5, NoCoinsMove DEF At

(* Every step keeps the coins in step with the store.                      *)
LEMMA NextKeepsCoins == IInv /\ CoinInv /\ [Next]_vars => CoinInv'
<1> SUFFICES ASSUME IInv, CoinInv, [Next]_vars PROVE CoinInv'
  OBVIOUS
<1>1. CASE \E r \in Rooms, players \in [Seats -> Players] : OpenRoom(r, players)
  BY <1>1, OpenRoomKeepsCoins
<1>2. ASSUME NEW t \in Threads, NEW r \in Rooms, NEW i \in Seats, NEW base_coin \in Stakes,
             GameOver(t, r, i, base_coin)
      PROVE  CoinInv'
  <2>1. /\ \A s \in Rooms : Exists(s)' => Exists(s)
        /\ \A s \in Rooms : room_state'[s] = "none" <=> room_state[s] = "none"
    BY <1>2 DEF GameOver, Exists, IInv, TypeOK
  <2>2. QED
    BY <1>2, <2>1, CallingMovesNoCoins DEF GameOver, storeVars
<1>3. ASSUME NEW r \in Rooms, NEW i \in Seats, OfflineLose(r, i)
      PROVE  CoinInv'
  <2>1. Timer \in Threads
    BY DEF Threads
  <2>2. UNCHANGED room_state /\ \A s \in Rooms : Exists(s)' => Exists(s)
    BY <1>3 DEF OfflineLose, roomVars, Exists
  <2>3. QED
    BY <1>3, <2>1, <2>2, CallingMovesNoCoins DEF OfflineLose, roomVars, storeVars
<1>4. ASSUME NEW t \in Threads, SettleStep(t) PROVE CoinInv'
  BY <1>4, EnteringMovesNoCoins, FindingMovesNoCoins, ReadingMovesNoCoins, PersistKeepsCoins,
     PayingKeepsCoins, ReleaseKeepsCoins, EndingMovesNoCoins
  DEF SettleStep
<1>5. CASE UNCHANGED vars
  BY <1>5
  DEF CoinInv, DistinctSeats, SessionsHaveSeats, PlayersStay, CoinsRead, CoinsOwed,
      StoredCoinIsCoin, BeingPaid, At, Released, Exists, Delta, vars, roomVars, storeVars
<1>6. QED
  BY <1>1, <1>2, <1>3, <1>4, <1>5 DEF Next

(* What the store has for a player is what the server has for him, unless  *)
(* the thread that has committed is about to pay him: no other settlement, *)
(* match or release gets between the read of the coins, the commit and the *)
(* payment.  The one exception is the new start of a player without coins. *)
THEOREM StoreAndMemoryAgree == Spec => []StoredCoinIsCoin
<1>1. Init => IInv /\ CoinInv
  BY InitIInv, InitCoinInv
<1>2. IInv /\ CoinInv /\ [Next]_vars => (IInv /\ CoinInv)'
  BY NextPreserves, NextKeepsCoins
<1>3. IInv /\ CoinInv => StoredCoinIsCoin
  BY DEF CoinInv
<1>4. QED
  BY <1>1, <1>2, <1>3, PTL DEF Spec
=============================================================================
