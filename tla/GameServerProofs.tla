------------------------- MODULE GameServerProofs -------------------------
(***************************************************************************)
(* Theorems about GameServer, for every set of players, connections, rooms *)
(* and threads: a connection speaks for the session that names it, a       *)
(* session names a room that exists, and, when players wait for their      *)
(* answers, nobody is Matching without being in the queue or in the hands  *)
(* of a thread.                                                            *)
(***************************************************************************)
EXTENDS GameServer, FiniteSetTheorems, SequenceTheorems, TLAPS

SeatingSteps == {"SetRoomId", "ForceInRoom"}
SettlingSteps == {"ClearRoomId", "Release", "DestroyRoom"}
FormingSteps == {"CheckLobby", "Join", "SetMatching", "TryPop", "CreateRoom"}

(* Only the timer's loops and a settlement serve nobody in particular.     *)
ServesPlayers ==
  \A t \in Threads :
    /\ call[t].step \notin SettlingSteps \cup {"idle", "CheckTimedOut", "ForceTimedOut"} =>
         call[t].player \in Players
    /\ call[t].step \in LostSteps => call[t].conn \in Conns

(* A match is formed by a worker, from the first player on.                *)
Forming ==
  /\ call[Timer].step \notin MatchSteps
  /\ \A t \in Threads : call[t].step \in FormingSteps => call[t].next = 1
  /\ \A t \in Threads : call[t].step = "CreateRoom" => call[t].players # <<>>

(* While players are being seated their room is open.                      *)
Seating ==
  \A t \in Threads : call[t].step \in SeatingSteps =>
    /\ call[t].room \in Rooms
    /\ room_state[call[t].room] = "open"
    /\ seats[call[t].room] = call[t].players
    /\ call[t].next \in DOMAIN call[t].players

(* The session of the i-th player has been reset.                          *)
Cleared(t, i) ==
  \/ i < call[t].next
  \/ call[t].step = "Release" /\ i = call[t].next
  \/ call[t].step = "DestroyRoom"

(* One thread settles a room, and the players behind it have left it.      *)
Settling ==
  /\ \A t \in Threads : call[t].step \in SettlingSteps =>
       /\ call[t].room \in Rooms
       /\ room_state[call[t].room] = "settling"
       /\ seats[call[t].room] = call[t].players
       /\ \A i \in DOMAIN call[t].players :
            Cleared(t, i) => session_room[call[t].players[i]] # call[t].room
  /\ \A t, u \in Threads :
       /\ call[t].step \in SettlingSteps
       /\ call[u].step \in SettlingSteps
       /\ call[t].room = call[u].room
       => t = u

RoomInv == Forming /\ Seating /\ Settling /\ SessionsNameTheirRoom

IInv == TypeOK /\ ServesPlayers /\ ConnectionsSpeakForSessions /\ RoomInv
-----------------------------------------------------------------------------
(* How the records of the threads change.                                  *)

LEMMA IdleTyped ==
  Idle \in Calls
BY DEF Idle, Calls, Steps

(* A new record for one thread.                                            *)
LEMMA CallUpdate ==
  ASSUME TypeOK, NEW t \in Threads, NEW c \in Calls, call' = [call EXCEPT ![t] = c]
  PROVE  /\ call' \in [Threads -> Calls]
         /\ \A u \in Threads \ {t} : call'[u] = call[u]
         /\ call'[t] = c
BY DEF TypeOK

(* Only the step of t changes.                                             *)
LEMMA GoToEffect ==
  ASSUME TypeOK, NEW t \in Threads, NEW step \in Steps, GoTo(t, step)
  PROVE  /\ call' \in [Threads -> Calls]
         /\ \A u \in Threads \ {t} : call'[u] = call[u]
         /\ call'[t] = [call[t] EXCEPT !.step = step]
         /\ call'[t].step = step
         /\ call'[t].conn = call[t].conn
         /\ call'[t].player = call[t].player
         /\ call'[t].room = call[t].room
         /\ call'[t].players = call[t].players
         /\ call'[t].next = call[t].next
<1> DEFINE c == [call[t] EXCEPT !.step = step]
<1>1. c \in Calls
  BY DEF TypeOK, Calls
<1>2. call' = [call EXCEPT ![t] = c]
  BY DEF GoTo
<1>3. /\ c.step = step /\ c.conn = call[t].conn /\ c.player = call[t].player
      /\ c.room = call[t].room /\ c.players = call[t].players /\ c.next = call[t].next
  BY DEF TypeOK, Calls
<1>4. call'[t] = c
  BY <1>1, <1>2, CallUpdate
<1>5. QED
  BY <1>1, <1>2, <1>3, <1>4, CallUpdate

(* A handler that is over leaves its thread idle.                          *)
LEMMA DoneEffect ==
  ASSUME TypeOK, NEW t \in Threads, Done(t)
  PROVE  /\ call' \in [Threads -> Calls]
         /\ \A u \in Threads \ {t} : call'[u] = call[u]
         /\ call'[t].step = "idle"
<1>1. Idle.step = "idle"
  BY DEF Idle
<1>2. QED
  BY <1>1, IdleTyped, CallUpdate DEF Done

(* A loop goes on to its next player, or to what follows it.               *)
LEMMA NextPlayerEffect ==
  ASSUME TypeOK, NEW t \in Threads, NEW step \in Steps, NEW after \in Steps,
         NextPlayer(t, step, after)
  PROVE  /\ call' \in [Threads -> Calls]
         /\ \A u \in Threads \ {t} : call'[u] = call[u]
         /\ \/ /\ call'[t].step = step
               /\ call'[t].next = call[t].next + 1
               /\ call[t].next < Len(call[t].players)
               /\ call'[t].room = call[t].room
               /\ call'[t].players = call[t].players
               /\ call'[t].player = call[t].player
               /\ call'[t].conn = call[t].conn
            \/ /\ call'[t].step = "idle" /\ after = "idle"
               /\ ~(call[t].next < Len(call[t].players))
            \/ /\ call'[t].step = after /\ after # "idle"
               /\ call'[t].next = call[t].next
               /\ ~(call[t].next < Len(call[t].players))
               /\ call'[t].room = call[t].room
               /\ call'[t].players = call[t].players
               /\ call'[t].player = call[t].player
               /\ call'[t].conn = call[t].conn
<1> DEFINE r == call[t]
           onward == [r EXCEPT !.step = step, !.next = r.next + 1]
           behind == [r EXCEPT !.step = after]
           c == IF r.next < Len(r.players) THEN onward
                ELSE IF after = "idle" THEN Idle ELSE behind
<1>1. /\ onward \in Calls /\ onward.step = step /\ onward.next = r.next + 1
      /\ onward.room = r.room /\ onward.players = r.players /\ onward.player = r.player
      /\ onward.conn = r.conn
  <2>1. r \in Calls
    BY DEF TypeOK
  <2>2. r.next + 1 \in Nat \ {0}
    BY <2>1 DEF Calls
  <2>3. QED
    BY <2>1, <2>2 DEF Calls
<1>2. /\ behind \in Calls /\ behind.step = after /\ behind.next = r.next
      /\ behind.room = r.room /\ behind.players = r.players /\ behind.player = r.player
      /\ behind.conn = r.conn
  BY DEF TypeOK, Calls
<1>3. Idle \in Calls /\ Idle.step = "idle"
  BY IdleTyped DEF Idle
<1>4. c \in Calls /\ call' = [call EXCEPT ![t] = c]
  <2>1. call' = [call EXCEPT ![t] = c]
    BY Zenon DEF NextPlayer
  <2>. HIDE DEF onward, behind
  <2>2. c \in Calls
    BY <1>1, <1>2, <1>3
  <2>3. QED
    BY <2>1, <2>2
<1>5. /\ call' \in [Threads -> Calls]
      /\ \A u \in Threads \ {t} : call'[u] = call[u]
      /\ call'[t] = c
  BY <1>4, CallUpdate
<1>. HIDE DEF onward, behind
<1>6. QED
  BY <1>1, <1>2, <1>3, <1>5
-----------------------------------------------------------------------------
(* Steps that leave the rooms alone.                                       *)

(* TypeOK but for the records of the threads.                              *)
DataOK ==
  /\ conn_state \in [Conns -> ConnStates]
  /\ conn_to_player \in [Conns -> Players \cup {Nobody}]
  /\ session_connection \in [Players -> Conns \cup {NoConn}]
  /\ session_room \in [Players -> Rooms \cup {NoRoom}]
  /\ online \in [Players -> BOOLEAN]
  /\ player_state \in [Players -> PlayerStates]
  /\ queue \in Seq(Players)
  /\ room_state \in [Rooms -> RoomStates]
  /\ seats \in [Rooms -> Seq(Players)]

(* At first there are no sessions and no rooms.                            *)
LEMMA InitIInv == Init => IInv
<1> SUFFICES ASSUME Init PROVE IInv
  OBVIOUS
<1>1. \A t \in Threads : call[t] = Idle
  BY DEF Init
<1>2. TypeOK
  BY IdleTyped DEF Init, TypeOK, ConnStates, PlayerStates, RoomStates
<1>3. ServesPlayers
  BY <1>1 DEF ServesPlayers, Idle, LostSteps
<1>4. ConnectionsSpeakForSessions
  BY DEF Init, ConnectionsSpeakForSessions
<1>5. Forming
  BY <1>1 DEF Forming, Idle, MatchSteps, FormingSteps, Threads
<1>6. Seating /\ Settling
  BY <1>1 DEF Seating, Settling, Idle, SeatingSteps, SettlingSteps
<1>7. SessionsNameTheirRoom
  BY DEF Init, SessionsNameTheirRoom
<1>. QED
  BY <1>2, <1>3, <1>4, <1>5, <1>6, <1>7 DEF IInv, RoomInv

(* Whatever the threads do, nobody gets into or out of a room meanwhile.   *)
LEMMA RoomsUntouched ==
  ASSUME IInv, NEW t \in Threads,
         UNCHANGED <<session_room, room_state, seats>>,
         \A u \in Threads \ {t} : call'[u] = call[u],
         call'[t].step \notin SeatingSteps \cup SettlingSteps,
         t = Timer => call'[t].step \notin MatchSteps,
         call'[t].step \in FormingSteps => call'[t].next = 1,
         call'[t].step = "CreateRoom" => call'[t].players # <<>>
  PROVE  RoomInv'
<1>1. Forming'
  <2>1. Timer \in Threads
    BY DEF Threads
  <2>2. QED
    BY <2>1 DEF IInv, RoomInv, Forming
<1>2. Seating'
  BY DEF IInv, RoomInv, Seating
<1>3. Settling'
  BY DEF IInv, RoomInv, Settling, Cleared
<1>4. SessionsNameTheirRoom'
  BY DEF IInv, RoomInv, SessionsNameTheirRoom, Exists, SeatedIn
<1>5. QED
  BY <1>1, <1>2, <1>3, <1>4 DEF RoomInv

(* A thread goes on to a step outside of the rooms, or is done.            *)
LEMMA HandlerGoesOn ==
  ASSUME IInv, NEW t \in Threads, NEW step \in Steps,
         GoTo(t, step) \/ Done(t),
         step \notin SeatingSteps \cup SettlingSteps \cup {"CreateRoom"},
         step \in MatchSteps => call[t].step \in MatchSteps,
         step \in FormingSteps => call[t].step \in FormingSteps,
         step \in LostSteps => call[t].step \in LostSteps,
         call[t].player \in Players \/ step \in {"CheckTimedOut", "ForceTimedOut"},
         UNCHANGED <<session_room, room_state, seats>>,
         DataOK', ConnectionsSpeakForSessions'
  PROVE  IInv'
<1>1. /\ call' \in [Threads -> Calls]
      /\ \A u \in Threads \ {t} : call'[u] = call[u]
      /\ \/ call'[t].step = "idle"
         \/ /\ call'[t].step = step
            /\ call'[t].player = call[t].player
            /\ call'[t].conn = call[t].conn
            /\ call'[t].next = call[t].next
  <2>1. CASE GoTo(t, step)
    BY <2>1, GoToEffect DEF IInv
  <2>2. CASE Done(t)
    BY <2>2, DoneEffect DEF IInv
  <2>3. QED
    BY <2>1, <2>2
<1>2. TypeOK'
  BY <1>1 DEF TypeOK, DataOK
<1>3. ServesPlayers'
  BY <1>1 DEF IInv, ServesPlayers, LostSteps
<1>4. RoomInv'
  <2>1. t = Timer => call[t].step \notin MatchSteps
    BY DEF IInv, RoomInv, Forming
  <2>2. call[t].step \in FormingSteps => call[t].next = 1
    BY DEF IInv, RoomInv, Forming
  <2>3. "idle" \notin MatchSteps \cup FormingSteps \cup SeatingSteps \cup SettlingSteps
    BY DEF MatchSteps, FormingSteps, SeatingSteps, SettlingSteps
  <2>4. QED
    BY <1>1, <2>1, <2>2, <2>3, RoomsUntouched
<1>5. QED
  BY <1>2, <1>3, <1>4 DEF IInv
-----------------------------------------------------------------------------
(* Accept, CloseIdleConnection and ForgetRemoved.                          *)
LEMMA ConnectionsComeAndGo ==
  ASSUME IInv, NEW c \in Conns, Accept(c) \/ CloseIdleConnection(c) \/ ForgetRemoved(c)
  PROVE  IInv'
<1>1. UNCHANGED <<sessionVars, player_state, queue, roomVars, call>>
  BY DEF Accept, CloseIdleConnection, ForgetRemoved
<1>2. conn_state' \in [Conns -> ConnStates]
  BY DEF Accept, CloseIdleConnection, ForgetRemoved, RemoveConnection, ConnStates, IInv, TypeOK
<1>3. TypeOK'
  BY <1>1, <1>2 DEF IInv, TypeOK, sessionVars, roomVars
<1>4. ServesPlayers' /\ ConnectionsSpeakForSessions'
  BY <1>1 DEF IInv, ServesPlayers, ConnectionsSpeakForSessions, sessionVars
<1>5. RoomInv'
  BY <1>1 DEF IInv, RoomInv, Forming, Seating, Settling, Cleared,
              SessionsNameTheirRoom, Exists, SeatedIn, sessionVars, roomVars
<1>6. QED
  BY <1>3, <1>4, <1>5 DEF IInv

(* A worker begins a handler for a player.                                 *)
LEMMA HandlerBegins ==
  ASSUME IInv, NEW t \in Workers, NEW h \in Calls, call' = [call EXCEPT ![t] = h],
         h.player \in Players, h.conn \in Conns, h.next = 1,
         h.step \notin SeatingSteps \cup SettlingSteps \cup {"CreateRoom"},
         UNCHANGED <<sessionVars, player_state, queue, roomVars>>,
         conn_state' \in [Conns -> ConnStates]
  PROVE  IInv'
<1>1. t \in Threads /\ t # Timer
  BY ThreadsAssumption DEF Threads
<1>2. /\ call' \in [Threads -> Calls]
      /\ \A u \in Threads \ {t} : call'[u] = call[u]
      /\ call'[t] = h
  BY <1>1, CallUpdate DEF IInv
<1>3. TypeOK'
  BY <1>2 DEF IInv, TypeOK, sessionVars, roomVars
<1>4. ServesPlayers'
  BY <1>2 DEF IInv, ServesPlayers
<1>5. ConnectionsSpeakForSessions'
  BY DEF IInv, ConnectionsSpeakForSessions, sessionVars
<1>6. RoomInv'
  BY <1>1, <1>2, RoomsUntouched DEF sessionVars, roomVars
<1>7. QED
  BY <1>3, <1>4, <1>5, <1>6 DEF IInv

(* A packet of connection c begins a handler for player p.                 *)
LEMMA BeginPreserves ==
  ASSUME IInv, NEW c \in Conns, NEW p \in Players, NEW besides,
         NEW g \in Calls, g.next = 1,
         g.step \notin SeatingSteps \cup SettlingSteps \cup {"CreateRoom"},
         Begin(c, p, besides, g),
         UNCHANGED <<conn_state, sessionVars, player_state, queue, roomVars>>
  PROVE  IInv'
<1> DEFINE h == [g EXCEPT !.conn = c, !.player = p]
<1>1. h \in Calls /\ h.step = g.step /\ h.next = 1 /\ h.player = p /\ h.conn = c
  BY DEF Calls
<1>2. call' = [call EXCEPT ![Owner[c]] = h]
  BY Zenon DEF Begin
<1>3. Owner[c] \in Workers /\ conn_state' \in [Conns -> ConnStates]
  BY ThreadsAssumption DEF IInv, TypeOK
<1>. HIDE DEF h
<1>4. QED
  BY <1>1, <1>2, <1>3, HandlerBegins

(* Login, Reconnect, Match and CancelMatch.                                *)
LEMMA RequestPreserves ==
  ASSUME IInv, NEW c \in Conns, NEW p \in Players,
         Login(c, p) \/ Reconnect(c, p) \/ Match(c) \/ CancelMatch(c)
  PROVE  IInv'
<1>1. ASSUME NEW step \in {"LoginState", "Rebind", "CheckLobby", "CheckMatching"},
             NEW room \in Rooms \cup {NoRoom}
      PROVE  /\ [Idle EXCEPT !.step = step, !.room = room] \in Calls
             /\ [Idle EXCEPT !.step = step, !.room = room].next = 1
             /\ [Idle EXCEPT !.step = step, !.room = room].step = step
             /\ [Idle EXCEPT !.step = step] \in Calls
             /\ [Idle EXCEPT !.step = step].next = 1
             /\ [Idle EXCEPT !.step = step].step = step
  <2>1. Idle \in Calls /\ Idle.next = 1
    BY IdleTyped DEF Idle
  <2>2. step \in Steps
    BY DEF Steps, MatchSteps
  <2>3. QED
    BY <2>1, <2>2 DEF Calls
<1>2. session_room[p] \in Rooms \cup {NoRoom}
  BY DEF IInv, TypeOK
<1>3. \A step \in {"LoginState", "Rebind", "CheckLobby", "CheckMatching"} :
        step \notin SeatingSteps \cup SettlingSteps \cup {"CreateRoom"}
  BY DEF SeatingSteps, SettlingSteps
<1>4. CASE Login(c, p)
  <2> DEFINE g == [Idle EXCEPT !.step = "LoginState", !.room = session_room[p]]
  <2>1. g \in Calls /\ g.next = 1 /\ g.step = "LoginState"
    BY <1>1, <1>2
  <2>2. /\ Begin(c, p, LostSteps, g)
        /\ UNCHANGED <<conn_state, sessionVars, player_state, queue, roomVars>>
        /\ p \in Players
    BY <1>4 DEF Login
  <2>. HIDE DEF g
  <2>3. QED
    BY <1>3, <2>1, <2>2, BeginPreserves
<1>5. CASE Reconnect(c, p)
  <2> DEFINE g == [Idle EXCEPT !.step = "Rebind", !.room = session_room[p]]
  <2>1. g \in Calls /\ g.next = 1 /\ g.step = "Rebind"
    BY <1>1, <1>2
  <2>2. /\ Begin(c, p, LostSteps, g)
        /\ UNCHANGED <<conn_state, sessionVars, player_state, queue, roomVars>>
        /\ p \in Players
    BY <1>5 DEF Reconnect
  <2>. HIDE DEF g
  <2>3. QED
    BY <1>3, <2>1, <2>2, BeginPreserves
<1>6. conn_to_player[c] # Nobody => conn_to_player[c] \in Players
  BY DEF IInv, TypeOK
<1>7. CASE Match(c)
  <2> DEFINE g == [Idle EXCEPT !.step = "CheckLobby"]
  <2>1. g \in Calls /\ g.next = 1 /\ g.step = "CheckLobby"
    BY <1>1, <1>2
  <2>2. /\ Begin(c, conn_to_player[c], {}, g)
        /\ UNCHANGED <<conn_state, sessionVars, player_state, queue, roomVars>>
        /\ conn_to_player[c] \in Players
    BY <1>6, <1>7 DEF Match
  <2>. HIDE DEF g
  <2>3. QED
    BY <1>3, <2>1, <2>2, BeginPreserves
<1>8. CASE CancelMatch(c)
  <2> DEFINE g == [Idle EXCEPT !.step = "CheckMatching"]
  <2>1. g \in Calls /\ g.next = 1 /\ g.step = "CheckMatching"
    BY <1>1, <1>2
  <2>2. /\ Begin(c, conn_to_player[c], {}, g)
        /\ UNCHANGED <<conn_state, sessionVars, player_state, queue, roomVars>>
        /\ conn_to_player[c] \in Players
    BY <1>6, <1>8 DEF CancelMatch
  <2>. HIDE DEF g
  <2>3. QED
    BY <1>3, <2>1, <2>2, BeginPreserves
<1>9. QED
  BY <1>4, <1>5, <1>7, <1>8
-----------------------------------------------------------------------------
(* The calls of a handler on the players' states and on the queue.         *)

LEMMA ForceStateTyped ==
  ASSUME TypeOK, NEW p, NEW state \in PlayerStates, ForceState(p, state)
  PROVE  player_state' \in [Players -> PlayerStates]
BY DEF TypeOK, ForceState

LEMMA EraseTyped ==
  ASSUME TypeOK, NEW p, Erase(p)
  PROVE  queue' \in Seq(Players)
<1>1. CASE Queued(p)
  <2>1. PICK i \in DOMAIN queue :
          queue' = SubSeq(queue, 1, i - 1) \o SubSeq(queue, i + 1, Len(queue))
    BY <1>1 DEF Erase
  <2>2. queue \in Seq(Players) /\ i \in 1..Len(queue)
    BY DEF TypeOK
  <2>3. /\ SubSeq(queue, 1, i - 1) \in Seq(Players)
        /\ SubSeq(queue, i + 1, Len(queue)) \in Seq(Players)
    BY <2>2, SubSeqProperties
  <2>4. QED
    BY <2>1, <2>3
<1>2. CASE ~Queued(p)
  BY <1>2 DEF Erase, TypeOK
<1>3. QED
  BY <1>1, <1>2

(* The player whom t serves.                                               *)
LEMMA Served ==
  ASSUME IInv, NEW t \in Threads,
         call[t].step \notin SettlingSteps \cup {"idle", "CheckTimedOut", "ForceTimedOut"}
  PROVE  call[t].player \in Players
BY DEF IInv, ServesPlayers

(* A call that changes neither sessions nor rooms, and goes on to step.    *)
LEMMA CallPreserves ==
  ASSUME IInv, NEW t \in Threads, NEW step \in Steps,
         GoTo(t, step) \/ Done(t),
         step \notin SeatingSteps \cup SettlingSteps \cup {"CreateRoom"},
         step \in MatchSteps => call[t].step \in MatchSteps,
         step \in FormingSteps => call[t].step \in FormingSteps,
         step \in LostSteps => call[t].step \in LostSteps,
         call[t].player \in Players \/ step \in {"CheckTimedOut", "ForceTimedOut"},
         UNCHANGED <<sessionVars, roomVars>>,
         conn_state' \in [Conns -> ConnStates],
         player_state' \in [Players -> PlayerStates],
         queue' \in Seq(Players)
  PROVE  IInv'
<1>1. DataOK'
  BY DEF IInv, TypeOK, DataOK, sessionVars, roomVars
<1>2. ConnectionsSpeakForSessions'
  BY DEF IInv, ConnectionsSpeakForSessions, sessionVars
<1>3. UNCHANGED <<session_room, room_state, seats>>
  BY DEF sessionVars, roomVars
<1>4. QED
  BY <1>1, <1>2, <1>3, HandlerGoesOn

(* The calls of a login or reconnect, of a match before the queue is       *)
(* popped, of a cancel and of a lost connection that have only such an     *)
(* effect.                                                                 *)
LEMMA CallsPreserve ==
  ASSUME IInv, NEW t \in Threads,
         \/ LoginState(t) \/ Kick(t) \/ ReconnectState(t)
         \/ CheckLobby(t) \/ Join(t) \/ SetMatching(t) \/ LeaveQueue(t)
         \/ CheckMatching(t) \/ Cancel(t) \/ BackToLobby(t)
         \/ WasMatching(t) \/ CancelLost(t) \/ ForceOffline(t)
  PROVE  IInv'
<1> DEFINE p == call[t].player
           Stays == /\ UNCHANGED <<sessionVars, roomVars>>
                    /\ conn_state' \in [Conns -> ConnStates]
                    /\ player_state' \in [Players -> PlayerStates]
                    /\ queue' \in Seq(Players)
           Here == call[t].step
           Order == {<<"LoginState", "BindLogin">>, <<"ReconnectState", "Kick">>,
                     <<"CheckLobby", "Join">>, <<"Join", "SetMatching">>,
                     <<"SetMatching", "TryPop">>, <<"SetMatching", "LeaveQueue">>,
                     <<"CheckMatching", "Cancel">>, <<"Cancel", "BackToLobby">>,
                     <<"WasMatching", "CancelLost">>, <<"WasMatching", "MarkOffline">>,
                     <<"CancelLost", "MarkOffline">>}
           Last == {"Kick", "ReconnectState", "CheckLobby", "Join", "LeaveQueue",
                    "CheckMatching", "Cancel", "BackToLobby", "ForceOffline"}
<1>1. /\ conn_state \in [Conns -> ConnStates]
      /\ player_state \in [Players -> PlayerStates]
      /\ queue \in Seq(Players)
  BY DEF IInv, TypeOK
<1>2. {"Lobby", "Matching", "InRoom", "Offline"} \subseteq PlayerStates
  BY DEF PlayerStates
<1>3. \A room : StateFor(room) \in PlayerStates
  BY <1>2 DEF StateFor
<1>4. SUFFICES
        /\ p \in Players
        /\ Stays
        /\ \/ Here \in Last /\ Done(t)
           \/ \E step : <<Here, step>> \in Order /\ GoTo(t, step)
  <2>1. CASE Here \in Last /\ Done(t)
    <3>1. "Kick" \in Steps
      BY DEF Steps
    <3>2. QED
      BY <1>4, <2>1, <3>1, CallPreserves
      DEF SeatingSteps, SettlingSteps, MatchSteps, FormingSteps, LostSteps
  <2>2. ASSUME NEW step, <<Here, step>> \in Order, GoTo(t, step)
        PROVE  IInv'
    <3>1. /\ step \in Steps
          /\ step \notin SeatingSteps \cup SettlingSteps \cup {"CreateRoom"}
          /\ step \in MatchSteps => Here \in MatchSteps
          /\ step \in FormingSteps => Here \in FormingSteps
          /\ step \in LostSteps => Here \in LostSteps
      BY <2>2 DEF Steps, LostSteps, SeatingSteps, SettlingSteps, MatchSteps, FormingSteps
    <3>2. QED
      BY <1>4, <2>2, <3>1, CallPreserves
  <2>3. QED
    BY <1>4, <2>1, <2>2
<1>5. p \in Players
  <2>1. Here \notin SettlingSteps \cup {"idle", "CheckTimedOut", "ForceTimedOut"}
    BY DEF LoginState, Kick, ReconnectState, CheckLobby, Join, SetMatching, LeaveQueue,
           CheckMatching, Cancel, BackToLobby, WasMatching, CancelLost, ForceOffline,
           At, SettlingSteps
  <2>2. QED
    BY <2>1, Served
<1>6. Stays
  <2>1. CASE LoginState(t) \/ ReconnectState(t) \/ BackToLobby(t) \/ ForceOffline(t)
    BY <1>1, <1>2, <1>3, <2>1, ForceStateTyped
    DEF LoginState, ReconnectState, BackToLobby, ForceOffline, IInv
  <2>2. CASE SetMatching(t)
    BY <1>1, <1>2, <2>2, ForceStateTyped DEF SetMatching, IInv
  <2>3. CASE Kick(t)
    BY <1>1, <2>3 DEF Kick, RemoveConnection, ConnStates
  <2>4. CASE CheckLobby(t) \/ CheckMatching(t) \/ WasMatching(t)
    BY <1>1, <2>4 DEF CheckLobby, CheckMatching, WasMatching
  <2>5. CASE Join(t)
    BY <1>1, <1>5, <2>5 DEF Join
  <2>6. CASE LeaveQueue(t) \/ Cancel(t) \/ CancelLost(t)
    BY <1>1, <2>6, EraseTyped DEF LeaveQueue, Cancel, CancelLost, IInv
  <2>7. QED
    BY <2>1, <2>2, <2>3, <2>4, <2>5, <2>6
<1>7. \/ Here \in Last /\ Done(t)
      \/ \E step : <<Here, step>> \in Order /\ GoTo(t, step)
  BY DEF LoginState, Kick, ReconnectState, CheckLobby, Join, SetMatching, LeaveQueue,
         CheckMatching, Cancel, BackToLobby, WasMatching, CancelLost, ForceOffline, At
<1>8. QED
  BY <1>4, <1>5, <1>6, <1>7
-----------------------------------------------------------------------------
(* The session maps.                                                       *)

(* Binding a connection takes the old one away from the session, so that   *)
(* nobody but the new one speaks for the player.                           *)
LEMMA BindKeepsSessions ==
  ASSUME IInv, NEW t \in Threads, NEW released, Bind(t, released),
         call[t].player \in Players,
         \/ released = Unbound(session_connection[call[t].player])
         \/ /\ released = conn_to_player
            /\ ~online[call[t].player] \/ session_connection[call[t].player] = call[t].conn
  PROVE  DataOK' /\ ConnectionsSpeakForSessions'
<1> DEFINE p == call[t].player
           c == call[t].conn
<1>1. /\ conn_to_player \in [Conns -> Players \cup {Nobody}]
      /\ session_connection \in [Players -> Conns \cup {NoConn}]
      /\ online \in [Players -> BOOLEAN]
      /\ c \in Conns \cup {NoConn}
      /\ Nobody \notin Players
  BY PlayersAssumption DEF IInv, TypeOK, Calls, Nobody
<1>2. /\ released \in [Conns -> Players \cup {Nobody}]
      /\ \A d \in Conns : released[d] # Nobody => released[d] = conn_to_player[d]
      /\ \A d \in Conns : released[d] = p => d = c
  BY <1>1 DEF Unbound, IInv, ConnectionsSpeakForSessions
<1>3. /\ conn_to_player' = [released EXCEPT ![c] = p]
      /\ session_connection' = [session_connection EXCEPT ![p] = c]
      /\ online' = [online EXCEPT ![p] = TRUE]
  BY DEF Bind
<1>4. DataOK'
  BY <1>1, <1>2, <1>3 DEF Bind, DataOK, IInv, TypeOK, roomVars
<1>5. ConnectionsSpeakForSessions'
  BY <1>1, <1>2, <1>3 DEF IInv, ConnectionsSpeakForSessions
<1>6. QED
  BY <1>4, <1>5

(* A step of t that keeps its player and goes on outside of the rooms.     *)
LEMMA BinderGoesOn ==
  ASSUME IInv, NEW t \in Threads, NEW step \in {"Kick", "ReconnectState"},
         NEW old \in Conns \cup {NoConn}, call[t].player \in Players,
         call' = [call EXCEPT ![t].step = step, ![t].old = old],
         UNCHANGED <<session_room, room_state, seats>>,
         DataOK', ConnectionsSpeakForSessions'
  PROVE  IInv'
<1> DEFINE h == [call[t] EXCEPT !.step = step, !.old = old]
<1>1. h \in Calls /\ h.step = step /\ h.player = call[t].player
  <2>1. step \in Steps
    BY DEF Steps
  <2>2. QED
    BY <2>1 DEF IInv, TypeOK, Calls
<1>2. call' = [call EXCEPT ![t] = h]
  BY DEF IInv, TypeOK
<1>. HIDE DEF h
<1>3. /\ call' \in [Threads -> Calls]
      /\ \A u \in Threads \ {t} : call'[u] = call[u]
      /\ call'[t] = h
  BY <1>1, <1>2, CallUpdate DEF IInv
<1>4. TypeOK' /\ ServesPlayers'
  BY <1>1, <1>3 DEF IInv, TypeOK, DataOK, ServesPlayers, LostSteps
<1>5. RoomInv'
  BY <1>1, <1>3, RoomsUntouched
  DEF SeatingSteps, SettlingSteps, MatchSteps, FormingSteps, LostSteps
<1>6. QED
  BY <1>4, <1>5 DEF IInv

(* BindLogin takes the session over, whoever had it.                       *)
LEMMA BindLoginPreserves ==
  ASSUME IInv, NEW t \in Threads, BindLogin(t)
  PROVE  IInv'
<1> DEFINE p == call[t].player
<1>1. p \in Players
  BY Served DEF BindLogin, At, SettlingSteps
<1>2. session_connection[p] \in Conns \cup {NoConn}
  BY <1>1 DEF IInv, TypeOK
<1>3. CASE online[p]
  <2>1. /\ Bind(t, Unbound(session_connection[p]))
        /\ call' = [call EXCEPT ![t].step = "Kick", ![t].old = session_connection[p]]
    BY <1>3 DEF BindLogin
  <2>2. DataOK' /\ ConnectionsSpeakForSessions'
    BY <1>1, <2>1, BindKeepsSessions
  <2>3. UNCHANGED <<session_room, room_state, seats>>
    BY <2>1 DEF Bind, roomVars
  <2>4. QED
    BY <1>1, <1>2, <2>1, <2>2, <2>3, BinderGoesOn
<1>4. CASE ~online[p]
  <2>1. Bind(t, conn_to_player) /\ Done(t)
    BY <1>4 DEF BindLogin
  <2>2. DataOK' /\ ConnectionsSpeakForSessions'
    BY <1>1, <1>4, <2>1, BindKeepsSessions
  <2>3. UNCHANGED <<session_room, room_state, seats>>
    BY <2>1 DEF Bind, roomVars
  <2>4. "Kick" \in Steps
    BY DEF Steps
  <2>5. QED
    BY <1>1, <2>1, <2>2, <2>3, <2>4, HandlerGoesOn
    DEF SeatingSteps, SettlingSteps, MatchSteps, FormingSteps, LostSteps
<1>5. QED
  BY <1>3, <1>4

(* A reconnect takes it over in the same way.                              *)
LEMMA RebindPreserves ==
  ASSUME IInv, NEW t \in Threads, RebindForReconnect(t)
  PROVE  IInv'
<1> DEFINE p == call[t].player
           prev == session_connection[p]
           old == IF online[p] /\ prev # call[t].conn THEN prev ELSE NoConn
<1>1. p \in Players
  BY Served DEF RebindForReconnect, At, SettlingSteps
<1>2. old \in Conns \cup {NoConn}
  BY <1>1 DEF IInv, TypeOK
<1>3. /\ IF prev # call[t].conn THEN Bind(t, Unbound(prev)) ELSE Bind(t, conn_to_player)
      /\ call' = [call EXCEPT ![t].step = "ReconnectState", ![t].old = old]
  BY DEF RebindForReconnect
<1>4. DataOK' /\ ConnectionsSpeakForSessions'
  BY <1>1, <1>3, BindKeepsSessions
<1>5. UNCHANGED <<session_room, room_state, seats>>
  BY <1>3 DEF Bind, roomVars
<1>. HIDE DEF old
<1>6. QED
  BY <1>1, <1>2, <1>3, <1>4, <1>5, BinderGoesOn

(* The connection that is lost speaks for nobody, and nobody else does     *)
(* for the player who is offline now.                                      *)
LEMMA MarkOfflinePreserves ==
  ASSUME IInv, NEW t \in Threads, MarkOfflineByConnection(t)
  PROVE  IInv'
<1> DEFINE c == call[t].conn
           p == conn_to_player[c]
<1>1. /\ conn_to_player \in [Conns -> Players \cup {Nobody}]
      /\ online \in [Players -> BOOLEAN]
      /\ Nobody \notin Players
  BY PlayersAssumption DEF IInv, TypeOK, Nobody
<1>2. call[t].step = "MarkOffline" /\ c \in Conns /\ call[t].player \in Players
  BY DEF MarkOfflineByConnection, At, IInv, ServesPlayers, LostSteps, SettlingSteps
<1>3. /\ UNCHANGED <<conn_state, session_connection, session_room, player_state, queue,
                     roomVars>>
      /\ GoTo(t, "ForceOffline")
  BY DEF MarkOfflineByConnection
<1>4. ASSUME p = Nobody
      PROVE  DataOK' /\ ConnectionsSpeakForSessions'
  BY <1>1, <1>3, <1>4 DEF MarkOfflineByConnection, DataOK, IInv, TypeOK, roomVars,
                          ConnectionsSpeakForSessions
<1>5. ASSUME p # Nobody
      PROVE  DataOK' /\ ConnectionsSpeakForSessions'
  <2>1. /\ conn_to_player' = [conn_to_player EXCEPT ![c] = Nobody]
        /\ online' = [online EXCEPT ![p] = FALSE]
    BY <1>5 DEF MarkOfflineByConnection
  <2>2. session_connection[p] = c
    BY <1>2, <1>5 DEF IInv, ConnectionsSpeakForSessions
  <2>. HIDE DEF c, p
  <2>3. DataOK'
    BY <1>1, <1>2, <1>3, <2>1 DEF DataOK, IInv, TypeOK, roomVars
  <2>4. ASSUME NEW d \in Conns, conn_to_player'[d] # Nobody
        PROVE  /\ session_connection'[conn_to_player'[d]] = d
               /\ online'[conn_to_player'[d]]
    <3>1. d # c /\ conn_to_player'[d] = conn_to_player[d]
      BY <1>1, <1>2, <2>1, <2>4
    <3>2. session_connection[conn_to_player[d]] = d /\ online[conn_to_player[d]]
      BY <2>4, <3>1 DEF IInv, ConnectionsSpeakForSessions
    <3>3. conn_to_player[d] \in Players \ {p}
      BY <1>1, <2>2, <2>4, <3>1, <3>2
    <3>4. QED
      BY <1>1, <1>3, <2>1, <3>1, <3>2, <3>3
  <2>5. QED
    BY <2>3, <2>4 DEF ConnectionsSpeakForSessions
<1>6. DataOK' /\ ConnectionsSpeakForSessions'
  BY <1>4, <1>5
<1>7. QED
  BY <1>2, <1>3, <1>6, HandlerGoesOn
  DEF Steps, LostSteps, SeatingSteps, SettlingSteps, MatchSteps, FormingSteps, roomVars
-----------------------------------------------------------------------------
(* The queue, and lost connections.                                        *)

(* A new record for t, which is in no room, and other data that is typed.  *)
LEMMA NewRecordPreserves ==
  ASSUME IInv, NEW t \in Threads, NEW h \in Calls, call' = [call EXCEPT ![t] = h],
         h.step \notin SeatingSteps \cup SettlingSteps \cup FormingSteps \/
           (t # Timer /\ h.step \in FormingSteps /\ h.next = 1 /\ h.players # <<>>),
         t = Timer => h.step \notin MatchSteps,
         h.step \in {"idle", "CheckTimedOut", "ForceTimedOut"} \/ h.player \in Players,
         h.step \in LostSteps => h.conn \in Conns,
         UNCHANGED <<sessionVars, player_state, roomVars>>,
         conn_state' \in [Conns -> ConnStates],
         queue' \in Seq(Players)
  PROVE  IInv'
<1>1. /\ call' \in [Threads -> Calls]
      /\ \A u \in Threads \ {t} : call'[u] = call[u]
      /\ call'[t] = h
  BY CallUpdate DEF IInv
<1>2. TypeOK'
  BY <1>1 DEF IInv, TypeOK, sessionVars, roomVars
<1>3. ServesPlayers' /\ ConnectionsSpeakForSessions'
  BY <1>1 DEF IInv, ServesPlayers, ConnectionsSpeakForSessions, sessionVars
<1>4. h.step \notin SeatingSteps \cup SettlingSteps
  BY DEF SeatingSteps, SettlingSteps, FormingSteps
<1>5. h.step = "CreateRoom" => h.step \in FormingSteps
  BY DEF FormingSteps
<1>6. UNCHANGED <<session_room, room_state, seats>>
  BY DEF sessionVars, roomVars
<1>7. RoomInv'
  BY <1>1, <1>4, <1>5, <1>6, RoomsUntouched
<1>8. QED
  BY <1>2, <1>3, <1>7 DEF IInv

(* Whoever is popped for a room are as many as the room has seats.         *)
LEMMA TryPopPreserves ==
  ASSUME IInv, NEW t \in Threads, TryPopMatchedPlayers(t)
  PROVE  IInv'
<1>1. /\ call[t].step = "TryPop" /\ call[t].player \in Players
      /\ call[t].next = 1 /\ t # Timer
  BY DEF TryPopMatchedPlayers, At, IInv, ServesPlayers, SettlingSteps, RoomInv, Forming,
         FormingSteps, MatchSteps
<1>2. /\ queue \in Seq(Players) /\ conn_state' \in [Conns -> ConnStates]
      /\ UNCHANGED <<conn_state, sessionVars, player_state, roomVars>>
  BY DEF TryPopMatchedPlayers, IInv, TypeOK
<1>3. CASE Len(queue) < RoomSize
  <2>1. Idle \in Calls /\ Idle.step = "idle"
    BY IdleTyped DEF Idle
  <2>2. call' = [call EXCEPT ![t] = Idle] /\ UNCHANGED queue
    BY <1>3 DEF TryPopMatchedPlayers, Done
  <2>3. "idle" \notin SeatingSteps \cup SettlingSteps \cup FormingSteps \cup MatchSteps
                      \cup LostSteps
    BY DEF SeatingSteps, SettlingSteps, FormingSteps, MatchSteps, LostSteps
  <2>4. QED
    BY <1>2, <2>1, <2>2, <2>3, NewRecordPreserves
<1>4. CASE ~(Len(queue) < RoomSize)
  <2> DEFINE popped == SubSeq(queue, 1, RoomSize)
             h == [call[t] EXCEPT !.step = "CreateRoom", !.players = popped]
  <2>1. popped \in Seq(Players) /\ popped # <<>>
    BY <1>2, <1>4, SizeAssumption, SubSeqProperties
  <2>2. queue' \in Seq(Players)
    <3>1. queue' = SubSeq(queue, RoomSize + 1, Len(queue))
      BY <1>4 DEF TryPopMatchedPlayers
    <3>2. QED
      BY <1>2, <3>1, SizeAssumption
  <2>3. /\ h \in Calls /\ h.step = "CreateRoom" /\ h.players = popped
        /\ h.next = 1 /\ h.player \in Players
    <3>1. call[t] \in Calls /\ "CreateRoom" \in Steps
      BY DEF IInv, TypeOK, Steps, MatchSteps
    <3>. HIDE DEF popped
    <3>2. QED
      BY <1>1, <2>1, <3>1 DEF Calls
  <2>4. call' = [call EXCEPT ![t] = h]
    BY <1>4 DEF TryPopMatchedPlayers, IInv, TypeOK
  <2>. HIDE DEF h, popped
  <2>5. "CreateRoom" \in FormingSteps /\ "CreateRoom" \notin LostSteps
    BY DEF FormingSteps, LostSteps
  <2>6. QED
    BY <1>1, <1>2, <2>1, <2>2, <2>3, <2>4, <2>5, NewRecordPreserves
<1>5. QED
  BY <1>3, <1>4

(* The timer takes the first players out of the queue.                     *)
LEMMA PopTimeoutPreserves ==
  ASSUME IInv, NEW n \in 1..NumLate, PopTimeoutPlayers(n)
  PROVE  IInv'
<1> DEFINE late == SubSeq(queue, 1, n)
           h == [Idle EXCEPT !.step = "CheckTimedOut", !.players = late]
<1>1. Timer \in Threads /\ queue \in Seq(Players)
  BY DEF Threads, IInv, TypeOK
<1>2. late \in Seq(Players) /\ queue' \in Seq(Players)
  BY <1>1 DEF NumLate, PopTimeoutPlayers
<1>3. h \in Calls /\ h.step = "CheckTimedOut"
  <2>1. Idle \in Calls /\ "CheckTimedOut" \in Steps
    BY IdleTyped DEF Steps
  <2>. HIDE DEF late
  <2>2. QED
    BY <1>2, <2>1 DEF Calls
<1>4. /\ call' = [call EXCEPT ![Timer] = h]
      /\ UNCHANGED <<conn_state, sessionVars, player_state, roomVars>>
      /\ conn_state' \in [Conns -> ConnStates]
  BY DEF PopTimeoutPlayers, IInv, TypeOK
<1>. HIDE DEF h
<1>5. "CheckTimedOut" \notin SeatingSteps \cup SettlingSteps \cup FormingSteps
                             \cup MatchSteps \cup LostSteps
  BY DEF SeatingSteps, SettlingSteps, FormingSteps, MatchSteps, LostSteps
<1>6. QED
  BY <1>1, <1>2, <1>3, <1>4, <1>5, NewRecordPreserves

(* It sends one after the other back to the lobby.                         *)
LEMMA TimedOutPreserves ==
  ASSUME IInv, CheckTimedOut \/ ForceTimedOut
  PROVE  IInv'
<1>1. /\ Timer \in Threads
      /\ {"CheckTimedOut", "ForceTimedOut", "idle"} \subseteq Steps
      /\ {"CheckTimedOut", "ForceTimedOut", "idle"} \cap
           (SeatingSteps \cup SettlingSteps \cup MatchSteps \cup FormingSteps
            \cup LostSteps) = {}
      /\ "CreateRoom" \in FormingSteps
  BY DEF Threads, Steps, SeatingSteps, SettlingSteps, MatchSteps, FormingSteps, LostSteps
<1>2. /\ UNCHANGED <<conn_state, sessionVars, queue, roomVars>>
      /\ player_state' \in [Players -> PlayerStates]
  BY ForceStateTyped DEF CheckTimedOut, ForceTimedOut, IInv, TypeOK, PlayerStates
<1>3. UNCHANGED <<session_room, room_state, seats>> /\ DataOK'
      /\ ConnectionsSpeakForSessions'
  BY <1>2 DEF DataOK, IInv, TypeOK, ConnectionsSpeakForSessions, sessionVars, roomVars
<1>4. CASE GoTo(Timer, "ForceTimedOut")
  BY <1>1, <1>3, <1>4, HandlerGoesOn
<1>5. CASE NextPlayer(Timer, "CheckTimedOut", "idle")
  <2>1. /\ call' \in [Threads -> Calls]
        /\ \A u \in Threads \ {Timer} : call'[u] = call[u]
        /\ call'[Timer].step \in {"CheckTimedOut", "idle"}
    BY <1>1, <1>5, NextPlayerEffect DEF IInv
  <2>2. TypeOK' /\ ServesPlayers'
    BY <1>1, <1>3, <2>1 DEF TypeOK, DataOK, IInv, ServesPlayers
  <2>3. RoomInv'
    BY <1>1, <1>3, <2>1, RoomsUntouched
  <2>4. QED
    BY <1>3, <2>2, <2>3 DEF IInv
<1>6. QED
  BY <1>4, <1>5 DEF CheckTimedOut, ForceTimedOut

(* A lost connection is gone, and its worker sees to its player.           *)
LEMMA ConnectionClosedPreserves ==
  ASSUME IInv, NEW c \in Conns, ConnectionClosed(c)
  PROVE  IInv'
<1> DEFINE t == Owner[c]
           p == conn_to_player[c]
<1>1. t \in Threads /\ t # Timer /\ Idle \in Calls /\ Idle.step = "idle"
  BY ThreadsAssumption, IdleTyped DEF Threads, Idle
<1>2. /\ UNCHANGED <<sessionVars, player_state, queue, roomVars>>
      /\ conn_state' \in [Conns -> ConnStates]
      /\ queue \in Seq(Players)
  BY DEF ConnectionClosed, IInv, TypeOK, ConnStates
<1>3. CASE p = Nobody
  <2>1. UNCHANGED call
    BY <1>3 DEF ConnectionClosed
  <2>2. call' = [call EXCEPT ![t] = call[t]] /\ call[t] \in Calls
        /\ call[t].step = "idle"
    BY <1>1, <2>1 DEF IInv, TypeOK, ConnectionClosed, At
  <2>3. "idle" \notin SeatingSteps \cup SettlingSteps \cup FormingSteps \cup LostSteps
    BY DEF SeatingSteps, SettlingSteps, FormingSteps, LostSteps
  <2>4. QED
    BY <1>1, <1>2, <2>2, <2>3, NewRecordPreserves
<1>4. CASE p # Nobody
  <2> DEFINE h == [Idle EXCEPT !.step = "WasMatching", !.conn = c, !.player = p]
  <2>1. p \in Players
    BY <1>4 DEF IInv, TypeOK
  <2>2. /\ h \in Calls /\ h.step = "WasMatching" /\ h.conn = c /\ h.player = p
    <3>1. "WasMatching" \in Steps
      BY DEF Steps, LostSteps
    <3>2. QED
      BY <1>1, <2>1, <3>1 DEF Calls
  <2>3. call' = [call EXCEPT ![t] = h]
    BY <1>4 DEF ConnectionClosed
  <2>. HIDE DEF h
  <2>4. "WasMatching" \notin SeatingSteps \cup SettlingSteps \cup FormingSteps
    BY DEF SeatingSteps, SettlingSteps, FormingSteps
  <2>5. QED
    BY <1>1, <1>2, <2>1, <2>2, <2>3, <2>4, NewRecordPreserves
<1>5. QED
  BY <1>3, <1>4
-----------------------------------------------------------------------------
(* Steps of the rooms.                                                     *)

(* A room that is opened is one that no session names yet.                 *)
LEMMA CreateRoomPreserves ==
  ASSUME IInv, NEW t \in Threads, CreateRoom(t)
  PROVE  IInv'
<1>1. /\ call[t].step = "CreateRoom" /\ call[t].player \in Players /\ t # Timer
      /\ call[t].next = 1 /\ call[t].players # <<>> /\ call[t] \in Calls
  BY DEF CreateRoom, At, IInv, TypeOK, ServesPlayers, SettlingSteps, RoomInv, Forming,
         FormingSteps, MatchSteps
<1>2. PICK r \in Rooms :
        /\ room_state[r] = "none"
        /\ room_state' = [room_state EXCEPT ![r] = "open"]
        /\ seats' = [seats EXCEPT ![r] = call[t].players]
        /\ call' = [call EXCEPT ![t].step = "SetRoomId", ![t].room = r]
  BY DEF CreateRoom
<1>3. UNCHANGED <<conn_state, sessionVars, player_state, queue>>
  BY DEF CreateRoom
<1> DEFINE h == [call[t] EXCEPT !.step = "SetRoomId", !.room = r]
<1>4. /\ h \in Calls /\ h.step = "SetRoomId" /\ h.room = r /\ h.next = 1
      /\ h.player = call[t].player /\ h.players = call[t].players
  <2>1. "SetRoomId" \in Steps
    BY DEF Steps, MatchSteps
  <2>2. QED
    BY <1>1, <2>1 DEF Calls
<1>5. call' = [call EXCEPT ![t] = h]
  BY <1>2 DEF IInv, TypeOK
<1>. HIDE DEF h
<1>6. /\ call' \in [Threads -> Calls]
      /\ \A u \in Threads \ {t} : call'[u] = call[u]
      /\ call'[t] = h
  BY <1>4, <1>5, CallUpdate DEF IInv
<1>7. call[t].players \in Seq(Players) /\ 1 \in DOMAIN call[t].players
  BY <1>1 DEF Calls
<1>8. TypeOK'
  BY <1>2, <1>3, <1>6, <1>7 DEF IInv, TypeOK, sessionVars, RoomStates
<1>9. ServesPlayers' /\ ConnectionsSpeakForSessions'
  BY <1>1, <1>3, <1>4, <1>6
  DEF IInv, ServesPlayers, ConnectionsSpeakForSessions, LostSteps, sessionVars
<1>10. Forming'
  BY <1>1, <1>4, <1>6 DEF IInv, RoomInv, Forming, FormingSteps, Threads
<1>11. /\ room_state'[r] = "open" /\ seats'[r] = call[t].players
       /\ \A s \in Rooms \ {r} : room_state'[s] = room_state[s] /\ seats'[s] = seats[s]
  BY <1>2 DEF IInv, TypeOK
<1>12. Seating'
  BY <1>1, <1>2, <1>4, <1>6, <1>7, <1>11 DEF IInv, RoomInv, Seating
<1>13. Settling'
  <2>1. h.step \notin SettlingSteps /\ UNCHANGED session_room
    BY <1>3, <1>4 DEF SettlingSteps, sessionVars
  <2>2. \A u \in Threads : call'[u].step \in SettlingSteps => call'[u] = call[u]
    BY <1>6, <2>1
  <2>3. \A u \in Threads : call[u].step \in SettlingSteps => call[u].room \in Rooms \ {r}
    BY <1>2 DEF IInv, RoomInv, Settling
  <2>4. \A u \in Threads : call'[u].step \in SettlingSteps =>
          \A i \in DOMAIN call'[u].players : Cleared(u, i)' => Cleared(u, i)
    BY <2>2 DEF Cleared
  <2>5. QED
    BY <1>11, <2>1, <2>2, <2>3, <2>4 DEF IInv, RoomInv, Settling
<1>14. SessionsNameTheirRoom'
  <2>1. \A p \in Players : session_room[p] # NoRoom =>
          session_room[p] \in Rooms \ {r}
    BY <1>2 DEF IInv, TypeOK, RoomInv, SessionsNameTheirRoom, Exists
  <2>2. QED
    BY <1>3, <1>11, <2>1
    DEF IInv, RoomInv, SessionsNameTheirRoom, Exists, SeatedIn, sessionVars
<1>15. QED
  BY <1>8, <1>9, <1>10, <1>12, <1>13, <1>14 DEF IInv, RoomInv

(* The session of a player who is seated names the room, which is open.    *)
LEMMA SetRoomIdPreserves ==
  ASSUME IInv, NEW t \in Threads, SetRoomId(t)
  PROVE  IInv'
<1> DEFINE r == call[t].room
           p == ThisPlayer(t)
<1>1. /\ call[t].step = "SetRoomId" /\ call[t].player \in Players /\ t # Timer
      /\ r \in Rooms /\ room_state[r] = "open" /\ seats[r] = call[t].players
      /\ call[t].next \in DOMAIN call[t].players
  BY DEF SetRoomId, At, IInv, ServesPlayers, SettlingSteps, RoomInv, Forming, MatchSteps,
         Seating, SeatingSteps
<1>2. p \in Players
  BY <1>1 DEF ThisPlayer, IInv, TypeOK, Calls
<1>3. /\ session_room' = [session_room EXCEPT ![p] = r]
      /\ UNCHANGED <<conn_state, conn_to_player, session_connection, online,
                     player_state, queue, roomVars>>
      /\ GoTo(t, "ForceInRoom")
  BY DEF SetRoomId
<1>4. "ForceInRoom" \in Steps
  BY DEF Steps, MatchSteps
<1>5. /\ call' \in [Threads -> Calls]
      /\ \A u \in Threads \ {t} : call'[u] = call[u]
      /\ call'[t].step = "ForceInRoom"
      /\ call'[t].player = call[t].player
      /\ call'[t].room = call[t].room
      /\ call'[t].players = call[t].players
      /\ call'[t].next = call[t].next
  BY <1>3, <1>4, GoToEffect DEF IInv
<1>6. TypeOK'
  BY <1>1, <1>3, <1>5 DEF IInv, TypeOK, roomVars
<1>7. ServesPlayers' /\ ConnectionsSpeakForSessions'
  BY <1>1, <1>3, <1>5 DEF IInv, ServesPlayers, ConnectionsSpeakForSessions, LostSteps
<1>8. Forming'
  BY <1>1, <1>5 DEF IInv, RoomInv, Forming, FormingSteps, Threads
<1>9. Seating'
  BY <1>1, <1>3, <1>5 DEF IInv, RoomInv, Seating, roomVars
<1>10. /\ session_room'[p] = r
       /\ \A q \in Players \ {p} : session_room'[q] = session_room[q]
  BY <1>2, <1>3 DEF IInv, TypeOK
<1>11. Settling'
  <2>1. \A u \in Threads : call'[u].step \in SettlingSteps => u # t /\ call'[u] = call[u]
    BY <1>5 DEF SettlingSteps
  <2>2. ASSUME NEW u \in Threads, call[u].step \in SettlingSteps,
               NEW i \in DOMAIN call[u].players, Cleared(u, i)
        PROVE  session_room'[call[u].players[i]] # call[u].room
    <3>1. /\ call[u].room # r
          /\ session_room[call[u].players[i]] # call[u].room
      BY <1>1, <2>2 DEF IInv, RoomInv, Settling
    <3>2. call[u].players[i] \in Players
      BY <2>2 DEF IInv, TypeOK, Calls
    <3>3. QED
      BY <1>10, <3>1, <3>2
  <2>3. \A u \in Threads : call'[u].step \in SettlingSteps =>
          \A i \in DOMAIN call'[u].players : Cleared(u, i)' => Cleared(u, i)
    BY <2>1 DEF Cleared
  <2>4. UNCHANGED <<room_state, seats>>
    BY <1>3 DEF roomVars
  <2>5. QED
    BY <2>1, <2>2, <2>3, <2>4 DEF IInv, RoomInv, Settling
<1>12. SessionsNameTheirRoom'
  <2>1. Exists(r) /\ SeatedIn(p, r)
    BY <1>1 DEF Exists, SeatedIn, ThisPlayer
  <2>2. QED
    BY <1>3, <1>10, <2>1
    DEF IInv, RoomInv, SessionsNameTheirRoom, Exists, SeatedIn, roomVars
<1>13. QED
  BY <1>6, <1>7, <1>8, <1>9, <1>11, <1>12 DEF IInv, RoomInv
(* A player who is seated is InRoom, and the next one's turn has come.     *)
LEMMA ForceInRoomPreserves ==
  ASSUME IInv, NEW t \in Threads, ForceInRoom(t)
  PROVE  IInv'
<1>1. /\ call[t].step = "ForceInRoom" /\ call[t].player \in Players /\ t # Timer
      /\ call[t] \in Calls /\ call[t].next \in DOMAIN call[t].players
  BY DEF ForceInRoom, At, IInv, TypeOK, ServesPlayers, SettlingSteps, RoomInv, Forming,
         MatchSteps, Seating, SeatingSteps
<1>2. /\ UNCHANGED <<conn_state, sessionVars, queue, roomVars>>
      /\ player_state' \in [Players -> PlayerStates]
      /\ NextPlayer(t, "SetRoomId", "idle")
  BY ForceStateTyped DEF ForceInRoom, PlayerStates, IInv
<1>3. {"SetRoomId", "idle"} \subseteq Steps
  BY DEF Steps, MatchSteps
<1>4. /\ call' \in [Threads -> Calls]
      /\ \A u \in Threads \ {t} : call'[u] = call[u]
      /\ \/ /\ call'[t].step = "SetRoomId"
            /\ call'[t].next = call[t].next + 1
            /\ call[t].next < Len(call[t].players)
            /\ call'[t].room = call[t].room
            /\ call'[t].players = call[t].players
            /\ call'[t].player = call[t].player
         \/ call'[t].step = "idle"
  BY <1>2, <1>3, NextPlayerEffect DEF IInv
<1>5. TypeOK'
  BY <1>2, <1>4 DEF IInv, TypeOK, sessionVars, roomVars
<1>6. ServesPlayers' /\ ConnectionsSpeakForSessions'
  BY <1>1, <1>2, <1>4
  DEF IInv, ServesPlayers, ConnectionsSpeakForSessions, LostSteps, sessionVars
<1>7. Forming'
  BY <1>1, <1>4 DEF IInv, RoomInv, Forming, FormingSteps, Threads
<1>8. Seating'
  <2>1. call[t].next < Len(call[t].players) =>
          call[t].next + 1 \in DOMAIN call[t].players
    BY <1>1 DEF Calls
  <2>2. QED
    BY <1>1, <1>2, <1>4, <2>1 DEF IInv, RoomInv, Seating, SeatingSteps, roomVars
<1>9. Settling'
  BY <1>2, <1>4 DEF IInv, RoomInv, Settling, Cleared, SettlingSteps, sessionVars, roomVars
<1>10. SessionsNameTheirRoom'
  BY <1>2 DEF IInv, RoomInv, SessionsNameTheirRoom, Exists, SeatedIn, sessionVars, roomVars
<1>11. QED
  BY <1>5, <1>6, <1>7, <1>8, <1>9, <1>10 DEF IInv, RoomInv

(* A settlement begins in a room in which nobody is being seated.          *)
LEMMA SettlePreserves ==
  ASSUME IInv, NEW t \in Threads, NEW r \in Rooms, NEW g \in Calls,
         g.next = 1, g.step = "idle", call[t].step = "idle",
         Settle(t, g, r)
  PROVE  IInv'
<1> DEFINE h == [g EXCEPT !.step = "ClearRoomId", !.room = r, !.players = seats[r]]
<1>1. /\ room_state[r] = "open" /\ seats[r] \in Seq(Players)
      /\ room_state' = [room_state EXCEPT ![r] = "settling"]
      /\ UNCHANGED <<conn_state, sessionVars, player_state, queue, seats>>
      /\ \A u \in Workers : InMatch(u) => call[u].room # r
      /\ call' = [call EXCEPT ![t] = h]
  BY DEF Settle, IInv, TypeOK
<1>2. /\ h \in Calls /\ h.step = "ClearRoomId" /\ h.room = r
      /\ h.players = seats[r] /\ h.next = 1
  <2>1. "ClearRoomId" \in Steps
    BY DEF Steps
  <2>2. QED
    BY <1>1, <2>1 DEF Calls
<1>. HIDE DEF h
<1>3. /\ call' \in [Threads -> Calls]
      /\ \A u \in Threads \ {t} : call'[u] = call[u]
      /\ call'[t] = h
  BY <1>1, <1>2, CallUpdate DEF IInv
<1>4. TypeOK'
  BY <1>1, <1>3 DEF IInv, TypeOK, sessionVars, RoomStates
<1>5. ServesPlayers' /\ ConnectionsSpeakForSessions'
  BY <1>1, <1>2, <1>3
  DEF IInv, ServesPlayers, ConnectionsSpeakForSessions, LostSteps, SettlingSteps, sessionVars
<1>6. Forming'
  BY <1>2, <1>3 DEF IInv, RoomInv, Forming, FormingSteps, MatchSteps, Threads
<1>7. /\ room_state'[r] = "settling"
      /\ \A s \in Rooms \ {r} : room_state'[s] = room_state[s]
  BY <1>1 DEF IInv, TypeOK
<1>8. Seating'
  <2>1. \A u \in Threads : call[u].step \in SeatingSteps => call[u].room # r
    BY <1>1 DEF IInv, RoomInv, Forming, Threads, InMatch, SeatingSteps, MatchSteps
  <2>2. h.step \notin SeatingSteps
    BY <1>2 DEF SeatingSteps
  <2>3. QED
    BY <1>1, <1>3, <1>7, <2>1, <2>2 DEF IInv, RoomInv, Seating
<1>9. Settling'
  <2>1. \A u \in Threads : call[u].step \in SettlingSteps => call[u].room # r
    BY <1>1 DEF IInv, RoomInv, Settling
  <2>2. \A i \in DOMAIN h.players : ~Cleared(t, i)'
    BY <1>1, <1>2, <1>3 DEF Cleared
  <2>3. UNCHANGED <<session_room, seats>>
    BY <1>1 DEF sessionVars
  <2>4. \A u \in Threads \ {t}, i \in Nat : Cleared(u, i)' <=> Cleared(u, i)
    BY <1>3 DEF Cleared
  <2>5. \A u \in Threads : DOMAIN call[u].players \subseteq Nat
    BY DEF IInv, TypeOK, Calls
  <2>6. QED
    BY <1>2, <1>3, <1>7, <2>1, <2>2, <2>3, <2>4, <2>5 DEF IInv, RoomInv, Settling
<1>10. SessionsNameTheirRoom'
  BY <1>1, <1>7 DEF IInv, RoomInv, SessionsNameTheirRoom, Exists, SeatedIn, sessionVars
<1>11. QED
  BY <1>4, <1>5, <1>6, <1>8, <1>9, <1>10 DEF IInv, RoomInv
(* The session of one player more no longer names the room.                *)
LEMMA ClearRoomIdPreserves ==
  ASSUME IInv, NEW t \in Threads, ClearRoomId(t)
  PROVE  IInv'
<1> DEFINE r == call[t].room
           p == ThisPlayer(t)
<1>1. call[t].step = "ClearRoomId" /\ r \in Rooms
  BY DEF ClearRoomId, At, IInv, RoomInv, Settling, SettlingSteps
<1>2. /\ session_room' = [session_room EXCEPT ![p] = NoRoom]
      /\ UNCHANGED <<conn_state, conn_to_player, session_connection, online,
                     player_state, queue, room_state, seats>>
      /\ GoTo(t, "Release")
  BY DEF ClearRoomId, roomVars
<1>3. "Release" \in Steps
  BY DEF Steps
<1>4. /\ call' \in [Threads -> Calls]
      /\ \A u \in Threads \ {t} : call'[u] = call[u]
      /\ call'[t].step = "Release"
      /\ call'[t].room = call[t].room
      /\ call'[t].players = call[t].players
      /\ call'[t].next = call[t].next
  BY <1>2, <1>3, GoToEffect DEF IInv
<1>5. TypeOK'
  BY <1>2, <1>4 DEF IInv, TypeOK
<1>6. ServesPlayers' /\ ConnectionsSpeakForSessions'
  BY <1>2, <1>4
  DEF IInv, ServesPlayers, ConnectionsSpeakForSessions, LostSteps, SettlingSteps
<1>7. Forming' /\ Seating'
  BY <1>2, <1>4
  DEF IInv, RoomInv, Forming, FormingSteps, MatchSteps, Threads, Seating, SeatingSteps
<1>8. /\ \A q \in Players : session_room'[q] \in {session_room[q], NoRoom}
      /\ \A q \in Players : q = p => session_room'[q] = NoRoom
      /\ NoRoom \notin Rooms
  BY <1>2, RoomsAssumption DEF IInv, TypeOK, NoRoom
<1>9. Settling'
  <2>1. \A u \in Threads : /\ call'[u].step \in SettlingSteps => call[u].step \in SettlingSteps
                           /\ call'[u].room = call[u].room
                           /\ call'[u].players = call[u].players
    BY <1>1, <1>4 DEF SettlingSteps
  <2>2. ASSUME NEW u \in Threads, call[u].step \in SettlingSteps,
               NEW i \in DOMAIN call[u].players, Cleared(u, i)'
        PROVE  session_room'[call[u].players[i]] # call[u].room
    <3>1. /\ call[u].players[i] \in Players
          /\ call[u].room \in Rooms
      BY <2>2 DEF IInv, TypeOK, Calls, RoomInv, Settling
    <3>2. CASE Cleared(u, i)
      BY <1>8, <2>2, <3>1, <3>2 DEF IInv, RoomInv, Settling
    <3>3. CASE u = t /\ i = call[t].next
      BY <1>8, <3>1, <3>3 DEF ThisPlayer
    <3>4. QED
      BY <1>1, <1>4, <2>2, <3>2, <3>3 DEF Cleared
  <2>3. QED
    BY <1>2, <2>1, <2>2 DEF IInv, RoomInv, Settling
<1>10. SessionsNameTheirRoom'
  BY <1>2, <1>8 DEF IInv, RoomInv, SessionsNameTheirRoom, Exists, SeatedIn
<1>11. QED
  BY <1>5, <1>6, <1>7, <1>9, <1>10 DEF IInv, RoomInv

(* Behind the last player all of the room have left it.                    *)
LEMMA ReleasePreserves ==
  ASSUME IInv, NEW t \in Threads, Release(t)
  PROVE  IInv'
<1>1. call[t].step = "Release" /\ call[t] \in Calls
  BY DEF Release, At, IInv, TypeOK
<1>2. /\ UNCHANGED <<conn_state, conn_to_player, session_connection, session_room, online,
                     queue, room_state, seats>>
      /\ player_state' \in [Players -> PlayerStates]
      /\ NextPlayer(t, "ClearRoomId", "DestroyRoom")
  BY ForceStateTyped DEF Release, PlayerStates, IInv, sessionVars, roomVars
<1>3. {"ClearRoomId", "DestroyRoom"} \subseteq Steps
  BY DEF Steps
<1>4. /\ call' \in [Threads -> Calls]
      /\ \A u \in Threads \ {t} : call'[u] = call[u]
      /\ call'[t].room = call[t].room
      /\ call'[t].players = call[t].players
      /\ \/ /\ call'[t].step = "ClearRoomId"
            /\ call'[t].next = call[t].next + 1
         \/ /\ call'[t].step = "DestroyRoom"
            /\ ~(call[t].next < Len(call[t].players))
  BY <1>2, <1>3, NextPlayerEffect DEF IInv
<1>5. TypeOK'
  BY <1>2, <1>4 DEF IInv, TypeOK
<1>6. ServesPlayers' /\ ConnectionsSpeakForSessions'
  BY <1>2, <1>4
  DEF IInv, ServesPlayers, ConnectionsSpeakForSessions, LostSteps, SettlingSteps
<1>7. Forming' /\ Seating'
  BY <1>2, <1>4
  DEF IInv, RoomInv, Forming, FormingSteps, MatchSteps, Threads, Seating, SeatingSteps
<1>8. Settling'
  <2>1. \A u \in Threads : /\ call'[u].step \in SettlingSteps => call[u].step \in SettlingSteps
                           /\ call'[u].room = call[u].room
                           /\ call'[u].players = call[u].players
    BY <1>1, <1>4 DEF SettlingSteps
  <2>2. ASSUME NEW u \in Threads, NEW i \in DOMAIN call[u].players, Cleared(u, i)'
        PROVE  Cleared(u, i)
    <3>1. CASE u = t
      <4>1. i \in 1..Len(call[t].players) /\ call[t].next \in Nat
        BY <1>1, <3>1 DEF Calls
      <4>2. i < call[t].next \/ i = call[t].next
        BY <1>4, <2>2, <3>1, <4>1 DEF Cleared
      <4>3. QED
        BY <1>1, <3>1, <4>2 DEF Cleared
    <3>2. CASE u # t
      BY <1>4, <2>2, <3>2 DEF Cleared
    <3>3. QED
      BY <3>1, <3>2
  <2>3. QED
    BY <1>2, <2>1, <2>2 DEF IInv, RoomInv, Settling
<1>9. SessionsNameTheirRoom'
  BY <1>2 DEF IInv, RoomInv, SessionsNameTheirRoom, Exists, SeatedIn
<1>10. QED
  BY <1>5, <1>6, <1>7, <1>8, <1>9 DEF IInv, RoomInv

(* No session names a room that is destroyed.                              *)
LEMMA DestroyRoomPreserves ==
  ASSUME IInv, NEW t \in Threads, DestroyRoom(t)
  PROVE  IInv'
<1> DEFINE r == call[t].room
<1>1. /\ call[t].step = "DestroyRoom" /\ r \in Rooms /\ room_state[r] = "settling"
      /\ seats[r] = call[t].players
      /\ \A i \in DOMAIN seats[r] : session_room[seats[r][i]] # r
  BY DEF DestroyRoom, At, IInv, RoomInv, Settling, SettlingSteps, Cleared
<1>2. /\ room_state' = [room_state EXCEPT ![r] = "destroyed"]
      /\ UNCHANGED <<conn_state, conn_to_player, session_connection, session_room, online,
                     player_state, queue, seats>>
      /\ Done(t)
  BY DEF DestroyRoom, sessionVars
<1>3. /\ call' \in [Threads -> Calls]
      /\ \A u \in Threads \ {t} : call'[u] = call[u]
      /\ call'[t].step = "idle"
  BY <1>2, DoneEffect DEF IInv
<1>4. TypeOK'
  BY <1>2, <1>3 DEF IInv, TypeOK, RoomStates
<1>5. ServesPlayers' /\ ConnectionsSpeakForSessions'
  BY <1>2, <1>3
  DEF IInv, ServesPlayers, ConnectionsSpeakForSessions, LostSteps, SettlingSteps
<1>6. Forming'
  BY <1>3 DEF IInv, RoomInv, Forming, FormingSteps, MatchSteps, Threads
<1>7. \A s \in Rooms \ {r} : room_state'[s] = room_state[s]
  BY <1>2 DEF IInv, TypeOK
<1>8. Seating'
  BY <1>1, <1>2, <1>3, <1>7 DEF IInv, RoomInv, Seating, SeatingSteps
<1>9. Settling'
  <2>1. \A u \in Threads : call'[u].step \in SettlingSteps => u # t /\ call'[u] = call[u]
    BY <1>3 DEF SettlingSteps
  <2>2. \A u \in Threads \ {t} : call[u].step \in SettlingSteps => call[u].room # r
    BY <1>1 DEF IInv, RoomInv, Settling, SettlingSteps
  <2>3. \A u \in Threads \ {t} :
          \A i \in DOMAIN call'[u].players : Cleared(u, i)' => Cleared(u, i)
    BY <1>3 DEF Cleared
  <2>4. QED
    BY <1>2, <1>7, <2>1, <2>2, <2>3 DEF IInv, RoomInv, Settling
<1>10. SessionsNameTheirRoom'
  <2>1. \A p \in Players : session_room[p] # r
    BY <1>1, RoomsAssumption
    DEF IInv, RoomInv, SessionsNameTheirRoom, SeatedIn, NoRoom
  <2>2. \A p \in Players : session_room[p] # NoRoom => session_room[p] \in Rooms \ {r}
    BY <2>1 DEF IInv, TypeOK
  <2>3. QED
    BY <1>2, <1>7, <2>2 DEF IInv, RoomInv, SessionsNameTheirRoom, Exists, SeatedIn
<1>11. QED
  BY <1>4, <1>5, <1>6, <1>8, <1>9, <1>10 DEF IInv, RoomInv
(* A worker or the timer settles a room.                                   *)
LEMMA SettleByPreserves ==
  ASSUME IInv, NEW r \in Rooms,
         SettleByTimer(r) \/ \E c \in Conns : SettleGameOver(c, r)
  PROVE  IInv'
<1>1. Idle \in Calls /\ Idle.step = "idle" /\ Idle.next = 1
  BY IdleTyped DEF Idle
<1>2. CASE SettleByTimer(r)
  BY <1>1, <1>2, SettlePreserves DEF SettleByTimer, At, Threads
<1>3. ASSUME NEW c \in Conns, SettleGameOver(c, r)
      PROVE  IInv'
  <2> DEFINE g == [Idle EXCEPT !.conn = c, !.player = conn_to_player[c]]
  <2>1. conn_to_player[c] \in Players /\ Owner[c] \in Threads
    BY <1>3, ThreadsAssumption DEF SettleGameOver, IInv, TypeOK, Threads
  <2>2. g \in Calls /\ g.step = "idle" /\ g.next = 1
    BY <1>1, <2>1 DEF Calls
  <2>3. Settle(Owner[c], g, r) /\ call[Owner[c]].step = "idle"
    BY <1>3 DEF SettleGameOver, Receive, At
  <2>. HIDE DEF g
  <2>4. QED
    BY <2>1, <2>2, <2>3, SettlePreserves
<1>4. QED
  BY <1>2, <1>3

-----------------------------------------------------------------------------
(* Every step keeps IInv.                                                  *)
LEMMA NextPreserves == IInv /\ [Next]_vars => IInv'
<1> SUFFICES ASSUME IInv, [Next]_vars PROVE IInv'
  OBVIOUS
<1>1. ASSUME NEW c \in Conns, Accept(c) \/ ForgetRemoved(c) \/ Request(c)
      PROVE  IInv'
  <2>1. CASE Accept(c) \/ ForgetRemoved(c)
    BY <2>1, ConnectionsComeAndGo
  <2>2. ASSUME NEW p \in Players, Login(c, p) \/ Reconnect(c, p)
        PROVE  IInv'
    BY <2>2, RequestPreserves
  <2>3. CASE Match(c) \/ CancelMatch(c)
    <3>1. conn_to_player[c] \in Players
      BY <2>3 DEF Match, CancelMatch, IInv, TypeOK
    <3>2. QED
      BY <2>3, <3>1, RequestPreserves
  <2>4. CASE ConnectionClosed(c)
    BY <2>4, ConnectionClosedPreserves
  <2>5. ASSUME NEW r \in Rooms, SettleGameOver(c, r)
        PROVE  IInv'
    BY <2>5, SettleByPreserves
  <2>6. QED
    BY <1>1, <2>1, <2>2, <2>3, <2>4, <2>5 DEF Request
<1>2. CASE TimerTick
  BY <1>2, ConnectionsComeAndGo, PopTimeoutPreserves, SettleByPreserves DEF TimerTick
<1>3. ASSUME NEW t \in Threads, Continue(t)
      PROVE  IInv'
  <2>1. CASE \/ LoginState(t) \/ Kick(t) \/ ReconnectState(t)
             \/ CheckLobby(t) \/ Join(t) \/ SetMatching(t) \/ LeaveQueue(t)
             \/ CheckMatching(t) \/ Cancel(t) \/ BackToLobby(t)
             \/ WasMatching(t) \/ CancelLost(t) \/ ForceOffline(t)
    BY <2>1, CallsPreserve
  <2>2. CASE BindLogin(t) \/ RebindForReconnect(t) \/ MarkOfflineByConnection(t)
    BY <2>2, BindLoginPreserves, RebindPreserves, MarkOfflinePreserves
  <2>3. CASE TryPopMatchedPlayers(t) \/ CreateRoom(t) \/ SetRoomId(t) \/ ForceInRoom(t)
    BY <2>3, TryPopPreserves, CreateRoomPreserves, SetRoomIdPreserves, ForceInRoomPreserves
  <2>4. CASE CheckTimedOut \/ ForceTimedOut
    BY <2>4, TimedOutPreserves
  <2>5. CASE ClearRoomId(t) \/ Release(t) \/ DestroyRoom(t)
    BY <2>5, ClearRoomIdPreserves, ReleasePreserves, DestroyRoomPreserves
  <2>6. QED
    BY <1>3, <2>1, <2>2, <2>3, <2>4, <2>5 DEF Continue
<1>4. CASE UNCHANGED vars
  <2>1. TypeOK' /\ ServesPlayers' /\ ConnectionsSpeakForSessions'
    BY <1>4 DEF vars, sessionVars, roomVars, IInv, TypeOK, ServesPlayers,
                ConnectionsSpeakForSessions
  <2>2. RoomInv'
    BY <1>4 DEF vars, sessionVars, roomVars, IInv, RoomInv, Forming, Seating, Settling,
                Cleared, SessionsNameTheirRoom, Exists, SeatedIn
  <2>3. QED
    BY <2>1, <2>2 DEF IInv
<1>5. QED
  BY <1>1, <1>2, <1>3, <1>4 DEF Next

LEMMA Invariance == Spec => []IInv
<1>1. Init => IInv
  BY InitIInv
<1>2. IInv /\ [Next]_vars => IInv'
  BY NextPreserves
<1>3. QED
  BY <1>1, <1>2, PTL DEF Spec

(* Whatever the threads do, connections, sessions, the queue, rooms and    *)
(* handlers keep their types.                                              *)
THEOREM TypeCorrect == Spec => []TypeOK
<1>1. IInv => TypeOK
  BY DEF IInv
<1>2. QED
  BY <1>1, Invariance, PTL

(* For any number of threads and with any requests under way, a connection *)
(* that may speak for a player is the one his session names, and that      *)
(* session is online.                                                      *)
THEOREM SessionsAgree == Spec => []ConnectionsSpeakForSessions
<1>1. IInv => ConnectionsSpeakForSessions
  BY DEF IInv
<1>2. QED
  BY <1>1, Invariance, PTL

(* No session ever names a room that is not there, or not its player's,    *)
(* while the threads seat some players and release others.                 *)
THEOREM RoomsAgree == Spec => []SessionsNameTheirRoom
<1>1. IInv => SessionsNameTheirRoom
  BY DEF IInv, RoomInv
<1>2. QED
  BY <1>1, Invariance, PTL

-----------------------------------------------------------------------------
(* The queue.  From here on players wait for their answers.                *)

LoopSteps == {"ClearRoomId", "Release", "DestroyRoom", "CheckTimedOut", "ForceTimedOut"}

(* While the match request of t is under way nothing else is done for its  *)
(* player, except that another request pops and seats him.                 *)
Undisturbed(t) ==
  /\ call[t].conn \in Conns /\ Owner[call[t].conn] = t
  /\ \A c \in Conns : conn_to_player[c] = call[t].player => c = call[t].conn
  /\ \A u \in Threads \ {t} : ~At(u, "idle") => call[u].player # call[t].player
  /\ \A u \in Threads : call[u].step \in LoopSteps =>
       \A i \in DOMAIN call[u].players : call[u].players[i] # call[t].player

Alone == \A t \in Threads : InMatch(t) => Undisturbed(t)

(* Thread t has popped p for a room and has not sent him there yet.        *)
SeatingFor(t, p) ==
  /\ call[t].step \in {"CreateRoom", "SetRoomId", "ForceInRoom"}
  /\ \E i \in DOMAIN call[t].players : call[t].next <= i /\ call[t].players[i] = p

(* Thread t will say what becomes of p, who is out of the queue.           *)
Attends(t, p) ==
  \/ SeatingFor(t, p)
  \/ /\ call[t].step \in {"CheckTimedOut", "ForceTimedOut"}
     /\ \E i \in DOMAIN call[t].players : call[t].next <= i /\ call[t].players[i] = p
  \/ call[t].step \in {"BackToLobby", "MarkOffline", "ForceOffline"} /\ call[t].player = p

Attended ==
  \A p \in Players : player_state[p] = "Matching" =>
    Queued(p) \/ \E t \in Threads : Attends(t, p)

(* A player who has joined the queue is in it, or has been popped.         *)
Joined ==
  \A t \in Threads : At(t, "SetMatching") =>
    \/ Queued(call[t].player)
    \/ \E u \in Threads : SeatingFor(u, call[t].player)
    \/ player_state[call[t].player] = "InRoom"

(* Who takes his player back out of the queue has not made him Matching.   *)
Leaving ==
  \A t \in Threads : At(t, "LeaveQueue") => player_state[call[t].player] # "Matching"

(* A loop is at one of its players, since a room has some.                 *)
Looping ==
  /\ \A t \in Threads : call[t].step \in LoopSteps \ {"DestroyRoom"} =>
       call[t].next \in DOMAIN call[t].players
  /\ \A r \in Rooms : room_state[r] = "open" => seats[r] # <<>>

QueueInv == Looping /\ Alone /\ Attended /\ Joined /\ Leaving

LEMMA InitQueueInv == Init => QueueInv
<1> SUFFICES ASSUME Init PROVE QueueInv
  OBVIOUS
<1>1. \A t \in Threads : call[t].step = "idle"
  BY DEF Init, Idle
<1>2. Alone
  BY <1>1 DEF Alone, Undisturbed, InMatch, MatchSteps
<1>3. Attended
  BY DEF Init, Attended
<1>4. Joined /\ Leaving
  BY <1>1 DEF Joined, Leaving, At
<1>5. Looping
  BY <1>1 DEF Init, Looping, LoopSteps
<1>6. QED
  BY <1>2, <1>3, <1>4, <1>5 DEF QueueInv

(* A match request is a worker's, and it serves somebody.                  *)
LEMMA MatchIsServed ==
  ASSUME IInv, NEW t \in Threads, InMatch(t)
  PROVE  t \in Workers /\ call[t].player \in Players /\ call[t].step # "idle"
BY Served DEF IInv, RoomInv, Forming, InMatch, MatchSteps, SettlingSteps, Threads

-----------------------------------------------------------------------------
(* What a handler that goes on does to its record and to the connections.  *)
GoesOn(t) ==
  /\ \A u \in Threads \ {t} : call'[u] = call[u]
  /\ call[t].step # "idle"
  /\ \/ call'[t].step = "idle"
     \/ call'[t].player = call[t].player /\ call'[t].conn = call[t].conn
  /\ call'[t].step \in MatchSteps => call[t].step \in MatchSteps
  /\ call'[t].step \in LoopSteps =>
       call[t].step \in LoopSteps /\ call'[t].players = call[t].players
  /\ \A c \in Conns : conn_to_player'[c] # Nobody =>
       \/ conn_to_player'[c] = conn_to_player[c]
       \/ call'[t].step \notin MatchSteps /\ conn_to_player'[c] = call[t].player

(* Nothing is begun for the players of match requests.                     *)
LEMMA GoesOnAlone ==
  ASSUME IInv, QueueInv, NEW t \in Threads, GoesOn(t)
  PROVE  Alone'
<1> SUFFICES ASSUME NEW u \in Threads, InMatch(u)'
             PROVE  Undisturbed(u)'
  BY DEF Alone
<1> DEFINE p == call[u].player
<1>0. "idle" \notin MatchSteps /\ "idle" \notin LoopSteps /\ Nobody \notin Players
  BY PlayersAssumption DEF MatchSteps, LoopSteps, Nobody
<1>1. InMatch(u) /\ call'[u].player = p /\ call'[u].conn = call[u].conn
  BY <1>0 DEF GoesOn, InMatch
<1>2. p \in Players /\ call[u].step # "idle"
  BY <1>1, MatchIsServed
<1>3. /\ call[u].conn \in Conns /\ Owner[call[u].conn] = u
      /\ \A c \in Conns : conn_to_player[c] = p => c = call[u].conn
      /\ \A v \in Threads \ {u} : call[v].step # "idle" => call[v].player # p
      /\ \A v \in Threads : call[v].step \in LoopSteps =>
           \A i \in DOMAIN call[v].players : call[v].players[i] # p
  BY <1>1 DEF QueueInv, Alone, Undisturbed, At
<1>4. ASSUME NEW c \in Conns, conn_to_player'[c] = p
      PROVE  c = call[u].conn
  <2>1. conn_to_player'[c] = conn_to_player[c] \/ (u # t /\ p = call[t].player)
    BY <1>0, <1>2, <1>4 DEF GoesOn, InMatch
  <2>2. QED
    BY <1>3, <1>4, <2>1 DEF GoesOn
<1>5. \A v \in Threads \ {u} : call'[v].step # "idle" => call'[v].player # p
  BY <1>3 DEF GoesOn
<1>6. \A v \in Threads : call'[v].step \in LoopSteps =>
        \A i \in DOMAIN call'[v].players : call'[v].players[i] # p
  BY <1>3 DEF GoesOn
<1>7. QED
  BY <1>1, <1>3, <1>4, <1>5, <1>6 DEF At, Undisturbed

(* A step of t that makes nobody Matching and leaves to t whoever it takes *)
(* out of the queue.                                                       *)
LEMMA WaitingKept ==
  ASSUME IInv, QueueInv, NEW t \in Threads,
         \A u \in Threads \ {t} : call'[u] = call[u],
         call'[t].step \notin {"SetMatching", "LeaveQueue"},
         \A p \in Players : player_state'[p] = "Matching" =>
           /\ player_state[p] = "Matching"
           /\ Queued(p) \/ Attends(t, p) => Queued(p)' \/ Attends(t, p)',
         \A p \in Players, u \in Threads \ {t} : InMatch(u) /\ call[u].player = p =>
           /\ player_state'[p] = "Matching" => player_state[p] = "Matching"
           /\ Queued(p) \/ SeatingFor(t, p) \/ player_state[p] = "InRoom"
                => Queued(p)' \/ SeatingFor(t, p)' \/ player_state'[p] = "InRoom"
  PROVE  Attended' /\ Joined' /\ Leaving'
<1>1. Attended'
  <2>1. SUFFICES ASSUME NEW p \in Players, player_state'[p] = "Matching", ~Queued(p)',
                        \A u \in Threads : ~Attends(u, p)'
                 PROVE  FALSE
    BY DEF Attended
  <2>2. \A u \in Threads \ {t} : ~Attends(u, p)
    BY <2>1 DEF Attends, SeatingFor
  <2>3. QED
    BY <2>1, <2>2 DEF QueueInv, Attended
<1>2. Joined'
  <2>1. SUFFICES ASSUME NEW u \in Threads, call'[u].step = "SetMatching"
                 PROVE  \/ Queued(call[u].player)'
                        \/ \E v \in Threads : SeatingFor(v, call[u].player)'
                        \/ player_state'[call'[u].player] = "InRoom"
    BY DEF Joined, At
  <2>2. u # t /\ call'[u] = call[u] /\ At(u, "SetMatching") /\ InMatch(u)
    BY <2>1 DEF At, InMatch, MatchSteps
  <2>3. PICK p \in Players : p = call[u].player
    BY <2>2, MatchIsServed
  <2>4. SUFFICES \/ Queued(p)' \/ \E v \in Threads : SeatingFor(v, p)'
                 \/ player_state'[p] = "InRoom"
    BY <2>2, <2>3 DEF Queued, SeatingFor
  <2>5. \A v \in Threads \ {t} : SeatingFor(v, p) => SeatingFor(v, p)'
    BY DEF SeatingFor
  <2>6. Queued(p) \/ (\E v \in Threads : SeatingFor(v, p)) \/ player_state[p] = "InRoom"
    BY <2>2, <2>3 DEF QueueInv, Joined
  <2>7. QED
    BY <2>2, <2>3, <2>5, <2>6
<1>3. Leaving'
  <2>1. SUFFICES ASSUME NEW u \in Threads, call'[u].step = "LeaveQueue"
                 PROVE  player_state'[call'[u].player] # "Matching"
    BY DEF Leaving, At
  <2>2. u # t /\ call'[u] = call[u] /\ At(u, "LeaveQueue") /\ InMatch(u)
    BY <2>1 DEF At, InMatch, MatchSteps
  <2>3. QED
    BY <2>2, MatchIsServed DEF QueueInv, Leaving
<1>4. QED
  BY <1>1, <1>2, <1>3

-----------------------------------------------------------------------------
(* Every handler that is under way goes on so.                             *)

LEMMA PlainGoesOn ==
  ASSUME IInv, NEW t \in Threads, NEW step \in Steps, GoTo(t, step) \/ Done(t),
         call[t].step # "idle",
         step \in MatchSteps => call[t].step \in MatchSteps,
         step \in LoopSteps => call[t].step \in LoopSteps,
         \A c \in Conns : conn_to_player'[c] # Nobody => conn_to_player'[c] = conn_to_player[c]
  PROVE  GoesOn(t)
<1>1. CASE GoTo(t, step)
  BY <1>1, GoToEffect DEF IInv, GoesOn
<1>2. CASE Done(t)
  <2>1. (\A u \in Threads \ {t} : call'[u] = call[u]) /\ call'[t].step = "idle"
    BY <1>2, DoneEffect DEF IInv
  <2>2. QED
    BY <2>1 DEF GoesOn, MatchSteps, LoopSteps
<1>3. QED
  BY <1>1, <1>2

LEMMA LoopGoesOn ==
  ASSUME IInv, NEW t \in Threads, NEW step \in Steps, NEW after \in Steps,
         NextPlayer(t, step, after), call[t].step # "idle", UNCHANGED conn_to_player,
         {step, after} \cap MatchSteps # {} => call[t].step \in MatchSteps,
         {step, after} \cap LoopSteps # {} => call[t].step \in LoopSteps
  PROVE  GoesOn(t)
<1>1. /\ \A u \in Threads \ {t} : call'[u] = call[u]
      /\ \/ call'[t].step = "idle"
         \/ /\ call'[t].step \in {step, after} /\ call'[t].players = call[t].players
            /\ call'[t].player = call[t].player /\ call'[t].conn = call[t].conn
  BY NextPlayerEffect DEF IInv
<1>2. QED
  BY <1>1 DEF GoesOn, MatchSteps, LoopSteps

(* A login or reconnect gives its connection to its player.                *)
LEMMA BinderIsGoingOn ==
  ASSUME IInv, NEW t \in Threads, BindLogin(t) \/ RebindForReconnect(t)
  PROVE  GoesOn(t)
<1> DEFINE p == call[t].player
<1>1. /\ conn_to_player \in [Conns -> Players \cup {Nobody}]
      /\ call[t].step \in {"BindLogin", "Rebind"}
  BY DEF BindLogin, RebindForReconnect, At, IInv, TypeOK
<1>2. \A c \in Conns : conn_to_player'[c] # Nobody =>
        conn_to_player'[c] = conn_to_player[c] \/ conn_to_player'[c] = p
  BY <1>1 DEF BindLogin, RebindForReconnect, Bind, Unbound
<1>3. \/ call' = [call EXCEPT ![t].step = "Kick", ![t].old = session_connection[p]]
      \/ Done(t)
      \/ call' = [call EXCEPT
           ![t].step = "ReconnectState",
           ![t].old = IF online[p] /\ session_connection[p] # call[t].conn
                      THEN session_connection[p] ELSE NoConn]
  BY DEF BindLogin, RebindForReconnect
<1>4. /\ \A u \in Threads \ {t} : call'[u] = call[u]
      /\ \/ call'[t].step = "idle"
         \/ /\ call'[t].step \in {"Kick", "ReconnectState"}
            /\ call'[t].player = p /\ call'[t].conn = call[t].conn
  <2>1. CASE Done(t)
    BY <2>1, DoneEffect DEF IInv
  <2>2. ASSUME NEW step, NEW old, call' = [call EXCEPT ![t].step = step, ![t].old = old]
        PROVE  /\ \A u \in Threads \ {t} : call'[u] = call[u]
               /\ call'[t].step = step
               /\ call'[t].player = p /\ call'[t].conn = call[t].conn
    BY <2>2 DEF IInv, TypeOK, Calls
  <2>3. QED
    BY <1>3, <2>1, <2>2
<1>5. QED
  BY <1>1, <1>2, <1>4 DEF GoesOn, MatchSteps, LoopSteps

(* A match is popped, and gets its room.                                   *)
LEMMA FormerGoesOn ==
  ASSUME IInv, NEW t \in Threads, TryPopMatchedPlayers(t) \/ CreateRoom(t)
  PROVE  /\ GoesOn(t)
         /\ \/ Done(t)
            \/ /\ TryPopMatchedPlayers(t) /\ call'[t].step = "CreateRoom"
               /\ call'[t].players = SubSeq(queue, 1, RoomSize)
               /\ call'[t].next = call[t].next
            \/ /\ CreateRoom(t) /\ call'[t].step = "SetRoomId"
               /\ call'[t].players = call[t].players
               /\ call'[t].next = call[t].next
<1>1. call[t].step \in {"TryPop", "CreateRoom"} /\ UNCHANGED conn_to_player
  BY DEF TryPopMatchedPlayers, CreateRoom, At, sessionVars
<1>2. CASE Done(t)
  <2>1. "idle" \in Steps /\ "idle" \notin MatchSteps \cup LoopSteps /\ call[t].step # "idle"
    BY <1>1 DEF Steps, MatchSteps, LoopSteps
  <2>2. QED
    BY <1>1, <1>2, <2>1, PlainGoesOn
<1>3. ASSUME call' = [call EXCEPT ![t].step = "CreateRoom",
                                  ![t].players = SubSeq(queue, 1, RoomSize)]
      PROVE  /\ \A u \in Threads \ {t} : call'[u] = call[u]
             /\ call'[t].step = "CreateRoom"
             /\ call'[t].players = SubSeq(queue, 1, RoomSize)
             /\ call'[t].next = call[t].next
             /\ call'[t].player = call[t].player /\ call'[t].conn = call[t].conn
  BY <1>3 DEF IInv, TypeOK, Calls
<1>4. ASSUME NEW r, call' = [call EXCEPT ![t].step = "SetRoomId", ![t].room = r]
      PROVE  /\ \A u \in Threads \ {t} : call'[u] = call[u]
             /\ call'[t].step = "SetRoomId"
             /\ call'[t].players = call[t].players
             /\ call'[t].next = call[t].next
             /\ call'[t].player = call[t].player /\ call'[t].conn = call[t].conn
  BY <1>4 DEF IInv, TypeOK, Calls
<1>5. CASE TryPopMatchedPlayers(t) /\ ~Done(t)
  BY <1>1, <1>3, <1>5 DEF TryPopMatchedPlayers, GoesOn, MatchSteps, LoopSteps
<1>6. CASE CreateRoom(t)
  BY <1>1, <1>4, <1>6 DEF CreateRoom, GoesOn, MatchSteps, LoopSteps
<1>7. QED
  BY <1>2, <1>5, <1>6

LEMMA ContinueGoesOn ==
  ASSUME IInv, NEW t \in Threads, Continue(t)
  PROVE  GoesOn(t)
<1>1. CASE BindLogin(t) \/ RebindForReconnect(t)
  BY <1>1, BinderIsGoingOn
<1>2. CASE TryPopMatchedPlayers(t) \/ CreateRoom(t)
  BY <1>2, FormerGoesOn
<1>3. CASE \/ LoginState(t) \/ Kick(t) \/ ReconnectState(t)
           \/ CheckLobby(t) \/ Join(t) \/ SetMatching(t) \/ LeaveQueue(t)
           \/ SetRoomId(t) \/ CheckMatching(t) \/ Cancel(t) \/ BackToLobby(t)
           \/ WasMatching(t) \/ CancelLost(t) \/ ForceOffline(t)
           \/ ClearRoomId(t) \/ DestroyRoom(t)
  <2>1. UNCHANGED conn_to_player
    BY <1>3 DEF LoginState, Kick, ReconnectState, CheckLobby, Join, SetMatching, LeaveQueue,
                SetRoomId, CheckMatching, Cancel, BackToLobby, WasMatching, CancelLost,
                ForceOffline, ClearRoomId, DestroyRoom, sessionVars
  <2>2. /\ call[t].step # "idle"
        /\ \/ Done(t)
           \/ \E step \in Steps :
                /\ GoTo(t, step)
                /\ step \in MatchSteps => call[t].step \in MatchSteps
                /\ step \in LoopSteps => call[t].step \in LoopSteps
    BY <1>3 DEF LoginState, Kick, ReconnectState, CheckLobby, Join, SetMatching, LeaveQueue,
                SetRoomId, CheckMatching, Cancel, BackToLobby, WasMatching, CancelLost,
                ForceOffline, ClearRoomId, DestroyRoom, At, Steps, MatchSteps, LoopSteps,
                LostSteps
  <2>3. "idle" \in Steps /\ "idle" \notin MatchSteps \cup LoopSteps
    BY DEF Steps, MatchSteps, LoopSteps
  <2>4. QED
    BY <2>1, <2>2, <2>3, PlainGoesOn
<1>4. CASE MarkOfflineByConnection(t)
  <2>1. /\ call[t].step = "MarkOffline" /\ GoTo(t, "ForceOffline")
        /\ \A c \in Conns : conn_to_player'[c] # Nobody => conn_to_player'[c] = conn_to_player[c]
    BY <1>4 DEF MarkOfflineByConnection, At, IInv, TypeOK
  <2>2. "ForceOffline" \in Steps \ (MatchSteps \cup LoopSteps)
    BY DEF Steps, LostSteps, MatchSteps, LoopSteps
  <2>3. QED
    BY <2>1, <2>2, PlainGoesOn
<1>5. CASE ForceInRoom(t)
  <2>1. /\ call[t].step = "ForceInRoom" /\ NextPlayer(t, "SetRoomId", "idle")
        /\ UNCHANGED conn_to_player
    BY <1>5 DEF ForceInRoom, At, sessionVars
  <2>2. /\ {"SetRoomId", "idle"} \subseteq Steps \ LoopSteps
        /\ "ForceInRoom" \in MatchSteps
    BY DEF Steps, MatchSteps, LoopSteps
  <2>3. QED
    BY <2>1, <2>2, LoopGoesOn
<1>6. CASE t = Timer /\ (CheckTimedOut \/ ForceTimedOut)
  <2>1. /\ call[t].step \in {"CheckTimedOut", "ForceTimedOut"} /\ UNCHANGED conn_to_player
        /\ GoTo(t, "ForceTimedOut") \/ NextPlayer(t, "CheckTimedOut", "idle")
    BY <1>6 DEF CheckTimedOut, ForceTimedOut, At, sessionVars
  <2>2. /\ {"CheckTimedOut", "ForceTimedOut", "idle"} \subseteq Steps \ MatchSteps
        /\ {"CheckTimedOut", "ForceTimedOut"} \subseteq LoopSteps
    BY DEF Steps, MatchSteps, LoopSteps
  <2>3. QED
    BY <2>1, <2>2, LoopGoesOn, PlainGoesOn
<1>7. CASE Release(t)
  <2>1. /\ call[t].step = "Release" /\ NextPlayer(t, "ClearRoomId", "DestroyRoom")
        /\ UNCHANGED conn_to_player
    BY <1>7 DEF Release, At, sessionVars
  <2>2. /\ {"ClearRoomId", "DestroyRoom"} \subseteq Steps \ MatchSteps
        /\ "Release" \in LoopSteps
    BY DEF Steps, MatchSteps, LoopSteps
  <2>3. QED
    BY <2>1, <2>2, LoopGoesOn
<1>8. QED
  BY <1>1, <1>2, <1>3, <1>4, <1>5, <1>6, <1>7 DEF Continue

-----------------------------------------------------------------------------
(* Handlers begin.                                                         *)

(* One that begins for somebody else leaves the match requests alone.      *)
LEMMA BeginsElsewhere ==
  ASSUME IInv, QueueInv, NEW t \in Threads, At(t, "idle"),
         \A u \in Threads \ {t} : call'[u] = call[u],
         UNCHANGED conn_to_player,
         call'[t].step \notin MatchSteps,
         \A u \in Threads : InMatch(u) =>
           /\ call'[t].player # call[u].player
           /\ call'[t].step \in LoopSteps =>
                \A i \in DOMAIN call'[t].players : call'[t].players[i] # call[u].player
  PROVE  Alone'
<1> SUFFICES ASSUME NEW u \in Threads, InMatch(u)'
             PROVE  Undisturbed(u)'
  BY DEF Alone
<1>1. u # t /\ call'[u] = call[u] /\ InMatch(u)
  BY DEF InMatch
<1>2. /\ call[u].conn \in Conns /\ Owner[call[u].conn] = u
      /\ \A c \in Conns : conn_to_player[c] = call[u].player => c = call[u].conn
      /\ \A v \in Threads \ {u} : call[v].step # "idle" => call[v].player # call[u].player
      /\ \A v \in Threads : call[v].step \in LoopSteps =>
           \A i \in DOMAIN call[v].players : call[v].players[i] # call[u].player
  BY <1>1 DEF QueueInv, Alone, Undisturbed, At
<1>3. \A v \in Threads \ {u} : call'[v].step # "idle" => call'[v].player # call[u].player
  BY <1>1, <1>2
<1>4. \A v \in Threads : call'[v].step \in LoopSteps =>
        \A i \in DOMAIN call'[v].players : call'[v].players[i] # call[u].player
  BY <1>1, <1>2
<1>5. QED
  BY <1>1, <1>2, <1>3, <1>4 DEF At, Undisturbed

(* Whoever is waiting is waiting for somebody else.                        *)
LEMMA BeginsForNobodyWaiting ==
  ASSUME IInv, QueueInv, NEW t \in Threads, At(t, "idle"),
         \A u \in Threads \ {t} : call'[u] = call[u],
         call'[t].step \notin {"SetMatching", "LeaveQueue"},
         UNCHANGED <<player_state, queue>>
  PROVE  Attended' /\ Joined' /\ Leaving'
<1>1. \A p : ~Attends(t, p) /\ ~SeatingFor(t, p)
  BY DEF At, Attends, SeatingFor
<1>2. \A p : Queued(p) => Queued(p)'
  BY DEF Queued
<1>3. QED
  BY <1>1, <1>2, WaitingKept

LEMMA BeginEffect ==
  ASSUME IInv, NEW c \in Conns, NEW p, NEW besides, NEW g \in Calls, Begin(c, p, besides, g)
  PROVE  /\ Owner[c] \in Workers /\ Owner[c] \in Threads /\ At(Owner[c], "idle")
         /\ OneRequestEach => \A t \in Workers : call[t].player = p => call[t].step \in besides
         /\ \A u \in Threads \ {Owner[c]} : call'[u] = call[u]
         /\ call'[Owner[c]].step = g.step
         /\ call'[Owner[c]].player = p /\ call'[Owner[c]].conn = c
<1>1. Owner[c] \in Workers /\ Owner[c] \in Threads
  BY ThreadsAssumption DEF Threads
<1>2. call' = [call EXCEPT ![Owner[c]] = [g EXCEPT !.conn = c, !.player = p]]
  BY Zenon DEF Begin
<1>3. [g EXCEPT !.conn = c, !.player = p].step = g.step
      /\ [g EXCEPT !.conn = c, !.player = p].player = p
      /\ [g EXCEPT !.conn = c, !.player = p].conn = c
  BY DEF Calls
<1>4. call'[Owner[c]] = [g EXCEPT !.conn = c, !.player = p]
      /\ \A u \in Threads \ {Owner[c]} : call'[u] = call[u]
  BY <1>1, <1>2 DEF IInv, TypeOK
<1>5. QED
  BY <1>1, <1>3, <1>4 DEF Begin, Receive

(* Login, Reconnect and CancelMatch wait until a match request is over.    *)
LEMMA RequestKeepsQueue ==
  ASSUME OneRequestEach, IInv, QueueInv, NEW c \in Conns, NEW p \in Players,
         \/ Login(c, p) \/ Reconnect(c, p)
         \/ CancelMatch(c) /\ p = conn_to_player[c]
  PROVE  Alone' /\ Attended' /\ Joined' /\ Leaving'
<1> DEFINE t == Owner[c]
<1>1. PICK besides \in {LostSteps, {}}, g \in Calls :
        /\ Begin(c, p, besides, g)
        /\ besides \cap MatchSteps = {}
        /\ g.step \in {"LoginState", "Rebind", "CheckMatching"}
  <2> DEFINE login == [Idle EXCEPT !.step = "LoginState", !.room = session_room[p]]
             reconnect == [Idle EXCEPT !.step = "Rebind", !.room = session_room[p]]
             cancel == [Idle EXCEPT !.step = "CheckMatching"]
  <2>1. login \in Calls /\ reconnect \in Calls /\ cancel \in Calls
    <3>1. session_room[p] \in Rooms \cup {NoRoom}
      BY DEF IInv, TypeOK
    <3>2. QED
      BY <3>1, IdleTyped DEF Calls, Steps
  <2>2. /\ login.step = "LoginState" /\ reconnect.step = "Rebind"
        /\ cancel.step = "CheckMatching"
    BY DEF Idle
  <2>3. LostSteps \cap MatchSteps = {} /\ {} \cap MatchSteps = {}
    BY DEF LostSteps, MatchSteps
  <2>4. \/ Begin(c, p, LostSteps, login) \/ Begin(c, p, LostSteps, reconnect)
        \/ Begin(c, p, {}, cancel)
    BY Zenon DEF Login, Reconnect, CancelMatch
  <2>. HIDE DEF login, reconnect, cancel
  <2>5. QED
    BY <2>1, <2>2, <2>3, <2>4
<1>2. UNCHANGED <<conn_to_player, player_state, queue>>
  BY DEF Login, Reconnect, CancelMatch, sessionVars
<1>3. /\ t \in Threads /\ At(t, "idle")
      /\ \A u \in Workers : call[u].player = p => call[u].step \in besides
      /\ \A u \in Threads \ {t} : call'[u] = call[u]
      /\ call'[t].step \in {"LoginState", "Rebind", "CheckMatching"}
      /\ call'[t].player = p
  BY <1>1, BeginEffect
<1>4. call'[t].step \notin MatchSteps \cup LoopSteps \cup {"SetMatching", "LeaveQueue"}
  BY <1>3 DEF MatchSteps, LoopSteps
<1>5. \A u \in Threads : InMatch(u) => call[u].player # p
  BY <1>1, <1>3, MatchIsServed DEF InMatch
<1>6. Alone'
  BY <1>2, <1>3, <1>4, <1>5, BeginsElsewhere
<1>7. Attended' /\ Joined' /\ Leaving'
  BY <1>2, <1>3, <1>4, BeginsForNobodyWaiting
<1>8. QED
  BY <1>6, <1>7 DEF QueueInv

(* A match request begins when nothing is under way for its player.        *)
LEMMA MatchKeepsQueue ==
  ASSUME OneRequestEach, IInv, QueueInv, NEW c \in Conns, Match(c)
  PROVE  Alone' /\ Attended' /\ Joined' /\ Leaving'
<1> DEFINE t == Owner[c]
           p == conn_to_player[c]
           g == [Idle EXCEPT !.step = "CheckLobby"]
<1>1. g \in Calls /\ g.step = "CheckLobby"
  BY IdleTyped DEF Calls, Steps, MatchSteps, Idle
<1>2. /\ p \in Players /\ Begin(c, p, {}, g)
      /\ \A u \in Threads : ~BusyWith(u, p)
      /\ UNCHANGED <<conn_to_player, player_state, queue>>
  BY DEF Match, sessionVars, IInv, TypeOK
<1>. HIDE DEF g
<1>3. /\ t \in Threads /\ t \in Workers /\ At(t, "idle")
      /\ \A u \in Workers : call[u].player = p => call[u].step \in {}
      /\ \A u \in Threads \ {t} : call'[u] = call[u]
      /\ call'[t].step = "CheckLobby" /\ call'[t].player = p /\ call'[t].conn = c
  BY <1>1, <1>2, BeginEffect
<1>. HIDE DEF t, p
<1>4. Alone'
  <2>1. SUFFICES ASSUME NEW u \in Threads, InMatch(u)'
               PROVE  Undisturbed(u)'
    BY DEF Alone
  <2>2. CASE u = t
    <3>1. c = call'[u].conn /\ Owner[c] = u /\ p = call'[u].player
      BY <1>3, <2>2 DEF t
    <3>2. \A d \in Conns : conn_to_player[d] = p => d = c
      BY <1>2, PlayersAssumption DEF IInv, ConnectionsSpeakForSessions, p, Nobody
    <3>3. \A v \in Threads \ {t} : call'[v].step # "idle" => call'[v].player # p
      BY <1>2, <1>3 DEF BusyWith, At
    <3>4. \A v \in Threads : call'[v].step \in LoopSteps =>
            v # t /\ \A i \in DOMAIN call'[v].players : call'[v].players[i] # p
      BY <1>2, <1>3 DEF BusyWith, At, LoopSteps
    <3>5. QED
      BY <1>2, <2>2, <3>1, <3>2, <3>3, <3>4 DEF At, Undisturbed
  <2>3. CASE u # t
    <3>1. call'[u] = call[u] /\ InMatch(u)
      BY <1>3, <2>1, <2>3 DEF InMatch
    <3>2. /\ call[u].conn \in Conns /\ Owner[call[u].conn] = u
          /\ \A d \in Conns : conn_to_player[d] = call[u].player => d = call[u].conn
          /\ \A v \in Threads \ {u} : call[v].step # "idle" => call[v].player # call[u].player
          /\ \A v \in Threads : call[v].step \in LoopSteps =>
               \A i \in DOMAIN call[v].players : call[v].players[i] # call[u].player
      BY <3>1 DEF QueueInv, Alone, Undisturbed, At
    <3>3. call[u].player # p
      BY <1>3, <3>1, MatchIsServed
    <3>4. \A v \in Threads \ {u} : call'[v].step # "idle" => call'[v].player # call[u].player
      BY <1>3, <3>2, <3>3
    <3>5. \A v \in Threads : call'[v].step \in LoopSteps =>
            \A i \in DOMAIN call'[v].players : call'[v].players[i] # call[u].player
      BY <1>3, <3>2 DEF LoopSteps
    <3>6. QED
      BY <1>2, <3>1, <3>2, <3>4, <3>5 DEF At, Undisturbed
  <2>4. QED
    BY <2>2, <2>3
<1>5. Attended' /\ Joined' /\ Leaving'
  BY <1>2, <1>3, BeginsForNobodyWaiting
<1>6. QED
  BY <1>4, <1>5 DEF QueueInv

(* Accept, CloseIdleConnection and ForgetRemoved, and nothing at all.      *)
LEMMA QueueUntouched ==
  ASSUME QueueInv, UNCHANGED <<conn_to_player, player_state, queue, call>>
  PROVE  Alone' /\ Attended' /\ Joined' /\ Leaving'
BY DEF QueueInv, Alone, Undisturbed, Attended, Joined, Leaving, At, InMatch, Queued,
       Attends, SeatingFor

(* A connection that is lost is not that of a match request, whose worker  *)
(* is busy.                                                                *)
LEMMA ClosedKeepsQueue ==
  ASSUME IInv, QueueInv, NEW c \in Conns, ConnectionClosed(c)
  PROVE  Alone' /\ Attended' /\ Joined' /\ Leaving'
<1> DEFINE t == Owner[c]
           p == conn_to_player[c]
           g == [Idle EXCEPT !.step = "WasMatching", !.conn = c, !.player = p]
<1>1. /\ t \in Threads /\ At(t, "idle")
      /\ UNCHANGED <<conn_to_player, player_state, queue>>
  BY ThreadsAssumption DEF ConnectionClosed, Threads, sessionVars
<1>2. CASE p = Nobody
  BY <1>1, <1>2, QueueUntouched DEF ConnectionClosed
<1>3. CASE p # Nobody
  <2>1. /\ \A u \in Threads \ {t} : call'[u] = call[u]
        /\ call'[t].step = "WasMatching" /\ call'[t].player = p
    <3>1. call' = [call EXCEPT ![t] = g]
      BY <1>3 DEF ConnectionClosed
    <3>2. g.step = "WasMatching" /\ g.player = p
      BY DEF Idle
    <3>. HIDE DEF g
    <3>3. QED
      BY <1>1, <3>1, <3>2 DEF IInv, TypeOK
  <2>2. \A u \in Threads : InMatch(u) => call[u].player # p
    <3>1. SUFFICES ASSUME NEW u \in Threads, InMatch(u), call[u].player = p
                   PROVE  FALSE
      OBVIOUS
    <3>2. u = t
      BY <3>1 DEF QueueInv, Alone, Undisturbed
    <3>3. QED
      BY <1>1, <3>1, <3>2, MatchIsServed DEF At
  <2>3. call'[t].step \notin MatchSteps \cup LoopSteps \cup {"SetMatching", "LeaveQueue"}
    BY <2>1 DEF MatchSteps, LoopSteps
  <2>4. Alone'
    BY <1>1, <2>1, <2>2, <2>3, BeginsElsewhere
  <2>5. Attended' /\ Joined' /\ Leaving'
    BY <1>1, <2>1, <2>3, BeginsForNobodyWaiting
  <2>6. QED
    BY <2>4, <2>5 DEF QueueInv
<1>4. QED
  BY <1>2, <1>3

(* Nobody whose match request is under way has a room that is settled.     *)
LEMMA SettleKeepsQueue ==
  ASSUME IInv, QueueInv, NEW t \in Threads, NEW g \in Calls, NEW r \in Rooms,
         At(t, "idle"), Settle(t, g, r),
         \A u \in Threads : InMatch(u) => g.player # call[u].player
  PROVE  Alone' /\ Attended' /\ Joined' /\ Leaving'
<1> DEFINE h == [g EXCEPT !.step = "ClearRoomId", !.room = r, !.players = seats[r]]
<1>1. /\ UNCHANGED <<conn_to_player, player_state, queue>>
      /\ call' = [call EXCEPT ![t] = h]
  BY DEF Settle, sessionVars
<1>2. h.step = "ClearRoomId" /\ h.player = g.player /\ h.players = seats[r]
  BY DEF Calls
<1>. HIDE DEF h
<1>3. /\ \A u \in Threads \ {t} : call'[u] = call[u]
      /\ call'[t].step = "ClearRoomId" /\ call'[t].player = g.player
      /\ call'[t].players = seats[r]
  BY <1>1, <1>2 DEF IInv, TypeOK
<1>4. call'[t].step \notin MatchSteps \cup {"SetMatching", "LeaveQueue"}
  BY <1>3 DEF MatchSteps
<1>5. \A u \in Threads : InMatch(u) =>
        \A i \in DOMAIN call'[t].players : call'[t].players[i] # call[u].player
  BY <1>3, MatchIsServed DEF Settle, SeatedIn
<1>6. Alone'
  BY <1>1, <1>3, <1>4, <1>5, BeginsElsewhere
<1>7. Attended' /\ Joined' /\ Leaving'
  BY <1>1, <1>3, <1>4, BeginsForNobodyWaiting
<1>8. QED
  BY <1>6, <1>7 DEF QueueInv

LEMMA SettleByKeepsQueue ==
  ASSUME OneRequestEach, IInv, QueueInv, NEW r \in Rooms,
         SettleByTimer(r) \/ \E c \in Conns : SettleGameOver(c, r)
  PROVE  Alone' /\ Attended' /\ Joined' /\ Leaving'
<1>1. CASE SettleByTimer(r)
  <2>1. Idle \in Calls /\ Idle.player = Nobody /\ Nobody \notin Players
    BY IdleTyped, PlayersAssumption DEF Idle, Nobody
  <2>2. \A u \in Threads : InMatch(u) => Idle.player # call[u].player
    BY <2>1, MatchIsServed
  <2>3. Timer \in Threads /\ At(Timer, "idle") /\ Settle(Timer, Idle, r)
    BY <1>1 DEF SettleByTimer, Threads
  <2>4. QED
    BY <2>1, <2>2, <2>3, SettleKeepsQueue
<1>2. ASSUME NEW c \in Conns, SettleGameOver(c, r)
      PROVE  Alone' /\ Attended' /\ Joined' /\ Leaving'
  <2> DEFINE g == [Idle EXCEPT !.conn = c, !.player = conn_to_player[c]]
  <2>1. conn_to_player[c] \in Players /\ Owner[c] \in Threads
    BY <1>2, ThreadsAssumption DEF SettleGameOver, IInv, TypeOK, Threads
  <2>2. g \in Calls /\ g.player = conn_to_player[c]
    BY <2>1, IdleTyped DEF Calls
  <2>3. /\ Settle(Owner[c], g, r) /\ At(Owner[c], "idle")
        /\ \A u \in Workers : call[u].player = conn_to_player[c] => call[u].step \in {}
    BY <1>2 DEF SettleGameOver, Receive
  <2>. HIDE DEF g
  <2>4. \A u \in Threads : InMatch(u) => g.player # call[u].player
    BY <2>2, <2>3, MatchIsServed
  <2>5. QED
    BY <2>1, <2>2, <2>3, <2>4, SettleKeepsQueue
<1>3. QED
  BY <1>1, <1>2

-----------------------------------------------------------------------------
(* Who is in the queue after a step of it.                                 *)

LEMMA IndexOfMember ==
  ASSUME NEW s \in Seq(Players), NEW i \in 1..Len(s), NEW p, s[i] = p
  PROVE  \E j \in DOMAIN s : s[j] = p
OBVIOUS

LEMMA PoppedOrLeft ==
  ASSUME TypeOK, NEW n \in 0..Len(queue), NEW p, Queued(p),
         queue' = SubSeq(queue, n + 1, Len(queue))
  PROVE  \/ Queued(p)'
         \/ /\ \E i \in 1..n : queue[i] = p
            /\ \E i \in DOMAIN SubSeq(queue, 1, n) : SubSeq(queue, 1, n)[i] = p
<1>1. queue \in Seq(Players) /\ n \in Nat /\ Len(queue) \in Nat
  BY DEF TypeOK
<1>2. PICK i \in 1..Len(queue) : queue[i] = p
  BY <1>1 DEF Queued
<1>3. CASE i <= n
  <2>1. /\ SubSeq(queue, 1, n) \in Seq(Players) /\ Len(SubSeq(queue, 1, n)) = n
        /\ SubSeq(queue, 1, n)[i] = queue[i]
    BY <1>1, <1>3, SubSeqProperties
  <2>2. i \in 1..n
    BY <1>1, <1>3
  <2>3. \E j \in DOMAIN SubSeq(queue, 1, n) : SubSeq(queue, 1, n)[j] = p
    BY <1>2, <2>1, <2>2, IndexOfMember
  <2>4. QED
    BY <1>2, <2>2, <2>3
<1>4. CASE ~(i <= n)
  <2>1. \A j \in (n + 1)..Len(queue) : queue[j] \in Players
    BY <1>1
  <2>2. /\ queue' \in Seq(Players) /\ Len(queue') = Len(queue) - n
        /\ queue'[i - n] = queue[i] /\ i - n \in 1..(Len(queue) - n)
    <3>1. i - n \in 1..(Len(queue) - (n + 1) + 1) /\ n + 1 <= Len(queue)
      BY <1>1, <1>4
    <3>2. /\ SubSeq(queue, n + 1, Len(queue)) \in Seq(Players)
          /\ Len(SubSeq(queue, n + 1, Len(queue))) = Len(queue) - (n + 1) + 1
          /\ SubSeq(queue, n + 1, Len(queue))[i - n] = queue[n + 1 + (i - n) - 1]
      BY <1>1, <2>1, <3>1, SubSeqProperties
    <3>3. n + 1 + (i - n) - 1 = i /\ Len(queue) - (n + 1) + 1 = Len(queue) - n
      BY <1>1
    <3>4. QED
      BY <3>1, <3>2, <3>3
  <2>3. PICK k \in 1..Len(queue') : queue'[k] = p
    BY <1>2, <2>2
  <2>4. \E j \in DOMAIN queue' : queue'[j] = p
    BY <2>2, <2>3, IndexOfMember
  <2>5. QED
    BY <2>4 DEF Queued
<1>5. QED
  BY <1>3, <1>4

LEMMA EraseKeepsOthers ==
  ASSUME TypeOK, NEW q, NEW p, Erase(q), Queued(p), p # q
  PROVE  Queued(p)'
<1>1. queue \in Seq(Players)
  BY DEF TypeOK
<1>2. PICK j \in 1..Len(queue) : queue[j] = p
  BY <1>1 DEF Queued
<1>3. CASE ~Queued(q)
  BY <1>3 DEF Erase, Queued
<1>4. CASE Queued(q)
  <2>1. PICK i \in 1..Len(queue) :
          /\ queue[i] = q
          /\ queue' = SubSeq(queue, 1, i - 1) \o SubSeq(queue, i + 1, Len(queue))
    <3>1. PICK i \in DOMAIN queue :
            /\ queue[i] = q
            /\ queue' = SubSeq(queue, 1, i - 1) \o SubSeq(queue, i + 1, Len(queue))
      BY <1>4 DEF Erase
    <3>2. i \in 1..Len(queue)
      BY <1>1
    <3>3. QED
      BY <3>1, <3>2
  <2> DEFINE front == SubSeq(queue, 1, i - 1)
             back == SubSeq(queue, i + 1, Len(queue))
  <2>2. /\ front \in Seq(Players) /\ Len(front) = i - 1
        /\ \A k \in 1..(i - 1) : front[k] = queue[k]
    <3>1. \A k \in 1..(i - 1) : queue[k] \in Players
      BY <1>1
    <3>2. QED
      BY <1>1, <3>1, SubSeqProperties
  <2>3. /\ back \in Seq(Players) /\ Len(back) = Len(queue) - i
        /\ \A k \in 1..(Len(queue) - i) : back[k] = queue[i + k]
    <3>1. \A k \in (i + 1)..Len(queue) : queue[k] \in Players
      BY <1>1
    <3>2. /\ back \in Seq(Players)
          /\ Len(back) = IF i + 1 <= Len(queue) THEN Len(queue) - (i + 1) + 1 ELSE 0
          /\ \A k \in 1..(Len(queue) - (i + 1) + 1) : back[k] = queue[(i + 1) + k - 1]
      BY <1>1, <3>1, SubSeqProperties
    <3>. HIDE DEF back
    <3>3. Len(queue) \in Nat
      BY <1>1
    <3>4. \A k \in 1..(Len(queue) - i) : (i + 1) + k - 1 = i + k
      OBVIOUS
    <3>5. QED
      BY <3>2, <3>3, <3>4
  <2>. HIDE DEF front, back
  <2>4. /\ Len(front \o back) = Len(front) + Len(back)
        /\ front \o back \in Seq(Players)
        /\ \A k \in 1..(Len(front) + Len(back)) :
             (front \o back)[k] = IF k <= Len(front) THEN front[k] ELSE back[k - Len(front)]
    BY <2>2, <2>3, ConcatProperties
  <2>5. queue' = front \o back
    BY <2>1 DEF front, back
  <2>6. CASE j < i
    <3>1. j \in 1..(i - 1) /\ j \in 1..(Len(front) + Len(back)) /\ j <= Len(front)
      BY <1>1, <2>2, <2>3, <2>6
    <3>2. queue'[j] = p
      BY <1>2, <2>2, <2>4, <2>5, <3>1
    <3>3. \E k \in DOMAIN queue' : queue'[k] = p
      BY <2>4, <2>5, <3>1, <3>2, IndexOfMember
    <3>4. QED
      BY <3>3 DEF Queued
  <2>7. CASE j > i
    <3>1. j - 1 \in 1..(Len(front) + Len(back)) /\ ~(j - 1 <= Len(front))
          /\ j - 1 - Len(front) = j - i /\ j - i \in 1..(Len(queue) - i) /\ i + (j - i) = j
      BY <1>1, <2>2, <2>3, <2>7
    <3>2. queue'[j - 1] = p
      BY <1>2, <2>3, <2>4, <2>5, <3>1
    <3>3. PICK k \in 1..Len(queue') : queue'[k] = p
      BY <2>4, <2>5, <3>1, <3>2
    <3>4. \E m \in DOMAIN queue' : queue'[m] = p
      BY <2>4, <2>5, <3>3, IndexOfMember
    <3>5. QED
      BY <3>4 DEF Queued
  <2>8. QED
    BY <1>2, <2>1, <2>6, <2>7
<1>5. QED
  BY <1>3, <1>4

-----------------------------------------------------------------------------
(* The steps of the handlers.                                              *)

(* The sequence of players of a record.                                    *)
LEMMA PlayersOfCall ==
  ASSUME IInv, NEW t \in Threads
  PROVE  /\ call[t].players \in Seq(Players)
         /\ DOMAIN call[t].players = 1..Len(call[t].players)
         /\ call[t].next \in Nat
BY DEF IInv, TypeOK, Calls

(* Those that change neither the queue nor anybody's state.                *)
LEMMA CalmKeepsQueue ==
  ASSUME IInv, QueueInv, NEW t \in Threads,
         \/ CheckLobby(t) \/ CheckMatching(t) \/ WasMatching(t) \/ Kick(t)
         \/ BindLogin(t) \/ RebindForReconnect(t) \/ MarkOfflineByConnection(t)
         \/ CreateRoom(t) \/ SetRoomId(t) \/ ClearRoomId(t) \/ DestroyRoom(t)
         \/ t = Timer /\ CheckTimedOut
  PROVE  Attended' /\ Joined' /\ Leaving'
<1>1. UNCHANGED <<player_state, queue>>
  BY DEF CheckLobby, CheckMatching, WasMatching, Kick, BindLogin, RebindForReconnect, Bind,
         MarkOfflineByConnection, CreateRoom, SetRoomId, ClearRoomId, DestroyRoom,
         CheckTimedOut
<1>2. \A u \in Threads \ {t} : call'[u] = call[u]
  BY ContinueGoesOn DEF Continue, GoesOn
<1>3. /\ call'[t].step \notin {"SetMatching", "LeaveQueue"}
      /\ \A p \in Players : SeatingFor(t, p) => SeatingFor(t, p)'
      /\ \A p \in Players : player_state[p] = "Matching" /\ Attends(t, p) => Attends(t, p)'
  <2>1. CASE \/ CheckLobby(t) \/ CheckMatching(t) \/ WasMatching(t) \/ Kick(t)
             \/ ClearRoomId(t) \/ DestroyRoom(t)
    <3>1. /\ call[t].step \in {"CheckLobby", "CheckMatching", "WasMatching", "Kick",
                               "ClearRoomId", "DestroyRoom"}
          /\ Done(t) \/ \E step \in {"Join", "Cancel", "CancelLost", "MarkOffline", "Release"} :
                          GoTo(t, step)
      BY <2>1 DEF CheckLobby, CheckMatching, WasMatching, Kick, ClearRoomId, DestroyRoom, At
    <3>2. call'[t].step \in {"idle", "Join", "Cancel", "CancelLost", "MarkOffline", "Release"}
      <4>1. {"Join", "Cancel", "CancelLost", "MarkOffline", "Release"} \subseteq Steps
        BY DEF Steps, MatchSteps, LostSteps
      <4>2. QED
        BY <3>1, <4>1, DoneEffect, GoToEffect DEF IInv
    <3>3. QED
      BY <3>1, <3>2 DEF Attends, SeatingFor
  <2>2. CASE BindLogin(t) \/ RebindForReconnect(t)
    <3>1. call[t].step \in {"BindLogin", "Rebind"}
      BY <2>2 DEF BindLogin, RebindForReconnect, At
    <3>2. call'[t].step \in {"idle", "Kick", "ReconnectState"}
      <4>1. ASSUME NEW step, NEW old, call' = [call EXCEPT ![t].step = step, ![t].old = old]
            PROVE  call'[t].step = step
        BY <4>1 DEF IInv, TypeOK, Calls
      <4>2. QED
        BY <2>2, <4>1, DoneEffect DEF BindLogin, RebindForReconnect, IInv
    <3>3. QED
      BY <3>1, <3>2 DEF Attends, SeatingFor
  <2>3. CASE MarkOfflineByConnection(t) \/ SetRoomId(t)
    <3>1. {"ForceOffline", "ForceInRoom"} \subseteq Steps
      BY DEF Steps, LostSteps, MatchSteps
    <3>2. \/ call[t].step = "MarkOffline" /\ GoTo(t, "ForceOffline")
          \/ call[t].step = "SetRoomId" /\ GoTo(t, "ForceInRoom")
      BY <2>3 DEF MarkOfflineByConnection, SetRoomId, At
    <3>3. /\ \/ call[t].step = "MarkOffline" /\ call'[t].step = "ForceOffline"
             \/ call[t].step = "SetRoomId" /\ call'[t].step = "ForceInRoom"
          /\ call'[t].player = call[t].player /\ call'[t].players = call[t].players
          /\ call'[t].next = call[t].next
      BY <3>1, <3>2, GoToEffect DEF IInv
    <3>4. QED
      BY <3>3 DEF Attends, SeatingFor
  <2>4. CASE CreateRoom(t)
    <3>1. call[t].step = "CreateRoom"
      BY <2>4 DEF CreateRoom, At
    <3>2. ASSUME NEW r, call' = [call EXCEPT ![t].step = "SetRoomId", ![t].room = r]
          PROVE  /\ call'[t].step = "SetRoomId" /\ call'[t].players = call[t].players
                 /\ call'[t].next = call[t].next
      BY <3>2 DEF IInv, TypeOK, Calls
    <3>3. /\ call'[t].step = "SetRoomId" /\ call'[t].players = call[t].players
          /\ call'[t].next = call[t].next
      BY <2>4, <3>2 DEF CreateRoom
    <3>4. QED
      BY <3>1, <3>3 DEF Attends, SeatingFor
  <2>5. CASE t = Timer /\ CheckTimedOut
    <3>1. /\ call[t].step = "CheckTimedOut"
          /\ \/ GoTo(t, "ForceTimedOut")
             \/ NextPlayer(t, "CheckTimedOut", "idle") /\ player_state[ThisPlayer(t)] # "Matching"
      BY <2>5 DEF CheckTimedOut, At
    <3>2. {"ForceTimedOut", "CheckTimedOut", "idle"} \subseteq Steps
      BY DEF Steps
    <3>3. CASE GoTo(t, "ForceTimedOut")
      BY <3>1, <3>2, <3>3, GoToEffect DEF IInv, Attends, SeatingFor
    <3>4. CASE /\ NextPlayer(t, "CheckTimedOut", "idle")
               /\ player_state[ThisPlayer(t)] # "Matching"
      <4>1. \/ /\ call'[t].step = "CheckTimedOut" /\ call'[t].next = call[t].next + 1
               /\ call'[t].players = call[t].players
            \/ call'[t].step = "idle" /\ ~(call[t].next < Len(call[t].players))
        BY <3>2, <3>4, NextPlayerEffect DEF IInv
      <4>2. ASSUME NEW p \in Players, player_state[p] = "Matching", Attends(t, p)
            PROVE  Attends(t, p)'
        <5>1. PICK i \in DOMAIN call[t].players :
                call[t].next <= i /\ call[t].players[i] = p
          BY <3>1, <4>2 DEF Attends, SeatingFor
        <5>2. i # call[t].next
          BY <3>4, <4>2, <5>1 DEF ThisPlayer
        <5>3. call[t].next + 1 <= i /\ call[t].next < Len(call[t].players)
          BY <5>1, <5>2, PlayersOfCall
        <5>4. QED
          BY <4>1, <5>1, <5>3 DEF Attends
      <4>3. QED
        BY <3>1, <4>1, <4>2 DEF SeatingFor
    <3>5. QED
      BY <3>1, <3>3, <3>4
  <2>6. QED
    BY <2>1, <2>2, <2>3, <2>4, <2>5
<1>4. \A p : Queued(p) => Queued(p)'
  BY <1>1 DEF Queued
<1>5. QED
  BY <1>1, <1>2, <1>3, <1>4, WaitingKept

(* Those that send one player somewhere else than to Matching: a player    *)
(* whose match request is under way only into his room.                    *)
LEMMA StateKeepsQueue ==
  ASSUME IInv, QueueInv, NEW t \in Threads, NEW q \in Players, NEW state,
         \A u \in Threads \ {t} : call'[u] = call[u],
         ForceState(q, state), UNCHANGED queue, state # "Matching",
         call'[t].step \notin {"SetMatching", "LeaveQueue"},
         \A p \in Players \ {q} : SeatingFor(t, p) => SeatingFor(t, p)',
         \A p \in Players \ {q} : Attends(t, p) => Attends(t, p)',
         \/ state = "InRoom"
         \/ \A u \in Threads \ {t} : InMatch(u) => call[u].player # q
  PROVE  Attended' /\ Joined' /\ Leaving'
<1>1. /\ player_state'[q] = state
      /\ \A p \in Players \ {q} : player_state'[p] = player_state[p]
  BY DEF ForceState, IInv, TypeOK
<1>2. \A p : Queued(p) => Queued(p)'
  BY DEF Queued
<1>3. \A p \in Players : player_state'[p] = "Matching" =>
        /\ player_state[p] = "Matching"
        /\ Queued(p) \/ Attends(t, p) => Queued(p)' \/ Attends(t, p)'
  BY <1>1, <1>2
<1>4. ASSUME NEW p \in Players, NEW u \in Threads \ {t}, InMatch(u), call[u].player = p
      PROVE  /\ player_state'[p] = "Matching" => player_state[p] = "Matching"
             /\ Queued(p) \/ SeatingFor(t, p) \/ player_state[p] = "InRoom"
                  => Queued(p)' \/ SeatingFor(t, p)' \/ player_state'[p] = "InRoom"
  BY <1>1, <1>2, <1>4
<1>5. QED
  BY <1>3, <1>4, WaitingKept

(* The player a loop is at.                                                *)
LEMMA LoopPlayer ==
  ASSUME IInv, QueueInv, NEW t \in Threads,
         call[t].step \in LoopSteps \ {"DestroyRoom"} \/ call[t].step = "ForceInRoom"
  PROVE  /\ call[t].next \in DOMAIN call[t].players
         /\ ThisPlayer(t) \in Players
         /\ call[t].step # "ForceInRoom" =>
              \A u \in Threads : InMatch(u) => call[u].player # ThisPlayer(t)
<1>1. call[t].next \in DOMAIN call[t].players
  BY DEF QueueInv, Looping, IInv, RoomInv, Seating, SeatingSteps
<1>2. ThisPlayer(t) \in Players
  BY <1>1, PlayersOfCall DEF ThisPlayer
<1>3. call[t].step # "ForceInRoom" =>
        \A u \in Threads : InMatch(u) => call[u].player # ThisPlayer(t)
  BY <1>1 DEF QueueInv, Alone, Undisturbed, ThisPlayer
<1>4. QED
  BY <1>1, <1>2, <1>3

(* What a loop has in hand after this player it had before.                *)
LEMMA LoopGoesOver ==
  ASSUME IInv, NEW t \in Threads, NEW step \in Steps, NEW after \in Steps,
         NextPlayer(t, step, after), call[t].next \in DOMAIN call[t].players,
         NEW p, NEW i \in DOMAIN call[t].players,
         call[t].next <= i, call[t].players[i] = p, p # ThisPlayer(t)
  PROVE  /\ call'[t].step = step
         /\ i \in DOMAIN call'[t].players
         /\ call'[t].next <= i /\ call'[t].players[i] = p
<1>1. i # call[t].next
  BY DEF ThisPlayer
<1>2. call[t].next < Len(call[t].players) /\ call[t].next + 1 <= i
  BY <1>1, PlayersOfCall
<1>3. QED
  BY <1>2, NextPlayerEffect DEF IInv

LEMMA StatesKeepQueue ==
  ASSUME IInv, QueueInv, NEW t \in Threads,
         \/ LoginState(t) \/ ReconnectState(t) \/ BackToLobby(t) \/ ForceOffline(t)
         \/ ForceInRoom(t) \/ Release(t) \/ (t = Timer /\ ForceTimedOut)
  PROVE  Attended' /\ Joined' /\ Leaving'
<1>1. /\ UNCHANGED queue
      /\ \A u \in Threads \ {t} : call'[u] = call[u]
  <2>1. GoesOn(t)
    BY ContinueGoesOn DEF Continue
  <2>2. QED
    BY <2>1 DEF LoginState, ReconnectState, BackToLobby, ForceOffline, ForceInRoom, Release,
                ForceTimedOut, GoesOn
<1>2. CASE LoginState(t) \/ ReconnectState(t) \/ BackToLobby(t) \/ ForceOffline(t)
  <2> DEFINE q == call[t].player
  <2>1. /\ call[t].step \in {"LoginState", "ReconnectState", "BackToLobby", "ForceOffline"}
        /\ Done(t) \/ GoTo(t, "BindLogin") \/ GoTo(t, "Kick")
    BY <1>2 DEF LoginState, ReconnectState, BackToLobby, ForceOffline, At
  <2>2. PICK state : ForceState(q, state) /\ state # "Matching"
    BY <1>2 DEF LoginState, ReconnectState, BackToLobby, ForceOffline, StateFor
  <2>3. call'[t].step \in {"idle", "BindLogin", "Kick"}
    <3>1. "BindLogin" \in Steps /\ "Kick" \in Steps
      BY DEF Steps
    <3>2. QED
      BY <2>1, <3>1, DoneEffect, GoToEffect DEF IInv
  <2>4. q \in Players
    BY <2>1, Served DEF SettlingSteps
  <2>5. \A p \in Players \ {q} : ~Attends(t, p) /\ ~SeatingFor(t, p)
    BY <2>1 DEF Attends, SeatingFor
  <2>6. \A u \in Threads \ {t} : InMatch(u) => call[u].player # q
    BY <2>1 DEF QueueInv, Alone, Undisturbed, At
  <2>. HIDE DEF q
  <2>7. QED
    BY <1>1, <2>2, <2>3, <2>4, <2>5, <2>6, StateKeepsQueue
<1>3. CASE ForceInRoom(t)
  <2> DEFINE q == ThisPlayer(t)
  <2>1. /\ call[t].step = "ForceInRoom" /\ ForceState(q, "InRoom")
        /\ NextPlayer(t, "SetRoomId", "idle")
    BY <1>3 DEF ForceInRoom, At
  <2>2. {"SetRoomId", "idle"} \subseteq Steps
    BY DEF Steps, MatchSteps
  <2>3. call'[t].step \in {"SetRoomId", "idle"}
    BY <2>1, <2>2, NextPlayerEffect DEF IInv
  <2>4. q \in Players /\ call[t].next \in DOMAIN call[t].players
    BY <2>1, LoopPlayer
  <2>5. ASSUME NEW p \in Players \ {q}, Attends(t, p) \/ SeatingFor(t, p)
        PROVE  SeatingFor(t, p)'
    <3>1. PICK i \in DOMAIN call[t].players : call[t].next <= i /\ call[t].players[i] = p
      BY <2>1, <2>5 DEF Attends, SeatingFor
    <3>2. /\ call'[t].step = "SetRoomId" /\ i \in DOMAIN call'[t].players
          /\ call'[t].next <= i /\ call'[t].players[i] = p
      BY <2>1, <2>2, <2>4, <2>5, <3>1, LoopGoesOver
    <3>3. QED
      BY <3>2 DEF SeatingFor
  <2>. HIDE DEF q
  <2>6. \A p \in Players \ {q} : Attends(t, p) => Attends(t, p)'
    BY <2>5 DEF Attends, SeatingFor
  <2>7. QED
    BY <1>1, <2>1, <2>3, <2>4, <2>5, <2>6, StateKeepsQueue
<1>4. CASE Release(t)
  <2> DEFINE q == ThisPlayer(t)
  <2>1. /\ call[t].step = "Release" /\ ForceState(q, "Lobby")
        /\ NextPlayer(t, "ClearRoomId", "DestroyRoom")
    BY <1>4 DEF Release, At
  <2>2. {"ClearRoomId", "DestroyRoom"} \subseteq Steps
    BY DEF Steps
  <2>3. call'[t].step \in {"ClearRoomId", "DestroyRoom", "idle"}
    BY <2>1, <2>2, NextPlayerEffect DEF IInv
  <2>4. q \in Players /\ \A u \in Threads : InMatch(u) => call[u].player # q
    BY <2>1, LoopPlayer DEF LoopSteps
  <2>5. \A p \in Players \ {q} : ~Attends(t, p) /\ ~SeatingFor(t, p)
    BY <2>1 DEF Attends, SeatingFor
  <2>. HIDE DEF q
  <2>6. QED
    BY <1>1, <2>1, <2>3, <2>4, <2>5, StateKeepsQueue
<1>5. CASE t = Timer /\ ForceTimedOut
  <2> DEFINE q == ThisPlayer(t)
  <2>1. /\ call[t].step = "ForceTimedOut" /\ ForceState(q, "Lobby")
        /\ NextPlayer(t, "CheckTimedOut", "idle")
    BY <1>5 DEF ForceTimedOut, At
  <2>2. {"CheckTimedOut", "idle"} \subseteq Steps
    BY DEF Steps
  <2>3. call'[t].step \in {"CheckTimedOut", "idle"}
    BY <2>1, <2>2, NextPlayerEffect DEF IInv
  <2>4. /\ q \in Players /\ call[t].next \in DOMAIN call[t].players
        /\ \A u \in Threads : InMatch(u) => call[u].player # q
    BY <2>1, LoopPlayer DEF LoopSteps
  <2>5. ASSUME NEW p \in Players \ {q}, Attends(t, p)
        PROVE  Attends(t, p)'
    <3>1. PICK i \in DOMAIN call[t].players : call[t].next <= i /\ call[t].players[i] = p
      BY <2>1, <2>5 DEF Attends, SeatingFor
    <3>2. /\ call'[t].step = "CheckTimedOut" /\ i \in DOMAIN call'[t].players
          /\ call'[t].next <= i /\ call'[t].players[i] = p
      BY <2>1, <2>2, <2>4, <2>5, <3>1, LoopGoesOver
    <3>3. QED
      BY <3>2 DEF Attends
  <2>6. \A p \in Players \ {q} : ~SeatingFor(t, p)
    BY <2>1 DEF SeatingFor
  <2>. HIDE DEF q
  <2>7. QED
    BY <1>1, <2>1, <2>3, <2>4, <2>5, <2>6, StateKeepsQueue
<1>6. QED
  BY <1>2, <1>3, <1>4, <1>5

(* Those that take players out of the queue: their own, or the first ones. *)
LEMMA OutOfQueueKeeps ==
  ASSUME IInv, QueueInv, NEW t \in Threads,
         LeaveQueue(t) \/ Cancel(t) \/ CancelLost(t)
  PROVE  Attended' /\ Joined' /\ Leaving'
<1> DEFINE q == call[t].player
<1>1. /\ UNCHANGED player_state
      /\ \A u \in Threads \ {t} : call'[u] = call[u]
  <2>1. GoesOn(t)
    BY ContinueGoesOn DEF Continue
  <2>2. QED
    BY <2>1 DEF LeaveQueue, Cancel, CancelLost, GoesOn
<1>2. /\ call[t].step \in {"LeaveQueue", "Cancel", "CancelLost"}
      /\ \/ Done(t) /\ (UNCHANGED queue \/ (call[t].step = "LeaveQueue" /\ Erase(q)))
         \/ GoTo(t, "BackToLobby") /\ Erase(q)
         \/ GoTo(t, "MarkOffline") /\ Erase(q)
  <2>1. CASE LeaveQueue(t)
    BY <2>1 DEF LeaveQueue, At
  <2>2. CASE Cancel(t)
    BY <2>2 DEF Cancel, At
  <2>3. CASE CancelLost(t)
    BY <2>3 DEF CancelLost, At
  <2>4. QED
    BY <2>1, <2>2, <2>3
<1>3. \/ /\ call'[t].step = "idle"
         /\ UNCHANGED queue \/ (call[t].step = "LeaveQueue" /\ Erase(q))
      \/ /\ call'[t].step \in {"BackToLobby", "MarkOffline"} /\ call'[t].player = q
         /\ Erase(q)
  <2>1. "BackToLobby" \in Steps /\ "MarkOffline" \in Steps
    BY DEF Steps, LostSteps
  <2>2. QED
    BY <1>2, <2>1, DoneEffect, GoToEffect DEF IInv
<1>4. \A p \in Players : ~Attends(t, p) /\ ~SeatingFor(t, p)
  BY <1>2 DEF Attends, SeatingFor
<1>5. \A p \in Players \ {q} : Queued(p) => Queued(p)'
  <2>1. UNCHANGED queue => \A p : Queued(p) => Queued(p)'
    BY DEF Queued
  <2>2. TypeOK
    BY DEF IInv
  <2>3. QED
    BY <1>3, <2>1, <2>2, EraseKeepsOthers
<1>6. \A u \in Threads \ {t} : InMatch(u) => call[u].player # q
  BY <1>2 DEF QueueInv, Alone, Undisturbed, At
<1>7. call'[t].step \notin {"SetMatching", "LeaveQueue"}
  BY <1>3
<1>8. q \in Players
  BY <1>2, Served DEF SettlingSteps
<1>9. PICK w \in Players : w = q
  BY <1>8
<1>10. \/ Queued(w) => Queued(w)'
       \/ Attends(t, w)'
       \/ player_state[w] # "Matching"
  <2>1. UNCHANGED queue => (Queued(w) => Queued(w)')
    BY DEF Queued
  <2>2. call[t].step = "LeaveQueue" => player_state[w] # "Matching"
    BY <1>9 DEF QueueInv, Leaving, At
  <2>3. QED
    BY <1>3, <1>9, <2>1, <2>2 DEF Attends
<1>. HIDE DEF q
<1>11. QED
  BY <1>1, <1>4, <1>5, <1>6, <1>7, <1>9, <1>10, WaitingKept

(* Whoever is popped for a room is being seated, or late, and attended.    *)
LEMMA PopKeepsQueue ==
  ASSUME IInv, QueueInv, NEW t \in Threads, TryPopMatchedPlayers(t)
  PROVE  Attended' /\ Joined' /\ Leaving'
<1>1. /\ call[t].step = "TryPop" /\ UNCHANGED player_state
      /\ TypeOK /\ call[t].next = 1
  BY DEF TryPopMatchedPlayers, At, IInv, RoomInv, Forming, FormingSteps
<1>2. /\ \A u \in Threads \ {t} : call'[u] = call[u]
      /\ \A p : ~Attends(t, p) /\ ~SeatingFor(t, p)
  BY <1>1, FormerGoesOn DEF GoesOn, Attends, SeatingFor
<1>3. CASE Len(queue) < RoomSize
  <2>1. UNCHANGED queue /\ call'[t].step = "idle"
    BY <1>1, <1>3, DoneEffect DEF TryPopMatchedPlayers
  <2>2. \A p : Queued(p) => Queued(p)'
    BY <2>1 DEF Queued
  <2>3. QED
    BY <1>1, <1>2, <2>1, <2>2, WaitingKept
<1>4. CASE ~(Len(queue) < RoomSize)
  <2> DEFINE popped == SubSeq(queue, 1, RoomSize)
  <2>1. /\ queue' = SubSeq(queue, RoomSize + 1, Len(queue))
        /\ call'[t].step = "CreateRoom" /\ call'[t].players = popped
        /\ call'[t].next = 1
    <3>1. /\ queue' = SubSeq(queue, RoomSize + 1, Len(queue))
          /\ call' = [call EXCEPT ![t].step = "CreateRoom", ![t].players = popped]
      BY <1>4 DEF TryPopMatchedPlayers
    <3>. HIDE DEF popped
    <3>2. QED
      BY <1>1, <3>1 DEF TypeOK, Calls
  <2>2. RoomSize \in 0..Len(queue)
    BY <1>1, <1>4, SizeAssumption DEF TypeOK
  <2>3. ASSUME NEW p \in Players, Queued(p)
        PROVE  Queued(p)' \/ SeatingFor(t, p)'
    <3>1. CASE \E i \in DOMAIN popped : popped[i] = p
      <4>1. popped \in Seq(Players)
        BY <1>1, <2>2, SizeAssumption, SubSeqProperties DEF TypeOK
      <4>. HIDE DEF popped
      <4>2. \A i \in DOMAIN popped : 1 <= i
        BY <4>1
      <4>3. QED
        BY <2>1, <3>1, <4>2 DEF SeatingFor
    <3>2. QED
      BY <1>1, <2>1, <2>2, <2>3, <3>1, PoppedOrLeft
  <2>. HIDE DEF popped
  <2>4. \A p \in Players : SeatingFor(t, p)' => Attends(t, p)'
    BY DEF Attends
  <2>5. QED
    BY <1>1, <1>2, <2>1, <2>3, <2>4, WaitingKept
<1>5. QED
  BY <1>3, <1>4

LEMMA TimeoutKeepsQueue ==
  ASSUME IInv, QueueInv, NEW n \in 1..NumLate, PopTimeoutPlayers(n)
  PROVE  Alone' /\ Attended' /\ Joined' /\ Leaving'
<1> DEFINE late == SubSeq(queue, 1, n)
           g == [Idle EXCEPT !.step = "CheckTimedOut", !.players = late]
<1>1. /\ Timer \in Threads /\ TypeOK /\ At(Timer, "idle") /\ n \in 0..Len(queue)
      /\ UNCHANGED <<conn_to_player, player_state>>
      /\ queue' = SubSeq(queue, n + 1, Len(queue))
      /\ call' = [call EXCEPT ![Timer] = g]
      /\ \A i \in 1..n, u \in Workers : InMatch(u) => call[u].player # queue[i]
  BY DEF PopTimeoutPlayers, Threads, IInv, NumLate, sessionVars
<1>2. g.step = "CheckTimedOut" /\ g.players = late /\ g.player = Nobody /\ g.next = 1
  BY DEF Idle
<1>3. late \in Seq(Players) /\ Len(late) = n /\ \A i \in 1..n : late[i] = queue[i]
  <2>1. queue \in Seq(Players) /\ n \in Nat /\ n <= Len(queue)
    BY <1>1 DEF TypeOK
  <2>2. \A i \in 1..n : queue[i] \in Players
    BY <2>1
  <2>3. QED
    BY <2>1, <2>2, SubSeqProperties
<1>. HIDE DEF g
<1>4. /\ \A u \in Threads \ {Timer} : call'[u] = call[u]
      /\ call'[Timer].step = "CheckTimedOut" /\ call'[Timer].players = late
      /\ call'[Timer].player = Nobody /\ call'[Timer].next = 1
  BY <1>1, <1>2 DEF TypeOK
<1>5. Alone'
  <2>1. ASSUME NEW u \in Threads, InMatch(u)
        PROVE  /\ Nobody # call[u].player
               /\ \A i \in DOMAIN late : late[i] # call[u].player
    BY <1>1, <1>3, <2>1, MatchIsServed, PlayersAssumption DEF Nobody
  <2>2. call'[Timer].step \notin MatchSteps
    BY <1>4 DEF MatchSteps
  <2>. HIDE DEF late
  <2>3. QED
    BY <1>1, <1>4, <2>1, <2>2, BeginsElsewhere
<1>6. \A p : ~Attends(Timer, p) /\ ~SeatingFor(Timer, p)
  BY <1>1 DEF At, Attends, SeatingFor
<1>7. ASSUME NEW p \in Players, Queued(p)
      PROVE  \/ Queued(p)'
             \/ Attends(Timer, p)' /\ \E i \in 1..n : queue[i] = p
  <2>1. CASE (\E i \in DOMAIN late : late[i] = p) /\ \E i \in 1..n : queue[i] = p
    <3>1. \A i \in DOMAIN late : 1 <= i
      BY <1>3
    <3>. HIDE DEF late
    <3>2. QED
      BY <1>4, <2>1, <3>1 DEF Attends
  <2>2. QED
    BY <1>1, <1>7, <2>1, PoppedOrLeft
<1>8. \A p \in Players, u \in Threads : InMatch(u) /\ call[u].player = p =>
        ~ \E i \in 1..n : queue[i] = p
  BY <1>1, MatchIsServed
<1>9. Attended' /\ Joined' /\ Leaving'
  BY <1>1, <1>4, <1>6, <1>7, <1>8, WaitingKept
<1>10. QED
  BY <1>5, <1>9

(* Joining, and becoming Matching: by now the player is in the queue, or   *)
(* popped by another request and not yet seated.                           *)
LEMMA JoinKeepsQueue ==
  ASSUME IInv, QueueInv, NEW t \in Threads, Join(t)
  PROVE  Attended' /\ Joined' /\ Leaving'
<1>1. call[t].step = "Join" /\ UNCHANGED player_state /\ TypeOK /\ queue \in Seq(Players)
  BY DEF Join, At, IInv, TypeOK
<1>2. PICK q \in Players : q = call[t].player
  BY <1>1, Served DEF SettlingSteps
<1>3. \A u \in Threads : ~(u # t) => \A p : ~Attends(u, p) /\ ~SeatingFor(u, p)
  BY <1>1 DEF Attends, SeatingFor
<1>4. CASE Done(t) /\ UNCHANGED queue
  <2>1. (\A u \in Threads \ {t} : call'[u] = call[u]) /\ call'[t].step = "idle"
    BY <1>1, <1>4, DoneEffect
  <2>2. \A p : Queued(p) => Queued(p)'
    BY <1>4 DEF Queued
  <2>3. QED
    BY <1>1, <1>3, <2>1, <2>2, WaitingKept
<1>5. CASE GoTo(t, "SetMatching") /\ queue' = Append(queue, q)
  <2>1. "SetMatching" \in Steps
    BY DEF Steps, MatchSteps
  <2>2. /\ \A u \in Threads \ {t} : call'[u] = call[u]
        /\ call'[t].step = "SetMatching" /\ call'[t].player = q
    BY <1>1, <1>2, <1>5, <2>1, GoToEffect
  <2>3. /\ queue' \in Seq(Players) /\ Len(queue') = Len(queue) + 1
        /\ \A i \in 1..Len(queue) : queue'[i] = queue[i]
        /\ queue'[Len(queue) + 1] = q
    BY <1>1, <1>5, AppendProperties
  <2>4. \A p : Queued(p) => Queued(p)'
    BY <1>1, <2>3 DEF Queued
  <2>5. Queued(q)'
    BY <1>1, <2>3 DEF Queued
  <2>6. \A u \in Threads, p \in Players :
          /\ Attends(u, p) => Attends(u, p)'
          /\ SeatingFor(u, p) => SeatingFor(u, p)'
    BY <1>3, <2>2 DEF Attends, SeatingFor
  <2>7. Attended'
    BY <1>1, <2>4, <2>6 DEF QueueInv, Attended
  <2>8. Joined'
    <3>1. SUFFICES ASSUME NEW u \in Threads, call'[u].step = "SetMatching"
                   PROVE  \/ Queued(call[u].player)'
                          \/ \E v \in Threads : SeatingFor(v, call[u].player)'
                          \/ player_state'[call'[u].player] = "InRoom"
      BY DEF Joined, At
    <3>2. CASE u = t
      BY <2>2, <2>5, <3>2 DEF Queued
    <3>3. CASE u # t
      <4>1. call'[u] = call[u] /\ At(u, "SetMatching") /\ InMatch(u)
        BY <2>2, <3>1, <3>3 DEF At, InMatch, MatchSteps
      <4>2. PICK p \in Players : p = call[u].player
        BY <4>1, MatchIsServed
      <4>3. SUFFICES \/ Queued(p)' \/ \E v \in Threads : SeatingFor(v, p)'
                     \/ player_state'[p] = "InRoom"
        BY <4>1, <4>2 DEF Queued, SeatingFor
      <4>4. Queued(p) \/ (\E v \in Threads : SeatingFor(v, p)) \/ player_state[p] = "InRoom"
        BY <4>1, <4>2 DEF QueueInv, Joined
      <4>5. QED
        BY <1>1, <2>4, <2>6, <4>4
    <3>4. QED
      BY <3>2, <3>3
  <2>9. Leaving'
    BY <1>1, <2>2 DEF QueueInv, Leaving, At
  <2>10. QED
    BY <2>7, <2>8, <2>9
<1>6. QED
  BY <1>2, <1>4, <1>5 DEF Join

LEMMA SetMatchingKeepsQueue ==
  ASSUME IInv, QueueInv, NEW t \in Threads, SetMatching(t)
  PROVE  Attended' /\ Joined' /\ Leaving'
<1>1. /\ At(t, "SetMatching") /\ call[t].step = "SetMatching" /\ UNCHANGED queue /\ TypeOK
      /\ player_state \in [Players -> PlayerStates]
  BY DEF SetMatching, At, IInv, TypeOK
<1>2. PICK q \in Players : q = call[t].player
  BY <1>1, Served DEF SettlingSteps
<1>3. \A p : ~Attends(t, p) /\ ~SeatingFor(t, p)
  BY <1>1 DEF Attends, SeatingFor
<1>4. \A u \in Threads \ {t} : InMatch(u) => call[u].player # q
  BY <1>1, <1>2 DEF QueueInv, Alone, Undisturbed, At
<1>5. \A p : Queued(p) => Queued(p)'
  BY <1>1 DEF Queued
<1>6. /\ \/ /\ player_state' = [player_state EXCEPT ![q] = "Matching"]
            /\ player_state[q] \in {"Lobby", "Matching"} /\ GoTo(t, "TryPop")
         \/ /\ UNCHANGED player_state /\ player_state[q] \notin {"Lobby", "Matching"}
            /\ GoTo(t, "LeaveQueue")
  BY <1>2 DEF SetMatching, MayMatch, ForceState
<1>7. /\ \A u \in Threads \ {t} : call'[u] = call[u]
      /\ call'[t].player = q
      /\ \/ call'[t].step = "TryPop"
         \/ call'[t].step = "LeaveQueue" /\ player_state'[q] # "Matching"
  <2>1. "TryPop" \in Steps /\ "LeaveQueue" \in Steps
    BY DEF Steps, MatchSteps
  <2>2. QED
    BY <1>1, <1>2, <1>6, <2>1, GoToEffect
<1>8. \A p \in Players \ {q} : player_state'[p] = player_state[p]
  BY <1>1, <1>6
<1>9. \A u \in Threads, p \in Players :
        /\ Attends(u, p) => Attends(u, p)'
        /\ SeatingFor(u, p) => SeatingFor(u, p)'
  BY <1>3, <1>7 DEF Attends, SeatingFor
<1>10. Attended'
  <2>1. SUFFICES ASSUME NEW p \in Players, player_state'[p] = "Matching"
                 PROVE  Queued(p)' \/ \E u \in Threads : Attends(u, p)'
    BY DEF Attended
  <2>2. CASE p # q
    BY <1>5, <1>8, <1>9, <2>1, <2>2 DEF QueueInv, Attended
  <2>3. CASE p = q
    <3>1. player_state[q] # "InRoom"
      BY <1>6, <2>1, <2>3
    <3>2. Queued(q) \/ \E u \in Threads : SeatingFor(u, q)
      BY <1>1, <1>2, <3>1 DEF QueueInv, Joined
    <3>3. \A u \in Threads : SeatingFor(u, q) => Attends(u, q)
      BY DEF Attends
    <3>4. QED
      BY <1>5, <1>9, <2>3, <3>2, <3>3
  <2>4. QED
    BY <2>2, <2>3
<1>11. Joined'
  <2>1. SUFFICES ASSUME NEW u \in Threads, call'[u].step = "SetMatching"
                 PROVE  \/ Queued(call[u].player)'
                        \/ \E v \in Threads : SeatingFor(v, call[u].player)'
                        \/ player_state'[call'[u].player] = "InRoom"
    BY DEF Joined, At
  <2>2. u # t /\ call'[u] = call[u] /\ At(u, "SetMatching") /\ InMatch(u)
    BY <1>7, <2>1 DEF At, InMatch, MatchSteps
  <2>3. PICK p \in Players \ {q} : p = call[u].player
    BY <1>4, <2>2, MatchIsServed
  <2>4. SUFFICES \/ Queued(p)' \/ \E v \in Threads : SeatingFor(v, p)'
                 \/ player_state'[p] = "InRoom"
    BY <2>2, <2>3 DEF Queued, SeatingFor
  <2>5. Queued(p) \/ (\E v \in Threads : SeatingFor(v, p)) \/ player_state[p] = "InRoom"
    BY <2>2, <2>3 DEF QueueInv, Joined
  <2>6. QED
    BY <1>5, <1>8, <1>9, <2>5
<1>12. Leaving'
  <2>1. SUFFICES ASSUME NEW u \in Threads, call'[u].step = "LeaveQueue"
                 PROVE  player_state'[call'[u].player] # "Matching"
    BY DEF Leaving, At
  <2>2. CASE u = t
    BY <1>7, <2>1, <2>2
  <2>3. CASE u # t
    <3>1. call'[u] = call[u] /\ At(u, "LeaveQueue") /\ InMatch(u)
      BY <1>7, <2>1, <2>3 DEF At, InMatch, MatchSteps
    <3>2. call[u].player \in Players \ {q}
      BY <1>4, <2>3, <3>1, MatchIsServed
    <3>3. QED
      BY <1>8, <3>1, <3>2 DEF QueueInv, Leaving
  <2>4. QED
    BY <2>2, <2>3
<1>13. QED
  BY <1>10, <1>11, <1>12

-----------------------------------------------------------------------------
(* Loops stay within their players.                                        *)

LEMMA LoopingKept ==
  ASSUME QueueInv, NEW t \in Threads,
         \A u \in Threads \ {t} : call'[u] = call[u],
         call'[t].step \in LoopSteps \ {"DestroyRoom"} =>
           call'[t].next \in DOMAIN call'[t].players,
         \A r \in Rooms : room_state'[r] = "open" =>
           (room_state[r] = "open" /\ seats'[r] = seats[r]) \/ seats'[r] # <<>>
  PROVE  Looping'
BY DEF QueueInv, Looping

LEMMA ContinueKeepsLoops ==
  ASSUME IInv, QueueInv, NEW t \in Threads, Continue(t)
  PROVE  Looping'
<1>1. GoesOn(t)
  BY ContinueGoesOn
<1>2. \A r \in Rooms : room_state'[r] = "open" =>
        (room_state[r] = "open" /\ seats'[r] = seats[r]) \/ seats'[r] # <<>>
  <2>1. CASE CreateRoom(t)
    <3>1. call[t].players # <<>>
      BY <2>1 DEF CreateRoom, At, IInv, RoomInv, Forming
    <3>2. QED
      BY <2>1, <3>1 DEF CreateRoom, IInv, TypeOK
  <2>2. CASE DestroyRoom(t)
    BY <2>2 DEF DestroyRoom, IInv, TypeOK
  <2>3. CASE UNCHANGED roomVars
    BY <2>3 DEF roomVars
  <2>4. QED
    BY <2>1, <2>2, <2>3
    DEF Continue, LoginState, BindLogin, Kick, RebindForReconnect, ReconnectState, Bind,
        CheckLobby, Join, SetMatching, LeaveQueue, TryPopMatchedPlayers, SetRoomId,
        ForceInRoom, CheckMatching, Cancel, BackToLobby, WasMatching, CancelLost,
        MarkOfflineByConnection, ForceOffline, CheckTimedOut, ForceTimedOut, ClearRoomId,
        Release
<1>3. ASSUME call'[t].step \in LoopSteps \ {"DestroyRoom"}
      PROVE  call'[t].next \in DOMAIN call'[t].players
  <2>1. call[t].step \in LoopSteps /\ call'[t].players = call[t].players
    BY <1>1, <1>3 DEF GoesOn
  <2>2. {"ForceTimedOut", "CheckTimedOut", "idle", "Release", "ClearRoomId", "DestroyRoom"}
          \subseteq Steps
    BY DEF Steps
  <2>3. "idle" \notin LoopSteps
    BY DEF LoopSteps
  <2>4. call[t].step # "DestroyRoom"
    <3>1. DestroyRoom(t) => call'[t].step = "idle"
      BY DoneEffect DEF DestroyRoom, IInv
    <3>2. call[t].step = "DestroyRoom" => DestroyRoom(t)
      BY DEF Continue, LoginState, BindLogin, Kick, RebindForReconnect, ReconnectState,
             CheckLobby, Join, SetMatching, LeaveQueue, TryPopMatchedPlayers, CreateRoom,
             SetRoomId, ForceInRoom, CheckMatching, Cancel, BackToLobby, WasMatching,
             CancelLost, MarkOfflineByConnection, ForceOffline, CheckTimedOut,
             ForceTimedOut, ClearRoomId, Release, At
    <3>3. QED
      BY <1>3, <2>3, <3>1, <3>2
  <2>5. call[t].next \in DOMAIN call[t].players
    BY <2>1, <2>4 DEF QueueInv, Looping
  <2>6. \/ GoTo(t, "ForceTimedOut") \/ GoTo(t, "Release")
        \/ NextPlayer(t, "CheckTimedOut", "idle") \/ NextPlayer(t, "ClearRoomId", "DestroyRoom")
    BY <2>1, <2>4
    DEF Continue, LoginState, BindLogin, Kick, RebindForReconnect, ReconnectState,
        CheckLobby, Join, SetMatching, LeaveQueue, TryPopMatchedPlayers, CreateRoom,
        SetRoomId, ForceInRoom, CheckMatching, Cancel, BackToLobby, WasMatching,
        CancelLost, MarkOfflineByConnection, ForceOffline, CheckTimedOut, ForceTimedOut,
        ClearRoomId, Release, DestroyRoom, At, LoopSteps
  <2>7. call'[t].next = call[t].next \/
          (call'[t].next = call[t].next + 1 /\ call[t].next < Len(call[t].players))
    BY <1>3, <2>2, <2>3, <2>6, GoToEffect, NextPlayerEffect DEF IInv
  <2>8. QED
    BY <2>1, <2>5, <2>7, PlayersOfCall
<1>4. QED
  BY <1>1, <1>2, <1>3, LoopingKept DEF GoesOn

LEMMA RequestKeepsLoops ==
  ASSUME IInv, QueueInv, NEW c \in Conns, Request(c)
  PROVE  Looping'
<1> DEFINE t == Owner[c]
<1>1. t \in Threads
  BY ThreadsAssumption DEF Threads
<1>2. ASSUME NEW p, NEW besides, NEW g \in Calls, Begin(c, p, besides, g),
             g.step \notin LoopSteps, UNCHANGED roomVars
      PROVE  Looping'
  <2>1. /\ \A u \in Threads \ {t} : call'[u] = call[u]
        /\ call'[t].step \notin LoopSteps
    BY <1>2, BeginEffect
  <2>2. UNCHANGED <<room_state, seats>>
    BY <1>2 DEF roomVars
  <2>3. QED
    BY <1>1, <2>1, <2>2, LoopingKept
<1>3. ASSUME NEW p \in Players, Login(c, p) \/ Reconnect(c, p)
      PROVE  Looping'
  <2> DEFINE login == [Idle EXCEPT !.step = "LoginState", !.room = session_room[p]]
             reconnect == [Idle EXCEPT !.step = "Rebind", !.room = session_room[p]]
  <2>1. login \in Calls /\ reconnect \in Calls
    <3>1. session_room[p] \in Rooms \cup {NoRoom}
      BY DEF IInv, TypeOK
    <3>2. QED
      BY <3>1, IdleTyped DEF Calls, Steps
  <2>2. login.step \notin LoopSteps /\ reconnect.step \notin LoopSteps
    BY DEF Idle, LoopSteps
  <2>3. /\ Begin(c, p, LostSteps, login) \/ Begin(c, p, LostSteps, reconnect)
        /\ UNCHANGED roomVars
    BY <1>3, Zenon DEF Login, Reconnect
  <2>. HIDE DEF login, reconnect
  <2>4. QED
    BY <1>2, <2>1, <2>2, <2>3
<1>4. CASE Match(c) \/ CancelMatch(c)
  <2> DEFINE match == [Idle EXCEPT !.step = "CheckLobby"]
             cancel == [Idle EXCEPT !.step = "CheckMatching"]
  <2>1. match \in Calls /\ cancel \in Calls
    BY IdleTyped DEF Calls, Steps, MatchSteps
  <2>2. match.step \notin LoopSteps /\ cancel.step \notin LoopSteps
    BY DEF Idle, LoopSteps
  <2>3. /\ \/ Begin(c, conn_to_player[c], {}, match)
           \/ Begin(c, conn_to_player[c], {}, cancel)
        /\ UNCHANGED roomVars
    BY <1>4, Zenon DEF Match, CancelMatch
  <2>. HIDE DEF match, cancel
  <2>4. QED
    BY <1>2, <2>1, <2>2, <2>3
<1>5. CASE ConnectionClosed(c)
  <2> DEFINE g == [Idle EXCEPT !.step = "WasMatching", !.conn = c, !.player = conn_to_player[c]]
  <2>1. /\ UNCHANGED <<room_state, seats>>
        /\ UNCHANGED call \/ call' = [call EXCEPT ![t] = g]
    BY <1>5 DEF ConnectionClosed, roomVars
  <2>2. g.step = "WasMatching"
    BY DEF Idle
  <2>. HIDE DEF g
  <2>3. /\ \A u \in Threads \ {t} : call'[u] = call[u]
        /\ call'[t].step \in LoopSteps => call'[t] = call[t]
    BY <1>1, <2>1, <2>2 DEF IInv, TypeOK, LoopSteps
  <2>4. QED
    BY <1>1, <2>1, <2>3, LoopingKept DEF QueueInv, Looping
<1>6. ASSUME NEW r \in Rooms, SettleGameOver(c, r)
      PROVE  Looping'
  <2> DEFINE g == [Idle EXCEPT !.conn = c, !.player = conn_to_player[c]]
             h == [g EXCEPT !.step = "ClearRoomId", !.room = r, !.players = seats[r]]
  <2>1. call' = [call EXCEPT ![t] = h] /\ room_state[r] = "open"
        /\ room_state' = [room_state EXCEPT ![r] = "settling"] /\ UNCHANGED seats
    BY <1>6, Zenon DEF SettleGameOver, Settle
  <2>2. h.players = seats[r] /\ h.next = 1
    BY DEF Idle
  <2>. HIDE DEF h
  <2>3. /\ \A u \in Threads \ {t} : call'[u] = call[u]
        /\ call'[t].players = seats[r] /\ call'[t].next = 1
    BY <1>1, <2>1, <2>2 DEF IInv, TypeOK
  <2>4. 1 \in DOMAIN seats[r]
    BY <2>1 DEF QueueInv, Looping, IInv, TypeOK
  <2>5. QED
    BY <1>1, <2>1, <2>3, <2>4, LoopingKept DEF IInv, TypeOK
<1>7. QED
  BY <1>3, <1>4, <1>5, <1>6 DEF Request

LEMMA TimerKeepsLoops ==
  ASSUME IInv, QueueInv, TimerTick
  PROVE  Looping'
<1>1. Timer \in Threads
  BY DEF Threads
<1>2. ASSUME NEW c \in Conns, CloseIdleConnection(c)
      PROVE  Looping'
  BY <1>2 DEF CloseIdleConnection, roomVars, QueueInv, Looping
<1>3. ASSUME NEW n \in 1..NumLate, PopTimeoutPlayers(n)
      PROVE  Looping'
  <2> DEFINE g == [Idle EXCEPT !.step = "CheckTimedOut", !.players = SubSeq(queue, 1, n)]
  <2>1. call' = [call EXCEPT ![Timer] = g] /\ UNCHANGED <<room_state, seats>>
    BY <1>3 DEF PopTimeoutPlayers, roomVars
  <2>2. g.players = SubSeq(queue, 1, n) /\ g.next = 1
    BY DEF Idle
  <2>3. 1 \in DOMAIN SubSeq(queue, 1, n)
    BY DEF NumLate, IInv, TypeOK
  <2>. HIDE DEF g
  <2>4. /\ \A u \in Threads \ {Timer} : call'[u] = call[u]
        /\ call'[Timer].players = SubSeq(queue, 1, n) /\ call'[Timer].next = 1
    BY <1>1, <2>1, <2>2 DEF IInv, TypeOK
  <2>5. QED
    BY <1>1, <2>1, <2>3, <2>4, LoopingKept
<1>4. ASSUME NEW r \in Rooms, SettleByTimer(r)
      PROVE  Looping'
  <2> DEFINE h == [Idle EXCEPT !.step = "ClearRoomId", !.room = r, !.players = seats[r]]
  <2>1. call' = [call EXCEPT ![Timer] = h] /\ room_state[r] = "open"
        /\ room_state' = [room_state EXCEPT ![r] = "settling"] /\ UNCHANGED seats
    BY <1>4, Zenon DEF SettleByTimer, Settle
  <2>2. h.players = seats[r] /\ h.next = 1
    BY DEF Idle
  <2>. HIDE DEF h
  <2>3. /\ \A u \in Threads \ {Timer} : call'[u] = call[u]
        /\ call'[Timer].players = seats[r] /\ call'[Timer].next = 1
    BY <1>1, <2>1, <2>2 DEF IInv, TypeOK
  <2>4. 1 \in DOMAIN seats[r]
    BY <2>1 DEF QueueInv, Looping, IInv, TypeOK
  <2>5. QED
    BY <1>1, <2>1, <2>3, <2>4, LoopingKept DEF IInv, TypeOK
<1>5. QED
  BY <1>2, <1>3, <1>4 DEF TimerTick

-----------------------------------------------------------------------------
(* Every step keeps QueueInv.                                              *)
LEMMA NextKeepsQueue ==
  ASSUME OneRequestEach, IInv, QueueInv, [Next]_vars
  PROVE  QueueInv'
<1>1. ASSUME NEW c \in Conns, Accept(c) \/ ForgetRemoved(c) \/ CloseIdleConnection(c)
      PROVE  QueueInv'
  <2>1. UNCHANGED <<conn_to_player, player_state, queue, call, room_state, seats>>
    BY <1>1 DEF Accept, ForgetRemoved, CloseIdleConnection, sessionVars, roomVars
  <2>2. Looping'
    BY <2>1 DEF QueueInv, Looping
  <2>3. QED
    BY <2>1, <2>2, QueueUntouched DEF QueueInv
<1>2. ASSUME NEW c \in Conns, Request(c)
      PROVE  QueueInv'
  <2>1. Looping'
    BY <1>2, RequestKeepsLoops
  <2>2. Match(c) \/ CancelMatch(c) => conn_to_player[c] \in Players
    BY DEF Match, CancelMatch, IInv, TypeOK
  <2>3. Alone' /\ Attended' /\ Joined' /\ Leaving'
    BY <1>2, <2>2, RequestKeepsQueue, MatchKeepsQueue, ClosedKeepsQueue, SettleByKeepsQueue
    DEF Request
  <2>4. QED
    BY <2>1, <2>3 DEF QueueInv
<1>3. CASE TimerTick
  <2>1. Looping'
    BY <1>3, TimerKeepsLoops
  <2>2. CASE \E c \in Conns : CloseIdleConnection(c)
    BY <1>1, <2>2
  <2>3. CASE \E n \in 1..NumLate : PopTimeoutPlayers(n)
    BY <2>1, <2>3, TimeoutKeepsQueue DEF QueueInv
  <2>4. CASE \E r \in Rooms : SettleByTimer(r)
    BY <2>1, <2>4, SettleByKeepsQueue DEF QueueInv
  <2>5. QED
    BY <1>3, <2>2, <2>3, <2>4 DEF TimerTick
<1>4. ASSUME NEW t \in Threads, Continue(t)
      PROVE  QueueInv'
  <2>1. Looping' /\ Alone'
    BY <1>4, ContinueKeepsLoops, ContinueGoesOn, GoesOnAlone
  <2>2. Attended' /\ Joined' /\ Leaving'
    BY <1>4, CalmKeepsQueue, StatesKeepQueue, OutOfQueueKeeps, PopKeepsQueue, JoinKeepsQueue,
       SetMatchingKeepsQueue
    DEF Continue
  <2>3. QED
    BY <2>1, <2>2 DEF QueueInv
<1>5. CASE UNCHANGED vars
  <2>1. UNCHANGED <<conn_to_player, player_state, queue, call, room_state, seats>>
    BY <1>5 DEF vars, sessionVars, roomVars
  <2>2. Looping'
    BY <2>1 DEF QueueInv, Looping
  <2>3. QED
    BY <2>1, <2>2, QueueUntouched DEF QueueInv
<1>6. QED
  BY <1>1, <1>2, <1>3, <1>4, <1>5 DEF Next

(* While players wait for their answers, nobody who is Matching has        *)
(* dropped out of the queue unnoticed, however joining, popping, leaving,  *)
(* timeouts and lost connections interleave.                               *)
THEOREM QueueAgrees ==
  ASSUME OneRequestEach
  PROVE  Spec => []MatchingPlayersAreQueued
<1>1. Init => QueueInv
  BY InitQueueInv
<1>2. IInv /\ QueueInv /\ [Next]_vars => QueueInv'
  BY NextKeepsQueue
<1>3. QueueInv => MatchingPlayersAreQueued
  BY DEF QueueInv, Attended, MatchingPlayersAreQueued, Attends, SeatingFor, BusyWith, At
<1>4. QED
  BY <1>1, <1>2, <1>3, Invariance, PTL DEF Spec
=============================================================================
