---------------------------- MODULE GameServer ----------------------------
(***************************************************************************)
(* The life of players between their connections, sessions, the matching   *)
(* queue and rooms (server/game_server.cpp with the session, player and    *)
(* match managers, the login, match and reconnect services, and the        *)
(* connections of network/tcp_server.cpp).                                 *)
(*                                                                         *)
(* A connection belongs to one I/O worker, which runs the handlers of its  *)
(* requests and the callback when it is lost; the timer closes idle        *)
(* connections, ends matching that takes too long and settles rooms.       *)
(* Every handler is a sequence of calls, each under the lock of one        *)
(* manager: each such call is an action here, and call[t] says where       *)
(* thread t is.  Reads that nothing but the thread itself depends on are   *)
(* joined to the next call.                                                *)
(*                                                                         *)
(* Left out: what happens inside a room (RoomManager), coins and storage   *)
(* (SettlementService), tokens, and which packets are sent.                *)
(***************************************************************************)
EXTENDS Integers, Sequences, FiniteSets

CONSTANTS
  Players,   \* player ids
  Conns,     \* connection ids 1..n: bounds the connections accepted
  Rooms,     \* room ids 1..n: bounds the rooms opened
  RoomSize,  \* players of a room, 3 in the program
  Workers,   \* I/O workers
  Timer,     \* the timer thread
  Owner,     \* the worker of every connection, dealt in turn
  OneRequestEach  \* players wait for their answers, see Begin

ASSUME PlayersAssumption == Players \subseteq Nat \ {0}

ASSUME ConnsAssumption == Conns \subseteq Nat \ {0}

ASSUME RoomsAssumption == Rooms \subseteq Nat \ {0} /\ IsFiniteSet(Rooms)

ASSUME SizeAssumption == RoomSize \in Nat \ {0}

ASSUME ThreadsAssumption ==
  Timer \notin Workers /\ Owner \in [Conns -> Workers] /\ IsFiniteSet(Workers)

ASSUME RequestsAssumption == OneRequestEach \in BOOLEAN

VARIABLES
  conn_state,          \* of TcpServer::connections_, see ConnStates
  conn_to_player,      \* SessionManager::conn_to_player_, 0 without an entry
  session_connection,  \* Session::connection_id, 0 without a session
  session_room,        \* Session::room_id, 0 in the lobby
  online,              \* Session::online
  player_state,        \* PlayerData::state
  queue,               \* MatchManager::queue_three_ (and matching_index_)
  room_state,          \* of RoomManager::rooms_
  seats,               \* Room::players
  call                 \* what every thread is doing

sessionVars == <<conn_to_player, session_connection, session_room, online>>
roomVars == <<room_state, seats>>
vars == <<conn_state, sessionVars, player_state, queue, roomVars, call>>

Threads == Workers \cup {Timer}
NoConn == 0
Nobody == 0
NoRoom == 0

(* "removed" is a connection that another thread has closed while its      *)
(* worker has it in its list of readable ones, "draining" one whose worker *)
(* is in the middle of the packets it has read from it.                    *)
ConnStates == {"new", "open", "removed", "draining", "gone"}

(* Playing and Settlement are never entered.                               *)
PlayerStates == {"Offline", "Lobby", "Matching", "InRoom"}

RoomStates == {"none", "open", "settling", "destroyed"}

LostSteps == {"WasMatching", "CancelLost", "MarkOffline", "ForceOffline"}

MatchSteps == {"CheckLobby", "Join", "SetMatching", "LeaveQueue", "TryPop",
               "CreateRoom", "SetRoomId", "ForceInRoom"}

Steps == MatchSteps \cup LostSteps \cup
  {"idle", "LoginState", "BindLogin", "Kick", "Rebind", "ReconnectState",
   "CheckMatching", "Cancel", "BackToLobby", "CheckTimedOut", "ForceTimedOut",
   "ClearRoomId", "Release", "DestroyRoom"}

(* conn, player, room, old: the connection served, for whom, in which room *)
(* and with which connection to kick; players, next: the loop over the     *)
(* players of a match, a settlement or a timeout.                          *)
Idle == [step |-> "idle", conn |-> NoConn, player |-> Nobody, room |-> NoRoom,
         old |-> NoConn, players |-> <<>>, next |-> 1]

-----------------------------------------------------------------------------
Init ==
  /\ conn_state = [c \in Conns |-> "new"]
  /\ conn_to_player = [c \in Conns |-> Nobody]
  /\ session_connection = [p \in Players |-> NoConn]
  /\ session_room = [p \in Players |-> NoRoom]
  /\ online = [p \in Players |-> FALSE]
  /\ player_state = [p \in Players |-> "Offline"]
  /\ queue = <<>>
  /\ room_state = [r \in Rooms |-> "none"]
  /\ seats = [r \in Rooms |-> <<>>]
  /\ call = [t \in Threads |-> Idle]

At(t, step) == call[t].step = step
GoTo(t, step) == call' = [call EXCEPT ![t].step = step]
Done(t) == call' = [call EXCEPT ![t] = Idle]

Queued(p) == \E i \in DOMAIN queue : queue[i] = p

(* Nobody is in the queue twice (matching_index_).                         *)
Erase(p) ==
  IF Queued(p)
  THEN \E i \in DOMAIN queue :
         /\ queue[i] = p
         /\ queue' = SubSeq(queue, 1, i - 1) \o SubSeq(queue, i + 1, Len(queue))
  ELSE UNCHANGED queue

SeatedIn(p, r) == \E i \in DOMAIN seats[r] : seats[r][i] = p
Exists(r) == room_state[r] \in {"open", "settling"}

ForceState(p, state) == player_state' = [player_state EXCEPT ![p] = state]

PlayingFor(room) == IF room # NoRoom THEN "Playing" ELSE "Lobby"  \* mutant of StateFor

(* InRoom for a session that names a room, else Lobby.                     *)
StateFor(room) == IF room # NoRoom THEN "InRoom" ELSE "Lobby"

-----------------------------------------------------------------------------
(* Connections.                                                            *)

Accept(c) ==
  /\ conn_state[c] = "new"
  /\ \A d \in Conns : d < c => conn_state[d] # "new"
  /\ conn_state' = [conn_state EXCEPT ![c] = "open"]
  /\ UNCHANGED <<sessionVars, player_state, queue, roomVars, call>>

(* RemoveConnection by a thread that is not in the handlers of c.          *)
RemoveConnection(c) ==
  conn_state' = [conn_state EXCEPT ![c] =
    IF @ # "open" THEN @
    ELSE IF call[Owner[c]].conn = c THEN "draining" ELSE "removed"]

(* CloseIdleConnections: the connection is removed, on_close_ not called.  *)
CloseIdleConnection(c) ==
  /\ At(Timer, "idle")
  /\ conn_state[c] = "open"
  /\ call[Owner[c]].conn # c
  /\ RemoveConnection(c)
  /\ UNCHANGED <<sessionVars, player_state, queue, roomVars, call>>

(* The worker goes on to other connections.                                *)
ForgetRemoved(c) ==
  /\ conn_state[c] \in {"removed", "draining"}
  /\ call[Owner[c]].conn # c
  /\ conn_state' = [conn_state EXCEPT ![c] = "gone"]
  /\ UNCHANGED <<sessionVars, player_state, queue, roomVars, call>>

(* Thread t has something under way for p.                                 *)
BusyWith(t, p) ==
  /\ ~At(t, "idle")
  /\ call[t].player = p \/ \E i \in DOMAIN call[t].players : call[t].players[i] = p

(* The owner of c begins a handler for player p, for a packet it has read  *)
(* from c.  A player who uses several connections at a time, or does not   *)
(* wait for his answers, may have several handlers under way.  With        *)
(* OneRequestEach he does wait, and what was under way for him is over a   *)
(* network round trip later; only the loss of his old connection may be    *)
(* noticed while he enters on a new one.                                   *)
Receive(c, p, besides) ==
  /\ conn_state[c] \in {"open", "draining"}
  /\ At(Owner[c], "idle")
  /\ OneRequestEach =>
       \A t \in Workers : call[t].player = p => call[t].step \in besides

Begin(c, p, besides, handler) ==
  /\ Receive(c, p, besides)
  /\ call' = [call EXCEPT ![Owner[c]] = [handler EXCEPT !.conn = c, !.player = p]]

-----------------------------------------------------------------------------
(* HandleLogin, with a good ticket: the state by the room of the session,  *)
(* then the session, then the old connection.                              *)

Login(c, p) ==
  /\ Begin(c, p, LostSteps, [Idle EXCEPT !.step = "LoginState", !.room = session_room[p]])
  /\ UNCHANGED <<conn_state, sessionVars, player_state, queue, roomVars>>

LoginState(t) ==
  /\ At(t, "LoginState")
  /\ ForceState(call[t].player, StateFor(call[t].room))
  /\ GoTo(t, "BindLogin")
  /\ UNCHANGED <<conn_state, sessionVars, queue, roomVars>>

StillBound(old) == conn_to_player  \* mutant of Unbound

(* The connection of a session that is replaced speaks for nobody.         *)
Unbound(old) == [conn_to_player EXCEPT ![old] = Nobody]

Bind(t, released) ==
  LET c == call[t].conn
      p == call[t].player
  IN /\ conn_to_player' = [released EXCEPT ![c] = p]
     /\ session_connection' = [session_connection EXCEPT ![p] = c]
     /\ online' = [online EXCEPT ![p] = TRUE]
     /\ UNCHANGED <<conn_state, session_room, player_state, queue, roomVars>>

BindLogin(t) ==
  LET p == call[t].player
  IN /\ At(t, "BindLogin")
     /\ IF online[p]
        THEN /\ Bind(t, Unbound(session_connection[p]))
             /\ call' = [call EXCEPT ![t].step = "Kick", ![t].old = session_connection[p]]
        ELSE Bind(t, conn_to_player) /\ Done(t)

(* CloseConnection(old): on_close_ is not called.                          *)
Kick(t) ==
  /\ At(t, "Kick")
  /\ IF call[t].old # call[t].conn
     THEN RemoveConnection(call[t].old)
     ELSE UNCHANGED conn_state
  /\ Done(t)
  /\ UNCHANGED <<sessionVars, player_state, queue, roomVars>>

(* HandleReconnect, with a good token and the room of the session.         *)

Reconnect(c, p) ==
  /\ session_connection[p] # NoConn
  /\ Begin(c, p, LostSteps, [Idle EXCEPT !.step = "Rebind", !.room = session_room[p]])
  /\ UNCHANGED <<conn_state, sessionVars, player_state, queue, roomVars>>

RebindForReconnect(t) ==
  LET prev == session_connection[call[t].player]
  IN /\ At(t, "Rebind")
     /\ IF prev # call[t].conn THEN Bind(t, Unbound(prev)) ELSE Bind(t, conn_to_player)
     /\ call' = [call EXCEPT
          ![t].step = "ReconnectState",
          ![t].old = IF online[call[t].player] /\ prev # call[t].conn THEN prev ELSE NoConn]

(* The room is that of the session as it was read first.                   *)
ReconnectState(t) ==
  /\ At(t, "ReconnectState")
  /\ ForceState(call[t].player, StateFor(call[t].room))
  /\ IF call[t].old = NoConn THEN Done(t) ELSE GoTo(t, "Kick")
  /\ UNCHANGED <<conn_state, sessionVars, queue, roomVars>>

-----------------------------------------------------------------------------
(* HandleMatch.                                                            *)

InMatch(t) == call[t].step \in MatchSteps

(* Bound: a match begins only while the rooms left seat all who are in     *)
(* line for one.                                                           *)
RoomsLeft(p) ==
  LET inLine == {q \in Players : Queued(q) \/ \E t \in Workers : InMatch(t) /\ BusyWith(t, q)}
  IN Cardinality(inLine \cup {p}) <=
       RoomSize * Cardinality({r \in Rooms : room_state[r] = "none"})

Match(c) ==
  /\ conn_to_player[c] # Nobody
  /\ OneRequestEach => \A t \in Threads : ~BusyWith(t, conn_to_player[c])
  /\ RoomsLeft(conn_to_player[c])
  /\ Begin(c, conn_to_player[c], {}, [Idle EXCEPT !.step = "CheckLobby"])
  /\ UNCHANGED <<conn_state, sessionVars, player_state, queue, roomVars>>

CheckLobby(t) ==
  /\ At(t, "CheckLobby")
  /\ IF player_state[call[t].player] = "Lobby" THEN GoTo(t, "Join") ELSE Done(t)
  /\ UNCHANGED <<conn_state, sessionVars, player_state, queue, roomVars>>

Join(t) ==
  /\ At(t, "Join")
  /\ IF Queued(call[t].player)
     THEN Done(t) /\ UNCHANGED queue
     ELSE GoTo(t, "SetMatching") /\ queue' = Append(queue, call[t].player)
  /\ UNCHANGED <<conn_state, sessionVars, player_state, roomVars>>

MayMatchAlways(state) == TRUE  \* mutant of MayMatch

(* SetState: only from Lobby, or if it is Matching already.                *)
MayMatch(state) == state \in {"Lobby", "Matching"}

SetMatching(t) ==
  LET p == call[t].player
  IN /\ At(t, "SetMatching")
     /\ IF MayMatch(player_state[p])
        THEN ForceState(p, "Matching") /\ GoTo(t, "TryPop")
        ELSE GoTo(t, "LeaveQueue") /\ UNCHANGED player_state
     /\ UNCHANGED <<conn_state, sessionVars, queue, roomVars>>

LeaveQueue(t) ==
  /\ At(t, "LeaveQueue")
  /\ Erase(call[t].player)
  /\ Done(t)
  /\ UNCHANGED <<conn_state, sessionVars, player_state, roomVars>>

TryPopMatchedPlayers(t) ==
  /\ At(t, "TryPop")
  /\ IF Len(queue) < RoomSize
     THEN Done(t) /\ UNCHANGED queue
     ELSE /\ call' = [call EXCEPT ![t].step = "CreateRoom",
                                  ![t].players = SubSeq(queue, 1, RoomSize)]
          /\ queue' = SubSeq(queue, RoomSize + 1, Len(queue))
  /\ UNCHANGED <<conn_state, sessionVars, player_state, roomVars>>

CreateRoom(t) ==
  /\ At(t, "CreateRoom")
  /\ \E r \in Rooms :
       /\ room_state[r] = "none"
       /\ \A s \in Rooms : s < r => room_state[s] # "none"
       /\ room_state' = [room_state EXCEPT ![r] = "open"]
       /\ seats' = [seats EXCEPT ![r] = call[t].players]
       /\ call' = [call EXCEPT ![t].step = "SetRoomId", ![t].room = r]
  /\ UNCHANGED <<conn_state, sessionVars, player_state, queue>>

ThisPlayer(t) == call[t].players[call[t].next]

(* On to the next player of the list, or to the step after the loop.       *)
NextPlayer(t, step, after) ==
  LET now == call[t]
  IN call' = [call EXCEPT ![t] =
       IF now.next < Len(now.players)
       THEN [now EXCEPT !.step = step, !.next = now.next + 1]
       ELSE IF after = "idle" THEN Idle ELSE [now EXCEPT !.step = after]]

SetRoomId(t) ==
  /\ At(t, "SetRoomId")
  /\ session_room' = [session_room EXCEPT ![ThisPlayer(t)] = call[t].room]
  /\ GoTo(t, "ForceInRoom")
  /\ UNCHANGED <<conn_state, conn_to_player, session_connection, online,
                 player_state, queue, roomVars>>

ForceInRoom(t) ==
  /\ At(t, "ForceInRoom")
  /\ ForceState(ThisPlayer(t), "InRoom")
  /\ NextPlayer(t, "SetRoomId", "idle")
  /\ UNCHANGED <<conn_state, sessionVars, queue, roomVars>>

-----------------------------------------------------------------------------
(* HandleCancelMatch.                                                      *)

CancelMatch(c) ==
  /\ conn_to_player[c] # Nobody
  /\ OneRequestEach => \A t \in Threads : ~BusyWith(t, conn_to_player[c])
  /\ Begin(c, conn_to_player[c], {}, [Idle EXCEPT !.step = "CheckMatching"])
  /\ UNCHANGED <<conn_state, sessionVars, player_state, queue, roomVars>>

CheckMatching(t) ==
  /\ At(t, "CheckMatching")
  /\ IF player_state[call[t].player] = "Matching" THEN GoTo(t, "Cancel") ELSE Done(t)
  /\ UNCHANGED <<conn_state, sessionVars, player_state, queue, roomVars>>

Cancel(t) ==
  /\ At(t, "Cancel")
  /\ IF Queued(call[t].player)
     THEN GoTo(t, "BackToLobby") /\ Erase(call[t].player)
     ELSE Done(t) /\ UNCHANGED queue
  /\ UNCHANGED <<conn_state, sessionVars, player_state, roomVars>>

BackToLobby(t) ==
  /\ At(t, "BackToLobby")
  /\ ForceState(call[t].player, "Lobby")
  /\ Done(t)
  /\ UNCHANGED <<conn_state, sessionVars, queue, roomVars>>

-----------------------------------------------------------------------------
(* NotifyConnectionClosed and OnConnectionClosed: the peer has closed the  *)
(* connection, or it was removed and reading from it fails.                *)

ConnectionClosed(c) ==
  LET t == Owner[c]
      p == conn_to_player[c]
  IN /\ conn_state[c] \in {"open", "removed"}
     /\ At(t, "idle")
     /\ conn_state' = [conn_state EXCEPT ![c] = "gone"]
     /\ IF p = Nobody
        THEN UNCHANGED call
        ELSE call' = [call EXCEPT ![t] =
               [Idle EXCEPT !.step = "WasMatching", !.conn = c, !.player = p]]
     /\ UNCHANGED <<sessionVars, player_state, queue, roomVars>>

WasMatching(t) ==
  /\ At(t, "WasMatching")
  /\ GoTo(t, IF player_state[call[t].player] = "Matching" THEN "CancelLost"
             ELSE "MarkOffline")
  /\ UNCHANGED <<conn_state, sessionVars, player_state, queue, roomVars>>

CancelLost(t) ==
  /\ At(t, "CancelLost")
  /\ Erase(call[t].player)
  /\ GoTo(t, "MarkOffline")
  /\ UNCHANGED <<conn_state, sessionVars, player_state, roomVars>>

(* Marks the player whom the connection speaks for by now, if any.         *)
MarkOfflineByConnection(t) ==
  LET c == call[t].conn
      p == conn_to_player[c]
  IN /\ At(t, "MarkOffline")
     /\ IF p = Nobody
        THEN UNCHANGED <<conn_to_player, online>>
        ELSE /\ conn_to_player' = [conn_to_player EXCEPT ![c] = Nobody]
             /\ online' = [online EXCEPT ![p] = FALSE]
     /\ GoTo(t, "ForceOffline")
     /\ UNCHANGED <<conn_state, session_connection, session_room, player_state,
                    queue, roomVars>>

ForceOffline(t) ==
  /\ At(t, "ForceOffline")
  /\ ForceState(call[t].player, "Offline")
  /\ Done(t)
  /\ UNCHANGED <<conn_state, sessionVars, queue, roomVars>>

-----------------------------------------------------------------------------
AllButTheLast == Len(queue) - 1  \* mutant of NumLate

(* How many of the queue may be late.                                      *)
NumLate == Len(queue)

(* HandleMatchTimeout: the players who have been in the queue too long,    *)
(* the first n of it.  The few calls of a match request do not take        *)
(* match_timeout_ms: nobody is late before his own request is over.        *)
PopTimeoutPlayers(n) ==
  /\ At(Timer, "idle")
  /\ \A i \in 1..n, t \in Workers : InMatch(t) => call[t].player # queue[i]
  /\ queue' = SubSeq(queue, n + 1, Len(queue))
  /\ call' = [call EXCEPT ![Timer] =
       [Idle EXCEPT !.step = "CheckTimedOut", !.players = SubSeq(queue, 1, n)]]
  /\ UNCHANGED <<conn_state, sessionVars, player_state, roomVars>>

CheckTimedOut ==
  /\ At(Timer, "CheckTimedOut")
  /\ IF player_state[ThisPlayer(Timer)] = "Matching"
     THEN GoTo(Timer, "ForceTimedOut")
     ELSE NextPlayer(Timer, "CheckTimedOut", "idle")
  /\ UNCHANGED <<conn_state, sessionVars, player_state, queue, roomVars>>

ForceTimedOut ==
  /\ At(Timer, "ForceTimedOut")
  /\ ForceState(ThisPlayer(Timer), "Lobby")
  /\ NextPlayer(Timer, "CheckTimedOut", "idle")
  /\ UNCHANGED <<conn_state, sessionVars, queue, roomVars>>

-----------------------------------------------------------------------------
(* SettleByServerResult, of which SettlementService has the rest: for one  *)
(* player after the other ClearRoomId and ForceState, then DestroyRoom.    *)
(* It runs once per room.  A game outlasts the match request that opened   *)
(* its room and those its players have begun before.                       *)

Settle(t, handler, r) ==
  /\ room_state[r] = "open"
  /\ \A u \in Workers : InMatch(u) =>
       /\ ~SeatedIn(call[u].player, r)
       /\ call[u].room # r
  /\ room_state' = [room_state EXCEPT ![r] = "settling"]
  /\ call' = [call EXCEPT ![t] = [handler EXCEPT !.step = "ClearRoomId", !.room = r,
                                                !.players = seats[r]]]
  /\ UNCHANGED <<conn_state, sessionVars, player_state, queue, seats>>

(* The last card of a hand, in a request of one of the players.            *)
SettleGameOver(c, r) ==
  /\ conn_to_player[c] # Nobody
  /\ Receive(c, conn_to_player[c], {})
  /\ SeatedIn(conn_to_player[c], r)
  /\ Settle(Owner[c], [Idle EXCEPT !.conn = c, !.player = conn_to_player[c]], r)

(* A trustee's last card, or a player who has been offline too long: the   *)
(* timer goes by a copy of the sessions, so he may be back.                *)
SettleByTimer(r) ==
  /\ At(Timer, "idle")
  /\ Settle(Timer, Idle, r)

(* Mutant of ClearRoomId: the room of the session is not reset.            *)
KeepRoomId(t) ==
  /\ At(t, "ClearRoomId")
  /\ GoTo(t, "Release")
  /\ UNCHANGED <<conn_state, sessionVars, player_state, queue, roomVars>>

ClearRoomId(t) ==
  /\ At(t, "ClearRoomId")
  /\ session_room' = [session_room EXCEPT ![ThisPlayer(t)] = NoRoom]
  /\ GoTo(t, "Release")
  /\ UNCHANGED <<conn_state, conn_to_player, session_connection, online,
                 player_state, queue, roomVars>>

Release(t) ==
  /\ At(t, "Release")
  /\ ForceState(ThisPlayer(t), "Lobby")
  /\ NextPlayer(t, "ClearRoomId", "DestroyRoom")
  /\ UNCHANGED <<conn_state, sessionVars, queue, roomVars>>

DestroyRoom(t) ==
  /\ At(t, "DestroyRoom")
  /\ room_state' = [room_state EXCEPT ![call[t].room] = "destroyed"]
  /\ Done(t)
  /\ UNCHANGED <<conn_state, sessionVars, player_state, queue, seats>>

-----------------------------------------------------------------------------
Request(c) ==
  \/ \E p \in Players : Login(c, p) \/ Reconnect(c, p)
  \/ Match(c)
  \/ CancelMatch(c)
  \/ ConnectionClosed(c)
  \/ \E r \in Rooms : SettleGameOver(c, r)

TimerTick ==
  \/ \E c \in Conns : CloseIdleConnection(c)
  \/ \E n \in 1..NumLate : PopTimeoutPlayers(n)
  \/ \E r \in Rooms : SettleByTimer(r)

Continue(t) ==
  \/ LoginState(t) \/ BindLogin(t) \/ Kick(t)
  \/ RebindForReconnect(t) \/ ReconnectState(t)
  \/ CheckLobby(t) \/ Join(t) \/ SetMatching(t) \/ LeaveQueue(t)
  \/ TryPopMatchedPlayers(t) \/ CreateRoom(t) \/ SetRoomId(t) \/ ForceInRoom(t)
  \/ CheckMatching(t) \/ Cancel(t) \/ BackToLobby(t)
  \/ WasMatching(t) \/ CancelLost(t) \/ MarkOfflineByConnection(t) \/ ForceOffline(t)
  \/ t = Timer /\ (CheckTimedOut \/ ForceTimedOut)
  \/ ClearRoomId(t) \/ Release(t) \/ DestroyRoom(t)

Next ==
  \/ \E c \in Conns : Accept(c) \/ ForgetRemoved(c) \/ Request(c)
  \/ TimerTick
  \/ \E t \in Threads : Continue(t)

Spec == Init /\ [][Next]_vars

(* A handler that has begun runs on.  The timer looks at the queue on      *)
(* every tick; in between it may be busy with a room (SF).                 *)
FairSpec ==
  /\ Spec
  /\ \A t \in Threads : WF_vars(Continue(t))
  /\ SF_vars(\E n \in 1..NumLate : PopTimeoutPlayers(n))

-----------------------------------------------------------------------------
(* Properties.                                                             *)

Calls ==
  [step : Steps, conn : Conns \cup {NoConn}, player : Players \cup {Nobody},
   room : Rooms \cup {NoRoom}, old : Conns \cup {NoConn}, players : Seq(Players),
   next : Nat \ {0}]

TypeOK ==
  /\ conn_state \in [Conns -> ConnStates]
  /\ conn_to_player \in [Conns -> Players \cup {Nobody}]
  /\ session_connection \in [Players -> Conns \cup {NoConn}]
  /\ session_room \in [Players -> Rooms \cup {NoRoom}]
  /\ online \in [Players -> BOOLEAN]
  /\ player_state \in [Players -> PlayerStates]
  /\ queue \in Seq(Players)
  /\ room_state \in [Rooms -> RoomStates]
  /\ seats \in [Rooms -> Seq(Players)]
  /\ call \in [Threads -> Calls]

(* A connection that may speak for a player is the one his session names,  *)
(* and the session is online: after a login elsewhere, a reconnect or an   *)
(* offline mark the connections he had before speak for nobody, whatever   *)
(* requests they still have in flight.                                     *)
ConnectionsSpeakForSessions ==
  \A c \in Conns : LET p == conn_to_player[c] IN
    p # Nobody => session_connection[p] = c /\ online[p]

(* The room a session names exists and the player is seated in it, while   *)
(* other players of the room are still being seated or released already,   *)
(* and also when he is matched again in the meantime.                      *)
SessionsNameTheirRoom ==
  \A p \in Players : session_room[p] # NoRoom =>
    Exists(session_room[p]) /\ SeatedIn(p, session_room[p])

(* A player who is Matching can ask for nothing but to cancel, and that    *)
(* needs his entry in the queue: he has it, or some thread is about to     *)
(* seat him, to send him back to the lobby, or to find him offline.        *)
MatchingPlayersAreQueued ==
  \A p \in Players : player_state[p] = "Matching" =>
    Queued(p) \/ \E t \in Threads : BusyWith(t, p)

(* Matching ends: by a room, by cancelling, by a lost connection or, if    *)
(* nothing else happens, by the timer.                                     *)
MatchingEnds ==
  \A p \in Players : player_state[p] = "Matching" ~> player_state[p] # "Matching"

(* "A[...OnConnectionClosed] --> B[SessionManager.MarkOffline]" (README,   *)
(* recovery): a player whose connection is gone is marked offline, so that *)
(* his absence is counted and a trustee plays for him.  Until then a       *)
(* worker has the connection in hand, or something else is under way.      *)
LostConnectionsAreNoticed ==
  \A p \in Players :
    online[p] /\ conn_state[session_connection[p]] = "gone" =>
      \E t \in Threads : BusyWith(t, p)
=============================================================================
