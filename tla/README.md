# A verification development for ddz_server

`ddz_server` is the server of the card game dou dizhu (three players, one of
them the landlord against the other two), with a WebSocket gateway and a web
client in the same repository.  This directory holds TLA+ modules that model
the server, configurations that check them with TLC on small instances, and
theorems about them that TLAPS checks for every instance.  Paths below are
relative to `src/ddz_server/` unless they start with `src/`.

## The system

```
web client --WebSocket--> gateway --TCP packets--> TcpServer --> GameServer
                                                     |               |
                                          accept + I/O workers   timer thread (1 s)
                                                     \               /
      SessionManager  PlayerManager  MatchManager  RoomManager  SettlementService
                                                                     |
                                                    StorageService (memory or MySQL)
```

Three kinds of threads run the server: one accepts connections, a fixed number
of I/O workers read packets (a connection belongs to one worker) and run the
handlers of `GameServer`, and the timer thread wakes up every second.  Every
manager has a mutex of its own which it holds for one call; the services and
handlers compose several such calls without any lock around them.  So a single
call is atomic, and between two calls anything else may happen.

| Component | State | Operations | What makes it correct |
|---|---|---|---|
| Rule engine (`service/rule`) | none | `Analyze`, `CanBeat` | every play is named as in the game; beating is a strict order, per length where it matters |
| RoomManager (`service/room`) | rooms: phase, hands, bids, trick, versions, marks; the room of every player | `CreateRoom`, `DestroyRoom`, `ApplyPlayerAction`, `ApplyTrusteeAction`, `Mark*` | turns follow the phase, no card is lost or doubled, the stake is that of the bids, a version never shows two different rooms, a trustee always has a move |
| SettlementService | the rooms being settled | `SettleByServerResult` | a room is paid once, the store and memory agree, a failure changes nothing, a settlement ends |
| StorageService | coins, coin logs, game records | `PersistSettlementTransaction` | all or nothing, also when the answer of the database is lost |
| PlayerManager | coins and the state of every player | `UpsertPlayer`, `SetState`, `ForceState`, `AddCoin`, `BatchAddCoin` | only legal transitions, coins change by settlement only |
| SessionManager | session of a player, player of a connection | `BindLogin`, `RebindForReconnect`, `MarkOfflineByConnection`, `SetRoomId`, `ClearRoomId` | the two maps agree, one connection per player |
| MatchManager, MatchService | the queue | `Join`, `Cancel`, `TryPopMatchedPlayers`, `PopTimeoutPlayers`; `HandleMatch`, `HandleCancelMatch`, `HandleMatchTimeout` | a queued player is matched, cancelled or timed out, exactly once |
| LoginService, AuthTokenService, ReconnectService, Redis store | the token of a player, with a time to live | login, session refresh, reconnect | the last token given out is good until it expires, and the one before lets no handler through again; a reconnect takes the session over |
| GameServer | - | packet handlers, `OnConnectionClosed`, the timer loop, notifications | a player whose connection is lost is marked, becomes a trustee after 30 s and loses after 120 s |
| TcpServer, TcpConnection, PacketCodec | connections, receive buffers | accept, read, send, close, idle close | packets come out as they went in, whatever pieces TCP makes of them |
| Gateway server (`gateway/gateway_server.cpp`) | slots, rates and bans of every address, connection threads | accept, ban and rate checks, login ticket, session refresh, WebSocket slots, `Stop` | slots are counted exactly, rates hold over all threads, a ban that stands is shortened by nobody but a thread late with its own, `Stop` leaves nothing running if it finds the gateway running |
| WebSocket proxy (`RunWebSocketProxy`, `UpstreamTcpClient`) | outbound queue, `pending_by_seq`, the upstream connection | read, send upstream, relay, tell of a loss, end | what comes from the server is relayed once and in order, under the id of its request; a proxy ends with its browser, if it sees the close frame |
| Client (`src/ddz_client/src`) | status, pending requests, room view | connect, request, time-outs, reconnect, pushes | every request settles once and with its own answer; it reconnects; it shows the newest snapshot |

Configuration, logging, observability and JSON conversion carry no state the
game depends on and are left out.

### What is hard about it

* A handler is a sequence of locked calls: workers and the timer interleave
  between them, and copies of rooms and sessions grow stale.
* The timer decides for trustees in one critical section and applies the move in
  another.
* A room can be settled by the worker with the last card, by the timer for a
  trustee's last card, and by the timer for a player who has been offline too
  long; a failed transaction is tried again, a successful one must not be.
* A request may arrive in any phase, out of turn, with any cards.
* Connections are lost, replaced by a new login, or closed for idleness.
* A settlement's rows are written one by one, and the server, the database or only
  its answer may be lost between any two; the settlement is then tried again.
* Every command to Redis is a program whose exit code is all the server sees, and
  the answer to a login or a refresh may be lost after the token has changed.
* The gateway has a thread for every connection and two for every WebSocket; they
  share tables of addresses, and an answer of the game server may overtake the
  entry that says whom to answer.
* A thread of the gateway may act on a clock it read long ago, may wait for a peer
  without a time-out, and may overlook a frame that the WebSocket stream has
  buffered; an exception in one of two loops ends the gateway's run without `Stop`.
* A socket of the client may close while requests are open, time-outs go off and a
  new socket has been made.

`PROJECT.json` lists these and the other hazards at their lines.

## Modules

| Module | What it is |
|---|---|
| `DdzRuleEngine` | `CardRank`, `Analyze` and `CanBeat` as operators |
| `RoomManager` | one room, with the timer's work on its trustees |
| `LandlordGame` | what one game promises, without cards, turns, versions and marks; `RoomManager` implements it |
| `SettlementService` | settling several rooms on several threads, with the coins in memory and in the store, and players who are matched again |
| `StorageService` | one settlement transaction after the other, on the maps and on MySQL, with failures and restarts |
| `CoinLedger` | what the storage promises to a settlement; `StorageService` implements it |
| `SessionTokens` | the tokens of one player: logins, refreshes and reconnects over Redis |
| `GameServer` | players between their connections, sessions, the matching queue and rooms, on the workers and the timer |
| `GatewayServer` | the connection threads of the gateway, what they share, and `Stop` |
| `WsClient` | the web client's connection: status, sockets, requests, timers |
| `WsProxy` | one WebSocket proxy: its two threads and the upstream connection |
| `WebPath` | `WsClient` and a `WsProxy` for each of its sockets, joined by their frames |
| `MCRules`, `MCRoomManager`, `MCSettlement`, `MCStorageService`, `MCSessionTokens`, `MCGameServer`, `MCGatewayServer`, `MCWebPath` | instances for TLC; `MCRules` also has the reference definitions the rule engine is checked against |
| `DdzRuleEngineProofs`, `RoomManagerProofs`, `SettlementServiceProofs`, `StorageServiceProofs`, `SessionTokensProofs`, `GameServerProofs`, `GatewayServerProofs`, `WebPathProofs` | theorems, each about the module it is named after (`DdzRuleEngineProofs` also about `MCRules`) |

### DdzRuleEngine

A play is the sequence of card ids that a request carries.  `Analyze` is one
case list in the order of the code.  The code's counting loops become
`CollectRanksByCount`; `IsConsecutive` and `IsValidSequenceRanks`, which are
always asked together, become `IsRun`.

### RoomManager

The variables are the fields of `Room` under their names.  `offline_at_ms` is
not kept (it is set exactly while a player is offline), `dealt` is
`state # "WaitStart"`, and players are the seats 1..3.  Every operation holds
`RoomManager::mu_` from beginning to end and is one action:

* `ApplyPlayerAction` is the disjunction of `CallScore`, `RobLandlord`, `Pass`,
  `PlayCards` and `RejectedFirstAction`; each has the code's checks as a
  `Valid...` guard.  A request that is rejected without an effect is no step.
  `RejectedFirstAction` is there because a rejected first request does have an
  effect: the room leaves `WaitStart` and the cards are dealt.
* The timer's work on a trustee is three steps: `MarkPlayerTrustee`,
  `TrusteeDecides` (the first critical section of `ApplyTrusteeAction`) and
  `TrusteeApplies` (the second).  Other actions may come in between.
* `MarkPlayerOffline`, `MarkPlayerOnline`, `MarkSettling` and `MarkFinished` may
  come at any time, as sessions and settlements change.

The shuffle is a choice from `Decks`, of which only `DecksAssumption` is assumed.
`MaxMarks` bounds the version bumps that are not player actions.

`ImplementsGame` is the refinement: bidding raises the stake only, playing keeps
stake and landlord, cards only ever leave a hand, and the game is over once, with
the first empty hand or with an early settlement.

### SettlementService

`call[t]` is where thread `t` is in `SettleByServerResult`; every stretch under
one lock is an action, in the order of the statements: `TryBeginSettlement`,
`GetRoom` (with `MarkSettling`), `ReadCoins`, `Persist`, `AddCoins`, `Release`
(once per player), `MarkFinished`, `DestroyRoom`, `EndSettlement`.  `StepAfter`
gives the order, `Break` where every failure goes.  Around it are the callers:
`GameOver` (the last card of a hand; the room is in `Settling` already),
`OfflineLose` (the timer, on whatever room its copy of the session names, again
and again) and `OpenRoom` (players in the lobby get a room).  Persisting is as
by the in-memory store: all of one or nothing, and at most `MaxFailures` times
nothing.  What a store does to keep that promise is `StorageService`.

### StorageService and CoinLedger

`PersistSettlementTransaction` holds `mu_` from beginning to end, so there is one
call at a time and `pc` says where it is.  `tables` is what the call sees and `saved`
what others would see: the maps as they were before the call, or what MySQL has
committed.

* With the maps (`~mysql`): `MemoryRecord`, then `MemoryCoin` and `MemoryLog` for every
  player, `MemoryAnswer`; or `Rollback` from either failpoint, which removes what the
  call has inserted and puts the old coins back.
* With MySQL: `Acquire` (a lease of the pool), `StartTransaction`, `SqlRecord`, then
  `SqlLog` and `SqlCoin` for every player, `Commit`, `SqlAnswer` (the line with the
  id), `Release`.  The server starts a client with the whole script and reads its
  output.  `SqlFails` may come at any of these steps: before the commit nothing is
  kept, after it only the answer is lost, and the caller is told of a failure in
  both cases.
* `Persist` and `Return` are the caller: a settlement with the coins in memory, tried again
  after a failure, maybe with another winner or stake.
* `Restart` ends the server at any step.  The maps are gone; of MySQL what was
  committed remains.  A client whose server is gone is taken to finish or to be
  discarded before the next settlement.  Games do not outlive the server.

MySQL itself is external: a session's rows are invisible until it commits, and forgotten
when it ends before; ids are not given back.

`CoinLedger` has one state for all of that: `Ask`, then the record, the logs and the
coins are kept in one step or not at all, then the answer.  "Failed" means nothing was kept,
unless the ledger is durable: then an answer may be lost.  `ImplementsLedger` maps `saved`
to its ledger.

### SessionTokens

Devices of one player (`Clients`), each of which keeps the token it was last given, log
in, refresh and reconnect on `Connections`; a token is its number in the order of
issue.  `call[c].pc` is where the handler of a connection is:

| `pc` | Action | Code |
|---|---|---|
| `bind` | `BindLogin` | `HandleLogin` up to `BindLogin` and `IssueSessionToken` |
| `validate` | `ValidateToken` | `GET token:<id>`; any failure of the command refuses the token |
| `session` | `RebindForReconnect`, `RefreshToken`, `RefuseSession` | the rest of `HandleReconnect` and of `HandleSessionRefresh` before Redis |
| `store` | `StoreToken` | `PSETEX token:<id>` |
| `presence` | `UpdatePresence` | `SetOnline` and `UpsertSession` |
| `answer` | `Answer` | the old connection is closed and the answer sent |

Redis and `redis-cli` are external: `RunRedisCli` starts a program and goes by its
exit code, so `StoreToken` has four outcomes: done; failed after it took effect;
failed before; and refused by Redis with exit code 0, so that the server
takes it for done.  `RedisForgets` is a Redis that has lost its keys, `Restart` a server
without sessions whose secret, and so its tokens, are still good.

`stored`, `replaced` and `broken` are history: the token Redis was last given, the ones
that another has overwritten, and whether the client was not told of the last one
or Redis has lost it.  `SomebodyMayReturn` has `~broken` among its conditions because the code
really loses a player's token then: a login whose presence update fails answers
without the token that has just replaced the old one, after it has bound the session and
kicked the old connection.  The next login repairs it, which is why a token stored
later resets `broken`.  What the model also reaches, and nothing forbids: after two logins at
once the session can be bound to one device while Redis has the other's token.

`ValidateToken` looks a token up once.  `ReplacedTokensStayOut` says of every step that
only a handler which was past that look-up already goes on with a token that has
been replaced (`Overtaken`): none is let through with one.  An overtaken handler is not
stopped: a reconnect still binds the session to the client of the old token, and a
refresh replaces the newer token by another.

### GameServer

The variables are the maps of the managers: the connections of `TcpServer`,
`conn_to_player_` and the fields of `Session`, the state of every player, the queue,
and rooms with their players (what happens inside a room is `RoomManager`, what a
settlement does to coins is `SettlementService`).  `call[t]` says where thread `t` is
in its handler, and every call under the lock of one manager is an action:

| Handler | Actions |
|---|---|
| `HandleLogin` | `Login`, `LoginState`, `BindLogin`, `Kick` |
| `HandleReconnect` | `Reconnect`, `RebindForReconnect`, `ReconnectState`, `Kick` |
| `HandleMatch` | `Match`, `CheckLobby`, `Join`, `SetMatching`, `LeaveQueue`, `TryPopMatchedPlayers`, `CreateRoom`, and `SetRoomId`, `ForceInRoom` once per player |
| `HandleCancelMatch` | `CancelMatch`, `CheckMatching`, `Cancel`, `BackToLobby` |
| `OnConnectionClosed` | `ConnectionClosed`, `WasMatching`, `CancelLost`, `MarkOfflineByConnection`, `ForceOffline` |
| `HandleMatchTimeout` | `PopTimeoutPlayers`, and `CheckTimedOut`, `ForceTimedOut` once per player |
| `SettleByServerResult` | `SettleGameOver` or `SettleByTimer`, `ClearRoomId` and `Release` once per player, `DestroyRoom` |

A connection belongs to one worker.  Another thread may remove it while its worker
has it among its readable ones (`removed`: reading fails, and the worker goes on to
`OnConnectionClosed`) or is in the middle of its packets (`draining`: they are served,
and nobody is told).  `CloseIdleConnection` and `Kick` remove connections,
`ForgetRemoved` is the worker that never looks at one again.

Three things are assumed of the outside, each named where it is used.  A game
outlasts the match requests that were under way when its room was opened
(`Settle`).  `match_timeout_ms` is longer than the few calls of a match request
(`PopTimeoutPlayers`).  And with `OneRequestEach`, players wait for their answers:
a player has one handler under way at a time, except that the loss of his old
connection may be noticed while he logs in on a new one.

The last one matters.  Without it and with two workers, a player can be left
in `Matching` without an entry in the queue, and stays there until he logs in
again: for instance, a cancel that has passed its check on an old connection and
stalls there takes a later entry out of the queue.  It takes several requests
of one player under way at once, stalled between two locks for as long as a network
round trip.  Only the theorem about the queue, `QueueAgrees`, needs the assumption.

### GatewayServer

`ws_conn_by_ip`, `http_rate_by_ip` and `banned_until` are the tables under
`security_mu_`; each section under that lock is an action.  `pc[c]` is where the thread of connection `c` is:

| `pc` | Action | Code |
|---|---|---|
| `read` | `RefuseEarly`, `Receive` | reading the request, the origin check, `IsIpBanned` |
| `acquire` | `TryAcquireWsSlot` | an upgrade, on to `proxy` or to `ban` |
| `http` | `CheckAndConsumeHttpQps` | a plain request, on to `serve` or to `ban` |
| `ban` | `Ban` | `BanIp`, by the clock read at some time since the limit was met |
| `proxy_ban` | `ProxyBan` | `BanIp`, by the clock read before the window was examined (`since`) |
| `serve`, `query` | `LoginTicket`, `SessionRefresh`, `QueryEnds` | the handlers; a session refresh asks the game server and waits up to its time-out |
| `proxy` | `ProxyReads`, `ProxyReturns`, `ProxyThrows` | a message with its checks, and how the loop of `RunWebSocketProxy` ends |
| `ws_close` | `ProxyCloses` | `ws.close`, which waits for the peer's close frame without a time-out |
| `release` | `Release` | `ReleaseWsSlot` |

`CheckRunning`, `Accept` and `AcceptNobody` are the accept loop, `MetricsEnds` the end of
the metrics loop.  `AcceptThrows` and `MetricsThrows` are exceptions out of them, which
clear `running`.  `Stop`, `JoinAccept`, `JoinMetrics` and `JoinSessions` are
`GatewayServer::Stop`, which joins only when it is the first to clear `running`
(`stopped`) and otherwise returns at once (`returned`).  `failed` is a thread that left
`RunWebSocketProxy` by an exception: its slot is never given back, which is why
`SlotsAreCounted` counts these threads among the holders.

`IsIpBanned` and the rates read the clock just before they take the lock, and that gap
is left out: a tick stands for a time much longer.  A ban keeps its own clock,
because `BanIp` overwrites whatever stands: a thread that stalls between its clock and the
lock shortens a ban that was set meanwhile.  `BansStand` says that nothing but such a
latecomer does, and no further than to a ban from its own clock.

### WsClient, WsProxy and WebPath

`WsClient` is an event loop, so every call of its owner, timer and event of a socket
is one action: `Connect`, `Disconnect`, `SendRequest`, `Heartbeat`,
`RequestTimesOut`, `ReconnectTimer`, `OnOpen`, `OnClose`, `OnMessage`.  The events are
those of any socket, also of one that the client has given up, because the handlers
do not ask which socket they belong to.  `promise` is what the caller of a request
sees, and `pending` the map the client keeps.

`WsProxy` has the two threads of `RunWebSocketProxy`.  The proxy thread writes what is
`outbound` (`Flush`, `WriteFails`, `Flushed`), finds nothing to read (`Idle`, which is where a
lost upstream is told), or reads a message (`Leave`, `Refuse`, `SendUpstream`), and writes
down whom to answer after it has sent (`Remember`).  It reads when the socket holds bytes
(`uplink`), but `ws.read` takes the frame from the stream's own buffer first and may fill
that buffer with more frames than it hands over (`TakeFrame`, `buffered`), where `Idle` does not
see them.  When the address is turned away, the thread is in `ws.close` until the browser
answers (`ws_close`: `CloseReturns`, or `CloseCrosses` when the browser's own close frame is
under way).  The reader turns a packet into an
envelope (`OnPacket`) and finds the connection closed (`ReaderEnds`).  The game server is
external: it answers the requests of a connection in turn (`Answer`) and pushes
(`Push`), as `GameServer::OnMessage` does.

`WebPath` joins them: what the proxy has written is what the client may receive, what
the client sends is what the proxy may read.  A socket may be refused, closed by
either side, or lost without a word (`Closed`), and the upstream connection may be
lost (`UpstreamLost`), at any time.

## Runs

| Run | Configuration | Question |
|---|---|---|
| `rules` | `MCRules.cfg` | does `Analyze` name every play as the rules of the game do, and do tricks played by `CanBeat` only rise? |
| `room` | `MCRoomManager.cfg` | do turns, cards and stakes stay in order in whole games of players who all answer? |
| `trustee` | `MCTrustee.cfg` | do marks, trustees and settlements leave the game what `LandlordGame` promises, and do trustees finish it? |
| `settlement` | `MCSettlement.cfg` | is every room settled once, on every interleaving and after failures? |
| `storage` | `MCStorage.cfg` | is a settlement's outcome kept as a whole or not at all, whatever fails and whenever the server ends? |
| `tokens` | `MCSessionTokens.cfg` | is the last token good, and is nobody let through with a replaced one, whatever Redis does? |
| `sessions` | `MCGameServer.cfg` | do connections, sessions, the queue and rooms agree after every call of every thread? |
| `matching` | `MCMatching.cfg` | does matching always end? |
| `gateway` | `MCGatewayServer.cfg` | do slots, rates, bans and `Stop` hold over all the threads of the gateway, with clocks read early and loops that throw? |
| `web` | `MCWebPath.cfg` | does every request of the client settle once and with its own answer, through losses at both ends of the gateway? |
| `idle_close` | `MCIdleClose.cfg` | violated: is a player marked offline once his connection is gone? |
| `client_reconnect` | `MCClientReconnect.cfg` | violated: does a client that is reconnecting get on? |

Four more configurations are kept for whoever works on those lines, and TLC finds
each violated: `MCVersion.cfg` (`VersionCoversChanges`: is every visible change covered by
a new snapshot version?) and `MCOpening.cfg` (`TrusteeInTurnHasAMove`: does a trustee in
turn always have an automatic move?), both of `MCRoomManager`; `MCLookup.cfg`
(`SeatedPlayersAreFound`: is a seated player found by `player_to_room_`?) and
`MCFailedSettlement.cfg` (`FailedSettlementLeavesRoom`: does a failed settlement leave the
room as it was?), both of `MCSettlement`.

Bounds, and why they are enough:

* `rules`: every multiset of up to ten cards over the eight ranks ten to ace,
  two and the jokers.  Two straights of five would fit below the limit at the ace
  if the two counted, which is where an off-by-one would show; ten cards reach
  every type, planes with wings included.
* `room`: two nine-card decks (two cards for each player, three for the
  landlord) in which singles, pairs, triples with a wing, a bomb and the rocket
  meet each other.  `AllScores` has every legal call and one on either side;
  `MCPlays` has every combination of the cards and plays that name a card twice.
* `trustee`: six cards, one for everybody and three for the landlord, played one by
  one, and three marks, enough for all three players to become trustees.  The
  only call is 3: calling is the subject of `room`.
* `settlement`: two rooms for two of three players, so one player at least plays
  twice; one worker beside the timer, so that two threads meet in one room and
  in two; a stake of 2 out of 2 coins, so that players run out of coins; one
  failing transaction, so that a room is settled again after a failure.
* `storage`: three players and two games, so that one game can be tried again while
  the other has been recorded; three calls, a stake that makes somebody's coins 0 or
  negative, a pool of one lease, so that a lost one would be missed, and one restart at any step.
  Failures are not bounded.
* `tokens`: two devices and three connections, so that two handlers overlap and a
  device comes back on a connection of its own; three requests, so that a login, a
  refresh and a reconnect meet, or a token is replaced twice; tokens that live for one
  tick of a clock that ticks twice, so that they are met good, at their last moment
  and expired; one failure of Redis or restart, since the next success is to repair it.
* `sessions`: two players on two connections, each of which either may log in on, two
  workers and the timer.  That is enough for a session to be taken over while the
  loss of its old connection is being seen to, for a player to be seated by the
  other's thread before he is `Matching` himself (`LeaveQueue`), and for a timeout, a
  cancel and a full room to meet.  Two rooms for two, so that a player is matched
  again while his first room is being settled.
* `matching`: the same with one worker, on which players need not wait for their
  answers.  A single worker runs one handler after the other, and only the timer
  comes in between.
* `gateway`: three connections from one address, and every limit 1, so that two of
  them meet at a limit while the third bans the address or is late with a ban; a ban
  and the window of a rate last two of the two ticks the clock can make, so that both
  are met in force, at their last moment, and expired.  Addresses share nothing but the
  lock; two of them multiply the states without new interleavings, and the theorems
  hold for any number.
* `web`: one socket with two requests and one push: an answer late for its time-out,
  an answer and a push in either order, a request that is lost in the gateway or
  upstream, a heartbeat in between; the frames under way are few, but a close frame can
  still come into the stream's buffer behind a request.  `client_reconnect` needs no request, but two
  sockets, the second for the client to reconnect on.  With two sockets, one request
  and no push (1.7 million states) the invariants hold as well; what a socket
  leaves behind for the next is that its events come late, and the requests that were
  open when it closed.

### Fairness

Players and connections are never assumed to act.  The timer thread wakes up
every second for as long as the server runs and visits every session, so:

* a trustee is visited again and again (`SF` on `MarkPlayerTrustee` for a trustee:
  strong, because the action is not enabled while the timer is busy with
  another player), and what the timer has begun it finishes (`WF` on `TrusteeDecides`
  and `TrusteeApplies`);
* a thread inside `SettleByServerResult` runs on (`WF` on `SettleStep`): it waits
  for nothing but mutexes that are held for a single call;
* a handler that has begun runs on (`WF` on `Continue`), and the timer looks at the
  queue on every tick (`SF` on `PopTimeoutPlayers`: in between it may be busy with a
  room).

In the gateway and the client:

* the threads of the gateway run and its accept loop goes round (`WF` on `ThreadStep`,
  `CheckRunning`, `AcceptNobody`, `MetricsEnds`, and the joins of `Stop`): they wait for locks held
  for a few statements, for a wait with a time-out (`QueryEnds`), and for one another;
* what waits for a peer is left out: `PeerStep` of `GatewayServer` has no fairness, since
  a WebSocket is read without a time-out and closed without one (`ProxyCloses`,
  `CloseReturns`), and nor have the user, the game server and the network in
  `WebPath`.  A close frame that is already under way is met (`CloseCrosses`);
* timers of the browser go off, and a socket that is being opened gets there or
  fails (`WF` on `RequestTimesOut`, `ReconnectTimer`, `Accepted`, `Opened`).

`OnlyPeersDelayStop` says what `Stop` waits for under that fairness: nothing but peers, in
`read`, in the proxy's loop or in `ws_close`.  `ProxyFollowsBrowser` has the browser's close
frame reach the proxy, unless it is left in the stream's buffer.
`TrusteesFinishTheGame` assumes nothing else, and in particular no player who ever
answers.  `SettlementEnds` rests on every failure path going through
`EndSettlement`.  `MatchingEnds` rests on the timer: a player who waits alone is sent
back to the lobby by it.

## What is proved

Proved by TLAPS for all values of the constants under their named assumptions:

* `DdzRuleEngineProofs`: `CanBeat` is irreflexive, transitive and asymmetric, and
  the rocket is beaten by nothing.  With these no trick can go round, which
  `Spec => []TrickOnlyRises` says of tricks of any length.  And
  `[]AnalyzeNamesTheCombination`: the case list of `Analyze` agrees with the reference,
  for every set of ranks and any number of cards, where the run `rules` has eight
  ranks and ten cards.  `PlayInv` is what both sides rest on: the cards of a play
  are as many as its ranks counted with how often each occurs, and no rank occurs more
  often than the deck has it.  A play of a combination then has one of fourteen `Form`s:
  how many ranks occur once, twice, three and four times, whether the body is a run, and,
  for the rocket, which ranks they are.  `FormsExclude` says that no play has two.
  `AnalyzeFindsTheForm` goes through the code's cases, `FormsAreTheReference` through
  the definitions of the reference (a body and wings, a run and how often its ranks
  occur), and `MainRankOfTheBody` shows that the rank the code compares by is that of
  the body and never that of a wing.  `HandsFormCombos` says that `Combos`, which the
  tricks are made of, leaves out nothing a hand can form; it is about hands of at
  most twenty cards, the landlord's, since `Combos` is sized by that.
* `RoomManagerProofs`: `Spec => []TypeOK`, `[]TurnOrder` and
  `[]CardsInOnePlace`, for every deck without a
  repeated card, every set of plays and scores, and any number of marks.  The
  inductive invariant `IInv` is their conjunction with two additions.
  `EarlyPhases` says what a phase has not used yet: without it `TrickTurn` could
  not be established when `Playing` begins, nor `CallTurn` at the first call.  And
  the move the timer carries between its two critical sections has cards that are
  a sequence: without that nothing is known of the cards it plays, since the room
  may have changed and the move is checked again.  What the move was decided on is
  not needed, and that is the point: a stale move is harmless.
  Its second half has `Spec => ImplementsGame`, the refinement of
  `LandlordGame`, and `[]StakeMatchesBids`, `[]TrusteeMoveIsLegal`,
  `CardsLeaveToTheTable` and `VersionCoversGame`.  `StepsOfTheRoom` sorts every step
  into an action of a player (his own or the timer's), the end of the game, and a mark;
  each theorem then goes through the actions once.  The refinement needs `RoomInv`,
  which adds to `IInv` that the stake, the landlord and the hands are untouched before
  they are bid for and dealt (`Untouched`), so that the first call cannot lower the
  stake, and `StakeMatchesBids`, so that there is a landlord when play begins.  That
  settling early makes nobody a winner rests on `EverybodyHoldsCards`: the player who
  played the table still has cards.  For the automatic move, the first card of a hand
  exists because a set of numbers has a least one, and a single card is always a
  combination.
* `SettlementServiceProofs`: `Spec => []TypeOK`, `[]SettledOnce`,
  `[]RecordedRoomsAreDestroyed` and `[]StoredCoinIsCoin`, for any players, rooms, threads, stakes and
  number of failures.  `IInv` adds three facts.  `LockHeld`: a thread between
  `TryBeginSettlement` and `EndSettlement` has its room in `settling_rooms`, and no
  two such threads have the same room.  `RoomsStay`: the room it has found exists
  until it destroys it itself.  `RecordsAccounted`: a record's room is destroyed,
  or the thread that wrote the record is still between committing and destroying.
  A second record for a room would need a thread inside with a room that exists,
  and both cases of `RecordsAccounted` exclude it.
  The coins need a second invariant, `CoinInv`, for two threads that settle different
  rooms at once.  The players of a room are different, their sessions have seats in
  it, and a player leaves a room only by its thread's `Release`: so two threads that have
  released nobody have no player in common.  Hence what a thread has read is still true when it
  commits (`CoinsRead`), and from the commit until `AddCoins` the store is ahead by
  exactly what the thread is about to pay (`CoinsOwed`).
* `GameServerProofs`: `Spec => []TypeOK`, `[]ConnectionsSpeakForSessions` and
  `[]SessionsNameTheirRoom`, for any players, connections, rooms and threads, with
  `OneRequestEach` or without, and with it `[]MatchingPlayersAreQueued`.
  That a connection speaks for its session is inductive as it stands.  For the rooms, `IInv` says how far every thread has come: `Forming`
  and `Seating` that the room a worker is filling is open and has the players it is
  seating, `Settling` that one thread at most is settling a room and that the
  sessions of the players behind it no longer name the room.  When the room is
  destroyed there is nobody left before it.  `ServesPlayers` says that a handler
  has somebody to serve.
  The queue has an invariant of its own, `QueueInv`.  `Alone`: while a match request
  is under way, its connection is the only one that speaks for its player, no other
  handler serves him and no loop has him in its list.  So between `Join` and `SetMatching`
  only another match request can pop him, and `Joined` says that he is then being
  seated or `InRoom` already, where `SetMatching` refuses; `Leaving` says the same
  of the way back.  `Attended` is the property with what a thread will do for a
  player who is out of the queue spelled out, and `Looping` that a loop is at one of
  its players.
* `StorageServiceProofs`: `Spec => []TypeOK`, `[]RecordedOnce` and `ImplementsLedger`, the
  refinement of `CoinLedger`, for any number of players, games, calls and restarts,
  any stakes and any pool.  `IInv` says which store a step belongs to (`StepsFit`), that
  a lease is held from `Acquire` to `Release` (`LeaseHeld`), that ids are new and what is
  saved stays visible (`TablesGrow`), what the call has written up to its step
  (`Written`: the record, and the logs and coins of the players so far and no others), and
  that the maps can be rolled back to `saved` from where they are.  The commit step
  then keeps exactly an entry of the ledger, and a roll-back is a stutter.
* `SessionTokensProofs`: `Spec => []TypeOK`, `ReplacedTokensStayOut` and
  `[]SomebodyMayReturn`, for any number of devices, connections, requests and faults and
  any time to live.  In `IInv`, `FreshTokens` says that a token on its way to Redis is
  nowhere else yet - not stored, not replaced, with no client and in no other handler -
  which is why storing it cannot bring a replaced one back: the token in
  Redis is none that has been replaced (`KeyIsCurrent`), and `ValidateToken` accepts only that
  one.  `Kept` says where the
  last stored token is until somebody holds it, and that nobody who holds it is about
  to be answered with another; for that, `OneConnection` is needed: a device has one
  open connection, so an answer cannot overtake another's.  `Times` bounds what a
  token lives by what its key lives.
* `GatewayServerProofs`: `Spec => []TypeOK`, `[]SlotsAreCounted`, `[]QpsHolds`,
  `[]StoppedIsQuiet` and `BansStand`, for any addresses and connections, any limits and any clock.
  `IInv` adds to the count of the slots what `Stop` relies on (`StopInv`): as long as
  nothing is joined, every connection that is neither new nor ended is in
  `session_threads`, and once the accept thread is joined it cannot add another; a loop
  ended by an exception has ended as well.  And that no ban ends later than `BanTime`
  from now, and no thread bans by a clock ahead of now (`BanEndsWithin`): without it
  a `BanIp` that overwrites another could not be shown to extend it unless its
  thread is among the `Latecomers`.
  The rate needs what a window of the code still knows.  `WindowsRemember`: every
  request let pass within the last second has a place of its own in its address's
  window, at which its time stands.  Times leave the window at its front, as long as they
  are a second old; that the window is sorted is not needed, for a time that counts is
  never dropped wherever it stands.  So a window that is not full has few enough
  of them, and one more may pass.  `RatesHold` bounds the requests in every interval
  of a second, not only in those that begin with one.
* `WebPathProofs`: `Spec => []TypeOK`, `[]PendingIsWaiting`, `[]RelaysInOrder`,
  `[]AnswersMatchRequests` and the action property `SettledStays`, for any sockets, requests
  and pushes.  A frame, a packet and an envelope carry the number and the id they were
  sent under, and the types of the queues say so (`Asked`, `Letters`): hence an
  answer names its request whichever order it and `pending_by_seq` come in, and only what is
  relayed can answer one.  `LaterIsUnmade` says that a number is used once, so that
  an answer cannot meet a later promise; `NotYetBegun` that a proxy begins with empty
  queues; `Counts` that nobody is ahead of what he reads.  `RelaysInOrder` says
  where the n-th packet is, in `downlink` or in `outbound`, by a numbering of the relayed
  envelopes (`RelaysTheFirst`) instead of a filter over the queue: a filter is
  recursive, while a numbering is extended by one place when one more is relayed, and
  stays as it is when a written envelope moves from one queue to the other.  `SettledStays` is the promise's side of `PendingIsWaiting`:
  whoever comes second finds nothing pending.

The assumptions: `DecksAssumption` (no card twice, at least one card for everybody,
which the 54 cards satisfy), `PlaysAssumption` and `ScoresAssumption` (requests
carry card ids and integers), and in `SettlementService` that ids are positive,
that there are at least two seats, that the timer is not a worker, and that the
first coins and the stakes are positive; in `GameServer` that ids are positive,
rooms are for one player at least, the timer is not a worker, and every
connection has a worker; in `StorageService` that there is a player and that first coins,
stakes and the pool are positive; in `SessionTokens` that the time to live is positive
and that no connection is the missing one; in `GatewayServer` that limits and times are positive, as
`GatewayConfigLoader` demands, and that the connections are finitely many; in `WsClient` that
no socket is the missing one; in `MCRules` that the ranks are those of cards.  Bounds of a
run are natural numbers.

Every invariant that a run checks is among these theorems, and so is every action
property and both refinements.  Only model-checked, since liveness under fairness is out
of the prover's reach: `TrusteesFinishTheGame`, `SettlementEnds`, `MatchingEnds`,
`OnlyPeersDelayStop`, `EveryRequestSettles`, `ProxyFollowsBrowser` and
`UpstreamLossIsTold`.  `LostConnectionsAreNoticed` and `Reconnects` are liveness as well, and
TLC refutes them.

## Where the code and its documents disagree

* A first action that is rejected has dealt the cards without a new version
  (`MCVersion.cfg`).
* A trustee who has to open the calling is not moved for (`MCOpening.cfg`).
* A failed settlement leaves a game that was being played in `Settling`
  (`MCFailedSettlement.cfg`).
* A player matched again while his last room is being destroyed loses the entry of
  his new one (`MCLookup.cfg`).
* A connection that is closed for idleness is removed without
  `OnConnectionClosed`: the session stays online, and the player never becomes a
  trustee (run `idle_close`).
* A web client that has lost its connection sets its status to "reconnecting" and its
  timer calls `connect()`, which returns early in that status: it never reconnects
  (run `client_reconnect`).

States that are reached and that nothing in the repository forbids:

* A player who is `InRoom` without a room, after a reconnect that was overtaken by a
  settlement; a player who is `Offline` and online, when the loss of his old
  connection is seen to after his new login; a queue entry of a player who is in the
  lobby again.  A new login or the timer ends each of them.
* A reconnect or refresh that goes on with a token replaced after its look-up.
* A ban shortened by a thread that was late with its own (`gateway_server.cpp:681`, `:687`,
  `:246`), at most to a ban from the clock that thread had read.
* A `Stop` that joins nothing, because an exception of the accept or metrics loop has cleared
  `running_` (`:953`, `:964`, `:977`): connection threads go on, and the destruction of the
  `std::thread` members, still joinable, ends the program in `std::terminate`.
* A close frame that came into the stream's buffer along with an earlier frame: the
  proxy looks for bytes in the socket only (`:648`) and polls until more arrive, so
  its slot is not given back.
* A proxy in `ws.close` (`:746`) for a peer that does not answer: time-outs are off
  (`:541-546`), so its slot, its thread and `Stop` wait with it.
* A slot lost with a proxy that ended by an exception (`:873-881`).

## Not modelled

* What the server sends unasked (`Notify...`): pushes go to the connection a player has
  when they are sent, nothing in the server reads them back, and what the web client does with
  them is to copy their fields into its stores.
* The byte stream of `PacketCodec` and `TcpConnection`.  Reading is a function of the
  bytes received.  Writing is not safe: `SendPacket` on a non-blocking socket gives
  up after a part of a packet and leaves the connection open, and what the peer then
  reads depends on the bytes.  Nothing is claimed of a connection after that.
* Frames of which only a part has arrived, and pings: `ws.read` waits for the rest of a
  message it has begun, which in `WsProxy` is a frame that comes later.
* The Redis keys `online:` and `session:`, which the server only writes, and the maps
  kept while Redis is disabled, which only tests read.
* The saves and reads of single rows in `StorageService` and the DAOs (only tests call
  them), and SQL text and shell quoting.
* Heartbeat times, token signatures and purposes, configuration, logging,
  observability and JSON: conversions, or state the game does not depend on.
* The timer's marks of a room come at any time in `RoomManager`, instead of from the
  sessions of `GameServer`: a composition would have fewer behaviours than either
  module allows, and its states (cards times connections) are out of TLC's reach.

## Plan

Done: the rule engine, a room and its game, settlements, the storage under them, tokens,
sessions and matching, the gateway, and the web client's path through it.  What
would come next, in this order:

1. One player's life from the lobby to the lobby, as an abstract specification that
   `GameServer` implements.
2. `SettlementService` with `CoinLedger` in the place of its own store, so that an answer
   lost after a commit meets the second attempt of another thread.
