--------------------------- MODULE StorageService ---------------------------
(***************************************************************************)
(* PersistSettlementTransaction (service/storage/storage_service.cpp) on   *)
(* its two stores: the maps of the DAOs, with a roll-back of its own, and  *)
(* MySQL, which runs one script on one lease of the connection pool.  A    *)
(* call holds mu_ from beginning to end, so there is one at a time, but a  *)
(* statement of the script may fail, its answer may get lost, and the      *)
(* server may be started anew at any of its steps.                         *)
(*                                                                         *)
(* MySQL is external: what a session has written is seen by others when it *)
(* commits and forgotten when the session ends before; ids are not given   *)
(* back.  The session of a server that is gone ends before the next        *)
(* settlement.  The callers are settlements of games, which are tried      *)
(* again after a failure, maybe with another winner and stake, and games   *)
(* do not survive the server.  Times, modes and the saves of single rows,  *)
(* which nothing but tests calls, are left out.                            *)
(***************************************************************************)
EXTENDS Integers, Sequences, FiniteSets

CONSTANTS
  NumSeats,    \* players of a game, 1..NumSeats; the same ones play every game
  Games,
  StartCoin,   \* 1000 in the program
  Stakes,
  PoolSize,    \* mysql.pool_size
  MaxCalls,    \* bounds the settlements
  MaxRestarts  \* bounds the restarts of the server

ASSUME SeatsAssumption == NumSeats \in Nat \ {0}

ASSUME CoinsAssumption == StartCoin \in Nat \ {0} /\ Stakes \subseteq Nat \ {0}

(* MySqlConnectionPool::Init refuses an empty pool.                        *)
ASSUME PoolAssumption == PoolSize \in Nat \ {0}

VARIABLES
  mysql,           \* mysql_pool_.enabled()
  tables,          \* what a call sees: the DAOs' maps, or MySQL in its session
  saved,           \* what others see: the maps before the call, or what is committed
  next_record_id, next_coin_log_id,
  failpoint,       \* failpoint_
  leases,          \* slots of the pool in use
  pc,              \* where the call is; idle: mu_ is free
  request,         \* SettlementPersistRequest
  next,            \* the player the loop over coin_changes is at
  record_id,       \* inserted_record_id, or @rid
  inserted_coin_log_ids,
  old_player_coins,
  reply,           \* what the call returns, and *out_record_id
  coin,            \* the coins PlayerManager has
  games,           \* "open", "asked": a settlement was tried, or "over"
  faults,          \* how often a call was made to fail
  lost,            \* of these, how often after it had committed
  calls, restarts

Seats == 1..NumSeats

(* std::optional: what the store has for a player.                         *)
NoRow == <<>>
Row(coins) == <<coins>>

tableVars == <<tables, saved, next_record_id, next_coin_log_id>>
localVars == <<request, next, record_id, inserted_coin_log_ids, old_player_coins>>
callerVars == <<coin, games, calls, restarts>>
faultVars == <<faults, lost>>
vars == <<mysql, tableVars, failpoint, leases, pc, localVars, reply, faultVars, callerVars>>

NoTables == [records |-> {}, logs |-> {}, coins |-> [p \in Seats |-> NoRow]]
NoRequest == [game |-> 0, winner |-> 0,
              before |-> [p \in Seats |-> 0], after |-> [p \in Seats |-> 0]]
Failed == [ok |-> FALSE, id |-> 0]
Done(id) == [ok |-> TRUE, id |-> id]

Init ==
  /\ mysql \in BOOLEAN
  /\ tables = NoTables /\ saved = NoTables
  /\ next_record_id = 1 /\ next_coin_log_id = 1
  /\ failpoint = "None"
  /\ leases = 0
  /\ pc = "idle"
  /\ request = NoRequest /\ next = 1 /\ record_id = 0
  /\ inserted_coin_log_ids = {} /\ old_player_coins = <<>>
  /\ reply = Failed
  /\ coin = [p \in Seats |-> StartCoin]
  /\ games = [g \in Games |-> "open"]
  /\ faults = 0 /\ lost = 0 /\ calls = 0 /\ restarts = 0

-----------------------------------------------------------------------------
(* The callers.                                                            *)

SetTxFailpointForTesting(point) ==
  /\ pc = "idle"
  /\ failpoint' = point
  /\ UNCHANGED <<mysql, tableVars, leases, pc, localVars, reply, faultVars, callerVars>>

Delta(p, winner, base_coin) ==
  IF p = winner THEN base_coin * (NumSeats - 1) ELSE -base_coin

(* SettleByServerResult asks, with the coins of its players before and     *)
(* after, and mu_ is taken.                                                *)
Persist(g, winner, base_coin) ==
  /\ pc = "idle"
  /\ games[g] # "over"
  /\ calls < MaxCalls
  /\ calls' = calls + 1
  /\ games' = [games EXCEPT ![g] = "asked"]
  /\ request' = [game |-> g, winner |-> winner, before |-> coin,
                 after |-> [p \in Seats |-> coin[p] + Delta(p, winner, base_coin)]]
  /\ pc' = IF mysql THEN "acquire" ELSE "record"
  /\ next' = 1
  /\ UNCHANGED <<mysql, tableVars, failpoint, leases, record_id, inserted_coin_log_ids,
                 old_player_coins, reply, faultVars, coin, restarts>>

(* mu_ is released.  After a success the coins in memory follow and the    *)
(* room is destroyed (SettlementService).                                  *)
Return ==
  /\ pc = "return"
  /\ pc' = "idle"
  /\ IF reply.ok
     THEN /\ coin' = [p \in Seats |-> IF request.after[p] = 0 THEN StartCoin
                                                              ELSE request.after[p]]
          /\ games' = [games EXCEPT ![request.game] = "over"]
     ELSE UNCHANGED <<coin, games>>
  /\ request' = NoRequest /\ record_id' = 0
  /\ inserted_coin_log_ids' = {} /\ old_player_coins' = <<>>
  /\ UNCHANGED <<mysql, tableVars, failpoint, leases, next, reply, faultVars, calls, restarts>>

-----------------------------------------------------------------------------
(* The rows a call writes, in either store.                                *)

Goto(step) == pc' = step

InsertRecord ==
  /\ tables' = [tables EXCEPT !.records =
       @ \cup {[id |-> next_record_id, game |-> request.game, winner |-> request.winner]}]
  /\ record_id' = next_record_id
  /\ next_record_id' = next_record_id + 1

InsertCoinLog ==
  /\ tables' = [tables EXCEPT !.logs =
       @ \cup {[id |-> next_coin_log_id, player |-> next, game |-> request.game,
                before |-> request.before[next], after |-> request.after[next]]}]
  /\ next_coin_log_id' = next_coin_log_id + 1

UpsertCoin == tables' = [tables EXCEPT !.coins[next] = Row(request.after[next])]

(* The next player of coin_changes, or the end of the loop.                *)
NextPlayer(step, end) ==
  IF next < NumSeats THEN Goto(step) /\ next' = next + 1 ELSE Goto(end) /\ UNCHANGED next

-----------------------------------------------------------------------------
(* The maps of the DAOs.                                                   *)

MemoryRecord ==
  /\ ~mysql /\ pc = "record"
  /\ InsertRecord
  /\ Goto(IF failpoint = "AfterRecordInserted" THEN "rollback" ELSE "coin")
  /\ UNCHANGED <<mysql, saved, next_coin_log_id, failpoint, leases, request, next,
                 inserted_coin_log_ids, old_player_coins, reply, faultVars, callerVars>>

MemoryCoin ==
  /\ ~mysql /\ pc = "coin"
  /\ old_player_coins' = Append(old_player_coins, tables.coins[next])
  /\ UpsertCoin
  /\ Goto("log")
  /\ UNCHANGED <<mysql, saved, next_record_id, next_coin_log_id, failpoint, leases, request,
                 next, record_id, inserted_coin_log_ids, reply, faultVars, callerVars>>

(* With the last log everything is kept.                                   *)
MemoryLog ==
  /\ ~mysql /\ pc = "log"
  /\ InsertCoinLog
  /\ inserted_coin_log_ids' = inserted_coin_log_ids \cup {next_coin_log_id}
  /\ IF failpoint = "AfterFirstCoinLogInserted" /\ next = 1
     THEN Goto("rollback") /\ UNCHANGED next
     ELSE NextPlayer("coin", "answer")
  /\ saved' = IF pc' = "answer" THEN tables' ELSE saved
  /\ UNCHANGED <<mysql, next_record_id, failpoint, leases, request, record_id,
                 old_player_coins, reply, faultVars, callerVars>>

RollbackKeepsRecord ==  \* mutant of Rollback
  /\ pc = "rollback"
  /\ tables' = [tables EXCEPT !.logs = {row \in @ : row.id \notin inserted_coin_log_ids}]
  /\ reply' = Failed
  /\ faults' = faults + 1
  /\ Goto("return")
  /\ UNCHANGED <<mysql, saved, next_record_id, next_coin_log_id, failpoint, leases,
                 localVars, lost, callerVars>>

(* What was inserted is deleted, and every player has his old coins or no  *)
(* row again.                                                              *)
Rollback ==
  /\ pc = "rollback"
  /\ tables' =
       [records |-> {row \in tables.records : row.id # record_id},
        logs |-> {row \in tables.logs : row.id \notin inserted_coin_log_ids},
        coins |-> [p \in Seats |-> IF p \in DOMAIN old_player_coins
                                   THEN old_player_coins[p] ELSE tables.coins[p]]]
  /\ reply' = Failed
  /\ faults' = faults + 1
  /\ Goto("return")
  /\ UNCHANGED <<mysql, saved, next_record_id, next_coin_log_id, failpoint, leases,
                 localVars, lost, callerVars>>

MemoryAnswer ==
  /\ ~mysql /\ pc = "answer"
  /\ reply' = Done(record_id)
  /\ Goto("return")
  /\ UNCHANGED <<mysql, tableVars, failpoint, leases, localVars, faultVars, callerVars>>

-----------------------------------------------------------------------------
(* MySQL: a lease, a script, and its output.                               *)

Acquire ==
  /\ pc = "acquire"
  /\ IF leases < PoolSize
     THEN leases' = leases + 1 /\ Goto("start") /\ UNCHANGED reply
     ELSE reply' = Failed /\ Goto("return") /\ UNCHANGED leases
  /\ UNCHANGED <<mysql, tableVars, failpoint, localVars, faultVars, callerVars>>

StartTransaction ==
  /\ pc = "start"
  /\ Goto("record")
  /\ UNCHANGED <<mysql, tableVars, failpoint, leases, localVars, reply, faultVars, callerVars>>

(* At a failpoint the script has a statement that fails.                   *)
SqlRecord ==
  /\ mysql /\ pc = "record"
  /\ InsertRecord
  /\ Goto(IF failpoint = "AfterRecordInserted" THEN "failing" ELSE "log")
  /\ UNCHANGED <<mysql, saved, next_coin_log_id, failpoint, leases, request, next,
                 inserted_coin_log_ids, old_player_coins, reply, faultVars, callerVars>>

SqlLog ==
  /\ mysql /\ pc = "log"
  /\ InsertCoinLog
  /\ Goto(IF failpoint = "AfterFirstCoinLogInserted" /\ next = 1 THEN "failing" ELSE "coin")
  /\ UNCHANGED <<mysql, saved, next_record_id, failpoint, leases, localVars, reply, faultVars,
                 callerVars>>

SqlCoin ==
  /\ mysql /\ pc = "coin"
  /\ UpsertCoin
  /\ NextPlayer("log", "commit")
  /\ UNCHANGED <<mysql, saved, next_record_id, next_coin_log_id, failpoint, leases, request,
                 record_id, inserted_coin_log_ids, old_player_coins, reply, faultVars, callerVars>>

Commit ==
  /\ pc = "commit"
  /\ saved' = tables
  /\ Goto("answer")
  /\ UNCHANGED <<mysql, tables, next_record_id, next_coin_log_id, failpoint, leases,
                 localVars, reply, faultVars, callerVars>>

AnswerLastInsertId ==  \* mutant of SqlAnswer
  /\ mysql /\ pc = "answer"
  /\ reply' = Done(next_coin_log_id - 1)
  /\ Goto("release")
  /\ UNCHANGED <<mysql, tableVars, failpoint, leases, localVars, faultVars, callerVars>>

(* SELECT @rid, the last line of the output.                               *)
SqlAnswer ==
  /\ mysql /\ pc = "answer"
  /\ reply' = Done(record_id)
  /\ Goto("release")
  /\ UNCHANGED <<mysql, tableVars, failpoint, leases, localVars, faultVars, callerVars>>

(* The client cannot be started or loses the server, or a statement fails, *)
(* which ends the script and with it the transaction.  Once it has         *)
(* committed only the answer is lost.                                      *)
SqlFails ==
  /\ mysql
  /\ pc \in {"start", "record", "log", "coin", "failing", "commit", "answer"}
  /\ tables' = saved
  /\ reply' = Failed
  /\ faults' = faults + 1
  /\ lost' = IF pc = "answer" THEN lost + 1 ELSE lost
  /\ Goto("release")
  /\ UNCHANGED <<mysql, saved, next_record_id, next_coin_log_id, failpoint, leases,
                 localVars, callerVars>>

ReleaseTwice ==  \* mutant of Release
  /\ pc = "release"
  /\ leases' = leases - 2
  /\ Goto("return")
  /\ UNCHANGED <<mysql, tableVars, failpoint, localVars, reply, faultVars, callerVars>>

Release ==
  /\ pc = "release"
  /\ leases' = leases - 1
  /\ Goto("return")
  /\ UNCHANGED <<mysql, tableVars, failpoint, localVars, reply, faultVars, callerVars>>

-----------------------------------------------------------------------------
(* The server ends and is started anew: the maps are empty, the games it   *)
(* ran are over, and MySQL has what was committed.                         *)
Restart ==
  /\ restarts < MaxRestarts
  /\ restarts' = restarts + 1
  /\ IF mysql
     THEN tables' = saved /\ UNCHANGED <<saved, next_record_id, next_coin_log_id>>
     ELSE /\ tables' = NoTables /\ saved' = NoTables
          /\ next_record_id' = 1 /\ next_coin_log_id' = 1
  /\ failpoint' = "None" /\ leases' = 0 /\ pc' = "idle"
  /\ request' = NoRequest /\ next' = 1 /\ record_id' = 0
  /\ inserted_coin_log_ids' = {} /\ old_player_coins' = <<>>
  /\ coin' = [p \in Seats |-> StartCoin]
  /\ games' = [g \in Games |-> IF games[g] = "asked" THEN "over" ELSE games[g]]
  /\ UNCHANGED <<mysql, reply, faultVars, calls>>

MemoryStep == MemoryRecord \/ MemoryCoin \/ MemoryLog \/ Rollback \/ MemoryAnswer

SqlStep ==
  \/ Acquire \/ StartTransaction \/ SqlRecord \/ SqlLog \/ SqlCoin \/ Commit \/ SqlAnswer
  \/ SqlFails \/ Release

FailPoints == {"None", "AfterRecordInserted", "AfterFirstCoinLogInserted"}

Next ==
  \/ \E point \in FailPoints : SetTxFailpointForTesting(point)
  \/ \E g \in Games, winner \in Seats, base_coin \in Stakes : Persist(g, winner, base_coin)
  \/ MemoryStep
  \/ SqlStep
  \/ Return
  \/ Restart

Spec == Init /\ [][Next]_vars

-----------------------------------------------------------------------------
(* Properties.                                                             *)

Records == [id : Nat \ {0}, game : Games, winner : Seats]

Logs == [id : Nat \ {0}, player : Seats, game : Games, before : Int, after : Int]

Tables == [records : SUBSET Records, logs : SUBSET Logs, coins : [Seats -> Seq(Int)]]

Requests ==
  [game : Games, winner : Seats, before : [Seats -> Int], after : [Seats -> Int]]

TypeOK ==
  /\ mysql \in BOOLEAN
  /\ tables \in Tables /\ saved \in Tables
  /\ next_record_id \in Nat \ {0} /\ next_coin_log_id \in Nat \ {0}
  /\ failpoint \in FailPoints
  /\ leases \in 0..PoolSize
  /\ pc \in {"idle", "acquire", "start", "record", "coin", "log", "rollback", "failing",
             "commit", "answer", "release", "return"}
  /\ pc # "idle" => request \in Requests
  /\ next \in Seats
  /\ record_id \in Nat
  /\ inserted_coin_log_ids \subseteq Nat
  /\ old_player_coins \in Seq(Seq(Int))
  /\ reply \in [ok : BOOLEAN, id : Nat]
  /\ coin \in [Seats -> Int]
  /\ games \in [Games -> {"open", "asked", "over"}]
  /\ faults \in Nat /\ lost \in Nat /\ calls \in Nat /\ restarts \in Nat

(* The store keeps the promise of a ledger: a call keeps the whole outcome *)
(* of a game or nothing of it, through failures at any statement, the      *)
(* roll-back of the maps and restarts; it answers with the id of its own   *)
(* record; it loses an answer with MySQL only; and it never fails without  *)
(* a fault, for want of a lease for instance.                              *)
Phase ==
  CASE pc = "idle" -> "idle"
    [] pc = "answer" -> "kept"
    [] pc \in {"release", "return"} -> "answered"
    [] OTHER -> "asked"

Ledger == INSTANCE CoinLedger WITH
  Players <- Seats,
  durable <- mysql,
  ledger <- IF pc \in {"idle", "return"} THEN tables ELSE saved,
  phase <- Phase,
  order <- request

ImplementsLedger == Ledger!Spec

(* A game is recorded once, whatever failed before it was settled, and     *)
(* whatever restarted; only where the answer of a transaction that had     *)
(* committed was lost, and the settlement is tried again, once more.       *)
RecordedOnce ==
  \A g \in Games :
    Cardinality({record \in saved.records : record.game = g}) <= 1 + lost
=============================================================================
