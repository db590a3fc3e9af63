------------------------ MODULE StorageServiceProofs ------------------------
(***************************************************************************)
(* StorageService keeps its types, and it keeps the promise of CoinLedger, *)
(* for any number of players, games, leases and settlements.               *)
(***************************************************************************)
EXTENDS StorageService, FiniteSetTheorems, TLAPS

(* A lease is held from Acquire to Release, one at a time.                 *)
LeaseHeld == leases = IF mysql /\ pc \notin {"idle", "acquire", "return"} THEN 1 ELSE 0

(* Which store a step belongs to, and what a call has not touched yet.     *)
StepsFit ==
  /\ pc \in {"acquire", "start", "failing", "commit", "release"} => mysql
  /\ pc = "rollback" => ~mysql
  /\ pc \in {"idle", "acquire", "start", "record"} =>
       inserted_coin_log_ids = {} /\ old_player_coins = <<>>
  /\ pc \in {"acquire", "start", "record"} => next = 1
  /\ pc = "commit" => next = NumSeats

Outside == {"idle", "acquire", "start", "record", "answer", "release", "return"}

(* Ids are new, and what was saved stays visible.                          *)
TablesGrow ==
  /\ pc \in Outside => tables = saved
  /\ saved.records \subseteq tables.records /\ saved.logs \subseteq tables.logs
  /\ \A row \in tables.records : row.id < next_record_id
  /\ \A row \in tables.logs : row.id < next_coin_log_id

NewRecord == [id |-> record_id, game |-> request.game, winner |-> request.winner]

RecordIn(t) ==
  /\ t.records = saved.records \cup {NewRecord}
  /\ \A old \in saved.records : old.id < record_id

NewLog(id, p) ==
  [id |-> id, player |-> p, game |-> request.game,
   before |-> request.before[p], after |-> request.after[p]]

(* The tables have a new line of the log for each of these players.        *)
LogsIn(t, players) ==
  /\ saved.logs \subseteq t.logs
  /\ \A row \in t.logs \ saved.logs :
       row.player \in players /\ row = NewLog(row.id, row.player)
  /\ \A p \in players : \E row \in t.logs \ saved.logs : row.player = p
  /\ \A old \in saved.logs, row \in t.logs \ saved.logs : old.id < row.id
  /\ \A a, b \in t.logs \ saved.logs : a.player = b.player => a = b

CoinsIn(t, players) ==
  \A p \in Seats :
    t.coins[p] = IF p \in players THEN Row(request.after[p]) ELSE saved.coins[p]

Logged == IF pc = "commit" \/ (mysql /\ pc = "coin") THEN 1..next ELSE 1..(next - 1)
Paid == IF pc = "commit" \/ (~mysql /\ pc = "log") THEN 1..next ELSE 1..(next - 1)

(* What a call has written so far.                                         *)
Written ==
  /\ pc \in {"coin", "log", "commit", "rollback"} => RecordIn(tables)
  /\ pc \in {"coin", "log", "commit"} => LogsIn(tables, Logged) /\ CoinsIn(tables, Paid)
  /\ pc = "answer" =>
       NewRecord \in saved.records /\ \A other \in saved.records : other.id <= record_id

(* What the maps need to be rolled back.                                   *)
Undoable ==
  ~mysql /\ pc \in {"coin", "log", "rollback"} =>
    /\ \A row \in tables.logs :
         row \in saved.logs <=> row.id \notin inserted_coin_log_ids
    /\ \A p \in Seats :
         IF p \in DOMAIN old_player_coins
         THEN old_player_coins[p] = saved.coins[p] ELSE tables.coins[p] = saved.coins[p]
    /\ pc = "coin" => Len(old_player_coins) = next - 1
    /\ pc = "log" => Len(old_player_coins) = next

IInv == TypeOK /\ LeaseHeld /\ StepsFit /\ TablesGrow /\ Written /\ Undoable
-----------------------------------------------------------------------------
(* Types.                                                                  *)

LEMMA TablesTyped ==
  ASSUME NEW t \in Tables
  PROVE  /\ t.records \subseteq Records /\ t.logs \subseteq Logs
         /\ t.coins \in [Seats -> Seq(Int)]
         /\ t = [records |-> t.records, logs |-> t.logs, coins |-> t.coins]
BY DEF Tables

LEMMA TablesExcept ==
  ASSUME NEW t \in Tables, NEW x
  PROVE  /\ [t EXCEPT !.records = x] = [records |-> x, logs |-> t.logs, coins |-> t.coins]
         /\ [t EXCEPT !.logs = x] = [records |-> t.records, logs |-> x, coins |-> t.coins]
         /\ [t EXCEPT !.coins = x] = [records |-> t.records, logs |-> t.logs, coins |-> x]
BY DEF Tables

(* What the inserts and the update do to the tables, field by field.       *)
LEMMA RecordInserted ==
  ASSUME TypeOK, pc # "idle", InsertRecord
  PROVE  /\ tables'.records = tables.records \cup
              {[id |-> next_record_id, game |-> request.game, winner |-> request.winner]}
         /\ tables'.logs = tables.logs /\ tables'.coins = tables.coins
         /\ tables' \in Tables
         /\ record_id' \in Nat /\ next_record_id' \in Nat \ {0}
<1> DEFINE new == [id |-> next_record_id, game |-> request.game, winner |-> request.winner]
<1>1. new \in Records
  BY DEF TypeOK, Requests, Records
<1>2. tables \in Tables
  BY DEF TypeOK
<1>3. tables' = [records |-> tables.records \cup {new}, logs |-> tables.logs,
                 coins |-> tables.coins]
  <2>1. tables' = [tables EXCEPT !.records = tables.records \cup {new}]
    BY DEF InsertRecord
  <2> QED
    BY <1>2, <2>1, TablesExcept
<1>4. tables' \in Tables
  <2> HIDE DEF new
  <2> QED
    BY <1>1, <1>2, <1>3, TablesTyped DEF Tables
<1> QED
  BY <1>3, <1>4 DEF InsertRecord, TypeOK

LEMMA LogInserted ==
  ASSUME TypeOK, pc # "idle", InsertCoinLog
  PROVE  /\ tables'.logs = tables.logs \cup {NewLog(next_coin_log_id, next)}
         /\ tables'.records = tables.records /\ tables'.coins = tables.coins
         /\ tables' \in Tables
         /\ next_coin_log_id' \in Nat \ {0}
<1> DEFINE new == NewLog(next_coin_log_id, next)
<1>1. new \in Logs
  BY DEF TypeOK, Requests, Logs, NewLog
<1>2. tables \in Tables
  BY DEF TypeOK
<1>3. tables' = [records |-> tables.records, logs |-> tables.logs \cup {new},
                 coins |-> tables.coins]
  <2>1. tables' = [tables EXCEPT !.logs = tables.logs \cup {new}]
    BY DEF InsertCoinLog, NewLog
  <2> QED
    BY <1>2, <2>1, TablesExcept
<1>4. tables' \in Tables
  <2> HIDE DEF new
  <2> QED
    BY <1>1, <1>2, <1>3, TablesTyped DEF Tables
<1> QED
  BY <1>3, <1>4 DEF InsertCoinLog, TypeOK

LEMMA CoinUpdated ==
  ASSUME TypeOK, pc # "idle", UpsertCoin
  PROVE  /\ tables'.coins = [tables.coins EXCEPT ![next] = Row(request.after[next])]
         /\ tables'.records = tables.records /\ tables'.logs = tables.logs
         /\ tables' \in Tables
<1> DEFINE row == Row(request.after[next])
<1>1. row \in Seq(Int)
  BY DEF TypeOK, Requests, Row
<1>2. tables \in Tables /\ next \in Seats
  BY DEF TypeOK
<1>3. tables' = [records |-> tables.records, logs |-> tables.logs,
                 coins |-> [tables.coins EXCEPT ![next] = row]]
  <2> DEFINE paid == [tables.coins EXCEPT ![next] = row]
  <2>1. tables' = [tables EXCEPT !.coins = paid]
    BY DEF UpsertCoin
  <2> HIDE DEF paid
  <2>2. [tables EXCEPT !.coins = paid] =
          [records |-> tables.records, logs |-> tables.logs, coins |-> paid]
    BY <1>2, TablesExcept
  <2> QED
    BY <2>1, <2>2 DEF paid
<1>4. tables' \in Tables
  <2> HIDE DEF row
  <2> QED
    BY <1>1, <1>2, <1>3, TablesTyped DEF Tables
<1> QED
  BY <1>3, <1>4

LEMMA TypePreserved ==
  ASSUME TypeOK, LeaseHeld, StepsFit, [Next]_vars
  PROVE  TypeOK'
<1> USE SeatsAssumption, CoinsAssumption, PoolAssumption DEF Seats
<1>1. CASE UNCHANGED vars
  BY <1>1 DEF TypeOK, vars, tableVars, localVars, faultVars, callerVars
<1>2. ASSUME NEW point \in FailPoints, SetTxFailpointForTesting(point)
      PROVE  TypeOK'
  BY <1>2 DEF TypeOK, SetTxFailpointForTesting, tableVars, localVars, faultVars, callerVars
<1>3. ASSUME NEW g \in Games, NEW winner \in Seats, NEW base_coin \in Stakes,
             Persist(g, winner, base_coin)
      PROVE  TypeOK'
  <2>1. \A p \in Seats : Delta(p, winner, base_coin) \in Int
    BY DEF Delta
  <2>2. request' \in Requests
    <3> DEFINE after == [p \in Seats |-> coin[p] + Delta(p, winner, base_coin)]
    <3>1. coin \in [Seats -> Int] /\ after \in [Seats -> Int]
      BY <2>1 DEF TypeOK
    <3>2. request' = [game |-> g, winner |-> winner, before |-> coin, after |-> after]
      BY <1>3 DEF Persist
    <3> HIDE DEF after
    <3> QED
      BY <3>1, <3>2 DEF Requests
  <2>3. games' \in [Games -> {"open", "asked", "over"}]
    BY <1>3 DEF TypeOK, Persist
  <2>4. /\ pc' \in {"acquire", "record"} /\ next' = 1 /\ calls' = calls + 1
        /\ UNCHANGED <<mysql, tables, saved, next_record_id, next_coin_log_id, failpoint,
                       leases, record_id, inserted_coin_log_ids, old_player_coins, reply,
                       faults, lost, coin, restarts>>
    BY <1>3 DEF Persist, tableVars, faultVars
  <2> QED
    BY <2>2, <2>3, <2>4 DEF TypeOK
<1>4. ASSUME MemoryStep
      PROVE  TypeOK'
  <2>1. CASE MemoryRecord
    <3>1. tables' \in Tables /\ record_id' \in Nat /\ next_record_id' \in Nat \ {0}
      BY <2>1, RecordInserted DEF MemoryRecord
    <3> QED
      BY <2>1, <3>1 DEF TypeOK, MemoryRecord, Goto, faultVars, callerVars
  <2>2. CASE MemoryCoin
    <3>1. tables' \in Tables
      BY <2>2, CoinUpdated DEF MemoryCoin
    <3>2. tables.coins[next] \in Seq(Int)
      BY TablesTyped DEF TypeOK
    <3>3. old_player_coins' \in Seq(Seq(Int))
      BY <2>2, <3>2 DEF TypeOK, MemoryCoin
    <3> QED
      BY <2>2, <3>1, <3>3 DEF TypeOK, MemoryCoin, Goto, faultVars, callerVars
  <2>3. CASE MemoryLog
    <3>1. tables' \in Tables /\ next_coin_log_id' \in Nat \ {0}
      BY <2>3, LogInserted DEF MemoryLog
    <3>2. saved' \in Tables
      BY <2>3, <3>1 DEF TypeOK, MemoryLog
    <3>3. next' \in Seats /\ pc' \in {"coin", "answer", "rollback"}
      BY <2>3 DEF TypeOK, MemoryLog, NextPlayer, Goto
    <3> QED
      BY <2>3, <3>1, <3>2, <3>3 DEF TypeOK, MemoryLog, faultVars, callerVars
  <2>4. CASE Rollback
    <3>1. \A p \in DOMAIN old_player_coins : old_player_coins[p] \in Seq(Int)
      BY DEF TypeOK
    <3>2. tables' \in Tables
      BY <2>4, <3>1, TablesTyped DEF TypeOK, Tables, Rollback
    <3> QED
      BY <2>4, <3>2 DEF TypeOK, Rollback, Goto, Failed, localVars, callerVars
  <2>5. CASE MemoryAnswer
    BY <2>5 DEF TypeOK, MemoryAnswer, Goto, Done, tableVars, localVars, faultVars, callerVars
  <2> QED
    BY <1>4, <2>1, <2>2, <2>3, <2>4, <2>5 DEF MemoryStep
<1>5. ASSUME SqlStep
      PROVE  TypeOK'
  <2>1. CASE Acquire
    <3>1. leases' \in 0..PoolSize
      BY <2>1 DEF TypeOK, Acquire
    <3>2. pc' \in {"start", "return"} /\ reply' \in [ok : BOOLEAN, id : Nat]
      <4>1. Failed \in [ok : BOOLEAN, id : Nat] /\ reply \in [ok : BOOLEAN, id : Nat]
        BY DEF Failed, TypeOK
      <4> QED
        BY <2>1, <4>1 DEF Acquire, Goto
    <3>3. pc # "idle"
      BY <2>1 DEF Acquire
    <3> QED
      BY <2>1, <3>1, <3>2, <3>3
         DEF TypeOK, Acquire, tableVars, localVars, faultVars, callerVars
  <2>2. CASE StartTransaction
    BY <2>2 DEF TypeOK, StartTransaction, Goto, tableVars, localVars, faultVars, callerVars
  <2>3. CASE SqlRecord
    <3>1. tables' \in Tables /\ record_id' \in Nat /\ next_record_id' \in Nat \ {0}
      BY <2>3, RecordInserted DEF SqlRecord
    <3> QED
      BY <2>3, <3>1 DEF TypeOK, SqlRecord, Goto, faultVars, callerVars
  <2>4. CASE SqlLog
    <3>1. tables' \in Tables /\ next_coin_log_id' \in Nat \ {0}
      BY <2>4, LogInserted DEF SqlLog
    <3> QED
      BY <2>4, <3>1 DEF TypeOK, SqlLog, Goto, localVars, faultVars, callerVars
  <2>5. CASE SqlCoin
    <3>1. tables' \in Tables
      BY <2>5, CoinUpdated DEF SqlCoin
    <3>2. next' \in Seats /\ pc' \in {"log", "commit"}
      BY <2>5 DEF TypeOK, SqlCoin, NextPlayer, Goto
    <3> QED
      BY <2>5, <3>1, <3>2 DEF TypeOK, SqlCoin, faultVars, callerVars
  <2>6. CASE Commit
    BY <2>6 DEF TypeOK, Commit, Goto, localVars, faultVars, callerVars
  <2>7. CASE SqlAnswer
    BY <2>7 DEF TypeOK, SqlAnswer, Goto, Done, tableVars, localVars, faultVars, callerVars
  <2>8. CASE SqlFails
    BY <2>8 DEF TypeOK, SqlFails, Goto, Failed, localVars, callerVars
  <2>9. CASE Release
    BY <2>9 DEF TypeOK, LeaseHeld, StepsFit, Release, Goto, tableVars, localVars, faultVars, callerVars
  <2> QED
    BY <1>5, <2>1, <2>2, <2>3, <2>4, <2>5, <2>6, <2>7, <2>8, <2>9 DEF SqlStep
<1>6. ASSUME Return
      PROVE  TypeOK'
  <2>1. coin' \in [Seats -> Int] /\ games' \in [Games -> {"open", "asked", "over"}]
    <3>1. pc # "idle" /\ request \in Requests
      BY <1>6 DEF TypeOK, Return
    <3>2. request.after \in [Seats -> Int] /\ StartCoin \in Int
      BY <3>1 DEF Requests
    <3>3. coin' \in [Seats -> Int]
      BY <1>6, <3>2 DEF TypeOK, Return
    <3> QED
      BY <1>6, <3>3 DEF TypeOK, Return
  <2> QED
    BY <1>6, <2>1 DEF TypeOK, Return, tableVars, faultVars
<1>7. ASSUME Restart
      PROVE  TypeOK'
  <2>1. NoTables \in Tables
    BY DEF NoTables, Tables, NoRow
  <2>2. games' \in [Games -> {"open", "asked", "over"}]
    BY <1>7 DEF TypeOK, Restart
  <2> QED
    BY <1>7, <2>1, <2>2 DEF TypeOK, Restart, FailPoints, faultVars
<1> QED
  BY <1>1, <1>2, <1>3, <1>4, <1>5, <1>6, <1>7 DEF Next
-----------------------------------------------------------------------------
(* The pool and the steps.                                                 *)

LEMMA LeasePreserved ==
  ASSUME TypeOK, LeaseHeld, StepsFit, [Next]_vars
  PROVE  LeaseHeld'
<1> USE PoolAssumption DEF LeaseHeld
<1>1. CASE UNCHANGED vars
  BY <1>1 DEF vars
<1>2. CASE (\E point \in FailPoints : SetTxFailpointForTesting(point)) \/ Return
  BY <1>2 DEF SetTxFailpointForTesting, Return
<1>3. CASE \E g \in Games, winner \in Seats, base_coin \in Stakes : Persist(g, winner, base_coin)
  BY <1>3 DEF Persist
<1>4. CASE MemoryStep
  BY <1>4 DEF MemoryStep, MemoryRecord, MemoryCoin, MemoryLog, Rollback, MemoryAnswer, StepsFit,
              Goto, NextPlayer
<1>5. CASE Acquire \/ StartTransaction \/ Commit \/ SqlAnswer \/ SqlFails \/ Release
  BY <1>5 DEF Acquire, StartTransaction, Commit, SqlAnswer, SqlFails, Release, StepsFit, Goto
<1>6. CASE SqlRecord \/ SqlLog \/ SqlCoin
  BY <1>6 DEF SqlRecord, SqlLog, SqlCoin, Goto, NextPlayer
<1>7. CASE Restart
  BY <1>7 DEF Restart
<1> QED
  BY <1>1, <1>2, <1>3, <1>4, <1>5, <1>6, <1>7 DEF Next, SqlStep

LEMMA StepsPreserved ==
  ASSUME TypeOK, LeaseHeld, StepsFit, [Next]_vars
  PROVE  StepsFit'
<1> USE SeatsAssumption, PoolAssumption DEF StepsFit, Seats
<1>1. CASE UNCHANGED vars
  BY <1>1 DEF vars, localVars
<1>2. CASE (\E point \in FailPoints : SetTxFailpointForTesting(point)) \/ Return
  BY <1>2 DEF SetTxFailpointForTesting, Return, localVars
<1>3. CASE \E g \in Games, winner \in Seats, base_coin \in Stakes : Persist(g, winner, base_coin)
  BY <1>3 DEF Persist
<1>4. CASE MemoryRecord \/ MemoryCoin
  BY <1>4 DEF MemoryRecord, MemoryCoin, Goto
<1>5. CASE MemoryLog
  BY <1>5 DEF MemoryLog, Goto, NextPlayer
<1>6. CASE Rollback \/ MemoryAnswer
  BY <1>6 DEF Rollback, MemoryAnswer, Goto
<1>7. CASE Acquire \/ StartTransaction \/ Commit \/ SqlAnswer
  BY <1>7 DEF Acquire, StartTransaction, Commit, SqlAnswer, Goto, localVars
<1>8. CASE SqlFails \/ Release
  BY <1>8 DEF SqlFails, Release, Goto
<1>9. CASE SqlRecord \/ SqlLog \/ SqlCoin
  BY <1>9 DEF SqlRecord, SqlLog, SqlCoin, Goto, NextPlayer, TypeOK
<1>10. CASE Restart
  BY <1>10 DEF Restart
<1> QED
  BY <1>1, <1>2, <1>3, <1>4, <1>5, <1>6, <1>7, <1>8, <1>9, <1>10 DEF Next, MemoryStep, SqlStep
-----------------------------------------------------------------------------
(* What a statement adds to what the call has written.                     *)

LEMMA RecordStep ==
  ASSUME TypeOK, TablesGrow, pc = "record", InsertRecord, UNCHANGED <<request, saved>>
  PROVE  RecordIn(tables)'
<1>1. tables = saved /\ \A row \in tables.records : row.id < next_record_id
  BY DEF TablesGrow, Outside
<1>2. record_id' = next_record_id
  BY DEF InsertRecord
<1>3. tables'.records = saved.records \cup {NewRecord'}
  BY <1>1, <1>2, RecordInserted DEF NewRecord
<1> QED
  BY <1>1, <1>2, <1>3 DEF RecordIn

LEMMA LogStep ==
  ASSUME TypeOK, TablesGrow, pc # "idle", InsertCoinLog, LogsIn(tables, 1..(next - 1))
  PROVE  LogsIn(tables', 1..next)
<1> DEFINE new == NewLog(next_coin_log_id, next)
<1>1. tables'.logs = tables.logs \cup {new}
  BY LogInserted
<1>2. new.id = next_coin_log_id /\ new.player = next /\ new = NewLog(new.id, new.player)
  BY DEF NewLog
<1>3. next \in Nat \ {0} /\ 1..next = 1..(next - 1) \cup {next} /\ next \notin 1..(next - 1)
  BY DEF TypeOK, Seats
<1>4. new \notin tables.logs /\ new \notin saved.logs
  BY <1>2 DEF TablesGrow, TypeOK
<1>5. tables'.logs \ saved.logs = (tables.logs \ saved.logs) \cup {new}
  BY <1>1, <1>4
<1>6. \A old \in saved.logs : old.id < new.id
  BY <1>2 DEF TablesGrow
<1> HIDE DEF new
<1>7. saved.logs \subseteq tables'.logs
  BY <1>1 DEF LogsIn
<1>8. \A row \in tables'.logs \ saved.logs :
        row.player \in 1..next /\ row = NewLog(row.id, row.player)
  BY <1>2, <1>3, <1>5 DEF LogsIn
<1>9. \A p \in 1..next : \E row \in tables'.logs \ saved.logs : row.player = p
  BY <1>2, <1>3, <1>5 DEF LogsIn
<1>10. \A old \in saved.logs, row \in tables'.logs \ saved.logs : old.id < row.id
  BY <1>5, <1>6 DEF LogsIn
<1>11. \A a, b \in tables'.logs \ saved.logs : a.player = b.player => a = b
  BY <1>2, <1>3, <1>5 DEF LogsIn
<1> QED
  BY <1>7, <1>8, <1>9, <1>10, <1>11 DEF LogsIn

LEMMA CoinStep ==
  ASSUME TypeOK, pc # "idle", UpsertCoin, CoinsIn(tables, 1..(next - 1))
  PROVE  CoinsIn(tables', 1..next)
<1>1. tables.coins \in [Seats -> Seq(Int)] /\ next \in Seats
  BY TablesTyped DEF TypeOK
<1>2. \A p \in Seats :
        tables'.coins[p] = IF p = next THEN Row(request.after[next]) ELSE tables.coins[p]
  BY <1>1, CoinUpdated
<1> QED
  BY <1>1, <1>2 DEF CoinsIn, Seats
-----------------------------------------------------------------------------
(* What a call has written, step by step.                                  *)

CallInv == TablesGrow /\ Written /\ Undoable

LEMMA QuietStep ==
  ASSUME TablesGrow, pc \in Outside, pc' \in Outside \ {"answer"}, UNCHANGED tableVars
  PROVE  CallInv'
<1>1. TablesGrow'
  BY DEF TablesGrow, Outside, tableVars
<1>2. Written' /\ Undoable'
  BY DEF Written, Undoable, Outside
<1> QED
  BY <1>1, <1>2 DEF CallInv

LEMMA RecordKeepsCall ==
  ASSUME IInv, MemoryRecord \/ SqlRecord
  PROVE  CallInv'
<1>1. pc = "record" /\ InsertRecord /\ UNCHANGED <<request, saved, next_coin_log_id, next>>
  BY DEF MemoryRecord, SqlRecord
<1>2. pc' \in {"coin", "log", "rollback", "failing"}
  BY DEF MemoryRecord, SqlRecord, Goto
<1>3. TypeOK /\ TablesGrow /\ tables = saved /\ next = 1
  BY <1>1 DEF IInv, TablesGrow, Outside, StepsFit
<1>4. /\ tables'.records = saved.records \cup {NewRecord'}
      /\ \A old \in saved.records : old.id < record_id'
      /\ tables'.logs = saved.logs /\ tables'.coins = saved.coins
  BY <1>1, <1>3, RecordStep, RecordInserted DEF RecordIn
<1>5. TablesGrow'
  <2>1. record_id' < next_record_id' /\ next_record_id <= next_record_id'
    BY <1>1, <1>3 DEF InsertRecord, TypeOK
  <2>2. \A row \in tables'.records : row.id < next_record_id'
    <3>1. \A row \in saved.records : row.id \in Nat
      BY <1>3, TablesTyped DEF TypeOK, Records
    <3> QED
      BY <1>1, <1>3, <1>4, <2>1, <3>1 DEF TablesGrow, NewRecord, InsertRecord, TypeOK
  <2> QED
    BY <1>1, <1>2, <1>3, <1>4, <2>2 DEF TablesGrow, Outside
<1>6. RecordIn(tables)' /\ LogsIn(tables, {})' /\ CoinsIn(tables, {})'
  BY <1>1, <1>4 DEF RecordIn, LogsIn, CoinsIn
<1>7. Written'
  <2>1. pc' \in {"coin", "log"} => Logged' = {} /\ Paid' = {}
    BY <1>1, <1>3 DEF Logged, Paid, MemoryRecord, SqlRecord, Goto
  <2> QED
    BY <1>2, <1>6, <2>1 DEF Written
<1>8. Undoable'
  <2>1. CASE SqlRecord
    BY <2>1 DEF SqlRecord, Undoable
  <2>2. CASE MemoryRecord
    <3>1. inserted_coin_log_ids' = {} /\ old_player_coins' = <<>> /\ pc' # "log"
      BY <1>1, <2>2 DEF IInv, StepsFit, MemoryRecord, Goto
    <3> QED
      BY <1>1, <1>3, <1>4, <3>1 DEF Undoable
  <2> QED
    BY <2>1, <2>2
<1> QED
  BY <1>5, <1>7, <1>8 DEF CallInv

LEMMA CoinKeepsCall ==
  ASSUME IInv, MemoryCoin \/ SqlCoin
  PROVE  CallInv'
<1>1. /\ pc = "coin" /\ UpsertCoin
      /\ UNCHANGED <<request, saved, record_id, next_record_id, next_coin_log_id, mysql,
                     inserted_coin_log_ids>>
  BY DEF MemoryCoin, SqlCoin
<1>2. TypeOK /\ TablesGrow /\ Written /\ next \in Nat \ {0}
  BY DEF IInv, TypeOK, Seats
<1>3. tables'.records = tables.records /\ tables'.logs = tables.logs
  BY <1>1, <1>2, CoinUpdated
<1>4. /\ RecordIn(tables) /\ LogsIn(tables, Logged) /\ CoinsIn(tables, 1..(next - 1))
  BY <1>1, <1>2 DEF Written, Paid
<1>5. CoinsIn(tables', 1..next)
  BY <1>1, <1>2, <1>4, CoinStep
<1>6. \/ ~mysql /\ pc' = "log" /\ next' = next
      \/ mysql /\ pc' = "log" /\ next' = next + 1
      \/ mysql /\ pc' = "commit" /\ next' = next
  BY DEF MemoryCoin, SqlCoin, NextPlayer, Goto
<1>7. TablesGrow'
  BY <1>1, <1>2, <1>3, <1>6 DEF TablesGrow, Outside
<1>8. Logged' = Logged /\ Paid' = 1..next
  BY <1>1, <1>2, <1>6 DEF Logged, Paid
<1>9. Written'
  <2>1. RecordIn(tables)'
    BY <1>1, <1>3, <1>4 DEF RecordIn, NewRecord
  <2>2. LogsIn(tables', Logged) /\ UNCHANGED <<saved, request>>
    BY <1>1, <1>3, <1>4 DEF LogsIn
  <2>3. LogsIn(tables, Logged)'
    BY <1>8, <2>2 DEF LogsIn, NewLog
  <2>4. CoinsIn(tables, Paid)'
    BY <1>1, <1>5, <1>8 DEF CoinsIn
  <2> QED
    BY <1>6, <2>1, <2>3, <2>4 DEF Written
<1>10. Undoable'
  <2>1. CASE mysql
    BY <1>1, <2>1 DEF Undoable
  <2>2. CASE ~mysql
    <3>1. old_player_coins' = Append(old_player_coins, tables.coins[next]) /\ pc' = "log"
      BY <2>2 DEF MemoryCoin, SqlCoin, Goto
    <3>2. /\ old_player_coins \in Seq(Seq(Int)) /\ Len(old_player_coins) = next - 1
          /\ tables.coins[next] \in Seq(Int) /\ next \in Seats
      BY <1>1, <1>2, <2>2, TablesTyped DEF IInv, Undoable, TypeOK
    <3>3. Len(old_player_coins') = next' /\ DOMAIN old_player_coins' = 1..next
      BY <1>2, <1>6, <2>2, <3>1, <3>2
    <3>4. tables.coins[next] = saved.coins[next]
      BY <1>2, <1>4, <3>2 DEF CoinsIn
    <3>5. ASSUME NEW p \in Seats
          PROVE  IF p \in DOMAIN old_player_coins'
                 THEN old_player_coins'[p] = saved.coins[p]
                 ELSE tables'.coins[p] = saved.coins[p]
      <4>1. p \in Nat \ {0} /\ DOMAIN old_player_coins = 1..(next - 1)
        BY <3>2 DEF Seats
      <4>2. p \in 1..(next - 1) => old_player_coins[p] = saved.coins[p]
        BY <1>1, <2>2, <4>1 DEF IInv, Undoable
      <4>3. p \in 1..next => old_player_coins'[p] =
                               IF p = next THEN tables.coins[next] ELSE old_player_coins[p]
        BY <3>1, <3>2, <4>1
      <4>4. p \notin 1..next => tables'.coins[p] = saved.coins[p]
        BY <1>5 DEF CoinsIn
      <4> QED
        BY <1>2, <3>3, <3>4, <4>1, <4>2, <4>3, <4>4
    <3>6. \A row \in tables'.logs :
            row \in saved.logs <=> row.id \notin inserted_coin_log_ids
      BY <1>1, <1>3, <2>2 DEF IInv, Undoable
    <3> QED
      BY <1>1, <3>1, <3>3, <3>5, <3>6 DEF Undoable
  <2> QED
    BY <2>1, <2>2
<1> QED
  BY <1>7, <1>9, <1>10 DEF CallInv

LEMMA SqlLogKeepsCall ==
  ASSUME IInv, SqlLog
  PROVE  CallInv'
<1>1. /\ mysql /\ pc = "log" /\ InsertCoinLog
      /\ UNCHANGED <<request, saved, record_id, next_record_id, mysql, next>>
      /\ pc' \in {"failing", "coin"}
  BY DEF SqlLog, localVars, Goto
<1>2. TypeOK /\ TablesGrow /\ Written
  BY DEF IInv
<1>3. /\ tables'.records = tables.records /\ tables'.coins = tables.coins
      /\ tables'.logs = tables.logs \cup {NewLog(next_coin_log_id, next)}
  BY <1>1, <1>2, LogInserted
<1>4. RecordIn(tables) /\ LogsIn(tables, 1..(next - 1)) /\ CoinsIn(tables, 1..(next - 1))
  BY <1>1, <1>2 DEF Written, Paid, Logged
<1>5. LogsIn(tables', 1..next)
  BY <1>1, <1>2, <1>4, LogStep
<1>6. TablesGrow'
  <2>1. next_coin_log_id' = next_coin_log_id + 1 /\ next_coin_log_id \in Nat
    BY <1>1, <1>2 DEF InsertCoinLog, TypeOK
  <2>2. \A row \in tables.logs : row.id \in Nat
    BY <1>2, TablesTyped DEF TypeOK, Logs
  <2>3. \A row \in tables'.logs : row.id < next_coin_log_id'
    BY <1>2, <1>3, <2>1, <2>2 DEF TablesGrow, NewLog
  <2> QED
    BY <1>1, <1>2, <1>3, <2>3 DEF TablesGrow, Outside
<1>7. Written'
  <2>1. RecordIn(tables)'
    BY <1>1, <1>3, <1>4 DEF RecordIn, NewRecord
  <2>2. pc' = "coin" => Logged' = 1..next /\ Paid' = 1..(next - 1)
    BY <1>1 DEF Logged, Paid
  <2>3. pc' = "coin" => LogsIn(tables, Logged)'
    BY <1>1, <1>5, <2>2 DEF LogsIn, NewLog
  <2>4. pc' = "coin" => CoinsIn(tables, Paid)'
    BY <1>1, <1>3, <1>4, <2>2 DEF CoinsIn
  <2> QED
    BY <1>1, <2>1, <2>3, <2>4 DEF Written
<1>8. Undoable'
  BY <1>1 DEF Undoable
<1> QED
  BY <1>6, <1>7, <1>8 DEF CallInv

LEMMA MemoryLogWrites ==
  ASSUME IInv, MemoryLog
  PROVE  /\ RecordIn(tables') /\ LogsIn(tables', 1..next) /\ CoinsIn(tables', 1..next)
         /\ tables'.records = tables.records /\ tables'.coins = tables.coins
         /\ tables'.logs = tables.logs \cup {NewLog(next_coin_log_id, next)}
<1>1. ~mysql /\ pc = "log" /\ InsertCoinLog /\ UNCHANGED request
  BY DEF MemoryLog
<1>2. TypeOK /\ TablesGrow /\ Written
  BY DEF IInv
<1>3. /\ tables'.records = tables.records /\ tables'.coins = tables.coins
      /\ tables'.logs = tables.logs \cup {NewLog(next_coin_log_id, next)}
  BY <1>1, <1>2, LogInserted
<1>4. RecordIn(tables) /\ LogsIn(tables, 1..(next - 1)) /\ CoinsIn(tables, 1..next)
  BY <1>1, <1>2 DEF Written, Paid, Logged
<1>5. LogsIn(tables', 1..next)
  BY <1>1, <1>2, <1>4, LogStep
<1> QED
  BY <1>3, <1>4, <1>5 DEF RecordIn, CoinsIn

LEMMA MemoryLogKeepsCall ==
  ASSUME IInv, MemoryLog
  PROVE  CallInv'
<1>1. /\ ~mysql /\ pc = "log" /\ InsertCoinLog
      /\ UNCHANGED <<request, record_id, next_record_id, mysql, old_player_coins>>
      /\ inserted_coin_log_ids' = inserted_coin_log_ids \cup {next_coin_log_id}
      /\ saved' = IF pc' = "answer" THEN tables' ELSE saved
  BY DEF MemoryLog
<1>2. TypeOK /\ TablesGrow /\ Written /\ Undoable /\ next \in Nat \ {0}
  BY DEF IInv, TypeOK, Seats
<1>3. /\ RecordIn(tables') /\ LogsIn(tables', 1..next) /\ CoinsIn(tables', 1..next)
      /\ tables'.records = tables.records /\ tables'.coins = tables.coins
      /\ tables'.logs = tables.logs \cup {NewLog(next_coin_log_id, next)}
  BY MemoryLogWrites
<1>4. next_coin_log_id' = next_coin_log_id + 1 /\ next_coin_log_id \in Nat
  BY <1>1, <1>2 DEF InsertCoinLog, TypeOK
<1>5. \/ pc' \in {"rollback", "answer"} /\ next' = next
      \/ pc' = "coin" /\ next' = next + 1
  BY DEF MemoryLog, NextPlayer, Goto
<1>6. TablesGrow'
  <2>1. \A row \in tables.logs : row.id \in Nat
    BY <1>2, TablesTyped DEF TypeOK, Logs
  <2>2. \A row \in tables'.logs : row.id < next_coin_log_id'
    BY <1>2, <1>3, <1>4, <2>1 DEF TablesGrow, NewLog
  <2> QED
    BY <1>1, <1>2, <1>3, <1>5, <2>2 DEF TablesGrow, Outside
<1>7. CASE pc' = "answer"
  <2>1. NewRecord' = NewRecord /\ saved'.records = saved.records \cup {NewRecord}
    BY <1>1, <1>3, <1>7 DEF NewRecord, RecordIn
  <2>2. \A other \in saved'.records : other.id <= record_id'
    <3>1. \A other \in saved.records : other.id \in Nat /\ other.id < record_id
      BY <1>2, <1>3, TablesTyped DEF RecordIn, TypeOK, Records
    <3>2. NewRecord.id = record_id /\ record_id \in Nat
      BY <1>2 DEF NewRecord, TypeOK
    <3> QED
      BY <1>1, <2>1, <3>1, <3>2
  <2>3. Written' /\ Undoable'
    BY <1>7, <2>1, <2>2 DEF Written, Undoable
  <2> QED
    BY <1>6, <2>3 DEF CallInv
<1>8. CASE pc' # "answer"
  <2>1. saved' = saved
    BY <1>1, <1>8
  <2>2. RecordIn(tables)'
    BY <1>1, <1>3, <2>1 DEF RecordIn, NewRecord
  <2>3. pc' = "coin" => Logged' = 1..next /\ Paid' = 1..next
    BY <1>1, <1>2, <1>5 DEF Logged, Paid
  <2>4. pc' = "coin" => LogsIn(tables, Logged)'
    BY <1>1, <1>3, <2>1, <2>3 DEF LogsIn, NewLog
  <2>5. pc' = "coin" => CoinsIn(tables, Paid)'
    BY <1>1, <1>3, <2>1, <2>3 DEF CoinsIn
  <2>6. Written'
    BY <1>5, <1>8, <2>2, <2>4, <2>5 DEF Written
  <2>7. \A row \in tables'.logs : row \in saved'.logs <=> row.id \notin inserted_coin_log_ids'
    <3>1. \A row \in tables.logs : row.id < next_coin_log_id /\ row.id \in Nat
      BY <1>2, TablesTyped DEF TablesGrow, TypeOK, Logs
    <3>2. NewLog(next_coin_log_id, next) \notin saved.logs
      BY <1>2, <1>4 DEF TablesGrow, NewLog
    <3>3. \A row \in tables.logs : row \in saved.logs <=> row.id \notin inserted_coin_log_ids
      BY <1>1, <1>2 DEF Undoable
    <3>4. \A row \in tables.logs : row.id # next_coin_log_id
      BY <1>4, <3>1
    <3>5. NewLog(next_coin_log_id, next).id = next_coin_log_id
      BY DEF NewLog
    <3> QED
      BY <1>1, <1>3, <2>1, <3>2, <3>3, <3>4, <3>5
  <2>8. Undoable'
    BY <1>1, <1>2, <1>3, <1>5, <2>1, <2>7 DEF Undoable
  <2> QED
    BY <1>6, <2>6, <2>8 DEF CallInv
<1> QED
  BY <1>7, <1>8

(* The roll-back leaves what was there before the call.                    *)
LEMMA RollbackRestores ==
  ASSUME IInv, Rollback
  PROVE  tables' = saved
<1>1. pc = "rollback" /\ ~mysql
  BY DEF Rollback, IInv, StepsFit
<1>2. TypeOK /\ TablesGrow /\ RecordIn(tables)
  BY <1>1 DEF IInv, Written
<1>3. saved = [records |-> saved.records, logs |-> saved.logs, coins |-> saved.coins]
      /\ saved.coins \in [Seats -> Seq(Int)] /\ saved.records \subseteq Records
  BY <1>2, TablesTyped DEF TypeOK
<1>4. {row \in tables.records : row.id # record_id} = saved.records
  <2>1. NewRecord.id = record_id /\ record_id \in Nat
    BY <1>2 DEF NewRecord, TypeOK
  <2>2. \A old \in saved.records : old.id \in Nat
    BY <1>3 DEF Records
  <2>3. \A old \in saved.records : old.id # record_id
    BY <1>2, <2>1, <2>2 DEF RecordIn
  <2> QED
    BY <1>2, <2>1, <2>3 DEF RecordIn
<1>5. {row \in tables.logs : row.id \notin inserted_coin_log_ids} = saved.logs
  BY <1>1, <1>2 DEF IInv, Undoable, TablesGrow
<1>6. [p \in Seats |-> IF p \in DOMAIN old_player_coins
                       THEN old_player_coins[p] ELSE tables.coins[p]] = saved.coins
  BY <1>1, <1>3 DEF IInv, Undoable
<1> QED
  BY <1>3, <1>4, <1>5, <1>6 DEF Rollback

LEMMA CallPreserved ==
  ASSUME IInv, [Next]_vars
  PROVE  CallInv'
<1> USE DEF IInv
<1>1. CASE UNCHANGED vars
  <2>1. TablesGrow' /\ Undoable'
    BY <1>1 DEF vars, tableVars, localVars, TablesGrow, Undoable
  <2>2. Written'
    BY <1>1 DEF vars, tableVars, localVars, Written, RecordIn, NewRecord, LogsIn, NewLog,
                CoinsIn, Logged, Paid
  <2> QED
    BY <2>1, <2>2 DEF CallInv
<1>2. ASSUME NEW point \in FailPoints, SetTxFailpointForTesting(point)
      PROVE  CallInv'
  <2>1. pc = "idle" /\ pc' = "idle" /\ UNCHANGED tableVars
    BY <1>2 DEF SetTxFailpointForTesting
  <2> QED
    BY <2>1, QuietStep DEF Outside
<1>3. ASSUME NEW g \in Games, NEW winner \in Seats, NEW base_coin \in Stakes,
             Persist(g, winner, base_coin)
      PROVE  CallInv'
  <2>1. pc = "idle" /\ pc' \in {"acquire", "record"} /\ UNCHANGED tableVars
    BY <1>3 DEF Persist
  <2> QED
    BY <2>1, QuietStep DEF Outside
<1>4. CASE MemoryRecord \/ SqlRecord
  BY <1>4, RecordKeepsCall
<1>5. CASE MemoryCoin \/ SqlCoin
  BY <1>5, CoinKeepsCall
<1>6. CASE MemoryLog
  BY <1>6, MemoryLogKeepsCall
<1>7. CASE SqlLog
  BY <1>7, SqlLogKeepsCall
<1>8. CASE Rollback
  <2>1. tables' = saved /\ pc' = "return" /\ UNCHANGED <<saved, next_record_id, next_coin_log_id>>
    BY <1>8, RollbackRestores DEF Rollback, Goto
  <2> QED
    BY <2>1 DEF CallInv, TablesGrow, Written, Undoable
<1>9. CASE SqlFails
  <2>1. tables' = saved /\ pc' = "release" /\ UNCHANGED <<saved, next_record_id, next_coin_log_id>>
    BY <1>9 DEF SqlFails, Goto
  <2> QED
    BY <2>1 DEF CallInv, TablesGrow, Written, Undoable
<1>10. CASE Commit
  <2>1. /\ pc = "commit" /\ pc' = "answer" /\ saved' = tables
        /\ UNCHANGED <<tables, next_record_id, next_coin_log_id, record_id, request>>
    BY <1>10 DEF Commit, Goto, localVars
  <2>2. TablesGrow' /\ Undoable'
    BY <2>1 DEF TablesGrow, Undoable
  <2>3. NewRecord' = NewRecord /\ saved'.records = saved.records \cup {NewRecord}
    BY <2>1 DEF NewRecord, RecordIn, Written
  <2>4. \A other \in saved'.records : other.id <= record_id'
    <3>1. \A other \in saved.records : other.id \in Nat /\ other.id < record_id
      BY <2>1, TablesTyped DEF Written, RecordIn, TypeOK, Records
    <3>2. NewRecord.id = record_id /\ record_id \in Nat
      BY DEF NewRecord, TypeOK
    <3> QED
      BY <2>1, <2>3, <3>1, <3>2
  <2> QED
    BY <2>1, <2>2, <2>3, <2>4 DEF CallInv, Written
<1>11. CASE MemoryAnswer \/ SqlAnswer \/ Acquire \/ StartTransaction \/ Release \/ Return
  <2>1. /\ pc \in {"answer", "acquire", "start", "release", "return"}
        /\ pc' \in {"return", "release", "start", "record", "idle"}
        /\ UNCHANGED tableVars
    BY <1>11 DEF MemoryAnswer, SqlAnswer, Acquire, StartTransaction, Release, Return, Goto
  <2> QED
    BY <2>1, QuietStep DEF Outside
<1>12. CASE Restart
  <2>1. /\ tables' = saved' /\ pc' = "idle"
        /\ \/ UNCHANGED <<saved, next_record_id, next_coin_log_id>>
           \/ saved'.records = {} /\ saved'.logs = {}
    <3>1. CASE mysql
      BY <1>12, <3>1 DEF Restart
    <3>2. CASE ~mysql
      <4>1. NoTables.records = {} /\ NoTables.logs = {}
        BY DEF NoTables
      <4> QED
        BY <1>12, <3>2, <4>1 DEF Restart
    <3> QED
      BY <3>1, <3>2
  <2> QED
    BY <2>1 DEF CallInv, TablesGrow, Written, Undoable
<1> QED
  BY <1>1, <1>2, <1>3, <1>4, <1>5, <1>6, <1>7, <1>8, <1>9, <1>10, <1>11, <1>12
     DEF Next, MemoryStep, SqlStep

(* The inductive invariant: a call that has begun has written a part of    *)
(* the outcome of its game, which is known step by step.                   *)
THEOREM Invariance == Spec => []IInv
<1>1. Init => IInv
  <2> SUFFICES ASSUME Init PROVE IInv
    OBVIOUS
  <2> USE DEF Init
  <2>1. NoTables \in Tables
    BY DEF NoTables, Tables, NoRow
  <2>2. TypeOK
    BY <2>1, SeatsAssumption, CoinsAssumption, PoolAssumption DEF TypeOK, FailPoints, Seats, Failed
  <2>3. LeaseHeld /\ StepsFit /\ Written /\ Undoable
    BY DEF LeaseHeld, StepsFit, Written, Undoable
  <2>4. TablesGrow
    BY DEF TablesGrow, NoTables
  <2> QED
    BY <2>2, <2>3, <2>4 DEF IInv
<1>2. IInv /\ [Next]_vars => IInv'
  <2> SUFFICES ASSUME IInv, [Next]_vars PROVE IInv'
    OBVIOUS
  <2>1. TypeOK /\ LeaseHeld /\ StepsFit
    BY DEF IInv
  <2> QED
    BY <2>1, TypePreserved, LeasePreserved, StepsPreserved, CallPreserved DEF IInv, CallInv
<1> QED
  BY <1>1, <1>2, PTL DEF Spec

(* The types hold, among them that a call never takes a lease too many nor *)
(* gives one back twice, for any number of players, games, settlements and *)
(* restarts.                                                               *)
THEOREM TypeCorrectness == Spec => []TypeOK
<1>1. IInv => TypeOK
  BY DEF IInv
<1> QED
  BY <1>1, Invariance, PTL
-----------------------------------------------------------------------------
(* The promise of CoinLedger.                                              *)

(* When the last row is there, all of the outcome is.                      *)
LEMMA Complete ==
  ASSUME IInv, pc # "idle", NEW t \in Tables,
         RecordIn(t), LogsIn(t, Seats), CoinsIn(t, Seats)
  PROVE  /\ saved.records \subseteq t.records
         /\ \E new \in t.records :
              /\ t.records \ saved.records = {new}
              /\ new.game = request.game /\ new.winner = request.winner
              /\ \A old \in saved.records : old.id < new.id
         /\ saved.logs \subseteq t.logs
         /\ \A row \in t.logs \ saved.logs : \E p \in Seats : Ledger!Entry(row, p)
         /\ \A p \in Seats :
              \E row \in t.logs \ saved.logs :
                /\ Ledger!Entry(row, p)
                /\ \A old \in saved.logs : old.id < row.id
                /\ \A other \in t.logs \ saved.logs : other.player = p => other = row
         /\ t.coins = [p \in Seats |-> Ledger!Coins(request.after[p])]
<1>1. t.coins \in [Seats -> Seq(Int)]
  BY TablesTyped
<1>2. /\ NewRecord.id = record_id /\ record_id \in Nat
      /\ NewRecord.game = request.game /\ NewRecord.winner = request.winner
  BY DEF NewRecord, IInv, TypeOK
<1>3. t.records \ saved.records = {NewRecord} /\ NewRecord \in t.records
  <2>1. NewRecord \notin saved.records
    BY <1>2 DEF RecordIn
  <2> QED
    BY <2>1 DEF RecordIn
<1>4. \A id, p : /\ NewLog(id, p).player = p /\ NewLog(id, p).game = request.game
                 /\ NewLog(id, p).before = request.before[p]
                 /\ NewLog(id, p).after = request.after[p]
  BY DEF NewLog
<1>5. \A row \in t.logs \ saved.logs : row.player \in Seats /\ Ledger!Entry(row, row.player)
  BY <1>4 DEF LogsIn, Ledger!Entry
<1>6. t.coins = [p \in Seats |-> Ledger!Coins(request.after[p])]
  BY <1>1 DEF CoinsIn, Row, Ledger!Coins
<1>7. saved.records \subseteq t.records /\ saved.logs \subseteq t.logs
  BY DEF RecordIn, LogsIn
<1>8. \E new \in t.records :
        /\ t.records \ saved.records = {new}
        /\ new.game = request.game /\ new.winner = request.winner
        /\ \A old \in saved.records : old.id < new.id
  BY <1>2, <1>3 DEF RecordIn
<1>9. ASSUME NEW p \in Seats
      PROVE  \E row \in t.logs \ saved.logs :
               /\ Ledger!Entry(row, p)
               /\ \A old \in saved.logs : old.id < row.id
               /\ \A other \in t.logs \ saved.logs : other.player = p => other = row
  <2>1. PICK row \in t.logs \ saved.logs : row.player = p
    BY DEF LogsIn
  <2>2. Ledger!Entry(row, p)
    BY <1>5, <2>1
  <2>3. \A old \in saved.logs : old.id < row.id
    BY DEF LogsIn
  <2>4. \A other \in t.logs \ saved.logs : other.player = p => other = row
    BY <2>1 DEF LogsIn
  <2> QED
    BY <2>2, <2>3, <2>4
<1> QED
  BY <1>5, <1>6, <1>7, <1>8, <1>9

LEMMA LastRowKeeps ==
  ASSUME IInv, MemoryLog \/ Commit, pc' = "answer"
  PROVE  Ledger!Keep
<1>1. /\ pc \in {"log", "commit"} /\ saved' = tables'
      /\ UNCHANGED <<mysql, request, reply, faults>>
  BY DEF MemoryLog, Commit, localVars, faultVars
<1>2. TypeOK /\ TypeOK' /\ next \in Seats
  <2>1. [Next]_vars
    BY DEF Next, MemoryStep, SqlStep
  <2> QED
    BY <2>1, TypePreserved DEF IInv, TypeOK
<1>3. tables' \in Tables
  BY <1>2 DEF TypeOK
<1>4. next = NumSeats /\ 1..next = Seats
  <2>1. CASE MemoryLog
    BY <1>2, <2>1, SeatsAssumption DEF MemoryLog, NextPlayer, Goto, Seats
  <2>2. CASE Commit
    BY <2>2 DEF Commit, IInv, StepsFit, Seats
  <2> QED
    BY <2>1, <2>2
<1>5. RecordIn(tables') /\ LogsIn(tables', Seats) /\ CoinsIn(tables', Seats)
  <2>1. CASE MemoryLog
    BY <1>4, <2>1, MemoryLogWrites
  <2>2. CASE Commit
    BY <1>4, <2>2 DEF Commit, IInv, Written, Logged, Paid
  <2> QED
    BY <2>1, <2>2
<1>6. Phase = "asked" /\ Phase' = "kept"
  BY <1>1 DEF Phase
<1>7. /\ (IF pc \in {"idle", "return"} THEN tables ELSE saved) = saved
      /\ (IF pc \in {"idle", "return"} THEN tables ELSE saved)' = tables'
  BY <1>1
<1> QED
  BY <1>1, <1>3, <1>5, <1>6, <1>7, Complete DEF Ledger!Keep

(* A step of the storage is a step of the ledger or none.                  *)
LEMMA StepSimulation ==
  ASSUME IInv, IInv', [Next]_vars
  PROVE  [Ledger!Next]_(Ledger!ledgerVars)
<1> DEFINE ledger == IF pc \in {"idle", "return"} THEN tables ELSE saved
<1> DEFINE Stutter == UNCHANGED <<mysql, ledger, Phase, request, reply, faults>>
<1>1. Stutter => UNCHANGED Ledger!ledgerVars
  BY DEF Ledger!ledgerVars
<1>2. /\ pc \in Outside => tables = saved
      /\ pc' \in Outside => tables' = saved'
  BY DEF IInv, TablesGrow
<1>3. CASE UNCHANGED vars
  BY <1>1, <1>3 DEF vars, tableVars, localVars, faultVars, Phase
<1>4. CASE \E point \in FailPoints : SetTxFailpointForTesting(point)
  <2>1. Stutter
    BY <1>4 DEF SetTxFailpointForTesting, tableVars, localVars, faultVars, Phase
  <2> QED
    BY <1>1, <2>1
<1>5. CASE \E g \in Games, winner \in Seats, base_coin \in Stakes : Persist(g, winner, base_coin)
  <2>1. /\ pc = "idle" /\ pc' \in {"acquire", "record"}
        /\ UNCHANGED <<mysql, tables, saved, faults>>
    BY <1>5 DEF Persist, tableVars, faultVars
  <2>2. Ledger!Ask
    BY <1>2, <2>1 DEF Ledger!Ask, Phase, Outside
  <2> QED
    BY <2>2 DEF Ledger!Next
<1>6. CASE MemoryRecord \/ MemoryCoin \/ SqlRecord \/ SqlLog \/ SqlCoin \/ StartTransaction
  <2>1. /\ pc \in {"start", "record", "log", "coin"}
        /\ pc' \in {"record", "log", "coin", "rollback", "failing", "commit"}
        /\ UNCHANGED <<mysql, saved, request, reply, faults>>
    BY <1>6 DEF MemoryRecord, MemoryCoin, SqlRecord, SqlLog, SqlCoin, StartTransaction, Goto,
                NextPlayer, tableVars, localVars, faultVars
  <2>2. Stutter
    BY <2>1 DEF Phase
  <2> QED
    BY <1>1, <2>2
<1>7. CASE (MemoryLog \/ Commit) /\ pc' = "answer"
  BY <1>7, LastRowKeeps DEF Ledger!Next
<1>8. CASE MemoryLog /\ pc' # "answer"
  <2>1. /\ pc = "log" /\ pc' \in {"rollback", "coin"}
        /\ UNCHANGED <<mysql, saved, request, reply, faults>>
    BY <1>8 DEF MemoryLog, Goto, NextPlayer, faultVars
  <2>2. Stutter
    BY <2>1 DEF Phase
  <2> QED
    BY <1>1, <2>2
<1>9. CASE MemoryAnswer \/ SqlAnswer
  <2>1. /\ pc = "answer" /\ pc' \in {"return", "release"} /\ reply' = Done(record_id)
        /\ UNCHANGED <<mysql, tables, saved, request, faults>>
    BY <1>9 DEF MemoryAnswer, SqlAnswer, Goto, tableVars, localVars, faultVars
  <2>2. reply'.ok /\ reply'.id = record_id
    BY <2>1 DEF Done
  <2>3. /\ NewRecord \in saved.records /\ NewRecord.id = record_id
        /\ NewRecord.game = request.game
        /\ \A other \in saved.records : other.id <= record_id
    BY <2>1 DEF IInv, Written, NewRecord
  <2>4. Ledger!Answer
    BY <1>2, <2>1, <2>2, <2>3 DEF Ledger!Answer, Phase, Outside
  <2> QED
    BY <2>4 DEF Ledger!Next
<1>10. CASE Rollback \/ SqlFails
  <2>1. /\ pc \notin {"idle", "acquire", "return", "release"}
        /\ pc' \in {"return", "release"} /\ reply' = Failed /\ faults' = faults + 1
        /\ pc = "answer" => mysql
        /\ UNCHANGED <<mysql, saved, request>>
    BY <1>10 DEF Rollback, SqlFails, Goto, localVars
  <2>2. ~reply'.ok
    BY <2>1 DEF Failed
  <2>3. Ledger!Fail
    BY <1>2, <2>1, <2>2 DEF Ledger!Fail, Phase, Outside
  <2> QED
    BY <2>3 DEF Ledger!Next
<1>11. CASE Acquire
  <2>1. leases < PoolSize
    BY <1>11, PoolAssumption DEF Acquire, IInv, LeaseHeld
  <2>2. /\ pc = "acquire" /\ pc' = "start"
        /\ UNCHANGED <<mysql, tables, saved, request, reply, faults>>
    BY <1>11, <2>1 DEF Acquire, Goto, tableVars, localVars, faultVars
  <2>3. Stutter
    BY <2>2 DEF Phase
  <2> QED
    BY <1>1, <2>3
<1>12. CASE Release
  <2>1. /\ pc = "release" /\ pc' = "return"
        /\ UNCHANGED <<mysql, tables, saved, request, reply, faults>>
    BY <1>12 DEF Release, Goto, tableVars, localVars, faultVars
  <2>2. Stutter
    BY <1>2, <2>1 DEF Phase, Outside
  <2> QED
    BY <1>1, <2>2
<1>13. CASE Return
  <2>1. /\ pc = "return" /\ pc' = "idle" /\ UNCHANGED <<mysql, tables, faults>>
    BY <1>13 DEF Return, tableVars, faultVars
  <2>2. Ledger!Heard
    BY <2>1 DEF Ledger!Heard, Phase
  <2> QED
    BY <2>2 DEF Ledger!Next
<1>14. CASE Restart
  <2>1. /\ pc' = "idle" /\ UNCHANGED <<mysql, faults>>
        /\ tables' = IF mysql THEN saved ELSE NoTables
    BY <1>14 DEF Restart, faultVars
  <2>2. NoTables = Ledger!EmptyLedger
    BY DEF NoTables, NoRow, Ledger!EmptyLedger, Ledger!NoCoins
  <2>3. Ledger!Restart
    BY <1>2, <2>1, <2>2 DEF Ledger!Restart, Phase, Outside
  <2> QED
    BY <2>3 DEF Ledger!Next
<1> QED
  BY <1>3, <1>4, <1>5, <1>6, <1>7, <1>8, <1>9, <1>10, <1>11, <1>12, <1>13, <1>14
     DEF Next, MemoryStep, SqlStep, Commit, Goto

(* The storage implements the ledger: whatever statement fails, whatever   *)
(* answer is lost and whenever the server starts anew, a call keeps the    *)
(* outcome of its game as a whole or not at all, answers with the id of    *)
(* its own record, and never fails without a fault.                        *)
THEOREM Refinement == Spec => ImplementsLedger
<1>1. Init => Ledger!Init
  BY DEF Init, Ledger!Init, Ledger!EmptyLedger, Ledger!NoCoins, NoTables, NoRow, Phase
<1>2. IInv /\ IInv' /\ [Next]_vars => [Ledger!Next]_(Ledger!ledgerVars)
  BY StepSimulation
<1> QED
  BY <1>1, <1>2, Invariance, PTL DEF Spec, ImplementsLedger, Ledger!Spec
-----------------------------------------------------------------------------
(* How often a game is recorded.                                           *)

RecordsOf(g) == {record \in saved.records : record.game = g}

(* The call at hand has kept the outcome of this game, or an earlier one   *)
(* has and said so.                                                        *)
Kept(g) ==
  \/ games[g] = "over"
  \/ /\ request.game = g
     /\ pc = "answer" \/ (pc \in {"release", "return"} /\ reply.ok)

OnceInv ==
  /\ pc # "idle" => games[request.game] = "asked"
  /\ \A g \in Games :
       /\ IsFiniteSet(RecordsOf(g))
       /\ Cardinality(RecordsOf(g)) <= lost + (IF Kept(g) THEN 1 ELSE 0)

(* Nothing but the end of a transaction adds to what is kept.              *)
LEMMA KeptGrows ==
  ASSUME IInv, OnceInv, (MemoryLog /\ pc' = "answer") \/ Commit
  PROVE  OnceInv'
<1>1. /\ pc \in {"log", "commit"} /\ pc' = "answer" /\ saved' = tables'
      /\ UNCHANGED <<request, games, lost, reply>>
      /\ tables'.records = saved.records \cup {NewRecord}
  <2>1. CASE MemoryLog /\ pc' = "answer"
    BY <2>1, MemoryLogWrites DEF MemoryLog, RecordIn, faultVars, callerVars
  <2>2. CASE Commit
    BY <2>2 DEF Commit, Goto, IInv, Written, RecordIn, localVars, faultVars, callerVars
  <2> QED
    BY <2>1, <2>2
<1>2. NewRecord.game = request.game /\ request.game \in Games /\ lost \in Nat
  BY <1>1 DEF NewRecord, IInv, TypeOK, Requests
<1>3. games[request.game] = "asked"
  BY <1>1 DEF OnceInv
<1>4. ASSUME NEW g \in Games
      PROVE  /\ IsFiniteSet(RecordsOf(g)')
             /\ Cardinality(RecordsOf(g)') <= lost' + (IF Kept(g)' THEN 1 ELSE 0)
  <2>1. IsFiniteSet(RecordsOf(g)) /\ Cardinality(RecordsOf(g)) \in Nat
    BY FS_CardinalityType DEF OnceInv
  <2>2. CASE g = request.game
    <3>1. RecordsOf(g)' = RecordsOf(g) \cup {NewRecord}
      BY <1>1, <1>2, <2>2 DEF RecordsOf
    <3>2. /\ IsFiniteSet(RecordsOf(g)')
          /\ Cardinality(RecordsOf(g)') <= Cardinality(RecordsOf(g)) + 1
      <4> DEFINE S == RecordsOf(g)
      <4> HIDE DEF S
      <4>1. /\ IsFiniteSet(S \cup {NewRecord})
            /\ Cardinality(S \cup {NewRecord}) =
                 IF NewRecord \in S THEN Cardinality(S) ELSE Cardinality(S) + 1
        BY <2>1, FS_AddElement DEF S
      <4>2. Cardinality(S) \in Nat
        BY <2>1 DEF S
      <4>3. Cardinality(S \cup {NewRecord}) <= Cardinality(S) + 1
        BY <4>1, <4>2
      <4> QED
        BY <3>1, <4>1, <4>3 DEF S
    <3>3. Cardinality(RecordsOf(g)') \in Nat
      BY <3>2, FS_CardinalityType
    <3>4. ~Kept(g) /\ Kept(g)'
      BY <1>1, <1>3, <2>2 DEF Kept
    <3>5. Cardinality(RecordsOf(g)) <= lost
      BY <1>2, <2>1, <3>4 DEF OnceInv
    <3> QED
      BY <1>1, <1>2, <2>1, <3>2, <3>3, <3>4, <3>5
  <2>3. CASE g # request.game
    <3>1. RecordsOf(g)' = RecordsOf(g)
      BY <1>1, <1>2, <2>3 DEF RecordsOf
    <3>2. Kept(g)' <=> Kept(g)
      BY <1>1, <2>3 DEF Kept
    <3> QED
      BY <1>1, <3>1, <3>2 DEF OnceInv
  <2> QED
    BY <2>2, <2>3
<1> QED
  BY <1>1, <1>3, <1>4 DEF OnceInv

(* A step that keeps nothing, and does not forget that something was kept. *)
LEMMA NothingKept ==
  ASSUME TypeOK, OnceInv, UNCHANGED saved, lost' \in {lost, lost + 1},
         \A g \in Games : Kept(g) /\ ~Kept(g)' => lost' = lost + 1,
         pc' # "idle" => games'[request'.game] = "asked"
  PROVE  OnceInv'
<1>1. ASSUME NEW g \in Games
      PROVE  /\ IsFiniteSet(RecordsOf(g)')
             /\ Cardinality(RecordsOf(g)') <= lost' + (IF Kept(g)' THEN 1 ELSE 0)
  <2>1. RecordsOf(g)' = RecordsOf(g)
    BY DEF RecordsOf
  <2>2. /\ IsFiniteSet(RecordsOf(g)) /\ Cardinality(RecordsOf(g)) \in Nat
        /\ Cardinality(RecordsOf(g)) <= lost + (IF Kept(g) THEN 1 ELSE 0)
    BY FS_CardinalityType DEF OnceInv
  <2>3. lost \in Nat
    BY DEF TypeOK
  <2> QED
    BY <2>1, <2>2, <2>3
<1> QED
  BY <1>1 DEF OnceInv

LEMMA OncePreserved ==
  ASSUME IInv, OnceInv, [Next]_vars
  PROVE  OnceInv'
<1>1. TypeOK /\ StepsFit
  BY DEF IInv
<1>2. pc # "idle" => games[request.game] = "asked"
  BY DEF OnceInv
<1>3. CASE UNCHANGED vars \/ (\E point \in FailPoints : SetTxFailpointForTesting(point))
  <2>1. UNCHANGED <<saved, lost, pc, games, request, reply>>
    BY <1>3 DEF vars, tableVars, localVars, faultVars, callerVars, SetTxFailpointForTesting
  <2> QED
    BY <1>1, <1>2, <2>1, NothingKept DEF Kept
<1>4. ASSUME NEW g \in Games, NEW winner \in Seats, NEW base_coin \in Stakes,
             Persist(g, winner, base_coin)
      PROVE  OnceInv'
  <2>1. /\ pc = "idle" /\ pc' \in {"acquire", "record"} /\ games[g] # "over"
        /\ games' = [games EXCEPT ![g] = "asked"] /\ request'.game = g
        /\ UNCHANGED <<saved, lost>>
    BY <1>4 DEF Persist, tableVars, faultVars
  <2>2. games'[g] = "asked" /\ \A h \in Games : games[h] = "over" => games'[h] = "over"
    BY <1>1, <2>1 DEF TypeOK
  <2>3. \A h \in Games : Kept(h) => Kept(h)'
    BY <2>1, <2>2 DEF Kept
  <2> QED
    BY <1>1, <2>1, <2>2, <2>3, NothingKept
<1>5. CASE \/ MemoryRecord \/ MemoryCoin \/ (MemoryLog /\ pc' # "answer") \/ SqlRecord \/ SqlLog
           \/ SqlCoin \/ StartTransaction \/ Acquire
  <2>1. /\ pc \in {"acquire", "start", "record", "log", "coin"}
        /\ UNCHANGED <<saved, lost, games, request>>
    BY <1>5 DEF MemoryRecord, MemoryCoin, MemoryLog, SqlRecord, SqlLog, SqlCoin,
                StartTransaction, Acquire, tableVars, localVars, faultVars, callerVars
  <2> QED
    BY <1>1, <1>2, <2>1, NothingKept DEF Kept
<1>6. CASE (MemoryLog /\ pc' = "answer") \/ Commit
  BY <1>6, KeptGrows
<1>7. CASE Rollback \/ SqlFails
  <2>1. /\ pc \notin {"idle", "release", "return"} /\ pc' \in {"return", "release"}
        /\ lost' = IF pc = "answer" THEN lost + 1 ELSE lost
        /\ UNCHANGED <<saved, games, request>>
    BY <1>7 DEF Rollback, SqlFails, Goto, localVars, callerVars
  <2> QED
    BY <1>1, <1>2, <2>1, NothingKept DEF Kept
<1>8. CASE MemoryAnswer \/ SqlAnswer \/ Release
  <2>1. /\ \/ pc = "answer" /\ reply'.ok
           \/ pc = "release" /\ reply' = reply
        /\ pc' \in {"return", "release"} /\ UNCHANGED <<saved, lost, games, request>>
    BY <1>8 DEF MemoryAnswer, SqlAnswer, Release, Goto, Done, tableVars, localVars, faultVars,
                callerVars
  <2> QED
    BY <1>1, <1>2, <2>1, NothingKept DEF Kept
<1>9. CASE Return
  <2>1. /\ pc = "return" /\ pc' = "idle" /\ UNCHANGED <<saved, lost>>
        /\ games' = IF reply.ok THEN [games EXCEPT ![request.game] = "over"] ELSE games
    BY <1>9 DEF Return, tableVars, faultVars
  <2>2. request.game \in Games
    BY <1>1, <2>1 DEF TypeOK, Requests
  <2>3. \A g \in Games : Kept(g) => games'[g] = "over"
    BY <1>1, <2>1, <2>2 DEF Kept, TypeOK
  <2> QED
    BY <1>1, <2>1, <2>3, NothingKept DEF Kept
<1>10. CASE Restart
  <2>1. /\ pc' = "idle" /\ lost' = lost
        /\ games' = [g \in Games |-> IF games[g] = "asked" THEN "over" ELSE games[g]]
    BY <1>10 DEF Restart, faultVars
  <2>2. CASE mysql
    <3>1. saved' = saved
      BY <1>10, <2>2 DEF Restart
    <3>2. \A g \in Games : Kept(g) => Kept(g)'
      BY <1>2, <2>1 DEF Kept
    <3> QED
      BY <1>1, <2>1, <3>1, <3>2, NothingKept
  <2>3. CASE ~mysql
    <3>1. saved'.records = {}
      BY <1>10, <2>3 DEF Restart, NoTables
    <3>2. ASSUME NEW g \in Games
          PROVE  IsFiniteSet(RecordsOf(g)') /\ Cardinality(RecordsOf(g)') = 0
      <4>1. RecordsOf(g)' = {}
        BY <3>1 DEF RecordsOf
      <4> QED
        BY <4>1, FS_EmptySet
    <3>3. lost' \in Nat
      BY <1>1, <2>1 DEF TypeOK
    <3> QED
      BY <2>1, <3>2, <3>3 DEF OnceInv
  <2> QED
    BY <2>2, <2>3
<1> QED
  BY <1>3, <1>4, <1>5, <1>6, <1>7, <1>8, <1>9, <1>10 DEF Next, MemoryStep, SqlStep

(* However often a settlement fails and is tried again, and whenever the   *)
(* server starts anew, a game is recorded once, and once more only for     *)
(* every answer that was lost after its transaction had committed.         *)
THEOREM RecordsAreCounted == Spec => []RecordedOnce
<1>1. Init => OnceInv
  <2> SUFFICES ASSUME Init, NEW g \in Games
               PROVE  IsFiniteSet(RecordsOf(g)) /\ Cardinality(RecordsOf(g)) = 0
    BY DEF OnceInv, Init
  <2>1. RecordsOf(g) = {}
    BY DEF RecordsOf, Init, NoTables
  <2> QED
    BY <2>1, FS_EmptySet
<1>2. IInv /\ OnceInv /\ [Next]_vars => OnceInv'
  BY OncePreserved
<1>3. IInv /\ OnceInv => RecordedOnce
  <2> SUFFICES ASSUME IInv, OnceInv, NEW g \in Games
               PROVE  Cardinality(RecordsOf(g)) <= 1 + lost
    BY DEF RecordedOnce, RecordsOf
  <2>1. /\ Cardinality(RecordsOf(g)) \in Nat
        /\ Cardinality(RecordsOf(g)) <= lost + (IF Kept(g) THEN 1 ELSE 0)
    BY FS_CardinalityType DEF OnceInv
  <2> QED
    BY <2>1 DEF IInv, TypeOK
<1> QED
  BY <1>1, <1>2, <1>3, Invariance, PTL DEF Spec
=============================================================================
