----------------------------- MODULE CoinLedger -----------------------------
(***************************************************************************)
(* What StorageService promises to the settlement that asks it to keep the *)
(* outcome of a game: the record of the game, a line of the log for every  *)
(* player and their coins are kept together or not at all, the id it       *)
(* answers with is that of the new record, and "failed" means that nothing *)
(* was kept - unless the ledger is durable: then the answer may get lost   *)
(* after all of it was kept.  Nothing fails without a fault.               *)
(***************************************************************************)
EXTENDS Integers

CONSTANT Players

VARIABLES
  durable,   \* the ledger outlives the server
  ledger,    \* records, logs and the coins of every player
  phase,     \* "idle", "asked", "kept" or "answered"
  order,     \* what is to be kept
  reply,     \* ok, and the id of the record
  faults     \* what has gone wrong so far

ledgerVars == <<durable, ledger, phase, order, reply, faults>>

(* A player may have coins in the ledger or not yet.                       *)
NoCoins == <<>>
Coins(n) == <<n>>

EmptyLedger == [records |-> {}, logs |-> {}, coins |-> [p \in Players |-> NoCoins]]

Init ==
  /\ durable \in BOOLEAN
  /\ ledger = EmptyLedger
  /\ phase = "idle"
  /\ faults = 0

Ask ==
  /\ phase = "idle" /\ phase' = "asked"
  /\ UNCHANGED <<durable, ledger, faults>>

Entry(row, p) ==
  /\ row.player = p /\ row.game = order.game
  /\ row.before = order.before[p] /\ row.after = order.after[p]

(* One record and one line for every player are new, and they say what the *)
(* coins are from now on.                                                  *)
Keep ==
  /\ phase = "asked" /\ phase' = "kept"
  /\ ledger.records \subseteq ledger'.records
  /\ \E new \in ledger'.records :
       /\ ledger'.records \ ledger.records = {new}
       /\ new.game = order.game /\ new.winner = order.winner
       /\ \A old \in ledger.records : old.id < new.id
  /\ ledger.logs \subseteq ledger'.logs
  /\ \A row \in ledger'.logs \ ledger.logs : \E p \in Players : Entry(row, p)
  /\ \A p \in Players :
       \E row \in ledger'.logs \ ledger.logs :
         /\ Entry(row, p)
         /\ \A old \in ledger.logs : old.id < row.id
         /\ \A other \in ledger'.logs \ ledger.logs : other.player = p => other = row
  /\ ledger'.coins = [p \in Players |-> Coins(order.after[p])]
  /\ UNCHANGED <<durable, order, reply, faults>>

Answer ==
  /\ phase = "kept" /\ phase' = "answered"
  /\ reply'.ok
  /\ \E record \in ledger.records :
       /\ record.id = reply'.id /\ record.game = order.game
       /\ \A other \in ledger.records : other.id <= record.id
  /\ UNCHANGED <<durable, ledger, order, faults>>

Fail ==
  /\ phase = "asked" \/ (phase = "kept" /\ durable)
  /\ phase' = "answered"
  /\ ~reply'.ok
  /\ faults' = faults + 1
  /\ UNCHANGED <<durable, ledger, order>>

Heard ==
  /\ phase = "answered" /\ phase' = "idle"
  /\ UNCHANGED <<durable, ledger, faults>>

(* The server is started anew; only a durable ledger is still there.       *)
Restart ==
  /\ phase' = "idle"
  /\ ledger' = IF durable THEN ledger ELSE EmptyLedger
  /\ UNCHANGED <<durable, faults>>

Next == Ask \/ Keep \/ Answer \/ Fail \/ Heard \/ Restart

Spec == Init /\ [][Next]_ledgerVars
=============================================================================
