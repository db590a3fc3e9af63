------------------------ MODULE SessionTokensProofs ------------------------
(***************************************************************************)
(* SessionTokens keeps its types, no handler is let through with a token   *)
(* that has been replaced, and the last one stored stays in somebody's hands, for any number  *)
(* of clients and connections, any time to live and any number of faults.  *)
(***************************************************************************)
EXTENDS SessionTokens, TLAPS

(* A token is issued for Ttl from a time that has been.                    *)
Times ==
  /\ \A c \in Connections : call[c].since <= now
  /\ \A t \in 1..Len(expires) : expires[t] <= now + Ttl

(* A token on its way to Redis is nowhere else yet.                        *)
IsNew(c) ==
  /\ call[c].fresh \notin replaced \cup {0, key.token}
  /\ \A d \in Clients : token[d] # call[c].fresh
  /\ \A b \in Connections \ {c} : call[b].fresh # call[c].fresh

Early == {"idle", "bind", "validate", "session"}

FreshTokens ==
  /\ 0 \notin replaced
  /\ \A c \in Connections : call[c].pc \in Early => call[c].fresh = 0
  /\ \A c \in Connections : call[c].pc = "store" => redis /\ IsNew(c)

(* A client has one open connection, and a handler runs on none before.    *)
OneConnection ==
  /\ \A b, c \in Connections :
       connection[b] = "open" /\ connection[c] = "open" /\ owner[b] = owner[c] => b = c
  /\ \A c \in Connections : connection[c] = "new" => call[c].pc = "idle"

Late == {"presence", "answer"}

(* The token stored is accepted, and held or about to be answered; whoever *)
(* holds it is not about to be given another.                              *)
Kept ==
  redis /\ stored # 0 /\ ~broken =>
    /\ key.token = stored /\ expires[stored] <= key.until
    /\ \/ \E c \in Connections : call[c].pc \in Late /\ call[c].fresh = stored
       \/ \E d \in Clients : token[d] = stored
    /\ \A c \in Connections :
         /\ connection[c] = "open" /\ call[c].pc \in Late /\ call[c].fresh # 0
         /\ token[owner[c]] = stored
         => call[c].fresh = stored

(* The token in Redis is none that another one has replaced there.         *)
KeyIsCurrent == key.token \notin replaced

IInv ==
  /\ TypeOK /\ Times /\ FreshTokens /\ OneConnection /\ Kept
  /\ KeyIsCurrent

-----------------------------------------------------------------------------
(* What the operators that move a handler do to it, and to no other.       *)

Steps == {"idle", "bind", "validate", "session", "store", "presence", "answer"}

(* The handler of c is now at a step and has a token to store or answer.   *)
Moves(c, step, t) ==
  /\ call'[c].pc = step /\ call'[c].fresh = t
  /\ \A b \in Connections \ {c} : call'[b] = call[b]

LEMMA NoToken ==
  ASSUME TypeOK
  PROVE  0 \in Tokens
BY DEF TypeOK, Tokens

LEMMA GotoMoves ==
  ASSUME TypeOK, NEW c \in Connections, NEW step \in Steps, Goto(c, step)
  PROVE  /\ call' \in [Connections -> Calls]
         /\ Moves(c, step, call[c].fresh)
         /\ call'[c].since = call[c].since
<1> DEFINE moved == [call[c] EXCEPT !.pc = step]
<1>1. call[c] \in Calls /\ call' = [call EXCEPT ![c] = moved]
  BY DEF TypeOK, Goto
<1>2. /\ moved \in Calls /\ moved.pc = step
      /\ moved.fresh = call[c].fresh /\ moved.since = call[c].since
  BY <1>1 DEF Calls, Steps
<1> HIDE DEF moved
<1> QED
  BY <1>1, <1>2 DEF TypeOK, Moves

LEMMA RefuseMoves ==
  ASSUME TypeOK, NEW c \in Connections, Refuse(c)
  PROVE  /\ call' \in [Connections -> Calls]
         /\ Moves(c, "answer", 0)
         /\ call'[c].since = call[c].since
<1> DEFINE refused == [call[c] EXCEPT !.pc = "answer", !.fresh = 0]
<1>1. call[c] \in Calls /\ call' = [call EXCEPT ![c] = refused]
  BY DEF TypeOK, Refuse
<1>2. /\ refused \in Calls /\ refused.pc = "answer"
      /\ refused.fresh = 0 /\ refused.since = call[c].since
  BY <1>1, NoToken DEF Calls
<1> HIDE DEF refused
<1> QED
  BY <1>1, <1>2 DEF TypeOK, Moves

LEMMA EndMoves ==
  ASSUME TypeOK, NEW c \in Connections, EndCall(c)
  PROVE  /\ call' \in [Connections -> Calls]
         /\ Moves(c, "idle", 0)
         /\ call'[c].since = 0
BY DEF TypeOK, EndCall, NoCall, Moves, Calls, Tokens

LEMMA IssueMoves ==
  ASSUME TypeOK, NEW c \in Connections, NEW kick \in Connections \cup {NoConnection},
         Issue(c, kick)
  PROVE  /\ expires' \in Seq(Nat) /\ Len(expires') = Len(expires) + 1
         /\ \A t \in 1..Len(expires) : expires'[t] = expires[t]
         /\ expires'[Len(expires')] = call[c].since + Ttl
         /\ call' \in [Connections -> Calls']
         /\ Moves(c, IF redis THEN "store" ELSE "answer", Len(expires'))
         /\ call'[c].since = call[c].since
<1> DEFINE issued == [call[c] EXCEPT !.pc = IF redis THEN "store" ELSE "answer", !.token = 0,
                                     !.fresh = Len(expires'), !.kick = kick]
<1>1. call[c] \in Calls /\ call' = [call EXCEPT ![c] = issued]
  BY DEF TypeOK, Issue
<1>2. call[c].since + Ttl \in Nat
  BY <1>1, TtlAssumption DEF Calls
<1>3. /\ expires' \in Seq(Nat) /\ Len(expires') = Len(expires) + 1
      /\ \A t \in 1..Len(expires) : expires'[t] = expires[t]
      /\ expires'[Len(expires')] = call[c].since + Ttl
  BY <1>2 DEF TypeOK, Issue
<1>4. Calls \subseteq Calls'
  BY <1>3 DEF Calls, Tokens, TypeOK
<1>5. /\ issued \in Calls' /\ issued.since = call[c].since /\ issued.fresh = Len(expires')
      /\ issued.pc = IF redis THEN "store" ELSE "answer"
  <2>1. 0 \in Tokens' /\ Len(expires') \in Tokens'
    BY <1>3 DEF Tokens, TypeOK
  <2> QED
    BY <1>1, <1>4, <2>1 DEF Calls
<1> HIDE DEF issued
<1>6. /\ call \in [Connections -> Calls] /\ call'[c] = issued
      /\ \A b \in Connections \ {c} : call'[b] = call[b]
  BY <1>1 DEF TypeOK
<1>7. call' \in [Connections -> Calls']
  BY <1>1, <1>4, <1>5, <1>6
<1>8. Moves(c, IF redis THEN "store" ELSE "answer", Len(expires'))
  BY <1>5, <1>6 DEF Moves
<1> QED
  BY <1>3, <1>5, <1>6, <1>7, <1>8

-----------------------------------------------------------------------------

LEMMA TypeStep ==
  ASSUME TypeOK, [Next]_vars
  PROVE  TypeOK'
<1> USE TtlAssumption
<1>1. ASSUME NEW c \in Connections, Open(c) PROVE TypeOK'
  BY <1>1 DEF TypeOK, Tokens, Calls, Open, serverVars, ghostVars
<1>2. ASSUME NEW c \in Connections, Close(c) PROVE TypeOK'
  BY <1>2 DEF TypeOK, Tokens, Calls, Close, serverVars, ghostVars
<1>3. ASSUME NEW c \in Connections, OnConnectionClosed(c) PROVE TypeOK'
  BY <1>3 DEF TypeOK, Tokens, Calls, OnConnectionClosed, ghostVars
<1>4. ASSUME NEW c \in Connections, HandleLogin(c) PROVE TypeOK'
  BY <1>4 DEF TypeOK, Tokens, Calls, HandleLogin, Begin, serverVars, ghostVars
<1>5. ASSUME NEW c \in Connections, HandleReconnect(c) PROVE TypeOK'
  BY <1>5 DEF TypeOK, Tokens, Calls, HandleReconnect, Present, Begin, Verify, serverVars, ghostVars
<1>6. ASSUME NEW c \in Connections, HandleSessionRefresh(c) PROVE TypeOK'
  BY <1>6 DEF TypeOK, Tokens, Calls, HandleSessionRefresh, Present, Begin, Verify, serverVars, ghostVars
<1>7. ASSUME NEW c \in Connections, BindLogin(c) PROVE TypeOK'
  <2>1. OldConnection(c) \in Connections \cup {NoConnection}
    BY DEF OldConnection, TypeOK
  <2>2. /\ expires' \in Seq(Nat) /\ Len(expires') = Len(expires) + 1
        /\ call' \in [Connections -> Calls']
    BY <1>7, <2>1, IssueMoves DEF BindLogin
  <2> QED
    BY <1>7, <2>2 DEF TypeOK, Tokens, BindLogin, ghostVars
<1>8. ASSUME NEW c \in Connections, ValidateToken(c) PROVE TypeOK'
  <2>1. call' \in [Connections -> Calls]
    BY <1>8, GotoMoves, EndMoves DEF ValidateToken, Steps
  <2> QED
    BY <1>8, <2>1 DEF TypeOK, Tokens, Calls, ValidateToken, serverVars, ghostVars
<1>9. ASSUME NEW c \in Connections, RefuseSession(c) PROVE TypeOK'
  BY <1>9 DEF TypeOK, Tokens, Calls, RefuseSession, EndCall, NoCall, serverVars, ghostVars
<1>10. ASSUME NEW c \in Connections, RebindForReconnect(c) PROVE TypeOK'
  <2>1. OldConnection(c) \in Connections \cup {NoConnection}
    BY DEF OldConnection, TypeOK
  <2> DEFINE rebound == [call[c] EXCEPT !.pc = IF redis THEN "presence" ELSE "answer",
                                        !.token = 0, !.kick = OldConnection(c)]
  <2>2. call[c] \in Calls /\ call' = [call EXCEPT ![c] = rebound]
    BY <1>10 DEF RebindForReconnect, TypeOK
  <2>3. rebound \in Calls
    BY <2>1, <2>2, NoToken DEF Calls
  <2> HIDE DEF rebound
  <2>4. call' \in [Connections -> Calls]
    BY <2>2, <2>3 DEF TypeOK
  <2> QED
    BY <1>10, <2>4 DEF TypeOK, Tokens, Calls, RebindForReconnect, ghostVars
<1>11. ASSUME NEW c \in Connections, RefreshToken(c) PROVE TypeOK'
  <2>1. /\ expires' \in Seq(Nat) /\ Len(expires') = Len(expires) + 1
        /\ call' \in [Connections -> Calls']
    BY <1>11, IssueMoves DEF RefreshToken
  <2> QED
    BY <1>11, <2>1 DEF TypeOK, Tokens, RefreshToken, ghostVars
<1>12. ASSUME NEW c \in Connections, StoreToken(c) PROVE TypeOK'
  <2>1. call' \in [Connections -> Calls]
    BY <1>12, GotoMoves, RefuseMoves DEF StoreToken, Steps
  <2>2. call[c].fresh \in Tokens
    BY DEF TypeOK, Calls
  <2>3. /\ key' \in [token : Tokens, until : Nat]
        /\ stored' \in Tokens /\ replaced' \subseteq Tokens
    <3>1. ASSUME SetKey(call[c].fresh)
          PROVE  /\ key' \in [token : Tokens, until : Nat]
                 /\ stored' \in Tokens /\ replaced' \subseteq Tokens
      BY <2>2, <3>1, TtlAssumption DEF SetKey, TypeOK
    <3> QED
      BY <1>12, <3>1 DEF StoreToken, TypeOK, ghostVars
  <2>4. faults' \in Nat
    BY <1>12 DEF StoreToken, Fail, TypeOK
  <2>5. broken' \in BOOLEAN
    BY <1>12, Zenon DEF StoreToken, TypeOK, ghostVars
  <2> QED
    BY <1>12, <2>1, <2>3, <2>4, <2>5 DEF TypeOK, Tokens, Calls, StoreToken, serverVars
<1>13. ASSUME NEW c \in Connections, UpdatePresence(c) PROVE TypeOK'
  <2>1. call' \in [Connections -> Calls]
    BY <1>13, GotoMoves, RefuseMoves DEF UpdatePresence, Steps
  <2>2. faults' \in Nat
    BY <1>13 DEF UpdatePresence, Fail, TypeOK
  <2>3. broken' \in BOOLEAN
    BY <1>13, Zenon DEF UpdatePresence, TypeOK
  <2> QED
    BY <1>13, <2>1, <2>2, <2>3 DEF TypeOK, Tokens, Calls, UpdatePresence, serverVars
<1>14. ASSUME NEW c \in Connections, Answer(c) PROVE TypeOK'
  <2>1. call' \in [Connections -> Calls]
    BY <1>14, EndMoves DEF Answer
  <2>2. call[c].fresh \in Tokens
    BY DEF TypeOK, Calls
  <2>3. /\ connection' \in [Connections -> {"new", "open", "closed"}]
        /\ token' \in [Clients -> Tokens] /\ broken' \in BOOLEAN
    BY <1>14, <2>2 DEF Answer, Forgets, TypeOK
  <2> QED
    BY <1>14, <2>1, <2>3 DEF TypeOK, Tokens, Calls, Answer, serverVars
<1>15. CASE Tick
  BY <1>15 DEF TypeOK, Tokens, Calls, Tick, serverVars, ghostVars
<1>16. CASE Restart
  <2>1. NoCall \in Calls
    BY DEF NoCall, Calls, Tokens, TypeOK
  <2>2. broken' \in BOOLEAN /\ faults' \in Nat
    BY <1>16 DEF Restart, Forgets, Fail, TypeOK
  <2>3. connection' \in [Connections -> {"new", "open", "closed"}]
    BY <1>16 DEF Restart, TypeOK
  <2> QED
    BY <1>16, <2>1, <2>2, <2>3 DEF TypeOK, Tokens, Calls, Restart
<1>17. CASE redis /\ RedisForgets
  BY <1>17 DEF TypeOK, Tokens, Calls, RedisForgets, NoKey, Fail, serverVars
<1>18. CASE UNCHANGED vars
  BY <1>18 DEF TypeOK, Tokens, Calls, vars
<1> QED
  BY <1>1, <1>2, <1>3, <1>4, <1>5, <1>6, <1>7, <1>8, <1>9, <1>10, <1>11, <1>12, <1>13, <1>14, <1>15, <1>16, <1>17, <1>18 DEF Next

LEMMA IssuedInTime ==
  ASSUME TypeOK, Times, NEW c \in Connections, NEW kick \in Connections \cup {NoConnection},
         Issue(c, kick), now' = now
  PROVE  Times'
<1>1. /\ \A t \in 1..Len(expires) : expires'[t] = expires[t]
      /\ Len(expires') = Len(expires) + 1
      /\ expires'[Len(expires')] = call[c].since + Ttl
      /\ call'[c].since = call[c].since
      /\ \A b \in Connections \ {c} : call'[b] = call[b]
  BY IssueMoves DEF Moves
<1>2. \A b \in Connections : call'[b].since <= now'
  BY <1>1 DEF Times
<1>3. ASSUME NEW t \in 1..Len(expires') PROVE expires'[t] <= now' + Ttl
  <2>1. Len(expires) \in Nat /\ call[c].since \in Nat /\ now \in Nat
    BY DEF TypeOK, Calls
  <2>2. CASE t \in 1..Len(expires)
    BY <1>1, <2>2 DEF Times
  <2>3. CASE t = Len(expires')
    BY <1>1, <2>1, <2>3, TtlAssumption DEF Times
  <2> QED
    BY <1>1, <2>1, <2>2, <2>3
<1> QED
  BY <1>2, <1>3 DEF Times

LEMMA TimesStep ==
  ASSUME TypeOK, Times, [Next]_vars
  PROVE  Times'
<1> USE TtlAssumption
<1>1. ASSUME NEW c \in Connections, Open(c) PROVE Times'
  BY <1>1 DEF TypeOK, Calls, Times, Open, serverVars, ghostVars
<1>2. ASSUME NEW c \in Connections, Close(c) PROVE Times'
  BY <1>2 DEF TypeOK, Calls, Times, Close, serverVars, ghostVars
<1>3. ASSUME NEW c \in Connections, OnConnectionClosed(c) PROVE Times'
  BY <1>3 DEF TypeOK, Calls, Times, OnConnectionClosed, ghostVars
<1>4. ASSUME NEW c \in Connections, HandleLogin(c) PROVE Times'
  BY <1>4 DEF TypeOK, Calls, Times, HandleLogin, Begin, serverVars, ghostVars
<1>5. ASSUME NEW c \in Connections, HandleReconnect(c) PROVE Times'
  BY <1>5 DEF TypeOK, Calls, Times, HandleReconnect, Present, Begin, Verify, serverVars, ghostVars
<1>6. ASSUME NEW c \in Connections, HandleSessionRefresh(c) PROVE Times'
  BY <1>6 DEF TypeOK, Calls, Times, HandleSessionRefresh, Present, Begin, Verify, serverVars, ghostVars
<1>7. ASSUME NEW c \in Connections, BindLogin(c) PROVE Times'
  BY <1>7, IssuedInTime DEF BindLogin, TypeOK, OldConnection
<1>8. ASSUME NEW c \in Connections, ValidateToken(c) PROVE Times'
  <2>1. call'[c].since <= now /\ \A b \in Connections \ {c} : call'[b] = call[b]
    BY <1>8, GotoMoves, EndMoves DEF ValidateToken, Steps, Moves, TypeOK, Times
  <2> QED
    BY <1>8, <2>1 DEF Times, ValidateToken, serverVars
<1>9. ASSUME NEW c \in Connections, RefuseSession(c) PROVE Times'
  <2>1. call'[c].since <= now /\ \A b \in Connections \ {c} : call'[b] = call[b]
    BY <1>9, EndMoves DEF RefuseSession, Moves, TypeOK
  <2> QED
    BY <1>9, <2>1 DEF Times, RefuseSession, serverVars
<1>10. ASSUME NEW c \in Connections, RebindForReconnect(c) PROVE Times'
  BY <1>10 DEF TypeOK, Calls, Times, RebindForReconnect, OldConnection, ghostVars
<1>11. ASSUME NEW c \in Connections, RefreshToken(c) PROVE Times'
  BY <1>11, IssuedInTime DEF RefreshToken
<1>12. ASSUME NEW c \in Connections, StoreToken(c) PROVE Times'
  <2>1. call'[c].since <= now /\ \A b \in Connections \ {c} : call'[b] = call[b]
    BY <1>12, GotoMoves, RefuseMoves DEF StoreToken, Steps, Moves, Times
  <2> QED
    BY <1>12, <2>1 DEF Times, StoreToken, serverVars
<1>13. ASSUME NEW c \in Connections, UpdatePresence(c) PROVE Times'
  <2>1. call'[c].since <= now /\ \A b \in Connections \ {c} : call'[b] = call[b]
    BY <1>13, GotoMoves, RefuseMoves DEF UpdatePresence, Steps, Moves, Times
  <2> QED
    BY <1>13, <2>1 DEF Times, UpdatePresence, serverVars
<1>14. ASSUME NEW c \in Connections, Answer(c) PROVE Times'
  BY <1>14 DEF TypeOK, Calls, Times, Answer, EndCall, NoCall, Forgets, serverVars
<1>15. CASE Tick
  BY <1>15 DEF TypeOK, Calls, Times, Tick, serverVars, ghostVars
<1>16. CASE Restart
  BY <1>16 DEF TypeOK, Calls, Times, Restart, NoCall, Forgets, Fail
<1>17. CASE redis /\ RedisForgets
  BY <1>17 DEF TypeOK, Calls, Times, RedisForgets, NoKey, Fail, serverVars
<1>18. CASE UNCHANGED vars
  BY <1>18 DEF TypeOK, Calls, Times, vars
<1> QED
  BY <1>1, <1>2, <1>3, <1>4, <1>5, <1>6, <1>7, <1>8, <1>9, <1>10, <1>11, <1>12, <1>13, <1>14, <1>15, <1>16, <1>17, <1>18 DEF Next

(* A handler that goes on, or gives its token up, takes none that is new.  *)
LEMMA NoNewToken ==
  ASSUME FreshTokens, NEW c \in Connections, NEW step, step # "store", NEW t, Moves(c, step, t),
         t = 0 \/ (t = call[c].fresh /\ step \notin Early),
         UNCHANGED <<redis, key, token, replaced>>
  PROVE  FreshTokens'
<1>1. \A b \in Connections : call'[b].pc \in Early => call'[b].fresh = 0
  BY DEF FreshTokens, Moves
<1>2. ASSUME NEW b \in Connections, call'[b].pc = "store"
      PROVE  IsNew(b)' /\ redis'
  <2>1. b # c /\ call'[b] = call[b] /\ IsNew(b) /\ redis
    BY <1>2 DEF FreshTokens, Moves
  <2>2. \A e \in Connections \ {b} : call'[e].fresh # call[b].fresh
    BY <2>1 DEF Moves, IsNew
  <2> QED
    BY <2>1, <2>2 DEF IsNew
<1> QED
  BY <1>1, <1>2 DEF FreshTokens

LEMMA NewTokenStored ==
  ASSUME FreshTokens, NEW c \in Connections, call[c].pc = "store",
         NEW step \in Late, NEW t \in {0, call[c].fresh}, Moves(c, step, t),
         SetKey(call[c].fresh), UNCHANGED <<redis, token>>
  PROVE  FreshTokens'
<1>1. \A b \in Connections : call'[b].pc \in Early => call'[b].fresh = 0
  BY DEF FreshTokens, Moves, Early, Late
<1>2. key'.token = call[c].fresh /\ replaced' = replaced \cup ({key.token} \ {0})
  BY DEF SetKey
<1>3. ASSUME NEW b \in Connections, call'[b].pc = "store"
      PROVE  IsNew(b)' /\ redis'
  <2>1. b # c /\ call'[b] = call[b] /\ IsNew(b) /\ redis
    BY <1>3 DEF FreshTokens, Moves, Late
  <2>2. \A e \in Connections \ {b} : call'[e].fresh # call[b].fresh
    BY <2>1 DEF Moves, IsNew
  <2> QED
    BY <1>2, <2>1, <2>2 DEF IsNew
<1> QED
  BY <1>1, <1>2, <1>3 DEF FreshTokens

LEMMA FreshStep ==
  ASSUME TypeOK, FreshTokens, [Next]_vars
  PROVE  FreshTokens'
<1>1. ASSUME NEW c \in Connections, Open(c) PROVE FreshTokens'
  BY <1>1 DEF TypeOK, Tokens, Calls, FreshTokens, IsNew, Early, Open, serverVars, ghostVars
<1>2. ASSUME NEW c \in Connections, Close(c) PROVE FreshTokens'
  BY <1>2 DEF TypeOK, Tokens, Calls, FreshTokens, IsNew, Early, Close, serverVars, ghostVars
<1>3. ASSUME NEW c \in Connections, OnConnectionClosed(c) PROVE FreshTokens'
  BY <1>3 DEF TypeOK, Tokens, Calls, FreshTokens, IsNew, Early, OnConnectionClosed, ghostVars
<1>4. ASSUME NEW c \in Connections, HandleLogin(c) PROVE FreshTokens'
  BY <1>4 DEF TypeOK, Tokens, Calls, FreshTokens, IsNew, Early, HandleLogin, Begin, serverVars, ghostVars
<1>5. ASSUME NEW c \in Connections, HandleReconnect(c) PROVE FreshTokens'
  BY <1>5 DEF TypeOK, Tokens, Calls, FreshTokens, IsNew, Early, HandleReconnect, Present, Begin, Verify, serverVars, ghostVars
<1>6. ASSUME NEW c \in Connections, HandleSessionRefresh(c) PROVE FreshTokens'
  BY <1>6 DEF TypeOK, Tokens, Calls, FreshTokens, IsNew, Early, HandleSessionRefresh, Present, Begin, Verify, serverVars, ghostVars
<1>7. ASSUME NEW c \in Connections, BindLogin(c) PROVE FreshTokens'
  BY <1>7 DEF TypeOK, Tokens, Calls, FreshTokens, IsNew, Early, BindLogin, Issue, OldConnection, ghostVars
<1>8. ASSUME NEW c \in Connections, ValidateToken(c) PROVE FreshTokens'
  <2>1. Moves(c, "session", 0) \/ Moves(c, "idle", 0)
    BY <1>8, GotoMoves, EndMoves DEF ValidateToken, Steps, FreshTokens, Early
  <2> QED
    BY <1>8, <2>1, NoNewToken DEF ValidateToken, serverVars, ghostVars
<1>9. ASSUME NEW c \in Connections, RefuseSession(c) PROVE FreshTokens'
  BY <1>9 DEF TypeOK, Tokens, Calls, FreshTokens, IsNew, Early, RefuseSession, EndCall, NoCall, serverVars, ghostVars
<1>10. ASSUME NEW c \in Connections, RebindForReconnect(c) PROVE FreshTokens'
  BY <1>10 DEF TypeOK, Tokens, Calls, FreshTokens, IsNew, Early, RebindForReconnect, OldConnection, ghostVars
<1>11. ASSUME NEW c \in Connections, RefreshToken(c) PROVE FreshTokens'
  BY <1>11 DEF TypeOK, Tokens, Calls, FreshTokens, IsNew, Early, RefreshToken, Issue, serverVars, ghostVars
<1>12. ASSUME NEW c \in Connections, StoreToken(c) PROVE FreshTokens'
  <2>1. Moves(c, "presence", call[c].fresh) \/ Moves(c, "answer", 0)
    BY <1>12, GotoMoves, RefuseMoves DEF StoreToken, Steps
  <2>2. CASE SetKey(call[c].fresh)
    BY <1>12, <2>1, <2>2, NewTokenStored DEF StoreToken, Late, serverVars
  <2>3. CASE UNCHANGED <<key, replaced>>
    BY <1>12, <2>1, <2>3, NoNewToken DEF StoreToken, Early, serverVars
  <2> QED
    BY <1>12, <2>2, <2>3 DEF StoreToken, ghostVars
<1>13. ASSUME NEW c \in Connections, UpdatePresence(c) PROVE FreshTokens'
  <2>1. Moves(c, "answer", call[c].fresh) \/ Moves(c, "answer", 0)
    BY <1>13, GotoMoves, RefuseMoves DEF UpdatePresence, Steps
  <2> QED
    BY <1>13, <2>1, NoNewToken DEF UpdatePresence, Early, serverVars
<1>14. ASSUME NEW c \in Connections, Answer(c) PROVE FreshTokens'
  BY <1>14 DEF TypeOK, Tokens, Calls, FreshTokens, IsNew, Early, Answer, EndCall, NoCall, Forgets, serverVars
<1>15. CASE Tick
  BY <1>15 DEF TypeOK, Tokens, Calls, FreshTokens, IsNew, Early, Tick, serverVars, ghostVars
<1>16. CASE Restart
  BY <1>16 DEF TypeOK, Tokens, Calls, FreshTokens, IsNew, Early, Restart, NoCall, Forgets, Fail
<1>17. CASE redis /\ RedisForgets
  BY <1>17 DEF TypeOK, Tokens, Calls, FreshTokens, IsNew, Early, RedisForgets, NoKey, Fail, serverVars
<1>18. CASE UNCHANGED vars
  BY <1>18 DEF TypeOK, Tokens, Calls, FreshTokens, IsNew, Early, vars
<1> QED
  BY <1>1, <1>2, <1>3, <1>4, <1>5, <1>6, <1>7, <1>8, <1>9, <1>10, <1>11, <1>12, <1>13, <1>14, <1>15, <1>16, <1>17, <1>18 DEF Next

LEMMA OneConnectionStep ==
  ASSUME TypeOK, OneConnection, [Next]_vars
  PROVE  OneConnection'
<1> USE TtlAssumption, ConnectionsAssumption DEF TypeOK, Calls, OneConnection
<1>1. ASSUME NEW c \in Connections, Open(c) PROVE OneConnection'
  BY <1>1 DEF Open, serverVars, ghostVars
<1>2. ASSUME NEW c \in Connections, Close(c) PROVE OneConnection'
  BY <1>2 DEF Close, serverVars, ghostVars
<1>3. ASSUME NEW c \in Connections, OnConnectionClosed(c) PROVE OneConnection'
  BY <1>3 DEF OnConnectionClosed, ghostVars
<1>4. ASSUME NEW c \in Connections, HandleLogin(c) PROVE OneConnection'
  BY <1>4 DEF HandleLogin, Begin, serverVars, ghostVars
<1>5. ASSUME NEW c \in Connections, HandleReconnect(c) PROVE OneConnection'
  BY <1>5 DEF HandleReconnect, Present, Begin, Verify, serverVars, ghostVars
<1>6. ASSUME NEW c \in Connections, HandleSessionRefresh(c) PROVE OneConnection'
  BY <1>6 DEF HandleSessionRefresh, Present, Begin, Verify, serverVars, ghostVars
<1>7. ASSUME NEW c \in Connections, BindLogin(c) PROVE OneConnection'
  BY <1>7 DEF BindLogin, Issue, OldConnection, ghostVars
<1>8. ASSUME NEW c \in Connections, ValidateToken(c) PROVE OneConnection'
  BY <1>8 DEF ValidateToken, Goto, EndCall, NoCall, serverVars, ghostVars
<1>9. ASSUME NEW c \in Connections, RefuseSession(c) PROVE OneConnection'
  BY <1>9 DEF RefuseSession, EndCall, NoCall, serverVars, ghostVars
<1>10. ASSUME NEW c \in Connections, RebindForReconnect(c) PROVE OneConnection'
  BY <1>10 DEF RebindForReconnect, OldConnection, ghostVars
<1>11. ASSUME NEW c \in Connections, RefreshToken(c) PROVE OneConnection'
  BY <1>11 DEF RefreshToken, Issue, serverVars, ghostVars
<1>12. ASSUME NEW c \in Connections, StoreToken(c) PROVE OneConnection'
  BY <1>12 DEF StoreToken, SetKey, Goto, Refuse, Fail, serverVars, ghostVars
<1>13. ASSUME NEW c \in Connections, UpdatePresence(c) PROVE OneConnection'
  BY <1>13 DEF UpdatePresence, Goto, Refuse, Forgets, Fail, serverVars
<1>14. ASSUME NEW c \in Connections, Answer(c) PROVE OneConnection'
  BY <1>14 DEF Answer, EndCall, NoCall, Forgets, serverVars
<1>15. CASE Tick
  BY <1>15 DEF Tick, serverVars, ghostVars
<1>16. CASE Restart
  BY <1>16 DEF Restart, NoCall, Forgets, Fail
<1>17. CASE redis /\ RedisForgets
  BY <1>17 DEF RedisForgets, NoKey, Fail, serverVars
<1>18. CASE UNCHANGED vars
  BY <1>18 DEF vars
<1> QED
  BY <1>1, <1>2, <1>3, <1>4, <1>5, <1>6, <1>7, <1>8, <1>9, <1>10, <1>11, <1>12, <1>13, <1>14, <1>15, <1>16, <1>17, <1>18 DEF Next

LEMMA ReplacedStep ==
  ASSUME TypeOK, FreshTokens, KeyIsCurrent, [Next]_vars
  PROVE  KeyIsCurrent'
<1> USE TtlAssumption, ConnectionsAssumption DEF TypeOK, FreshTokens, IsNew, KeyIsCurrent
<1>1. ASSUME NEW c \in Connections, Open(c) PROVE KeyIsCurrent'
  BY <1>1 DEF Open, serverVars, ghostVars
<1>2. ASSUME NEW c \in Connections, Close(c) PROVE KeyIsCurrent'
  BY <1>2 DEF Close, serverVars, ghostVars
<1>3. ASSUME NEW c \in Connections, OnConnectionClosed(c) PROVE KeyIsCurrent'
  BY <1>3 DEF OnConnectionClosed, ghostVars
<1>4. ASSUME NEW c \in Connections, HandleLogin(c) PROVE KeyIsCurrent'
  BY <1>4 DEF HandleLogin, Begin, serverVars, ghostVars
<1>5. ASSUME NEW c \in Connections, HandleReconnect(c) PROVE KeyIsCurrent'
  BY <1>5 DEF HandleReconnect, Present, Begin, Verify, serverVars, ghostVars
<1>6. ASSUME NEW c \in Connections, HandleSessionRefresh(c) PROVE KeyIsCurrent'
  BY <1>6 DEF HandleSessionRefresh, Present, Begin, Verify, serverVars, ghostVars
<1>7. ASSUME NEW c \in Connections, BindLogin(c) PROVE KeyIsCurrent'
  BY <1>7 DEF BindLogin, Issue, OldConnection, ghostVars
<1>8. ASSUME NEW c \in Connections, ValidateToken(c) PROVE KeyIsCurrent'
  BY <1>8 DEF ValidateToken, Goto, EndCall, NoCall, serverVars, ghostVars
<1>9. ASSUME NEW c \in Connections, RefuseSession(c) PROVE KeyIsCurrent'
  BY <1>9 DEF RefuseSession, EndCall, NoCall, serverVars, ghostVars
<1>10. ASSUME NEW c \in Connections, RebindForReconnect(c) PROVE KeyIsCurrent'
  BY <1>10 DEF RebindForReconnect, OldConnection, ghostVars
<1>11. ASSUME NEW c \in Connections, RefreshToken(c) PROVE KeyIsCurrent'
  BY <1>11 DEF RefreshToken, Issue, serverVars, ghostVars
<1>12. ASSUME NEW c \in Connections, StoreToken(c) PROVE KeyIsCurrent'
  BY <1>12 DEF StoreToken, SetKey, Goto, Refuse, Fail, serverVars, ghostVars
<1>13. ASSUME NEW c \in Connections, UpdatePresence(c) PROVE KeyIsCurrent'
  BY <1>13 DEF UpdatePresence, Goto, Refuse, Forgets, Fail, serverVars
<1>14. ASSUME NEW c \in Connections, Answer(c) PROVE KeyIsCurrent'
  BY <1>14 DEF Answer, EndCall, NoCall, Forgets, serverVars
<1>15. CASE Tick
  BY <1>15 DEF Tick, serverVars, ghostVars
<1>16. CASE Restart
  BY <1>16 DEF Restart, NoCall, Forgets, Fail
<1>17. CASE redis /\ RedisForgets
  BY <1>17 DEF RedisForgets, NoKey, Fail, serverVars
<1>18. CASE UNCHANGED vars
  BY <1>18 DEF vars
<1> QED
  BY <1>1, <1>2, <1>3, <1>4, <1>5, <1>6, <1>7, <1>8, <1>9, <1>10, <1>11, <1>12, <1>13, <1>14, <1>15, <1>16, <1>17, <1>18 DEF Next

(* A handler that tells of nothing more, or of a token that is not stored. *)
LEMMA GivenUp ==
  ASSUME Kept, NEW c \in Connections, NEW step, Moves(c, step, 0),
         ~broken' => ~broken /\ (call[c].pc \in Late /\ call[c].fresh # 0 => call[c].fresh # stored),
         \A b \in Connections : connection'[b] = "open" => connection[b] = "open",
         UNCHANGED <<redis, key, expires, stored, token, owner>>
  PROVE  Kept'
<1> SUFFICES ASSUME redis, stored # 0, ~broken, ~broken'
             PROVE  Kept'
  BY DEF Kept
<1>1. key.token = stored /\ expires[stored] <= key.until
  BY DEF Kept
<1>2. \A b \in Connections : call[b].pc \in Late /\ call[b].fresh = stored => call'[b] = call[b]
  BY DEF Moves
<1>3. \/ \E b \in Connections : call'[b].pc \in Late /\ call'[b].fresh = stored
      \/ \E d \in Clients : token[d] = stored
  BY <1>2 DEF Kept
<1>4. ASSUME NEW b \in Connections, connection'[b] = "open", call'[b].pc \in Late,
             call'[b].fresh # 0, token[owner[b]] = stored
      PROVE  call'[b].fresh = stored
  BY <1>4 DEF Kept, Moves
<1> QED
  BY <1>1, <1>3, <1>4 DEF Kept

LEMMA GoesOn ==
  ASSUME Kept, NEW c \in Connections, NEW step \in Late, Moves(c, step, call[c].fresh),
         call[c].pc \in Late,
         UNCHANGED <<redis, key, expires, connection, stored, token, owner, broken>>
  PROVE  Kept'
<1>1. \A b \in Connections : call'[b].fresh = call[b].fresh
                             /\ (call'[b].pc \in Late <=> call[b].pc \in Late)
  BY DEF Moves
<1> QED
  BY <1>1 DEF Kept

LEMMA NewTokenKept ==
  ASSUME TypeOK, Times, FreshTokens, NEW c \in Connections, call[c].pc = "store",
         Moves(c, "presence", call[c].fresh), SetKey(call[c].fresh),
         UNCHANGED <<now, expires, token, owner, connection>>
  PROVE  Kept'
<1>1. IsNew(c)
  BY DEF FreshTokens
<1>2. call[c].fresh \in 1..Len(expires)
  BY <1>1 DEF IsNew, TypeOK, Calls, Tokens
<1>3. key'.token = stored' /\ expires'[stored'] <= key'.until /\ stored' = call[c].fresh
  BY <1>2 DEF SetKey, Times
<1>4. call'[c].pc \in Late /\ call'[c].fresh = stored'
  BY <1>3 DEF Moves, Late
<1>5. \A b \in Connections : token'[owner'[b]] # stored'
  BY <1>1, <1>3 DEF IsNew, TypeOK
<1> QED
  BY <1>3, <1>4, <1>5 DEF Kept

LEMMA TokenAnswered ==
  ASSUME TypeOK, Kept, OneConnection, NEW c \in Connections, connection[c] = "open",
         call[c].pc = "answer", Moves(c, "idle", 0),
         token' = IF call[c].fresh = 0 THEN token ELSE [token EXCEPT ![owner[c]] = call[c].fresh],
         \A b \in Connections : connection'[b] = "open" => connection[b] = "open",
         UNCHANGED <<redis, key, expires, stored, owner, broken>>
  PROVE  Kept'
<1> SUFFICES ASSUME redis, stored # 0, ~broken
             PROVE  Kept'
  BY DEF Kept
<1>1. key.token = stored /\ expires[stored] <= key.until
  BY DEF Kept
<1>2. \/ \E b \in Connections : call'[b].pc \in Late /\ call'[b].fresh = stored
      \/ \E d \in Clients : token'[d] = stored
  <2>1. CASE call[c].fresh = stored
    BY <2>1 DEF TypeOK
  <2>2. CASE call[c].fresh # stored
    <3>1. ASSUME NEW d \in Clients, token[d] = stored PROVE token'[d] = stored
      <4>1. CASE d = owner[c]
        BY <2>2, <3>1, <4>1 DEF Kept, Late
      <4>2. CASE d # owner[c]
        BY <3>1, <4>2 DEF TypeOK
      <4> QED
        BY <4>1, <4>2
    <3> QED
      BY <2>2, <3>1 DEF Kept, Moves
  <2> QED
    BY <2>1, <2>2
<1>3. ASSUME NEW b \in Connections, connection'[b] = "open", call'[b].pc \in Late,
             call'[b].fresh # 0, token'[owner[b]] = stored
      PROVE  call'[b].fresh = stored
  <2>1. b # c /\ call'[b] = call[b] /\ connection[b] = "open"
    BY <1>3 DEF Moves, Late
  <2>2. owner[b] # owner[c]
    BY <2>1 DEF OneConnection
  <2>3. token'[owner[b]] = token[owner[b]]
    BY <2>2 DEF TypeOK
  <2> QED
    BY <1>3, <2>1, <2>3 DEF Kept
<1> QED
  BY <1>1, <1>2, <1>3 DEF Kept

LEMMA KeptStep ==
  ASSUME IInv, [Next]_vars
  PROVE  Kept'
<1> USE DEF IInv
<1>1. ASSUME NEW c \in Connections, Open(c) PROVE Kept'
  BY <1>1 DEF TypeOK, Tokens, Calls, Times, FreshTokens, IsNew, Early, Late, OneConnection, Kept,
         Open, serverVars, ghostVars
<1>2. ASSUME NEW c \in Connections, Close(c) PROVE Kept'
  BY <1>2 DEF TypeOK, Tokens, Calls, Times, FreshTokens, IsNew, Early, Late, OneConnection, Kept,
         Close, serverVars, ghostVars
<1>3. ASSUME NEW c \in Connections, OnConnectionClosed(c) PROVE Kept'
  BY <1>3 DEF TypeOK, Tokens, Calls, Times, FreshTokens, IsNew, Early, Late, OneConnection, Kept,
         OnConnectionClosed, ghostVars
<1>4. ASSUME NEW c \in Connections, HandleLogin(c) PROVE Kept'
  BY <1>4 DEF TypeOK, Tokens, Calls, Times, FreshTokens, IsNew, Early, Late, OneConnection, Kept,
         HandleLogin, Begin, serverVars, ghostVars
<1>5. ASSUME NEW c \in Connections, HandleReconnect(c) PROVE Kept'
  BY <1>5 DEF TypeOK, Tokens, Calls, Times, FreshTokens, IsNew, Early, Late, OneConnection, Kept,
         HandleReconnect, Present, Begin, Verify, serverVars, ghostVars
<1>6. ASSUME NEW c \in Connections, HandleSessionRefresh(c) PROVE Kept'
  BY <1>6 DEF TypeOK, Tokens, Calls, Times, FreshTokens, IsNew, Early, Late, OneConnection, Kept,
         HandleSessionRefresh, Present, Begin, Verify, serverVars, ghostVars
<1>7. ASSUME NEW c \in Connections, BindLogin(c) PROVE Kept'
  BY <1>7 DEF TypeOK, Tokens, Calls, Times, FreshTokens, IsNew, Early, Late, OneConnection, Kept,
         BindLogin, Issue, OldConnection, ghostVars
<1>8. ASSUME NEW c \in Connections, ValidateToken(c) PROVE Kept'
  <2>1. Moves(c, "session", 0) \/ Moves(c, "idle", 0)
    BY <1>8, GotoMoves, EndMoves DEF ValidateToken, FreshTokens, Early, Steps
  <2> QED
    BY <1>8, <2>1, GivenUp DEF ValidateToken, FreshTokens, Early, Late, serverVars, ghostVars
<1>9. ASSUME NEW c \in Connections, RefuseSession(c) PROVE Kept'
  BY <1>9 DEF TypeOK, Tokens, Calls, Times, FreshTokens, IsNew, Early, Late, OneConnection, Kept,
         RefuseSession, EndCall, NoCall, serverVars, ghostVars
<1>10. ASSUME NEW c \in Connections, RebindForReconnect(c) PROVE Kept'
  BY <1>10 DEF TypeOK, Tokens, Calls, Times, FreshTokens, IsNew, Early, Late, OneConnection, Kept,
         RebindForReconnect, OldConnection, ghostVars
<1>11. ASSUME NEW c \in Connections, RefreshToken(c) PROVE Kept'
  BY <1>11 DEF TypeOK, Tokens, Calls, Times, FreshTokens, IsNew, Early, Late, OneConnection, Kept,
         RefreshToken, Issue, serverVars, ghostVars
<1>12. ASSUME NEW c \in Connections, StoreToken(c) PROVE Kept'
  <2>1. CASE /\ SetKey(call[c].fresh) /\ Goto(c, "presence") /\ broken' = FALSE
    <3>1. Moves(c, "presence", call[c].fresh)
      BY <2>1, GotoMoves DEF Steps
    <3> QED
      BY <1>12, <2>1, <3>1, NewTokenKept DEF StoreToken, serverVars
  <2>2. CASE Refuse(c) /\ UNCHANGED <<key, ghostVars>>
    <3>1. Moves(c, "answer", 0)
      BY <2>2, RefuseMoves
    <3> QED
      BY <1>12, <2>2, <3>1, GivenUp DEF StoreToken, Late, ghostVars, serverVars
  <2>3. CASE broken' = TRUE
    BY <2>3 DEF Kept
  <2> QED
    BY <1>12, <2>1, <2>2, <2>3 DEF StoreToken
<1>13. ASSUME NEW c \in Connections, UpdatePresence(c) PROVE Kept'
  <2>1. CASE Goto(c, "answer") /\ broken' = broken
    <3>1. Moves(c, "answer", call[c].fresh)
      BY <2>1, GotoMoves DEF Steps
    <3> QED
      BY <1>13, <2>1, <3>1, GoesOn DEF UpdatePresence, Late, serverVars
  <2>2. CASE Refuse(c) /\ broken' = (broken \/ Forgets(c))
    <3>1. Moves(c, "answer", 0)
      BY <2>2, RefuseMoves
    <3> QED
      BY <1>13, <2>2, <3>1, GivenUp DEF UpdatePresence, Forgets, serverVars
  <2> QED
    BY <1>13, <2>1, <2>2 DEF UpdatePresence
<1>14. ASSUME NEW c \in Connections, Answer(c) PROVE Kept'
  <2>1. Moves(c, "idle", 0)
    BY <1>14, EndMoves DEF Answer
  <2>2. \A b \in Connections : connection'[b] = "open" => connection[b] = "open"
    BY <1>14 DEF Answer
  <2>3. CASE connection[c] = "open" /\ broken' = broken
             /\ token' = IF call[c].fresh = 0 THEN token
                         ELSE [token EXCEPT ![owner[c]] = call[c].fresh]
    BY <1>14, <2>1, <2>2, <2>3, TokenAnswered DEF Answer, serverVars
  <2>4. CASE broken' = (broken \/ Forgets(c)) /\ token' = token
    BY <1>14, <2>1, <2>2, <2>4, GivenUp DEF Answer, Forgets, serverVars
  <2> QED
    BY <1>14, <2>3, <2>4 DEF Answer
<1>15. CASE Tick
  BY <1>15 DEF TypeOK, Tokens, Calls, Times, FreshTokens, IsNew, Early, Late, OneConnection, Kept,
         Tick, serverVars, ghostVars
<1>16. CASE Restart
  BY <1>16 DEF TypeOK, Tokens, Calls, Times, FreshTokens, IsNew, Early, Late, OneConnection, Kept,
         Restart, NoCall, Forgets, Fail
<1>17. CASE redis /\ RedisForgets
  BY <1>17 DEF TypeOK, Tokens, Calls, Times, FreshTokens, IsNew, Early, Late, OneConnection, Kept,
         RedisForgets, NoKey, Fail, serverVars
<1>18. CASE UNCHANGED vars
  BY <1>18 DEF TypeOK, Tokens, Calls, Times, FreshTokens, IsNew, Early, Late, OneConnection, Kept,
         vars
<1> QED
  BY <1>1, <1>2, <1>3, <1>4, <1>5, <1>6, <1>7, <1>8, <1>9, <1>10, <1>11, <1>12, <1>13, <1>14, <1>15, <1>16, <1>17, <1>18 DEF Next

LEMMA InitInvariant == Init => IInv
<1> SUFFICES ASSUME Init PROVE IInv
  OBVIOUS
<1>1. expires = <<>> /\ Len(expires) = 0 /\ Tokens = {0}
  BY DEF Init, Tokens
<1>2. TypeOK
  <2>1. NoCall \in Calls /\ NoKey \in [token : Tokens, until : Nat]
    BY <1>1 DEF NoCall, NoKey, Calls
  <2>2. expires \in Seq(Nat)
    BY <1>1
  <2>3. /\ call \in [Connections -> Calls]
        /\ connection \in [Connections -> {"new", "open", "closed"}]
        /\ token \in [Clients -> Tokens]
    BY <1>1, <2>1 DEF Init
  <2>4. key \in [token : Tokens, until : Nat] /\ stored \in Tokens /\ replaced \subseteq Tokens
    BY <1>1, <2>1 DEF Init
  <2>5. redis \in BOOLEAN /\ logged_in \in BOOLEAN /\ broken \in BOOLEAN
    BY DEF Init
  <2>6. /\ now \in Nat \ {0} /\ requests \in Nat /\ faults \in Nat
        /\ bound \in Connections \cup {NoConnection}
        /\ owner \in [Connections -> Clients]
    BY DEF Init
  <2> QED
    BY <2>2, <2>3, <2>4, <2>5, <2>6 DEF TypeOK
<1>3. Times /\ FreshTokens /\ OneConnection
  BY <1>1 DEF Init, NoCall, Times, FreshTokens, OneConnection
<1>4. Kept /\ KeyIsCurrent
  BY DEF Init, Kept, KeyIsCurrent
<1> QED
  BY <1>2, <1>3, <1>4 DEF IInv

-----------------------------------------------------------------------------
(* The inductive invariant. SomebodyMayReturn speaks of the times when no  *)
(* handler has the token last stored; Kept says where it is until then.    *)
THEOREM Invariance == Spec => []IInv
<1>1. IInv /\ [Next]_vars => IInv'
  BY TypeStep, TimesStep, FreshStep, OneConnectionStep, KeptStep, ReplacedStep DEF IInv
<1> QED
  BY <1>1, InitInvariant, PTL DEF Spec

(* Tokens, connections and handlers keep their types.                      *)
THEOREM TypeCorrectness == Spec => []TypeOK
<1>1. IInv => TypeOK
  BY DEF IInv
<1> QED
  BY <1>1, Invariance, PTL

(* What a step does to a handler that is now about to look up the session. *)
LEMMA LetThrough ==
  ASSUME IInv, redis, [Next]_vars, NEW c \in Connections,
         call'[c].pc = "session", call'[c].token \in replaced'
  PROVE  call[c].pc = "session"
<1> SUFFICES ASSUME call[c].pc # "session" PROVE FALSE
  OBVIOUS
<1> USE DEF IInv, TypeOK, Calls
<1>1. ASSUME NEW b \in Connections, b # c, call'[c] # call[c]
      PROVE  ~ (\/ HandleLogin(b) \/ HandleReconnect(b) \/ HandleSessionRefresh(b)
                \/ BindLogin(b) \/ ValidateToken(b) \/ RefuseSession(b)
                \/ RebindForReconnect(b) \/ RefreshToken(b) \/ StoreToken(b)
                \/ UpdatePresence(b) \/ Answer(b))
  BY <1>1 DEF HandleLogin, HandleReconnect, HandleSessionRefresh, Present, Begin, BindLogin,
       ValidateToken, RefuseSession, RebindForReconnect, RefreshToken, StoreToken,
       UpdatePresence, Answer, Issue, Goto, Refuse, EndCall
<1>2. call'[c] # call[c]
  OBVIOUS
<1>3. ASSUME ValidateToken(c) PROVE FALSE
  <2>1. CASE Accepts(call[c].token) /\ Goto(c, "session")
    <3>1. call'[c].token = key.token /\ replaced' = replaced
      BY <1>3, <2>1 DEF Accepts, Goto, ValidateToken, ghostVars
    <3> QED
      BY <3>1 DEF KeyIsCurrent
  <2>2. CASE EndCall(c)
    BY <2>2 DEF EndCall, NoCall
  <2> QED
    BY <1>3, <2>1, <2>2 DEF ValidateToken
<1>4. ~ (HandleLogin(c) \/ HandleReconnect(c) \/ HandleSessionRefresh(c))
  BY DEF HandleLogin, HandleReconnect, HandleSessionRefresh, Present, Begin
<1>5. ~ (BindLogin(c) \/ RefuseSession(c) \/ RebindForReconnect(c) \/ RefreshToken(c))
  <2>1. ~ (RefuseSession(c) \/ RebindForReconnect(c) \/ RefreshToken(c))
    BY DEF RefuseSession, RebindForReconnect, RefreshToken
  <2>2. ~ BindLogin(c)
    BY IssueMoves DEF BindLogin, OldConnection, Moves
  <2> QED
    BY <2>1, <2>2
<1>6. ~ (StoreToken(c) \/ UpdatePresence(c) \/ Answer(c))
  BY DEF StoreToken, UpdatePresence, Answer, Goto, Refuse, EndCall, NoCall
<1>7. ~ (Tick \/ RedisForgets \/ UNCHANGED vars)
  BY <1>2 DEF Tick, RedisForgets, vars
<1>8. ~ Restart
  <2>1. Restart => call'[c] = NoCall
    BY DEF Restart
  <2> QED
    BY <2>1 DEF NoCall
<1>9. \A b \in Connections : ~ (Open(b) \/ Close(b) \/ OnConnectionClosed(b))
  BY <1>2 DEF Open, Close, OnConnectionClosed
<1> QED
  BY <1>1, <1>2, <1>3, <1>4, <1>5, <1>6, <1>7, <1>8, <1>9 DEF Next

(* ValidateToken goes by the token in Redis, and StoreToken writes only    *)
(* tokens that have just been issued: one that has been overwritten there  *)
(* lets no handler through again, however late the others are.             *)
THEOREM NoReplacedTokenReturns == Spec => ReplacedTokensStayOut
<1>1. ASSUME IInv, [Next]_vars
      PROVE  \A c \in Connections : Overtaken(c)' => call[c].pc = "session"
  <2>1. redis' = redis
    BY <1>1 DEF Next, vars, serverVars, Open, Close, OnConnectionClosed, HandleLogin,
         HandleReconnect, HandleSessionRefresh, Present, Begin, BindLogin, ValidateToken,
         RefuseSession, RebindForReconnect, RefreshToken, StoreToken, UpdatePresence, Answer,
         Tick, Restart, RedisForgets
  <2> QED
    BY <1>1, <2>1, LetThrough DEF Overtaken
<1>2. IInv /\ [Next]_vars
      => [\A c \in Connections : Overtaken(c)' => call[c].pc = "session"]_vars
  BY <1>1
<1> QED
  BY <1>2, Invariance, PTL DEF Spec, ReplacedTokensStayOut

(* HandleLogin and HandleSessionRefresh leave the player a token that      *)
(* ValidateToken accepts for as long as Verify does, unless Redis failed   *)
(* or the answer was lost.                                                 *)
THEOREM TheLastTokenIsGood == Spec => []SomebodyMayReturn
<1>1. ASSUME IInv PROVE SomebodyMayReturn
  <2> SUFFICES ASSUME redis, stored # 0, ~broken, now <= expires[stored],
                      \A c \in Connections : call[c].fresh # stored
               PROVE  Accepts(stored) /\ \E d \in Clients : token[d] = stored
    BY DEF SomebodyMayReturn
  <2>1. key.token = stored /\ expires[stored] <= key.until /\ \E d \in Clients : token[d] = stored
    BY <1>1 DEF IInv, Kept
  <2>2. now \in Nat /\ expires[stored] \in Nat /\ key.until \in Nat
    BY <1>1 DEF IInv, TypeOK, Tokens
  <2> QED
    BY <2>1, <2>2 DEF Accepts
<1> QED
  BY <1>1, Invariance, PTL
=============================================================================
