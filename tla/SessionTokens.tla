--------------------------- MODULE SessionTokens ---------------------------
(***************************************************************************)
(* The session tokens of one player: LoginService::HandleLogin,            *)
(* ReconnectService::HandleReconnect and HandleSessionRefresh with         *)
(* AuthTokenService and the optional Redis store, and clients of the       *)
(* player that keep the token they were last given.                        *)
(*                                                                         *)
(* A token is a number, in the order of their issue; signatures and        *)
(* purposes keep other texts out and are left out.  Without Redis a token  *)
(* is good until it expires.  With Redis only the text under token:<id> is *)
(* good.  RunRedisCli starts a program for every command and goes by its   *)
(* exit code, so a command may fail before or after it took effect, and be *)
(* reported as done when Redis has refused it.  Redis, and what            *)
(* redis-cli makes of a refusal, are external.  The keys online: and       *)
(* session:, which nothing in the server reads, are one step that may      *)
(* fail.  A handler is a sequence of such steps, and the handlers of       *)
(* different connections interleave.                                       *)
(***************************************************************************)
EXTENDS Integers, Sequences, FiniteSets

CONSTANTS
  Clients,      \* the devices of the player
  Connections,
  NoConnection,
  Ttl,          \* token_ttl_seconds
  MaxTime,      \* bounds the clock
  MaxRequests,  \* bounds the requests that are not refused at once
  MaxFaults     \* bounds the failures of Redis and the restarts

ASSUME ConnectionsAssumption == NoConnection \notin Connections

(* GameServer::Start refuses a token_ttl_seconds that is not positive.     *)
ASSUME TtlAssumption == Ttl \in Nat \ {0}

VARIABLES
  redis,        \* redis_store_->enabled()
  now,
  expires,      \* expire_at_ms of every token issued
  key,          \* token:<player_id> in Redis
  logged_in,    \* player_to_session_ has the player
  bound,        \* the connection of his session when that is online
  connection,   \* "new", "open" or "closed"
  owner,        \* the client behind a connection
  token,        \* what a client has stored, 0 for none
  call,         \* where the handler of a connection is
  requests, faults,
  stored,       \* the token Redis has last been given
  replaced,     \* tokens another one has replaced in Redis
  broken        \* whether the client was not told of stored, or Redis lost it

serverVars == <<redis, expires, logged_in, bound>>
ghostVars == <<stored, replaced, broken>>
vars == <<redis, now, expires, key, logged_in, bound, connection, owner, token, call,
          requests, faults, stored, replaced, broken>>

NoKey == [token |-> 0, until |-> 0]
NoCall == [pc |-> "idle", kind |-> "none", token |-> 0, since |-> 0, fresh |-> 0,
           kick |-> NoConnection]

Init ==
  /\ redis \in BOOLEAN
  /\ now = 1
  /\ expires = <<>>
  /\ key = NoKey
  /\ logged_in = FALSE /\ bound = NoConnection
  /\ connection = [c \in Connections |-> "new"]
  /\ owner \in [Connections -> Clients]
  /\ token = [d \in Clients |-> 0]
  /\ call = [c \in Connections |-> NoCall]
  /\ requests = 0 /\ faults = 0
  /\ stored = 0 /\ replaced = {} /\ broken = FALSE

Goto(c, step) == call' = [call EXCEPT ![c].pc = step]
EndCall(c) == call' = [call EXCEPT ![c] = NoCall]

Fail == faults < MaxFaults /\ faults' = faults + 1

-----------------------------------------------------------------------------
(* Clients and their connections.                                          *)

(* A client gives its connection up before it makes another.               *)
Open(c) ==
  /\ connection[c] = "new"
  /\ \A b \in Connections : connection[b] = "open" => owner[b] # owner[c]
  /\ connection' = [connection EXCEPT ![c] = "open"]
  /\ UNCHANGED <<serverVars, now, key, owner, token, call, requests, faults, ghostVars>>

Close(c) ==
  /\ connection[c] = "open"
  /\ connection' = [connection EXCEPT ![c] = "closed"]
  /\ UNCHANGED <<serverVars, now, key, owner, token, call, requests, faults, ghostVars>>

(* MarkOfflineByConnection, once the worker is done with the connection.   *)
OnConnectionClosed(c) ==
  /\ connection[c] = "closed" /\ call[c].pc = "idle"
  /\ bound = c
  /\ bound' = NoConnection
  /\ UNCHANGED <<redis, expires, logged_in, now, key, connection, owner, token, call,
                 requests, faults, ghostVars>>

Begin(c, kind, presented, step) ==
  /\ connection[c] = "open" /\ call[c].pc = "idle"
  /\ requests < MaxRequests
  /\ requests' = requests + 1
  /\ call' = [call EXCEPT ![c] = [pc |-> step, kind |-> kind, token |-> presented,
                                  since |-> now, fresh |-> 0, kick |-> NoConnection]]
  /\ UNCHANGED <<serverVars, now, key, connection, owner, token, faults, ghostVars>>

(* With a good login ticket.                                               *)
HandleLogin(c) == Begin(c, "login", 0, "bind")

(* AuthTokenService::Verify: a token that has expired is refused.          *)
Verify(t) == t # 0 /\ now <= expires[t]

Present(c, kind) ==
  /\ Verify(token[owner[c]])
  /\ Begin(c, kind, token[owner[c]], IF redis THEN "validate" ELSE "session")

HandleReconnect(c) == Present(c, "reconnect")
HandleSessionRefresh(c) == Present(c, "refresh")

-----------------------------------------------------------------------------
(* The steps of the handlers.                                              *)

Accepts(t) == key.token = t /\ now <= key.until

(* A failing GET refuses a good token as well.                             *)
ValidateToken(c) ==
  /\ call[c].pc = "validate"
  /\ \/ Accepts(call[c].token) /\ Goto(c, "session")
     \/ EndCall(c)
  /\ UNCHANGED <<serverVars, now, key, connection, owner, token, requests, faults, ghostVars>>

OldConnection(c) == IF bound = c THEN NoConnection ELSE bound

IssueNextId(c, kick) ==  \* mutant of Issue
  /\ expires' = Append(expires, call[c].since + Ttl)
  /\ call' = [call EXCEPT ![c] = [@ EXCEPT !.pc = IF redis THEN "store" ELSE "answer",
                                          !.token = 0, !.fresh = Len(expires') + 1,
                                          !.kick = kick]]

(* IssueSessionToken: the token expires Ttl after the handler was called.  *)
(* It touches nothing that is shared, and is part of the step before it.   *)
Issue(c, kick) ==
  /\ expires' = Append(expires, call[c].since + Ttl)
  /\ call' = [call EXCEPT ![c] = [@ EXCEPT !.pc = IF redis THEN "store" ELSE "answer",
                                          !.token = 0, !.fresh = Len(expires'),
                                          !.kick = kick]]

BindLogin(c) ==
  /\ call[c].pc = "bind"
  /\ logged_in' = TRUE /\ bound' = c
  /\ Issue(c, OldConnection(c))
  /\ UNCHANGED <<redis, now, key, connection, owner, token, requests, faults, ghostVars>>

(* GetSessionByPlayer finds none after a restart; a request for another    *)
(* room than the session's is refused as well.                             *)
RefuseSession(c) ==
  /\ call[c].pc = "session"
  /\ EndCall(c)
  /\ UNCHANGED <<serverVars, now, key, connection, owner, token, requests, faults, ghostVars>>

RebindForReconnect(c) ==
  /\ call[c].pc = "session" /\ call[c].kind = "reconnect"
  /\ logged_in
  /\ bound' = c
  /\ call' = [call EXCEPT ![c] = [@ EXCEPT !.pc = IF redis THEN "presence" ELSE "answer",
                                          !.token = 0, !.kick = OldConnection(c)]]
  /\ UNCHANGED <<redis, expires, logged_in, now, key, connection, owner, token, requests,
                 faults, ghostVars>>

RefreshKeepsToken(c) ==  \* mutant of RefreshToken
  /\ call[c].pc = "session" /\ call[c].kind = "refresh"
  /\ logged_in
  /\ call' = [call EXCEPT ![c] = [@ EXCEPT !.pc = IF redis THEN "store" ELSE "answer",
                                          !.token = 0, !.fresh = call[c].token]]
  /\ UNCHANGED <<serverVars, now, key, connection, owner, token, requests, faults, ghostVars>>

RefreshToken(c) ==
  /\ call[c].pc = "session" /\ call[c].kind = "refresh"
  /\ logged_in
  /\ Issue(c, NoConnection)
  /\ UNCHANGED <<redis, logged_in, bound, now, key, connection, owner, token, requests,
                 faults, ghostVars>>

SetKeyInSeconds(t) ==  \* mutant of SetKey
  /\ key' = [token |-> t, until |-> now]
  /\ stored' = t
  /\ replaced' = replaced \cup ({key.token} \ {0})

(* PSETEX, with a time to live from now.                                   *)
SetKey(t) ==
  /\ key' = [token |-> t, until |-> now + Ttl]
  /\ stored' = t
  /\ replaced' = replaced \cup ({key.token} \ {0})

(* The answer to a request whose token could not be stored has none.       *)
Refuse(c) == call' = [call EXCEPT ![c].pc = "answer", ![c].fresh = 0]

StoreToken(c) ==
  /\ call[c].pc = "store"
  /\ \/ SetKey(call[c].fresh) /\ Goto(c, "presence") /\ broken' = FALSE /\ UNCHANGED faults
     \/ Fail /\ SetKey(call[c].fresh) /\ Refuse(c) /\ broken' = TRUE
     \/ Fail /\ Refuse(c) /\ UNCHANGED <<key, ghostVars>>
     \/ Fail /\ Goto(c, "presence") /\ broken' = TRUE /\ UNCHANGED <<key, stored, replaced>>
  /\ UNCHANGED <<serverVars, now, connection, owner, token, requests>>

(* A token that was stored and will never be told, if it is the last one.  *)
Forgets(c) == call[c].fresh # 0 /\ call[c].fresh = stored

(* SetOnline and UpsertSession.                                            *)
UpdatePresence(c) ==
  /\ call[c].pc = "presence"
  /\ \/ Goto(c, "answer") /\ UNCHANGED <<faults, broken>>
     \/ Fail /\ Refuse(c) /\ broken' = (broken \/ Forgets(c))
  /\ UNCHANGED <<serverVars, now, key, connection, owner, token, requests, stored, replaced>>

(* Whatever the code of the answer, the old connection is closed; then the *)
(* answer is sent, and the client may be gone or have given it up.         *)
Answer(c) ==
  /\ call[c].pc = "answer"
  /\ EndCall(c)
  /\ connection' = [b \in Connections |->
                      IF b = call[c].kick /\ connection[b] = "open" THEN "closed"
                                                                    ELSE connection[b]]
  /\ \/ /\ connection[c] = "open"
        /\ token' = IF call[c].fresh = 0 THEN token ELSE [token EXCEPT ![owner[c]] = call[c].fresh]
        /\ UNCHANGED broken
     \/ /\ broken' = (broken \/ Forgets(c))
        /\ UNCHANGED token
  /\ UNCHANGED <<serverVars, now, key, owner, requests, faults, stored, replaced>>

-----------------------------------------------------------------------------
(* Time, and what happens to the server and to Redis.                      *)

Tick ==
  /\ now < MaxTime
  /\ now' = now + 1
  /\ UNCHANGED <<serverVars, key, connection, owner, token, call, requests, faults, ghostVars>>

(* Sessions are in memory; tokens are signed with a configured secret and  *)
(* stay good.                                                              *)
Restart ==
  /\ Fail
  /\ logged_in' = FALSE /\ bound' = NoConnection
  /\ connection' = [c \in Connections |->
                      IF connection[c] = "open" THEN "closed" ELSE connection[c]]
  /\ broken' = (broken \/ \E c \in Connections : Forgets(c))
  /\ call' = [c \in Connections |-> NoCall]
  /\ UNCHANGED <<redis, expires, now, key, owner, token, requests, stored, replaced>>

RedisForgets ==
  /\ Fail
  /\ key' = NoKey
  /\ broken' = TRUE
  /\ UNCHANGED <<serverVars, now, connection, owner, token, call, requests, stored, replaced>>

Next ==
  \/ \E c \in Connections :
       \/ Open(c) \/ Close(c) \/ OnConnectionClosed(c)
       \/ HandleLogin(c) \/ HandleReconnect(c) \/ HandleSessionRefresh(c)
       \/ BindLogin(c) \/ ValidateToken(c) \/ RefuseSession(c) \/ RebindForReconnect(c)
       \/ RefreshToken(c) \/ StoreToken(c) \/ UpdatePresence(c) \/ Answer(c)
  \/ Tick
  \/ Restart
  \/ redis /\ RedisForgets

Spec == Init /\ [][Next]_vars

-----------------------------------------------------------------------------
(* Properties.                                                             *)

Tokens == 0..Len(expires)

Calls ==
  [pc : {"idle", "bind", "validate", "session", "store", "presence", "answer"},
   kind : {"none", "login", "reconnect", "refresh"},
   token : Tokens, since : Nat, fresh : Tokens, kick : Connections \cup {NoConnection}]

TypeOK ==
  /\ redis \in BOOLEAN
  /\ now \in Nat \ {0}
  /\ expires \in Seq(Nat)
  /\ key \in [token : Tokens, until : Nat]
  /\ logged_in \in BOOLEAN
  /\ bound \in Connections \cup {NoConnection}
  /\ connection \in [Connections -> {"new", "open", "closed"}]
  /\ owner \in [Connections -> Clients]
  /\ token \in [Clients -> Tokens]
  /\ call \in [Connections -> Calls]
  /\ requests \in Nat /\ faults \in Nat
  /\ stored \in Tokens
  /\ replaced \subseteq Tokens
  /\ broken \in BOOLEAN

(* The token Redis was last given is kept by a client of the player and    *)
(* accepted from it for as long as it has not expired, whatever else was   *)
(* under way, unless its answer was lost or Redis failed; and the next     *)
(* token that is stored and answered makes good for that.                  *)
SomebodyMayReturn ==
  /\ redis /\ stored # 0 /\ ~broken
  /\ now <= expires[stored]
  /\ \A c \in Connections : call[c].fresh # stored
  => Accepts(stored) /\ \E d \in Clients : token[d] = stored

(* The handler of c goes on with a token that has been replaced in Redis.  *)
Overtaken(c) == redis /\ call[c].pc = "session" /\ call[c].token \in replaced

(* Once a login or a refresh has replaced a token in Redis, no handler is  *)
(* let through with it any more: ValidateToken turns it away.  A handler   *)
(* that had passed ValidateToken before the replacement is not stopped: it *)
(* still rebinds the session for the client of the old token, or replaces  *)
(* the newer token by another.                                             *)
ReplacedTokensStayOut ==
  [][\A c \in Connections : Overtaken(c)' => call[c].pc = "session"]_vars

=============================================================================
