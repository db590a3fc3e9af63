--------------------------- MODULE GatewayServer ---------------------------
(***************************************************************************)
(* The gateway's connection threads and what they share                    *)
(* (gateway/gateway_server.cpp): the accept loop starts a thread for every *)
(* connection; the thread reads one HTTP request, checks its origin and    *)
(* the ban of its address, and then either becomes a WebSocket proxy,      *)
(* which holds one of the address's slots, or serves the request if the    *)
(* address has not asked too often.  Abuse bans the address.  Stop joins   *)
(* the accept loop, the metrics loop and then every connection thread,     *)
(* unless an exception has ended a loop and with it the gateway's run.     *)
(*                                                                         *)
(* Every section under security_mu_ is an action.  IsIpBanned and the      *)
(* rates read the clock just before the lock: a tick is so much longer     *)
(* than that gap that both are one step.  A ban does not: it counts from a *)
(* clock the thread has read before (since), and others may come between.  *)
(* A short HTTP response fits into the buffer of its socket: writing it    *)
(* waits for nobody.  What a proxy sends is the subject of WsProxy.        *)
(***************************************************************************)
EXTENDS Integers, Sequences, FiniteSets

CONSTANTS
  Ips,          \* client addresses
  Conns,        \* connections: bounds how many are accepted
  MaxWs,        \* security.max_ws_connections_per_ip
  MaxWsRate,    \* security.max_ws_messages_per_sec
  MaxHttpQps,   \* security.max_http_qps_per_ip
  BanTime,      \* security.ban_seconds_on_abuse, in ticks
  Second,       \* the window of the rates, in ticks
  MaxTime       \* bounds the clock

(* What GatewayConfigLoader accepts.                                       *)
ASSUME ConfigAssumption ==
  /\ MaxWs \in Nat \ {0} /\ MaxWsRate \in Nat \ {0} /\ MaxHttpQps \in Nat \ {0}
  /\ BanTime \in Nat \ {0} /\ Second \in Nat \ {0}

ASSUME BoundsAssumption == IsFiniteSet(Conns) /\ MaxTime \in Nat

VARIABLES
  now,                  \* NowMs(), in ticks
  running,              \* running_
  accept_loop,          \* of the accept thread: where it is in its loop
  metrics_loop,         \* of the metrics thread
  stopping,             \* of the thread that calls Stop
  session_threads,      \* session_threads_: the connections that have a thread
  pc,                   \* of every connection's thread
  client_ip,            \* the address the thread goes by
  inbound_window,       \* inbound_window_ms of the thread's proxy
  admitted_at,          \* when CheckAndConsumeHttpQps let the request pass
  since,                \* of a thread about to ban: the clock it has read
  ws_conn_by_ip,        \* slots taken, 0 without an entry
  http_rate_by_ip,      \* times of the requests let pass lately
  banned_until          \* banned_until_ms_by_ip_, 0 without an entry

threadVars == <<pc, client_ip, inbound_window, admitted_at, since>>
securityVars == <<ws_conn_by_ip, http_rate_by_ip, banned_until>>
serverVars == <<running, accept_loop, metrics_loop, stopping, session_threads>>
vars == <<now, serverVars, threadVars, securityVars>>

NoTime == -1

(* read: in http::read; acquire, http, ban, release: about to take         *)
(* security_mu_ for it; proxy: in the loop of RunWebSocketProxy; proxy_ban *)
(* and ws_close: on its way out of it, about to ban or in ws.close; serve: *)
(* the handler of a plain request; query: waiting for the game server's    *)
(* answer; failed: ended by an exception out of RunWebSocketProxy.         *)
Steps == {"new", "read", "acquire", "proxy", "proxy_ban", "ws_close", "release",
          "http", "ban", "serve", "query", "done", "failed"}

Init ==
  /\ now = 0
  /\ running = TRUE /\ stopping = "no"
  /\ accept_loop \in {"check", "ended"}   \* ended: it cannot listen
  /\ metrics_loop = "running"
  /\ session_threads = {}
  /\ pc = [c \in Conns |-> "new"]
  /\ client_ip \in [Conns -> Ips]
  /\ inbound_window = [c \in Conns |-> <<>>]
  /\ admitted_at = [c \in Conns |-> NoTime]
  /\ since = [c \in Conns |-> NoTime]
  /\ ws_conn_by_ip = [ip \in Ips |-> 0]
  /\ http_rate_by_ip = [ip \in Ips |-> <<>>]
  /\ banned_until = [ip \in Ips |-> 0]

Tick ==
  /\ now < MaxTime
  /\ now' = now + 1
  /\ UNCHANGED <<serverVars, threadVars, securityVars>>

-----------------------------------------------------------------------------
(* The sections under security_mu_, for an address.                        *)

IsBanned(ip) == banned_until[ip] > now

IsIpBannedOnce(ip) == banned_until' = [banned_until EXCEPT ![ip] = 0]  \* mutant of IsIpBanned

(* IsIpBanned: an entry whose time has come is erased.                     *)
IsIpBanned(ip) ==
  banned_until' = IF IsBanned(ip) THEN banned_until ELSE [banned_until EXCEPT ![ip] = 0]

(* BanIp: whatever stands there is overwritten.                            *)
BanIp(ip, now_ms) == banned_until' = [banned_until EXCEPT ![ip] = now_ms + BanTime]

ExpiredEarly(window) == {i \in 1..Len(window) : now - window[i] >= Second - 1}  \* mutant of Expired

(* A window of times without those a second old, which are at its front.   *)
Expired(window) == {i \in 1..Len(window) : \A j \in 1..i : now - window[j] >= Second}

Recent(window) == SubSeq(window, Cardinality(Expired(window)) + 1, Len(window))

HasWsSlotAtLimit(ip) == ws_conn_by_ip[ip] <= MaxWs  \* mutant of HasWsSlot

HasWsSlot(ip) == ws_conn_by_ip[ip] < MaxWs

ReleaseWsSlotTwice(ip) == ws_conn_by_ip' = [ws_conn_by_ip EXCEPT ![ip] = @ - 2]  \* mutant of ReleaseWsSlot

ReleaseWsSlot(ip) ==
  ws_conn_by_ip' = [ws_conn_by_ip EXCEPT ![ip] = IF @ > 0 THEN @ - 1 ELSE 0]

-----------------------------------------------------------------------------
(* The thread of a connection.                                             *)

Goto(c, step) == pc' = [pc EXCEPT ![c] = step]

threadLocals == <<client_ip, inbound_window, admitted_at, since>>

GotoBan(c, step) == Goto(c, step) /\ since' = [since EXCEPT ![c] = now]

(* The request could not be read, or it is refused before anything shared  *)
(* is looked at: its origin is not allowed.                                *)
RefuseEarly(c) ==
  /\ pc[c] = "read"
  /\ Goto(c, "done")
  /\ UNCHANGED <<now, serverVars, threadLocals, securityVars>>

(* A request is read and passes the origin check; the ban of its address   *)
(* is looked up.  A banned one gets 429, OPTIONS gets 204 and an upgrade   *)
(* without an origin 403: they end here.                                   *)
Receive(c) ==
  /\ pc[c] = "read"
  /\ IsIpBanned(client_ip[c])
  /\ \/ Goto(c, "done")
     \/ ~IsBanned(client_ip[c]) /\ \E next \in {"acquire", "http"} : Goto(c, next)
  /\ UNCHANGED <<now, serverVars, threadLocals, ws_conn_by_ip, http_rate_by_ip>>

TryAcquireWsSlot(c) ==
  /\ pc[c] = "acquire"
  /\ IF HasWsSlot(client_ip[c])
     THEN /\ ws_conn_by_ip' = [ws_conn_by_ip EXCEPT ![client_ip[c]] = @ + 1]
          /\ UNCHANGED since
          /\ Goto(c, "proxy")
     ELSE UNCHANGED ws_conn_by_ip /\ GotoBan(c, "ban")
  /\ UNCHANGED <<now, serverVars, client_ip, inbound_window, admitted_at,
                 http_rate_by_ip, banned_until>>

CheckAndConsumeHttpQps(c) ==
  LET ip == client_ip[c]
      window == Recent(http_rate_by_ip[ip])
  IN
  /\ pc[c] = "http"
  /\ IF Len(window) >= MaxHttpQps
     THEN /\ http_rate_by_ip' = [http_rate_by_ip EXCEPT ![ip] = window]
          /\ UNCHANGED admitted_at
          /\ GotoBan(c, "ban")
     ELSE /\ http_rate_by_ip' = [http_rate_by_ip EXCEPT ![ip] = Append(window, now)]
          /\ admitted_at' = [admitted_at EXCEPT ![c] = now]
          /\ UNCHANGED since
          /\ Goto(c, "serve")
  /\ UNCHANGED <<now, serverVars, client_ip, inbound_window, ws_conn_by_ip, banned_until>>

Banned(c, step) == Goto(c, step) /\ since' = [since EXCEPT ![c] = NoTime]

(* The address is banned and the request refused with 429.  The clock has  *)
(* been read after the limit was met and before the lock was free.         *)
Ban(c) ==
  /\ pc[c] = "ban"
  /\ \E now_ms \in since[c]..now : BanIp(client_ip[c], now_ms)
  /\ Banned(c, "done")
  /\ UNCHANGED <<now, serverVars, client_ip, inbound_window, admitted_at,
                 ws_conn_by_ip, http_rate_by_ip>>

(* A login ticket is issued or refused, or the route is unknown.           *)
LoginTicket(c) ==
  /\ pc[c] = "serve"
  /\ Goto(c, "done")
  /\ UNCHANGED <<now, serverVars, threadLocals, securityVars>>

(* A session refresh is refused, or the game server is asked for it over a *)
(* connection of its own.                                                  *)
SessionRefresh(c) ==
  /\ pc[c] = "serve"
  /\ \E next \in {"done", "query"} : Goto(c, next)
  /\ UNCHANGED <<now, serverVars, threadLocals, securityVars>>

Serve(c) == LoginTicket(c) \/ SessionRefresh(c)

(* QueryUpstreamPacket returns: connected or not, answered or timed out.   *)
QueryEnds(c) ==
  /\ pc[c] = "query"
  /\ Goto(c, "done")
  /\ UNCHANGED <<now, serverVars, threadLocals, securityVars>>

LeaveProxy(c) == inbound_window' = [inbound_window EXCEPT ![c] = <<>>]

(* The proxy has read a message: its loop goes on, or the address is       *)
(* banned by now, or this message is one too many.                         *)
ProxyReads(c) ==
  LET ip == client_ip[c]
      window == Recent(inbound_window[c])
  IN
  /\ pc[c] = "proxy"
  /\ IsIpBanned(ip)
  /\ \/ IsBanned(ip) /\ LeaveProxy(c) /\ Goto(c, "ws_close") /\ UNCHANGED since
     \/ /\ ~IsBanned(ip) /\ Len(window) >= MaxWsRate
        /\ LeaveProxy(c) /\ GotoBan(c, "proxy_ban")
     \/ /\ ~IsBanned(ip) /\ Len(window) < MaxWsRate
        /\ inbound_window' = [inbound_window EXCEPT ![c] = Append(window, now)]
        /\ UNCHANGED <<pc, since>>
  /\ UNCHANGED <<now, serverVars, client_ip, admitted_at, ws_conn_by_ip, http_rate_by_ip>>

(* The ban counts from the clock the window was examined at.               *)
ProxyBan(c) ==
  /\ pc[c] = "proxy_ban"
  /\ BanIp(client_ip[c], since[c])
  /\ Banned(c, "ws_close")
  /\ UNCHANGED <<now, serverVars, client_ip, inbound_window, admitted_at,
                 ws_conn_by_ip, http_rate_by_ip>>

(* RunWebSocketProxy returns: the upgrade was refused, the WebSocket cannot *)
(* be written, or its loop ends: the peer has closed it, or it cannot be   *)
(* read any more and is closed from here.                                  *)
ProxyReturns(c) ==
  /\ pc[c] = "proxy"
  /\ LeaveProxy(c)
  /\ \E step \in {"release", "ws_close"} : Goto(c, step)
  /\ UNCHANGED <<now, serverVars, client_ip, admitted_at, since, securityVars>>

(* ws.close returns: the peer has answered, or it is gone.  No time-out is  *)
(* set.                                                                    *)
ProxyCloses(c) ==
  /\ pc[c] = "ws_close"
  /\ Goto(c, "release")
  /\ UNCHANGED <<now, serverVars, threadLocals, securityVars>>

(* It throws (a thread or memory that is not to be had): the exception is  *)
(* thrown on and caught at the top of the thread.                          *)
ProxyThrows(c) ==
  /\ pc[c] = "proxy"
  /\ LeaveProxy(c)
  /\ Goto(c, "failed")
  /\ UNCHANGED <<now, serverVars, client_ip, admitted_at, since, securityVars>>

Release(c) ==
  /\ pc[c] = "release"
  /\ ReleaseWsSlot(client_ip[c])
  /\ Goto(c, "done")
  /\ UNCHANGED <<now, serverVars, threadLocals, http_rate_by_ip, banned_until>>

-----------------------------------------------------------------------------
(* The accept loop, the metrics loop and Stop.                             *)

CheckNothing ==  \* mutant of CheckRunning
  /\ accept_loop = "check"
  /\ accept_loop' = "accept"
  /\ UNCHANGED <<now, running, metrics_loop, stopping, session_threads, threadVars, securityVars>>

CheckRunning ==
  /\ accept_loop = "check"
  /\ accept_loop' = IF running THEN "accept" ELSE "ended"
  /\ UNCHANGED <<now, running, metrics_loop, stopping, session_threads, threadVars, securityVars>>

(* Somebody connects, or nobody does and the loop waits a little.          *)
Accept(c) ==
  /\ accept_loop = "accept"
  /\ pc[c] = "new"
  /\ accept_loop' = "check"
  /\ session_threads' = session_threads \cup {c}
  /\ Goto(c, "read")
  /\ UNCHANGED <<now, running, metrics_loop, stopping, threadLocals, securityVars>>

AcceptNobody ==
  /\ accept_loop = "accept"
  /\ accept_loop' = "check"
  /\ UNCHANGED <<now, running, metrics_loop, stopping, session_threads, threadVars, securityVars>>

(* Somebody connects and no thread is to be had for it: the connection is  *)
(* dropped, and the exception ends the loop and the gateway's run.         *)
AcceptThrows(c) ==
  /\ accept_loop = "accept"
  /\ pc[c] = "new"
  /\ accept_loop' = "ended"
  /\ running' = FALSE
  /\ Goto(c, "done")
  /\ UNCHANGED <<now, metrics_loop, stopping, session_threads, threadLocals, securityVars>>

(* The metrics loop finds running_ cleared.                                *)
MetricsEnds ==
  /\ metrics_loop = "running"
  /\ ~running
  /\ metrics_loop' = "ended"
  /\ UNCHANGED <<now, running, accept_loop, stopping, session_threads, threadVars, securityVars>>

(* A report cannot be built: this exception ends the gateway's run too.    *)
MetricsThrows ==
  /\ metrics_loop = "running"
  /\ metrics_loop' = "ended"
  /\ running' = FALSE
  /\ UNCHANGED <<now, accept_loop, stopping, session_threads, threadVars, securityVars>>

(* Stop joins nothing when running_ has been cleared before.               *)
Stop ==
  /\ stopping = "no"
  /\ running' = FALSE
  /\ stopping' = IF running THEN "join_accept" ELSE "returned"
  /\ UNCHANGED <<now, accept_loop, metrics_loop, session_threads, threadVars, securityVars>>

JoinAcceptAtOnce ==  \* mutant of JoinAccept
  /\ stopping = "join_accept"
  /\ stopping' = "join_metrics"
  /\ UNCHANGED <<now, running, accept_loop, metrics_loop, session_threads, threadVars, securityVars>>

JoinAccept ==
  /\ stopping = "join_accept"
  /\ accept_loop = "ended"
  /\ stopping' = "join_metrics"
  /\ UNCHANGED <<now, running, accept_loop, metrics_loop, session_threads, threadVars, securityVars>>

(* The metrics thread is joined and the connection threads are taken over. *)
JoinMetrics ==
  /\ stopping = "join_metrics"
  /\ metrics_loop = "ended"
  /\ stopping' = "join_sessions"
  /\ UNCHANGED <<now, running, accept_loop, metrics_loop, session_threads, threadVars, securityVars>>

Ended(c) == pc[c] \in {"done", "failed"}

JoinSessions ==
  /\ stopping = "join_sessions"
  /\ \A c \in session_threads : Ended(c)
  /\ stopping' = "stopped"
  /\ session_threads' = {}
  /\ UNCHANGED <<now, running, accept_loop, metrics_loop, threadVars, securityVars>>

(* What a thread does of its own accord, and what waits for its peer.      *)
ThreadStep(c) ==
  \/ TryAcquireWsSlot(c)
  \/ CheckAndConsumeHttpQps(c)
  \/ Ban(c)
  \/ Serve(c)
  \/ QueryEnds(c)
  \/ ProxyBan(c)
  \/ Release(c)

PeerStep(c) ==
  \/ RefuseEarly(c)
  \/ Receive(c)
  \/ ProxyReads(c)
  \/ ProxyReturns(c)
  \/ ProxyCloses(c)
  \/ ProxyThrows(c)

ServerStep ==
  \/ CheckRunning \/ AcceptNobody
  \/ MetricsEnds \/ MetricsThrows
  \/ JoinAccept \/ JoinMetrics \/ JoinSessions

Next ==
  \/ Tick
  \/ Stop
  \/ ServerStep
  \/ \E c \in Conns : Accept(c) \/ AcceptThrows(c) \/ ThreadStep(c) \/ PeerStep(c)

Spec == Init /\ [][Next]_vars

(* Threads run; nobody can make a peer send a request, close or leave.     *)
FairSpec ==
  /\ Spec
  /\ WF_vars(CheckRunning) /\ WF_vars(AcceptNobody)
  /\ WF_vars(MetricsEnds)
  /\ WF_vars(JoinAccept) /\ WF_vars(JoinMetrics) /\ WF_vars(JoinSessions)
  /\ \A c \in Conns : WF_vars(ThreadStep(c))

-----------------------------------------------------------------------------
(* Properties.                                                             *)

TypeOK ==
  /\ now \in Nat
  /\ running \in BOOLEAN
  /\ accept_loop \in {"check", "accept", "ended"}
  /\ metrics_loop \in {"running", "ended"}
  /\ stopping \in {"no", "join_accept", "join_metrics", "join_sessions", "stopped", "returned"}
  /\ session_threads \subseteq Conns
  /\ pc \in [Conns -> Steps]
  /\ client_ip \in [Conns -> Ips]
  /\ inbound_window \in [Conns -> Seq(Nat)]
  /\ admitted_at \in [Conns -> Nat \cup {NoTime}]
  /\ since \in [Conns -> Nat \cup {NoTime}]
  /\ ws_conn_by_ip \in [Ips -> Nat]
  /\ http_rate_by_ip \in [Ips -> Seq(Nat)]
  /\ banned_until \in [Ips -> Nat]

HoldsSlot(c) == pc[c] \in {"proxy", "proxy_ban", "ws_close", "release", "failed"}

SlotHolders(ip) == {c \in Conns : client_ip[c] = ip /\ HoldsSlot(c)}

(* ws_conn_by_ip_ counts the proxies of an address that have not given     *)
(* their slot back, those an exception ended among them: no slot is given  *)
(* back twice or taken by nobody, and no address has more proxies than     *)
(* max_ws_connections_per_ip, however requests and ends interleave.        *)
SlotsAreCounted ==
  \A ip \in Ips :
    /\ ws_conn_by_ip[ip] = Cardinality(SlotHolders(ip))
    /\ Cardinality(SlotHolders(ip)) <= MaxWs

(* In no second are more than max_http_qps_per_ip requests of an address   *)
(* let pass, whichever threads they came to.                               *)
QpsHolds ==
  \A ip \in Ips, c \in Conns :
    Cardinality({d \in Conns : /\ client_ip[d] = ip
                               /\ admitted_at[d] # NoTime
                               /\ admitted_at[d] \in admitted_at[c]..(admitted_at[c] + Second - 1)})
      <= MaxHttpQps

(* Threads about to ban an address that has been banned for longer since   *)
(* they read the clock.                                                    *)
Latecomers(ip) ==
  {c \in Conns : /\ client_ip[c] = ip
                 /\ pc[c] \in {"ban", "proxy_ban"}
                 /\ since[c] + BanTime < banned_until[ip]}

(* A ban that stands is never lifted, and only BanIp of a thread that had  *)
(* read the clock before the ban was set shortens it, to no less than a    *)
(* ban from that clock: not the requests that meet it, not IsIpBanned on   *)
(* other threads, not a released slot.                                     *)
BansStand ==
  [][\A ip \in Ips :
       IsBanned(ip) =>
         \/ banned_until'[ip] >= banned_until[ip]
         \/ \E c \in Latecomers(ip) :
              pc'[c] # pc[c] /\ banned_until'[ip] >= since[c] + BanTime]_vars

(* When Stop found the gateway running and has returned, the gateway runs  *)
(* no thread: none was started behind its back and none is still using the *)
(* tables and services about to be destroyed.                              *)
StoppedIsQuiet ==
  stopping = "stopped" =>
    /\ accept_loop = "ended" /\ metrics_loop = "ended"
    /\ \A c \in Conns : pc[c] = "new" \/ Ended(c)

(* Only a peer keeps Stop from returning: one that does not finish its     *)
(* request, one whose WebSocket stays open, or one that does not answer    *)
(* the close frame of a proxy that has turned it away.                     *)
OnlyPeersDelayStop ==
  (stopping # "no") ~>
    \/ stopping \in {"stopped", "returned"}
    \/ \E c \in Conns : pc[c] \in {"read", "proxy", "ws_close"}
=============================================================================
