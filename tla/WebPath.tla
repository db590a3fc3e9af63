------------------------------ MODULE WebPath ------------------------------
(***************************************************************************)
(* The path of a request from the web client to the game server and back:  *)
(* WsClient and a WsProxy for each of its WebSockets, joined by the frames *)
(* between them.  A WebSocket may be refused, closed by either side or     *)
(* lost without a word at any time, and so may the upstream connection.    *)
(***************************************************************************)
EXTENDS WsClient

CONSTANTS
  MaxPushes   \* see WsProxy

ASSUME PathAssumption == MaxPushes \in Nat

VARIABLES buffered, connected, pc, upstream, notified, outbound, pending_by_seq, sent, requests,
          served, packets, read   \* see WsProxy

Proxy == INSTANCE WsProxy

proxyVars == <<buffered, pc, upstream, notified, outbound, pending_by_seq, sent, requests, read>>
gatewayVars == <<downlink, connected, proxyVars, served, packets>>
vars == <<clientVars, readyState, uplink, received, gatewayVars>>

Init == ClientInit /\ Proxy!ProxyInit

ClientStep ==
  /\ \/ Connect
     \/ Disconnect
     \/ SendRequest
     \/ Heartbeat
     \/ ReconnectTimer
     \/ \E seq \in Seqs : RequestTimesOut(seq)
  /\ UNCHANGED gatewayVars

Deliver(s) == OnMessage(s) /\ UNCHANGED gatewayVars

(* The browser learns that the gateway has accepted the upgrade.           *)
Opened(s) ==
  /\ pc[s] # "none" /\ connected[s]
  /\ OnOpen(s)
  /\ UNCHANGED gatewayVars

(* The WebSocket is closed for good; the gateway may not know.             *)
Closed(s) ==
  /\ OnClose(s)
  /\ connected' = [connected EXCEPT ![s] = FALSE]
  /\ UNCHANGED <<downlink, proxyVars, served, packets>>

GatewayStep(s) ==
  /\ \/ Proxy!ProxyStep(s)
     \/ Proxy!ReaderStep(s)
  /\ UNCHANGED <<clientVars, readyState, received>>

Accepted(s) ==
  /\ readyState[s] = "connecting"
  /\ Proxy!Accept(s)
  /\ UNCHANGED <<clientVars, readyState, received>>

ServerStep(s) ==
  /\ Proxy!GameStep(s) \/ Proxy!UpstreamLost(s) \/ Proxy!CloseReturns(s)
  /\ UNCHANGED <<clientVars, readyState, received>>

Next ==
  \/ ClientStep
  \/ \E s \in Socks :
       \/ Opened(s) \/ Deliver(s) \/ Closed(s)
       \/ Accepted(s) \/ GatewayStep(s) \/ ServerStep(s)

Spec == Init /\ [][Next]_vars

(* Timers go off, the threads of the gateway run and a WebSocket that is   *)
(* being opened gets there; nobody makes the user, the game server or the  *)
(* network do anything, nor a browser answer a close frame.                *)
FairSpec ==
  /\ Spec
  /\ WF_vars(ReconnectTimer /\ UNCHANGED gatewayVars)
  /\ \A seq \in Seqs : WF_vars(RequestTimesOut(seq) /\ UNCHANGED gatewayVars)
  /\ \A s \in Socks :
       /\ WF_vars(Accepted(s)) /\ WF_vars(Opened(s))
       /\ WF_vars(Proxy!ProxyStep(s) /\ UNCHANGED <<clientVars, readyState, received>>)
       /\ WF_vars(Proxy!ReaderStep(s) /\ UNCHANGED <<clientVars, readyState, received>>)

-----------------------------------------------------------------------------
(* Properties.                                                             *)

Envelopes == [seq : Seqs \cup {0}, id : Seqs \cup {0},
              from : {"welcome", "error", "upstream_disconnected", "upstream"}]

TypeOK ==
  /\ status \in {"idle", "connecting", "connected", "reconnecting", "disconnected"}
  /\ ws \in Socks \cup {NoSock}
  /\ pending \subseteq Seqs
  /\ nextSeq \in 1..(MaxSeq + 1)
  /\ {reconnectAttempt, manuallyClosed, reconnectTimer, heartbeatTimer} \subseteq BOOLEAN
  /\ promise \in [Seqs -> {"unmade", "waiting", "resolved", "rejected"}]
  /\ answer \in [Seqs -> Seqs \cup {NoRequest}]
  /\ readyState \in [Socks -> {"unmade", "connecting", "open", "closing", "closed"}]
  /\ connected \in [Socks -> BOOLEAN]
  /\ pc \in [Socks -> {"none", "flush", "poll", "remember", "ws_close", "ended"}]
  /\ upstream \in [Socks -> {"closed", "running", "lost", "ended"}]
  /\ \A s \in Socks :
       /\ received[s] \in 0..Len(downlink[s])
       /\ served[s] \in 0..Len(requests[s])
       /\ read[s] \in 0..Len(packets[s])
       /\ \A i \in DOMAIN downlink[s] : downlink[s][i] \in Envelopes
       /\ \A i \in DOMAIN outbound[s] : outbound[s][i] \in Envelopes

(* A promise of sendRequest is resolved with the game server's answer to   *)
(* that very request, over time-outs, pushes, heartbeats and sockets.      *)
AnswersMatchRequests ==
  \A seq \in Seqs : promise[seq] = "resolved" =>
    /\ answer[seq] = seq
    /\ \E s \in Socks : Proxy!Packet(seq, seq) \in {packets[s][i] : i \in DOMAIN packets[s]}

(* The requests that can still be answered or time out are those whose     *)
(* promise is open: none is forgotten and none settled twice.              *)
PendingIsWaiting == pending = {seq \in Seqs : promise[seq] = "waiting"}

(* Every request settles, whatever becomes of the socket and the gateway.  *)
EveryRequestSettles ==
  \A seq \in Seqs : promise[seq] = "waiting" ~> promise[seq] # "waiting"

(* What is relayed in a queue of envelopes is the first taken of the       *)
(* packets that came back: place says where each of them stands.           *)
RelaysTheFirst(queue, taken, back) ==
  LET relayed == {j \in DOMAIN queue : queue[j].from = "upstream"}
  IN
  \E place \in [1..taken -> relayed] :
    /\ \A i, k \in 1..taken : i < k => place[i] < place[k]
    /\ \A j \in relayed : \E i \in 1..taken : place[i] = j
    /\ \A i \in 1..taken :
         queue[place[i]].seq = back[i].seq /\ queue[place[i]].id = back[i].id

(* What the reader took from the game server reaches the browser's queue   *)
(* once, in order, answers and pushes alike, each answer for its request,  *)
(* also when it overtakes the entry that says whom to answer.              *)
RelaysInOrder ==
  \A s \in Socks : RelaysTheFirst(downlink[s] \o outbound[s], read[s], packets[s])

(* When the browser closes the WebSocket, the proxy ends and closes its    *)
(* connection to the game server, whatever it was doing: unless the close  *)
(* frame comes into the stream's buffer along with an earlier frame, where *)
(* nothing looks for it before more bytes arrive.                          *)
ProxyFollowsBrowser ==
  \A s \in Socks :
    Proxy!Closes(uplink[s]) ~>
      \/ pc[s] = "ended" /\ upstream[s] = "closed"
      \/ Proxy!Closes(buffered[s])

(* A browser whose proxy has lost the game server is told so, unless its   *)
(* WebSocket ends first.                                                   *)
UpstreamLossIsTold ==
  \A s \in Socks :
    (upstream[s] = "ended") ~>
      \/ \E i \in DOMAIN downlink[s] : downlink[s][i].from = "upstream_disconnected"
      \/ ~connected[s]
      \/ pc[s] = "ended"

(* Reconnecting after a loss of connection is a feature of the client      *)
(* (ddz_client/README.md): a client that is reconnecting, and is not out   *)
(* of the sockets that bound the model, goes on to another status.         *)
Reconnects ==
  (status = "reconnecting" /\ \E s \in Socks : readyState[s] = "unmade")
    ~> (status # "reconnecting")
=============================================================================
