------------------------------ MODULE WsClient ------------------------------
(***************************************************************************)
(* The web client's connection to the gateway (ddz_client/src/net/         *)
(* wsClient.ts): connecting, the promises of its requests, and what it     *)
(* does when the socket closes.  The client is an event loop: a call of    *)
(* its owner, a timer, and an event of a socket are one action each.       *)
(*                                                                         *)
(* The sockets, frames and answers are shared with WsProxy.  A frame       *)
(* carries its sequence number and the id of the request it was made for,  *)
(* which no two frames share; what else it says is left out, and so are    *)
(* the trace of frames and its listeners.                                  *)
(***************************************************************************)
EXTENDS Integers, Sequences, FiniteSets

CONSTANTS
  Socks,    \* WebSocket objects: bounds how many are made
  NoSock,   \* null
  MaxSeq    \* bounds the requests and heartbeats

ASSUME ClientAssumption == MaxSeq \in Nat /\ NoSock \notin Socks

VARIABLES
  status,             \* WsClient.status
  ws,                 \* WsClient.ws
  pending,            \* the keys of WsClient.pending, each with its timer
  nextSeq,            \* WsClient.nextSeq
  reconnectAttempt,   \* WsClient.reconnectAttempt > 0
  manuallyClosed,     \* WsClient.manuallyClosed
  reconnectTimer,     \* the reconnect timer is running
  heartbeatTimer,     \* the heartbeat timer is running
  promise,            \* what has become of the promise of each request
  answer,             \* the id of the request it was resolved for
  readyState,         \* of every WebSocket object
  uplink,             \* frames on their way to the gateway
  downlink,           \* every envelope the gateway has written
  received            \* how many of them the client has handled

clientVars == <<status, ws, pending, nextSeq, reconnectAttempt, manuallyClosed,
                reconnectTimer, heartbeatTimer, promise, answer>>

Seqs == 1..MaxSeq
NoRequest == 0

FirstSeqZero == 0  \* mutant of FirstSeq

(* Sequence number 0 marks what answers no request.                        *)
FirstSeq == 1

CloseFrame == [seq |-> 0, id |-> NoRequest, close |-> TRUE]
Frame(seq, id) == [seq |-> seq, id |-> id, close |-> FALSE]

ClientInit ==
  /\ status = "idle" /\ ws = NoSock
  /\ pending = {} /\ nextSeq = FirstSeq
  /\ reconnectAttempt = FALSE /\ manuallyClosed = FALSE
  /\ reconnectTimer = FALSE /\ heartbeatTimer = FALSE
  /\ promise = [seq \in Seqs |-> "unmade"]
  /\ answer = [seq \in Seqs |-> NoRequest]
  /\ readyState = [s \in Socks |-> "unmade"]
  /\ uplink = [s \in Socks |-> <<>>]
  /\ received = [s \in Socks |-> 0]

-----------------------------------------------------------------------------
(* Calls of its owner.                                                     *)

Busy == status \in {"connected", "connecting", "reconnecting"}

(* connect() of a client that is not busy; otherwise it returns at once.   *)
OpenSocket ==
  \E s \in Socks :
    /\ readyState[s] = "unmade"
    /\ readyState' = [readyState EXCEPT ![s] = "connecting"]
    /\ ws' = s
    /\ manuallyClosed' = FALSE
    /\ status' = IF reconnectAttempt THEN "reconnecting" ELSE "connecting"

Connect ==
  /\ ~Busy
  /\ OpenSocket
  /\ UNCHANGED <<pending, nextSeq, reconnectAttempt, reconnectTimer, heartbeatTimer,
                 promise, answer, uplink, received>>

RejectAndKeep ==  \* mutant of RejectAllPending
  /\ promise' = [seq \in Seqs |-> IF seq \in pending THEN "rejected" ELSE promise[seq]]
  /\ UNCHANGED pending

RejectAllPending ==
  /\ pending' = {}
  /\ promise' = [seq \in Seqs |-> IF seq \in pending THEN "rejected" ELSE promise[seq]]

(* disconnect(): the socket is closed behind the frames already sent.      *)
Disconnect ==
  /\ status # "disconnected"
  /\ manuallyClosed' = TRUE
  /\ reconnectTimer' = FALSE
  /\ heartbeatTimer' = FALSE
  /\ IF ws \in Socks /\ readyState[ws] \in {"connecting", "open"}
     THEN /\ readyState' = [readyState EXCEPT ![ws] = "closing"]
          /\ uplink' = IF readyState[ws] = "open"
                       THEN [uplink EXCEPT ![ws] = Append(@, CloseFrame)] ELSE uplink
     ELSE UNCHANGED <<readyState, uplink>>
  /\ ws' = NoSock
  /\ RejectAllPending
  /\ status' = "disconnected"
  /\ UNCHANGED <<nextSeq, reconnectAttempt, answer, received>>

(* Frames of a socket that is closing are dropped in silence.              *)
Send ==
  /\ ws # NoSock /\ status = "connected"
  /\ nextSeq \in Seqs
  /\ nextSeq' = nextSeq + 1
  /\ uplink' = IF readyState[ws] = "open"
               THEN [uplink EXCEPT ![ws] = Append(@, Frame(nextSeq, nextSeq))] ELSE uplink

SendRequest ==
  /\ Send
  /\ pending' = pending \cup {nextSeq}
  /\ promise' = [promise EXCEPT ![nextSeq] = "waiting"]
  /\ UNCHANGED <<status, ws, reconnectAttempt, manuallyClosed, reconnectTimer,
                 heartbeatTimer, answer, readyState, received>>

-----------------------------------------------------------------------------
(* Timers.                                                                 *)

TimesOutInSilence(seq) ==  \* mutant of RequestTimesOut
  /\ seq \in pending
  /\ pending' = pending \ {seq}
  /\ UNCHANGED <<status, ws, nextSeq, reconnectAttempt, manuallyClosed, reconnectTimer,
                 heartbeatTimer, promise, answer, readyState, uplink, received>>

RequestTimesOut(seq) ==
  /\ seq \in pending
  /\ pending' = pending \ {seq}
  /\ promise' = [promise EXCEPT ![seq] = "rejected"]
  /\ UNCHANGED <<status, ws, nextSeq, reconnectAttempt, manuallyClosed, reconnectTimer,
                 heartbeatTimer, answer, readyState, uplink, received>>

(* Nothing waits for the answer.                                           *)
SendFireAndForget ==
  /\ Send
  /\ UNCHANGED <<status, ws, pending, reconnectAttempt, manuallyClosed, reconnectTimer,
                 heartbeatTimer, promise, answer, readyState, received>>

Heartbeat == heartbeatTimer /\ SendFireAndForget

(* The reconnect timer calls connect(), as its owner does.                 *)
ReconnectTimer ==
  /\ reconnectTimer
  /\ reconnectTimer' = FALSE
  /\ IF Busy THEN UNCHANGED <<status, ws, manuallyClosed, readyState>> ELSE OpenSocket
  /\ UNCHANGED <<pending, nextSeq, reconnectAttempt, heartbeatTimer, promise, answer,
                 uplink, received>>

-----------------------------------------------------------------------------
(* Events of a socket, whichever socket the client holds by then.          *)

(* onopen, once the gateway has accepted the upgrade.                      *)
OnOpen(s) ==
  /\ readyState[s] = "connecting"
  /\ readyState' = [readyState EXCEPT ![s] = "open"]
  /\ reconnectAttempt' = FALSE
  /\ status' = "connected"
  /\ heartbeatTimer' = TRUE
  /\ UNCHANGED <<ws, pending, nextSeq, manuallyClosed, reconnectTimer, promise, answer,
                 uplink, received>>

(* onclose, after a failed connect, a close of either side or a loss.      *)
OnClose(s) ==
  /\ readyState[s] \in {"connecting", "open", "closing"}
  /\ readyState' = [readyState EXCEPT ![s] = "closed"]
  /\ heartbeatTimer' = FALSE
  /\ ws' = NoSock
  /\ RejectAllPending
  /\ IF manuallyClosed
     THEN status' = "disconnected" /\ UNCHANGED <<reconnectTimer, reconnectAttempt>>
     ELSE /\ status' = "reconnecting"
          /\ reconnectTimer' = TRUE
          /\ reconnectAttempt' = TRUE
  /\ UNCHANGED <<nextSeq, manuallyClosed, answer, uplink, received>>

ResolvesOldest(envelope) ==  \* mutant of Resolves
  {seq \in pending : envelope.seq > 0 /\ \A other \in pending : seq <= other}

(* The promise an envelope resolves.                                       *)
Resolves(envelope) == IF envelope.seq > 0 THEN {envelope.seq} \cap pending ELSE {}

(* onmessage: an envelope that answers no request goes to the listeners.   *)
OnMessage(s) ==
  LET envelope == downlink[s][received[s] + 1]
      resolved == Resolves(envelope)
  IN
  /\ readyState[s] = "open"
  /\ received[s] < Len(downlink[s])
  /\ received' = [received EXCEPT ![s] = @ + 1]
  /\ pending' = pending \ resolved
  /\ promise' = [seq \in Seqs |-> IF seq \in resolved THEN "resolved" ELSE promise[seq]]
  /\ answer' = [seq \in Seqs |-> IF seq \in resolved THEN envelope.id ELSE answer[seq]]
  /\ UNCHANGED <<status, ws, nextSeq, reconnectAttempt, manuallyClosed, reconnectTimer,
                 heartbeatTimer, readyState, uplink>>

=============================================================================
