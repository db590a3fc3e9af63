------------------------------ MODULE WsProxy ------------------------------
(***************************************************************************)
(* A WebSocket proxy of the gateway (RunWebSocketProxy of gateway/         *)
(* gateway_server.cpp with gateway/upstream_tcp_client.cpp), one for every *)
(* WebSocket: a thread that writes what is outbound, reads a message and   *)
(* sends it upstream on a connection of its own, and the reader of that    *)
(* connection, which turns packets into envelopes for the browser.  The    *)
(* thread reads when its socket holds bytes; a read takes a whole frame    *)
(* and whatever else the socket holds into the buffer of the stream, where *)
(* later reads find it but the look for bytes does not.                    *)
(*                                                                         *)
(* The game server at the other end is external: it answers the requests   *)
(* of a connection in turn, under their sequence number and with the       *)
(* request id it found in them (GameServer::OnMessage), and pushes with    *)
(* sequence number 0.  How an address is turned away is in GatewayServer.  *)
(***************************************************************************)
EXTENDS Integers, Sequences, FiniteSets

CONSTANTS
  Socks,      \* WebSockets
  MaxPushes   \* bounds the pushes of the game server on a connection

VARIABLES
  uplink,       \* frames from the browser, up to the proxy's socket
  buffered,     \* frames the stream has taken from the socket and not handed over
  downlink,     \* every envelope written to the browser
  connected,    \* the WebSockets that can still be written to
  pc,           \* where the proxy thread is
  upstream,     \* UpstreamTcpClient: lost, but still running_; ended: not any more
  notified,     \* upstream_disconnect_notified
  outbound,     \* the queue of envelopes to write
  pending_by_seq,  \* whom to answer: pairs of a sequence number and an id
  sent,         \* the request just sent upstream
  requests,     \* every packet sent upstream
  served,       \* how many of them the game server has taken
  packets,      \* every packet the game server has sent back
  read          \* how many of them the reader has taken

proxyVars == <<buffered, pc, upstream, notified, outbound, pending_by_seq, sent, requests, read>>
gameVars == <<served, packets>>

NoId == 0
Packet(seq, id) == [seq |-> seq, id |-> id]
NoPacket == Packet(0, NoId)

(* Envelopes of the gateway itself: the welcome and its errors.            *)
Own(reason) == [seq |-> 0, id |-> NoId, from |-> reason]
Relayed(packet, id) == [seq |-> packet.seq, id |-> id, from |-> "upstream"]

ProxyInit ==
  /\ buffered = [s \in Socks |-> <<>>]
  /\ downlink = [s \in Socks |-> <<>>]
  /\ connected = [s \in Socks |-> FALSE]
  /\ pc = [s \in Socks |-> "none"]
  /\ upstream = [s \in Socks |-> "closed"]
  /\ notified = [s \in Socks |-> FALSE]
  /\ outbound = [s \in Socks |-> <<>>]
  /\ pending_by_seq = [s \in Socks |-> {}]
  /\ sent = [s \in Socks |-> NoPacket]
  /\ requests = [s \in Socks |-> <<>>]
  /\ served = [s \in Socks |-> 0]
  /\ packets = [s \in Socks |-> <<>>]
  /\ read = [s \in Socks |-> 0]

-----------------------------------------------------------------------------
(* The proxy thread.                                                       *)

Goto(s, step) == pc' = [pc EXCEPT ![s] = step]

PushOutbound(s, envelope) == outbound' = [outbound EXCEPT ![s] = Append(@, envelope)]

(* upstream.Connect, made or not.                                          *)
Connect(s) ==
  \/ /\ upstream' = [upstream EXCEPT ![s] = "running"]
     /\ outbound' = [outbound EXCEPT ![s] = <<Own("welcome")>>]
  \/ /\ UNCHANGED upstream
     /\ outbound' = [outbound EXCEPT ![s] = <<Own("welcome"), Own("error")>>]

(* The upgrade is accepted.                                                *)
Accept(s) ==
  /\ pc[s] = "none"
  /\ Goto(s, "flush")
  /\ connected' = [connected EXCEPT ![s] = TRUE]
  /\ Connect(s)
  /\ UNCHANGED <<uplink, buffered, downlink, notified, pending_by_seq, sent, requests, read, gameVars>>

CloseIfRunning(s) ==  \* mutant of CloseUpstream
  upstream' = [upstream EXCEPT ![s] = IF @ = "ended" THEN @ ELSE "closed"]

(* upstream.Close, which closes the socket and joins the reader.           *)
CloseUpstream(s) == upstream' = [upstream EXCEPT ![s] = "closed"]

Flush(s) ==
  /\ pc[s] = "flush"
  /\ outbound[s] # <<>>
  /\ connected[s]
  /\ downlink' = [downlink EXCEPT ![s] = Append(@, Head(outbound[s]))]
  /\ outbound' = [outbound EXCEPT ![s] = Tail(@)]
  /\ UNCHANGED <<uplink, buffered, connected, pc, upstream, notified, pending_by_seq, sent, requests,
                 read, gameVars>>

WriteFails(s) ==
  /\ pc[s] = "flush"
  /\ outbound[s] # <<>>
  /\ ~connected[s]
  /\ CloseUpstream(s)
  /\ Goto(s, "ended")
  /\ UNCHANGED <<uplink, buffered, downlink, connected, notified, outbound, pending_by_seq, sent,
                 requests, read, gameVars>>

Flushed(s) ==
  /\ pc[s] = "flush"
  /\ outbound[s] = <<>>
  /\ Goto(s, "poll")
  /\ UNCHANGED <<uplink, buffered, downlink, connected, upstream, notified, outbound, pending_by_seq,
                 sent, requests, read, gameVars>>

RunningOnceConnected(s) == upstream[s] # "closed"  \* mutant of Running

(* upstream.running().                                                     *)
Running(s) == upstream[s] \in {"running", "lost"}

(* The socket holds nothing, whatever the buffer does: the browser is      *)
(* told, once, that upstream is gone.                                      *)
Idle(s) ==
  /\ pc[s] = "poll"
  /\ uplink[s] = <<>>
  /\ IF ~Running(s) /\ ~notified[s]
     THEN /\ PushOutbound(s, Own("upstream_disconnected"))
          /\ notified' = [notified EXCEPT ![s] = TRUE]
     ELSE UNCHANGED <<outbound, notified>>
  /\ Goto(s, "flush")
  /\ UNCHANGED <<uplink, buffered, downlink, connected, upstream, pending_by_seq, sent, requests,
                 read, gameVars>>

(* ws.read: the frame is at the front of the buffer, or else of the socket, *)
(* and then the frames behind it may come along.                           *)
NextFrame(s) == IF buffered[s] # <<>> THEN Head(buffered[s]) ELSE Head(uplink[s])

TakeFrame(s) ==
  \/ /\ buffered[s] # <<>>
     /\ buffered' = [buffered EXCEPT ![s] = Tail(@)]
     /\ UNCHANGED uplink
  \/ /\ buffered[s] = <<>>
     /\ \E n \in 1..Len(uplink[s]) :
          /\ buffered' = [buffered EXCEPT ![s] = SubSeq(uplink[s], 2, n)]
          /\ uplink' = [uplink EXCEPT ![s] = SubSeq(@, n + 1, Len(@))]

(* The browser has closed the WebSocket or cannot be read any more, or the *)
(* address is turned away: then the error is queued and never written, and *)
(* the WebSocket is closed from here.                                      *)
Leave(s) ==
  /\ pc[s] = "poll"
  /\ uplink[s] # <<>>
  /\ TakeFrame(s)
  /\ \/ /\ NextFrame(s).close \/ ~connected[s]
        /\ UNCHANGED outbound /\ Goto(s, "ended")
     \/ /\ ~NextFrame(s).close
        /\ PushOutbound(s, Own("error")) /\ Goto(s, "ws_close")
  /\ CloseUpstream(s)
  /\ connected' = [connected EXCEPT ![s] = FALSE]
  /\ UNCHANGED <<downlink, notified, pending_by_seq, sent, requests, read, gameVars>>

(* ws.close returns: the browser has answered or is gone.  What it has     *)
(* sent meanwhile is dropped.                                              *)
CloseReturns(s) ==
  /\ pc[s] = "ws_close"
  /\ Goto(s, "ended")
  /\ buffered' = [buffered EXCEPT ![s] = <<>>]
  /\ uplink' = [uplink EXCEPT ![s] = <<>>]
  /\ UNCHANGED <<downlink, connected, upstream, notified, outbound, pending_by_seq, sent,
                 requests, read, gameVars>>

Closes(frames) == \E i \in DOMAIN frames : frames[i].close

(* It meets the close frame of a browser that was leaving too.             *)
CloseCrosses(s) == (Closes(buffered[s]) \/ Closes(uplink[s])) /\ CloseReturns(s)

(* A message that cannot be sent on: 503 without upstream, 502 when the    *)
(* write fails on a lost connection.  The loop goes on.                    *)
Refuse(s) ==
  /\ pc[s] = "poll"
  /\ uplink[s] # <<>> /\ ~NextFrame(s).close
  /\ upstream[s] # "running"
  /\ TakeFrame(s)
  /\ PushOutbound(s, Own("error"))
  /\ Goto(s, "flush")
  /\ UNCHANGED <<downlink, connected, upstream, notified, pending_by_seq, sent, requests,
                 read, gameVars>>

(* upstream.SendPacket that succeeds.                                      *)
WriteUpstream(s, packet) ==
  /\ Running(s)
  /\ requests' = [requests EXCEPT ![s] = Append(@, packet)]
  /\ sent' = [sent EXCEPT ![s] = packet]

SendUpstream(s) ==
  LET frame == NextFrame(s)
  IN
  /\ pc[s] = "poll"
  /\ uplink[s] # <<>> /\ ~frame.close
  /\ TakeFrame(s)
  /\ WriteUpstream(s, Packet(frame.seq, frame.id))
  /\ Goto(s, "remember")
  /\ UNCHANGED <<downlink, connected, upstream, notified, outbound, pending_by_seq, read,
                 gameVars>>

(* Only now is it written down whom to answer.                             *)
Remember(s) ==
  /\ pc[s] = "remember"
  /\ pending_by_seq' =
       [pending_by_seq EXCEPT ![s] = {p \in @ : p.seq # sent[s].seq} \cup {sent[s]}]
  /\ sent' = [sent EXCEPT ![s] = NoPacket]
  /\ Goto(s, "flush")
  /\ UNCHANGED <<uplink, buffered, downlink, connected, upstream, notified, outbound, requests, read,
                 gameVars>>

-----------------------------------------------------------------------------
(* The reader of the upstream connection.                                  *)

RequestRemembered(packet, remembered) ==  \* mutant of RequestOf
  IF remembered # {} THEN (CHOOSE p \in remembered : TRUE).id ELSE NoId

(* Whom a packet is for: the id in its body or else the one remembered.    *)
RequestOf(packet, remembered) ==
  IF packet.id # NoId THEN packet.id
  ELSE IF remembered # {} THEN (CHOOSE p \in remembered : TRUE).id ELSE NoId

OnPacket(s) ==
  LET packet == packets[s][read[s] + 1]
      remembered == {p \in pending_by_seq[s] : p.seq = packet.seq}
  IN
  /\ Running(s)
  /\ read[s] < Len(packets[s])
  /\ read' = [read EXCEPT ![s] = @ + 1]
  /\ pending_by_seq' = [pending_by_seq EXCEPT ![s] = @ \ remembered]
  /\ PushOutbound(s, Relayed(packet, RequestOf(packet, remembered)))
  /\ UNCHANGED <<uplink, buffered, downlink, connected, pc, upstream, notified, sent, requests,
                 gameVars>>

(* The connection is closed by the game server or lost, and then the       *)
(* reader finds out.                                                       *)
UpstreamLost(s) ==
  /\ upstream[s] = "running"
  /\ upstream' = [upstream EXCEPT ![s] = "lost"]
  /\ UNCHANGED <<uplink, buffered, downlink, connected, pc, notified, outbound, pending_by_seq, sent,
                 requests, read, gameVars>>

ReaderEnds(s) ==
  /\ upstream[s] = "lost"
  /\ upstream' = [upstream EXCEPT ![s] = "ended"]
  /\ UNCHANGED <<uplink, buffered, downlink, connected, pc, notified, outbound, pending_by_seq, sent,
                 requests, read, gameVars>>

-----------------------------------------------------------------------------
(* The game server, external.                                              *)

Answer(s) ==
  /\ upstream[s] = "running"
  /\ served[s] < Len(requests[s])
  /\ served' = [served EXCEPT ![s] = @ + 1]
  /\ packets' = [packets EXCEPT ![s] = Append(@, requests[s][served[s] + 1])]
  /\ UNCHANGED <<uplink, downlink, connected, proxyVars>>

Push(s) ==
  /\ upstream[s] = "running"
  /\ Len(packets[s]) - served[s] < MaxPushes
  /\ packets' = [packets EXCEPT ![s] = Append(@, NoPacket)]
  /\ UNCHANGED <<uplink, downlink, connected, proxyVars, served>>

-----------------------------------------------------------------------------
ProxyStep(s) ==
  \/ Flush(s) \/ WriteFails(s) \/ Flushed(s)
  \/ Idle(s) \/ Leave(s) \/ CloseCrosses(s) \/ Refuse(s) \/ SendUpstream(s) \/ Remember(s)

ReaderStep(s) == OnPacket(s) \/ ReaderEnds(s)

GameStep(s) == Answer(s) \/ Push(s)
=============================================================================
