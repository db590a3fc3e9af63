--------------------------- MODULE WebPathProofs ---------------------------
(***************************************************************************)
(* Proofs about the path of a request from the web client to the game      *)
(* server and back, for every set of WebSockets and any number of requests *)
(* and pushes.                                                             *)
(***************************************************************************)
EXTENDS WebPath, SequenceTheorems, TLAPS

-----------------------------------------------------------------------------
(* The inductive invariant.  What travels keeps the number and the id it   *)
(* was sent under, so that one packet says which request it is about.      *)

Frames == {CloseFrame} \cup {Frame(seq, seq) : seq \in Seqs}
Asked == {Proxy!Packet(seq, seq) : seq \in Seqs}
Returned == Asked \cup {Proxy!NoPacket}

(* Only what is relayed can answer a request.                              *)
Letters == {envelope \in Envelopes : envelope.from # "upstream" => envelope.seq = 0}

ClientTypes ==
  /\ status \in {"idle", "connecting", "connected", "reconnecting", "disconnected"}
  /\ ws \in Socks \cup {NoSock}
  /\ pending \subseteq Seqs
  /\ nextSeq \in 1..(MaxSeq + 1)
  /\ {reconnectAttempt, manuallyClosed, reconnectTimer, heartbeatTimer} \subseteq BOOLEAN
  /\ promise \in [Seqs -> {"unmade", "waiting", "resolved", "rejected"}]
  /\ answer \in [Seqs -> Seqs \cup {NoRequest}]
  /\ readyState \in [Socks -> {"unmade", "connecting", "open", "closing", "closed"}]

QueueTypes ==
  /\ uplink \in [Socks -> Seq(Frames)]
  /\ buffered \in [Socks -> Seq(Frames)]
  /\ downlink \in [Socks -> Seq(Letters)]
  /\ outbound \in [Socks -> Seq(Letters)]
  /\ requests \in [Socks -> Seq(Asked)]
  /\ packets \in [Socks -> Seq(Returned)]

ProxyTypes ==
  /\ connected \in [Socks -> BOOLEAN]
  /\ pc \in [Socks -> {"none", "flush", "poll", "remember", "ws_close", "ended"}]
  /\ upstream \in [Socks -> {"closed", "running", "lost", "ended"}]
  /\ notified \in [Socks -> BOOLEAN]
  /\ pending_by_seq \in [Socks -> SUBSET Asked]
  /\ sent \in [Socks -> Returned]
  /\ \A s \in Socks : pc[s] = "remember" => sent[s] \in Asked

(* Nobody is ahead of what he reads.                                       *)
Counts ==
  /\ received \in [Socks -> Nat] /\ served \in [Socks -> Nat] /\ read \in [Socks -> Nat]
  /\ \A s \in Socks :
       /\ received[s] <= Len(downlink[s])
       /\ served[s] <= Len(requests[s])
       /\ read[s] <= Len(packets[s])

(* A sequence number is used once.                                         *)
LaterIsUnmade == \A seq \in Seqs : seq >= nextSeq => promise[seq] = "unmade"

(* A proxy begins with nothing to write and no upstream connection.        *)
NotYetBegun ==
  \A s \in Socks : pc[s] = "none" => outbound[s] = <<>> /\ upstream[s] = "closed"

TypeInv == ClientTypes /\ QueueTypes /\ ProxyTypes /\ Counts

IInv ==
  /\ TypeInv /\ NotYetBegun /\ PendingIsWaiting /\ LaterIsUnmade
  /\ RelaysInOrder /\ AnswersMatchRequests

(* What has become of a request stays so: an answer that comes after the   *)
(* time-out, or after the socket was closed, changes nothing.              *)
SettledStays ==
  [][\A seq \in Seqs : promise[seq] \in {"resolved", "rejected"} =>
       promise'[seq] = promise[seq] /\ answer'[seq] = answer[seq]]_vars

-----------------------------------------------------------------------------
(* Queues of envelopes.                                                    *)

(* An envelope written to the browser moves from one queue to the next.    *)
LEMMA FlushKeepsTheQueue ==
  ASSUME NEW written \in Seq(Letters), NEW waiting \in Seq(Letters), waiting # <<>>
  PROVE  Append(written, Head(waiting)) \o Tail(waiting) = written \o waiting
<1>1. /\ Head(waiting) \in Letters /\ Tail(waiting) \in Seq(Letters)
      /\ waiting = <<Head(waiting)>> \o Tail(waiting)
  BY HeadTailProperties
<1>2. Append(written, Head(waiting)) = written \o <<Head(waiting)>>
  BY <1>1, AppendIsConcat
<1>3. <<Head(waiting)>> \in Seq(Letters)
  BY <1>1
<1>4. (written \o <<Head(waiting)>>) \o Tail(waiting)
        = written \o (<<Head(waiting)>> \o Tail(waiting))
  BY <1>1, <1>3, ConcatAssociative
<1>5. QED
  BY <1>1, <1>2, <1>4, Zenon

LEMMA PushEndsTheQueue ==
  ASSUME NEW written \in Seq(Letters), NEW waiting \in Seq(Letters), NEW envelope \in Letters
  PROVE  written \o Append(waiting, envelope) = Append(written \o waiting, envelope)
<1>1. /\ Append(waiting, envelope) = waiting \o <<envelope>>
      /\ <<envelope>> \in Seq(Letters)
      /\ written \o waiting \in Seq(Letters)
  BY AppendIsConcat, ConcatProperties
<1>2. Append(written \o waiting, envelope) = (written \o waiting) \o <<envelope>>
  BY <1>1, AppendIsConcat
<1>3. (written \o waiting) \o <<envelope>> = written \o (waiting \o <<envelope>>)
  BY <1>1, ConcatAssociative
<1>4. QED
  BY <1>1, <1>2, <1>3, Zenon

(* The gateway's own envelopes are passed over, ...                        *)
LEMMA OwnIsPassedOver ==
  ASSUME NEW queue \in Seq(Letters), NEW envelope \in Letters, NEW taken \in Nat, NEW back,
         envelope.from # "upstream", RelaysTheFirst(queue, taken, back)
  PROVE  RelaysTheFirst(Append(queue, envelope), taken, back)
<1> DEFINE longer == Append(queue, envelope)
           Of(q) == {j \in DOMAIN q : q[j].from = "upstream"}
<1>1. /\ longer \in Seq(Letters) /\ Len(longer) = Len(queue) + 1
      /\ \A i \in 1..Len(queue) : longer[i] = queue[i]
      /\ longer[Len(queue) + 1] = envelope
      /\ DOMAIN longer = 1..Len(longer) /\ DOMAIN queue = 1..Len(queue) /\ Len(queue) \in Nat
  BY AppendProperties
<1>2. Of(longer) = Of(queue)
  BY <1>1
<1>3. PICK place \in [1..taken -> Of(queue)] :
        /\ \A i, k \in 1..taken : i < k => place[i] < place[k]
        /\ \A j \in Of(queue) : \E i \in 1..taken : place[i] = j
        /\ \A i \in 1..taken :
             queue[place[i]].seq = back[i].seq /\ queue[place[i]].id = back[i].id
  BY DEF RelaysTheFirst
<1>4. place \in [1..taken -> Of(longer)]
  BY <1>2, <1>3
<1>5. \A i \in 1..taken : longer[place[i]] = queue[place[i]]
  BY <1>1, <1>3
<1> HIDE DEF longer
<1>6. \A i \in 1..taken :
        longer[place[i]].seq = back[i].seq /\ longer[place[i]].id = back[i].id
  BY <1>3, <1>5
<1>7. \A j \in Of(longer) : \E i \in 1..taken : place[i] = j
  BY <1>2, <1>3
<1>8. RelaysTheFirst(longer, taken, back)
  BY <1>3, <1>4, <1>6, <1>7 DEF RelaysTheFirst
<1>9. QED
  BY <1>8 DEF longer

(* ... and a packet that is relayed takes the next place.                  *)
LEMMA RelayedIsNext ==
  ASSUME NEW queue \in Seq(Letters), NEW envelope \in Letters, NEW taken \in Nat, NEW back,
         envelope.from = "upstream", RelaysTheFirst(queue, taken, back),
         envelope.seq = back[taken + 1].seq, envelope.id = back[taken + 1].id
  PROVE  RelaysTheFirst(Append(queue, envelope), taken + 1, back)
<1> DEFINE longer == Append(queue, envelope)
           Of(q) == {j \in DOMAIN q : q[j].from = "upstream"}
           last == Len(queue) + 1
<1>1. /\ longer \in Seq(Letters) /\ Len(longer) = Len(queue) + 1
      /\ \A i \in 1..Len(queue) : longer[i] = queue[i]
      /\ longer[last] = envelope
      /\ DOMAIN longer = 1..Len(longer) /\ DOMAIN queue = 1..Len(queue) /\ Len(queue) \in Nat
  BY AppendProperties
<1>2. Of(longer) = Of(queue) \cup {last} /\ Of(queue) \subseteq 1..Len(queue)
  BY <1>1
<1>3. PICK place \in [1..taken -> Of(queue)] :
        /\ \A i, k \in 1..taken : i < k => place[i] < place[k]
        /\ \A j \in Of(queue) : \E i \in 1..taken : place[i] = j
        /\ \A i \in 1..taken :
             queue[place[i]].seq = back[i].seq /\ queue[place[i]].id = back[i].id
  BY DEF RelaysTheFirst
<1> DEFINE placed == [i \in 1..(taken + 1) |-> IF i = taken + 1 THEN last ELSE place[i]]
<1>4. /\ placed \in [1..(taken + 1) -> Of(longer)]
      /\ placed[taken + 1] = last
      /\ \A i \in 1..taken : placed[i] = place[i] /\ place[i] \in 1..Len(queue)
  BY <1>2, <1>3
<1>5. \A i \in 1..taken : longer[placed[i]] = queue[place[i]]
  BY <1>1, <1>4
<1> HIDE DEF longer, placed
<1>6. \A i \in 1..(taken + 1) :
        longer[placed[i]].seq = back[i].seq /\ longer[placed[i]].id = back[i].id
  <2>1. TAKE i \in 1..(taken + 1)
  <2>2. CASE i = taken + 1
    BY <2>2, <1>1, <1>4
  <2>3. CASE i \in 1..taken
    BY <2>3, <1>3, <1>5
  <2>4. QED
    BY <2>2, <2>3
<1>7. \A j \in Of(longer) : \E i \in 1..(taken + 1) : placed[i] = j
  <2>1. TAKE j \in Of(longer)
  <2>2. CASE j = last
    <3>1. taken + 1 \in 1..(taken + 1)
      OBVIOUS
    <3>2. QED
      BY <2>2, <3>1, <1>4
  <2>3. CASE j \in Of(queue)
    <3>1. PICK i \in 1..taken : place[i] = j
      BY <2>3, <1>3
    <3>2. QED
      BY <3>1, <1>4
  <2>4. QED
    BY <2>2, <2>3, <1>2
<1>8. \A i, k \in 1..(taken + 1) : i < k => placed[i] < placed[k]
  <2>1. TAKE i, k \in 1..(taken + 1)
  <2>2. HAVE i < k
  <2>3. i \in 1..taken
    BY <2>2
  <2>4. CASE k = taken + 1
    BY <2>3, <2>4, <1>1, <1>4
  <2>5. CASE k \in 1..taken
    BY <2>2, <2>3, <2>5, <1>3, <1>4
  <2>6. QED
    BY <2>4, <2>5
<1>9. RelaysTheFirst(longer, taken + 1, back)
  BY <1>4, <1>6, <1>7, <1>8 DEF RelaysTheFirst
<1>10. QED
  BY <1>9 DEF longer

(* What is still to be taken does not matter.                              *)
LEMMA LaterPacketsDoNotMatter ==
  ASSUME NEW queue, NEW taken \in Nat, NEW back \in Seq(Returned), NEW packet \in Returned,
         taken <= Len(back), RelaysTheFirst(queue, taken, back)
  PROVE  RelaysTheFirst(queue, taken, Append(back, packet))
<1>1. \A i \in 1..taken : Append(back, packet)[i] = back[i]
  BY AppendProperties
<1> DEFINE longer == Append(back, packet)
<1> HIDE DEF longer
<1>2. \A i \in 1..taken : longer[i] = back[i]
  BY <1>1 DEF longer
<1>3. RelaysTheFirst(queue, taken, longer)
  BY <1>2 DEF RelaysTheFirst
<1>4. QED
  BY <1>3 DEF longer

(* An envelope in the queue with a number is one of the packets taken.     *)
LEMMA NumberedIsReturned ==
  ASSUME NEW queue \in Seq(Letters), NEW taken \in Nat, NEW back \in Seq(Returned),
         taken <= Len(back), RelaysTheFirst(queue, taken, back),
         NEW j \in 1..Len(queue), queue[j].seq > 0
  PROVE  /\ queue[j].seq \in Seqs /\ queue[j].id = queue[j].seq
         /\ Proxy!Packet(queue[j].seq, queue[j].seq) \in {back[i] : i \in DOMAIN back}
<1> DEFINE relayed == {k \in DOMAIN queue : queue[k].from = "upstream"}
<1>1. j \in relayed
  BY DEF Letters, Envelopes
<1>2. PICK place \in [1..taken -> relayed] :
        /\ \A k \in relayed : \E i \in 1..taken : place[i] = k
        /\ \A i \in 1..taken :
             queue[place[i]].seq = back[i].seq /\ queue[place[i]].id = back[i].id
  BY DEF RelaysTheFirst
<1> HIDE DEF relayed
<1>3. PICK i \in 1..taken : place[i] = j
  BY <1>1, <1>2, Zenon
<1>4. queue[j].seq = back[i].seq /\ queue[j].id = back[i].id
  BY <1>2, <1>3, Zenon
<1>5. i \in DOMAIN back /\ back[i] \in Returned
  OBVIOUS
<1>6. back[i] \in Asked
  BY <1>4, <1>5 DEF Returned, Proxy!NoPacket, Proxy!Packet
<1>7. PICK seq \in Seqs : back[i] = Proxy!Packet(seq, seq)
  BY <1>6 DEF Asked
<1>8. queue[j].seq = seq /\ queue[j].id = seq
  BY <1>4, <1>7 DEF Proxy!Packet
<1>9. QED
  BY <1>5, <1>7, <1>8

-----------------------------------------------------------------------------
(* The client.                                                             *)

ClientInv == ClientTypes /\ PendingIsWaiting /\ LaterIsUnmade

LEMMA OpenSocketKeepsTypes ==
  ASSUME ClientTypes, OpenSocket
  PROVE  /\ status' \in {"connecting", "reconnecting"}
         /\ ws' \in Socks /\ manuallyClosed' \in BOOLEAN
         /\ readyState' \in [Socks -> {"unmade", "connecting", "open", "closing", "closed"}]
BY DEF ClientTypes, OpenSocket

(* All that is pending is rejected, and so nothing waits.                  *)
LEMMA RejectingKeepsClientInv ==
  ASSUME ClientInv, RejectAllPending, UNCHANGED nextSeq
  PROVE  /\ pending' = {}
         /\ promise' \in [Seqs -> {"unmade", "waiting", "resolved", "rejected"}]
         /\ PendingIsWaiting' /\ LaterIsUnmade'
BY DEF ClientInv, ClientTypes, PendingIsWaiting, LaterIsUnmade, RejectAllPending

LEMMA ClientStepKeepsClientInv ==
  ASSUME ClientInv, ClientStep
  PROVE  ClientInv'
<1> USE DEF ClientInv, ClientTypes
<1>1. CASE Connect
  BY <1>1, OpenSocketKeepsTypes DEF Connect, PendingIsWaiting, LaterIsUnmade
<1>2. CASE Disconnect
  <2>1. RejectAllPending /\ UNCHANGED nextSeq
    BY <1>2 DEF Disconnect
  <2>2. readyState' \in [Socks -> {"unmade", "connecting", "open", "closing", "closed"}]
    BY <1>2 DEF Disconnect
  <2>3. QED
    BY <1>2, <2>1, <2>2, RejectingKeepsClientInv DEF Disconnect
<1>3. CASE SendRequest
  BY <1>3, ClientAssumption
     DEF SendRequest, Send, Seqs, PendingIsWaiting, LaterIsUnmade
<1>4. CASE Heartbeat
  BY <1>4, ClientAssumption
     DEF Heartbeat, SendFireAndForget, Send, Seqs, PendingIsWaiting, LaterIsUnmade
<1>5. CASE ReconnectTimer
  BY <1>5, OpenSocketKeepsTypes DEF ReconnectTimer, PendingIsWaiting, LaterIsUnmade
<1>6. ASSUME NEW seq \in Seqs, RequestTimesOut(seq)
      PROVE  ClientInv'
  BY <1>6 DEF RequestTimesOut, PendingIsWaiting, LaterIsUnmade
<1>7. QED
  BY <1>1, <1>2, <1>3, <1>4, <1>5, <1>6 DEF ClientStep

LEMMA SocketEventKeepsClientInv ==
  ASSUME ClientInv, NEW s \in Socks, OnOpen(s) \/ OnClose(s)
  PROVE  ClientInv'
<1> USE DEF ClientInv, ClientTypes
<1>1. CASE OnOpen(s)
  BY <1>1 DEF OnOpen, PendingIsWaiting, LaterIsUnmade
<1>2. CASE OnClose(s)
  <2>1. RejectAllPending /\ UNCHANGED nextSeq
    BY <1>2 DEF OnClose
  <2>2. readyState' \in [Socks -> {"unmade", "connecting", "open", "closing", "closed"}]
    BY <1>2 DEF OnClose
  <2>3. QED
    BY <1>2, <2>1, <2>2, RejectingKeepsClientInv DEF OnClose
<1>3. QED
  BY <1>1, <1>2

(* A message settles what is pending, and nothing else.                    *)
LEMMA MessageKeepsClientInv ==
  ASSUME ClientInv, QueueTypes, Counts, NEW s \in Socks, OnMessage(s)
  PROVE  ClientInv'
<1> DEFINE envelope == downlink[s][received[s] + 1]
           resolved == Resolves(envelope)
<1>1. envelope \in Letters /\ envelope.id \in Seqs \cup {NoRequest}
  <2>1. downlink[s] \in Seq(Letters) /\ received[s] + 1 \in 1..Len(downlink[s])
    BY DEF OnMessage, QueueTypes, Counts
  <2>2. envelope \in Letters
    BY <2>1, ElementOfSeq
  <2>3. QED
    BY <2>2 DEF Letters, Envelopes, NoRequest
<1>2. resolved \subseteq pending
  BY DEF Resolves
<1>3. /\ pending' = pending \ resolved
      /\ promise' = [seq \in Seqs |-> IF seq \in resolved THEN "resolved" ELSE promise[seq]]
      /\ answer' = [seq \in Seqs |-> IF seq \in resolved THEN envelope.id ELSE answer[seq]]
      /\ UNCHANGED <<status, ws, nextSeq, reconnectAttempt, manuallyClosed, reconnectTimer,
                     heartbeatTimer, readyState>>
  BY DEF OnMessage
<1> HIDE DEF envelope, resolved
<1>4. ClientTypes'
  BY <1>1, <1>3 DEF ClientInv, ClientTypes
<1>5. PendingIsWaiting'
  BY <1>2, <1>3 DEF ClientInv, ClientTypes, PendingIsWaiting
<1>6. LaterIsUnmade'
  BY <1>2, <1>3 DEF ClientInv, ClientTypes, PendingIsWaiting, LaterIsUnmade
<1>7. QED
  BY <1>4, <1>5, <1>6 DEF ClientInv

-----------------------------------------------------------------------------
(* The proxy, its reader, and the game server.                             *)

PipeInv == QueueTypes /\ ProxyTypes /\ Counts /\ NotYetBegun /\ RelaysInOrder

(* The client only puts frames into the pipe, ...                          *)
LEMMA ClientStepKeepsPipe ==
  ASSUME ClientTypes, PipeInv, ClientStep
  PROVE  PipeInv'
<1>1. UNCHANGED gatewayVars /\ UNCHANGED received
  BY DEF ClientStep, Connect, Disconnect, SendRequest, Heartbeat, SendFireAndForget,
         ReconnectTimer, RequestTimesOut
<1>2. CloseFrame \in Frames /\ \A seq \in Seqs : Frame(seq, seq) \in Frames
  BY DEF Frames
<1>3. uplink' \in [Socks -> Seq(Frames)]
  <2> USE DEF PipeInv, QueueTypes
  <2> DEFINE queued(s, frame) == [uplink EXCEPT ![s] = Append(@, frame)]
  <2>1. ASSUME NEW s \in Socks, NEW frame \in Frames
        PROVE  queued(s, frame) \in [Socks -> Seq(Frames)]
    OBVIOUS
  <2>2. CASE Disconnect
    <3>1. uplink' = queued(ws, CloseFrame) \/ uplink' = uplink
      BY <2>2 DEF Disconnect
    <3>2. uplink' = uplink \/ ws \in Socks
      BY <2>2 DEF Disconnect
    <3> HIDE DEF queued
    <3>3. QED
      BY <3>1, <3>2, <2>1, <1>2
  <2>3. CASE Send
    <3> DEFINE sentFrame == Frame(nextSeq, nextSeq)
    <3>1. sentFrame \in Frames /\ ws \in Socks
      BY <2>3, <1>2 DEF Send, ClientTypes
    <3>2. uplink' = queued(ws, sentFrame) \/ uplink' = uplink
      BY <2>3 DEF Send
    <3> HIDE DEF sentFrame, queued
    <3>3. QED
      BY <3>1, <3>2, <2>1
  <2>4. CASE UNCHANGED uplink
    BY <2>4
  <2>5. QED
    BY <2>2, <2>3, <2>4
       DEF ClientStep, Connect, SendRequest, Heartbeat, SendFireAndForget, ReconnectTimer,
           RequestTimesOut
<1>4. QueueTypes' /\ ProxyTypes' /\ Counts'
  BY <1>1, <1>3
     DEF PipeInv, QueueTypes, ProxyTypes, Counts, gatewayVars, proxyVars
<1>5. NotYetBegun' /\ RelaysInOrder'
  BY <1>1 DEF PipeInv, NotYetBegun, RelaysInOrder, gatewayVars, proxyVars
<1>6. QED
  BY <1>4, <1>5 DEF PipeInv

(* ... and the events of a socket only take out what was written.          *)
LEMMA SocketEventKeepsPipe ==
  ASSUME PipeInv, NEW s \in Socks, Opened(s) \/ Deliver(s) \/ Closed(s)
  PROVE  PipeInv'
<1>1. UNCHANGED <<downlink, proxyVars, served, packets, uplink>>
  BY DEF Opened, Deliver, Closed, OnOpen, OnMessage, OnClose, gatewayVars
<1>2. connected' \in [Socks -> BOOLEAN]
  BY DEF Opened, Deliver, Closed, gatewayVars, PipeInv, ProxyTypes
<1>3. /\ received' \in [Socks -> Nat]
      /\ \A t \in Socks : received'[t] <= Len(downlink[t])
  <2>1. CASE Deliver(s)
    <3>1. /\ received[s] < Len(downlink[s])
          /\ received' = [received EXCEPT ![s] = @ + 1]
      BY <2>1 DEF Deliver, OnMessage
    <3>2. \A t \in Socks : Len(downlink[t]) \in Nat
      BY DEF PipeInv, QueueTypes
    <3>3. QED
      BY <3>1, <3>2 DEF PipeInv, Counts
  <2>2. CASE UNCHANGED received
    BY <2>2 DEF PipeInv, Counts
  <2>3. QED
    BY <2>1, <2>2 DEF Opened, Closed, OnOpen, OnClose
<1>4. QueueTypes' /\ ProxyTypes' /\ Counts'
  BY <1>1, <1>2, <1>3 DEF PipeInv, QueueTypes, ProxyTypes, Counts, proxyVars
<1>5. NotYetBegun' /\ RelaysInOrder'
  BY <1>1 DEF PipeInv, NotYetBegun, RelaysInOrder, proxyVars
<1>6. QED
  BY <1>4, <1>5 DEF PipeInv

(* A step of one proxy leaves the queues of the others as they are.        *)
LEMMA OthersStillRelay ==
  ASSUME NEW s \in Socks, RelaysInOrder,
         \A t \in Socks \ {s} :
           /\ downlink'[t] = downlink[t] /\ outbound'[t] = outbound[t]
           /\ read'[t] = read[t] /\ packets'[t] = packets[t],
         RelaysTheFirst(downlink'[s] \o outbound'[s], read'[s], packets'[s])
  PROVE  RelaysInOrder'
BY Zenon DEF RelaysInOrder

(* The envelopes the gateway makes itself.                                 *)
LEMMA OwnIsALetter ==
  ASSUME NEW reason \in {"welcome", "error", "upstream_disconnected"}
  PROVE  Proxy!Own(reason) \in Letters /\ Proxy!Own(reason).from # "upstream"
BY DEF Letters, Envelopes, Proxy!Own, Proxy!NoId

LEMMA OwnKeepsRelaying ==
  ASSUME PipeInv, NEW s \in Socks, NEW envelope \in Letters, envelope.from # "upstream",
         outbound' = [outbound EXCEPT ![s] = Append(@, envelope)],
         UNCHANGED <<downlink, read, packets>>
  PROVE  RelaysInOrder' /\ outbound' \in [Socks -> Seq(Letters)]
<1> USE DEF PipeInv, QueueTypes, Counts
<1>1. outbound' \in [Socks -> Seq(Letters)]
  OBVIOUS
<1>2. outbound'[s] = Append(outbound[s], envelope)
  OBVIOUS
<1> DEFINE queue == downlink[s] \o outbound[s]
<1>3. queue \in Seq(Letters) /\ RelaysTheFirst(queue, read[s], packets[s])
  BY ConcatProperties DEF RelaysInOrder
<1>4. downlink[s] \o Append(outbound[s], envelope) = Append(queue, envelope)
  BY PushEndsTheQueue
<1> HIDE DEF queue
<1>5. RelaysTheFirst(Append(queue, envelope), read[s], packets[s])
  BY <1>3, OwnIsPassedOver
<1>6. RelaysTheFirst(downlink'[s] \o outbound'[s], read'[s], packets'[s])
  BY <1>2, <1>4, <1>5
<1>7. \A t \in Socks \ {s} :
        /\ downlink'[t] = downlink[t] /\ outbound'[t] = outbound[t]
        /\ read'[t] = read[t] /\ packets'[t] = packets[t]
  OBVIOUS
<1>8. QED
  BY <1>1, <1>6, <1>7, OthersStillRelay

(* Steps that queue nothing and take nothing from a queue of envelopes.    *)
LEMMA QuietKeepsRelaying ==
  ASSUME RelaysInOrder, UNCHANGED <<downlink, outbound, read, packets>>
  PROVE  RelaysInOrder'
BY DEF RelaysInOrder

LEMMA AcceptKeepsPipe ==
  ASSUME PipeInv, NEW s \in Socks, Proxy!Accept(s), UNCHANGED received
  PROVE  PipeInv'
<1> USE DEF PipeInv
<1> DEFINE welcome == Proxy!Own("welcome")
           error == Proxy!Own("error")
           queue == downlink[s]
<1>1. /\ welcome \in Letters /\ welcome.from # "upstream"
      /\ error \in Letters /\ error.from # "upstream"
  BY OwnIsALetter
<1>2. /\ outbound' = [outbound EXCEPT ![s] = <<welcome>>]
         \/ outbound' = [outbound EXCEPT ![s] = <<welcome, error>>]
      /\ upstream' = [upstream EXCEPT ![s] = "running"] \/ upstream' = upstream
  BY DEF Proxy!Accept, Proxy!Connect
<1>3. /\ pc[s] = "none" /\ pc' = [pc EXCEPT ![s] = "flush"]
      /\ connected' = [connected EXCEPT ![s] = TRUE]
      /\ UNCHANGED <<uplink, buffered, downlink, notified, pending_by_seq, sent, requests, read,
                     served, packets>>
  BY DEF Proxy!Accept, Proxy!Goto, Proxy!gameVars
<1>4. outbound[s] = <<>>
  BY <1>3 DEF NotYetBegun
<1>5. queue \in Seq(Letters) /\ RelaysTheFirst(queue, read[s], packets[s])
  <2>1. downlink[s] \in Seq(Letters)
    BY DEF QueueTypes
  <2>2. downlink[s] \o outbound[s] = downlink[s]
    BY <2>1, <1>4, ConcatEmptySeq
  <2>3. QED
    BY <2>1, <2>2 DEF RelaysInOrder
<1>6. /\ queue \o <<welcome>> = Append(queue, welcome)
      /\ queue \o <<welcome, error>> = Append(Append(queue, welcome), error)
  <2> HIDE DEF welcome, error
  <2>1. /\ Append(queue, welcome) = queue \o <<welcome>>
        /\ <<welcome>> \in Seq(Letters) /\ <<welcome, error>> = Append(<<welcome>>, error)
    BY <1>1, <1>5, AppendIsConcat
  <2>2. QED
    BY <2>1, <1>1, <1>5, PushEndsTheQueue
<1>7. outbound' \in [Socks -> Seq(Letters)]
  <2> HIDE DEF welcome, error
  <2>1. <<welcome>> \in Seq(Letters) /\ <<welcome, error>> \in Seq(Letters)
    BY <1>1
  <2>2. QED
    BY <1>2, <2>1 DEF QueueTypes
<1>8. /\ RelaysTheFirst(Append(queue, welcome), read[s], packets[s])
      /\ RelaysTheFirst(Append(Append(queue, welcome), error), read[s], packets[s])
  <2> HIDE DEF welcome, error, queue
  <2>1. read[s] \in Nat /\ Append(queue, welcome) \in Seq(Letters)
    BY <1>1, <1>5 DEF Counts
  <2>2. QED
    BY <2>1, <1>1, <1>5, OwnIsPassedOver
<1>9. RelaysTheFirst(downlink'[s] \o outbound'[s], read'[s], packets'[s])
  BY <1>2, <1>3, <1>6, <1>8 DEF QueueTypes
<1>10. RelaysInOrder'
  <2>1. \A t \in Socks \ {s} :
          /\ downlink'[t] = downlink[t] /\ outbound'[t] = outbound[t]
          /\ read'[t] = read[t] /\ packets'[t] = packets[t]
    BY <1>2, <1>3 DEF QueueTypes
  <2>2. QED
    BY <2>1, <1>9, OthersStillRelay
<1>11. QueueTypes' /\ ProxyTypes' /\ Counts'
  <2>1. UNCHANGED received
    OBVIOUS
  <2>2. QueueTypes'
    BY <1>3, <1>7 DEF QueueTypes
  <2>3. ProxyTypes'
    BY <1>2, <1>3 DEF ProxyTypes
  <2>4. Counts'
    BY <1>3, <2>1 DEF Counts
  <2>5. QED
    BY <2>2, <2>3, <2>4
<1>12. NotYetBegun'
  BY <1>2, <1>3 DEF NotYetBegun, ProxyTypes, QueueTypes
<1>13. QED
  BY <1>10, <1>11, <1>12

LEMMA FlushKeepsPipe ==
  ASSUME PipeInv, NEW s \in Socks, Proxy!Flush(s), UNCHANGED received
  PROVE  PipeInv'
<1> USE DEF PipeInv
<1>1. /\ pc[s] = "flush" /\ outbound[s] # <<>>
      /\ downlink' = [downlink EXCEPT ![s] = Append(@, Head(outbound[s]))]
      /\ outbound' = [outbound EXCEPT ![s] = Tail(@)]
      /\ UNCHANGED <<uplink, buffered, connected, pc, upstream, notified, pending_by_seq, sent, requests,
                     read, served, packets, received>>
  BY DEF Proxy!Flush, Proxy!gameVars
<1>2. downlink[s] \in Seq(Letters) /\ outbound[s] \in Seq(Letters)
  BY DEF QueueTypes
<1>3. /\ Head(outbound[s]) \in Letters /\ Tail(outbound[s]) \in Seq(Letters)
      /\ Append(downlink[s], Head(outbound[s])) \in Seq(Letters)
      /\ Len(Append(downlink[s], Head(outbound[s]))) = Len(downlink[s]) + 1
  BY <1>1, <1>2, HeadTailProperties, AppendProperties
<1>4. downlink'[s] \o outbound'[s] = downlink[s] \o outbound[s]
  BY <1>1, <1>2, FlushKeepsTheQueue DEF QueueTypes
<1>5. RelaysInOrder'
  <2>1. \A t \in Socks \ {s} :
          /\ downlink'[t] = downlink[t] /\ outbound'[t] = outbound[t]
          /\ read'[t] = read[t] /\ packets'[t] = packets[t]
    BY <1>1 DEF QueueTypes
  <2>2. RelaysTheFirst(downlink'[s] \o outbound'[s], read'[s], packets'[s])
    BY <1>1, <1>4 DEF RelaysInOrder
  <2>3. QED
    BY <2>1, <2>2, OthersStillRelay
<1>6. QueueTypes'
  BY <1>1, <1>3 DEF QueueTypes
<1>7. Counts'
  BY <1>1, <1>2, <1>3 DEF Counts, QueueTypes
<1>8. ProxyTypes' /\ NotYetBegun'
  BY <1>1 DEF ProxyTypes, NotYetBegun, QueueTypes
<1>9. QED
  BY <1>5, <1>6, <1>7, <1>8

(* The proxy ends on a failed write or goes on to read.                    *)
LEMMA FlushEndsKeepsPipe ==
  ASSUME PipeInv, NEW s \in Socks, Proxy!WriteFails(s) \/ Proxy!Flushed(s), UNCHANGED received
  PROVE  PipeInv'
<1> USE DEF PipeInv
<1>1. /\ pc[s] = "flush"
      /\ pc' = [pc EXCEPT ![s] = "ended"] \/ pc' = [pc EXCEPT ![s] = "poll"]
      /\ upstream' = upstream \/ upstream' = [upstream EXCEPT ![s] = "closed"]
      /\ UNCHANGED <<uplink, buffered, downlink, connected, notified, outbound, pending_by_seq, sent,
                     requests, read, served, packets, received>>
  BY DEF Proxy!WriteFails, Proxy!Flushed, Proxy!Goto, Proxy!CloseUpstream, Proxy!gameVars
<1>2. QueueTypes' /\ Counts'
  BY <1>1 DEF QueueTypes, Counts
<1>3. ProxyTypes' /\ NotYetBegun'
  BY <1>1 DEF ProxyTypes, NotYetBegun
<1>4. QED
  BY <1>1, <1>2, <1>3, QuietKeepsRelaying

(* A frame is taken, from the buffer or, perhaps with others, from the     *)
(* socket.                                                                 *)
LEMMA TakingAFrameKeepsTypes ==
  ASSUME QueueTypes, NEW s \in Socks, uplink[s] # <<>>, Proxy!TakeFrame(s)
  PROVE  /\ Proxy!NextFrame(s) \in Frames
         /\ uplink' \in [Socks -> Seq(Frames)] /\ buffered' \in [Socks -> Seq(Frames)]
<1>1. /\ uplink \in [Socks -> Seq(Frames)] /\ buffered \in [Socks -> Seq(Frames)]
      /\ uplink[s] \in Seq(Frames) /\ buffered[s] \in Seq(Frames)
  BY DEF QueueTypes
<1>2. Head(uplink[s]) \in Frames
  BY <1>1, HeadTailProperties
<1>3. CASE buffered[s] # <<>>
  <2>1. Head(buffered[s]) \in Frames /\ Tail(buffered[s]) \in Seq(Frames)
    BY <1>1, <1>3, HeadTailProperties
  <2>2. buffered' = [buffered EXCEPT ![s] = Tail(buffered[s])] /\ uplink' = uplink
    BY <1>3 DEF Proxy!TakeFrame
  <2>3. QED
    BY <1>1, <1>3, <2>1, <2>2 DEF Proxy!NextFrame
<1>4. CASE buffered[s] = <<>>
  <2>1. PICK n \in 1..Len(uplink[s]) :
          /\ buffered' = [buffered EXCEPT ![s] = SubSeq(uplink[s], 2, n)]
          /\ uplink' = [uplink EXCEPT ![s] = SubSeq(uplink[s], n + 1, Len(uplink[s]))]
    BY <1>4 DEF Proxy!TakeFrame
  <2>2. /\ Len(uplink[s]) \in Nat /\ n \in Int /\ 1 <= n /\ n <= Len(uplink[s])
        /\ \A i \in 1..Len(uplink[s]) : uplink[s][i] \in Frames
    BY <1>1
  <2>3. SubSeq(uplink[s], 2, n) \in Seq(Frames)
    <3>1. \A i \in 2..n : uplink[s][i] \in Frames
      BY <2>2
    <3>2. QED
      BY <2>2, <3>1, SubSeqProperties
  <2>4. SubSeq(uplink[s], n + 1, Len(uplink[s])) \in Seq(Frames)
    <3>1. \A i \in (n + 1)..Len(uplink[s]) : uplink[s][i] \in Frames
      BY <2>2
    <3>2. n + 1 \in Int
      BY <2>2
    <3>3. QED
      BY <2>2, <3>1, <3>2, SubSeqProperties
  <2>5. QED
    BY <1>1, <1>2, <1>4, <2>1, <2>3, <2>4 DEF Proxy!NextFrame
<1>5. QED
  BY <1>3, <1>4

(* The steps that leave the packets alone and queue one of the gateway's   *)
(* own envelopes or nothing.                                               *)
LEMMA PollKeepsPipe ==
  ASSUME PipeInv, NEW s \in Socks, Proxy!Idle(s) \/ Proxy!Leave(s) \/ Proxy!Refuse(s),
         UNCHANGED received
  PROVE  PipeInv'
<1> USE DEF PipeInv
<1> DEFINE disconnected == Proxy!Own("upstream_disconnected")
           error == Proxy!Own("error")
           queued(envelope) == outbound' = [outbound EXCEPT ![s] = Append(@, envelope)]
<1>1. /\ disconnected \in Letters /\ disconnected.from # "upstream"
      /\ error \in Letters /\ error.from # "upstream"
  BY OwnIsALetter
<1>2. /\ pc[s] = "poll"
      /\ \E step \in {"flush", "ws_close", "ended"} : pc' = [pc EXCEPT ![s] = step]
      /\ upstream' = upstream \/ upstream' = [upstream EXCEPT ![s] = "closed"]
      /\ connected' = connected \/ connected' = [connected EXCEPT ![s] = FALSE]
      /\ notified' = notified \/ notified' = [notified EXCEPT ![s] = TRUE]
      /\ UNCHANGED <<downlink, pending_by_seq, sent, requests, read, served, packets, received>>
  BY DEF Proxy!Idle, Proxy!Leave, Proxy!Refuse, Proxy!Goto, Proxy!CloseUpstream, Proxy!gameVars
<1>3. queued(disconnected) \/ queued(error) \/ UNCHANGED outbound
  BY DEF Proxy!Idle, Proxy!Leave, Proxy!Refuse, Proxy!PushOutbound
<1>4. uplink' \in [Socks -> Seq(Frames)] /\ buffered' \in [Socks -> Seq(Frames)]
  <2>1. CASE Proxy!Idle(s)
    BY <2>1 DEF Proxy!Idle, QueueTypes
  <2>2. CASE Proxy!Leave(s) \/ Proxy!Refuse(s)
    BY <2>2, TakingAFrameKeepsTypes DEF Proxy!Leave, Proxy!Refuse
  <2>3. QED
    BY <2>1, <2>2
<1> HIDE DEF disconnected, error
<1>5. RelaysInOrder' /\ outbound' \in [Socks -> Seq(Letters)]
  <2>1. CASE UNCHANGED outbound
    BY <2>1, <1>2, QuietKeepsRelaying DEF QueueTypes
  <2>2. CASE queued(disconnected)
    BY <2>2, <1>1, <1>2, OwnKeepsRelaying
  <2>3. CASE queued(error)
    BY <2>3, <1>1, <1>2, OwnKeepsRelaying
  <2>4. QED
    BY <2>1, <2>2, <2>3, <1>3
<1>6. QueueTypes'
  BY <1>2, <1>4, <1>5 DEF QueueTypes
<1>7. Counts'
  BY <1>2 DEF Counts
<1>8. ProxyTypes'
  BY <1>2 DEF ProxyTypes
<1>9. NotYetBegun'
  BY <1>2, <1>3 DEF NotYetBegun, ProxyTypes, QueueTypes
<1>10. QED
  BY <1>5, <1>6, <1>7, <1>8, <1>9

(* The proxy's ws.close returns.                                           *)
LEMMA CloseKeepsPipe ==
  ASSUME PipeInv, NEW s \in Socks, Proxy!CloseReturns(s), UNCHANGED received
  PROVE  PipeInv'
<1> USE DEF PipeInv
<1>1. /\ pc[s] = "ws_close" /\ pc' = [pc EXCEPT ![s] = "ended"]
      /\ uplink' = [uplink EXCEPT ![s] = <<>>] /\ buffered' = [buffered EXCEPT ![s] = <<>>]
      /\ UNCHANGED <<downlink, connected, upstream, notified, outbound, pending_by_seq, sent,
                     requests, read, served, packets, received>>
  BY DEF Proxy!CloseReturns, Proxy!Goto, Proxy!gameVars
<1>2. <<>> \in Seq(Frames)
  OBVIOUS
<1>3. QueueTypes' /\ Counts'
  BY <1>1, <1>2 DEF QueueTypes, Counts
<1>4. ProxyTypes' /\ NotYetBegun'
  BY <1>1 DEF ProxyTypes, NotYetBegun
<1>5. QED
  BY <1>1, <1>3, <1>4, QuietKeepsRelaying

(* A request is sent upstream under its number and id, ...                 *)
LEMMA SendUpstreamKeepsPipe ==
  ASSUME PipeInv, NEW s \in Socks, Proxy!SendUpstream(s), UNCHANGED received
  PROVE  PipeInv'
<1> USE DEF PipeInv
<1> DEFINE frame == Proxy!NextFrame(s)
           packet == Proxy!Packet(frame.seq, frame.id)
<1>1. /\ pc[s] = "poll" /\ uplink[s] # <<>> /\ ~frame.close
      /\ Proxy!TakeFrame(s)
      /\ requests' = [requests EXCEPT ![s] = Append(@, packet)]
      /\ sent' = [sent EXCEPT ![s] = packet]
      /\ pc' = [pc EXCEPT ![s] = "remember"]
      /\ UNCHANGED <<downlink, connected, upstream, notified, outbound, pending_by_seq, read,
                     served, packets, received>>
  BY DEF Proxy!SendUpstream, Proxy!WriteUpstream, Proxy!Goto, Proxy!gameVars
<1>2. /\ frame \in Frames
      /\ uplink' \in [Socks -> Seq(Frames)] /\ buffered' \in [Socks -> Seq(Frames)]
  BY <1>1, TakingAFrameKeepsTypes
<1> HIDE DEF frame
<1>3. packet \in Asked
  BY <1>1, <1>2 DEF Frames, CloseFrame, Frame, Asked
<1> HIDE DEF packet
<1>4. /\ requests[s] \in Seq(Asked) /\ Append(requests[s], packet) \in Seq(Asked)
      /\ Len(Append(requests[s], packet)) = Len(requests[s]) + 1 /\ Len(requests[s]) \in Nat
  BY <1>3, AppendProperties DEF QueueTypes
<1>5. QueueTypes'
  BY <1>1, <1>2, <1>4 DEF QueueTypes
<1>6. Counts'
  BY <1>1, <1>4 DEF Counts, QueueTypes
<1>7. ProxyTypes'
  BY <1>1, <1>3 DEF ProxyTypes, Returned
<1>8. NotYetBegun'
  BY <1>1 DEF NotYetBegun, ProxyTypes
<1>9. QED
  BY <1>1, <1>5, <1>6, <1>7, <1>8, QuietKeepsRelaying

(* ... and it is written down whom to answer.                              *)
LEMMA RememberKeepsPipe ==
  ASSUME PipeInv, NEW s \in Socks, Proxy!Remember(s), UNCHANGED received
  PROVE  PipeInv'
<1> USE DEF PipeInv
<1> DEFINE remembered == {p \in pending_by_seq[s] : p.seq # sent[s].seq} \cup {sent[s]}
<1>1. /\ pc[s] = "remember" /\ pc' = [pc EXCEPT ![s] = "flush"]
      /\ pending_by_seq' = [pending_by_seq EXCEPT ![s] = remembered]
      /\ sent' = [sent EXCEPT ![s] = Proxy!NoPacket]
      /\ UNCHANGED <<uplink, buffered, downlink, connected, upstream, notified, outbound, requests, read,
                     served, packets, received>>
  BY DEF Proxy!Remember, Proxy!Goto, Proxy!gameVars
<1>2. remembered \in SUBSET Asked
  BY <1>1 DEF ProxyTypes
<1> HIDE DEF remembered
<1>3. QueueTypes' /\ Counts'
  BY <1>1 DEF QueueTypes, Counts
<1>4. ProxyTypes'
  BY <1>1, <1>2 DEF ProxyTypes, Returned
<1>5. NotYetBegun'
  BY <1>1 DEF NotYetBegun, ProxyTypes
<1>6. QED
  BY <1>1, <1>3, <1>4, <1>5, QuietKeepsRelaying

(* A packet is relayed under its own number and id: a push, which has      *)
(* neither, finds nobody remembered under number 0.                        *)
LEMMA OnPacketKeepsPipe ==
  ASSUME PipeInv, NEW s \in Socks, Proxy!OnPacket(s), UNCHANGED received
  PROVE  PipeInv'
<1> USE DEF PipeInv
<1> DEFINE packet == packets[s][read[s] + 1]
           remembered == {p \in pending_by_seq[s] : p.seq = packet.seq}
           envelope == Proxy!Relayed(packet, Proxy!RequestOf(packet, remembered))
           queue == downlink[s] \o outbound[s]
<1>1. /\ upstream[s] \in {"running", "lost"} /\ read[s] < Len(packets[s])
      /\ read' = [read EXCEPT ![s] = @ + 1]
      /\ pending_by_seq' = [pending_by_seq EXCEPT ![s] = @ \ remembered]
      /\ outbound' = [outbound EXCEPT ![s] = Append(@, envelope)]
      /\ UNCHANGED <<uplink, buffered, downlink, connected, pc, upstream, notified, sent, requests,
                     served, packets, received>>
  BY DEF Proxy!OnPacket, Proxy!Running, Proxy!PushOutbound, Proxy!gameVars
<1>2. packet \in Returned
  <2>1. packets[s] \in Seq(Returned) /\ read[s] + 1 \in 1..Len(packets[s])
    BY <1>1 DEF QueueTypes, Counts
  <2>2. QED
    BY <2>1, ElementOfSeq
<1>3. /\ envelope.from = "upstream"
      /\ envelope.seq = packet.seq /\ envelope.id = packet.id
  <2>1. CASE packet \in Asked
    <3>1. PICK seq \in Seqs : packet = Proxy!Packet(seq, seq)
      BY <2>1 DEF Asked
    <3> HIDE DEF packet, remembered
    <3>2. packet.id # 0
      BY <3>1, ClientAssumption DEF Seqs, Proxy!Packet
    <3>3. QED
      BY <3>2 DEF Proxy!Relayed, Proxy!RequestOf, Proxy!NoId
  <2>2. CASE packet = Proxy!NoPacket
    <3>1. packet.seq = 0 /\ packet.id = 0
      BY <2>2 DEF Proxy!NoPacket, Proxy!Packet, Proxy!NoId
    <3>2. \A p \in Asked : p.seq # 0
      BY DEF Asked, Seqs, Proxy!Packet
    <3>3. pending_by_seq[s] \subseteq Asked
      BY DEF ProxyTypes
    <3>4. remembered = {}
      BY <3>1, <3>2, <3>3
    <3> HIDE DEF packet, remembered
    <3>5. QED
      BY <3>1, <3>4 DEF Proxy!Relayed, Proxy!RequestOf, Proxy!NoId
  <2>3. QED
    BY <2>1, <2>2, <1>2 DEF Returned
<1>4. envelope \in Letters
  <2>1. packet.seq \in Seqs \cup {0} /\ packet.id \in Seqs \cup {0}
    <3> HIDE DEF packet
    <3>1. QED
      BY <1>2 DEF Returned, Asked, Proxy!NoPacket, Proxy!Packet, Proxy!NoId
  <2>2. envelope = [seq |-> envelope.seq, id |-> envelope.id, from |-> "upstream"]
    BY DEF Proxy!Relayed
  <2> HIDE DEF packet, envelope
  <2>3. envelope.seq \in Seqs \cup {0} /\ envelope.id \in Seqs \cup {0}
    BY <2>1, <1>3
  <2>4. envelope \in Envelopes
    BY <2>2, <2>3 DEF Envelopes
  <2>5. QED
    BY <2>4, <1>3 DEF Letters
<1>5. /\ queue \in Seq(Letters) /\ RelaysTheFirst(queue, read[s], packets[s])
      /\ downlink[s] \in Seq(Letters) /\ outbound[s] \in Seq(Letters) /\ read[s] \in Nat
  BY ConcatProperties DEF RelaysInOrder, QueueTypes, Counts
<1> HIDE DEF envelope, queue, remembered
<1>6. RelaysTheFirst(Append(queue, envelope), read[s] + 1, packets[s])
  BY <1>3, <1>4, <1>5, RelayedIsNext
<1> HIDE DEF packet
<1>7. /\ outbound'[s] = Append(outbound[s], envelope)
      /\ downlink'[s] = downlink[s] /\ packets'[s] = packets[s]
      /\ read'[s] = read[s] + 1
  BY <1>1 DEF QueueTypes, Counts
<1>8. downlink[s] \o Append(outbound[s], envelope) = Append(queue, envelope)
  BY <1>4, <1>5, PushEndsTheQueue DEF queue
<1>9. RelaysTheFirst(downlink'[s] \o outbound'[s], read'[s], packets'[s])
  BY <1>6, <1>7, <1>8
<1>10. \A t \in Socks \ {s} :
         /\ downlink'[t] = downlink[t] /\ outbound'[t] = outbound[t]
         /\ read'[t] = read[t] /\ packets'[t] = packets[t]
  BY <1>1 DEF QueueTypes, Counts
<1>11. RelaysInOrder'
  BY <1>9, <1>10, OthersStillRelay
<1>12. QueueTypes'
  BY <1>1, <1>4 DEF QueueTypes
<1>13. Counts'
  BY <1>1 DEF Counts, QueueTypes
<1>14. ProxyTypes'
  BY <1>1 DEF ProxyTypes
<1>15. NotYetBegun'
  BY <1>1 DEF NotYetBegun, ProxyTypes, QueueTypes
<1>16. QED
  BY <1>11, <1>12, <1>13, <1>14, <1>15

(* The upstream connection is lost, and its reader finds out.              *)
LEMMA LossKeepsPipe ==
  ASSUME PipeInv, NEW s \in Socks, Proxy!UpstreamLost(s) \/ Proxy!ReaderEnds(s),
         UNCHANGED received
  PROVE  PipeInv'
<1> USE DEF PipeInv
<1>1. /\ upstream[s] \in {"running", "lost"}
      /\ upstream' = [upstream EXCEPT ![s] = "lost"]
         \/ upstream' = [upstream EXCEPT ![s] = "ended"]
      /\ UNCHANGED <<uplink, buffered, downlink, connected, pc, notified, outbound, pending_by_seq, sent,
                     requests, read, served, packets, received>>
  BY DEF Proxy!UpstreamLost, Proxy!ReaderEnds, Proxy!gameVars
<1>2. QueueTypes' /\ Counts'
  BY <1>1 DEF QueueTypes, Counts
<1>3. ProxyTypes' /\ NotYetBegun'
  BY <1>1 DEF ProxyTypes, NotYetBegun
<1>4. QED
  BY <1>1, <1>2, <1>3, QuietKeepsRelaying

(* The game server answers the request whose turn it is, or pushes.        *)
LEMMA GameStepKeepsPipe ==
  ASSUME PipeInv, NEW s \in Socks, Proxy!GameStep(s), UNCHANGED received
  PROVE  PipeInv'
<1> USE DEF PipeInv
<1>1. UNCHANGED <<uplink, buffered, downlink, connected, pc, upstream, notified, outbound,
                  pending_by_seq, sent, requests, read, received>>
  BY DEF Proxy!GameStep, Proxy!Answer, Proxy!Push, Proxy!proxyVars
<1>2. /\ served' \in [Socks -> Nat]
      /\ \A t \in Socks : served'[t] <= Len(requests[t])
  <2>1. CASE Proxy!Answer(s)
    <3>1. served[s] < Len(requests[s]) /\ served' = [served EXCEPT ![s] = @ + 1]
      BY <2>1 DEF Proxy!Answer
    <3>2. Len(requests[s]) \in Nat
      BY DEF QueueTypes
    <3>3. QED
      BY <3>1, <3>2 DEF Counts
  <2>2. CASE Proxy!Push(s)
    BY <2>2 DEF Proxy!Push, Counts
  <2>3. QED
    BY <2>1, <2>2 DEF Proxy!GameStep
<1>3. PICK packet \in Returned : packets' = [packets EXCEPT ![s] = Append(@, packet)]
  <2>1. CASE Proxy!Answer(s)
    <3>1. requests[s] \in Seq(Asked) /\ served[s] + 1 \in 1..Len(requests[s])
      BY <2>1 DEF Proxy!Answer, QueueTypes, Counts
    <3>2. requests[s][served[s] + 1] \in Returned
      BY <3>1, ElementOfSeq DEF Returned
    <3>3. QED
      BY <2>1, <3>2 DEF Proxy!Answer
  <2>2. CASE Proxy!Push(s)
    BY <2>2 DEF Proxy!Push, Returned
  <2>3. QED
    BY <2>1, <2>2 DEF Proxy!GameStep
<1>4. /\ packets[s] \in Seq(Returned) /\ Append(packets[s], packet) \in Seq(Returned)
      /\ Len(Append(packets[s], packet)) = Len(packets[s]) + 1 /\ Len(packets[s]) \in Nat
  BY AppendProperties DEF QueueTypes
<1>5. QueueTypes'
  BY <1>1, <1>3, <1>4 DEF QueueTypes
<1>6. Counts'
  BY <1>1, <1>2, <1>3, <1>4 DEF Counts, QueueTypes
<1>7. ProxyTypes' /\ NotYetBegun'
  BY <1>1 DEF ProxyTypes, NotYetBegun
<1>8. RelaysInOrder'
  <2>1. /\ read[s] \in Nat /\ read[s] <= Len(packets[s])
        /\ RelaysTheFirst(downlink[s] \o outbound[s], read[s], packets[s])
    BY DEF Counts, RelaysInOrder
  <2>2. RelaysTheFirst(downlink[s] \o outbound[s], read[s], Append(packets[s], packet))
    BY <2>1, <1>4, LaterPacketsDoNotMatter
  <2>3. packets'[s] = Append(packets[s], packet)
    BY <1>3 DEF QueueTypes
  <2>4. RelaysTheFirst(downlink'[s] \o outbound'[s], read'[s], packets'[s])
    BY <2>2, <2>3, <1>1
  <2>5. \A t \in Socks \ {s} :
          /\ downlink'[t] = downlink[t] /\ outbound'[t] = outbound[t]
          /\ read'[t] = read[t] /\ packets'[t] = packets[t]
    BY <1>1, <1>3 DEF QueueTypes
  <2>6. QED
    BY <2>4, <2>5, OthersStillRelay
<1>9. QED
  BY <1>5, <1>6, <1>7, <1>8

LEMMA GatewayKeepsPipe ==
  ASSUME PipeInv, NEW s \in Socks, Accepted(s) \/ GatewayStep(s) \/ ServerStep(s)
  PROVE  PipeInv'
BY AcceptKeepsPipe, FlushKeepsPipe, FlushEndsKeepsPipe, PollKeepsPipe, CloseKeepsPipe,
   SendUpstreamKeepsPipe, RememberKeepsPipe, OnPacketKeepsPipe, LossKeepsPipe, GameStepKeepsPipe
   DEF Accepted, GatewayStep, ServerStep, Proxy!ProxyStep, Proxy!CloseCrosses, Proxy!ReaderStep

(* The gateway does not touch what the client keeps.                       *)
LEMMA GatewayKeepsClientInv ==
  ASSUME ClientInv, NEW s \in Socks, Accepted(s) \/ GatewayStep(s) \/ ServerStep(s)
  PROVE  ClientInv'
<1>1. UNCHANGED <<clientVars, readyState>>
  BY DEF Accepted, GatewayStep, ServerStep
<1>2. QED
  BY <1>1 DEF ClientInv, ClientTypes, PendingIsWaiting, LaterIsUnmade, clientVars

-----------------------------------------------------------------------------
(* Answers.                                                                *)

(* The game server takes nothing back.                                     *)
LEMMA PacketsStay ==
  ASSUME QueueTypes, Counts, [Next]_vars
  PROVE  \A s \in Socks :
           {packets[s][i] : i \in DOMAIN packets[s]}
             \subseteq {packets'[s][i] : i \in DOMAIN packets'[s]}
<1>1. CASE UNCHANGED packets
  BY <1>1
<1>2. ASSUME NEW s \in Socks, NEW packet \in Returned,
             packets' = [packets EXCEPT ![s] = Append(@, packet)]
      PROVE  \A t \in Socks :
               {packets[t][i] : i \in DOMAIN packets[t]}
                 \subseteq {packets'[t][i] : i \in DOMAIN packets'[t]}
  <2>1. TAKE t \in Socks
  <2>2. CASE t # s
    BY <2>2, <1>2 DEF QueueTypes
  <2>3. CASE t = s
    <3>1. packets[t] \in Seq(Returned) /\ packets'[t] = Append(packets[t], packet)
      BY <2>3, <1>2 DEF QueueTypes
    <3>2. /\ DOMAIN packets[t] = 1..Len(packets[t]) /\ Len(packets[t]) \in Nat
          /\ DOMAIN packets'[t] = 1..(Len(packets[t]) + 1)
          /\ \A i \in 1..Len(packets[t]) : packets'[t][i] = packets[t][i]
      BY <3>1, AppendProperties, LenProperties
    <3>3. QED
      BY <3>2
  <2>4. QED
    BY <2>2, <2>3
<1>3. ASSUME NEW s \in Socks, Proxy!Answer(s)
      PROVE  \E packet \in Returned : packets' = [packets EXCEPT ![s] = Append(@, packet)]
  <2>1. requests[s] \in Seq(Asked) /\ served[s] + 1 \in 1..Len(requests[s])
    BY <1>3 DEF Proxy!Answer, QueueTypes, Counts
  <2>2. requests[s][served[s] + 1] \in Returned
    BY <2>1, ElementOfSeq DEF Returned
  <2>3. QED
    BY <1>3, <2>2 DEF Proxy!Answer
<1>4. ASSUME NEW s \in Socks, Proxy!Push(s)
      PROVE  \E packet \in Returned : packets' = [packets EXCEPT ![s] = Append(@, packet)]
  BY <1>4 DEF Proxy!Push, Returned
<1>5. ASSUME NEW s \in Socks,
             \/ Accepted(s) \/ GatewayStep(s)
             \/ Proxy!UpstreamLost(s) \/ Proxy!CloseReturns(s)
      PROVE  UNCHANGED packets
  BY <1>5 DEF Accepted, GatewayStep, Proxy!Accept, Proxy!ProxyStep, Proxy!ReaderStep,
              Proxy!Flush, Proxy!WriteFails, Proxy!Flushed, Proxy!Idle, Proxy!Leave,
              Proxy!Refuse, Proxy!SendUpstream, Proxy!Remember, Proxy!OnPacket,
              Proxy!CloseCrosses, Proxy!CloseReturns, Proxy!ReaderEnds, Proxy!UpstreamLost,
              Proxy!gameVars
<1>6. ASSUME NEW s \in Socks, Opened(s) \/ Deliver(s) \/ Closed(s)
      PROVE  UNCHANGED packets
  BY <1>6 DEF Opened, Deliver, Closed, gatewayVars
<1>7. CASE ClientStep \/ UNCHANGED vars
  BY <1>1, <1>7 DEF ClientStep, gatewayVars, vars
<1>8. CASE \E s \in Socks : ServerStep(s)
  BY <1>1, <1>2, <1>3, <1>4, <1>5, <1>8 DEF ServerStep, Proxy!GameStep
<1>9. QED
  BY <1>1, <1>5, <1>6, <1>7, <1>8 DEF Next

(* What a step does to the promises: only a message resolves one, and only *)
(* one that waits.                                                         *)
LEMMA PromisesThatStay ==
  ASSUME ClientInv, [Next]_vars, ~ \E s \in Socks : Deliver(s)
  PROVE  /\ UNCHANGED answer
         /\ \A seq \in Seqs : promise'[seq] = "resolved" => promise[seq] = "resolved"
         /\ \A seq \in Seqs : promise[seq] \in {"resolved", "rejected"} =>
              promise'[seq] = promise[seq]
<1> USE DEF ClientInv, ClientTypes
<1> DEFINE Goal ==
      /\ UNCHANGED answer
      /\ \A seq \in Seqs : promise'[seq] = "resolved" => promise[seq] = "resolved"
      /\ \A seq \in Seqs : promise[seq] \in {"resolved", "rejected"} =>
           promise'[seq] = promise[seq]
<1>1. CASE UNCHANGED <<answer, promise>>
  BY <1>1
<1>2. CASE RejectAllPending /\ UNCHANGED answer
  BY <1>2 DEF RejectAllPending, PendingIsWaiting
<1>3. CASE SendRequest
  BY <1>3 DEF SendRequest, Send, LaterIsUnmade, Seqs
<1>4. ASSUME NEW seq \in Seqs, RequestTimesOut(seq)
      PROVE  Goal
  BY <1>4 DEF RequestTimesOut, PendingIsWaiting
<1> HIDE DEF Goal
<1>5. CASE ClientStep
  <2>1. CASE Connect \/ Heartbeat \/ ReconnectTimer
    BY <2>1, <1>1 DEF Connect, Heartbeat, SendFireAndForget, ReconnectTimer, Goal
  <2>2. CASE Disconnect
    BY <2>2, <1>2 DEF Disconnect, Goal
  <2>3. QED
    BY <2>1, <2>2, <1>3, <1>4, <1>5 DEF ClientStep, Goal
<1>6. CASE \E s \in Socks : Opened(s) \/ Accepted(s) \/ GatewayStep(s) \/ ServerStep(s)
  BY <1>1, <1>6 DEF Opened, OnOpen, Accepted, GatewayStep, ServerStep, clientVars
<1>7. CASE \E s \in Socks : Closed(s)
  BY <1>2, <1>7 DEF Closed, OnClose
<1>8. CASE UNCHANGED vars
  BY <1>1, <1>8 DEF vars, clientVars
<1>9. QED
  BY <1>5, <1>6, <1>7, <1>8 DEF Next, Goal

(* A message resolves the promise of the request it answers.               *)
LEMMA MessageAnswersItsRequest ==
  ASSUME ClientInv, PipeInv, NEW s \in Socks, Deliver(s), NEW seq \in Seqs
  PROVE  \/ promise'[seq] = promise[seq] /\ answer'[seq] = answer[seq]
         \/ /\ promise[seq] = "waiting"
            /\ promise'[seq] = "resolved" /\ answer'[seq] = seq
            /\ Proxy!Packet(seq, seq) \in {packets[s][i] : i \in DOMAIN packets[s]}
<1> DEFINE j == received[s] + 1
           envelope == downlink[s][j]
           resolved == Resolves(envelope)
           queue == downlink[s] \o outbound[s]
<1>1. /\ received[s] < Len(downlink[s])
      /\ promise' = [q \in Seqs |-> IF q \in resolved THEN "resolved" ELSE promise[q]]
      /\ answer' = [q \in Seqs |-> IF q \in resolved THEN envelope.id ELSE answer[q]]
  BY DEF Deliver, OnMessage
<1>2. CASE seq \notin resolved
  <2> HIDE DEF resolved
  <2>1. QED
    BY <1>1, <1>2
<1>3. CASE seq \in resolved
  <2>1. seq \in pending /\ envelope.seq = seq /\ envelope.seq > 0
    BY <1>3 DEF Resolves
  <2>2. promise[seq] = "waiting"
    BY <2>1 DEF ClientInv, PendingIsWaiting
  <2>3. /\ downlink[s] \in Seq(Letters) /\ outbound[s] \in Seq(Letters)
        /\ packets[s] \in Seq(Returned) /\ read[s] \in Nat /\ read[s] <= Len(packets[s])
        /\ j \in 1..Len(downlink[s])
    BY <1>1 DEF PipeInv, QueueTypes, Counts
  <2>4. /\ queue \in Seq(Letters) /\ j \in 1..Len(queue)
        /\ queue[j] = envelope
    <3> HIDE DEF j
    <3>1. /\ queue \in Seq(Letters) /\ Len(queue) = Len(downlink[s]) + Len(outbound[s])
          /\ \A i \in 1..(Len(downlink[s]) + Len(outbound[s])) :
               queue[i] = IF i <= Len(downlink[s]) THEN downlink[s][i]
                          ELSE outbound[s][i - Len(downlink[s])]
      BY <2>3, ConcatProperties
    <3>2. Len(downlink[s]) \in Nat /\ Len(outbound[s]) \in Nat
      BY <2>3
    <3> HIDE DEF queue
    <3>3. j \in 1..(Len(downlink[s]) + Len(outbound[s])) /\ j <= Len(downlink[s])
      <4> HIDE DEF envelope, resolved
      <4>1. j \in 1..Len(downlink[s])
        BY <2>3
      <4>2. \A n, m \in Nat : \A i \in 1..n : i \in 1..(n + m) /\ i <= n
        OBVIOUS
      <4>3. QED
        BY <4>1, <4>2, <3>2, Zenon
    <3>4. QED
      BY <3>1, <3>3
  <2>5. RelaysTheFirst(queue, read[s], packets[s])
    BY DEF PipeInv, RelaysInOrder
  <2> HIDE DEF queue, j, envelope, resolved
  <2>6. /\ envelope.id = envelope.seq
        /\ Proxy!Packet(envelope.seq, envelope.seq) \in {packets[s][i] : i \in DOMAIN packets[s]}
    BY <2>1, <2>3, <2>4, <2>5, NumberedIsReturned
  <2>7. promise'[seq] = "resolved" /\ answer'[seq] = envelope.id
    BY <1>1, <1>3
  <2>8. QED
    BY <2>1, <2>2, <2>6, <2>7
<1>4. QED
  BY <1>2, <1>3

-----------------------------------------------------------------------------
(* Theorems.                                                               *)

LEMMA InitHolds == Init => IInv
<1> SUFFICES ASSUME Init PROVE IInv
  OBVIOUS
<1> USE DEF Init, ClientInit, Proxy!ProxyInit
<1>1. ClientTypes
  <2>1. nextSeq \in 1..(MaxSeq + 1)
    BY ClientAssumption DEF FirstSeq
  <2>2. QED
    BY <2>1 DEF ClientTypes
<1>2. QueueTypes
  <2>1. <<>> \in Seq(Frames) /\ <<>> \in Seq(Letters) /\ <<>> \in Seq(Asked)
        /\ <<>> \in Seq(Returned)
    OBVIOUS
  <2>2. QED
    BY <2>1 DEF QueueTypes
<1>3. ProxyTypes
  BY DEF ProxyTypes, Returned
<1>4. Counts
  BY DEF Counts
<1>5. PendingIsWaiting /\ LaterIsUnmade /\ AnswersMatchRequests /\ NotYetBegun
  BY DEF PendingIsWaiting, LaterIsUnmade, AnswersMatchRequests, NotYetBegun
<1>6. RelaysInOrder
  <2>1. SUFFICES ASSUME NEW s \in Socks
                 PROVE  RelaysTheFirst(downlink[s] \o outbound[s], read[s], packets[s])
    BY DEF RelaysInOrder
  <2>2. downlink[s] \o outbound[s] = <<>> /\ read[s] = 0
    BY ConcatEmptySeq
  <2> DEFINE relayed == {j \in DOMAIN <<>> : <<>>[j].from = "upstream"}
             place == [i \in 1..0 |-> i]
  <2>3. relayed = {} /\ 1..0 = {} /\ place \in [1..0 -> relayed]
    OBVIOUS
  <2> HIDE DEF place
  <2>4. RelaysTheFirst(<<>>, 0, packets[s])
    BY <2>3 DEF RelaysTheFirst
  <2>5. QED
    BY <2>2, <2>4
<1>7. QED
  BY <1>1, <1>2, <1>3, <1>4, <1>5, <1>6 DEF IInv, TypeInv

LEMMA StepKeepsClientInv == IInv /\ [Next]_vars => ClientInv'
<1> SUFFICES ASSUME IInv, [Next]_vars PROVE ClientInv'
  OBVIOUS
<1>1. ClientInv /\ QueueTypes /\ Counts
  BY DEF IInv, TypeInv, ClientInv
<1>2. CASE ClientStep
  BY <1>1, <1>2, ClientStepKeepsClientInv
<1>3. ASSUME NEW s \in Socks, Opened(s) \/ Closed(s)
      PROVE  ClientInv'
  BY <1>1, <1>3, SocketEventKeepsClientInv DEF Opened, Closed
<1>4. ASSUME NEW s \in Socks, Deliver(s)
      PROVE  ClientInv'
  BY <1>1, <1>4, MessageKeepsClientInv DEF Deliver
<1>5. ASSUME NEW s \in Socks, Accepted(s) \/ GatewayStep(s) \/ ServerStep(s)
      PROVE  ClientInv'
  BY <1>1, <1>5, GatewayKeepsClientInv
<1>6. CASE UNCHANGED vars
  BY <1>1, <1>6
     DEF vars, clientVars, ClientInv, ClientTypes, PendingIsWaiting, LaterIsUnmade
<1>7. QED
  BY <1>2, <1>3, <1>4, <1>5, <1>6 DEF Next

LEMMA StepKeepsPipe == IInv /\ [Next]_vars => PipeInv'
<1> SUFFICES ASSUME IInv, [Next]_vars PROVE PipeInv'
  OBVIOUS
<1>1. ClientTypes /\ PipeInv
  BY DEF IInv, TypeInv, PipeInv
<1>2. CASE ClientStep
  BY <1>1, <1>2, ClientStepKeepsPipe
<1>3. ASSUME NEW s \in Socks, Opened(s) \/ Deliver(s) \/ Closed(s)
      PROVE  PipeInv'
  BY <1>1, <1>3, SocketEventKeepsPipe
<1>4. ASSUME NEW s \in Socks, Accepted(s) \/ GatewayStep(s) \/ ServerStep(s)
      PROVE  PipeInv'
  BY <1>1, <1>4, GatewayKeepsPipe
<1>5. CASE UNCHANGED vars
  BY <1>1, <1>5
     DEF vars, gatewayVars, proxyVars, PipeInv, QueueTypes, ProxyTypes, Counts, NotYetBegun,
         RelaysInOrder
<1>6. QED
  BY <1>2, <1>3, <1>4, <1>5 DEF Next

LEMMA StepKeepsAnswers == IInv /\ [Next]_vars => AnswersMatchRequests'
<1> SUFFICES ASSUME IInv, [Next]_vars,
                    NEW seq \in Seqs, promise'[seq] = "resolved"
             PROVE  /\ answer'[seq] = seq
                    /\ \E s \in Socks :
                         Proxy!Packet(seq, seq) \in {packets'[s][i] : i \in DOMAIN packets'[s]}
  BY DEF AnswersMatchRequests
<1> DEFINE Back(s) == {packets[s][i] : i \in DOMAIN packets[s]}
           BackNext(s) == {packets'[s][i] : i \in DOMAIN packets'[s]}
           packet == Proxy!Packet(seq, seq)
<1>1. ClientInv /\ PipeInv
  BY DEF IInv, TypeInv, ClientInv, PipeInv
<1>2. \A s \in Socks : Back(s) \subseteq BackNext(s)
  BY <1>1, PacketsStay DEF PipeInv
<1>3. promise[seq] = "resolved" => answer[seq] = seq /\ \E s \in Socks : packet \in Back(s)
  BY DEF IInv, AnswersMatchRequests
<1> HIDE DEF Back, BackNext, packet
<1>4. CASE ~ \E s \in Socks : Deliver(s)
  <2>1. promise[seq] = "resolved" /\ answer'[seq] = answer[seq]
    BY <1>1, <1>4, PromisesThatStay
  <2>2. answer'[seq] = seq /\ \E s \in Socks : packet \in BackNext(s)
    BY <2>1, <1>2, <1>3
  <2>3. QED
    BY <2>2 DEF BackNext, packet
<1>5. ASSUME NEW s \in Socks, Deliver(s)
      PROVE  answer'[seq] = seq /\ \E t \in Socks : packet \in BackNext(t)
  <2>1. \/ promise[seq] = "resolved" /\ answer'[seq] = answer[seq]
        \/ answer'[seq] = seq /\ packet \in Back(s)
    BY <1>1, <1>5, MessageAnswersItsRequest DEF Back, packet
  <2>2. QED
    BY <2>1, <1>2, <1>3
<1>6. QED
  BY <1>4, <1>5 DEF BackNext, packet

(* The web path as a whole: types, who waits, what is relayed, and what    *)
(* answers what, for any number of WebSockets, requests and pushes.        *)
THEOREM Invariance == Spec => []IInv
<1>1. Init => IInv
  BY InitHolds
<1>2. IInv /\ [Next]_vars => IInv'
  BY StepKeepsClientInv, StepKeepsPipe, StepKeepsAnswers
     DEF IInv, TypeInv, ClientInv, PipeInv
<1>3. QED
  BY <1>1, <1>2, PTL DEF Spec

(* The types of the client, of the proxies and of what travels between     *)
(* them, and nobody reads ahead of what was written.                       *)
THEOREM TypeCorrectness == Spec => []TypeOK
<1>1. IInv => TypeOK
  <2> SUFFICES ASSUME IInv PROVE TypeOK
    OBVIOUS
  <2> USE DEF IInv, TypeInv
  <2>1. ASSUME NEW s \in Socks
        PROVE  /\ received[s] \in 0..Len(downlink[s])
               /\ served[s] \in 0..Len(requests[s])
               /\ read[s] \in 0..Len(packets[s])
               /\ \A i \in DOMAIN downlink[s] : downlink[s][i] \in Envelopes
               /\ \A i \in DOMAIN outbound[s] : outbound[s][i] \in Envelopes
    <3>1. downlink[s] \in Seq(Letters) /\ outbound[s] \in Seq(Letters)
          /\ requests[s] \in Seq(Asked) /\ packets[s] \in Seq(Returned)
      BY DEF QueueTypes
    <3>2. /\ \A i \in DOMAIN downlink[s] : downlink[s][i] \in Letters
          /\ \A i \in DOMAIN outbound[s] : outbound[s][i] \in Letters
      BY <3>1
    <3>3. \A envelope \in Letters : envelope \in Envelopes
      BY DEF Letters
    <3>4. Len(downlink[s]) \in Nat /\ Len(requests[s]) \in Nat /\ Len(packets[s]) \in Nat
      BY <3>1
    <3>5. QED
      BY <3>2, <3>3, <3>4 DEF Counts
  <2>2. QED
    BY <2>1 DEF TypeOK, ClientTypes, ProxyTypes
<1>2. QED
  BY <1>1, Invariance, PTL

(* The requests that can still be answered or time out are those whose     *)
(* promise is open.                                                        *)
THEOREM NoRequestIsForgotten == Spec => []PendingIsWaiting
<1>1. IInv => PendingIsWaiting
  BY DEF IInv
<1>2. QED
  BY <1>1, Invariance, PTL

(* What the reader took is relayed once, in order, under the number and id *)
(* it came back with.                                                      *)
THEOREM ReaderRelaysInOrder == Spec => []RelaysInOrder
<1>1. IInv => RelaysInOrder
  BY DEF IInv
<1>2. QED
  BY <1>1, Invariance, PTL

(* A promise is resolved with an answer the game server gave to that very  *)
(* request.                                                                *)
THEOREM AnswersAreForTheRequest == Spec => []AnswersMatchRequests
<1>1. IInv => AnswersMatchRequests
  BY DEF IInv
<1>2. QED
  BY <1>1, Invariance, PTL

(* A request is settled once: neither a late answer nor the closing of a   *)
(* socket after its time-out changes what its caller was told.             *)
THEOREM RequestsSettleOnce == Spec => SettledStays
<1>1. IInv /\ [Next]_vars =>
        [\A seq \in Seqs : promise[seq] \in {"resolved", "rejected"} =>
           promise'[seq] = promise[seq] /\ answer'[seq] = answer[seq]]_vars
  <2> SUFFICES ASSUME IInv, [Next]_vars,
                      NEW seq \in Seqs, promise[seq] \in {"resolved", "rejected"}
               PROVE  promise'[seq] = promise[seq] /\ answer'[seq] = answer[seq]
    OBVIOUS
  <2>1. ClientInv /\ PipeInv
    BY DEF IInv, TypeInv, ClientInv, PipeInv
  <2>2. CASE ~ \E s \in Socks : Deliver(s)
    BY <2>1, <2>2, PromisesThatStay
  <2>3. CASE \E s \in Socks : Deliver(s)
    BY <2>1, <2>3, MessageAnswersItsRequest
  <2>4. QED
    BY <2>2, <2>3
<1>2. QED
  BY <1>1, Invariance, PTL DEF Spec, SettledStays
=============================================================================
