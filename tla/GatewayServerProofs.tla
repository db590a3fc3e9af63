------------------------ MODULE GatewayServerProofs ------------------------
(***************************************************************************)
(* Theorems about GatewayServer, for every set of addresses and            *)
(* connections and all limits: the slots of an address are counted         *)
(* exactly, its requests of any second are few enough, a ban that stands   *)
(* gives way only to a thread that was late with its own, and nothing runs *)
(* after a Stop that found the gateway running.                            *)
(***************************************************************************)
EXTENDS GatewayServer, FiniteSetTheorems, SequenceTheorems, WellFoundedInduction, TLAPS

(* What Stop has joined has ended, and until it has joined the connection  *)
(* threads every one that runs is among them.                              *)
StopInv ==
  /\ stopping \in {"join_metrics", "join_sessions", "stopped"} => accept_loop = "ended"
  /\ stopping \in {"join_sessions", "stopped"} => metrics_loop = "ended"
  /\ stopping # "stopped" =>
       \A c \in Conns : pc[c] = "new" \/ Ended(c) \/ c \in session_threads
  /\ StoppedIsQuiet

(* No ban lasts longer than one from now would: the clocks threads ban by  *)
(* are not ahead.                                                          *)
BanEndsWithin ==
  /\ \A ip \in Ips : banned_until[ip] <= now + BanTime
  /\ \A c \in Conns : since[c] <= now

(* The connections of an address whose request was let pass at a time      *)
(* from a on, for a second, and those for which that was less than a       *)
(* second ago.                                                             *)
Within(ip, a) ==
  {d \in Conns : /\ client_ip[d] = ip
                 /\ admitted_at[d] # NoTime
                 /\ admitted_at[d] \in a..(a + Second - 1)}

LastSecond(ip) ==
  {d \in Conns : /\ client_ip[d] = ip
                 /\ admitted_at[d] # NoTime
                 /\ now < admitted_at[d] + Second}

(* A place of its own, in a window, for the time of each of them.          *)
Places(window, asked) ==
  {place \in [asked -> 1..Len(window)] :
     /\ \A d \in asked : window[place[d]] = admitted_at[d]
     /\ \A d, e \in asked : place[d] = place[e] => d = e}

(* What is dropped from a window is a second old: all others are in it.    *)
WindowsRemember == \A ip \in Ips : Places(http_rate_by_ip[ip], LastSecond(ip)) # {}

(* Whenever a second begins.                                               *)
RatesHold == \A ip \in Ips : \A a \in Int : Cardinality(Within(ip, a)) <= MaxHttpQps

IInv ==
  /\ TypeOK
  /\ SlotsAreCounted
  /\ StopInv
  /\ BanEndsWithin
  /\ WindowsRemember
  /\ RatesHold
-----------------------------------------------------------------------------
(* Windows and slots.                                                      *)

LEMMA RecentIsWindow ==
  ASSUME NEW window \in Seq(Nat), now \in Nat
  PROVE  Recent(window) \in Seq(Nat)
<1> DEFINE n == Cardinality(Expired(window))
<1>1. IsFiniteSet(1..Len(window))
  BY FS_Interval
<1>2. IsFiniteSet(Expired(window))
  BY <1>1, FS_Subset DEF Expired
<1>3. n \in Nat
  BY <1>2, FS_CardinalityType
<1>4. \A i \in (n + 1)..Len(window) : window[i] \in Nat
  BY <1>3
<1>5. n + 1 \in Int /\ Len(window) \in Int
  BY <1>3
<1> QED
  BY <1>4, <1>5, SubSeqProperties DEF Recent

LEMMA HoldersAreFinite ==
  ASSUME NEW ip \in Ips
  PROVE  IsFiniteSet(SlotHolders(ip)) /\ Cardinality(SlotHolders(ip)) \in Nat
<1>1. SlotHolders(ip) \subseteq Conns
  BY DEF SlotHolders
<1> QED
  BY <1>1, BoundsAssumption, FS_Subset, FS_CardinalityType

(* A thread whose slot is neither taken nor given back.                    *)
LEMMA HoldersStay ==
  ASSUME TypeOK, NEW c \in Conns, NEW step \in Steps,
         pc' = [pc EXCEPT ![c] = step], client_ip' = client_ip,
         HoldsSlot(c) <=> step \in {"proxy", "proxy_ban", "ws_close", "release", "failed"}
  PROVE  \A ip \in Ips : SlotHolders(ip)' = SlotHolders(ip)
<1>1. \A d \in Conns : HoldsSlot(d)' <=> HoldsSlot(d)
  BY DEF HoldsSlot, TypeOK
<1> QED
  BY <1>1 DEF SlotHolders

LEMMA HolderEnters ==
  ASSUME TypeOK, NEW c \in Conns, NEW mine \in Ips, mine = client_ip[c],
         pc' = [pc EXCEPT ![c] = "proxy"],
         client_ip' = client_ip, pc[c] = "acquire"
  PROVE  /\ SlotHolders(mine)' = SlotHolders(mine) \cup {c}
         /\ c \notin SlotHolders(mine)
         /\ \A ip \in Ips \ {mine} : SlotHolders(ip)' = SlotHolders(ip)
<1>1. \A d \in Conns \ {c} : HoldsSlot(d)' <=> HoldsSlot(d)
  BY DEF HoldsSlot, TypeOK
<1>2. HoldsSlot(c)' /\ ~HoldsSlot(c)
  BY DEF HoldsSlot, TypeOK
<1> QED
  BY <1>1, <1>2 DEF SlotHolders

LEMMA HolderLeaves ==
  ASSUME TypeOK, NEW c \in Conns, NEW mine \in Ips, mine = client_ip[c],
         pc' = [pc EXCEPT ![c] = "done"],
         client_ip' = client_ip, pc[c] = "release"
  PROVE  /\ SlotHolders(mine)' = SlotHolders(mine) \ {c}
         /\ c \in SlotHolders(mine)
         /\ \A ip \in Ips \ {mine} : SlotHolders(ip)' = SlotHolders(ip)
<1>1. \A d \in Conns \ {c} : HoldsSlot(d)' <=> HoldsSlot(d)
  BY DEF HoldsSlot, TypeOK
<1>2. ~HoldsSlot(c)' /\ HoldsSlot(c)
  BY DEF HoldsSlot, TypeOK
<1> QED
  BY <1>1, <1>2 DEF SlotHolders

(* Steps that leave the slots and their holders alone.                     *)
LEMMA SlotsStay ==
  ASSUME SlotsAreCounted, ws_conn_by_ip' = ws_conn_by_ip,
         \A ip \in Ips : SlotHolders(ip)' = SlotHolders(ip)
  PROVE  SlotsAreCounted'
BY DEF SlotsAreCounted

LEMMA SlotTaken ==
  ASSUME TypeOK, SlotsAreCounted, NEW c \in Conns, TryAcquireWsSlot(c)
  PROVE  SlotsAreCounted'
<1> PICK mine \in Ips : mine = client_ip[c]
  BY DEF TypeOK
<1>0. pc[c] = "acquire" /\ client_ip' = client_ip
  BY DEF TryAcquireWsSlot, threadLocals
<1>1. CASE HasWsSlot(mine)
  <2>1. /\ ws_conn_by_ip' = [ws_conn_by_ip EXCEPT ![mine] = @ + 1]
        /\ pc' = [pc EXCEPT ![c] = "proxy"]
    BY <1>1 DEF TryAcquireWsSlot, Goto
  <2>2. /\ SlotHolders(mine)' = SlotHolders(mine) \cup {c}
        /\ c \notin SlotHolders(mine)
        /\ \A ip \in Ips \ {mine} : SlotHolders(ip)' = SlotHolders(ip)
    BY <1>0, <2>1, HolderEnters
  <2>3. /\ Cardinality(SlotHolders(mine) \cup {c}) = Cardinality(SlotHolders(mine)) + 1
        /\ Cardinality(SlotHolders(mine)) \in Nat
    BY <1>0, <2>2, HoldersAreFinite, FS_AddElement
  <2>4. /\ ws_conn_by_ip'[mine] = Cardinality(SlotHolders(mine)')
        /\ Cardinality(SlotHolders(mine)') <= MaxWs
    BY <1>0, <1>1, <2>1, <2>2, <2>3, ConfigAssumption
       DEF SlotsAreCounted, HasWsSlot, TypeOK
  <2>5. ASSUME NEW ip \in Ips \ {mine}
        PROVE  /\ ws_conn_by_ip'[ip] = Cardinality(SlotHolders(ip)')
               /\ Cardinality(SlotHolders(ip)') <= MaxWs
    BY <2>1, <2>2 DEF SlotsAreCounted, TypeOK
  <2> QED
    BY <2>4, <2>5 DEF SlotsAreCounted
<1>2. CASE ~HasWsSlot(mine)
  <2>1. ws_conn_by_ip' = ws_conn_by_ip /\ pc' = [pc EXCEPT ![c] = "ban"]
    BY <1>2 DEF TryAcquireWsSlot, GotoBan, Goto
  <2>2. \A ip \in Ips : SlotHolders(ip)' = SlotHolders(ip)
    BY <1>0, <2>1, HoldersStay DEF Steps, HoldsSlot
  <2> QED
    BY <2>1, <2>2, SlotsStay
<1> QED
  BY <1>1, <1>2

LEMMA SlotGivenBack ==
  ASSUME TypeOK, SlotsAreCounted, NEW c \in Conns, Release(c)
  PROVE  SlotsAreCounted'
<1> PICK mine \in Ips : mine = client_ip[c]
  BY DEF TypeOK
<1>0. pc[c] = "release" /\ client_ip' = client_ip
  BY DEF Release, threadLocals
<1>1. /\ ws_conn_by_ip' =
           [ws_conn_by_ip EXCEPT ![mine] = IF ws_conn_by_ip[mine] > 0
                                           THEN ws_conn_by_ip[mine] - 1 ELSE 0]
      /\ pc' = [pc EXCEPT ![c] = "done"]
  BY <1>0 DEF Release, ReleaseWsSlot, Goto, TypeOK
<1>2. /\ SlotHolders(mine)' = SlotHolders(mine) \ {c}
      /\ c \in SlotHolders(mine)
      /\ \A ip \in Ips \ {mine} : SlotHolders(ip)' = SlotHolders(ip)
  BY <1>0, <1>1, HolderLeaves
<1>3. /\ Cardinality(SlotHolders(mine) \ {c}) = Cardinality(SlotHolders(mine)) - 1
      /\ Cardinality(SlotHolders(mine)) \in Nat
      /\ Cardinality(SlotHolders(mine) \ {c}) \in Nat
  BY <1>0, <1>2, HoldersAreFinite, FS_RemoveElement, FS_CardinalityType
<1>4. /\ ws_conn_by_ip'[mine] = Cardinality(SlotHolders(mine)')
      /\ Cardinality(SlotHolders(mine)') <= MaxWs
  BY <1>0, <1>1, <1>2, <1>3, ConfigAssumption DEF SlotsAreCounted, TypeOK
<1>5. ASSUME NEW ip \in Ips \ {mine}
      PROVE  /\ ws_conn_by_ip'[ip] = Cardinality(SlotHolders(ip)')
             /\ Cardinality(SlotHolders(ip)') <= MaxWs
  BY <1>1, <1>2 DEF SlotsAreCounted, TypeOK
<1> QED
  BY <1>4, <1>5 DEF SlotsAreCounted
-----------------------------------------------------------------------------
(* The three parts of the invariant, step by step.                         *)

LEMMA BansTyped ==
  ASSUME TypeOK, NEW ip \in Ips, NEW when \in Nat \cup {NoTime},
         IsIpBanned(ip) \/ BanIp(ip, when)
  PROVE  banned_until' \in [Ips -> Nat]
<1>1. when + BanTime \in Nat /\ 0 \in Nat
  BY ConfigAssumption DEF NoTime
<1>2. banned_until \in [Ips -> Nat]
  BY DEF TypeOK
<1>3. \E t \in Nat : banned_until' \in {banned_until, [banned_until EXCEPT ![ip] = t]}
  BY <1>1 DEF IsIpBanned, BanIp
<1> QED
  BY <1>2, <1>3

LEMMA StepsTyped ==
  ASSUME TypeOK, NEW c \in Conns, NEW step \in Steps, Goto(c, step)
  PROVE  pc' \in [Conns -> Steps]
BY DEF Goto, TypeOK

(* A thread reads the clock, is done with it, or leaves it alone.          *)
LEMMA ClockSteps ==
  ASSUME [Next]_vars
  PROVE  \/ since' = since
         \/ \E c \in Conns : \/ since' = [since EXCEPT ![c] = now]
                             \/ since' = [since EXCEPT ![c] = NoTime]
<1> USE DEF serverVars, threadVars, threadLocals, securityVars
<1>1. CASE Tick \/ Stop \/ ServerStep \/ UNCHANGED vars
  BY <1>1 DEF Tick, Stop, ServerStep, CheckRunning, AcceptNobody, MetricsEnds,
              MetricsThrows, JoinAccept, JoinMetrics, JoinSessions, vars
<1>2. ASSUME NEW c \in Conns,
             \/ Accept(c) \/ AcceptThrows(c) \/ Serve(c) \/ QueryEnds(c) \/ Release(c)
             \/ RefuseEarly(c) \/ Receive(c) \/ ProxyReturns(c) \/ ProxyCloses(c)
             \/ ProxyThrows(c)
      PROVE  since' = since
  BY <1>2 DEF Accept, AcceptThrows, Serve, LoginTicket, SessionRefresh, QueryEnds, Release,
              RefuseEarly, Receive, ProxyReturns, ProxyCloses, ProxyThrows
<1>3. ASSUME NEW c \in Conns,
             TryAcquireWsSlot(c) \/ CheckAndConsumeHttpQps(c) \/ ProxyReads(c)
      PROVE  since' = since \/ since' = [since EXCEPT ![c] = now]
  BY <1>3 DEF TryAcquireWsSlot, CheckAndConsumeHttpQps, ProxyReads, GotoBan
<1>4. ASSUME NEW c \in Conns, Ban(c) \/ ProxyBan(c)
      PROVE  since' = [since EXCEPT ![c] = NoTime]
  BY <1>4 DEF Ban, ProxyBan, Banned
<1> QED
  BY <1>1, <1>2, <1>3, <1>4 DEF Next, ThreadStep, PeerStep

LEMMA TypePreserved == TypeOK /\ [Next]_vars => TypeOK'
<1> SUFFICES ASSUME TypeOK, [Next]_vars PROVE TypeOK'
  OBVIOUS
<1> USE DEF serverVars, threadVars, threadLocals, securityVars
<1>0. since' \in [Conns -> Nat \cup {NoTime}]
  BY ClockSteps DEF TypeOK
<1>1. CASE Tick
  BY <1>1, BoundsAssumption DEF Tick, TypeOK
<1>2. CASE Stop
  BY <1>2 DEF Stop, TypeOK
<1>3. CASE ServerStep
  BY <1>3 DEF ServerStep, CheckRunning, AcceptNobody, MetricsEnds, MetricsThrows,
              JoinAccept, JoinMetrics, JoinSessions, TypeOK
<1>4. ASSUME NEW c \in Conns, Accept(c) \/ AcceptThrows(c) PROVE TypeOK'
  <2>1. pc' \in [Conns -> Steps]
    BY <1>4, StepsTyped DEF Accept, AcceptThrows, Steps
  <2> QED
    BY <1>4, <2>1 DEF Accept, AcceptThrows, TypeOK
<1>5. ASSUME NEW c \in Conns, RefuseEarly(c) \/ Serve(c) \/ QueryEnds(c) \/ ProxyCloses(c)
      PROVE  TypeOK'
  <2>1. pc' \in [Conns -> Steps]
    BY <1>5, StepsTyped DEF RefuseEarly, Serve, LoginTicket, SessionRefresh, QueryEnds,
                            ProxyCloses, Steps
  <2> QED
    BY <1>5, <2>1 DEF RefuseEarly, Serve, LoginTicket, SessionRefresh, QueryEnds,
                      ProxyCloses, TypeOK
<1>6. ASSUME NEW c \in Conns, Receive(c) \/ Ban(c) \/ ProxyBan(c) PROVE TypeOK'
  <2>1. pc' \in [Conns -> Steps]
    BY <1>6, StepsTyped DEF Receive, Ban, ProxyBan, Banned, Steps
  <2>2. client_ip[c] \in Ips /\ since[c] \in Nat \cup {NoTime} /\ now \in Nat
    BY DEF TypeOK
  <2>3. since[c]..now \subseteq Nat \cup {NoTime}
    BY <2>2 DEF NoTime
  <2>4. \E t \in Nat \cup {NoTime} : IsIpBanned(client_ip[c]) \/ BanIp(client_ip[c], t)
    BY <1>6, <2>2, <2>3 DEF Receive, Ban, ProxyBan
  <2>5. banned_until' \in [Ips -> Nat]
    BY <2>2, <2>4, BansTyped
  <2> QED
    BY <1>0, <1>6, <2>1, <2>5 DEF Receive, Ban, ProxyBan, TypeOK
<1>7. ASSUME NEW c \in Conns, TryAcquireWsSlot(c) PROVE TypeOK'
  <2>1. pc' \in [Conns -> Steps]
    BY <1>7, StepsTyped DEF TryAcquireWsSlot, GotoBan, Steps
  <2>2. ws_conn_by_ip' \in [Ips -> Nat]
    <3>1. client_ip[c] \in Ips /\ ws_conn_by_ip \in [Ips -> Nat]
      BY DEF TypeOK
    <3>2. ws_conn_by_ip[client_ip[c]] + 1 \in Nat
      BY <3>1
    <3>3. \E n \in Nat :
            ws_conn_by_ip' \in {ws_conn_by_ip, [ws_conn_by_ip EXCEPT ![client_ip[c]] = n]}
      BY <1>7, <3>2 DEF TryAcquireWsSlot
    <3> QED
      BY <3>1, <3>3
  <2> QED
    BY <1>0, <1>7, <2>1, <2>2 DEF TryAcquireWsSlot, TypeOK
<1>8. ASSUME NEW c \in Conns, CheckAndConsumeHttpQps(c) PROVE TypeOK'
  <2> DEFINE ip == client_ip[c]
             window == Recent(http_rate_by_ip[ip])
  <2>1. pc' \in [Conns -> Steps]
    BY <1>8, StepsTyped DEF CheckAndConsumeHttpQps, GotoBan, Steps
  <2>2. window \in Seq(Nat) /\ now \in Nat
    BY RecentIsWindow DEF TypeOK
  <2>3. Append(window, now) \in Seq(Nat)
    BY <2>2
  <2>4. \/ http_rate_by_ip' = [http_rate_by_ip EXCEPT ![ip] = window]
        \/ http_rate_by_ip' = [http_rate_by_ip EXCEPT ![ip] = Append(window, now)]
    BY <1>8 DEF CheckAndConsumeHttpQps
  <2> HIDE DEF window
  <2>5. http_rate_by_ip' \in [Ips -> Seq(Nat)]
    BY <2>2, <2>3, <2>4 DEF TypeOK
  <2>6. admitted_at' \in [Conns -> Nat \cup {NoTime}]
    BY <1>8, <2>2 DEF CheckAndConsumeHttpQps, TypeOK
  <2> QED
    BY <1>0, <1>8, <2>1, <2>5, <2>6 DEF CheckAndConsumeHttpQps, TypeOK
<1>9. ASSUME NEW c \in Conns, ProxyReads(c) PROVE TypeOK'
  <2> DEFINE window == Recent(inbound_window[c])
  <2>1. window \in Seq(Nat) /\ now \in Nat
    BY RecentIsWindow DEF TypeOK
  <2>2. Append(window, now) \in Seq(Nat) /\ <<>> \in Seq(Nat)
    BY <2>1
  <2>3. \/ /\ LeaveProxy(c)
           /\ \E step \in {"ws_close", "proxy_ban"} : Goto(c, step)
        \/ /\ inbound_window' = [inbound_window EXCEPT ![c] = Append(window, now)]
           /\ pc' = pc
    BY <1>9 DEF ProxyReads, GotoBan
  <2> HIDE DEF window
  <2>4. inbound_window' \in [Conns -> Seq(Nat)]
    BY <2>2, <2>3 DEF LeaveProxy, TypeOK
  <2>5. pc' \in [Conns -> Steps]
    BY <2>3, StepsTyped DEF Steps, TypeOK
  <2>6. client_ip[c] \in Ips
    BY DEF TypeOK
  <2>7. banned_until' \in [Ips -> Nat]
    BY <1>9, <2>1, <2>6, BansTyped DEF ProxyReads
  <2> QED
    BY <1>0, <1>9, <2>4, <2>5, <2>7 DEF ProxyReads, TypeOK
<1>10. ASSUME NEW c \in Conns, ProxyReturns(c) \/ ProxyThrows(c) PROVE TypeOK'
  <2>1. LeaveProxy(c) /\ \E step \in {"release", "ws_close", "failed"} : Goto(c, step)
    BY <1>10 DEF ProxyReturns, ProxyThrows
  <2>2. pc' \in [Conns -> Steps]
    BY <2>1, StepsTyped DEF Steps
  <2>3. <<>> \in Seq(Nat)
    OBVIOUS
  <2>4. inbound_window' \in [Conns -> Seq(Nat)]
    BY <2>1, <2>3 DEF LeaveProxy, TypeOK
  <2> QED
    BY <1>10, <2>2, <2>4 DEF ProxyReturns, ProxyThrows, TypeOK
<1>11. ASSUME NEW c \in Conns, Release(c) PROVE TypeOK'
  <2>1. pc' \in [Conns -> Steps]
    BY <1>11, StepsTyped DEF Release, Steps
  <2>2. ws_conn_by_ip' \in [Ips -> Nat]
    BY <1>11 DEF Release, ReleaseWsSlot, TypeOK
  <2> QED
    BY <1>11, <2>1, <2>2 DEF Release, TypeOK
<1>12. CASE UNCHANGED vars
  BY <1>12 DEF vars, TypeOK
<1> QED
  BY <1>1, <1>2, <1>3, <1>4, <1>5, <1>6, <1>7, <1>8, <1>9, <1>10, <1>11, <1>12
     DEF Next, ThreadStep, PeerStep

LEMMA SlotsPreserved == TypeOK /\ SlotsAreCounted /\ [Next]_vars => SlotsAreCounted'
<1> SUFFICES ASSUME TypeOK, SlotsAreCounted, [Next]_vars PROVE SlotsAreCounted'
  OBVIOUS
<1> USE DEF serverVars, threadVars, threadLocals, securityVars
<1>1. CASE Tick \/ Stop \/ ServerStep \/ UNCHANGED vars
  <2>1. ws_conn_by_ip' = ws_conn_by_ip /\ pc' = pc /\ client_ip' = client_ip
    BY <1>1 DEF Tick, Stop, ServerStep, CheckRunning, AcceptNobody, MetricsEnds,
                MetricsThrows, JoinAccept, JoinMetrics, JoinSessions, vars
  <2>2. \A ip \in Ips : SlotHolders(ip)' = SlotHolders(ip)
    BY <2>1 DEF SlotHolders, HoldsSlot
  <2> QED
    BY <2>1, <2>2, SlotsStay
<1>2. ASSUME NEW c \in Conns,
             \/ Accept(c) \/ AcceptThrows(c) \/ RefuseEarly(c) \/ Receive(c) \/ Serve(c)
             \/ QueryEnds(c) \/ Ban(c) \/ ProxyBan(c) \/ CheckAndConsumeHttpQps(c)
             \/ ProxyReturns(c) \/ ProxyCloses(c) \/ ProxyThrows(c)
      PROVE  SlotsAreCounted'
  <2>1. /\ ws_conn_by_ip' = ws_conn_by_ip
        /\ client_ip' = client_ip
        /\ \E step \in Steps :
             /\ pc' = [pc EXCEPT ![c] = step]
             /\ HoldsSlot(c) <=> step \in {"proxy", "proxy_ban", "ws_close", "release", "failed"}
    BY <1>2 DEF Accept, AcceptThrows, RefuseEarly, Receive, Serve, LoginTicket, SessionRefresh,
                QueryEnds, Ban, ProxyBan, Banned, CheckAndConsumeHttpQps, ProxyReturns,
                ProxyCloses, ProxyThrows, GotoBan, Goto, Steps, HoldsSlot
  <2>2. \A ip \in Ips : SlotHolders(ip)' = SlotHolders(ip)
    BY <2>1, HoldersStay
  <2> QED
    BY <2>1, <2>2, SlotsStay
<1>3. ASSUME NEW c \in Conns, ProxyReads(c) PROVE SlotsAreCounted'
  <2>1. ws_conn_by_ip' = ws_conn_by_ip /\ client_ip' = client_ip /\ pc[c] = "proxy"
    BY <1>3 DEF ProxyReads
  <2>2. pc' = pc \/ \E step \in {"ws_close", "proxy_ban"} : pc' = [pc EXCEPT ![c] = step]
    BY <1>3 DEF ProxyReads, GotoBan, Goto
  <2>3. pc' = pc => \A ip \in Ips : SlotHolders(ip)' = SlotHolders(ip)
    BY <2>1 DEF SlotHolders, HoldsSlot
  <2>4. pc' # pc => \A ip \in Ips : SlotHolders(ip)' = SlotHolders(ip)
    BY <2>1, <2>2, HoldersStay DEF Steps, HoldsSlot
  <2> QED
    BY <2>1, <2>3, <2>4, SlotsStay
<1> QED
  BY <1>1, <1>2, <1>3, SlotTaken, SlotGivenBack DEF Next, ThreadStep, PeerStep

LEMMA StopPreserved == TypeOK /\ StopInv /\ [Next]_vars => StopInv'
<1> SUFFICES ASSUME TypeOK, StopInv, [Next]_vars PROVE StopInv'
  OBVIOUS
<1> USE DEF serverVars, threadVars, threadLocals, securityVars
<1>1. CASE Tick \/ Stop \/ ServerStep \/ UNCHANGED vars
  BY <1>1 DEF Tick, Stop, ServerStep, CheckRunning, AcceptNobody, MetricsEnds, MetricsThrows,
              JoinAccept, JoinMetrics, JoinSessions, vars, StopInv, StoppedIsQuiet, Ended
<1>2. ASSUME NEW c \in Conns, Accept(c) PROVE StopInv'
  BY <1>2 DEF Accept, Goto, StopInv, StoppedIsQuiet, Ended, TypeOK
<1>3. ASSUME NEW c \in Conns, AcceptThrows(c) PROVE StopInv'
  BY <1>3 DEF AcceptThrows, Goto, StopInv, StoppedIsQuiet, Ended, TypeOK
<1>4. ASSUME NEW c \in Conns, ThreadStep(c) \/ PeerStep(c) PROVE StopInv'
  <2>1. /\ UNCHANGED <<accept_loop, metrics_loop, stopping, session_threads>>
        /\ ~Ended(c) /\ pc[c] # "new"
        /\ \A d \in Conns \ {c} : pc'[d] = pc[d]
    BY <1>4 DEF ThreadStep, PeerStep, TryAcquireWsSlot, CheckAndConsumeHttpQps, Ban, Banned,
                Serve, LoginTicket, SessionRefresh, QueryEnds, ProxyBan, Release, RefuseEarly,
                Receive, ProxyReads, ProxyReturns, ProxyCloses, ProxyThrows, GotoBan, Goto,
                Ended, TypeOK
  <2> QED
    BY <2>1 DEF StopInv, StoppedIsQuiet, Ended
<1> QED
  BY <1>1, <1>2, <1>3, <1>4 DEF Next

(* What a step does to the bans.                                           *)
LEMMA BanSteps ==
  ASSUME TypeOK, BanEndsWithin, [Next]_vars
  PROVE  \/ banned_until' = banned_until /\ now' \in Nat /\ now' >= now
         \/ \E c \in Conns : IsIpBanned(client_ip[c]) /\ now' = now
         \/ \E c \in Conns :
              /\ pc[c] \in {"ban", "proxy_ban"} /\ pc'[c] # pc[c]
              /\ \E t \in since[c]..now : BanIp(client_ip[c], t)
              /\ now' = now
<1> USE DEF serverVars, threadVars, threadLocals, securityVars
<1>0. now \in Nat
  BY DEF TypeOK
<1>1. CASE Tick
  BY <1>0, <1>1 DEF Tick
<1>2. CASE Stop \/ ServerStep \/ UNCHANGED vars
  BY <1>0, <1>2 DEF Stop, ServerStep, CheckRunning, AcceptNobody, MetricsEnds, MetricsThrows,
                    JoinAccept, JoinMetrics, JoinSessions, vars
<1>3. ASSUME NEW c \in Conns, Receive(c) \/ ProxyReads(c)
      PROVE  IsIpBanned(client_ip[c]) /\ now' = now
  BY <1>3 DEF Receive, ProxyReads
<1>4. ASSUME NEW c \in Conns, Ban(c) \/ ProxyBan(c)
      PROVE  /\ pc[c] \in {"ban", "proxy_ban"} /\ pc'[c] # pc[c]
             /\ \E t \in since[c]..now : BanIp(client_ip[c], t)
             /\ now' = now
  <2>1. since[c] \in Int /\ since[c] <= now
    BY DEF TypeOK, BanEndsWithin, NoTime
  <2>2. since[c] \in since[c]..now
    BY <1>0, <2>1
  <2>3. \E t \in since[c]..now : BanIp(client_ip[c], t)
    BY <1>4, <2>2 DEF Ban, ProxyBan
  <2> QED
    BY <1>4, <2>3 DEF Ban, ProxyBan, Banned, Goto, TypeOK
<1>5. ASSUME NEW c \in Conns,
             \/ Accept(c) \/ AcceptThrows(c) \/ TryAcquireWsSlot(c)
             \/ CheckAndConsumeHttpQps(c) \/ Serve(c) \/ QueryEnds(c) \/ Release(c)
             \/ RefuseEarly(c) \/ ProxyReturns(c) \/ ProxyCloses(c) \/ ProxyThrows(c)
      PROVE  banned_until' = banned_until /\ now' = now
  BY <1>5 DEF Accept, AcceptThrows, TryAcquireWsSlot, CheckAndConsumeHttpQps, Serve, LoginTicket,
              SessionRefresh, QueryEnds, Release, RefuseEarly, ProxyReturns, ProxyCloses,
              ProxyThrows
<1> QED
  BY <1>0, <1>1, <1>2, <1>3, <1>4, <1>5 DEF Next, ThreadStep, PeerStep

LEMMA BansPreserved == TypeOK /\ BanEndsWithin /\ [Next]_vars => BanEndsWithin'
<1> SUFFICES ASSUME TypeOK, BanEndsWithin, [Next]_vars PROVE BanEndsWithin'
  OBVIOUS
<1>0. /\ now \in Nat /\ banned_until \in [Ips -> Nat] /\ since \in [Conns -> Nat \cup {NoTime}]
      /\ BanTime \in Nat /\ NoTime = -1
  BY ConfigAssumption DEF TypeOK, NoTime
<1>1. now' \in Nat /\ now' >= now
  BY <1>0, BanSteps
<1>2. \A c \in Conns : since'[c] <= now'
  BY <1>0, <1>1, ClockSteps DEF BanEndsWithin
<1>3. ASSUME NEW ip \in Ips PROVE banned_until'[ip] <= now' + BanTime
  <2>1. CASE banned_until' = banned_until
    BY <1>0, <1>1, <2>1 DEF BanEndsWithin
  <2>2. ASSUME NEW c \in Conns, IsIpBanned(client_ip[c]), now' = now
        PROVE  banned_until'[ip] <= now' + BanTime
    BY <1>0, <2>2 DEF BanEndsWithin, IsIpBanned
  <2>3. ASSUME NEW c \in Conns, NEW t \in since[c]..now, BanIp(client_ip[c], t), now' = now
        PROVE  banned_until'[ip] <= now' + BanTime
    BY <1>0, <2>3 DEF BanEndsWithin, BanIp
  <2> QED
    BY <2>1, <2>2, <2>3, BanSteps
<1> QED
  BY <1>2, <1>3 DEF BanEndsWithin
-----------------------------------------------------------------------------
(* Rates.                                                                  *)

(* A set of numbers that is not empty has a least one.                     *)
LEMMA LeastNumber ==
  ASSUME NEW T \in SUBSET Nat, T # {}
  PROVE  \E x \in T : \A y \in T : x <= y
<1>1. PICK x \in T : \A y \in T : <<y, x>> \notin OpToRel(<, Nat)
  BY NatLessThanWellFounded, WFMin
<1>2. \A y \in T : ~(y < x)
  BY <1>1 DEF OpToRel
<1> QED
  BY <1>2

(* The expired times are the first so many of a window.                    *)
LEMMA ExpiredIsAFront ==
  ASSUME NEW window \in Seq(Nat)
  PROVE  \E k \in 0..Len(window) : Expired(window) = 1..k
<1> DEFINE n == Len(window)
           Rest == (1..n) \ Expired(window)
<1>0. n \in Nat /\ Expired(window) \subseteq 1..n
  BY DEF Expired
<1>1. CASE Rest = {}
  <2>1. Expired(window) = 1..n
    BY <1>0, <1>1, Zenon
  <2>2. n \in 0..n
    BY <1>0
  <2> QED
    BY <2>1, <2>2
<1>2. CASE Rest # {}
  <2>1. Rest \in SUBSET Nat
    BY <1>0
  <2>2. PICK first \in Rest : \A y \in Rest : first <= y
    BY <1>2, <2>1, LeastNumber
  <2>3. first \in 1..n /\ first \notin Expired(window)
    BY <2>2
  <2>4. \A j \in 1..n : j < first => j \in Expired(window)
    BY <1>0, <2>2
  <2>5. \A j \in 1..n : j >= first => j \notin Expired(window)
    BY <1>0, <2>3 DEF Expired
  <2>6. \A j : j \in Expired(window) <=> j \in 1..n /\ j < first
    BY <1>0, <2>3, <2>4, <2>5
  <2>7. first \in Nat /\ 1 <= first /\ first <= n
    BY <1>0, <2>3
  <2>8. \A j : j \in 1..(first - 1) <=> j \in 1..n /\ j < first
    BY <1>0, <2>7
  <2>9. Expired(window) = 1..(first - 1)
    BY <2>6, <2>8
  <2>10. first - 1 \in 0..n
    BY <1>0, <2>7
  <2> QED
    BY <2>9, <2>10
<1> QED
  BY <1>1, <1>2

(* What is left is the window without them.                                *)
LEMMA RecentIsTheRest ==
  ASSUME NEW window \in Seq(Nat)
  PROVE  \E k \in 0..Len(window) :
           /\ Expired(window) = 1..k
           /\ Len(Recent(window)) = Len(window) - k
           /\ \A i \in 1..(Len(window) - k) : Recent(window)[i] = window[i + k]
<1>1. PICK k \in 0..Len(window) : Expired(window) = 1..k
  BY ExpiredIsAFront
<1>2. k \in Int /\ Len(window) \in Nat /\ k <= Len(window) /\ 0 <= k
  OBVIOUS
<1>3. Cardinality(Expired(window)) = k
  BY <1>1, <1>2, FS_Interval
<1>4. k + 1 \in Int /\ Len(window) \in Int
  BY <1>2
<1>5. \A i \in (k + 1)..Len(window) : window[i] \in Nat
  BY <1>2
<1>6. /\ Len(SubSeq(window, k + 1, Len(window))) =
           IF k + 1 <= Len(window) THEN Len(window) - (k + 1) + 1 ELSE 0
      /\ \A i \in 1..(Len(window) - (k + 1) + 1) :
           SubSeq(window, k + 1, Len(window))[i] = window[k + 1 + i - 1]
  BY <1>4, <1>5, SubSeqProperties
<1>7. Recent(window) = SubSeq(window, k + 1, Len(window))
  BY <1>3 DEF Recent
<1>8. Len(Recent(window)) = Len(window) - k
  BY <1>2, <1>6, <1>7
<1>9. ASSUME NEW i \in 1..(Len(window) - k) PROVE Recent(window)[i] = window[i + k]
  BY <1>2, <1>6, <1>7
<1> QED
  BY <1>1, <1>8, <1>9

(* A time that is not a second old keeps its place when a window is        *)
(* cleared of those that are.                                              *)
LEMMA RecentRemembers ==
  ASSUME TypeOK, NEW ip \in Ips, NEW window, window = http_rate_by_ip[ip],
         Places(window, LastSecond(ip)) # {}
  PROVE  Places(Recent(window), LastSecond(ip)) # {}
<1> DEFINE asked == LastSecond(ip)
<1>0. /\ window \in Seq(Nat) /\ now \in Nat
      /\ \A d \in asked : admitted_at[d] \in Nat /\ now < admitted_at[d] + Second
  BY DEF TypeOK, LastSecond
<1>1. PICK k \in 0..Len(window) :
        /\ Expired(window) = 1..k
        /\ Len(Recent(window)) = Len(window) - k
        /\ \A i \in 1..(Len(window) - k) : Recent(window)[i] = window[i + k]
  BY <1>0, RecentIsTheRest
<1>2. PICK place \in [asked -> 1..Len(window)] :
        /\ \A d \in asked : window[place[d]] = admitted_at[d]
        /\ \A d, e \in asked : place[d] = place[e] => d = e
  BY DEF Places
<1>3. Second \in Nat /\ Len(window) \in Nat /\ k \in Nat
  BY <1>0, ConfigAssumption
<1>4. ASSUME NEW d \in asked
      PROVE  place[d] \in 1..Len(window) /\ place[d] > k
  <2>1. place[d] \in 1..Len(window) /\ window[place[d]] = admitted_at[d]
    BY <1>2
  <2>2. ~(now - window[place[d]] >= Second)
    BY <1>0, <1>3, <2>1
  <2>3. place[d] \notin Expired(window)
    BY <2>1, <2>2 DEF Expired
  <2> QED
    BY <1>1, <1>3, <2>1, <2>3
<1> DEFINE moved == [d \in asked |-> place[d] - k]
<1>5. moved \in [asked -> 1..Len(Recent(window))]
  BY <1>1, <1>3, <1>4
<1>6. \A d \in asked : Recent(window)[moved[d]] = admitted_at[d]
  <2> SUFFICES ASSUME NEW d \in asked PROVE Recent(window)[moved[d]] = admitted_at[d]
    OBVIOUS
  <2>1. moved[d] = place[d] - k /\ place[d] - k \in 1..(Len(window) - k)
    BY <1>3, <1>4
  <2>2. Recent(window)[place[d] - k] = window[place[d] - k + k]
    BY <1>1, <2>1
  <2> QED
    BY <1>2, <1>3, <1>4, <2>1, <2>2
<1>7. \A d, e \in asked : moved[d] = moved[e] => d = e
  BY <1>2, <1>3, <1>4
<1> HIDE DEF moved, asked
<1> QED
  BY <1>5, <1>6, <1>7 DEF Places, asked

(* A window holds at least as many times as requests that passed lately.   *)
LEMMA PlacesAreEnough ==
  ASSUME NEW window \in Seq(Nat), NEW ip \in Ips, Places(window, LastSecond(ip)) # {}
  PROVE  /\ IsFiniteSet(LastSecond(ip))
         /\ Cardinality(LastSecond(ip)) <= Len(window)
<1>1. PICK place \in [LastSecond(ip) -> 1..Len(window)] :
        \A d, e \in LastSecond(ip) : place[d] = place[e] => d = e
  BY DEF Places
<1>2. place \in Injection(LastSecond(ip), 1..Len(window))
  BY <1>1 DEF Injection, IsInjective
<1>3. Len(window) \in Nat /\ IsFiniteSet(1..Len(window))
  BY FS_Interval
<1>4. Cardinality(1..Len(window)) = IF 1 > Len(window) THEN 0 ELSE Len(window) - 1 + 1
  BY <1>3, FS_Interval
<1>5. Cardinality(1..Len(window)) = Len(window)
  BY <1>3, <1>4
<1> QED
  BY <1>2, <1>3, <1>5, FS_Injection

LEMMA WithinIsFinite ==
  ASSUME NEW ip, NEW a
  PROVE  IsFiniteSet(Within(ip, a)) /\ Cardinality(Within(ip, a)) \in Nat
<1>1. Within(ip, a) \subseteq Conns
  BY DEF Within
<1> QED
  BY <1>1, BoundsAssumption, FS_Subset, FS_CardinalityType

(* Steps in which no request is let pass: no window loses a time that      *)
(* still counts.                                                           *)
LEMMA RatesStay ==
  ASSUME TypeOK, WindowsRemember, RatesHold,
         client_ip' = client_ip, admitted_at' = admitted_at,
         now' \in Nat, now' >= now,
         \A ip \in Ips : \/ http_rate_by_ip'[ip] = http_rate_by_ip[ip]
                         \/ http_rate_by_ip'[ip] = Recent(http_rate_by_ip[ip])
  PROVE  WindowsRemember' /\ RatesHold'
<1>1. \A ip \in Ips : \A a \in Int : Within(ip, a)' = Within(ip, a)
  BY DEF Within
<1>2. ASSUME NEW ip \in Ips
      PROVE  Places(http_rate_by_ip[ip], LastSecond(ip))' # {}
  <2>1. Places(http_rate_by_ip[ip], LastSecond(ip)) # {}
    BY DEF WindowsRemember
  <2>2. Places(Recent(http_rate_by_ip[ip]), LastSecond(ip)) # {}
    BY <2>1, RecentRemembers
  <2> DEFINE window == http_rate_by_ip'[ip]
             fewer == LastSecond(ip)'
  <2>3. Places(window, LastSecond(ip)) # {}
    BY <2>1, <2>2
  <2>4. fewer \subseteq LastSecond(ip)
    BY ConfigAssumption DEF LastSecond, TypeOK
  <2>5. PICK place \in [LastSecond(ip) -> 1..Len(window)] :
          /\ \A d \in LastSecond(ip) : window[place[d]] = admitted_at[d]
          /\ \A d, e \in LastSecond(ip) : place[d] = place[e] => d = e
    BY <2>3 DEF Places
  <2> DEFINE kept == [d \in fewer |-> place[d]]
  <2>6. /\ kept \in [fewer -> 1..Len(window)]
        /\ \A d \in fewer : window[kept[d]] = admitted_at'[d]
        /\ \A d, e \in fewer : kept[d] = kept[e] => d = e
    BY <2>4, <2>5
  <2> HIDE DEF kept
  <2> QED
    BY <2>6 DEF Places
<1> QED
  BY <1>1, <1>2 DEF WindowsRemember, RatesHold

(* A request is let pass: fewer than the limit were in the last second.    *)
LEMMA RatesWithOneMore ==
  ASSUME TypeOK, WindowsRemember, RatesHold,
         NEW c \in Conns, NEW ip \in Ips, ip = client_ip[c],
         NEW window, window = Recent(http_rate_by_ip[ip]), Len(window) < MaxHttpQps,
         http_rate_by_ip' = [http_rate_by_ip EXCEPT ![ip] = Append(window, now)],
         admitted_at' = [admitted_at EXCEPT ![c] = now],
         client_ip' = client_ip, now' = now
  PROVE  WindowsRemember' /\ RatesHold'
<1>0. /\ now \in Nat /\ NoTime = -1 /\ Second \in Nat \ {0} /\ MaxHttpQps \in Nat
      /\ admitted_at \in [Conns -> Nat \cup {NoTime}]
  BY ConfigAssumption DEF TypeOK, NoTime
<1>1. /\ admitted_at'[c] = now
      /\ \A d \in Conns \ {c} : admitted_at'[d] = admitted_at[d]
  BY <1>0
<1>2. http_rate_by_ip[ip] \in Seq(Nat) /\ window \in Seq(Nat)
  BY <1>0, RecentIsWindow DEF TypeOK
<1>3. Places(window, LastSecond(ip)) # {}
  BY RecentRemembers DEF WindowsRemember
<1>4. LastSecond(ip)' = LastSecond(ip) \cup {c}
  BY <1>0, <1>1 DEF LastSecond
<1>5. WindowsRemember'
  <2>1. ASSUME NEW other \in Ips \ {ip}
        PROVE  Places(http_rate_by_ip[other], LastSecond(other))' # {}
    <3>1. http_rate_by_ip'[other] = http_rate_by_ip[other]
      BY DEF TypeOK
    <3>2. LastSecond(other)' = LastSecond(other)
      BY <1>1 DEF LastSecond
    <3>3. \A d \in LastSecond(other) : admitted_at'[d] = admitted_at[d]
      BY <1>1 DEF LastSecond
    <3>4. Places(http_rate_by_ip[other], LastSecond(other)) # {}
      BY DEF WindowsRemember
    <3>5. PICK place \in Places(http_rate_by_ip[other], LastSecond(other)) : TRUE
      BY <3>4
    <3>6. place \in Places(http_rate_by_ip[other], LastSecond(other))'
      BY <3>1, <3>2, <3>3, <3>5 DEF Places
    <3> QED
      BY <3>6
  <2>2. Places(http_rate_by_ip[ip], LastSecond(ip))' # {}
    <3> DEFINE more == LastSecond(ip) \cup {c}
               longer == Append(window, now)
               n == Len(window)
    <3>1. /\ n \in Nat /\ Len(longer) = n + 1 /\ longer[n + 1] = now
          /\ \A i \in 1..n : longer[i] = window[i]
      BY <1>0, <1>2, AppendProperties
    <3>2. http_rate_by_ip'[ip] = longer
      BY DEF TypeOK
    <3>3. PICK place \in [LastSecond(ip) -> 1..n] :
            /\ \A d \in LastSecond(ip) : window[place[d]] = admitted_at[d]
            /\ \A d, e \in LastSecond(ip) : place[d] = place[e] => d = e
      BY <1>3 DEF Places
    <3> DEFINE grown == [d \in more |-> IF d = c THEN n + 1 ELSE place[d]]
    <3>4. \A d \in more \ {c} : d \in LastSecond(ip) /\ d \in Conns /\ place[d] \in 1..n
      BY <3>3 DEF LastSecond
    <3>5. grown \in [more -> 1..(n + 1)]
      BY <3>1, <3>4
    <3>6. \A d \in more : longer[grown[d]] = admitted_at'[d]
      BY <1>1, <3>1, <3>3, <3>4
    <3>7. \A d, e \in more : grown[d] = grown[e] => d = e
      BY <3>1, <3>3, <3>4
    <3> HIDE DEF grown, longer, n, more
    <3>8. LastSecond(ip)' = more
      BY <1>4 DEF more
    <3>9. grown \in [more -> 1..Len(longer)]
      BY <3>1, <3>5
    <3>10. grown \in Places(http_rate_by_ip[ip], LastSecond(ip))'
      BY <3>2, <3>6, <3>7, <3>8, <3>9 DEF Places
    <3> QED
      BY <3>10
  <2> QED
    BY <2>1, <2>2 DEF WindowsRemember
<1>6. ASSUME NEW other \in Ips, NEW a \in Int
      PROVE  Cardinality(Within(other, a)') <= MaxHttpQps
  <2>0. /\ IsFiniteSet(Within(other, a)) /\ Cardinality(Within(other, a)) \in Nat
        /\ Cardinality(Within(other, a)) <= MaxHttpQps
    BY WithinIsFinite DEF RatesHold
  <2>1. CASE other = ip /\ now \in a..(a + Second - 1)
    <3>1. Within(other, a)' \subseteq LastSecond(ip) \cup {c}
      <4>1. ASSUME NEW d \in Within(other, a)', d # c PROVE d \in LastSecond(ip)
        <5>1. /\ d \in Conns /\ client_ip[d] = ip /\ admitted_at[d] # NoTime
              /\ admitted_at[d] \in a..(a + Second - 1)
          BY <1>1, <2>1, <4>1 DEF Within
        <5>2. now < admitted_at[d] + Second
          BY <1>0, <2>1, <5>1
        <5> QED
          BY <5>1, <5>2 DEF LastSecond
      <4> QED
        BY <4>1
    <3>2. IsFiniteSet(LastSecond(ip)) /\ Cardinality(LastSecond(ip)) <= Len(window)
      BY <1>2, <1>3, PlacesAreEnough
    <3>3. Cardinality(LastSecond(ip)) \in Nat /\ Len(window) \in Nat
      BY <1>2, <3>2, FS_CardinalityType
    <3>4. /\ IsFiniteSet(LastSecond(ip) \cup {c})
          /\ \/ Cardinality(LastSecond(ip) \cup {c}) = Cardinality(LastSecond(ip))
             \/ Cardinality(LastSecond(ip) \cup {c}) = Cardinality(LastSecond(ip)) + 1
      BY <3>2, FS_AddElement
    <3>5. /\ Cardinality(LastSecond(ip)) \in Nat /\ Len(window) \in Nat
          /\ IsFiniteSet(LastSecond(ip) \cup {c})
          /\ Cardinality(LastSecond(ip) \cup {c}) <= Cardinality(LastSecond(ip)) + 1
          /\ Cardinality(LastSecond(ip) \cup {c}) \in Nat
      BY <3>3, <3>4
    <3>6. /\ IsFiniteSet(Within(other, a)')
          /\ Cardinality(Within(other, a)') <= Cardinality(LastSecond(ip) \cup {c})
      BY <3>1, <3>5, FS_Subset
    <3>7. Cardinality(Within(other, a)') \in Nat
      BY <3>6, FS_CardinalityType
    <3> QED
      BY <1>0, <3>2, <3>5, <3>6, <3>7
  <2>2. CASE ~(other = ip /\ now \in a..(a + Second - 1))
    <3>1. Within(other, a)' \subseteq Within(other, a)
      BY <1>1, <2>2 DEF Within
    <3>2. /\ IsFiniteSet(Within(other, a)')
          /\ Cardinality(Within(other, a)') <= Cardinality(Within(other, a))
      BY <2>0, <3>1, FS_Subset
    <3>3. Cardinality(Within(other, a)') \in Nat
      BY <3>2, FS_CardinalityType
    <3> QED
      BY <1>0, <2>0, <3>2, <3>3
  <2> QED
    BY <2>1, <2>2
<1>7. RatesHold'
  BY <1>6 DEF RatesHold
<1> QED
  BY <1>5, <1>7

LEMMA RatesPreserved ==
  TypeOK /\ WindowsRemember /\ RatesHold /\ [Next]_vars => WindowsRemember' /\ RatesHold'
<1> SUFFICES ASSUME TypeOK, WindowsRemember, RatesHold, [Next]_vars
             PROVE  WindowsRemember' /\ RatesHold'
  OBVIOUS
<1> USE DEF serverVars, threadVars, threadLocals, securityVars
<1>0. now \in Nat /\ client_ip \in [Conns -> Ips] /\ http_rate_by_ip \in [Ips -> Seq(Nat)]
  BY DEF TypeOK
<1>1. CASE Tick
  <2>1. /\ UNCHANGED <<client_ip, admitted_at, http_rate_by_ip>>
        /\ now' \in Nat /\ now' >= now
    BY <1>0, <1>1 DEF Tick
  <2> QED
    BY <2>1, RatesStay
<1>2. CASE Stop \/ ServerStep \/ UNCHANGED vars
  <2>1. UNCHANGED <<client_ip, admitted_at, http_rate_by_ip, now>>
    BY <1>2 DEF Stop, ServerStep, CheckRunning, AcceptNobody, MetricsEnds, MetricsThrows,
                JoinAccept, JoinMetrics, JoinSessions, vars
  <2> QED
    BY <1>0, <2>1, RatesStay
<1>3. ASSUME NEW c \in Conns,
             \/ Accept(c) \/ AcceptThrows(c) \/ TryAcquireWsSlot(c) \/ Ban(c) \/ Serve(c)
             \/ QueryEnds(c) \/ ProxyBan(c) \/ Release(c) \/ PeerStep(c)
      PROVE  WindowsRemember' /\ RatesHold'
  <2>1. UNCHANGED <<client_ip, admitted_at, http_rate_by_ip, now>>
    BY <1>3 DEF Accept, AcceptThrows, TryAcquireWsSlot, Ban, Serve, LoginTicket, SessionRefresh,
                QueryEnds, ProxyBan, Release, PeerStep, RefuseEarly, Receive, ProxyReads,
                ProxyReturns, ProxyCloses, ProxyThrows
  <2> QED
    BY <1>0, <2>1, RatesStay
<1>4. ASSUME NEW c \in Conns, CheckAndConsumeHttpQps(c)
      PROVE  WindowsRemember' /\ RatesHold'
  <2>1. PICK ip \in Ips : ip = client_ip[c]
    BY <1>0
  <2>2. PICK window : window = Recent(http_rate_by_ip[ip])
    OBVIOUS
  <2>3. client_ip' = client_ip /\ now' = now
    BY <1>4 DEF CheckAndConsumeHttpQps
  <2>4. window \in Seq(Nat) /\ MaxHttpQps \in Nat
    BY <1>0, <2>2, RecentIsWindow, ConfigAssumption
  <2>5. CASE Len(window) >= MaxHttpQps
    <3>1. /\ http_rate_by_ip' = [http_rate_by_ip EXCEPT ![ip] = window]
          /\ admitted_at' = admitted_at
      BY <1>4, <2>1, <2>2, <2>5 DEF CheckAndConsumeHttpQps
    <3>2. \A other \in Ips : \/ http_rate_by_ip'[other] = http_rate_by_ip[other]
                             \/ http_rate_by_ip'[other] = Recent(http_rate_by_ip[other])
      BY <1>0, <2>2, <3>1
    <3> QED
      BY <1>0, <2>3, <3>1, <3>2, RatesStay
  <2>6. CASE ~(Len(window) >= MaxHttpQps)
    <3>1. /\ http_rate_by_ip' = [http_rate_by_ip EXCEPT ![ip] = Append(window, now)]
          /\ admitted_at' = [admitted_at EXCEPT ![c] = now]
      BY <1>4, <2>1, <2>2, <2>6 DEF CheckAndConsumeHttpQps
    <3>2. Len(window) < MaxHttpQps
      BY <2>4, <2>6
    <3> QED
      BY <2>1, <2>2, <2>3, <3>1, <3>2, RatesWithOneMore
  <2> QED
    BY <2>5, <2>6
<1> QED
  BY <1>1, <1>2, <1>3, <1>4 DEF Next, ThreadStep
-----------------------------------------------------------------------------
(* Theorems.                                                               *)

LEMMA InitInvariant == Init => IInv
<1> SUFFICES ASSUME Init PROVE IInv
  OBVIOUS
<1>1. TypeOK
  BY DEF Init, TypeOK, Steps, NoTime
<1>2. ASSUME NEW ip \in Ips PROVE SlotHolders(ip) = {}
  BY DEF Init, SlotHolders, HoldsSlot
<1>3. SlotsAreCounted
  <2>1. \A ip \in Ips : Cardinality(SlotHolders(ip)) = 0
    BY <1>2, FS_EmptySet
  <2>2. \A ip \in Ips : ws_conn_by_ip[ip] = 0
    BY DEF Init
  <2>3. 0 <= MaxWs
    BY ConfigAssumption
  <2> QED
    BY <2>1, <2>2, <2>3 DEF SlotsAreCounted
<1>4. StopInv
  BY DEF Init, StopInv, StoppedIsQuiet
<1>5. BanEndsWithin
  BY ConfigAssumption DEF Init, BanEndsWithin, NoTime
<1>6. WindowsRemember
  <2>1. ASSUME NEW ip \in Ips PROVE [d \in {} |-> 0] \in Places(http_rate_by_ip[ip], LastSecond(ip))
    <3>1. LastSecond(ip) = {}
      BY DEF Init, LastSecond
    <3> QED
      BY <3>1 DEF Places
  <2> QED
    BY <2>1 DEF WindowsRemember
<1>7. RatesHold
  <2>1. \A ip \in Ips : \A a \in Int : Within(ip, a) = {}
    BY DEF Init, Within
  <2>2. Cardinality({}) = 0 /\ 0 <= MaxHttpQps
    BY FS_EmptySet, ConfigAssumption
  <2> QED
    BY <2>1, <2>2 DEF RatesHold
<1> QED
  BY <1>1, <1>3, <1>4, <1>5, <1>6, <1>7 DEF IInv

(* The types, the count of the slots, what Stop relies on and what the     *)
(* windows remember hold together in every state: each is preserved by     *)
(* every step of every thread.                                             *)
THEOREM Invariance == Spec => []IInv
<1>1. IInv /\ [Next]_vars => IInv'
  BY TypePreserved, SlotsPreserved, StopPreserved, BansPreserved, RatesPreserved DEF IInv
<1> QED
  BY <1>1, InitInvariant, PTL DEF Spec

(* Every variable of the gateway keeps its type.                           *)
THEOREM TypeCorrectness == Spec => []TypeOK
<1>1. IInv => TypeOK
  BY DEF IInv
<1> QED
  BY <1>1, Invariance, PTL

(* TryAcquireWsSlot and ReleaseWsSlot keep the count of every address      *)
(* exact and below its limit, for any number of connections.               *)
THEOREM SlotsCount == Spec => []SlotsAreCounted
<1>1. IInv => SlotsAreCounted
  BY DEF IInv
<1> QED
  BY <1>1, Invariance, PTL

(* CheckAndConsumeHttpQps lets no more requests of an address pass in a    *)
(* second than max_http_qps_per_ip, whichever threads they come to: it     *)
(* forgets none that still counts.                                         *)
THEOREM QpsIsKept == Spec => []QpsHolds
<1>1. IInv => QpsHolds
  <2> SUFFICES ASSUME IInv, NEW ip \in Ips, NEW c \in Conns
               PROVE  Cardinality(Within(ip, admitted_at[c])) <= MaxHttpQps
    BY DEF QpsHolds, Within
  <2>1. admitted_at[c] \in Int
    BY DEF IInv, TypeOK, NoTime
  <2> QED
    BY <2>1 DEF IInv, RatesHold
<1> QED
  BY <1>1, Invariance, PTL

(* When Stop has found the gateway running and has returned, both loops    *)
(* have ended and no connection thread is left running, whatever exceptions *)
(* came in between.                                                        *)
THEOREM StopIsFinal == Spec => []StoppedIsQuiet
<1>1. IInv => StoppedIsQuiet
  BY DEF IInv, StopInv
<1> QED
  BY <1>1, Invariance, PTL

(* IsIpBanned erases only bans whose time has come, and BanIp shortens one *)
(* only for a thread that had read the clock before that ban was set: what *)
(* then stands is no less than a ban from that clock.                      *)
THEOREM BansAreKept == Spec => BansStand
<1> DEFINE Stands(ip) ==
             \/ banned_until'[ip] >= banned_until[ip]
             \/ \E c \in Latecomers(ip) :
                  pc'[c] # pc[c] /\ banned_until'[ip] >= since[c] + BanTime
<1>1. IInv /\ [Next]_vars => [\A ip \in Ips : IsBanned(ip) => Stands(ip)]_vars
  <2> SUFFICES ASSUME IInv, [Next]_vars, NEW ip \in Ips, IsBanned(ip)
               PROVE  Stands(ip)
    OBVIOUS
  <2>0. TypeOK /\ BanEndsWithin
    BY DEF IInv
  <2>1. /\ now \in Nat /\ BanTime \in Nat /\ client_ip \in [Conns -> Ips]
        /\ banned_until \in [Ips -> Nat] /\ \A c \in Conns : since[c] \in Int
    BY <2>0, ConfigAssumption DEF TypeOK, NoTime
  <2>2. CASE banned_until' = banned_until
    BY <2>1, <2>2
  <2>3. ASSUME NEW c \in Conns, IsIpBanned(client_ip[c])
        PROVE  Stands(ip)
    BY <2>1, <2>3 DEF IsIpBanned, IsBanned
  <2>4. ASSUME NEW c \in Conns, pc[c] \in {"ban", "proxy_ban"}, pc'[c] # pc[c],
               NEW t \in since[c]..now, BanIp(client_ip[c], t)
        PROVE  Stands(ip)
    <3>1. CASE client_ip[c] # ip
      BY <2>1, <2>4, <3>1 DEF BanIp
    <3>2. CASE client_ip[c] = ip
      <4>1. banned_until'[ip] = t + BanTime /\ t \in Int /\ since[c] <= t
        BY <2>1, <2>4, <3>2 DEF BanIp
      <4>2. banned_until'[ip] >= since[c] + BanTime
        BY <2>1, <4>1
      <4>3. CASE since[c] + BanTime < banned_until[ip]
        BY <2>4, <3>2, <4>2, <4>3 DEF Latecomers
      <4>4. CASE ~(since[c] + BanTime < banned_until[ip])
        BY <2>1, <4>1, <4>2, <4>4
      <4> QED
        BY <4>3, <4>4
    <3> QED
      BY <3>1, <3>2
  <2> QED
    BY <2>0, <2>2, <2>3, <2>4, BanSteps
<1> QED
  BY <1>1, Invariance, PTL DEF Spec, BansStand
=============================================================================
