--------------------------- MODULE AgentTunnelProofs ---------------------------
(***************************************************************************)
(* Theorems about AgentTunnel for any delays and any bounds on sessions,    *)
(* probes, frames and faults.                                               *)
(***************************************************************************)
EXTENDS AgentTunnel, SequenceTheorems, TLAPS

(***************************************************************************)
(* Types, one group of variables after the other: few actions change each.  *)
(***************************************************************************)
Switches ==
  /\ registered \in BOOLEAN /\ stopped \in BOOLEAN /\ reconnect \in BOOLEAN
  /\ beat \in BOOLEAN /\ debounce \in BOOLEAN /\ retry \in BOOLEAN
  /\ version \in BOOLEAN /\ valid \in BOOLEAN /\ outdated \in BOOLEAN
Stages ==
  /\ sock \in {"connecting", "open", "closing", "none"}
  /\ gateway \in {"up", "stopping", "down"}
  /\ conn \in Conn \cup {None}
  /\ end \in [Conn -> {"none", "fresh", "registered", "refused", "closing"}]
  /\ ws \in Conn \cup {None}
Limits ==
  /\ delay \in Nat /\ (delay <= MaxDelay \/ delay = BaseDelay)
  /\ probing \in 0 .. MaxProbes
  /\ faults \in 0 .. MaxFaults
Queues == up \in [Conn -> Seq(ToGateway)] /\ toAgent \in Seq(ToAgent)
Counts == sess \in 0 .. MaxSessions /\ shown \in 0 .. MaxSessions
CloseCode == code \in {1000, 1001, 1006} \cup Permanent \cup {None}

LEMMA Parts == TypeOK <=> Switches /\ Stages /\ Limits /\ Queues /\ Counts /\ CloseCode
BY DEF TypeOK, Switches, Stages, Limits, Queues, Counts, CloseCode

USE DEF agentVars, gatewayVars, registryVars, timers, probeVars

LEMMA ClosedSwitches == ASSUME Switches, NEW c, Closed(c) PROVE Switches'
BY DEF Switches, Closed, ClearTimers, StopOrBackOff

LEMMA ReceiveSwitches == ASSUME Switches, AgentReceives PROVE Switches'
<1>1. UNCHANGED <<valid, outdated>>
  BY DEF AgentReceives
<1>2. CASE OnRegistered
  BY <1>1, <1>2 DEF Switches, OnRegistered, StartHeartbeat
<1>3. CASE stopped' = TRUE /\ UNCHANGED <<registered, delay, timers, probeVars>>
  BY <1>1, <1>3 DEF Switches
<1>4. CASE UNCHANGED <<registered, stopped, delay, timers, probeVars>>
  BY <1>1, <1>4 DEF Switches
<1> QED BY <1>2, <1>3, <1>4 DEF AgentReceives

LEMMA SwitchStep == ASSUME Switches, Next PROVE Switches'
<1>1. CASE (\E c \in Conn : Open(c)) \/ ReconnectFires \/ \E n \in 0 .. MaxSessions : SetSessionCount(n)
  BY <1>1 DEF Switches, ScheduleDebouncedHeartbeat, Open, ReconnectFires, SetSessionCount
<1>2. CASE ConnectFails \/ CloseEvent
  BY <1>2, ClosedSwitches DEF ConnectFails, CloseEvent
<1>3. CASE AgentReceives
  BY <1>3, ReceiveSwitches
<1>4. CASE DebounceFires \/ HeartbeatFires \/ ProbeSucceeds
  BY <1>4 DEF Switches, DebounceFires, HeartbeatFires, ProbeSucceeds
<1>5. CASE ProbeFails \/ RetryFires
  BY <1>5 DEF Switches, ScheduleVersionProbe, ProbeFails, RetryFires
<1>6. CASE AgentRestart
  BY <1>6 DEF Switches, ClearTimers, AgentRestart
<1>7. CASE (\E c \in Conn : GatewayReceives(c) \/ EndCloses(c)) \/ HeartbeatTimeout
  <2>1. UNCHANGED <<agentVars, valid>>
    BY <1>7 DEF GatewayReceives, EndCloses, HeartbeatTimeout
  <2>2. ASSUME NEW c \in Conn, GatewayReceives(c) PROVE outdated' \in BOOLEAN
    <3>1. CASE Register(c)
      BY <3>1 DEF Register
    <3>2. CASE outdated' = (c # conn \/ c # ws)
      BY <3>2
    <3>3. CASE UNCHANGED outdated
      BY <3>3 DEF Switches
    <3> QED BY <2>2, <3>1, <3>2, <3>3 DEF GatewayReceives
  <2>3. (\E c \in Conn : EndCloses(c)) \/ HeartbeatTimeout => outdated' \in BOOLEAN
    BY DEF Switches, EndCloses, HeartbeatTimeout
  <2>4. outdated' \in BOOLEAN
    BY <1>7, <2>2, <2>3
  <2> QED BY <2>1, <2>4 DEF Switches
<1>8. CASE Delete
  <2>1. valid' = FALSE /\ outdated' = FALSE /\ UNCHANGED agentVars
    BY <1>8 DEF Delete
  <2> QED BY <2>1 DEF Switches
<1>9. CASE Shutdown \/ Exit \/ GatewayStart
  BY <1>9 DEF Switches, Shutdown, Exit, GatewayStart
<1> QED BY <1>1, <1>2, <1>3, <1>4, <1>5, <1>6, <1>7, <1>8, <1>9 DEF Next

\* The frames that are sent.
LEMMA FrameTypes ==
  /\ [type |-> "register"] \in ToGateway
  /\ Counts => Heartbeat \in ToGateway
  /\ [type |-> "registered"] \in ToAgent /\ [type |-> "shutdown"] \in ToAgent
  /\ [type |-> "rejected", code |-> 4001] \in ToAgent
  /\ \A c \in {1000, 1001} \cup Permanent : CloseFrame(c) \in ToAgent
BY DEF ToGateway, ToAgent, Heartbeat, Counts, CloseFrame, Permanent

LEMMA OneFrame == ASSUME NEW m \in ToAgent PROVE <<m>> \in Seq(ToAgent)
OBVIOUS

LEMMA SendDownStep ==
  ASSUME Queues, NEW c, NEW ms \in Seq(ToAgent), SendDown(c, ms)
  PROVE  toAgent' \in Seq(ToAgent)
BY DEF Queues, SendDown

LEMMA DownStep == ASSUME Queues, Next PROVE toAgent' \in Seq(ToAgent)
<1>1. CASE ConnectFails \/ CloseEvent \/ AgentRestart
  BY <1>1, EmptySeq, ZenonT(40) DEF Closed, ConnectFails, CloseEvent, AgentRestart
<1>2. CASE AgentReceives
  BY <1>2 DEF Queues, AgentReceives
<1>3. ASSUME NEW c \in Conn, GatewayReceives(c) PROVE toAgent' \in Seq(ToAgent)
  <2>1. /\ <<[type |-> "registered"]>> \in Seq(ToAgent)
        /\ <<CloseFrame(1000)>> \in Seq(ToAgent)
        /\ <<[type |-> "rejected", code |-> 4001], CloseFrame(4001)>> \in Seq(ToAgent)
    BY FrameTypes DEF Permanent
  <2>2. \/ SendDown(c, <<[type |-> "registered"]>>) \/ SendDown(ws, <<CloseFrame(1000)>>)
        \/ SendDown(c, <<[type |-> "rejected", code |-> 4001], CloseFrame(4001)>>)
        \/ UNCHANGED toAgent
    BY <1>3 DEF GatewayReceives, Register
  <2>3. UNCHANGED toAgent => toAgent' \in Seq(ToAgent)
    BY DEF Queues
  <2>4. SendDown(c, <<[type |-> "registered"]>>) => toAgent' \in Seq(ToAgent)
    BY <2>1 DEF SendDown, Queues
  <2>5. SendDown(ws, <<CloseFrame(1000)>>) => toAgent' \in Seq(ToAgent)
    BY <2>1 DEF SendDown, Queues
  <2>6. SendDown(c, <<[type |-> "rejected", code |-> 4001], CloseFrame(4001)>>) =>
          toAgent' \in Seq(ToAgent)
    BY <2>1 DEF SendDown, Queues
  <2> QED BY <2>2, <2>3, <2>4, <2>5, <2>6
<1>4. ASSUME NEW c \in {1000, 1001} \cup Permanent, GatewayCloses(c)
      PROVE  toAgent' \in Seq(ToAgent)
  <2>1. <<CloseFrame(c)>> \in Seq(ToAgent)
    <3>1. CloseFrame(c) \in ToAgent
      BY FrameTypes
    <3> QED BY <3>1, OneFrame, Zenon
  <2>2. SendDown(ws, <<CloseFrame(c)>>) \/ UNCHANGED toAgent
    BY <1>4 DEF GatewayCloses
  <2>3. UNCHANGED toAgent => toAgent' \in Seq(ToAgent)
    BY DEF Queues
  <2> QED BY <2>1, <2>2, <2>3, SendDownStep, ZenonT(40)
<1>5. CASE HeartbeatTimeout \/ Delete
  <2>1. 1001 \in {1000, 1001} \cup Permanent /\ 4003 \in {1000, 1001} \cup Permanent
    BY DEF Permanent
  <2> QED BY <1>4, <1>5, <2>1 DEF HeartbeatTimeout, Delete
<1>6. CASE Shutdown
  <2>1. <<[type |-> "shutdown"], CloseFrame(1000)>> \in Seq(ToAgent)
    BY FrameTypes
  <2>2. SendDown(ws, <<[type |-> "shutdown"], CloseFrame(1000)>>) \/ UNCHANGED toAgent
    BY <1>6 DEF Shutdown
  <2>3. UNCHANGED toAgent => toAgent' \in Seq(ToAgent)
    BY DEF Queues
  <2> QED BY <2>1, <2>2, <2>3, SendDownStep, ZenonT(40)
<1>7. CASE \/ (\E c \in Conn : Open(c) \/ EndCloses(c)) \/ ReconnectFires
           \/ \E n \in 0 .. MaxSessions : SetSessionCount(n)
           \/ DebounceFires \/ HeartbeatFires \/ ProbeSucceeds \/ ProbeFails \/ RetryFires
           \/ Exit \/ GatewayStart
  BY <1>7 DEF Queues, Open, ReconnectFires, SetSessionCount, DebounceFires, HeartbeatFires,
              ProbeSucceeds, ProbeFails, RetryFires, EndCloses, Exit, GatewayStart
<1> QED BY <1>1, <1>2, <1>3, <1>5, <1>6, <1>7 DEF Next

USE DEF Open, ConnectFails, CloseEvent, ReconnectFires, AgentReceives, SetSessionCount,
        DebounceFires, HeartbeatFires, ProbeSucceeds, ProbeFails, RetryFires, AgentRestart,
        GatewayReceives, EndCloses, HeartbeatTimeout, Delete, Shutdown, Exit, GatewayStart

LEMMA StageStep == ASSUME Stages, Next PROVE Stages'
<1>1. sock' \in {"connecting", "open", "closing", "none"} /\ gateway' \in {"up", "stopping", "down"}
  BY DEF Stages, Next, Closed, CloseWith, OnRegistered
<1>2. conn' \in Conn \cup {None} /\ ws' \in Conn \cup {None}
  BY DEF Stages, Next, Closed, Register
<1>3. CASE \E c \in Conn : Open(c) \/ EndCloses(c)
  BY <1>1, <1>2, <1>3 DEF Stages
<1>4. ASSUME NEW c \in Conn, GatewayReceives(c) PROVE Stages'
  <2>1. Register(c) => Stages'
    BY <1>1, <1>2 DEF Stages, Register, CloseWs
  <2>2. end' = [end EXCEPT ![c] = "refused"] => Stages'
    BY <1>1, <1>2 DEF Stages
  <2>3. UNCHANGED end => Stages'
    BY <1>1, <1>2 DEF Stages
  <2> QED BY <1>4, <2>1, <2>2, <2>3
<1>5. CASE HeartbeatTimeout \/ Delete \/ Shutdown \/ Exit
  BY <1>1, <1>2, <1>5 DEF Stages, GatewayCloses, CloseWs
<1>6. CASE \/ ConnectFails \/ CloseEvent \/ ReconnectFires \/ AgentReceives
           \/ (\E n \in 0 .. MaxSessions : SetSessionCount(n)) \/ DebounceFires
           \/ HeartbeatFires \/ ProbeSucceeds \/ ProbeFails \/ RetryFires
           \/ AgentRestart \/ GatewayStart
  <2>1. UNCHANGED end
    BY <1>6 DEF Closed
  <2> QED BY <1>1, <1>2, <2>1 DEF Stages
<1> HIDE DEF Open, DebounceFires, HeartbeatFires, ProbeSucceeds, GatewayReceives, EndCloses, Exit,
             ConnectFails, CloseEvent, ReconnectFires, AgentReceives, SetSessionCount, ProbeFails,
             RetryFires, AgentRestart, HeartbeatTimeout, Delete, Shutdown, GatewayStart
<1> QED BY <1>3, <1>4, <1>5, <1>6 DEF Next

LEMMA LimitStep == ASSUME Limits, Next PROVE Limits'
<1>1. delay' \in Nat /\ (delay' <= MaxDelay \/ delay' = BaseDelay)
  BY DelayAssumption DEF Limits, Next, Closed, NextDelay, OnRegistered
<1>2. probing' \in 0 .. MaxProbes
  BY BoundAssumption DEF Limits, Next, Closed, OnRegistered
<1>3. faults' \in 0 .. MaxFaults
  BY BoundAssumption DEF Limits, Next, Closed, Fault
<1> QED BY <1>1, <1>2, <1>3 DEF Limits

LEMMA UpStep == ASSUME Queues, Counts, Next PROVE up' \in [Conn -> Seq(ToGateway)]
<1>1. ASSUME NEW c \in Conn, Open(c) PROVE up' \in [Conn -> Seq(ToGateway)]
  <2>1. <<[type |-> "register"]>> \in Seq(ToGateway)
    BY FrameTypes
  <2> QED BY <1>1, <2>1 DEF Queues
<1>2. CASE DebounceFires \/ HeartbeatFires \/ ProbeSucceeds
  <2>1. SendUp(Heartbeat)
    BY <1>2
  <2>2. up[conn] \in Seq(ToGateway) => Append(up[conn], Heartbeat) \in Seq(ToGateway)
    BY FrameTypes
  <2> QED BY <2>1, <2>2 DEF Queues, SendUp
<1>3. ASSUME NEW c \in Conn, GatewayReceives(c) PROVE up' \in [Conn -> Seq(ToGateway)]
  <2>1. up[c] \in Seq(ToGateway) /\ up[c] # <<>>
    BY <1>3 DEF Queues
  <2>2. Tail(up[c]) \in Seq(ToGateway)
    BY <2>1
  <2> QED BY <1>3, <2>2 DEF Queues
<1>4. CASE (\E c \in Conn : EndCloses(c)) \/ Exit
  <2>1. <<>> \in Seq(ToGateway)
    BY EmptySeq
  <2> QED BY <1>4, <2>1 DEF Queues
<1>5. CASE \/ ConnectFails \/ CloseEvent \/ ReconnectFires \/ AgentReceives
           \/ (\E n \in 0 .. MaxSessions : SetSessionCount(n)) \/ ProbeFails \/ RetryFires
           \/ AgentRestart \/ HeartbeatTimeout \/ Delete \/ Shutdown \/ GatewayStart
  BY <1>5 DEF Queues, Closed
<1> HIDE DEF Open, DebounceFires, HeartbeatFires, ProbeSucceeds, GatewayReceives, EndCloses, Exit,
             ConnectFails, CloseEvent, ReconnectFires, AgentReceives, SetSessionCount, ProbeFails,
             RetryFires, AgentRestart, HeartbeatTimeout, Delete, Shutdown, GatewayStart
<1> QED BY <1>1, <1>2, <1>3, <1>4, <1>5 DEF Next

LEMMA CountStep == ASSUME Counts, Queues, Next PROVE Counts'
<1>1. sess' \in 0 .. MaxSessions
  BY BoundAssumption DEF Counts, Next, Closed
<1>2. ASSUME NEW c \in Conn, GatewayReceives(c) PROVE shown' \in 0 .. MaxSessions
  <2>1. Head(up[c]) \in ToGateway
    BY <1>2 DEF Queues
  <2>2. Head(up[c]).type = "heartbeat" => Head(up[c]).sessionCount \in 0 .. MaxSessions
    BY <2>1 DEF ToGateway
  <2> QED BY <1>2, <2>2 DEF Counts, Register
<1>3. CASE ~\E c \in Conn : GatewayReceives(c)
  <2>1. shown' \in {0, shown}
    BY <1>3 DEF Next, Closed, ForgetSessions
  <2> QED BY <1>1, <2>1, BoundAssumption DEF Counts
<1> HIDE DEF GatewayReceives
<1> QED BY <1>1, <1>2, <1>3 DEF Counts

LEMMA CodeStep == ASSUME CloseCode, Queues, Next PROVE CloseCode'
<1>1. CASE AgentReceives
  <2>1. Head(toAgent) \in ToAgent
    BY <1>1 DEF Queues
  <2>2. Head(toAgent).type \in {"rejected", "close"} =>
          Head(toAgent).code \in {1000, 1001} \cup Permanent
    BY <2>1 DEF ToAgent
  <2> QED BY <1>1, <2>2 DEF CloseCode, CloseWith, OnRegistered
<1>2. CASE ~AgentReceives
  BY <1>2 DEF CloseCode, Next, Closed
<1> QED BY <1>1, <1>2

\* Every variable keeps its type; the reconnect delay never exceeds its maximum,
\* unless the configured base does.
THEOREM TypeCorrect == Spec => []TypeOK
<1>1. Init => TypeOK
  <2>1. Init => Queues
    BY EmptySeq DEF Init, Queues
  <2>2. Init => Limits
    BY BoundAssumption, DelayAssumption DEF Init, Limits
  <2>3. Init => Counts /\ Stages /\ CloseCode
    BY BoundAssumption DEF Init, Counts, Stages, CloseCode
  <2>4. Init => Switches
    BY DEF Init, Switches
  <2> QED BY <2>1, <2>2, <2>3, <2>4, Parts
<1>2. TypeOK /\ Next => TypeOK'
  <2> SUFFICES ASSUME TypeOK, Next PROVE TypeOK'
    OBVIOUS
  <2>1. Switches /\ Stages /\ Limits /\ Queues /\ Counts /\ CloseCode
    BY Parts
  <2>2. Switches' /\ Stages' /\ Limits'
    BY <2>1, SwitchStep, StageStep, LimitStep
  <2>3. Queues'
    BY <2>1, UpStep, DownStep DEF Queues
  <2>4. Counts' /\ CloseCode'
    BY <2>1, CountStep, CodeStep
  <2>5. Parts!1' <=> Parts!2'
    BY DEF TypeOK, Switches, Stages, Limits, Queues, Counts, CloseCode
  <2> QED BY <2>2, <2>3, <2>4, <2>5
<1>3. TypeOK /\ UNCHANGED vars => TypeOK'
  BY DEF TypeOK, vars
<1> QED BY <1>1, <1>2, <1>3, PTL DEF Spec

-----------------------------------------------------------------------------
(***************************************************************************)
(* The agent's timers.  An agent is registered only on a connection, whose  *)
(* close is what clears every timer.                                        *)
(***************************************************************************)
Attached ==
  /\ registered => conn # None
  /\ conn = None <=> sock \in {"connecting", "none"}
TimerInv ==
  NeverIdle /\ TimersServeRegistration /\ ProbeGoesOn /\ Attached

USE DEF TimerInv, NeverIdle, TimersServeRegistration, ProbeGoesOn, Attached

HIDE DEF Open, ConnectFails, CloseEvent, ReconnectFires, AgentReceives, SetSessionCount,
         DebounceFires, HeartbeatFires, ProbeSucceeds, ProbeFails, RetryFires, AgentRestart,
         GatewayReceives, EndCloses, HeartbeatTimeout, Delete, Shutdown, Exit, GatewayStart

LEMMA ClosedTimers == ASSUME TimerInv, NEW c, Closed(c) PROVE TimerInv'
BY DEF Closed, ClearTimers, StopOrBackOff

LEMMA TimerStep == ASSUME TypeOK, TimerInv, [Next]_vars PROVE TimerInv'
<1>1. CASE \E c \in Conn : Open(c)
  BY <1>1, BoundAssumption DEF Open
<1>2. CASE ConnectFails \/ CloseEvent
  BY <1>2, ClosedTimers DEF ConnectFails, CloseEvent
<1>3. CASE ReconnectFires
  BY <1>3 DEF ReconnectFires
<1>4. CASE AgentReceives
  <2>1. sock \in {"open", "closing"} /\ probing \in Nat /\ UNCHANGED <<sess, conn>>
    BY <1>4, BoundAssumption DEF AgentReceives, TypeOK
  <2>2. CASE OnRegistered
    BY <2>1, <2>2 DEF OnRegistered, StartHeartbeat
  <2>3. CASE /\ sock' = "closing" /\ stopped' \in {stopped, TRUE}
             /\ UNCHANGED <<registered, delay, timers, probeVars>>
    BY <2>1, <2>3
  <2> QED BY <1>4, <2>2, <2>3 DEF AgentReceives, CloseWith
<1>5. CASE \E n \in 0 .. MaxSessions : SetSessionCount(n)
  BY <1>5 DEF SetSessionCount, ScheduleDebouncedHeartbeat
<1>6. CASE DebounceFires \/ HeartbeatFires
  BY <1>6 DEF DebounceFires, HeartbeatFires
<1>7. CASE ProbeSucceeds
  BY <1>7 DEF ProbeSucceeds
<1>8. CASE ProbeFails
  BY <1>8 DEF ProbeFails, ScheduleVersionProbe
<1>9. CASE RetryFires
  BY <1>9, BoundAssumption DEF RetryFires, TypeOK
<1>10. CASE AgentRestart
  BY <1>10 DEF AgentRestart, ClearTimers
<1>11. CASE UNCHANGED agentVars
  BY <1>11
<1> QED BY <1>1, <1>2, <1>3, <1>4, <1>5, <1>6, <1>7, <1>8, <1>9, <1>10, <1>11
     DEF Next, vars, GatewayReceives, EndCloses, HeartbeatTimeout, Delete, Shutdown, Exit,
         GatewayStart

LEMMA TimersHold == Spec => []TimerInv
<1>1. Init => TimerInv
  BY DEF Init
<1>2. TypeOK /\ TimerInv /\ [Next]_vars => TimerInv'
  BY TimerStep
<1> HIDE DEF TimerInv, NeverIdle, TimersServeRegistration, ProbeGoesOn
<1> QED BY <1>1, <1>2, TypeCorrect, PTL DEF Spec

\* Whatever the order of closes, refusals, shutdowns, restarts, probes and timers: an
\* agent without a connection has exactly one way back, its reconnect timer, unless
\* it was told to stop (scheduleReconnect).
THEOREM ReconnectSafe == Spec => []NeverIdle
<1>1. TimerInv => NeverIdle
  OBVIOUS
<1> HIDE DEF TimerInv, NeverIdle
<1> QED BY <1>1, TimersHold, PTL

\* Its other timers belong to its registration, and a stopped agent leaves none
\* behind (clearTimers).
THEOREM TimersSafe == Spec => []TimersServeRegistration
<1>1. TimerInv => TimersServeRegistration
  OBVIOUS
<1> HIDE DEF TimerInv, TimersServeRegistration
<1> QED BY <1>1, TimersHold, PTL

\* No order of probes, failures and reconnects ends the search for a version
\* (scheduleVersionProbe).
THEOREM ProbeSafe == Spec => []ProbeGoesOn
<1>1. TimerInv => ProbeGoesOn
  OBVIOUS
<1> HIDE DEF TimerInv, ProbeGoesOn
<1> QED BY <1>1, TimersHold, PTL

HIDE DEF TimerInv, NeverIdle, TimersServeRegistration, ProbeGoesOn

-----------------------------------------------------------------------------
(***************************************************************************)
(* The session count.  The report that counts is the last one on its way,   *)
(* or what the gateway shows if none is; before the agent is registered     *)
(* both counts are zero.                                                     *)
(***************************************************************************)
\* Away from a connection nothing is under way to the agent and it has no sessions.
Detached == conn = None => sess = 0 /\ toAgent = <<>>

\* The gateway's ends: the registry's connection is one of them, and the only one
\* that is registered; without one the registry shows no sessions.
Ends ==
  /\ ws # None => end[ws] # "none"
  /\ \A c \in Conn : end[c] = "registered" => c = ws /\ valid
  /\ ws = None /\ ~outdated => shown = 0

\* Until the gateway has read the introduction, which comes first.
Introducing ==
  conn # None =>
    /\ end[conn] = "fresh" => ~registered /\ toAgent = <<>> /\ sess = 0 /\ up[conn] # <<>>
    /\ \A k \in DOMAIN up[conn] : up[conn][k].type = "register" <=> k = 1 /\ end[conn] = "fresh"

LastReport ==
  IF up[conn] = <<>> THEN outdated \/ shown = sess
  ELSE LET m == up[conn][Len(up[conn])] IN m.type = "heartbeat" => m.sessionCount = sess
SessionInv ==
  /\ Attached /\ Detached /\ Ends /\ Introducing
  /\ sock = "open" /\ end[conn] \in {"fresh", "registered"} /\ ~debounce => LastReport

USE DEF Detached, Introducing

LEMMA EndsStep == ASSUME TypeOK, Ends, Next PROVE Ends'
<1>1. ASSUME NEW c \in Conn, Open(c) PROVE Ends'
  BY <1>1 DEF Ends, Open, TypeOK
<1>2. ASSUME NEW c \in Conn, GatewayReceives(c) PROVE Ends'
  <2>1. UNCHANGED valid /\ end[c] # "none"
    BY <1>2 DEF GatewayReceives
  <2>2. CASE Register(c) /\ valid
    BY <2>1, <2>2, BoundAssumption DEF Ends, Register, CloseWs, Live, TypeOK
  <2>3. CASE end' = [end EXCEPT ![c] = "refused"] /\ UNCHANGED <<ws, shown, outdated>>
    BY <2>1, <2>3 DEF Ends, TypeOK
  <2>4. CASE /\ UNCHANGED <<end, ws>> /\ end[c] \in {"registered", "closing"}
             /\ outdated' = (c # conn \/ c # ws)
    BY <2>1, <2>4, BoundAssumption DEF Ends
  <2>5. CASE UNCHANGED registryVars
    BY <2>1, <2>5 DEF Ends
  <2> QED BY <1>2, <2>2, <2>3, <2>4, <2>5 DEF GatewayReceives
<1>3. ASSUME NEW c \in Conn, EndCloses(c) PROVE Ends'
  BY <1>3 DEF Ends, EndCloses, ForgetSessions, TypeOK
<1>4. CASE HeartbeatTimeout \/ Shutdown
  BY <1>4 DEF Ends, HeartbeatTimeout, Shutdown, GatewayCloses, CloseWs, Live, TypeOK
<1>5. CASE Delete
  BY <1>5, BoundAssumption DEF Ends, Delete, GatewayCloses, CloseWs, Live, TypeOK
<1>6. CASE Exit
  BY <1>6 DEF Ends, Exit
<1>7. CASE UNCHANGED <<valid, registryVars>>
  BY <1>7 DEF Ends
<1> QED BY <1>1, <1>2, <1>3, <1>4, <1>5, <1>6, <1>7
     DEF Next, ConnectFails, CloseEvent, Closed, ReconnectFires, AgentReceives, SetSessionCount,
         DebounceFires, HeartbeatFires, ProbeSucceeds, ProbeFails, RetryFires, AgentRestart,
         GatewayStart

\* Appending a report of the count makes it the last one.
LEMMA ReportStep ==
  ASSUME TypeOK, Attached, Introducing, SendUp(Heartbeat),
         UNCHANGED <<sess, sock, conn, registered, toAgent, registryVars>>
  PROVE  Introducing' /\ (sock = "open" /\ end[conn] # "none" => LastReport')
<1>1. CASE ~(sock = "open" /\ end[conn] # "none")
  BY <1>1 DEF SendUp
<1>2. CASE sock = "open" /\ end[conn] # "none"
  <2>1. /\ conn \in Conn /\ up[conn] \in Seq(ToGateway)
        /\ up'[conn] = Append(up[conn], Heartbeat)
    BY <1>2 DEF SendUp, TypeOK
  <2> DEFINE q == up[conn]
             r == up'[conn]
  <2>2. /\ Len(r) = Len(q) + 1 /\ Len(q) \in Nat /\ r[Len(r)] = Heartbeat
        /\ \A k \in 1 .. Len(q) : r[k] = q[k]
        /\ DOMAIN r = 1 .. Len(r) /\ DOMAIN q = 1 .. Len(q)
    BY <2>1
  <2>3. Heartbeat.type = "heartbeat" /\ Heartbeat.sessionCount = sess
    BY DEF Heartbeat
  <2>4. end[conn] = "fresh" => Len(q) > 0
    <3>1. q \in Seq(ToGateway) /\ q # <<>> => Len(q) > 0
      BY EmptySeq
    <3>2. end[conn] = "fresh" => q # <<>>
      BY <2>1, BoundAssumption
    <3> QED BY <2>1, <3>1, <3>2
  <2>5. r # <<>>
    BY <2>2
  <2> HIDE DEF q, r
  <2>6. q = up[conn] /\ r = up'[conn]
    BY DEF q, r
  <2>7. Introducing'
    BY <1>2, <2>2, <2>3, <2>4, <2>5, <2>6
  <2> QED BY <2>2, <2>3, <2>5, <2>6, <2>7 DEF LastReport
<1> QED BY <1>1, <1>2

LEMMA ClosedSession ==
  ASSUME SessionInv, NEW c, Closed(c), Ends' PROVE SessionInv'
BY DEF SessionInv, Closed

\* What is left once the first frame is read.
LEMMA ReadStep ==
  ASSUME NEW q \in Seq(ToGateway), q # <<>>
  PROVE  /\ Tail(q) \in Seq(ToGateway)
         /\ DOMAIN Tail(q) = 1 .. (Len(q) - 1) /\ DOMAIN q = 1 .. Len(q)
         /\ Len(q) \in Nat \ {0} /\ Len(Tail(q)) = Len(q) - 1
         /\ \A k \in 1 .. (Len(q) - 1) : Tail(q)[k] = q[k + 1]
         /\ Head(q) = q[1]
         /\ (Tail(q) # <<>> <=> Len(q) > 1)
<1> DEFINE t == Tail(q)
<1>1. t \in Seq(ToGateway) /\ Len(t) = Len(q) - 1 /\ Len(q) \in Nat \ {0}
  OBVIOUS
<1>2. \A k \in 1 .. Len(t) : t[k] = q[k + 1]
  OBVIOUS
<1>3. DOMAIN q = 1 .. Len(q) /\ Head(q) = q[1]
  OBVIOUS
<1> HIDE DEF t
<1>4. DOMAIN t = 1 .. Len(t)
  BY <1>1, LenProperties
<1>5. t = <<>> <=> Len(t) = 0
  BY <1>1, EmptySeq
<1>6. t = Tail(q)
  BY DEF t
<1> QED BY <1>1, <1>2, <1>3, <1>4, <1>5, <1>6

\* The gateway reads the first frame of the present connection.
LEMMA ReadSession ==
  ASSUME TypeOK, SessionInv, conn # None, GatewayReceives(conn), Ends' PROVE SessionInv'
<1> DEFINE q == up[conn]
           r == up'[conn]
<1>1. /\ conn \in Conn /\ q \in Seq(ToGateway) /\ q # <<>> /\ r = Tail(q) /\ end[conn] # "none"
      /\ UNCHANGED <<agentVars, valid>>
  BY DEF TypeOK, GatewayReceives
<1>2. /\ DOMAIN r = 1 .. (Len(q) - 1) /\ DOMAIN q = 1 .. Len(q)
      /\ Len(q) \in Nat \ {0} /\ Len(r) = Len(q) - 1
      /\ \A k \in 1 .. (Len(q) - 1) : r[k] = q[k + 1]
      /\ Head(q) = q[1] /\ (r # <<>> <=> Len(q) > 1)
  BY <1>1, ReadStep
<1>3. \A k \in DOMAIN q : q[k].type = "register" <=> k = 1 /\ end[conn] = "fresh"
  BY <1>1 DEF SessionInv
<1>4. r # <<>> => r[Len(r)] = q[Len(q)]
  BY <1>2
<1> HIDE DEF q, r
<1>5. q = up[conn] /\ r = up'[conn'] /\ conn' = conn
  BY <1>1 DEF q, r
<1>6. \A k \in DOMAIN r : r[k].type # "register"
  BY <1>2, <1>3
<1>7. Head(q).type = "register" <=> end[conn] = "fresh"
  BY <1>2, <1>3
<1>8. CASE end[conn] = "fresh"
  <2>1. sess = 0 /\ ~registered
    BY <1>8 DEF SessionInv
  <2>2. end'[conn] \in {"registered", "refused"}
    BY <1>1, <1>5, <1>7, <1>8 DEF GatewayReceives, Register, CloseWs, TypeOK
  <2>3. end'[conn] = "registered" => /\ UNCHANGED shown
                                     /\ outdated' = (outdated \/ (ws # None /\ shown # 0))
    BY <1>1, <1>5, <1>7, <1>8 DEF GatewayReceives, Register, TypeOK
  <2>4. end'[conn] = "registered" => outdated' \/ shown' = 0
    BY <2>3 DEF SessionInv, Ends
  <2>5. sock = "open" /\ ~debounce /\ end'[conn] = "registered" => LastReport'
    <3>1. CASE r = <<>>
      BY <1>1, <1>5, <2>1, <2>4, <3>1 DEF LastReport
    <3>2. CASE r # <<>>
      BY <1>1, <1>2, <1>4, <1>5, <1>8, <3>2 DEF SessionInv, LastReport
    <3> QED BY <3>1, <3>2
  <2> QED BY <1>1, <1>5, <1>6, <2>1, <2>2, <2>5 DEF SessionInv
<1>9. CASE end[conn] # "fresh"
  <2>1. end' = end /\ ws' = ws /\ toAgent' = toAgent
    BY <1>5, <1>7, <1>9 DEF GatewayReceives
  <2>2. sock = "open" /\ ~debounce /\ end[conn] = "registered" => LastReport'
    <3> SUFFICES ASSUME sock = "open", ~debounce, end[conn] = "registered"
                 PROVE  LastReport'
      OBVIOUS
    <3>1. LastReport /\ valid
      BY <1>1 DEF SessionInv, Ends
    <3>2. CASE r # <<>>
      BY <1>1, <1>2, <1>4, <1>5, <3>1, <3>2 DEF LastReport
    <3>3. CASE r = <<>>
      <4>1. Len(q) = 1
        BY <1>2, <3>3
      <4>2. Head(q).type = "heartbeat" => Head(q).sessionCount = sess
        BY <1>1, <1>2, <1>5, <3>1, <4>1 DEF LastReport
      <4>3. shown' = sess'
        BY <1>1, <1>5, <1>7, <1>9, <3>1, <4>2 DEF GatewayReceives
      <4> QED BY <1>5, <3>3, <4>3 DEF LastReport
    <3> QED BY <3>2, <3>3
  <2> QED BY <1>1, <1>5, <1>6, <1>9, <2>1, <2>2 DEF SessionInv
<1> QED BY <1>8, <1>9

\* The gateway reads a frame of another connection: one that registers now closes
\* the present one, a report outdates what is shown.
LEMMA OtherSession ==
  ASSUME TypeOK, SessionInv, NEW c \in Conn, c # conn, GatewayReceives(c), Ends' PROVE SessionInv'
<1>1. UNCHANGED <<agentVars, valid>> /\ up'[conn] = up[conn]
  BY DEF TypeOK, GatewayReceives
<1>2. conn # None => \/ end'[conn] = end[conn] /\ toAgent' = toAgent
                     \/ end[conn] = "registered" /\ end'[conn] = "closing"
  <2> SUFFICES ASSUME conn # None PROVE <1>2!2
    OBVIOUS
  <2>1. conn \in Conn
    BY DEF TypeOK
  <2>2. CASE Register(c) /\ Live /\ ws = conn
    <3>1. end'[conn] = "closing" /\ end[conn] = "registered"
      BY <2>1, <2>2 DEF TypeOK, Register, CloseWs, Live
    <3> QED BY <3>1
  <2>3. CASE Register(c) /\ ~(Live /\ ws = conn)
    BY <2>1, <2>3 DEF TypeOK, Register, CloseWs, SendDown
  <2>4. CASE end' = [end EXCEPT ![c] = "refused"] /\ toAgent' = toAgent
    BY <2>1, <2>4 DEF TypeOK
  <2>5. CASE UNCHANGED <<end, toAgent>>
    BY <2>5
  <2> QED BY <2>2, <2>3, <2>4, <2>5 DEF GatewayReceives, SendDown
<1>3. conn = None => toAgent' = toAgent
  BY BoundAssumption DEF GatewayReceives, Register, SendDown, Live
<1>4. (outdated => outdated') /\ (outdated' \/ UNCHANGED shown)
  <2>1. CASE Register(c)
    BY <2>1 DEF Register
  <2>2. CASE outdated' = (c # conn \/ c # ws)
    BY <2>2
  <2>3. CASE UNCHANGED <<shown, outdated>>
    BY <2>3
  <2> QED BY <2>1, <2>2, <2>3 DEF GatewayReceives
<1>5. conn # None /\ end'[conn] \in {"fresh", "registered"} => end'[conn] = end[conn]
  BY <1>2
<1>6. LastReport => LastReport'
  BY <1>1, <1>4 DEF LastReport
<1> QED BY <1>1, <1>2, <1>3, <1>5, <1>6 DEF SessionInv, TypeOK

LEMMA SessionStep ==
  ASSUME TypeOK, TimerInv, SessionInv, [Next]_vars PROVE SessionInv'
<1> USE DEF SessionInv
<1>0. Ends'
  <2>1. CASE Next
    BY <2>1, EndsStep
  <2>2. CASE UNCHANGED vars
    BY <2>2 DEF Ends, vars
  <2> QED BY <2>1, <2>2
<1>1. ASSUME NEW c \in Conn, Open(c) PROVE SessionInv'
  <2>1. /\ conn' = c /\ up'[conn'] = <<[type |-> "register"]>> /\ end'[conn'] = "fresh"
        /\ conn = None /\ UNCHANGED <<registered, toAgent, sess, debounce>>
    BY <1>1 DEF Open, TypeOK
  <2>2. Introducing' /\ LastReport'
    BY <2>1, <1>1 DEF LastReport, Open, TypeOK
  <2> QED BY <1>0, <1>1, <2>1, <2>2, BoundAssumption DEF Open
<1>2. CASE ConnectFails \/ CloseEvent
  BY <1>0, <1>2, ClosedSession DEF ConnectFails, CloseEvent
<1>3. CASE ReconnectFires
  BY <1>0, <1>3 DEF ReconnectFires, TimerInv, NeverIdle, LastReport, TypeOK
<1>4. CASE AgentReceives
  <2>1. /\ sock \in {"open", "closing"} /\ sock' \in {sock, "closing"}
        /\ toAgent # <<>> /\ UNCHANGED <<sess, conn, gatewayVars, up, debounce>>
    BY <1>4 DEF AgentReceives, OnRegistered, CloseWith
  <2> QED BY <1>0, <2>1 DEF LastReport, TypeOK
<1>5. CASE \E n \in 0 .. MaxSessions : SetSessionCount(n)
  <2>1. /\ registered /\ debounce' = (debounce \/ (registered /\ sock = "open"))
        /\ sock \in {"open", "closing"}
        /\ UNCHANGED <<sock, conn, registered, gatewayVars, up, toAgent>>
    BY <1>5 DEF SetSessionCount, ScheduleDebouncedHeartbeat
  <2>2. sock = "open" => debounce'
    BY <2>1
  <2> QED BY <1>0, <2>1, <2>2 DEF TypeOK
<1>6. CASE DebounceFires \/ HeartbeatFires \/ ProbeSucceeds
  <2>1. SendUp(Heartbeat) /\ UNCHANGED <<sess, sock, conn, registered, registryVars, toAgent>>
    BY <1>6 DEF DebounceFires, HeartbeatFires, ProbeSucceeds
  <2>2. Introducing' /\ (sock = "open" /\ end[conn] # "none" => LastReport')
    BY <2>1, ReportStep
  <2> QED BY <1>0, <2>1, <2>2
<1>7. CASE ProbeFails \/ RetryFires
  BY <1>0, <1>7 DEF ProbeFails, RetryFires, LastReport
<1>8. CASE AgentRestart
  BY <1>0, <1>8 DEF AgentRestart
<1>9. ASSUME NEW c \in Conn, GatewayReceives(c) PROVE SessionInv'
  BY <1>0, <1>9, ReadSession, OtherSession, BoundAssumption
<1>10. ASSUME NEW c \in Conn, EndCloses(c) PROVE SessionInv'
  <2>1. c # conn /\ UNCHANGED <<agentVars, toAgent>>
        /\ (conn # None => up'[conn] = up[conn] /\ end'[conn] = end[conn])
        /\ (ws = c \/ UNCHANGED <<shown, outdated>>)
    BY <1>10 DEF EndCloses, TypeOK
  <2>2. conn # None /\ end[conn] = "registered" /\ LastReport => LastReport'
    BY <2>1 DEF Ends, LastReport, TypeOK
  <2>3. conn # None /\ end[conn] = "fresh" /\ LastReport => LastReport'
    BY <2>1 DEF LastReport
  <2> QED BY <1>0, <2>1, <2>2, <2>3 DEF TypeOK
<1>11. CASE Exit
  BY <1>0, <1>11 DEF Exit, TypeOK
<1>12. CASE HeartbeatTimeout \/ Delete \/ Shutdown
  <2>1. /\ end' = CloseWs(end) /\ UNCHANGED <<agentVars, up>>
        /\ toAgent' = toAgent \/ (Live /\ ws = conn)
        /\ UNCHANGED <<shown, outdated>> \/ (shown' = 0 /\ outdated' = FALSE)
    BY <1>12 DEF HeartbeatTimeout, Delete, Shutdown, GatewayCloses, SendDown
  <2>2. conn # None => \/ end'[conn] = end[conn] /\ end[conn] # "registered"
                       \/ end[conn] = "registered" /\ end'[conn] = "closing"
    BY <2>1 DEF CloseWs, Live, Ends, TypeOK
  <2>3. toAgent' = toAgent \/ (conn # None /\ end[conn] = "registered")
    BY <2>1 DEF Live
  <2>4. conn # None /\ end[conn] = "fresh" /\ LastReport => LastReport'
    BY <2>1 DEF LastReport
  <2> QED BY <1>0, <2>1, <2>2, <2>3, <2>4 DEF TypeOK
<1>13. CASE GatewayStart \/ UNCHANGED vars
  BY <1>0, <1>13 DEF GatewayStart, vars, LastReport
<1> QED BY <1>1, <1>2, <1>3, <1>4, <1>5, <1>6, <1>7, <1>8, <1>9, <1>10, <1>11, <1>12, <1>13 DEF Next

\* Whatever is lost, closed, restarted or replaced, in whatever order the gateway
\* reads the agent's connections, and however often the count changes meanwhile: the
\* gateway shows the agent's session count whenever no report is due or in flight and
\* the last one was not a replaced connection's (register, heartbeat, close).
THEOREM CountsAgree == Spec => []SessionsAgree
<1>1. Init => SessionInv
  BY DEF Init, SessionInv, Ends
<1>2. TypeOK /\ TimerInv /\ SessionInv /\ [Next]_vars => SessionInv'
  BY SessionStep
<1>3. SessionInv => SessionsAgree
  BY DEF SessionInv, SessionsAgree, LastReport
<1> QED BY <1>1, <1>2, <1>3, TimersHold, TypeCorrect, PTL DEF Spec

=============================================================================
