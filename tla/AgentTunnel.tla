------------------------------ MODULE AgentTunnel ------------------------------
(***************************************************************************)
(* The life of one agent's connection to the gateway: connecting, backing   *)
(* off, registering, reporting its session count and the version of its     *)
(* OpenCode server, and stopping for good (src/agent/tunnel.ts,             *)
(* version-probe.ts, index.ts), against the gateway's ends of it            *)
(* (src/server/tunnel.ts, registry.ts, and shutdown in index.ts).  The      *)
(* agent has one connection at a time; the gateway may still have those it  *)
(* left, with frames of theirs to read, and may read them in any order.     *)
(*                                                                         *)
(* Of the registry only what the connection needs is here: whether the      *)
(* agent's token is good, the connection it has for it and the session      *)
(* count it shows (see Registry).                                           *)
(* Data and channel frames are left out (see ProxyRequests, WsChannels), so *)
(* is heartbeat_ack, which the agent ignores.                               *)
(***************************************************************************)
EXTENDS Integers, Sequences

CONSTANTS
  BaseDelay, MaxDelay, \* reconnect.baseDelayMs, maxDelayMs, in any unit
  Conn,                \* connections, as many as may exist at once
  MaxSessions,         \* bound on the agent's session count
  MaxProbes,           \* bound on version probes outstanding at once
  MaxFrames,           \* bound on frames in flight to the gateway, per connection
  MaxFaults,           \* bound on lost connections, crashes and restarts
  None

ASSUME DelayAssumption == BaseDelay \in Nat \ {0} /\ MaxDelay \in Nat \ {0}
ASSUME BoundAssumption ==
  /\ None \notin Conn
  /\ MaxSessions \in Nat /\ MaxProbes \in Nat /\ MaxFrames \in Nat /\ MaxFaults \in Nat

VARIABLES
  sock,       \* the agent's ws
  conn,       \* its connection, once open
  code,       \* the close code it will report
  registered, stopped,
  delay,      \* reconnectDelay
  reconnect, beat, debounce, retry, \* reconnectTimer, heartbeatTimer,
              \* debouncedHeartbeatTimer, versionProbeTimer are armed
  probing,    \* version probes outstanding
  version,    \* opencodeVersion is known
  sess,       \* sessionCount
  gateway,    \* the gateway's process
  valid,      \* the agent's instance exists, its token is good
  end,        \* the gateway's end of each connection
  ws,         \* the connection the registry has for the agent
  shown,      \* sessionCount in the registry
  outdated,   \* shown is the report of a connection since replaced (history)
  up, toAgent, \* frames in flight, to the gateway per connection
  faults      \* faults so far (bounds the model only)

timers == <<reconnect, beat, debounce, retry>>
probeVars == <<probing, version>>
agentVars == <<sock, conn, code, registered, stopped, delay, timers, probeVars, sess>>
registryVars == <<end, ws, shown, outdated>>
gatewayVars == <<gateway, valid, registryVars>>
vars == <<agentVars, gatewayVars, up, toAgent, faults>>

Permanent == {1008, 4001, 4002, 4003}
ToGateway == [type: {"register"}] \cup [type: {"heartbeat"}, sessionCount: 0 .. MaxSessions]
ToAgent == [type: {"registered", "shutdown"}]
             \cup [type: {"rejected", "close"}, code: {1000, 1001} \cup Permanent]

Init ==
  /\ sock = "connecting" /\ conn = None /\ code = None
  /\ registered = FALSE /\ stopped = FALSE
  /\ delay = BaseDelay
  /\ reconnect = FALSE /\ beat = FALSE /\ debounce = FALSE /\ retry = FALSE
  /\ probing = 0 /\ version = FALSE
  /\ sess = 0
  /\ gateway = "up" /\ valid \in BOOLEAN
  /\ end = [c \in Conn |-> "none"] /\ ws = None /\ shown = 0 /\ outdated = FALSE
  /\ up = [c \in Conn |-> <<>>] /\ toAgent = <<>>
  /\ faults = 0

Fault == faults < MaxFaults /\ faults' = faults + 1

-----------------------------------------------------------------------------
\* sendControl: only on an OPEN socket; frames to a gateway that has gone are lost.
SendUp(m) ==
  up' = IF sock = "open" /\ end[conn] # "none" THEN [up EXCEPT ![conn] = Append(@, m)] ELSE up
Heartbeat == [type |-> "heartbeat", sessionCount |-> sess]
Room == sock = "open" => Len(up[conn]) < MaxFrames

\* Mutant: only the heartbeat is cleared.
ClearHeartbeat == beat' = FALSE /\ UNCHANGED <<debounce, retry>>
\* clearTimers; no reconnect is pending while there is a socket.
ClearTimers == beat' = FALSE /\ debounce' = FALSE /\ retry' = FALSE

\* 'open': the agent introduces itself, whether or not the gateway has noticed the
\* end of its previous connections.
Open(c) ==
  /\ sock = "connecting" /\ gateway = "up"
  /\ end[c] = "none"
  /\ sock' = "open" /\ conn' = c /\ code' = None
  /\ end' = [end EXCEPT ![c] = "fresh"]
  /\ up' = [up EXCEPT ![c] = <<[type |-> "register"]>>]
  /\ UNCHANGED <<registered, stopped, delay, timers, probeVars, sess, gateway, valid, ws, shown,
                 outdated, toAgent, faults>>

\* Mutants: no further attempt; a further attempt whatever the code.
NoBackoff(c) == UNCHANGED <<stopped, reconnect>>
AlwaysBackOff(c) == UNCHANGED stopped /\ reconnect' = ~stopped
\* A permanent close code stops the agent for good; any other schedules a reconnect.
StopOrBackOff(c) ==
  /\ stopped' = (stopped \/ c \in Permanent)
  /\ reconnect' = ~stopped'

\* 'close': all timers are cleared, onDisconnect cancels all requests, which
\* reports a session count of 0 to a tunnel that is no longer registered.
Closed(c) ==
  /\ sock' = "none" /\ conn' = None /\ code' = c
  /\ registered' = FALSE
  /\ ClearTimers
  /\ StopOrBackOff(c)
  /\ sess' = 0
  /\ toAgent' = <<>>
  /\ UNCHANGED <<delay, probeVars, gatewayVars, up>>

\* No connection: the gateway is not there, or a fault.
ConnectFails ==
  /\ sock = "connecting"
  /\ \/ gateway # "up" /\ UNCHANGED faults
     \/ Fault
  /\ Closed(1006)

\* The close handshake is over, or the other end went without one.
CloseEvent ==
  \/ sock = "closing" /\ Closed(code) /\ UNCHANGED faults
  \/ sock \in {"open", "closing"} /\ Closed(1006) /\ Fault
  \/ sock \in {"open", "closing"} /\ end[conn] = "none" /\ Closed(1006) /\ UNCHANGED faults

NextDelay == IF delay * 2 < MaxDelay THEN delay * 2 ELSE MaxDelay
ReconnectFires ==
  /\ reconnect
  /\ reconnect' = FALSE
  /\ delay' = NextDelay
  /\ sock' = IF stopped THEN sock ELSE "connecting"
  /\ UNCHANGED <<conn, code, registered, stopped, beat, debounce, retry, probeVars, sess,
                 gatewayVars, up, toAgent, faults>>

StartHeartbeat == beat' = TRUE

\* 'registered': ok.
OnRegistered ==
  /\ probing < MaxProbes
  /\ registered' = TRUE
  /\ delay' = BaseDelay
  /\ StartHeartbeat
  /\ probing' = probing + 1
  /\ UNCHANGED <<sock, conn, code, stopped, reconnect, debounce, retry, version>>

\* Our close frame goes out, unless a close handshake is under way already.
CloseWith(c) == /\ code' = IF sock = "open" THEN c ELSE code
                /\ sock' = "closing"

\* A frame arrives at the agent; a close frame overrides the code of its own.
AgentReceives ==
  /\ sock \in {"open", "closing"} /\ toAgent # <<>>
  /\ LET m == Head(toAgent) IN
       \/ m.type = "registered" /\ OnRegistered
       \/ /\ m.type = "rejected" /\ CloseWith(m.code)
          /\ UNCHANGED <<registered, stopped, delay, timers, probeVars>>
       \/ /\ m.type = "shutdown" /\ CloseWith(1000)
          /\ stopped' = TRUE
          /\ UNCHANGED <<registered, delay, timers, probeVars>>
       \/ /\ m.type = "close"
          /\ code' = m.code /\ sock' = "closing"
          /\ UNCHANGED <<registered, stopped, delay, timers, probeVars>>
  /\ toAgent' = Tail(toAgent)
  /\ UNCHANGED <<conn, sess, gatewayVars, up, faults>>

-----------------------------------------------------------------------------
\* Mutant: the change waits for the next heartbeat.
NotYet == UNCHANGED debounce
ScheduleDebouncedHeartbeat == debounce' = (debounce \/ (registered /\ sock = "open"))
\* setSessionCount, from the forwarder, whose requests come over this connection.
SetSessionCount(n) ==
  /\ registered /\ sock \in {"open", "closing"}
  /\ n # sess
  /\ sess' = n
  /\ ScheduleDebouncedHeartbeat
  /\ UNCHANGED <<sock, conn, code, registered, stopped, delay, reconnect, beat, retry, probeVars,
                 gatewayVars, up, toAgent, faults>>

DebounceFires ==
  /\ debounce /\ Room
  /\ debounce' = FALSE
  /\ SendUp(Heartbeat)
  /\ UNCHANGED <<sock, conn, code, registered, stopped, delay, reconnect, beat, retry, probeVars, sess,
                 gatewayVars, toAgent, faults>>

HeartbeatFires ==
  /\ beat /\ Room
  /\ SendUp(Heartbeat)
  /\ UNCHANGED <<agentVars, gatewayVars, toAgent, faults>>

\* A version probe found the version, which is reported at once, or did not.
ProbeSucceeds ==
  /\ probing > 0 /\ Room
  /\ probing' = probing - 1
  /\ version' = TRUE
  /\ SendUp(Heartbeat)
  /\ UNCHANGED <<sock, conn, code, registered, stopped, delay, timers, sess, gatewayVars, toAgent, faults>>

\* Mutant: no retry.
GiveUp == UNCHANGED retry
ScheduleVersionProbe == retry' = (retry \/ ~stopped)
ProbeFails ==
  /\ probing > 0
  /\ probing' = probing - 1
  /\ ScheduleVersionProbe
  /\ UNCHANGED <<sock, conn, code, registered, stopped, delay, reconnect, beat, debounce, version, sess,
                 gatewayVars, up, toAgent, faults>>

RetryFires ==
  /\ retry
  /\ retry' = FALSE
  /\ probing < MaxProbes
  /\ probing' = IF registered /\ ~stopped THEN probing + 1 ELSE probing
  /\ UNCHANGED <<sock, conn, code, registered, stopped, delay, reconnect, beat, debounce, version, sess,
                 gatewayVars, up, toAgent, faults>>

\* The agent's process ends (stop, or a crash) and is started again.
AgentRestart ==
  /\ Fault
  /\ sock' = "connecting" /\ conn' = None /\ code' = None
  /\ registered' = FALSE /\ stopped' = FALSE
  /\ delay' = BaseDelay
  /\ ClearTimers /\ reconnect' = FALSE
  /\ probing' = 0 /\ version' = FALSE
  /\ sess' = 0
  /\ toAgent' = <<>>
  /\ UNCHANGED <<gatewayVars, up>>

-----------------------------------------------------------------------------
\* Frames on a connection the agent has left are lost.
SendDown(c, ms) == toAgent' = IF c = conn THEN toAgent \o ms ELSE toAgent
CloseFrame(c) == [type |-> "close", code |-> c]

\* The registry's connection is OPEN.
Live == ws # None /\ end[ws] = "registered"
\* The gateway closes it, in place of the state it is given.
CloseWs(e) == [c \in Conn |-> IF Live /\ c = ws THEN "closing" ELSE e[c]]

\* register: the connection replaces another, which is closed; the count stands.
Register(c) ==
  /\ ws' = c
  /\ end' = [CloseWs(end) EXCEPT ![c] = "registered"]
  /\ IF Live /\ ws # c /\ ws = conn THEN SendDown(ws, <<CloseFrame(1000)>>)
                                    ELSE SendDown(c, <<[type |-> "registered"]>>)
  /\ outdated' = (outdated \/ (ws # None /\ shown # 0))
  /\ UNCHANGED shown

\* handleControl: a good token is registered; a bad one, or one of another
\* instance, is refused; a heartbeat is recorded whichever connection it comes from,
\* if that was ever registered.
GatewayReceives(c) ==
  /\ end[c] # "none" /\ up[c] # <<>>
  /\ LET m == Head(up[c]) IN
       \/ m.type = "register" /\ valid /\ Register(c)
       \/ /\ m.type = "register" /\ ~valid
          /\ end' = [end EXCEPT ![c] = "refused"]
          /\ SendDown(c, <<[type |-> "rejected", code |-> 4001], CloseFrame(4001)>>)
          /\ UNCHANGED <<ws, shown, outdated>>
       \/ /\ m.type = "heartbeat" /\ end[c] \in {"registered", "closing"} /\ valid
          /\ shown' = m.sessionCount
          /\ outdated' = (c # conn \/ c # ws)
          /\ UNCHANGED <<end, ws, toAgent>>
       \/ /\ m.type = "heartbeat" /\ ~(end[c] \in {"registered", "closing"} /\ valid)
          /\ UNCHANGED <<registryVars, toAgent>>
  /\ up' = [up EXCEPT ![c] = Tail(@)]
  /\ UNCHANGED <<agentVars, gateway, valid, faults>>

ForgetSessions == shown' = 0
\* 'close' on the gateway's end of a connection the agent has closed or left: only
\* that of the registry's own connection takes the instance offline.
EndCloses(c) ==
  /\ end[c] # "none" /\ c # conn
  /\ end' = [end EXCEPT ![c] = "none"]
  /\ \/ ws = c /\ ws' = None /\ ForgetSessions /\ outdated' = FALSE
     \/ ws # c /\ UNCHANGED <<ws, shown, outdated>>
  /\ up' = [up EXCEPT ![c] = <<>>]
  /\ UNCHANGED <<agentVars, gateway, valid, toAgent, faults>>

\* The gateway closes the connection of a registered agent.
GatewayCloses(c) == /\ end' = CloseWs(end)
                    /\ IF Live THEN SendDown(ws, <<CloseFrame(c)>>) ELSE UNCHANGED toAgent

\* handleHeartbeatTimeout: nothing came in time, as when the agent has left.
HeartbeatTimeout ==
  /\ Live
  /\ IF ws = conn THEN Fault ELSE UNCHANGED faults
  /\ GatewayCloses(1001)
  /\ UNCHANGED <<agentVars, gateway, valid, ws, shown, outdated, up>>

\* The instance is deleted.
Delete ==
  /\ gateway = "up" /\ valid
  /\ valid' = FALSE /\ ws' = None /\ shown' = 0 /\ outdated' = FALSE
  /\ GatewayCloses(4003)
  /\ UNCHANGED <<agentVars, gateway, up, faults>>

\* shutdown: registered agents are told, then their connections are closed.
Shutdown ==
  /\ gateway = "up" /\ Fault
  /\ gateway' = "stopping"
  /\ end' = CloseWs(end)
  /\ IF Live THEN SendDown(ws, <<[type |-> "shutdown"], CloseFrame(1000)>>)
             ELSE UNCHANGED toAgent
  /\ UNCHANGED <<agentVars, valid, ws, shown, outdated, up>>

\* The gateway's process ends: at the end of a shutdown, or in a crash.
Exit ==
  /\ \/ gateway = "stopping" /\ UNCHANGED faults
     \/ gateway = "up" /\ Fault
  /\ gateway' = "down"
  /\ end' = [c \in Conn |-> "none"] /\ up' = [c \in Conn |-> <<>>]
  /\ ws' = None /\ shown' = 0 /\ outdated' = FALSE
  /\ UNCHANGED <<agentVars, valid, toAgent>>

GatewayStart ==
  /\ gateway = "down"
  /\ gateway' = "up"
  /\ UNCHANGED <<agentVars, valid, registryVars, up, toAgent, faults>>

-----------------------------------------------------------------------------
Next ==
  \/ \E c \in Conn : Open(c) \/ GatewayReceives(c) \/ EndCloses(c)
  \/ ConnectFails \/ CloseEvent \/ ReconnectFires \/ AgentReceives
  \/ \E n \in 0 .. MaxSessions : SetSessionCount(n)
  \/ DebounceFires \/ HeartbeatFires
  \/ ProbeSucceeds \/ ProbeFails \/ RetryFires
  \/ AgentRestart
  \/ HeartbeatTimeout \/ Delete \/ Shutdown \/ Exit \/ GatewayStart

Spec == Init /\ [][Next]_vars

\* Timers fire, frames on a live connection arrive, close handshakes and probes end
\* (ws gives up after 30 s, a probe after 5 s), and a gateway that has ended is
\* started again by its supervisor.
Fairness ==
  /\ WF_vars(\E c \in Conn : Open(c)) /\ WF_vars(gateway # "up" /\ ConnectFails)
  /\ WF_vars(CloseEvent /\ UNCHANGED faults)
  /\ WF_vars(ReconnectFires) /\ WF_vars(AgentReceives)
  /\ WF_vars(DebounceFires) /\ WF_vars(HeartbeatFires) /\ WF_vars(ProbeSucceeds \/ ProbeFails)
  /\ \A c \in Conn : WF_vars(GatewayReceives(c)) /\ WF_vars(EndCloses(c))
  /\ WF_vars(gateway = "stopping" /\ Exit) /\ WF_vars(GatewayStart)
FairSpec == Spec /\ Fairness

-----------------------------------------------------------------------------
\* Every variable has its type, and the delay its limits (scheduleReconnect).
TypeOK ==
  /\ sock \in {"connecting", "open", "closing", "none"}
  /\ conn \in Conn \cup {None}
  /\ code \in {1000, 1001, 1006} \cup Permanent \cup {None}
  /\ registered \in BOOLEAN /\ stopped \in BOOLEAN
  /\ delay \in Nat /\ (delay <= MaxDelay \/ delay = BaseDelay)
  /\ reconnect \in BOOLEAN /\ beat \in BOOLEAN /\ debounce \in BOOLEAN /\ retry \in BOOLEAN
  /\ probing \in 0 .. MaxProbes /\ version \in BOOLEAN
  /\ sess \in 0 .. MaxSessions /\ shown \in 0 .. MaxSessions
  /\ gateway \in {"up", "stopping", "down"} /\ valid \in BOOLEAN
  /\ end \in [Conn -> {"none", "fresh", "registered", "refused", "closing"}]
  /\ ws \in Conn \cup {None} /\ outdated \in BOOLEAN
  /\ up \in [Conn -> Seq(ToGateway)] /\ toAgent \in Seq(ToAgent)
  /\ faults \in 0 .. MaxFaults

\* Without a connection an agent has a reconnect pending, unless it has stopped;
\* with one it has none.  So it neither falls silent nor connects twice.
NeverIdle == reconnect <=> (sock = "none" /\ ~stopped)

\* An agent sends heartbeats exactly while registered, and none of its timers
\* outlives the registration it was armed for; nor does a probe that fails after a
\* stopped agent's connection has closed arm one that would keep its process alive
\* (ADR 0004: "Agent terminates its own process").
TimersServeRegistration ==
  /\ beat <=> registered
  /\ debounce => registered
  /\ stopped /\ sock = "none" => ~retry

\* While the version is unknown a registered agent has a probe or a retry under
\* way: no interleaving of probes, retries and reconnects loses the hourly retry.
ProbeGoesOn == registered /\ ~stopped /\ ~version => probing > 0 \/ retry

\* What the gateway shows is the agent's session count, whenever no report is due
\* (the debounce of setSessionCount) or in flight: only the count of a connection
\* that was replaced before the gateway had noticed its end may stand in the way,
\* until the next heartbeat of the present one.
SessionsAgree ==
  /\ registered /\ sock = "open" /\ end[conn] = "registered"
  /\ ~debounce /\ up[conn] = <<>> /\ ~outdated
  => shown = sess

\* The agent of a deleted instance stops, even if it missed the 4003.
DeletedStops == ~valid ~> stopped

=============================================================================
