------------------------------ MODULE WsChannels ------------------------------
(***************************************************************************)
(* One instance's WebSocket channels: the browser's sockets at the gateway  *)
(* (src/server/proxy/browser-ws-channels.ts), the tunnel connections, and   *)
(* the agent's sockets to the OpenCode server on localhost                  *)
(* (src/agent/forwarder.ts).  A channel is known on the tunnel by its id    *)
(* alone; ids count up from the same start in every gateway process.        *)
(*                                                                         *)
(* Messages are numbered per socket, so that loss, duplication, reordering  *)
(* and mixing of channels can be told.                                      *)
(***************************************************************************)
EXTENDS Integers, Sequences, FiniteSets

CONSTANTS
  Browser,      \* browser sockets, each used once
  Local,        \* sockets to localhost, each used once
  Conn,         \* tunnel connections, each used once
  MaxChannels,  \* MAX_ACTIVE_WS_CHANNELS_PER_INSTANCE
  MaxPending,   \* MAX_PENDING_CHANNEL_MESSAGES
  MaxSent,      \* bound on messages each socket sends
  MaxFrames,    \* bound on what is in flight, one way, when a socket adds to it
  MaxRestarts,  \* bound on crashes of the gateway
  HalfOpen,     \* TRUE: the agent may be back before the gateway has noticed that
                \* its previous connection is dead
  Deletes,      \* TRUE: the instance may be deleted (and its id used again)
  SlowClose,    \* TRUE: a localhost socket may still be closing when the agent is back
  None

ASSUME NoneAssumption == None \notin Browser \cup Local \cup Conn
ASSUME BrowserAssumption == IsFiniteSet(Browser)
ASSUME BoundAssumption ==
  /\ MaxChannels \in Nat /\ MaxPending \in Nat /\ MaxSent \in Nat
  /\ MaxFrames \in Nat /\ MaxRestarts \in Nat
ASSUME SwitchAssumption ==
  HalfOpen \in BOOLEAN /\ Deletes \in BOOLEAN /\ SlowClose \in BOOLEAN

\* Ids one gateway process can hand out here; their wrap-around is left out.
Id == 1 .. Cardinality(Browser)

VARIABLES
  nextId,   \* _nextChannelId
  chan,     \* the gateway's activeChannels and channelInstance
  browser,  \* life of each browser socket
  bid,      \* the channelId its listeners close over
  online,   \* instance.status
  ws,       \* registry.getWs(instance)
  conn,     \* the gateway's end of each connection
  agent,    \* the agent's live connection
  act,      \* the agent's activeChannels
  pend,     \* pendingChannelMessages
  local,    \* life of each localhost socket
  lid,      \* the channelId its listeners close over
  down, up, \* frames and control messages in flight
  restarts, \* crashes so far (bounds the model only)
  via,      \* the connection an open browser socket's channel_open went on (history)
  for,      \* the browser socket a localhost socket was opened for (history)
  bsent, lsent, bgot, lgot  \* messages sent and received (history)

gatewayVars == <<nextId, chan, browser, bid, via>>
agentVars == <<act, pend, local, lid, for>>
connVars == <<online, ws, conn, agent, restarts>>
dataVars == <<bsent, lsent, bgot, lgot>>
vars == <<gatewayVars, agentVars, connVars, dataVars, down, up>>

Number == 1 .. MaxSent
FromBrowser == Browser \X Number
FromLocal == Local \X Number
Down == [type: {"open", "close"}, id: Id, data: Browser \cup {None}]
          \cup [type: {"data"}, id: Id, data: FromBrowser]
Up == [type: {"opened", "error", "closed"}, id: Id, data: {None}]
          \cup [type: {"data"}, id: Id, data: FromLocal]

Init ==
  /\ nextId = 1
  /\ chan = [i \in Id |-> None]
  /\ browser = [b \in Browser |-> "new"]
  /\ bid = [b \in Browser |-> None]
  /\ via = [b \in Browser |-> None]
  /\ online = FALSE /\ ws = None /\ agent = None /\ restarts = 0
  /\ conn = [c \in Conn |-> "unused"]
  /\ act = [i \in Id |-> None]
  /\ pend = [i \in Id |-> <<>>]
  /\ local = [l \in Local |-> "unused"]
  /\ lid = [l \in Local |-> None]
  /\ for = [l \in Local |-> None]
  /\ down = [c \in Conn |-> <<>>] /\ up = [c \in Conn |-> <<>>]
  /\ bsent = [b \in Browser |-> 0] /\ lsent = [l \in Local |-> 0]
  /\ bgot = [b \in Browser |-> <<>>] /\ lgot = [l \in Local |-> <<>>]

-----------------------------------------------------------------------------
\* sendToAgent, sendControlToAgent: only on an OPEN connection, else dropped.
Sendable == ws # None /\ conn[ws] = "open"
SendDown(ms) == down' = IF Sendable THEN [down EXCEPT ![ws] = @ \o ms] ELSE down
RoomDown == Sendable => Len(down[ws]) < MaxFrames

\* A browser's upgrade is refused, while the instance is offline or has too many
\* channels (nothing changes); or accepted: the agent is told to open the channel.
Upgrade(b) ==
  /\ browser[b] = "new" /\ RoomDown
  /\ online
  /\ Cardinality({i \in Id : chan[i] # None}) < MaxChannels
  /\ nextId \in Id
  /\ nextId' = nextId + 1
  /\ chan' = [chan EXCEPT ![nextId] = b]
  /\ browser' = [browser EXCEPT ![b] = "open"]
  /\ bid' = [bid EXCEPT ![b] = nextId]
  /\ via' = [via EXCEPT ![b] = IF Sendable THEN ws ELSE None]
  /\ SendDown(<<[type |-> "open", id |-> nextId, data |-> b]>>)
  /\ UNCHANGED <<agentVars, connVars, dataVars, up>>

\* 'message' on a browser socket; ws still delivers what came before its close.
BrowserMessage(b) ==
  /\ browser[b] \in {"open", "closing"}
  /\ bsent[b] < MaxSent /\ RoomDown
  /\ bsent' = [bsent EXCEPT ![b] = @ + 1]
  /\ SendDown(<<[type |-> "data", id |-> bid[b], data |-> <<b, bsent[b] + 1>>]>>)
  /\ UNCHANGED <<gatewayVars, agentVars, connVars, lsent, bgot, lgot, up>>

\* Mutant: the agent is not told.
ForgetChannel(i, times) == chan' = [chan EXCEPT ![i] = None] /\ UNCHANGED down
\* The 'close' and 'error' listeners: forget the channel, tell the agent.
CloseChannelDown(i, times) ==
  /\ chan' = [chan EXCEPT ![i] = None]
  /\ SendDown([n \in 1 .. times |-> [type |-> "close", id |-> i, data |-> None]])

\* 'close' alone, or 'error' and 'close': the socket is of no use in between, so
\* the two are one step, but the agent is told twice.
BrowserEvent(b) ==
  /\ browser[b] \in {"open", "closing"} /\ RoomDown
  /\ browser' = [browser EXCEPT ![b] = "closed"]
  /\ \E times \in {1, 2} : CloseChannelDown(bid[b], times)
  /\ via' = [via EXCEPT ![b] = None]
  /\ UNCHANGED <<nextId, bid, agentVars, connVars, dataVars, up>>

\* browserWs.close() on the sockets of a set.
CloseBrowsers(B) ==
  browser' = [b \in Browser |-> IF b \in B /\ browser[b] = "open" THEN "closing" ELSE browser[b]]

\* handleAgentData, handleAgentChannelEvent: by channel id, on any connection.
GatewayReceives(c) ==
  /\ conn[c] \in {"open", "closing"}
  /\ up[c] # <<>>
  /\ LET m == Head(up[c])
         b == chan[m.id]
     IN \/ /\ m.type = "data"
           /\ bgot' = IF b # None /\ browser[b] = "open"
                        THEN [bgot EXCEPT ![b] = Append(@, m.data)] ELSE bgot
           /\ UNCHANGED <<chan, browser>>
        \/ m.type = "opened" /\ UNCHANGED <<chan, browser, bgot>>
        \/ /\ m.type \in {"error", "closed"}
           /\ chan' = [chan EXCEPT ![m.id] = None]
           /\ CloseBrowsers({b})
           /\ UNCHANGED bgot
  /\ up' = [up EXCEPT ![c] = Tail(@)]
  /\ UNCHANGED <<nextId, bid, via, agentVars, connVars, bsent, lsent, lgot, down>>

-----------------------------------------------------------------------------
\* A heartbeat in flight on a connection that is being closed: the instance is online
\* again, whatever its connection is by now.  (Online already, it only re-arms the timer.)
Heartbeat(c) ==
  /\ conn[c] = "closing"
  /\ online' = TRUE
  /\ UNCHANGED <<gatewayVars, agentVars, ws, conn, agent, restarts, dataVars, down, up>>

\* ws.close() on the instance's connection, if it has one that is OPEN.
CloseCurrent == conn' = IF Sendable THEN [conn EXCEPT ![ws] = "closing"] ELSE conn

\* The heartbeat timer, which runs while the instance is online: it is offline, its
\* connection is closed.
HeartbeatTimeout ==
  /\ online
  /\ online' = FALSE
  /\ CloseCurrent
  /\ UNCHANGED <<gatewayVars, agentVars, ws, agent, restarts, dataVars, down, up>>

\* The instance is deleted, its id given to a new one at the latest when it is used
\* again: its connection is closed and forgotten at once, its channels are not.
Remove ==
  /\ Deletes
  /\ ws' = None
  /\ online' = FALSE
  /\ CloseCurrent
  /\ UNCHANGED <<gatewayVars, agentVars, agent, restarts, dataVars, down, up>>

\* The agent's close frame has been read, 'close' is not emitted yet.
PeerClosing(c) ==
  /\ conn[c] = "open" /\ agent # c
  /\ conn' = [conn EXCEPT ![c] = "closing"]
  /\ UNCHANGED <<gatewayVars, agentVars, online, ws, agent, restarts, dataVars, down, up>>

\* Mutant: the browsers are left open.
ForgetAll == chan' = [i \in Id |-> None] /\ UNCHANGED browser
\* cleanupInstanceChannels.
CleanupInstanceChannels ==
  /\ CloseBrowsers({chan[i] : i \in Id})
  /\ chan' = [i \in Id |-> None]

\* 'close' on the gateway's end of a connection.
CloseEvent(c) ==
  /\ conn[c] \in {"open", "closing"}
  /\ conn' = [conn EXCEPT ![c] = "closed"]
  /\ ws' = IF ws = c THEN None ELSE ws
  /\ online' = (online /\ ws # c)
  /\ CleanupInstanceChannels
  /\ down' = [down EXCEPT ![c] = <<>>]
  /\ up' = [up EXCEPT ![c] = <<>>]
  /\ UNCHANGED <<nextId, bid, via, agentVars, agent, restarts, dataVars>>

\* The gateway's process dies and is started again.
Crash ==
  /\ restarts < MaxRestarts
  /\ restarts' = restarts + 1
  /\ nextId' = 1
  /\ chan' = [i \in Id |-> None]
  /\ browser' = [b \in Browser |-> IF browser[b] = "new" THEN "new" ELSE "closed"]
  /\ online' = FALSE
  /\ ws' = None
  /\ conn' = [c \in Conn |-> IF conn[c] = "unused" THEN "unused" ELSE "closed"]
  /\ down' = [c \in Conn |-> <<>>]
  /\ up' = [c \in Conn |-> <<>>]
  /\ via' = [b \in Browser |-> None]
  /\ UNCHANGED <<bid, agent, agentVars, dataVars>>

\* Closing a socket that never opened takes a tick, closing one that did up to 30 s
\* (ws's close timeout); the agent is back after a second at the earliest.
LocalsGone ==
  \A l \in Local : /\ local[l] # "aborted"
                   /\ SlowClose \/ local[l] \notin {"closing", "failed"}

\* The agent (re)connects and registers; an older connection is superseded.
Connect(c) ==
  /\ agent = None /\ conn[c] = "unused"
  /\ HalfOpen \/ \A d \in Conn : conn[d] \in {"unused", "closed"}
  /\ LocalsGone
  /\ agent' = c
  /\ ws' = c
  /\ online' = TRUE
  /\ conn' = [d \in Conn |-> IF d = c THEN "open"
                             ELSE IF d = ws /\ conn[d] = "open" THEN "closing" ELSE conn[d]]
  /\ UNCHANGED <<gatewayVars, agentVars, restarts, dataVars, down, up>>

-----------------------------------------------------------------------------
\* Mutant: the newest first.
SendUpFirst(ms) == up' = IF agent = None THEN up ELSE [up EXCEPT ![agent] = ms \o @]
\* sendBinary, sendChannelControl: only on the agent's OPEN connection, else dropped.
SendUp(ms) == up' = IF agent = None THEN up ELSE [up EXCEPT ![agent] = @ \o ms]
RoomUp == agent # None => Len(up[agent]) < MaxFrames
Control(type, i) == [type |-> type, id |-> i, data |-> None]

\* ws.close() on the localhost sockets of a set.
CloseLocals(L) ==
  local' = [l \in Local |-> IF l \notin L THEN local[l]
                            ELSE IF local[l] = "open" THEN "closing"
                            ELSE IF local[l] = "connecting" THEN "aborted" ELSE local[l]]

\* openChannel: a socket to localhost, or at once an error.
OpenChannel(m) ==
  \/ /\ \E l \in Local :
          /\ local[l] = "unused"
          /\ local' = [local EXCEPT ![l] = "connecting"]
          /\ lid' = [lid EXCEPT ![l] = m.id]
          /\ for' = [for EXCEPT ![l] = m.data]
          /\ act' = [act EXCEPT ![m.id] = l]
     /\ UNCHANGED <<pend, lgot, up>>
  \/ SendUp(<<Control("error", m.id)>>) /\ UNCHANGED <<agentVars, lgot>>

\* Mutant: the channel is forgotten, its socket left open.
LeaveLocal(m) ==
  /\ act' = [act EXCEPT ![m.id] = None]
  /\ SendUp(<<Control("closed", m.id)>>)
  /\ UNCHANGED <<pend, local, lid, for, lgot>>
\* closeChannel: acknowledged even if the channel has gone.
CloseChannel(m) ==
  /\ CloseLocals({act[m.id]})
  /\ act' = [act EXCEPT ![m.id] = None]
  /\ SendUp(<<Control("closed", m.id)>>)
  /\ UNCHANGED <<pend, lid, for, lgot>>

\* forwardChannelData, by the state of the channel's socket.
Pass(l, m) == lgot' = [lgot EXCEPT ![l] = Append(@, m.data)] /\ UNCHANGED <<agentVars, up>>
Buffer(m) == pend' = [pend EXCEPT ![m.id] = Append(@, m.data)]
             /\ UNCHANGED <<act, local, lid, for, lgot, up>>
Overflow(l, m) ==
  /\ CloseLocals({l})
  /\ act' = [act EXCEPT ![m.id] = None]
  /\ pend' = [pend EXCEPT ![m.id] = <<>>]
  /\ SendUp(<<Control("error", m.id)>>)
  /\ UNCHANGED <<lid, for, lgot>>
ForwardChannelData(m) ==
  LET l == act[m.id] IN
    \/ l # None /\ local[l] = "open" /\ Pass(l, m)
    \/ l # None /\ local[l] = "connecting" /\ Len(pend[m.id]) < MaxPending /\ Buffer(m)
    \/ l # None /\ local[l] = "connecting" /\ Len(pend[m.id]) >= MaxPending /\ Overflow(l, m)
    \/ l = None /\ UNCHANGED <<agentVars, lgot, up>>
    \/ l # None /\ local[l] \notin {"open", "connecting"} /\ UNCHANGED <<agentVars, lgot, up>>

AgentReceives(c) ==
  /\ agent = c /\ down[c] # <<>>
  /\ LET m == Head(down[c]) IN
       \/ m.type = "open" /\ OpenChannel(m)
       \/ m.type = "close" /\ CloseChannel(m)
       \/ m.type = "data" /\ ForwardChannelData(m)
  /\ down' = [down EXCEPT ![c] = Tail(@)]
  /\ UNCHANGED <<gatewayVars, connVars, bsent, lsent, bgot>>

\* 'open': tell the gateway, pass on what was buffered.
LocalOpen(l) ==
  /\ local[l] = "connecting" /\ RoomUp
  /\ local' = [local EXCEPT ![l] = "open"]
  /\ SendUp(<<Control("opened", lid[l])>>)
  /\ lgot' = [lgot EXCEPT ![l] = @ \o pend[lid[l]]]
  /\ pend' = [pend EXCEPT ![lid[l]] = <<>>]
  /\ UNCHANGED <<gatewayVars, act, lid, for, connVars, bsent, lsent, bgot, down>>

\* 'message', also while the socket is closing.
LocalMessage(l) ==
  /\ local[l] \in {"open", "closing"}
  /\ lsent[l] < MaxSent /\ RoomUp
  /\ lsent' = [lsent EXCEPT ![l] = @ + 1]
  /\ SendUp(<<[type |-> "data", id |-> lid[l], data |-> <<l, lsent[l] + 1>>]>>)
  /\ UNCHANGED <<gatewayVars, agentVars, connVars, bsent, bgot, lgot, down>>

\* What the 'close' and 'error' listeners forget, by id.
ForgetLocal(l) ==
  /\ act' = [act EXCEPT ![lid[l]] = None]
  /\ pend' = [pend EXCEPT ![lid[l]] = <<>>]

\* 'error' and 'close' at once: localhost refused, or the handshake was aborted.
LocalRefused(l) ==
  /\ local[l] \in {"connecting", "aborted"} /\ RoomUp
  /\ local' = [local EXCEPT ![l] = "closed"]
  /\ ForgetLocal(l)
  /\ SendUp(<<Control("error", lid[l]), Control("closed", lid[l])>>)
  /\ UNCHANGED <<gatewayVars, lid, for, connVars, dataVars, down>>

\* 'error' on a socket that did open: a protocol error or a reset; 'close' follows.
LocalError(l) ==
  /\ local[l] \in {"open", "closing"} /\ RoomUp
  /\ local' = [local EXCEPT ![l] = "failed"]
  /\ ForgetLocal(l)
  /\ SendUp(<<Control("error", lid[l])>>)
  /\ UNCHANGED <<gatewayVars, lid, for, connVars, dataVars, down>>

\* 'close': localhost closed it, or our close is complete.
LocalClose(l) ==
  /\ local[l] \in {"open", "closing", "failed"} /\ RoomUp
  /\ local' = [local EXCEPT ![l] = "closed"]
  /\ ForgetLocal(l)
  /\ SendUp(<<Control("closed", lid[l])>>)
  /\ UNCHANGED <<gatewayVars, lid, for, connVars, dataVars, down>>

\* Mutant: the channels are forgotten, their sockets left open.
ForgetOnly == act' = [i \in Id |-> None] /\ UNCHANGED local
\* closeAllChannels: what was buffered stays.
CloseAllChannels ==
  /\ CloseLocals({act[i] : i \in Id})
  /\ act' = [i \in Id |-> None]

\* 'close' on the agent's end of the tunnel.
AgentDrops ==
  /\ agent # None
  /\ agent' = None
  /\ CloseAllChannels
  /\ down' = [down EXCEPT ![agent] = <<>>]
  /\ UNCHANGED <<gatewayVars, pend, lid, for, online, ws, conn, restarts, dataVars, up>>

-----------------------------------------------------------------------------
Next ==
  \/ \E b \in Browser : Upgrade(b) \/ BrowserMessage(b) \/ BrowserEvent(b)
  \/ \E c \in Conn : \/ GatewayReceives(c) \/ Heartbeat(c) \/ PeerClosing(c)
                     \/ CloseEvent(c) \/ Connect(c) \/ AgentReceives(c)
  \/ \E l \in Local : \/ LocalOpen(l) \/ LocalMessage(l) \/ LocalRefused(l)
                      \/ LocalError(l) \/ LocalClose(l)
  \/ HeartbeatTimeout \/ Remove
  \/ Crash
  \/ AgentDrops

Spec == Init /\ [][Next]_vars

\* Frames on a live connection arrive; ws ends a close handshake within 30 s, with
\* the peer or without; the heartbeat timer finds a connection whose agent has
\* gone; an agent notices that the gateway has dropped its connection.  Nothing is
\* assumed of browsers or of the server on localhost.
Fairness ==
  /\ \A b \in Browser : WF_vars(browser[b] = "closing" /\ BrowserEvent(b))
  /\ WF_vars(agent # ws /\ HeartbeatTimeout)
  /\ \A c \in Conn : /\ WF_vars(GatewayReceives(c))
                     /\ WF_vars(AgentReceives(c))
                     /\ WF_vars(conn[c] = "closing" /\ CloseEvent(c))
                     /\ WF_vars(agent = c /\ conn[c] = "closed" /\ AgentDrops)
  /\ \A l \in Local : /\ WF_vars(local[l] = "aborted" /\ LocalRefused(l))
                      /\ WF_vars(local[l] \in {"closing", "failed"} /\ LocalClose(l))
FairSpec == Spec /\ Fairness

-----------------------------------------------------------------------------
\* Every variable has its type.
TypeOK ==
  /\ nextId \in 1 .. Cardinality(Browser) + 1
  /\ chan \in [Id -> Browser \cup {None}]
  /\ browser \in [Browser -> {"new", "open", "closing", "closed"}]
  /\ bid \in [Browser -> Id \cup {None}]
  /\ via \in [Browser -> Conn \cup {None}]
  /\ online \in BOOLEAN /\ ws \in Conn \cup {None} /\ agent \in Conn \cup {None}
  /\ conn \in [Conn -> {"unused", "open", "closing", "closed"}]
  /\ act \in [Id -> Local \cup {None}]
  /\ pend \in [Id -> Seq(FromBrowser)] /\ \A i \in Id : Len(pend[i]) <= MaxPending
  /\ local \in [Local -> {"unused", "connecting", "open", "closing", "aborted", "failed", "closed"}]
  /\ lid \in [Local -> Id \cup {None}]
  /\ for \in [Local -> Browser \cup {None}]
  /\ down \in [Conn -> Seq(Down)] /\ up \in [Conn -> Seq(Up)]
  /\ restarts \in 0 .. MaxRestarts
  /\ bsent \in [Browser -> 0 .. MaxSent] /\ lsent \in [Local -> 0 .. MaxSent]
  /\ bgot \in [Browser -> Seq(FromLocal)] /\ lgot \in [Local -> Seq(FromBrowser)]

\* s is what one single sender sent, from the first message on, without a gap.
PrefixOfOne(s) == \A n \in DOMAIN s : s[n] = <<s[1][1], n>>

\* A browser socket gets the messages of one localhost socket, in the order sent,
\* none lost in the middle, none twice, none of another channel: whatever
\* connections, ids and closes have come and gone (forwardAgentData).  The same for
\* a localhost socket, including what was buffered while it was connecting
\* (forwardChannelData).
InOrder == /\ \A b \in Browser : PrefixOfOne(bgot[b])
           /\ \A l \in Local : PrefixOfOne(lgot[l])

\* The two ends of a channel are each other's: what a localhost socket gets comes
\* from the browser it was opened for, and what it sends goes to that browser, also
\* when its id has been handed out again since.
NoCrossTalk ==
  /\ \A l \in Local : \A n \in DOMAIN lgot[l] : lgot[l][n][1] = for[l]
  /\ \A b \in Browser : \A n \in DOMAIN bgot[b] : for[bgot[b][n][1]] = b

\* The two ends of a channel see what ChannelPipe promises.
Life(x) == CASE x \in {"new", "unused"} -> "new"
             [] x \in {"aborted", "failed", "closed"} -> "over"
             [] OTHER -> x
Pipe == INSTANCE ChannelPipe WITH front <- [b \in Browser |-> Life(browser[b])],
                                  back <- [l \in Local |-> Life(local[l])]
PipeSpec == Pipe!Spec

\* The connections are such as GatewayEnd allows.
LinkOf(c) == IF conn[c] \in {"open", "closing"} THEN conn[c] ELSE "none"
Gateway == INSTANCE GatewayEnd WITH current <- ws, shown <- online,
                                    link <- [c \in Conn |-> LinkOf(c)]
GatewaySpec == Gateway!Spec

\* A localhost socket that is connecting or open is in activeChannels under its
\* id, so that channel_close and closeAllChannels can reach it.
NoStray ==
  \A l \in Local : local[l] \in {"connecting", "open"} => act[lid[l]] = l

\* The gateway's maps hold exactly the browser sockets that are open: none is out
\* of reach of cleanupInstanceChannels, none counts against the limit for ever.
OpenIsTracked ==
  \A b \in Browser, i \in Id : chan[i] = b <=> browser[b] = "open" /\ bid[b] = i

\* "Close all active channels (called on disconnect)" (forwarder.ts): after a
\* disconnect no socket to localhost is open or being opened.
DisconnectClosesAll ==
  [][agent # None /\ agent' = None =>
       \A l \in Local : local'[l] \notin {"connecting", "open"}]_vars

\* A browser socket whose agent has gone is closed.  One whose agent was never told
\* of it is closed at the latest with the connection that was being closed then; if
\* there was none, a heartbeat came after the last 'close', nobody closes it.
Abandoned(b) == \/ via[b] \notin {None, agent}
                \/ via[b] = None /\ \E c \in Conn : conn[c] = "closing"
BrowserLetGo ==
  \A b \in Browser : browser[b] = "open" /\ Abandoned(b) ~> browser[b] # "open"

\* A localhost socket whose browser socket is not open any more is closed.
LocalLetGo ==
  \A l \in Local :
    for[l] # None /\ browser[for[l]] # "open" ~> local[l] = "closed"

=============================================================================
