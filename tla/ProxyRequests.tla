---------------------------- MODULE ProxyRequests ----------------------------
(***************************************************************************)
(* One instance's proxied HTTP and SSE requests, end to end: the browser's  *)
(* response objects and the gateway's bookkeeping of them                   *)
(* (src/server/proxy/request-state.ts, request-forwarder.ts,                *)
(* agent-http-response.ts, subdomain-route.ts), the tunnel connections that *)
(* carry frames both ways, and the agent's forwarder                        *)
(* (src/agent/forwarder.ts) with the upstream OpenCode server it asks.      *)
(*                                                                         *)
(* A connection is a pair of FIFO queues.  What the registry knows of it is *)
(* reduced to ws, the connection requests are sent on; the other module     *)
(* about it is Registry.  A payload is reduced to what handleAgentHttp-     *)
(* Response tells apart: a complete response, an SSE head, an SSE chunk and *)
(* the empty frame that ends a stream.                                      *)
(***************************************************************************)
EXTENDS Integers, Sequences, FiniteSets

CONSTANTS
  Request,      \* browser requests; a request's number is its requestId
  Conn,         \* tunnel connections, each used once
  MaxPending,   \* MAX_PENDING_REQUESTS
  MaxStreaming, \* MAX_STREAMING_REQUESTS
  MaxFrames,    \* bound on frames of one connection in flight
  HalfOpen,     \* TRUE: the agent may be back before the gateway has noticed
                \* that its previous connection is dead
  None

ASSUME NoneNotConn == None \notin Conn
ASSUME LimitAssumption == MaxPending \in Nat /\ MaxStreaming \in Nat /\ MaxFrames \in Nat
ASSUME HalfOpenAssumption == HalfOpen \in BOOLEAN
ASSUME FiniteRequests == IsFiniteSet(Request)

VARIABLES
  gw,     \* where the gateway has a request: its handlers and its two maps
  timer,  \* requestTimeouts holds a live timer for it
  res,    \* the browser's http.ServerResponse
  code,   \* the status line written to it
  via,    \* the connection that carried it (history)
  ws,     \* registry.getWs(instance)
  conn,   \* the gateway's end of each connection
  agent,  \* the agent's live connection
  active, \* the agent's activeHttpRequests and what upstream has answered
  head,   \* headersSent of forwardStreamingResponse
  late,   \* 'error' events of destroyed streams still to be emitted
  count,  \* activeRequestCount, reported as sessionCount
  down,   \* frames and control messages on their way to the agent
  up      \* frames on their way to the gateway

gatewayVars == <<gw, timer, res, code, via>>
agentVars == <<active, head, late, count>>
connVars == <<ws, conn, agent>>
vars == <<gw, timer, res, code, via, ws, conn, agent, active, head, late, count, down, up>>

Codes == {"ok", "sse", "413", "502", "503", "504"}
Down == [type: {"http", "cancel"}, id: Request]
Up == [type: {"response", "head", "data", "end"}, id: Request]

Pending == {r \in Request : gw[r] = "pending"}
Streaming == {r \in Request : gw[r] = "streaming"}
Tracked == Pending \cup Streaming
InFlight == {r \in Request : active[r] # "none"}

Init ==
  /\ gw = [r \in Request |-> "idle"]
  /\ timer = [r \in Request |-> FALSE]
  /\ res = [r \in Request |-> "fresh"]
  /\ code = [r \in Request |-> None]
  /\ via = [r \in Request |-> None]
  /\ ws = None
  /\ conn = [c \in Conn |-> "unused"]
  /\ agent = None
  /\ active = [r \in Request |-> "none"]
  /\ head = [r \in Request |-> FALSE]
  /\ late = [r \in Request |-> "nothing"]
  /\ count = 0
  /\ down = [c \in Conn |-> <<>>]
  /\ up = [c \in Conn |-> <<>>]

-----------------------------------------------------------------------------
\* http.ServerResponse: writeHead then writes then end.  Out of order is an
\* exception (ERR_HTTP_HEADERS_SENT, write after end): "broken".  Once the browser
\* has gone the response swallows everything.
WriteHead(x) == CASE x = "gone" -> "gone" [] x = "fresh" -> "open" [] OTHER -> "broken"
Write(x) == CASE x = "gone" -> "gone" [] x = "open" -> "open" [] OTHER -> "broken"
Finish(x) == CASE x = "gone" -> "gone" [] x = "open" -> "ended" [] OTHER -> "broken"
HeadersSent(r) == res[r] \in {"open", "ended", "broken"}

\* writeHead(c) followed by end(body).
Answer(r, c) == /\ res' = [res EXCEPT ![r] = Finish(WriteHead(@))]
                /\ code' = [code EXCEPT ![r] = c]
EndResponse(r) == res' = [res EXCEPT ![r] = Finish(@)] /\ UNCHANGED code

\* cleanupRequest: forget the request and clear its timer.
\* Mutant: the timer is cleared but the entry stays.
StopTimerOnly(r) == timer' = [timer EXCEPT ![r] = FALSE] /\ UNCHANGED gw
Cleanup(r) == gw' = [gw EXCEPT ![r] = "closed"] /\ timer' = [timer EXCEPT ![r] = FALSE]

\* sendToAgent, sendControlToAgent: only on an OPEN connection, else dropped.
Sendable == ws # None /\ conn[ws] = "open"
SendDown(m) == down' = IF Sendable THEN [down EXCEPT ![ws] = Append(@, m)] ELSE down
\* Mutant: the gateway forgets to tell the agent.
KeepQuiet(r) == UNCHANGED down
SendCancel(r) == SendDown([type |-> "cancel", id |-> r])

-----------------------------------------------------------------------------
\* A browser's request is refused at once: unknown or offline instance, declared
\* body too large, or too many requests pending or streaming.
Refuse(r, c) ==
  /\ gw[r] = "idle"
  /\ \/ c = "413"
     \/ c = "503" /\ \/ ~Sendable
                     \/ Cardinality(Pending) >= MaxPending
                     \/ Cardinality(Streaming) >= MaxStreaming
  /\ Answer(r, c)
  /\ gw' = [gw EXCEPT ![r] = "closed"]
  /\ UNCHANGED <<timer, via, connVars, agentVars, down, up>>

\* It passes those checks; its body is read.  The instance may be shown online
\* although its connection is gone (see Registry), so no check of ws here.
Admit(r) ==
  /\ gw[r] = "idle"
  /\ Cardinality(Pending) < MaxPending
  /\ Cardinality(Streaming) < MaxStreaming
  /\ gw' = [gw EXCEPT ![r] = "reading"]
  /\ UNCHANGED <<timer, res, code, via, connVars, agentVars, down, up>>

\* The body exceeds the limit: 413, the request is destroyed.
BodyTooLarge(r) ==
  /\ gw[r] = "reading"
  /\ Answer(r, "413")
  /\ gw' = [gw EXCEPT ![r] = "closed"]
  /\ UNCHANGED <<timer, via, connVars, agentVars, down, up>>

\* The body is complete: registerRequest, then sendToAgent on the connection of
\* the moment; if that fails, clean up and answer 503.
BodyRead(r) ==
  /\ gw[r] = "reading"
  /\ IF Sendable
       THEN /\ gw' = [gw EXCEPT ![r] = "pending"]
            /\ timer' = [timer EXCEPT ![r] = TRUE]
            /\ via' = [via EXCEPT ![r] = ws]
            /\ UNCHANGED <<res, code>>
       ELSE Cleanup(r) /\ Answer(r, "503") /\ UNCHANGED via
  /\ SendDown([type |-> "http", id |-> r])
  /\ UNCHANGED <<connVars, agentVars, up>>

\* The 60 s timer fires; nothing unless the request is still pending.
ProxyTimeout(r) ==
  /\ timer[r]
  /\ IF gw[r] = "pending"
       THEN /\ Cleanup(r)
            /\ SendCancel(r)
            /\ IF HeadersSent(r) THEN UNCHANGED <<res, code>> ELSE Answer(r, "504")
       ELSE timer' = [timer EXCEPT ![r] = FALSE] /\ UNCHANGED <<gw, res, code, down>>
  /\ UNCHANGED <<via, connVars, agentVars, up>>

\* The browser goes away: 'close' on its response.  While its body is being read
\* the request just never ends; later the agent is told.
BrowserCloses(r) ==
  /\ gw[r] \in {"reading", "pending", "streaming"}
  /\ res' = [res EXCEPT ![r] = "gone"]
  /\ Cleanup(r)
  /\ IF r \in Tracked THEN SendCancel(r) ELSE UNCHANGED down
  /\ UNCHANGED <<code, via, connVars, agentVars, up>>

\* promoteToStreaming: pending -> streaming, the timer is cleared.
\* Mutant: the timer is kept.
PromoteKeepingTimer(r) == gw' = [gw EXCEPT ![r] = "streaming"] /\ UNCHANGED timer
Promote(r) == gw' = [gw EXCEPT ![r] = "streaming"] /\ timer' = [timer EXCEPT ![r] = FALSE]

\* handleAgentHttpResponse, by the state of the request the frame names.  The
\* page transformation of a complete response may fail: then 502.  Left out: a
\* writeHead that throws on the head of a stream, which node has parsed before.
OnStreamFrame(r, type) ==
  IF type = "end"
    THEN EndResponse(r) /\ Cleanup(r)
    ELSE res' = [res EXCEPT ![r] = Write(@)] /\ UNCHANGED <<gw, timer, code>>
OnFirstFrame(r, type) ==
  IF type = "head"
    THEN /\ Promote(r)
         /\ res' = [res EXCEPT ![r] = WriteHead(@)]
         /\ code' = [code EXCEPT ![r] = "sse"]
    ELSE /\ Cleanup(r)
         /\ \E c \in {"502"} \cup (IF type = "response" THEN {"ok"} ELSE {}) : Answer(r, c)

\* A frame arrives at the gateway.  Only its requestId counts, not which of the
\* instance's connections it came on; frames of unknown requests are dropped.
GatewayReceives(c) ==
  /\ conn[c] \in {"open", "closing"}
  /\ up[c] # <<>>
  /\ LET f == Head(up[c]) IN
       \/ f.id \in Streaming /\ OnStreamFrame(f.id, f.type)
       \/ f.id \in Pending /\ OnFirstFrame(f.id, f.type)
       \/ f.id \notin Tracked /\ UNCHANGED <<gw, timer, res, code>>
  /\ up' = [up EXCEPT ![c] = Tail(@)]
  /\ UNCHANGED <<via, connVars, agentVars, down>>

-----------------------------------------------------------------------------
\* Mutant: streams are left open.
CancelPendingOnly ==
  /\ res' = [r \in Request |-> IF r \in Pending THEN Finish(WriteHead(res[r])) ELSE res[r]]
  /\ code' = [r \in Request |-> IF r \in Pending THEN "502" ELSE code[r]]
  /\ gw' = [r \in Request |-> IF r \in Pending THEN "closed" ELSE gw[r]]
  /\ timer' = [r \in Request |-> timer[r] /\ r \notin Pending]
\* cancelForInstance: every tracked request of the instance is answered 502 or
\* its stream ended, and forgotten; nobody is told to stop upstream.
Cancelled(r) ==
  IF gw[r] = "pending" /\ ~HeadersSent(r) THEN Finish(WriteHead(res[r]))
  ELSE IF gw[r] = "streaming" /\ res[r] # "ended" THEN Finish(res[r])
  ELSE res[r]
CancelForInstance ==
  /\ res' = [r \in Request |-> IF r \in Tracked THEN Cancelled(r) ELSE res[r]]
  /\ code' = [r \in Request |-> IF r \in Pending THEN "502" ELSE code[r]]
  /\ gw' = [r \in Request |-> IF r \in Tracked THEN "closed" ELSE gw[r]]
  /\ timer' = [r \in Request |-> timer[r] /\ r \notin Tracked]

\* The heartbeat timer gives a connection up.
HeartbeatTimeout(c) ==
  /\ ws = c /\ conn[c] = "open"
  /\ conn' = [conn EXCEPT ![c] = "closing"]
  /\ UNCHANGED <<gatewayVars, ws, agent, agentVars, down, up>>

\* The instance is deleted: its connection is closed and forgotten at once.
Remove(c) ==
  /\ ws = c
  /\ ws' = None
  /\ conn' = [conn EXCEPT ![c] = "closing"]
  /\ UNCHANGED <<gatewayVars, agent, agentVars, down, up>>

\* 'close' on the gateway's end of a connection: the handshake is over, the peer
\* reset it, or ws stopped waiting for the peer.  Both listeners run: tunnel.ts
\* cleans up the instance's requests, registry.ts forgets the socket if current.
CloseEvent(c) ==
  /\ conn[c] \in {"open", "closing"}
  /\ conn' = [conn EXCEPT ![c] = "closed"]
  /\ ws' = IF ws = c THEN None ELSE ws
  /\ CancelForInstance
  /\ down' = [down EXCEPT ![c] = <<>>]
  /\ up' = [up EXCEPT ![c] = <<>>]
  /\ UNCHANGED <<via, agent, agentVars>>

\* The agent (re)connects and registers; an older connection is superseded.
Connect(c) ==
  /\ agent = None /\ conn[c] = "unused"
  /\ HalfOpen \/ \A d \in Conn : conn[d] \in {"unused", "closed"}
  /\ agent' = c
  /\ ws' = c
  /\ conn' = [d \in Conn |-> IF d = c THEN "open"
                             ELSE IF d = ws /\ conn[d] = "open" THEN "closing" ELSE conn[d]]
  /\ UNCHANGED <<gatewayVars, agentVars, down, up>>

-----------------------------------------------------------------------------
\* sendBinary: only on the agent's OPEN connection, else dropped.
SendUp(frames) == up' = IF agent = None THEN up ELSE [up EXCEPT ![agent] = @ \o frames]
Frame(t, r) == [type |-> t, id |-> r]
Room == agent = None \/ Len(up[agent]) < MaxFrames

\* finishRequest: the entry goes and the count with it; nothing if it has gone.
\* Mutant: the count goes down whether or not the entry was there.
FinishTwice(r) == active' = [active EXCEPT ![r] = "none"]
                  /\ count' = IF count > 0 THEN count - 1 ELSE 0
FinishRequest(r) ==
  IF active[r] = "none" THEN UNCHANGED <<active, count>>
  ELSE /\ active' = [active EXCEPT ![r] = "none"]
       /\ count' = IF count > 0 THEN count - 1 ELSE 0

\* What the 'error' listeners of a destroyed request may do on the next tick, its
\* entry being gone: a 502 frame, or the head of a stream not begun yet.  A request
\* without a response always emits 'error'; whether a destroyed response does
\* depends on the version of Node.
LateEvents(r) ==
  IF active[r] = "none" THEN {late[r]}
  ELSE IF active[r] = "waiting" THEN {"response"}
  ELSE {"nothing"} \cup (IF active[r] = "body" THEN {"response"}
                         ELSE IF head[r] THEN {} ELSE {"head"})

\* cancelRequest: destroy both streams, forget the request.
CancelRequest(r) ==
  /\ \E e \in LateEvents(r) : late' = [late EXCEPT ![r] = e]
  /\ FinishRequest(r)

\* handleMessage: a request is forwarded upstream, a cancel is obeyed.
AgentReceives(c) ==
  /\ agent = c /\ down[c] # <<>>
  /\ LET m == Head(down[c]) IN
       IF m.type = "http"
         THEN /\ active' = [active EXCEPT ![m.id] = "waiting"]
              /\ head' = [head EXCEPT ![m.id] = FALSE]
              /\ count' = count + 1
              /\ UNCHANGED late
         ELSE CancelRequest(m.id) /\ UNCHANGED head
  /\ down' = [down EXCEPT ![c] = Tail(@)]
  /\ UNCHANGED <<gatewayVars, connVars, up>>

\* Upstream answers with a status line and headers: a body to buffer, or SSE.
UpstreamHead(r) ==
  /\ active[r] = "waiting"
  /\ \E kind \in {"body", "sse"} : active' = [active EXCEPT ![r] = kind]
  /\ UNCHANGED <<gatewayVars, connVars, head, late, count, down, up>>

\* Mutant: the first chunk goes without the head.
WithoutHead(r, frames) == frames
\* A chunk of a stream: the head goes first, once.
WithHead(r, frames) == IF head[r] THEN frames ELSE <<Frame("head", r)>> \o frames
UpstreamChunk(r) ==
  /\ active[r] = "sse" /\ Room
  /\ SendUp(WithHead(r, <<Frame("data", r)>>))
  /\ head' = [head EXCEPT ![r] = TRUE]
  /\ UNCHANGED <<gatewayVars, connVars, active, late, count, down>>

\* A buffered response is complete, too large, or broken off; upstream refuses
\* the connection: in each case one frame.
UpstreamDone(r) ==
  /\ active[r] \in {"waiting", "body"} /\ Room
  /\ FinishRequest(r)
  /\ SendUp(<<Frame("response", r)>>)
  /\ UNCHANGED <<gatewayVars, connVars, head, late, down>>

\* A stream ends or breaks off: its head if not sent yet, then the empty frame.
StreamDone(r) ==
  /\ active[r] = "sse" /\ Room
  /\ SendUp(WithHead(r, <<Frame("end", r)>>))
  /\ head' = [head EXCEPT ![r] = TRUE]
  /\ FinishRequest(r)
  /\ UNCHANGED <<gatewayVars, connVars, late, down>>

\* The next tick: the 'error' event of a destroyed request.
StreamError(r) ==
  /\ late[r] # "nothing"
  /\ SendUp(<<Frame(late[r], r)>>)
  /\ late' = [late EXCEPT ![r] = "nothing"]
  /\ UNCHANGED <<gatewayVars, connVars, active, head, count, down>>

\* 'close' on the agent's end: cancelAllRequests.  The 'error' events that follow
\* find the connection closed.
AgentDrops ==
  /\ agent # None
  /\ agent' = None
  /\ late' = [r \in Request |-> "nothing"]
  /\ active' = [r \in Request |-> "none"]
  /\ count' = IF count > Cardinality(InFlight) THEN count - Cardinality(InFlight) ELSE 0
  /\ down' = [down EXCEPT ![agent] = <<>>]
  /\ UNCHANGED <<gatewayVars, ws, conn, head, up>>

-----------------------------------------------------------------------------
Next ==
  \/ \E r \in Request :
       \/ \E c \in {"413", "503"} : Refuse(r, c)
       \/ Admit(r) \/ BodyTooLarge(r) \/ BodyRead(r)
       \/ ProxyTimeout(r) \/ BrowserCloses(r)
       \/ UpstreamHead(r) \/ UpstreamChunk(r) \/ UpstreamDone(r) \/ StreamDone(r)
       \/ StreamError(r)
  \/ \E c \in Conn : \/ GatewayReceives(c) \/ HeartbeatTimeout(c) \/ Remove(c) \/ CloseEvent(c)
                     \/ Connect(c) \/ AgentReceives(c)
  \/ AgentDrops

Spec == Init /\ [][Next]_vars

\* Frames on a live connection arrive; timers fire; a closing connection's
\* 'close' comes after at most 30 s; the heartbeat timer finds a connection whose
\* agent has gone; an agent notices that the gateway has dropped its connection.
\* Nothing is assumed of browsers or of the upstream server.
Fairness ==
  /\ \A r \in Request : WF_vars(ProxyTimeout(r)) /\ WF_vars(StreamError(r))
  /\ \A c \in Conn : /\ WF_vars(GatewayReceives(c))
                     /\ WF_vars(AgentReceives(c))
                     /\ WF_vars(agent # c /\ HeartbeatTimeout(c))
                     /\ WF_vars(conn[c] = "closing" /\ CloseEvent(c))
                     /\ WF_vars(agent = c /\ conn[c] = "closed" /\ AgentDrops)
FairSpec == Spec /\ Fairness

-----------------------------------------------------------------------------
\* Every variable has its type.
TypeOK ==
  /\ gw \in [Request -> {"idle", "reading", "pending", "streaming", "closed"}]
  /\ timer \in [Request -> BOOLEAN]
  /\ res \in [Request -> {"fresh", "open", "ended", "gone", "broken"}]
  /\ code \in [Request -> Codes \cup {None}]
  /\ via \in [Request -> Conn \cup {None}]
  /\ ws \in Conn \cup {None}
  /\ conn \in [Conn -> {"unused", "open", "closing", "closed"}]
  /\ agent \in Conn \cup {None}
  /\ active \in [Request -> {"none", "waiting", "body", "sse"}]
  /\ head \in [Request -> BOOLEAN]
  /\ late \in [Request -> {"nothing", "response", "head"}]
  /\ count \in Nat
  /\ down \in [Conn -> Seq(Down)]
  /\ up \in [Conn -> Seq(Up)]

\* No handler writes a second status line, writes before one, or writes after the
\* end, in whatever order frames, timeouts, browser closes and disconnects come;
\* each of these would throw in the middle of a handler.
ResponseUnbroken == \A r \in Request : res[r] # "broken"

\* The timer of a request runs exactly while it is pending: a stream that has
\* started is never terminated with a 504 (promoteToStreaming), a request
\* forgotten by any path leaves no timer behind, and a pending one always has one.
TimerIsPending == \A r \in Request : timer[r] <=> gw[r] = "pending"

\* What is tracked can still be answered: a pending request has had no status
\* line, a streaming one has had its own and has not ended.
TrackedIsOpen ==
  \A r \in Request : /\ gw[r] \in {"reading", "pending"} => res[r] = "fresh"
                     /\ gw[r] = "streaming" => res[r] = "open" /\ code[r] = "sse"

\* activeRequestCount, which the dashboard shows as "active proxies", is the number
\* of requests the agent has upstream, however finish, cancel, late errors and
\* disconnects are ordered: it is never decremented twice, never drifts.
CountMatches == count = Cardinality(InFlight)

CancelOnItsWay(r) == \E k \in DOMAIN down[ws] : down[ws][k] = [type |-> "cancel", id |-> r]

\* request_cancel "ensures upstream SSE connections are released promptly"
\* (docs/adr/0003): on a connection open at both ends the agent has no request
\* upstream that the gateway has forgotten, unless a cancel is on its way.
NoOrphan ==
  \A r \in Request :
    active[r] # "none" /\ Sendable /\ agent = ws => r \in Tracked \/ CancelOnItsWay(r)

\* The agent's frames begin with a head: whatever is lost or cancelled, a chunk or
\* an end of stream never reaches a request that is still waiting for its first
\* frame (the gateway would answer 502 "invalid agent response").
StreamsBeginWithHead ==
  \A c \in Conn : \A k \in DOMAIN up[c] :
    LET f == up[c][k] IN
      f.id \in Pending /\ f.type \in {"data", "end"} =>
        \E j \in 1 .. k - 1 : up[c][j] = Frame("head", f.id)

\* The browser sees what HttpExchange promises.
PhaseOf(where, response, status) ==
  CASE response = "gone" -> "gone"
    [] response = "open" -> "streaming"
    [] response = "ended" -> IF status = "sse" THEN "over" ELSE "answered"
    [] response = "broken" -> "broken"
    [] OTHER -> IF where = "idle" THEN "idle"
                ELSE IF where = "pending" THEN "sent" ELSE "asked"
Phase(r) == PhaseOf(gw[r], res[r], code[r])
Exchange == INSTANCE HttpExchange WITH phase <- [r \in Request |-> Phase(r)]
ExchangeSpec == Exchange!Spec

\* The connections are such as GatewayEnd allows.
LinkOf(c) == IF conn[c] \in {"open", "closing"} THEN conn[c] ELSE "none"
Gateway == INSTANCE GatewayEnd WITH current <- ws, shown <- Sendable,
                                    link <- [c \in Conn |-> LinkOf(c)]
GatewaySpec == Gateway!Spec

\* A request that was sent to the agent is answered, or its browser leaves:
\* neither a silent upstream nor a lost connection leaves it hanging.
Answered == \A r \in Request : gw[r] = "pending" ~> gw[r] # "pending"

\* A stream whose connection the agent has lost ends at the browser, so that an
\* EventSource can reconnect.
StreamsReleased ==
  \A r \in Request : (gw[r] = "streaming" /\ via[r] # agent) ~> gw[r] = "closed"

\* A request the gateway has done with does not stay open upstream.
UpstreamReleased ==
  \A r \in Request : (active[r] # "none" /\ gw[r] = "closed") ~> active[r] = "none"

\* router.ts: "Clean up all pending/streaming HTTP requests for a disconnected
\* agent."  A connection's 'close' should not end requests that travel on another
\* connection, open at both ends.
OnlyDisconnectedCleaned ==
  [][\A c \in Conn, r \in Request :
       CloseEvent(c) /\ c # ws /\ r \in Tracked =>
         ~(Sendable /\ agent = ws /\ via[r] = ws)]_vars

=============================================================================
