------------------------- MODULE ProxyRequestsProofs -------------------------
(***************************************************************************)
(* What ProxyRequests keeps true for every set of requests and connections  *)
(* and every limit: its types, the order in which a response is written,    *)
(* the agent's count of active requests, that it implements HttpExchange,   *)
(* that streams begin with their head and that no request is left upstream. *)
(***************************************************************************)
EXTENDS ProxyRequests, FiniteSetTheorems, SequenceTheorems, TLAPS

USE DEF vars, gatewayVars, agentVars, connVars

Results == {"fresh", "open", "ended", "gone", "broken"}

\* The three calls on a response lead from one of its states to another.
LEMMA ResponseTypes ==
  ASSUME NEW x \in Results
  PROVE  /\ WriteHead(x) \in Results
         /\ Write(x) \in Results
         /\ Finish(x) \in Results
         /\ Finish(WriteHead(x)) \in Results
BY DEF Results, WriteHead, Write, Finish

\* So do the two ways of ending a response.
LEMMA AnswerTypes ==
  ASSUME TypeOK, NEW r \in Request, NEW c \in Codes, Answer(r, c)
  PROVE  res' \in [Request -> Results] /\ code' \in [Request -> Codes \cup {None}]
<1>1. res[r] \in Results
  BY DEF TypeOK, Results
<1>2. Finish(WriteHead(res[r])) \in Results
  BY <1>1, ResponseTypes
<1>3. res \in [Request -> Results]
  BY DEF TypeOK, Results
<1> QED BY <1>2, <1>3 DEF TypeOK, Answer

LEMMA EndTypes ==
  ASSUME TypeOK, NEW r \in Request, EndResponse(r)
  PROVE  res' \in [Request -> Results] /\ code' \in [Request -> Codes \cup {None}]
<1>1. res[r] \in Results
  BY DEF TypeOK, Results
<1>2. Finish(res[r]) \in Results
  BY <1>1, ResponseTypes
<1>3. res \in [Request -> Results]
  BY DEF TypeOK, Results
<1> QED BY <1>2, <1>3 DEF TypeOK, EndResponse

\* What is sent to the agent, or dropped, leaves well-typed queues.
LEMMA SendDownTypes ==
  ASSUME TypeOK, NEW m \in Down, SendDown(m)
  PROVE  down' \in [Conn -> Seq(Down)]
<1>1. CASE Sendable
  <2>1. ws \in Conn
    BY <1>1 DEF TypeOK, Sendable
  <2>2. Append(down[ws], m) \in Seq(Down)
    BY <2>1 DEF TypeOK
  <2> QED BY <1>1, <2>2 DEF TypeOK, SendDown
<1>2. CASE ~Sendable
  BY <1>2 DEF TypeOK, SendDown
<1> QED BY <1>1, <1>2

LEMMA SendCancelTypes ==
  ASSUME TypeOK, NEW r \in Request, SendCancel(r)
  PROVE  down' \in [Conn -> Seq(Down)]
<1>1. [type |-> "cancel", id |-> r] \in Down
  BY DEF Down
<1> QED BY <1>1, SendDownTypes DEF SendCancel

\* What the agent sends, or drops, leaves well-typed queues.
LEMMA SendUpTypes ==
  ASSUME TypeOK, NEW frames \in Seq(Up), SendUp(frames)
  PROVE  up' \in [Conn -> Seq(Up)]
<1>1. CASE agent = None
  BY <1>1 DEF TypeOK, SendUp
<1>2. CASE agent # None
  <2>1. agent \in Conn
    BY <1>2 DEF TypeOK
  <2>2. up[agent] \o frames \in Seq(Up)
    BY <2>1 DEF TypeOK
  <2> QED BY <1>2, <2>2 DEF TypeOK, SendUp
<1> QED BY <1>1, <1>2

\* A frame, alone or behind the head of its stream, is a sequence of frames.
LEMMA FrameTypes ==
  ASSUME NEW t \in {"response", "head", "data", "end"}, NEW r \in Request
  PROVE  /\ <<Frame(t, r)>> \in Seq(Up)
         /\ WithHead(r, <<Frame(t, r)>>) \in Seq(Up)
<1>1. Frame(t, r) \in Up /\ Frame("head", r) \in Up
  BY DEF Frame, Up
<1>2. <<Frame(t, r)>> \in Seq(Up) /\ <<Frame("head", r)>> \in Seq(Up)
  BY <1>1
<1>3. <<Frame("head", r)>> \o <<Frame(t, r)>> \in Seq(Up)
  BY <1>2
<1> QED BY <1>2, <1>3 DEF WithHead

LEMMA CountTypes ==
  ASSUME TypeOK, NEW r \in Request, FinishRequest(r)
  PROVE  /\ active' \in [Request -> {"none", "waiting", "body", "sse"}]
         /\ count' \in Nat
<1>1. CASE active[r] = "none"
  BY <1>1 DEF TypeOK, FinishRequest
<1>2. CASE active[r] # "none"
  <2>1. active' = [active EXCEPT ![r] = "none"]
    BY <1>2 DEF FinishRequest
  <2>2. count' = IF count > 0 THEN count - 1 ELSE 0
    BY <1>2 DEF FinishRequest
  <2>3. count \in Nat
    BY DEF TypeOK
  <2>4. count' \in Nat
    BY <2>2, <2>3
  <2> QED BY <2>1, <2>4 DEF TypeOK
<1> QED BY <1>1, <1>2

\* How many requests the agent has upstream is a number.
LEMMA InFlightFinite == IsFiniteSet(InFlight) /\ Cardinality(InFlight) \in Nat
<1>1. InFlight \subseteq Request
  BY DEF InFlight
<1> QED BY <1>1, FiniteRequests, FS_Subset, FS_CardinalityType

LEMMA TypeStep ==
  ASSUME TypeOK, [Next]_vars
  PROVE  TypeOK'
<1>1. CASE UNCHANGED vars
  BY <1>1 DEF TypeOK
<1>2. ASSUME NEW r \in Request, NEW c \in {"413", "503"}, Refuse(r, c)
      PROVE  TypeOK'
  <2>1. c \in Codes /\ Answer(r, c)
    BY <1>2 DEF Refuse, Codes
  <2> QED BY <1>2, <2>1, AnswerTypes DEF TypeOK, Refuse, Results
<1>3. ASSUME NEW r \in Request, Admit(r)
      PROVE  TypeOK'
  BY <1>3 DEF TypeOK, Admit
<1>4. ASSUME NEW r \in Request, BodyTooLarge(r)
      PROVE  TypeOK'
  <2>1. "413" \in Codes /\ Answer(r, "413")
    BY <1>4 DEF BodyTooLarge, Codes
  <2> QED BY <1>4, <2>1, AnswerTypes DEF TypeOK, BodyTooLarge, Results
<1>5. ASSUME NEW r \in Request, BodyRead(r)
      PROVE  TypeOK'
  <2>1. [type |-> "http", id |-> r] \in Down
    BY DEF Down
  <2>2. down' \in [Conn -> Seq(Down)]
    BY <1>5, <2>1, SendDownTypes DEF BodyRead
  <2>3. CASE Sendable
    BY <1>5, <2>2, <2>3 DEF TypeOK, BodyRead, Sendable
  <2>4. CASE ~Sendable
    <3>1. "503" \in Codes /\ Answer(r, "503")
      BY <1>5, <2>4 DEF BodyRead, Codes
    <3> QED BY <1>5, <2>2, <2>4, <3>1, AnswerTypes, ZenonT(40) DEF TypeOK, BodyRead, Cleanup, Results
  <2> QED BY <2>3, <2>4
<1>6. ASSUME NEW r \in Request, ProxyTimeout(r)
      PROVE  TypeOK'
  <2>1. CASE gw[r] = "pending"
    <3>1. down' \in [Conn -> Seq(Down)]
      BY <1>6, <2>1, SendCancelTypes DEF ProxyTimeout
    <3>2. res' \in [Request -> Results] /\ code' \in [Request -> Codes \cup {None}]
      <4>1. CASE HeadersSent(r)
        BY <1>6, <2>1, <4>1 DEF TypeOK, ProxyTimeout, Results
      <4>2. CASE ~HeadersSent(r)
        <5>1. "504" \in Codes /\ Answer(r, "504")
          BY <1>6, <2>1, <4>2 DEF ProxyTimeout, Codes
        <5> QED BY <5>1, AnswerTypes
      <4> QED BY <4>1, <4>2
    <3> QED BY <1>6, <2>1, <3>1, <3>2, ZenonT(40) DEF TypeOK, ProxyTimeout, Cleanup, Results
  <2>2. CASE gw[r] # "pending"
    BY <1>6, <2>2 DEF TypeOK, ProxyTimeout
  <2> QED BY <2>1, <2>2
<1>7. ASSUME NEW r \in Request, BrowserCloses(r)
      PROVE  TypeOK'
  <2>1. down' \in [Conn -> Seq(Down)]
    BY <1>7, SendCancelTypes DEF TypeOK, BrowserCloses
  <2> QED BY <1>7, <2>1 DEF TypeOK, BrowserCloses, Cleanup
<1>8. ASSUME NEW r \in Request, UpstreamHead(r)
      PROVE  TypeOK'
  BY <1>8 DEF TypeOK, UpstreamHead
<1>9. ASSUME NEW r \in Request, UpstreamChunk(r)
      PROVE  TypeOK'
  <2>1. up' \in [Conn -> Seq(Up)]
    BY <1>9, FrameTypes, SendUpTypes DEF UpstreamChunk
  <2> QED BY <1>9, <2>1 DEF TypeOK, UpstreamChunk
<1>10. ASSUME NEW r \in Request, UpstreamDone(r)
       PROVE  TypeOK'
  <2>1. up' \in [Conn -> Seq(Up)]
    BY <1>10, FrameTypes, SendUpTypes DEF UpstreamDone
  <2> QED BY <1>10, <2>1, CountTypes DEF TypeOK, UpstreamDone
<1>11. ASSUME NEW r \in Request, StreamDone(r)
       PROVE  TypeOK'
  <2>1. up' \in [Conn -> Seq(Up)]
    BY <1>11, FrameTypes, SendUpTypes DEF StreamDone
  <2> QED BY <1>11, <2>1, CountTypes DEF TypeOK, StreamDone
<1>12. ASSUME NEW r \in Request, StreamError(r)
       PROVE  TypeOK'
  <2>1. late[r] \in {"response", "head"}
    BY <1>12 DEF TypeOK, StreamError
  <2>2. up' \in [Conn -> Seq(Up)]
    BY <1>12, <2>1, FrameTypes, SendUpTypes DEF StreamError
  <2> QED BY <1>12, <2>2 DEF TypeOK, StreamError
<1>13. ASSUME NEW c \in Conn, GatewayReceives(c)
       PROVE  TypeOK'
  <2>1. up[c] \in Seq(Up) /\ up[c] # <<>>
    BY <1>13 DEF TypeOK, GatewayReceives
  <2>2. Head(up[c]) \in Up /\ Tail(up[c]) \in Seq(Up)
    BY <2>1
  <2>3. up' \in [Conn -> Seq(Up)]
    BY <1>13, <2>2 DEF TypeOK, GatewayReceives
  <2> DEFINE r == Head(up[c]).id
             t == Head(up[c]).type
  <2>4. r \in Request
    BY <2>2 DEF Up
  <2> HIDE DEF r, t
  <2>5. CASE OnStreamFrame(r, t)
    <3>1. CASE t = "end"
      <4>1. EndResponse(r) /\ Cleanup(r)
        BY <2>5, <3>1 DEF OnStreamFrame
      <4> QED BY <1>13, <2>3, <2>4, <4>1, EndTypes DEF TypeOK, GatewayReceives, Cleanup, Results
    <3>2. CASE t # "end"
      <4>1. res' = [res EXCEPT ![r] = Write(res[r])] /\ UNCHANGED <<gw, timer, code>>
        BY <2>5, <3>2 DEF OnStreamFrame
      <4>2. Write(res[r]) \in Results
        BY <2>4, ResponseTypes, ZenonT(40) DEF TypeOK, Results
      <4> QED BY <1>13, <2>3, <2>4, <4>1, <4>2 DEF TypeOK, GatewayReceives, Results
    <3> QED BY <3>1, <3>2
  <2>6. CASE OnFirstFrame(r, t)
    <3>1. CASE t = "head"
      <4>1. /\ Promote(r)
            /\ res' = [res EXCEPT ![r] = WriteHead(res[r])]
            /\ code' = [code EXCEPT ![r] = "sse"]
        BY <2>6, <3>1 DEF OnFirstFrame
      <4>2. WriteHead(res[r]) \in Results
        BY <2>4, ResponseTypes, ZenonT(40) DEF TypeOK, Results
      <4> QED BY <1>13, <2>3, <2>4, <4>1, <4>2
           DEF TypeOK, GatewayReceives, Promote, Codes, Results
    <3>2. CASE t # "head"
      <4>1. PICK c0 \in {"ok", "502"} : Answer(r, c0)
        BY <2>6, <3>2 DEF OnFirstFrame
      <4>2. Cleanup(r)
        BY <2>6, <3>2 DEF OnFirstFrame
      <4>3. c0 \in Codes
        BY <4>1 DEF Codes
      <4> QED BY <1>13, <2>3, <2>4, <4>1, <4>2, <4>3, AnswerTypes
           DEF TypeOK, GatewayReceives, Cleanup, Results
    <3> QED BY <3>1, <3>2
  <2>7. CASE UNCHANGED <<gw, timer, res, code>>
    BY <1>13, <2>3, <2>7 DEF TypeOK, GatewayReceives
  <2> QED BY <1>13, <2>5, <2>6, <2>7 DEF GatewayReceives, r, t
<1>14. ASSUME NEW c \in Conn, HeartbeatTimeout(c) \/ Remove(c)
       PROVE  TypeOK'
  BY <1>14 DEF TypeOK, HeartbeatTimeout, Remove
<1>15. ASSUME NEW c \in Conn, CloseEvent(c)
       PROVE  TypeOK'
  <2>1. \A r \in Request : res[r] \in Results /\ Cancelled(r) \in Results
    BY ResponseTypes DEF TypeOK, Cancelled, Results
  <2>2. res' \in [Request -> Results]
    BY <1>15, <2>1 DEF CloseEvent, CancelForInstance
  <2>5. code' \in [Request -> Codes \cup {None}]
    BY <1>15 DEF TypeOK, CloseEvent, CancelForInstance, Codes
  <2>3. gw' \in [Request -> {"idle", "reading", "pending", "streaming", "closed"}]
        /\ timer' \in [Request -> BOOLEAN]
    BY <1>15 DEF TypeOK, CloseEvent, CancelForInstance
  <2>4. down' \in [Conn -> Seq(Down)] /\ up' \in [Conn -> Seq(Up)]
    BY <1>15 DEF TypeOK, CloseEvent
  <2> QED BY <1>15, <2>2, <2>5, <2>3, <2>4 DEF TypeOK, CloseEvent, Results
<1>16. ASSUME NEW c \in Conn, Connect(c)
       PROVE  TypeOK'
  BY <1>16 DEF TypeOK, Connect
<1>17. ASSUME NEW c \in Conn, AgentReceives(c)
       PROVE  TypeOK'
  <2>1. down[c] \in Seq(Down) /\ down[c] # <<>>
    BY <1>17 DEF TypeOK, AgentReceives
  <2>2. Head(down[c]) \in Down /\ Tail(down[c]) \in Seq(Down)
    BY <2>1
  <2>3. down' \in [Conn -> Seq(Down)]
    BY <1>17, <2>2 DEF TypeOK, AgentReceives
  <2> DEFINE m == Head(down[c])
  <2>4. m.id \in Request
    BY <2>2 DEF Down
  <2>5. CASE m.type = "http"
    <3>1. /\ active' = [active EXCEPT ![m.id] = "waiting"]
          /\ head' = [head EXCEPT ![m.id] = FALSE]
          /\ count' = count + 1
          /\ UNCHANGED late
      BY <1>17, <2>5 DEF AgentReceives
    <3> QED BY <1>17, <2>3, <2>4, <3>1 DEF TypeOK, AgentReceives
  <2>6. CASE m.type # "http"
    <3>1. CancelRequest(m.id) /\ UNCHANGED head
      BY <1>17, <2>6 DEF AgentReceives
    <3>2. late' \in [Request -> {"nothing", "response", "head"}]
      BY <2>4, <3>1 DEF TypeOK, CancelRequest, LateEvents
    <3>3. /\ active' \in [Request -> {"none", "waiting", "body", "sse"}]
          /\ count' \in Nat
      BY <2>4, <3>1, CountTypes DEF CancelRequest
    <3> QED BY <1>17, <2>3, <3>1, <3>2, <3>3 DEF TypeOK, AgentReceives
  <2> QED BY <2>5, <2>6
<1>18. CASE AgentDrops
  <2>1. count' \in Nat
    BY <1>18, InFlightFinite DEF TypeOK, AgentDrops
  <2>2. down' \in [Conn -> Seq(Down)]
    BY <1>18 DEF TypeOK, AgentDrops
  <2> QED BY <1>18, <2>1, <2>2 DEF TypeOK, AgentDrops
<1> QED
  BY <1>1, <1>2, <1>3, <1>4, <1>5, <1>6, <1>7, <1>8, <1>9, <1>10, <1>11, <1>12, <1>13,
     <1>14, <1>15, <1>16, <1>17, <1>18 DEF Next

\* Every variable keeps its type.
THEOREM TypeCorrect == Spec => []TypeOK
<1>1. Init => TypeOK
  BY DEF Init, TypeOK
<1> QED BY <1>1, TypeStep, PTL DEF Spec

-----------------------------------------------------------------------------
\* Where the gateway has a request tells what its response can still take.
Consistent(r) ==
  /\ timer[r] <=> gw[r] = "pending"
  /\ gw[r] \in {"idle", "reading", "pending"} => res[r] = "fresh"
  /\ gw[r] = "streaming" => res[r] = "open" /\ code[r] = "sse"
  /\ gw[r] = "closed" => res[r] \in {"ended", "gone"}
ResponseInv == \A r \in Request : Consistent(r)

\* Every way in which one step may move one request.
Became(r, where, state) ==
  /\ gw'[r] = where /\ res'[r] = state
  /\ timer'[r] = (where = "pending")
Moves(r) ==
  \/ gw'[r] = gw[r] /\ res'[r] = res[r] /\ timer'[r] = timer[r] /\ code'[r] = code[r]
  \/ gw[r] = "idle" /\ Became(r, "reading", "fresh") /\ code'[r] = code[r]
  \/ gw[r] \in {"idle", "reading"} /\ Became(r, "closed", "ended") /\ code'[r] \in {"413", "503"}
  \/ gw[r] = "reading" /\ Became(r, "pending", "fresh") /\ code'[r] = code[r]
  \/ gw[r] = "pending" /\ Became(r, "closed", "ended") /\ code'[r] \in {"ok", "502", "504"}
  \/ gw[r] = "pending" /\ Became(r, "streaming", "open") /\ code'[r] = "sse"
  \/ gw[r] = "streaming" /\ Became(r, "closed", "ended") /\ code'[r] = code[r]
  \/ gw[r] \in {"reading", "pending", "streaming"} /\ Became(r, "closed", "gone")
     /\ code'[r] = code[r]

\* A fresh response takes a whole answer or a head, an open one chunks and an end.
LEMMA InOrder ==
  /\ Finish(WriteHead("fresh")) = "ended"
  /\ WriteHead("fresh") = "open"
  /\ Write("open") = "open"
  /\ Finish("open") = "ended"
BY DEF WriteHead, Write, Finish

\* A step that leaves the gateway's variables alone moves nothing.
LEMMA Untouched ==
  ASSUME UNCHANGED <<gw, timer, res, code>>, NEW r \in Request
  PROVE  Moves(r)
BY DEF Moves

\* In consistent states each step moves each request in one of those ways.
LEMMA LocalStep ==
  ASSUME TypeOK, ResponseInv, [Next]_vars, NEW q \in Request
  PROVE  Moves(q)
<1>0. \A r \in Request : Consistent(r)
  BY DEF ResponseInv
<1> USE DEF Became
<1>1. CASE UNCHANGED vars
  BY <1>1, Untouched
<1>2. ASSUME NEW r \in Request, NEW c \in {"413", "503"}, Refuse(r, c)
      PROVE  Moves(q)
  <2>1. res[r] = "fresh" /\ ~timer[r]
    BY <1>0, <1>2 DEF Refuse, Consistent
  <2> QED BY <1>2, <2>1, InOrder DEF TypeOK, Refuse, Answer, Moves
<1>3. ASSUME NEW r \in Request, Admit(r)
      PROVE  Moves(q)
  <2>1. res[r] = "fresh" /\ ~timer[r]
    BY <1>0, <1>3 DEF Admit, Consistent
  <2> QED BY <1>3, <2>1 DEF TypeOK, Admit, Moves
<1>4. ASSUME NEW r \in Request, BodyTooLarge(r)
      PROVE  Moves(q)
  <2>1. res[r] = "fresh" /\ ~timer[r]
    BY <1>0, <1>4 DEF BodyTooLarge, Consistent
  <2> QED BY <1>4, <2>1, InOrder DEF TypeOK, BodyTooLarge, Answer, Moves
<1>5. ASSUME NEW r \in Request, BodyRead(r)
      PROVE  Moves(q)
  <2>1. gw[r] = "reading" /\ res[r] = "fresh"
    BY <1>0, <1>5 DEF BodyRead, Consistent
  <2>2. CASE Sendable
    BY <1>5, <2>1, <2>2 DEF TypeOK, BodyRead, Moves
  <2>3. CASE ~Sendable
    <3>1. Cleanup(r) /\ Answer(r, "503")
      BY <1>5, <2>3 DEF BodyRead
    <3> QED BY <2>1, <3>1, InOrder DEF TypeOK, Cleanup, Answer, Moves
  <2> QED BY <2>2, <2>3
<1>6. ASSUME NEW r \in Request, ProxyTimeout(r)
      PROVE  Moves(q)
  <2>1. gw[r] = "pending" /\ res[r] = "fresh" /\ ~HeadersSent(r)
    BY <1>0, <1>6 DEF ProxyTimeout, Consistent, HeadersSent
  <2>2. Cleanup(r) /\ Answer(r, "504")
    BY <1>6, <2>1 DEF ProxyTimeout
  <2> QED BY <2>1, <2>2, InOrder DEF TypeOK, Cleanup, Answer, Moves
<1>7. ASSUME NEW r \in Request, BrowserCloses(r)
      PROVE  Moves(q)
  BY <1>7 DEF TypeOK, BrowserCloses, Cleanup, Moves
<1>8. ASSUME NEW r \in Request,
             UpstreamHead(r) \/ UpstreamChunk(r) \/ UpstreamDone(r) \/ StreamDone(r)
               \/ StreamError(r)
      PROVE  Moves(q)
  BY <1>8, Untouched DEF UpstreamHead, UpstreamChunk, UpstreamDone, StreamDone, StreamError
<1>9. ASSUME NEW c \in Conn, GatewayReceives(c)
      PROVE  Moves(q)
  <2> DEFINE r == Head(up[c]).id
             t == Head(up[c]).type
  <2>1. \/ r \in Streaming /\ OnStreamFrame(r, t)
        \/ r \in Pending /\ OnFirstFrame(r, t)
        \/ UNCHANGED <<gw, timer, res, code>>
    BY <1>9 DEF GatewayReceives
  <2> HIDE DEF r, t
  <2>2. CASE r \in Streaming /\ OnStreamFrame(r, t)
    <3>1. r \in Request /\ gw[r] = "streaming" /\ res[r] = "open" /\ ~timer[r]
      BY <1>0, <2>2 DEF Streaming, Consistent
    <3>2. CASE t = "end"
      <4>1. EndResponse(r) /\ Cleanup(r)
        BY <2>2, <3>2 DEF OnStreamFrame
      <4> QED BY <3>1, <4>1, InOrder DEF TypeOK, EndResponse, Cleanup, Moves
    <3>3. CASE t # "end"
      <4>1. res' = [res EXCEPT ![r] = Write(res[r])] /\ UNCHANGED <<gw, timer, code>>
        BY <2>2, <3>3 DEF OnStreamFrame
      <4> QED BY <3>1, <4>1, InOrder DEF TypeOK, Moves
    <3> QED BY <3>2, <3>3
  <2>3. CASE r \in Pending /\ OnFirstFrame(r, t)
    <3>1. r \in Request /\ gw[r] = "pending" /\ res[r] = "fresh"
      BY <1>0, <2>3 DEF Pending, Consistent
    <3>2. CASE t = "head"
      <4>1. /\ Promote(r)
            /\ res' = [res EXCEPT ![r] = WriteHead(res[r])]
            /\ code' = [code EXCEPT ![r] = "sse"]
        BY <2>3, <3>2 DEF OnFirstFrame
      <4> QED BY <3>1, <4>1, InOrder DEF TypeOK, Promote, Moves
    <3>3. CASE t # "head"
      <4>1. PICK c0 \in {"ok", "502"} : Answer(r, c0)
        BY <2>3, <3>3 DEF OnFirstFrame
      <4>2. Cleanup(r)
        BY <2>3, <3>3 DEF OnFirstFrame
      <4> QED BY <3>1, <4>1, <4>2, InOrder DEF TypeOK, Cleanup, Answer, Moves
    <3> QED BY <3>2, <3>3
  <2> QED BY <2>1, <2>2, <2>3, Untouched
<1>10. ASSUME NEW c \in Conn, CloseEvent(c)
       PROVE  Moves(q)
  <2>1. CancelForInstance
    BY <1>10 DEF CloseEvent
  <2>2. CASE gw[q] = "pending"
    <3>1. res[q] = "fresh" /\ ~HeadersSent(q)
      BY <1>0, <2>2 DEF Consistent, HeadersSent
    <3>2. Cancelled(q) = "ended"
      BY <2>2, <3>1, InOrder DEF Cancelled
    <3> QED BY <2>1, <2>2, <3>2 DEF CancelForInstance, Tracked, Pending, Moves
  <2>3. CASE gw[q] = "streaming"
    <3>1. res[q] = "open"
      BY <1>0, <2>3 DEF Consistent
    <3>2. Cancelled(q) = "ended"
      BY <2>3, <3>1, InOrder DEF Cancelled
    <3> QED BY <2>1, <2>3, <3>2 DEF CancelForInstance, Tracked, Pending, Streaming, Moves
  <2>4. CASE gw[q] \notin {"pending", "streaming"}
    BY <2>1, <2>4 DEF TypeOK, CancelForInstance, Tracked, Pending, Streaming, Moves
  <2> QED BY <2>2, <2>3, <2>4
<1>11. ASSUME NEW c \in Conn,
              HeartbeatTimeout(c) \/ Remove(c) \/ Connect(c) \/ AgentReceives(c)
       PROVE  Moves(q)
  BY <1>11, Untouched DEF HeartbeatTimeout, Remove, Connect, AgentReceives
<1>12. CASE AgentDrops
  BY <1>12, Untouched DEF AgentDrops
<1> QED
  BY <1>1, <1>2, <1>3, <1>4, <1>5, <1>6, <1>7, <1>8, <1>9, <1>10, <1>11, <1>12 DEF Next

\* The invariant behind the three theorems that follow.
THEOREM ResponsesConsistent == Spec => []ResponseInv
<1>1. Init => ResponseInv
  BY DEF Init, ResponseInv, Consistent
<1>2. TypeOK /\ ResponseInv /\ [Next]_vars => ResponseInv'
  <2> SUFFICES ASSUME TypeOK, ResponseInv, [Next]_vars, NEW r \in Request
               PROVE  Consistent(r)'
    BY DEF ResponseInv
  <2>1. Consistent(r) /\ Moves(r)
    BY LocalStep DEF ResponseInv
  <2> QED BY <2>1 DEF Consistent, Moves, Became
<1> QED BY <1>1, <1>2, TypeCorrect, PTL DEF Spec

\* No handler writes to a response out of order.
THEOREM ResponsesSafe == Spec => []ResponseUnbroken
<1>1. TypeOK /\ ResponseInv => ResponseUnbroken
  BY DEF TypeOK, ResponseInv, Consistent, ResponseUnbroken
<1> QED BY <1>1, TypeCorrect, ResponsesConsistent, PTL

\* A request has a timer exactly while it is pending.
THEOREM TimersSafe == Spec => []TimerIsPending
<1>1. ResponseInv => TimerIsPending
  BY DEF ResponseInv, Consistent, TimerIsPending
<1> QED BY <1>1, ResponsesConsistent, PTL

\* What the gateway tracks can still be answered.
THEOREM TrackedSafe == Spec => []TrackedIsOpen
<1>1. ResponseInv => TrackedIsOpen
  BY DEF ResponseInv, Consistent, TrackedIsOpen
<1> QED BY <1>1, ResponsesConsistent, PTL

-----------------------------------------------------------------------------
\* The phase HttpExchange sees, by what the gateway knows.
LEMMA Phases ==
  ASSUME NEW status
  PROVE  /\ PhaseOf("idle", "fresh", status) = "idle"
         /\ PhaseOf("reading", "fresh", status) = "asked"
         /\ PhaseOf("pending", "fresh", status) = "sent"
         /\ PhaseOf("streaming", "open", status) = "streaming"
         /\ PhaseOf("closed", "gone", status) = "gone"
         /\ status = "sse" => PhaseOf("closed", "ended", status) = "over"
         /\ status # "sse" => PhaseOf("closed", "ended", status) = "answered"
BY DEF PhaseOf

\* Every way a request moves is a step of HttpExchange.
LEMMA MoveIsStep ==
  ASSUME NEW r \in Request, Consistent(r), Moves(r), NEW p, NEW q,
         p = PhaseOf(gw[r], res[r], code[r]), q = PhaseOf(gw'[r], res'[r], code'[r])
  PROVE  \/ q = p /\ code'[r] = code[r]
         \/ p = "idle" /\ q = "asked" /\ code'[r] = code[r]
         \/ p = "asked" /\ q = "sent" /\ code'[r] = code[r]
         \/ /\ p \in {"idle", "asked"} /\ q = "answered" /\ code'[r] \in {"413", "503"}
         \/ p = "sent" /\ q = "answered" /\ code'[r] \in {"ok", "502", "504"}
         \/ p = "sent" /\ q = "streaming" /\ code'[r] = "sse"
         \/ p = "streaming" /\ q = "over" /\ code'[r] = code[r]
         \/ p \in {"asked", "sent", "streaming"} /\ q = "gone" /\ code'[r] = code[r]
<1>1. CASE gw'[r] = gw[r] /\ res'[r] = res[r] /\ timer'[r] = timer[r] /\ code'[r] = code[r]
  BY <1>1
<1>2. CASE gw[r] = "idle" /\ Became(r, "reading", "fresh") /\ code'[r] = code[r]
  BY <1>2, Phases DEF Consistent, Became
<1>3. CASE /\ gw[r] \in {"idle", "reading"} /\ Became(r, "closed", "ended")
           /\ code'[r] \in {"413", "503"}
  BY <1>3, Phases DEF Consistent, Became
<1>4. CASE gw[r] = "reading" /\ Became(r, "pending", "fresh") /\ code'[r] = code[r]
  BY <1>4, Phases DEF Consistent, Became
<1>5. CASE /\ gw[r] = "pending" /\ Became(r, "closed", "ended")
           /\ code'[r] \in {"ok", "502", "504"}
  BY <1>5, Phases DEF Consistent, Became
<1>6. CASE gw[r] = "pending" /\ Became(r, "streaming", "open") /\ code'[r] = "sse"
  BY <1>6, Phases DEF Consistent, Became
<1>7. CASE gw[r] = "streaming" /\ Became(r, "closed", "ended") /\ code'[r] = code[r]
  BY <1>7, Phases DEF Consistent, Became
<1>8. CASE /\ gw[r] \in {"reading", "pending", "streaming"} /\ Became(r, "closed", "gone")
           /\ code'[r] = code[r]
  BY <1>8, Phases DEF Consistent, Became
<1> QED BY <1>1, <1>2, <1>3, <1>4, <1>5, <1>6, <1>7, <1>8 DEF Moves

\* The end-to-end behaviour of the gateway implements what HttpExchange promises.
THEOREM Implements == Spec => ExchangeSpec
<1>1. Init => Exchange!Init
  <2> SUFFICES ASSUME Init PROVE Exchange!Init
    OBVIOUS
  <2>1. \A r \in Request : Phase(r) = "idle"
    BY Phases DEF Init, Phase
  <2> QED BY <2>1 DEF Init, Exchange!Init
<1>2. TypeOK /\ ResponseInv /\ [Next]_vars => [Exchange!Next]_(Exchange!vars)
  <2> SUFFICES ASSUME TypeOK, ResponseInv, [Next]_vars, NEW r \in Request
               PROVE  Exchange!Step(r)
    BY DEF Exchange!Next
  <2> DEFINE p == PhaseOf(gw[r], res[r], code[r])
             q == PhaseOf(gw'[r], res'[r], code'[r])
  <2>1. Consistent(r) /\ Moves(r)
    BY LocalStep DEF ResponseInv
  <2>2. /\ [x \in Request |-> Phase(x)][r] = p
        /\ [x \in Request |-> Phase(x)]'[r] = q
    BY DEF Phase
  <2> HIDE DEF p, q
  <2>3. \/ q = p /\ code'[r] = code[r]
        \/ p = "idle" /\ q = "asked" /\ code'[r] = code[r]
        \/ p = "asked" /\ q = "sent" /\ code'[r] = code[r]
        \/ /\ p \in {"idle", "asked"} /\ q = "answered" /\ code'[r] \in {"413", "503"}
        \/ p = "sent" /\ q = "answered" /\ code'[r] \in {"ok", "502", "504"}
        \/ p = "sent" /\ q = "streaming" /\ code'[r] = "sse"
        \/ p = "streaming" /\ q = "over" /\ code'[r] = code[r]
        \/ p \in {"asked", "sent", "streaming"} /\ q = "gone" /\ code'[r] = code[r]
    BY <2>1, MoveIsStep DEF p, q
  <2> QED BY <2>2, <2>3
       DEF Exchange!Step, Exchange!Stays, Exchange!Ask, Exchange!Send, Exchange!Answer,
           Exchange!Begin, Exchange!End, Exchange!Leave, Codes
<1> QED BY <1>1, <1>2, TypeCorrect, ResponsesConsistent, PTL
     DEF Spec, ExchangeSpec, Exchange!Spec

-----------------------------------------------------------------------------
\* What follows from HttpExchange alone, and so holds of the gateway: first about one
\* request's step, then about the exchange, then about the program.
LEMMA ExchangeSteps ==
  ASSUME Exchange!StatusTells, [Exchange!Next]_(Exchange!vars)
  PROVE  /\ Exchange!StatusTells'
         /\ \A r \in Request : code[r] # None => code'[r] = code[r]
         /\ Exchange!Settled
<1> DEFINE phase == [x \in Request |-> Phase(x)]
<1>1. ASSUME NEW r \in Request
      PROVE  Exchange!Step(r)
  BY DEF Exchange!Next, Exchange!vars, Exchange!Step, Exchange!Stays
<1>2. /\ Exchange!StatusTells <=> \A r \in Request :
            /\ phase[r] \in {"idle", "asked", "sent"} => code[r] = None
            /\ phase[r] = "answered" => code[r] \in Codes \ {"sse"}
            /\ phase[r] \in {"streaming", "over"} => code[r] = "sse"
            /\ phase[r] = "gone" => code[r] \in {None, "sse"}
      /\ Exchange!StatusTells' <=> \A r \in Request :
            /\ phase'[r] \in {"idle", "asked", "sent"} => code'[r] = None
            /\ phase'[r] = "answered" => code'[r] \in Codes \ {"sse"}
            /\ phase'[r] \in {"streaming", "over"} => code'[r] = "sse"
            /\ phase'[r] = "gone" => code'[r] \in {None, "sse"}
  BY DEF Exchange!StatusTells
<1>3. ASSUME NEW r \in Request
      PROVE  /\ \/ phase'[r] = phase[r] /\ code'[r] = code[r]
                \/ phase[r] = "idle" /\ phase'[r] = "asked" /\ code'[r] = code[r]
                \/ phase[r] = "asked" /\ phase'[r] = "sent" /\ code'[r] = code[r]
                \/ /\ phase[r] \in {"idle", "asked", "sent"} /\ phase'[r] = "answered"
                   /\ code'[r] \in Codes \ {"sse"}
                \/ phase[r] = "sent" /\ phase'[r] = "streaming" /\ code'[r] = "sse"
                \/ phase[r] = "streaming" /\ phase'[r] = "over" /\ code'[r] = code[r]
                \/ /\ phase[r] \in {"asked", "sent", "streaming"} /\ phase'[r] = "gone"
                   /\ code'[r] = code[r]
             /\ phase'[r] = phase[r] /\ code'[r] = code[r] => Exchange!Stays(r)
  BY <1>1 DEF Exchange!Step, Exchange!Stays, Exchange!Ask, Exchange!Send, Exchange!Answer,
              Exchange!Begin, Exchange!End, Exchange!Leave
<1> HIDE DEF phase
<1>4. Exchange!StatusTells'
  BY <1>2, <1>3
<1>5. \A r \in Request : code[r] # None => code'[r] = code[r]
  BY <1>2, <1>3
<1>6. \A r \in Request : phase[r] \in Exchange!Over => Exchange!Stays(r)
  BY <1>3 DEF Exchange!Over
<1> QED BY <1>4, <1>5, <1>6 DEF phase, Exchange!Settled

\* A browser's status line is written once and never replaced, an exchange that is over
\* is not touched again, and the status tells how far it got, whatever timers, late
\* frames, cancellations and disconnects do.
THEOREM AnsweredOnce ==
  Spec => []Exchange!StatusTells /\ Exchange!StatusOnce /\ Exchange!OverForGood
<1> DEFINE Once == \A r \in Request : code[r] # None => code'[r] = code[r]
<1>1. Exchange!Init => Exchange!StatusTells
  BY DEF Exchange!Init, Exchange!StatusTells
<1>2. Exchange!StatusTells /\ [Exchange!Next]_(Exchange!vars) =>
        Exchange!StatusTells' /\ [Once]_(Exchange!vars) /\ [Exchange!Settled]_(Exchange!vars)
  BY ExchangeSteps
<1>3. Spec => Exchange!Init /\ [][Exchange!Next]_(Exchange!vars)
  BY Implements DEF ExchangeSpec, Exchange!Spec
<1> QED BY <1>1, <1>2, <1>3, PTL DEF Exchange!StatusOnce, Exchange!OverForGood

-----------------------------------------------------------------------------
\* A request is sent to the agent once: until it is, the agent knows nothing of it;
\* while it is on its way it is so on one connection, in one place.
IsRequest(c, k) == down[c][k].type = "http"
SentOnce ==
  /\ \A r \in Request : gw[r] \in {"idle", "reading"} => via[r] = None /\ active[r] = "none"
  /\ \A c \in Conn : \A k \in DOMAIN down[c] :
       IsRequest(c, k) => via[down[c][k].id] = c /\ active[down[c][k].id] = "none"
  /\ \A c \in Conn : \A j, k \in DOMAIN down[c] :
       IsRequest(c, j) /\ IsRequest(c, k) /\ down[c][j].id = down[c][k].id => j = k

\* No handler brings a request back to where it has not been sent.
LEMMA Onward ==
  ASSUME TypeOK, ResponseInv, [Next]_vars, NEW r \in Request,
         gw'[r] \in {"idle", "reading"}
  PROVE  gw[r] \in {"idle", "reading"}
BY LocalStep DEF Moves, Became

\* What is on its way names a request.
LEMMA QueuedIds ==
  ASSUME TypeOK, NEW c \in Conn, NEW k \in DOMAIN down[c]
  PROVE  down[c][k].id \in Request
<1>1. down[c] \in Seq(Down)
  BY DEF TypeOK
<1>2. k \in 1 .. Len(down[c])
  BY <1>1
<1>3. down[c][k] \in Down
  BY <1>1, <1>2, ElementOfSeq
<1> QED BY <1>3 DEF Down

\* A step that sends no request and starts none upstream keeps SentOnce.
LEMMA SentKept ==
  ASSUME SentOnce, down' = down, via' = via,
         \A r \in Request : gw'[r] \in {"idle", "reading"} => gw[r] \in {"idle", "reading"},
         \A r \in Request : active[r] = "none" => active'[r] = "none",
         TypeOK
  PROVE  SentOnce'
<1>1. \A c \in Conn : \A k \in DOMAIN down[c] : down[c][k].id \in Request
  BY QueuedIds
<1> QED BY <1>1 DEF SentOnce, IsRequest

\* Nor does sending a cancel.
LEMMA SentCancel ==
  ASSUME TypeOK, SentOnce, NEW r \in Request, SendCancel(r) \/ UNCHANGED down,
         via' = via, active' = active,
         \A q \in Request : gw'[q] \in {"idle", "reading"} => gw[q] \in {"idle", "reading"}
  PROVE  SentOnce'
<1>1. CASE down' = down
  BY <1>1, SentKept
<1>2. CASE Sendable /\ SendCancel(r)
  <2> DEFINE m == [type |-> "cancel", id |-> r]
  <2>1. ws \in Conn /\ down[ws] \in Seq(Down)
    BY <1>2 DEF TypeOK, Sendable
  <2>2. down' = [down EXCEPT ![ws] = Append(down[ws], m)]
    BY <1>2 DEF SendCancel, SendDown
  <2>3. \A c \in Conn : \A k \in DOMAIN down'[c] :
          down'[c][k].type = "http" => k \in DOMAIN down[c] /\ down'[c][k] = down[c][k]
    <3> SUFFICES ASSUME NEW c \in Conn, NEW k \in DOMAIN down'[c], down'[c][k].type = "http"
                 PROVE  k \in DOMAIN down[c] /\ down'[c][k] = down[c][k]
      OBVIOUS
    <3>1. CASE c = ws
      <4>1. down'[c] = Append(down[c], m)
        BY <2>1, <2>2, <3>1 DEF TypeOK
      <4>2. m.type # "http"
        OBVIOUS
      <4> HIDE DEF m
      <4> QED BY <2>1, <3>1, <4>1, <4>2
    <3>2. CASE c # ws
      BY <2>2, <3>2 DEF TypeOK
    <3> QED BY <3>1, <3>2
  <2> QED BY <2>3 DEF SentOnce, IsRequest
<1> QED BY <1>1, <1>2 DEF SendCancel, SendDown

LEMMA SentStep ==
  ASSUME TypeOK, ResponseInv, SentOnce, [Next]_vars
  PROVE  SentOnce'
<1>0. \A r \in Request : gw'[r] \in {"idle", "reading"} => gw[r] \in {"idle", "reading"}
  BY Onward
<1>1. CASE UNCHANGED vars
  BY <1>1 DEF SentOnce, IsRequest
<1>2. ASSUME NEW r \in Request, NEW c \in {"413", "503"}, Refuse(r, c)
      PROVE  SentOnce'
  BY <1>0, <1>2, SentKept DEF Refuse
<1>3. ASSUME NEW r \in Request, Admit(r) \/ BodyTooLarge(r)
      PROVE  SentOnce'
  BY <1>0, <1>3, SentKept DEF Admit, BodyTooLarge
<1>4. ASSUME NEW r \in Request, BodyRead(r)
      PROVE  SentOnce'
  <2>1. via[r] = None /\ active[r] = "none"
    BY <1>4 DEF BodyRead, SentOnce
  <2>2. CASE ~Sendable
    <3>1. down' = down /\ via' = via /\ active' = active
      BY <1>4, <2>2 DEF BodyRead, SendDown
    <3> QED BY <1>0, <3>1, SentKept
  <2>3. CASE Sendable
    <3> DEFINE m == [type |-> "http", id |-> r]
    <3>1. ws \in Conn /\ down[ws] \in Seq(Down)
      BY <2>3 DEF TypeOK, Sendable
    <3>2. /\ down' = [down EXCEPT ![ws] = Append(down[ws], m)]
          /\ via' = [via EXCEPT ![r] = ws]
          /\ active' = active
          /\ gw' = [gw EXCEPT ![r] = "pending"]
      BY <1>4, <2>3 DEF BodyRead, SendDown
    <3>3. \A c \in Conn : \A k \in DOMAIN down[c] :
            IsRequest(c, k) => down[c][k].id # r /\ down[c][k].id \in Request
      BY <2>1, NoneNotConn, QueuedIds DEF SentOnce
    <3>4. \A c \in Conn : \A k \in DOMAIN down'[c] :
            \/ k \in DOMAIN down[c] /\ down'[c][k] = down[c][k]
            \/ c = ws /\ k = Len(down[ws]) + 1 /\ down'[c][k] = m
      <4> SUFFICES ASSUME NEW c \in Conn, NEW k \in DOMAIN down'[c]
                   PROVE  \/ k \in DOMAIN down[c] /\ down'[c][k] = down[c][k]
                          \/ c = ws /\ k = Len(down[ws]) + 1 /\ down'[c][k] = m
        OBVIOUS
      <4>1. CASE c = ws
        <5>1. down'[c] = Append(down[c], m)
          BY <3>1, <3>2, <4>1 DEF TypeOK
        <5> HIDE DEF m
        <5> QED BY <3>1, <4>1, <5>1
      <4>2. CASE c # ws
        BY <3>2, <4>2 DEF TypeOK
      <4> QED BY <4>1, <4>2
    <3>5. m.id = r
      OBVIOUS
    <3> HIDE DEF m
    <3>6. \A q \in Request : gw'[q] \in {"idle", "reading"} => via'[q] = None /\ active'[q] = "none"
      BY <3>2 DEF SentOnce, TypeOK
    <3>7. \A c \in Conn : \A k \in DOMAIN down'[c] :
            IsRequest(c, k)' => /\ via'[down'[c][k].id] = c
                                /\ active'[down'[c][k].id] = "none"
      BY <2>1, <3>1, <3>2, <3>3, <3>4, <3>5 DEF SentOnce, IsRequest, TypeOK
    <3>8. \A c \in Conn : \A j, k \in DOMAIN down'[c] :
            IsRequest(c, j)' /\ IsRequest(c, k)' /\ down'[c][j].id = down'[c][k].id => j = k
      BY <3>3, <3>4, <3>5 DEF SentOnce, IsRequest
    <3> QED BY <3>6, <3>7, <3>8 DEF SentOnce
  <2> QED BY <2>2, <2>3
<1>5. ASSUME NEW r \in Request, ProxyTimeout(r) \/ BrowserCloses(r)
      PROVE  SentOnce'
  BY <1>0, <1>5, SentCancel DEF ProxyTimeout, BrowserCloses
<1>6. ASSUME NEW r \in Request, UpstreamHead(r)
      PROVE  SentOnce'
  <2>1. \A q \in Request : active[q] = "none" => active'[q] = "none"
    BY <1>6 DEF UpstreamHead, TypeOK
  <2> QED BY <1>0, <1>6, <2>1, SentKept DEF UpstreamHead
<1>7. ASSUME NEW r \in Request, UpstreamDone(r) \/ StreamDone(r)
      PROVE  SentOnce'
  <2>1. \A q \in Request : active[q] = "none" => active'[q] = "none"
    BY <1>7 DEF UpstreamDone, StreamDone, FinishRequest, TypeOK
  <2> QED BY <1>0, <1>7, <2>1, SentKept DEF UpstreamDone, StreamDone
<1>8. ASSUME NEW r \in Request, UpstreamChunk(r) \/ StreamError(r)
      PROVE  SentOnce'
  BY <1>0, <1>8, SentKept DEF UpstreamChunk, StreamError
<1>9. ASSUME NEW c \in Conn,
             GatewayReceives(c) \/ HeartbeatTimeout(c) \/ Remove(c) \/ Connect(c)
      PROVE  SentOnce'
  BY <1>0, <1>9, SentKept DEF GatewayReceives, HeartbeatTimeout, Remove, Connect
<1>10. ASSUME NEW c \in Conn, CloseEvent(c)
       PROVE  SentOnce'
  <2>1. down' = [down EXCEPT ![c] = <<>>] /\ via' = via /\ active' = active
    BY <1>10 DEF CloseEvent
  <2>2. \A d \in Conn : \A k \in DOMAIN down'[d] : k \in DOMAIN down[d] /\ down'[d][k] = down[d][k]
    BY <2>1 DEF TypeOK
  <2> QED BY <1>0, <2>1, <2>2 DEF SentOnce, IsRequest
<1>11. ASSUME NEW c \in Conn, AgentReceives(c)
       PROVE  SentOnce'
  <2>1. down[c] \in Seq(Down) /\ down[c] # <<>>
    BY <1>11 DEF TypeOK, AgentReceives
  <2> DEFINE m == Head(down[c])
  <2>2. m = down[c][1] /\ 1 \in DOMAIN down[c] /\ m.id \in Request
    <3>1. m = down[c][1] /\ 1 \in DOMAIN down[c]
      BY <2>1
    <3> HIDE DEF m
    <3> QED BY <3>1, QueuedIds
  <2>3. down' = [down EXCEPT ![c] = Tail(down[c])] /\ via' = via /\ gw' = gw
    BY <1>11 DEF AgentReceives
  <2> HIDE DEF m
  <2>4. \A k \in DOMAIN down'[c] : k + 1 \in DOMAIN down[c] /\ k # 0 /\ k \in Int
                                     /\ down'[c][k] = down[c][k + 1]
    BY <2>1, <2>3 DEF TypeOK
  <2>5. \A d \in Conn \ {c} : down'[d] = down[d]
    BY <2>3 DEF TypeOK
  <2>6. \A q \in Request : active[q] = "none" =>
          active'[q] = "none" \/ (m.type = "http" /\ q = m.id)
    BY <1>11, <2>2 DEF AgentReceives, CancelRequest, FinishRequest, TypeOK, m
  <2>7. m.type = "http" => /\ via[m.id] = c
                           /\ gw[m.id] \notin {"idle", "reading"}
    BY <2>2, NoneNotConn DEF SentOnce, IsRequest
  <2>8. \A q \in Request : gw'[q] \in {"idle", "reading"} => via'[q] = None /\ active'[q] = "none"
    BY <2>3, <2>6, <2>7 DEF SentOnce
  <2>9. \A d \in Conn : \A j, k \in DOMAIN down'[d] :
          IsRequest(d, j)' /\ IsRequest(d, k)' /\ down'[d][j].id = down'[d][k].id => j = k
    <3>1. \A j, k \in DOMAIN down'[c] :
            IsRequest(c, j)' /\ IsRequest(c, k)' /\ down'[c][j].id = down'[c][k].id => j = k
      BY <2>4 DEF SentOnce, IsRequest
    <3>2. \A d \in Conn \ {c} : \A j, k \in DOMAIN down'[d] :
            IsRequest(d, j)' /\ IsRequest(d, k)' /\ down'[d][j].id = down'[d][k].id => j = k
      BY <2>5 DEF SentOnce, IsRequest
    <3> QED BY <3>1, <3>2
  <2>10. \A d \in Conn : \A k \in DOMAIN down'[d] :
           IsRequest(d, k)' => via'[down'[d][k].id] = d /\ active'[down'[d][k].id] = "none"
    <3>1. ASSUME NEW k \in DOMAIN down'[c], IsRequest(c, k)'
          PROVE  via'[down'[c][k].id] = c /\ active'[down'[c][k].id] = "none"
      <4>1. k + 1 \in DOMAIN down[c] /\ IsRequest(c, k + 1) /\ k + 1 # 1
        BY <2>4, <3>1 DEF IsRequest
      <4>2. /\ via[down[c][k + 1].id] = c /\ active[down[c][k + 1].id] = "none"
            /\ down[c][k + 1].id \in Request
        BY <4>1, QueuedIds DEF SentOnce
      <4>3. ~(m.type = "http" /\ down[c][k + 1].id = m.id)
        BY <2>2, <4>1 DEF SentOnce, IsRequest
      <4> QED BY <2>3, <2>4, <2>6, <3>1, <4>2, <4>3
    <3>2. ASSUME NEW d \in Conn \ {c}, NEW k \in DOMAIN down'[d], IsRequest(d, k)'
          PROVE  via'[down'[d][k].id] = d /\ active'[down'[d][k].id] = "none"
      <4>1. k \in DOMAIN down[d] /\ IsRequest(d, k) /\ down'[d][k] = down[d][k]
        BY <2>5, <3>2 DEF IsRequest
      <4>2. /\ via[down[d][k].id] = d /\ active[down[d][k].id] = "none"
            /\ down[d][k].id \in Request
        BY <4>1, QueuedIds DEF SentOnce
      <4> QED BY <2>3, <2>6, <2>7, <4>1, <4>2
    <3> QED BY <3>1, <3>2
  <2> QED BY <2>8, <2>9, <2>10 DEF SentOnce
<1>12. CASE AgentDrops
  <2>1. /\ down' = [down EXCEPT ![agent] = <<>>] /\ via' = via
        /\ active' = [r \in Request |-> "none"]
    BY <1>12 DEF AgentDrops
  <2>2. \A d \in Conn : \A k \in DOMAIN down'[d] :
          k \in DOMAIN down[d] /\ down'[d][k] = down[d][k] /\ down[d][k].id \in Request
    BY <1>12, <2>1, QueuedIds DEF TypeOK, AgentDrops
  <2> QED BY <1>0, <2>1, <2>2 DEF SentOnce, IsRequest
<1> QED
  BY <1>1, <1>2, <1>3, <1>4, <1>5, <1>6, <1>7, <1>8, <1>9, <1>10, <1>11, <1>12 DEF Next

\* finishRequest takes one from both sides, or nothing from either.
LEMMA FinishCounts ==
  ASSUME TypeOK, CountMatches, NEW r \in Request, FinishRequest(r)
  PROVE  CountMatches'
<1>1. CASE active[r] = "none"
  BY <1>1 DEF FinishRequest, CountMatches, InFlight
<1>2. CASE active[r] # "none"
  <2>1. r \in InFlight
    BY <1>2 DEF InFlight
  <2>2. InFlight' = InFlight \ {r}
    BY <1>2 DEF TypeOK, FinishRequest, InFlight
  <2>3. Cardinality(InFlight \ {r}) = Cardinality(InFlight) - 1
    BY <2>1, InFlightFinite, FS_RemoveElement
  <2>4. Cardinality(InFlight) # 0
    BY <2>1, InFlightFinite, FS_EmptySet
  <2>5. count' = IF count > 0 THEN count - 1 ELSE 0
    BY <1>2 DEF FinishRequest
  <2>6. count > 0
    BY <2>4, InFlightFinite DEF CountMatches
  <2> QED BY <2>2, <2>3, <2>5, <2>6 DEF CountMatches
<1> QED BY <1>1, <1>2

LEMMA CountStep ==
  ASSUME TypeOK, SentOnce, CountMatches, [Next]_vars
  PROVE  CountMatches'
<1>1. CASE UNCHANGED vars
  BY <1>1 DEF CountMatches, InFlight
<1>2. ASSUME NEW r \in Request,
             \/ \E c \in {"413", "503"} : Refuse(r, c)
             \/ Admit(r) \/ BodyTooLarge(r) \/ BodyRead(r) \/ ProxyTimeout(r)
             \/ BrowserCloses(r) \/ UpstreamChunk(r) \/ StreamError(r)
      PROVE  CountMatches'
  BY <1>2 DEF Refuse, Admit, BodyTooLarge, BodyRead, ProxyTimeout, BrowserCloses,
              UpstreamChunk, StreamError, CountMatches, InFlight
<1>3. ASSUME NEW r \in Request, UpstreamHead(r)
      PROVE  CountMatches'
  <2>1. InFlight' = InFlight
    BY <1>3 DEF TypeOK, UpstreamHead, InFlight
  <2> QED BY <1>3, <2>1 DEF UpstreamHead, CountMatches
<1>4. ASSUME NEW r \in Request, UpstreamDone(r) \/ StreamDone(r)
      PROVE  CountMatches'
  BY <1>4, FinishCounts DEF UpstreamDone, StreamDone
<1>5. ASSUME NEW c \in Conn,
             \/ GatewayReceives(c) \/ HeartbeatTimeout(c) \/ Remove(c) \/ CloseEvent(c)
             \/ Connect(c)
      PROVE  CountMatches'
  BY <1>5 DEF GatewayReceives, HeartbeatTimeout, Remove, CloseEvent, Connect,
              CountMatches, InFlight
<1>6. ASSUME NEW c \in Conn, AgentReceives(c)
      PROVE  CountMatches'
  <2>1. down[c] \in Seq(Down) /\ down[c] # <<>>
    BY <1>6 DEF TypeOK, AgentReceives
  <2> DEFINE m == Head(down[c])
  <2>2. m = down[c][1] /\ 1 \in DOMAIN down[c]
    BY <2>1
  <2>3. m.id \in Request
    <3> HIDE DEF m
    <3> QED BY <2>2, QueuedIds
  <2>4. CASE m.type = "http"
    <3>1. active[m.id] = "none"
      BY <2>2, <2>4 DEF SentOnce, IsRequest
    <3>2. active' = [active EXCEPT ![m.id] = "waiting"] /\ count' = count + 1
      BY <1>6, <2>4 DEF AgentReceives
    <3> HIDE DEF m
    <3>3. m.id \notin InFlight /\ InFlight' = InFlight \cup {m.id}
      BY <2>3, <3>1, <3>2 DEF TypeOK, InFlight
    <3>4. Cardinality(InFlight') = Cardinality(InFlight) + 1
      BY <3>3, InFlightFinite, FS_AddElement
    <3> QED BY <3>2, <3>4 DEF CountMatches
  <2>5. CASE m.type # "http"
    <3>1. FinishRequest(m.id)
      BY <1>6, <2>5 DEF AgentReceives, CancelRequest
    <3> QED BY <2>3, <3>1, FinishCounts
  <2> QED BY <2>4, <2>5
<1>7. CASE AgentDrops
  <2>1. InFlight' = {}
    BY <1>7 DEF AgentDrops, InFlight
  <2>2. count' = 0
    BY <1>7, InFlightFinite DEF AgentDrops, CountMatches
  <2> QED BY <2>1, <2>2, FS_EmptySet DEF CountMatches
<1> QED BY <1>1, <1>2, <1>3, <1>4, <1>5, <1>6, <1>7 DEF Next

\* The agent's activeRequestCount is the number of requests it has upstream.
THEOREM CountExact == Spec => []CountMatches
<1>1. Init => SentOnce /\ CountMatches
  <2> SUFFICES ASSUME Init PROVE SentOnce /\ CountMatches
    OBVIOUS
  <2>1. InFlight = {} /\ count = 0
    BY DEF Init, InFlight
  <2>2. CountMatches
    BY <2>1, FS_EmptySet DEF CountMatches
  <2>3. SentOnce
    BY DEF Init, SentOnce, IsRequest
  <2> QED BY <2>2, <2>3
<1>2. TypeOK /\ ResponseInv /\ (SentOnce /\ CountMatches) /\ [Next]_vars
        => (SentOnce /\ CountMatches)'
  BY SentStep, CountStep
<1> QED BY <1>1, <1>2, TypeCorrect, ResponsesConsistent, PTL DEF Spec

-----------------------------------------------------------------------------
(***************************************************************************)
(* Streams begin with their head.                                           *)
(***************************************************************************)
\* In queue q, what requests of P are sent of a stream comes behind the stream's head.
Begun(q, P) ==
  \A k \in DOMAIN q :
    q[k].id \in P /\ q[k].type \in {"data", "end"} =>
      \E j \in 1 .. k - 1 : q[j] = Frame("head", q[k].id)

LEMMA SameProperty == StreamsBeginWithHead <=> \A c \in Conn : Begun(up[c], Pending)
BY DEF StreamsBeginWithHead, Begun

LEMMA BegunFewer ==
  ASSUME NEW q, NEW P, NEW Q \in SUBSET P, Begun(q, P)
  PROVE  Begun(q, Q)
BY DEF Begun

LEMMA BegunTail ==
  ASSUME NEW q \in Seq(Up), q # <<>>, NEW P, Begun(q, P), NEW Q \in SUBSET P,
         Head(q).type = "head" => Head(q).id \notin Q
  PROVE  Begun(Tail(q), Q)
<1> SUFFICES ASSUME NEW k \in DOMAIN Tail(q), Tail(q)[k].id \in Q,
                    Tail(q)[k].type \in {"data", "end"}
             PROVE  \E j \in 1 .. k - 1 : Tail(q)[j] = Frame("head", Tail(q)[k].id)
  BY DEF Begun
<1>1. /\ k \in Nat \ {0} /\ k + 1 \in DOMAIN q /\ Tail(q)[k] = q[k + 1]
      /\ \A j \in 1 .. k - 1 : Tail(q)[j] = q[j + 1]
      /\ Head(q) = q[1]
  OBVIOUS
<1>2. PICK j \in 1 .. k : q[j] = Frame("head", q[k + 1].id)
  BY <1>1 DEF Begun
<1>3. j # 1
  BY <1>1, <1>2 DEF Frame
<1>4. j - 1 \in 1 .. k - 1 /\ Tail(q)[j - 1] = q[j]
  BY <1>1, <1>3
<1> QED BY <1>1, <1>2, <1>4

LEMMA BegunAppend ==
  ASSUME NEW q \in Seq(Up), NEW P, Begun(q, P), NEW f \in Up,
         f.id \in P /\ f.type \in {"data", "end"} =>
           \E j \in DOMAIN q : q[j] = Frame("head", f.id)
  PROVE  Begun(Append(q, f), P)
<1> SUFFICES ASSUME NEW k \in DOMAIN Append(q, f), Append(q, f)[k].id \in P,
                    Append(q, f)[k].type \in {"data", "end"}
             PROVE  \E j \in 1 .. k - 1 : Append(q, f)[j] = Frame("head", Append(q, f)[k].id)
  BY DEF Begun
<1>1. /\ k \in 1 .. Len(q) + 1 /\ Len(q) \in Nat /\ DOMAIN q = 1 .. Len(q)
      /\ \A j \in DOMAIN q : Append(q, f)[j] = q[j]
  OBVIOUS
<1>2. CASE k \in DOMAIN q
  <2>1. PICK j \in 1 .. k - 1 : q[j] = Frame("head", q[k].id)
    BY <1>1, <1>2 DEF Begun
  <2> QED BY <1>1, <1>2, <2>1
<1>3. CASE k = Len(q) + 1
  <2>1. Append(q, f)[k] = f
    BY <1>3
  <2>2. PICK j \in DOMAIN q : q[j] = Frame("head", f.id)
    BY <2>1
  <2> QED BY <1>1, <1>3, <2>1, <2>2
<1> QED BY <1>1, <1>2, <1>3

\* A request that was not sent yet has no frames anywhere; one the agent waits for has had
\* no head; without a connection the agent has no requests; the head of a stream that was
\* begun is in the queue as long as the gateway waits for it.
NotSent == \A r \in Request : gw[r] \in {"idle", "reading"} =>
             late[r] = "nothing" /\ \A c \in Conn : \A k \in DOMAIN up[c] : up[c][k].id # r
Waits == \A r \in Request : active[r] = "waiting" => ~head[r]
Idle == agent = None => \A r \in Request : active[r] = "none"
Headed == \A r \in Pending : active[r] = "sse" /\ head[r] =>
            \E j \in DOMAIN up[agent] : up[agent][j] = Frame("head", r)
HeadInv == NotSent /\ Waits /\ Idle /\ Headed /\ \A c \in Conn : Begun(up[c], Pending)

\* A step of the gateway that starts and delivers nothing.
LEMMA HeadKept ==
  ASSUME HeadInv, up' = up, Pending' \subseteq Pending, UNCHANGED <<agent, active, head, late>>,
         \A r \in Request : gw'[r] \in {"idle", "reading"} => gw[r] \in {"idle", "reading"}
  PROVE  HeadInv'
<1>1. \A c \in Conn : Begun(up'[c], Pending')
  BY BegunFewer DEF HeadInv
<1>2. (\A c \in Conn : Begun(up[c], Pending))'
  BY <1>1
<1> QED BY <1>2 DEF HeadInv, NotSent, Waits, Idle, Headed

\* What the agent sends comes behind what is in the queue.
LEMMA Behind ==
  ASSUME TypeOK, NEW r \in Request, NEW fs \in Seq(Up), SendUp(fs),
         \A k \in DOMAIN fs : fs[k].id = r
  PROVE  /\ \A c \in Conn : \A k \in DOMAIN up[c] : k \in DOMAIN up'[c] /\ up'[c][k] = up[c][k]
         /\ \A c \in Conn : \A k \in DOMAIN up'[c] :
              up'[c][k].id = r \/ (k \in DOMAIN up[c] /\ up'[c][k] = up[c][k])
<1>1. CASE agent = None
  BY <1>1 DEF SendUp
<1>2. CASE agent # None
  <2>1. /\ agent \in Conn /\ up[agent] \in Seq(Up) /\ up'[agent] = up[agent] \o fs
        /\ \A c \in Conn \ {agent} : up'[c] = up[c]
    BY <1>2 DEF SendUp, TypeOK
  <2>2. /\ \A k \in DOMAIN up[agent] : k \in DOMAIN (up[agent] \o fs)
                                        /\ (up[agent] \o fs)[k] = up[agent][k]
        /\ \A k \in DOMAIN (up[agent] \o fs) :
             \/ k - Len(up[agent]) \in DOMAIN fs
                /\ (up[agent] \o fs)[k] = fs[k - Len(up[agent])]
             \/ k \in DOMAIN up[agent] /\ (up[agent] \o fs)[k] = up[agent][k]
    BY <2>1
  <2>3. \A k \in DOMAIN up[agent] : k \in DOMAIN up'[agent] /\ up'[agent][k] = up[agent][k]
    BY <2>1, <2>2
  <2>4. \A k \in DOMAIN up'[agent] :
          up'[agent][k].id = r \/ (k \in DOMAIN up[agent] /\ up'[agent][k] = up[agent][k])
    <3> SUFFICES ASSUME NEW k \in DOMAIN (up[agent] \o fs)
                 PROVE  \/ (up[agent] \o fs)[k].id = r
                        \/ k \in DOMAIN up[agent] /\ (up[agent] \o fs)[k] = up[agent][k]
      BY <2>1
    <3> QED BY <2>2
  <2> QED BY <2>1, <2>3, <2>4
<1> QED BY <1>1, <1>2

LEMMA SingleBegun ==
  ASSUME TypeOK, HeadInv, NEW r \in Request, NEW t \in {"response", "head"},
         SendUp(<<Frame(t, r)>>)
  PROVE  \A c \in Conn : Begun(up'[c], Pending)
<1>1. CASE agent = None
  BY <1>1 DEF SendUp, HeadInv
<1>2. CASE agent # None
  <2>1. /\ agent \in Conn /\ up[agent] \in Seq(Up)
        /\ up'[agent] = up[agent] \o <<Frame(t, r)>>
        /\ \A c \in Conn \ {agent} : up'[c] = up[c]
    BY <1>2 DEF SendUp, TypeOK
  <2>2. Frame(t, r) \in Up /\ Frame(t, r).type \notin {"data", "end"}
    BY DEF Frame, Up
  <2>3. up'[agent] = Append(up[agent], Frame(t, r))
    BY <2>1, <2>2
  <2>4. Begun(Append(up[agent], Frame(t, r)), Pending)
    BY <2>1, <2>2, BegunAppend DEF HeadInv
  <2> QED BY <2>1, <2>3, <2>4 DEF HeadInv
<1> QED BY <1>1, <1>2

LEMMA ChunkBegun ==
  ASSUME TypeOK, HeadInv, NEW r \in Request, NEW t \in {"data", "end"}, active[r] = "sse",
         SendUp(WithHead(r, <<Frame(t, r)>>))
  PROVE  /\ \A c \in Conn : Begun(up'[c], Pending)
         /\ agent \in Conn
         /\ r \in Pending => \E j \in DOMAIN up'[agent] : up'[agent][j] = Frame("head", r)
<1>1. /\ agent \in Conn /\ up[agent] \in Seq(Up) /\ Begun(up[agent], Pending)
      /\ up'[agent] = up[agent] \o WithHead(r, <<Frame(t, r)>>)
      /\ \A c \in Conn \ {agent} : up'[c] = up[c]
  BY DEF SendUp, TypeOK, HeadInv, Idle
<1>2. /\ Frame(t, r) \in Up /\ Frame("head", r) \in Up /\ Frame(t, r).id = r
      /\ Frame("head", r).type \notin {"data", "end"}
  BY DEF Frame, Up
<1>3. CASE head[r]
  <2>1. up'[agent] = Append(up[agent], Frame(t, r))
    BY <1>1, <1>2, <1>3 DEF WithHead
  <2>2. r \in Pending => \E j \in DOMAIN up[agent] : up[agent][j] = Frame("head", r)
    BY <1>3 DEF HeadInv, Headed
  <2>3. Begun(Append(up[agent], Frame(t, r)), Pending)
    BY <1>1, <1>2, <2>2, BegunAppend
  <2>4. \A j \in DOMAIN up[agent] : /\ j \in DOMAIN Append(up[agent], Frame(t, r))
                                    /\ Append(up[agent], Frame(t, r))[j] = up[agent][j]
    BY <1>1
  <2> QED BY <1>1, <2>1, <2>2, <2>3, <2>4 DEF HeadInv
<1>4. CASE ~head[r]
  <2> DEFINE q == Append(up[agent], Frame("head", r))
  <2>1. up'[agent] = Append(q, Frame(t, r))
    BY <1>1, <1>2, <1>4 DEF WithHead
  <2>2. q \in Seq(Up) /\ Begun(q, Pending)
    <3>1. Begun(q, Pending)
      BY <1>1, <1>2, BegunAppend
    <3> QED BY <1>1, <1>2, <3>1
  <2>3. Len(up[agent]) + 1 \in DOMAIN q /\ q[Len(up[agent]) + 1] = Frame("head", r)
    BY <1>1, <1>2
  <2> HIDE DEF q
  <2>4. Begun(Append(q, Frame(t, r)), Pending)
    BY <1>2, <2>2, <2>3, BegunAppend
  <2>5. \A j \in DOMAIN q : /\ j \in DOMAIN Append(q, Frame(t, r))
                            /\ Append(q, Frame(t, r))[j] = q[j]
    BY <2>2
  <2> QED BY <1>1, <2>1, <2>3, <2>4, <2>5 DEF HeadInv
<1> QED BY <1>3, <1>4

\* A frame of a request that the agent knows, or is done with, was sent.
LEMMA SentAhead ==
  ASSUME TypeOK, HeadInv, NEW r \in Request, gw[r] \notin {"idle", "reading"}, UNCHANGED gw,
         NEW fs \in Seq(Up), SendUp(fs), \A k \in DOMAIN fs : fs[k].id = r,
         \A q \in Request : late[q] = "nothing" => late'[q] = "nothing"
  PROVE  NotSent'
<1>1. \A c \in Conn : \A k \in DOMAIN up'[c] :
        up'[c][k].id = r \/ (k \in DOMAIN up[c] /\ up'[c][k] = up[c][k])
  BY Behind
<1> QED BY <1>1 DEF HeadInv, NotSent

LEMMA HeadStep ==
  ASSUME TypeOK, ResponseInv, SentOnce, HeadInv, [Next]_vars
  PROVE  HeadInv'
<1>0. \A r \in Request : gw'[r] \in {"idle", "reading"} => gw[r] \in {"idle", "reading"}
  BY Onward
<1>1. CASE UNCHANGED vars
  BY <1>1, HeadKept DEF Pending
<1>2. ASSUME NEW r \in Request,
             \/ \E c \in {"413", "503"} : Refuse(r, c)
             \/ Admit(r) \/ BodyTooLarge(r) \/ ProxyTimeout(r) \/ BrowserCloses(r)
      PROVE  HeadInv'
  <2>1. up' = up /\ UNCHANGED <<agent, active, head, late>>
    BY <1>2 DEF Refuse, Admit, BodyTooLarge, ProxyTimeout, BrowserCloses
  <2>2. Pending' \subseteq Pending
    BY <1>2 DEF Refuse, Admit, BodyTooLarge, ProxyTimeout, BrowserCloses, Cleanup, Pending, TypeOK
  <2> QED BY <1>0, <2>1, <2>2, HeadKept
<1>3. ASSUME NEW r \in Request, BodyRead(r)
      PROVE  HeadInv'
  <2>1. up' = up /\ UNCHANGED <<agent, active, head, late>> /\ gw[r] = "reading"
    BY <1>3 DEF BodyRead
  <2>2. Pending' \subseteq Pending \cup {r}
    BY <1>3 DEF BodyRead, Cleanup, Pending, TypeOK
  <2>3. active[r] = "none" /\ \A c \in Conn : \A k \in DOMAIN up[c] : up[c][k].id # r
    BY <2>1 DEF SentOnce, HeadInv, NotSent
  <2>4. \A c \in Conn : Begun(up'[c], Pending')
    BY <2>1, <2>2, <2>3 DEF HeadInv, Begun
  <2>5. Headed'
    BY <2>1, <2>2, <2>3 DEF HeadInv, Headed
  <2>6. (\A c \in Conn : Begun(up[c], Pending))'
    BY <2>4
  <2> QED BY <1>0, <2>1, <2>5, <2>6 DEF HeadInv, NotSent, Waits, Idle
<1>4. ASSUME NEW r \in Request, UpstreamHead(r)
      PROVE  HeadInv'
  <2>1. /\ UNCHANGED <<gw, up, agent, late, head>> /\ Pending' = Pending /\ active[r] = "waiting"
        /\ \A q \in Request \ {r} : active'[q] = active[q]
        /\ active'[r] # "waiting"
    BY <1>4 DEF UpstreamHead, Pending, TypeOK
  <2>2. ~head[r] /\ agent # None
    BY <2>1 DEF HeadInv, Waits, Idle
  <2>3. Waits' /\ Idle' /\ NotSent'
    BY <2>1, <2>2 DEF HeadInv, Waits, Idle, NotSent
  <2>5. Headed'
    <3>1. \A q \in Pending : active'[q] = "sse" /\ head[q] => q \in Request /\ active[q] = "sse"
      BY <2>1, <2>2 DEF Pending
    <3> QED BY <2>1, <3>1 DEF HeadInv, Headed
  <2>4. (\A c \in Conn : Begun(up[c], Pending))'
    BY <2>1 DEF HeadInv
  <2> QED BY <2>3, <2>4, <2>5 DEF HeadInv
<1>5. ASSUME NEW r \in Request, UpstreamChunk(r) \/ StreamDone(r)
      PROVE  HeadInv'
  <2>1. PICK t \in {"data", "end"} : SendUp(WithHead(r, <<Frame(t, r)>>))
    BY <1>5 DEF UpstreamChunk, StreamDone
  <2>2. /\ UNCHANGED <<gw, agent, late>> /\ Pending' = Pending /\ active[r] = "sse"
        /\ head' = [head EXCEPT ![r] = TRUE]
        /\ active'[r] \in {"sse", "none"}
        /\ \A q \in Request \ {r} : active'[q] = active[q]
    BY <1>5 DEF UpstreamChunk, StreamDone, FinishRequest, Pending, TypeOK
  <2>3. /\ \A c \in Conn : Begun(up'[c], Pending)
        /\ agent \in Conn
        /\ r \in Pending => \E j \in DOMAIN up'[agent] : up'[agent][j] = Frame("head", r)
    BY <2>1, <2>2, ChunkBegun
  <2>4. /\ WithHead(r, <<Frame(t, r)>>) \in Seq(Up)
        /\ \A k \in DOMAIN WithHead(r, <<Frame(t, r)>>) : WithHead(r, <<Frame(t, r)>>)[k].id = r
    <3>1. Frame(t, r).id = r /\ Frame("head", r).id = r
      BY DEF Frame
    <3> QED BY <3>1, FrameTypes DEF WithHead
  <2>5. gw[r] \notin {"idle", "reading"}
    BY <2>2 DEF SentOnce
  <2>6. NotSent'
    BY <2>1, <2>2, <2>4, <2>5, SentAhead
  <2>7. \A c \in Conn : \A k \in DOMAIN up[c] : k \in DOMAIN up'[c] /\ up'[c][k] = up[c][k]
    BY <2>1, <2>4, Behind
  <2>8. Headed'
    <3> SUFFICES ASSUME NEW q \in Pending, active'[q] = "sse", head'[q]
                 PROVE  \E j \in DOMAIN up'[agent] : up'[agent][j] = Frame("head", q)
      BY <2>2 DEF Headed
    <3>1. CASE q # r
      <4>1. PICK j \in DOMAIN up[agent] : up[agent][j] = Frame("head", q)
        BY <2>2, <3>1 DEF HeadInv, Headed, Pending, TypeOK
      <4> QED BY <2>3, <2>7, <4>1
    <3> QED BY <2>3, <3>1
  <2>9. Waits' /\ Idle'
    BY <2>2, <2>3, NoneNotConn DEF HeadInv, Waits, Idle, TypeOK
  <2>10. (\A c \in Conn : Begun(up[c], Pending))'
    BY <2>2, <2>3
  <2> QED BY <2>6, <2>8, <2>9, <2>10 DEF HeadInv
<1>6. ASSUME NEW r \in Request, UpstreamDone(r) \/ StreamError(r)
      PROVE  HeadInv'
  <2>1. PICK t \in {"response", "head"} : SendUp(<<Frame(t, r)>>)
    BY <1>6 DEF UpstreamDone, StreamError, TypeOK
  <2>2. /\ UNCHANGED <<gw, agent, head>> /\ Pending' = Pending
        /\ \A q \in Request : active'[q] = active[q] \/ active'[q] = "none"
        /\ \A q \in Request : late[q] = "nothing" => late'[q] = "nothing"
        /\ active[r] # "none" \/ late[r] # "nothing"
    BY <1>6 DEF UpstreamDone, StreamError, FinishRequest, Pending, TypeOK
  <2>3. \A c \in Conn : Begun(up'[c], Pending)
    BY <2>1, SingleBegun
  <2>4. <<Frame(t, r)>> \in Seq(Up) /\ \A k \in DOMAIN <<Frame(t, r)>> : <<Frame(t, r)>>[k].id = r
    <3>1. Frame(t, r).id = r
      BY DEF Frame
    <3> QED BY <3>1, FrameTypes
  <2>5. gw[r] \notin {"idle", "reading"}
    BY <2>2 DEF SentOnce, HeadInv, NotSent
  <2>6. NotSent'
    BY <2>1, <2>2, <2>4, <2>5, SentAhead
  <2>7. \A c \in Conn : \A k \in DOMAIN up[c] : k \in DOMAIN up'[c] /\ up'[c][k] = up[c][k]
    BY <2>1, <2>4, Behind
  <2>8. Headed'
    <3> SUFFICES ASSUME NEW q \in Pending, active'[q] = "sse", head'[q]
                 PROVE  \E j \in DOMAIN up'[agent] : up'[agent][j] = Frame("head", q)
      BY <2>2 DEF Headed
    <3>1. q \in Request /\ active[q] = "sse" /\ head[q] /\ agent \in Conn
      BY <2>2 DEF HeadInv, Idle, Pending, TypeOK
    <3>2. PICK j \in DOMAIN up[agent] : up[agent][j] = Frame("head", q)
      BY <3>1 DEF HeadInv, Headed
    <3> QED BY <2>7, <3>1, <3>2
  <2>9. Waits' /\ Idle'
    BY <2>2 DEF HeadInv, Waits, Idle
  <2>10. (\A c \in Conn : Begun(up[c], Pending))'
    BY <2>2, <2>3
  <2> QED BY <2>6, <2>8, <2>9, <2>10 DEF HeadInv
<1>7. ASSUME NEW c \in Conn, GatewayReceives(c)
      PROVE  HeadInv'
  <2>1. /\ up[c] \in Seq(Up) /\ up[c] # <<>> /\ up' = [up EXCEPT ![c] = Tail(up[c])]
        /\ UNCHANGED <<agent, active, head, late>>
    BY <1>7 DEF GatewayReceives, TypeOK
  <2>2. Pending' \subseteq Pending
    BY <1>7 DEF GatewayReceives, OnStreamFrame, OnFirstFrame, Cleanup, Promote, Pending, TypeOK
  <2>3. Head(up[c]).type = "head" => Head(up[c]).id \notin Pending'
    BY <1>7 DEF GatewayReceives, OnStreamFrame, OnFirstFrame, Cleanup, Promote, Pending,
                Streaming, Tracked, TypeOK
  <2>4. Begun(Tail(up[c]), Pending')
    BY <2>1, <2>2, <2>3, BegunTail DEF HeadInv
  <2>5. \A d \in Conn : Begun(up'[d], Pending')
    <3>1. \A d \in Conn \ {c} : Begun(up[d], Pending') /\ up'[d] = up[d]
      BY <2>1, <2>2, BegunFewer DEF HeadInv, TypeOK
    <3>2. up'[c] = Tail(up[c])
      BY <2>1 DEF TypeOK
    <3> QED BY <2>4, <3>1, <3>2
  <2>6. (\A d \in Conn : Begun(up[d], Pending))'
    BY <2>5
  <2>7. /\ \A k \in DOMAIN Tail(up[c]) : k + 1 \in DOMAIN up[c] /\ Tail(up[c])[k] = up[c][k + 1]
        /\ \A j \in DOMAIN up[c] : j = 1 \/ (j - 1 \in DOMAIN Tail(up[c])
                                               /\ Tail(up[c])[j - 1] = up[c][j])
        /\ Head(up[c]) = up[c][1]
    BY <2>1
  <2>8. NotSent'
    <3>1. ASSUME NEW r \in Request, gw'[r] \in {"idle", "reading"}, NEW d \in Conn,
                 NEW k \in DOMAIN up'[d]
          PROVE  up'[d][k].id # r
      <4>1. CASE d = c
        <5>1. k \in DOMAIN Tail(up[c]) /\ up'[d][k] = up[c][k + 1] /\ k + 1 \in DOMAIN up[c]
          BY <2>1, <2>7, <4>1 DEF TypeOK
        <5> QED BY <1>0, <3>1, <5>1 DEF HeadInv, NotSent
      <4>2. CASE d # c
        <5>1. up'[d] = up[d]
          BY <2>1, <4>2 DEF TypeOK
        <5> QED BY <1>0, <3>1, <5>1 DEF HeadInv, NotSent
      <4> QED BY <4>1, <4>2
    <3> QED BY <1>0, <2>1, <3>1 DEF HeadInv, NotSent
  <2>9. Headed'
    <3> SUFFICES ASSUME NEW q \in Pending', active[q] = "sse", head[q]
                 PROVE  \E j \in DOMAIN up'[agent] : up'[agent][j] = Frame("head", q)
      BY <2>1 DEF Headed
    <3>1. q \in Pending /\ q \in Request /\ agent \in Conn
      BY <2>2 DEF HeadInv, Idle, Pending, TypeOK
    <3>2. PICK j \in DOMAIN up[agent] : up[agent][j] = Frame("head", q)
      BY <3>1 DEF HeadInv, Headed
    <3>3. CASE agent = c
      <4>1. j # 1
        BY <2>3, <2>7, <3>2, <3>3 DEF Frame
      <4>2. up'[agent] = Tail(up[c])
        BY <2>1, <3>3 DEF TypeOK
      <4> QED BY <2>7, <3>2, <3>3, <4>1, <4>2
    <3>4. CASE agent # c
      BY <2>1, <3>1, <3>2, <3>4 DEF TypeOK
    <3> QED BY <3>3, <3>4
  <2> QED BY <2>1, <2>6, <2>8, <2>9 DEF HeadInv, Waits, Idle
<1>8. ASSUME NEW c \in Conn, HeartbeatTimeout(c) \/ Remove(c)
      PROVE  HeadInv'
  BY <1>0, <1>8, HeadKept DEF HeartbeatTimeout, Remove, Pending
<1>9. ASSUME NEW c \in Conn, Connect(c)
      PROVE  HeadInv'
  <2>1. /\ UNCHANGED <<gw, active, head, late, up>> /\ Pending' = Pending
        /\ \A r \in Request : active[r] = "none"
    BY <1>9 DEF Connect, Pending, HeadInv, Idle
  <2>2. (\A d \in Conn : Begun(up[d], Pending))'
    BY <2>1 DEF HeadInv
  <2>3. Headed' /\ Idle' /\ Waits' /\ NotSent'
    BY <2>1 DEF HeadInv, Headed, Idle, Waits, NotSent, Pending
  <2> QED BY <2>2, <2>3 DEF HeadInv
<1>10. ASSUME NEW c \in Conn, CloseEvent(c)
       PROVE  HeadInv'
  <2>1. /\ up' = [up EXCEPT ![c] = <<>>] /\ UNCHANGED <<agent, active, head, late>>
        /\ Pending' = {}
    BY <1>10 DEF CloseEvent, CancelForInstance, Pending, Tracked
  <2>2. \A d \in Conn : \A k \in DOMAIN up'[d] : k \in DOMAIN up[d] /\ up'[d][k] = up[d][k]
    BY <2>1 DEF TypeOK
  <2>3. (\A d \in Conn : Begun(up[d], Pending))'
    BY <2>1 DEF Begun
  <2>4. Headed' /\ Idle' /\ Waits' /\ NotSent'
    BY <1>0, <2>1, <2>2 DEF HeadInv, Headed, Idle, Waits, NotSent
  <2> QED BY <2>3, <2>4 DEF HeadInv
<1>11. ASSUME NEW c \in Conn, AgentReceives(c)
       PROVE  HeadInv'
  <2> DEFINE m == Head(down[c])
  <2>1. /\ UNCHANGED <<gw, agent, up>> /\ agent = c /\ Pending' = Pending
        /\ down[c] \in Seq(Down) /\ down[c] # <<>>
    BY <1>11 DEF AgentReceives, Pending, TypeOK
  <2>2. m = down[c][1] /\ 1 \in DOMAIN down[c]
    BY <2>1
  <2>3. m.id \in Request
    <3> HIDE DEF m
    <3> QED BY <2>2, QueuedIds
  <2>4. CASE m.type = "http"
    <3>1. /\ active' = [active EXCEPT ![m.id] = "waiting"] /\ head' = [head EXCEPT ![m.id] = FALSE]
          /\ late' = late
      BY <1>11, <2>4 DEF AgentReceives
    <3> HIDE DEF m
    <3>2. Waits' /\ NotSent' /\ Idle' /\ Headed'
      BY <2>1, <2>3, <3>1, NoneNotConn DEF HeadInv, Waits, NotSent, Idle, Headed, Pending, TypeOK
    <3>3. (\A d \in Conn : Begun(up[d], Pending))'
      BY <2>1 DEF HeadInv
    <3> QED BY <3>2, <3>3 DEF HeadInv
  <2>5. CASE m.type # "http"
    <3>1. CancelRequest(m.id) /\ head' = head
      BY <1>11, <2>5 DEF AgentReceives
    <3> HIDE DEF m
    <3>2. \A q \in Request : active'[q] = active[q] \/ active'[q] = "none"
      BY <2>3, <3>1 DEF CancelRequest, FinishRequest, TypeOK
    <3>3. \A q \in Request : active[q] = "none" /\ late[q] = "nothing" => late'[q] = "nothing"
      BY <2>3, <3>1 DEF CancelRequest, LateEvents, TypeOK
    <3>4. NotSent'
      BY <2>1, <3>3 DEF HeadInv, NotSent, SentOnce
    <3>5. Waits' /\ Idle' /\ Headed'
      BY <2>1, <3>1, <3>2 DEF HeadInv, Waits, Idle, Headed, Pending
    <3>6. (\A d \in Conn : Begun(up[d], Pending))'
      BY <2>1 DEF HeadInv
    <3> QED BY <3>4, <3>5, <3>6 DEF HeadInv
  <2> QED BY <2>4, <2>5
<1>12. CASE AgentDrops
  <2>1. /\ UNCHANGED <<gw, up, head>> /\ Pending' = Pending
        /\ active' = [r \in Request |-> "none"] /\ late' = [r \in Request |-> "nothing"]
    BY <1>12 DEF AgentDrops, Pending
  <2>2. (\A d \in Conn : Begun(up[d], Pending))'
    BY <2>1 DEF HeadInv
  <2>3. Headed' /\ Idle' /\ Waits' /\ NotSent'
    BY <2>1 DEF HeadInv, Headed, Idle, Waits, NotSent, Pending
  <2> QED BY <2>2, <2>3 DEF HeadInv
<1> QED
  BY <1>1, <1>2, <1>3, <1>4, <1>5, <1>6, <1>7, <1>8, <1>9, <1>10, <1>11, <1>12 DEF Next

\* Whatever is lost, cancelled or delayed, a request that waits for its first frame never
\* gets a chunk or an end of stream first (forwardStreamingResponse, handleAgentHttpResponse).
THEOREM HeadFirst == Spec => []StreamsBeginWithHead
<1>1. Init => SentOnce /\ HeadInv
  <2> SUFFICES ASSUME Init PROVE SentOnce /\ HeadInv
    OBVIOUS
  <2>1. SentOnce
    BY DEF Init, SentOnce, IsRequest
  <2>2. HeadInv
    BY DEF Init, HeadInv, NotSent, Waits, Idle, Headed, Begun, Pending
  <2> QED BY <2>1, <2>2
<1>2. TypeOK /\ ResponseInv /\ (SentOnce /\ HeadInv) /\ [Next]_vars => (SentOnce /\ HeadInv)'
  BY SentStep, HeadStep
<1>3. HeadInv => StreamsBeginWithHead
  BY SameProperty DEF HeadInv
<1> QED BY <1>1, <1>2, <1>3, TypeCorrect, ResponsesConsistent, PTL DEF Spec

-----------------------------------------------------------------------------
(***************************************************************************)
(* No request is orphaned upstream, if the gateway has always noticed that  *)
(* a connection is dead before its agent is back.                           *)
(***************************************************************************)
CancelOf(r) == [type |-> "cancel", id |-> r]

\* In queue q, a request that is not of P is followed by its cancel.
Revoked(q, P) ==
  \A k \in DOMAIN q : q[k].type = "http" /\ q[k].id \notin P =>
    \E j \in DOMAIN q : j > k /\ q[j] = CancelOf(q[k].id)

LEMMA RevokedTail ==
  ASSUME NEW q \in Seq(Down), q # <<>>, NEW P, Revoked(q, P)
  PROVE  Revoked(Tail(q), P)
<1> SUFFICES ASSUME NEW k \in DOMAIN Tail(q), Tail(q)[k].type = "http", Tail(q)[k].id \notin P
             PROVE  \E j \in DOMAIN Tail(q) : j > k /\ Tail(q)[j] = CancelOf(Tail(q)[k].id)
  BY DEF Revoked
<1>1. /\ k \in Nat \ {0} /\ k + 1 \in DOMAIN q /\ Tail(q)[k] = q[k + 1]
      /\ DOMAIN q = 1 .. Len(q) /\ Len(q) \in Nat /\ DOMAIN Tail(q) = 1 .. Len(q) - 1
      /\ \A j \in 1 .. Len(q) - 1 : Tail(q)[j] = q[j + 1]
  OBVIOUS
<1>2. PICK j \in DOMAIN q : j > k + 1 /\ q[j] = CancelOf(q[k + 1].id)
  BY <1>1 DEF Revoked
<1>3. j - 1 \in DOMAIN Tail(q) /\ j - 1 > k /\ Tail(q)[j - 1] = q[j]
  BY <1>1, <1>2
<1> QED BY <1>1, <1>2, <1>3

LEMMA RevokedAppend ==
  ASSUME NEW q \in Seq(Down), NEW P, Revoked(q, P), NEW m \in Down, NEW Q,
         m.type = "http" => m.id \in Q,
         \A k \in DOMAIN q : q[k].type = "http" /\ q[k].id \in P \ Q => m = CancelOf(q[k].id)
  PROVE  Revoked(Append(q, m), Q)
<1> SUFFICES ASSUME NEW k \in DOMAIN Append(q, m), Append(q, m)[k].type = "http",
                    Append(q, m)[k].id \notin Q
             PROVE  \E j \in DOMAIN Append(q, m) :
                      j > k /\ Append(q, m)[j] = CancelOf(Append(q, m)[k].id)
  BY DEF Revoked
<1>1. /\ k \in 1 .. Len(q) + 1 /\ Len(q) \in Nat /\ DOMAIN q = 1 .. Len(q)
      /\ DOMAIN Append(q, m) = 1 .. Len(q) + 1
      /\ \A j \in DOMAIN q : Append(q, m)[j] = q[j]
      /\ Append(q, m)[Len(q) + 1] = m
  OBVIOUS
<1>2. k \in DOMAIN q
  BY <1>1
<1>3. CASE q[k].id \in P
  BY <1>1, <1>2, <1>3
<1>4. CASE q[k].id \notin P
  <2>1. PICK j \in DOMAIN q : j > k /\ q[j] = CancelOf(q[k].id)
    BY <1>1, <1>2, <1>4 DEF Revoked
  <2> QED BY <1>1, <1>2, <2>1
<1> QED BY <1>3, <1>4

LEMMA RevokedFewer ==
  ASSUME NEW q, NEW P, Revoked(q, P), NEW Q,
         \A k \in DOMAIN q : q[k].type = "http" => q[k].id \notin P \ Q
  PROVE  Revoked(q, Q)
BY DEF Revoked

\* A request that the agent has done with: it is not upstream, nor on its way.
Queued(r) == \E c \in Conn : \E k \in DOMAIN down[c] : IsRequest(c, k) /\ down[c][k].id = r
Done(r) == active[r] = "none" /\ ~Queued(r)

\* What the gateway sends.
LEMMA SentDown ==
  ASSUME TypeOK, NEW m \in Down, SendDown(m)
  PROVE  \A c \in Conn : \/ down'[c] = down[c]
                         \/ c = ws /\ Sendable /\ down'[c] = Append(down[c], m)
<1>1. CASE Sendable
  <2>1. ws \in Conn /\ down' = [down EXCEPT ![ws] = Append(down[ws], m)]
    BY <1>1 DEF TypeOK, Sendable, SendDown
  <2> QED BY <1>1, <2>1 DEF TypeOK
<1>2. CASE ~Sendable
  BY <1>2 DEF SendDown
<1> QED BY <1>1, <1>2

\* No message but a new request's own puts a request on its way.
LEMMA QueuedOld ==
  ASSUME TypeOK, [Next]_vars, NEW r \in Request, gw[r] \notin {"idle", "reading"}, Queued(r)'
  PROVE  Queued(r)
<1>0. PICK c \in Conn : \E k \in DOMAIN down'[c] : down'[c][k].type = "http" /\ down'[c][k].id = r
  BY DEF Queued, IsRequest
<1>1. PICK k \in DOMAIN down'[c] : down'[c][k].type = "http" /\ down'[c][k].id = r
  BY <1>0
<1> SUFFICES \E j \in DOMAIN down[c] : down[c][j] = down'[c][k]
  BY <1>1 DEF Queued, IsRequest
<1>2. CASE down'[c] = down[c]
  BY <1>2
<1>3. ASSUME NEW q \in Request, BodyRead(q)
      PROVE  \E j \in DOMAIN down[c] : down[c][j] = down'[c][k]
  <2> DEFINE m == [type |-> "http", id |-> q]
  <2>1. q # r /\ SendDown(m) /\ m \in Down /\ m.id = q
    BY <1>3 DEF BodyRead, Down
  <2> HIDE DEF m
  <2>2. CASE down'[c] = Append(down[c], m)
    <3>1. down[c] \in Seq(Down)
      BY DEF TypeOK
    <3>2. k \in DOMAIN Append(down[c], m) /\ Append(down[c], m)[k] # m
      BY <1>1, <2>1, <2>2
    <3>3. k \in DOMAIN down[c] /\ Append(down[c], m)[k] = down[c][k]
      BY <3>1, <3>2
    <3> QED BY <2>2, <3>3
  <2> QED BY <1>2, <2>1, <2>2, SentDown
<1>4. ASSUME NEW q \in Request, ProxyTimeout(q) \/ BrowserCloses(q)
      PROVE  \E j \in DOMAIN down[c] : down[c][j] = down'[c][k]
  <2> DEFINE m == [type |-> "cancel", id |-> q]
  <2>1. (SendDown(m) \/ down' = down) /\ m \in Down /\ m.type = "cancel"
    BY <1>4 DEF ProxyTimeout, BrowserCloses, SendCancel, Down
  <2> HIDE DEF m
  <2>2. CASE down'[c] = Append(down[c], m)
    <3>1. down[c] \in Seq(Down)
      BY DEF TypeOK
    <3>2. k \in DOMAIN Append(down[c], m) /\ Append(down[c], m)[k] # m
      BY <1>1, <2>1, <2>2
    <3>3. k \in DOMAIN down[c] /\ Append(down[c], m)[k] = down[c][k]
      BY <3>1, <3>2
    <3> QED BY <2>2, <3>3
  <2> QED BY <1>2, <2>1, <2>2, SentDown
<1>5. ASSUME NEW d \in Conn, CloseEvent(d)
      PROVE  \E j \in DOMAIN down[c] : down[c][j] = down'[c][k]
  BY <1>5 DEF CloseEvent, TypeOK
<1>6. ASSUME AgentDrops
      PROVE  \E j \in DOMAIN down[c] : down[c][j] = down'[c][k]
  BY <1>6 DEF AgentDrops, TypeOK
<1>7. ASSUME NEW d \in Conn, AgentReceives(d)
      PROVE  \E j \in DOMAIN down[c] : down[c][j] = down'[c][k]
  <2>1. down' = [down EXCEPT ![d] = Tail(down[d])] /\ down[d] \in Seq(Down) /\ down[d] # <<>>
    BY <1>7 DEF AgentReceives, TypeOK
  <2>2. CASE c = d
    <3>1. down'[c] = Tail(down[c])
      BY <2>1, <2>2 DEF TypeOK
    <3>2. k \in DOMAIN Tail(down[c]) /\ down[c] \in Seq(Down) /\ down[c] # <<>>
      BY <1>1, <2>1, <2>2, <3>1
    <3>3. k + 1 \in DOMAIN down[c] /\ Tail(down[c])[k] = down[c][k + 1]
      BY <3>2
    <3> QED BY <3>1, <3>3
  <2>3. CASE c # d
    BY <1>2, <2>1, <2>3 DEF TypeOK
  <2> QED BY <2>2, <2>3
<1>8. ASSUME UNCHANGED down
      PROVE  \E j \in DOMAIN down[c] : down[c][j] = down'[c][k]
  BY <1>2, <1>8
<1>9. /\ \A q \in Request : \/ \E s \in {"413", "503"} : Refuse(q, s)
                            \/ Admit(q) \/ BodyTooLarge(q) \/ UpstreamHead(q) \/ UpstreamChunk(q)
                            \/ UpstreamDone(q) \/ StreamDone(q) \/ StreamError(q)
                            => UNCHANGED down
      /\ \A d \in Conn : GatewayReceives(d) \/ HeartbeatTimeout(d) \/ Remove(d) \/ Connect(d)
                            => UNCHANGED down
      /\ UNCHANGED vars => UNCHANGED down
  BY DEF Refuse, Admit, BodyTooLarge, UpstreamHead, UpstreamChunk, UpstreamDone, StreamDone,
         StreamError, GatewayReceives, HeartbeatTimeout, Remove, Connect
<1> QED BY <1>3, <1>4, <1>5, <1>6, <1>7, <1>8, <1>9 DEF Next

\* What is done with stays so.
LEMMA DoneKept ==
  ASSUME TypeOK, [Next]_vars, NEW r \in Request, gw[r] \notin {"idle", "reading"}, Done(r)
  PROVE  Done(r)'
<1>1. ~Queued(r)'
  BY QueuedOld DEF Done
<1>2. ASSUME NEW c \in Conn, AgentReceives(c)
      PROVE  active'[r] = "none"
  <2> DEFINE m == Head(down[c])
  <2>1. down[c] \in Seq(Down) /\ down[c] # <<>>
    BY <1>2 DEF AgentReceives, TypeOK
  <2>2. m = down[c][1] /\ 1 \in DOMAIN down[c]
    BY <2>1
  <2>3. m.type = "http" => m.id # r
    BY <2>2 DEF Done, Queued, IsRequest
  <2>4. IF m.type = "http" THEN active' = [active EXCEPT ![m.id] = "waiting"]
                           ELSE FinishRequest(m.id)
    BY <1>2 DEF AgentReceives, CancelRequest
  <2> HIDE DEF m
  <2> QED BY <2>3, <2>4 DEF Done, FinishRequest, TypeOK
<1>3. ASSUME NEW q \in Request,
             UpstreamHead(q) \/ UpstreamDone(q) \/ StreamDone(q)
      PROVE  active'[r] = "none"
  BY <1>3 DEF UpstreamHead, UpstreamDone, StreamDone, FinishRequest, Done, TypeOK
<1>4. AgentDrops => active'[r] = "none"
  BY DEF AgentDrops
<1>5. /\ \A q \in Request : \/ \E s \in {"413", "503"} : Refuse(q, s)
                            \/ Admit(q) \/ BodyTooLarge(q) \/ BodyRead(q) \/ ProxyTimeout(q)
                            \/ BrowserCloses(q) \/ UpstreamChunk(q) \/ StreamError(q)
                            => UNCHANGED active
      /\ \A d \in Conn : GatewayReceives(d) \/ HeartbeatTimeout(d) \/ Remove(d) \/ Connect(d)
                           \/ CloseEvent(d) => UNCHANGED active
      /\ UNCHANGED vars => UNCHANGED active
  BY DEF Refuse, Admit, BodyTooLarge, BodyRead, ProxyTimeout, BrowserCloses, UpstreamChunk,
         StreamError, GatewayReceives, HeartbeatTimeout, Remove, Connect, CloseEvent
<1>6. active'[r] = "none"
  BY <1>2, <1>3, <1>4, <1>5 DEF Next, Done
<1> QED BY <1>1, <1>6 DEF Done

\* What ends a response, sent or about to be, comes when the agent has done with it.
Over == \A c \in Conn : \A k \in DOMAIN up[c] : \A r \in Request :
          up[c][k].type \in {"response", "end"} /\ up[c][k].id = r => Done(r)
LateDone == \A r \in Request : late[r] # "nothing" => Done(r)

LEMMA UpIds ==
  ASSUME TypeOK, NEW c \in Conn, NEW k \in DOMAIN up[c]
  PROVE  up[c][k] \in Up /\ up[c][k].id \in Request
<1>1. up[c] \in Seq(Up)
  BY DEF TypeOK
<1>2. up[c][k] \in Up
  BY <1>1, ElementOfSeq
<1> QED BY <1>2 DEF Up

LEMMA UpstreamMeansOut ==
  ASSUME TypeOK, SentOnce, NEW r \in Request, active[r] # "none"
  PROVE  ~Queued(r)
BY DEF SentOnce, Queued

\* What is new in a queue to the gateway.
LEMMA UpOld ==
  ASSUME TypeOK, SentOnce, HeadInv, LateDone, [Next]_vars, NEW c \in Conn, NEW k \in DOMAIN up'[c]
  PROVE  \/ \E j \in DOMAIN up[c] : up'[c][k] = up[c][j]
         \/ up'[c][k].type \notin {"response", "end"}
         \/ \E r \in Request : up'[c][k].id = r /\ Done(r)'
<1> DEFINE Fine == \/ \E j \in DOMAIN up[c] : up'[c][k] = up[c][j]
                   \/ up'[c][k].type \notin {"response", "end"}
                   \/ \E r \in Request : up'[c][k].id = r /\ Done(r)'
<1>1. CASE up'[c] = up[c]
  BY <1>1
<1>2. ASSUME NEW r \in Request, NEW t \in {"response", "head", "data", "end"},
             SendUp(<<Frame(t, r)>>) \/ SendUp(WithHead(r, <<Frame(t, r)>>)),
             t \in {"response", "end"} => Done(r)'
      PROVE  Fine
  <2>1. Frame(t, r).type = t /\ Frame(t, r).id = r /\ Frame("head", r).type = "head"
    BY DEF Frame
  <2>2. PICK fs \in Seq(Up) : /\ SendUp(fs)
                              /\ \A j \in DOMAIN fs : fs[j] \in {Frame(t, r), Frame("head", r)}
    <3>1. \A j \in DOMAIN <<Frame(t, r)>> : <<Frame(t, r)>>[j] = Frame(t, r)
      OBVIOUS
    <3>2. \A j \in DOMAIN WithHead(r, <<Frame(t, r)>>) :
            WithHead(r, <<Frame(t, r)>>)[j] \in {Frame(t, r), Frame("head", r)}
      BY DEF WithHead
    <3> QED BY <1>2, <3>1, <3>2, FrameTypes
  <2>3. CASE c = agent
    <3>1. up[c] \in Seq(Up) /\ up'[c] = up[c] \o fs
      BY <2>2, <2>3, NoneNotConn DEF SendUp, TypeOK
    <3>2. k \in DOMAIN (up[c] \o fs)
      BY <3>1
    <3>3. \/ k - Len(up[c]) \in DOMAIN fs /\ (up[c] \o fs)[k] = fs[k - Len(up[c])]
          \/ k \in DOMAIN up[c] /\ (up[c] \o fs)[k] = up[c][k]
      BY <2>2, <3>1, <3>2
    <3>4. up'[c][k] \in {Frame(t, r), Frame("head", r)} \/ \E j \in DOMAIN up[c] : up'[c][k] = up[c][j]
      BY <2>2, <3>1, <3>3
    <3> QED BY <1>2, <2>1, <3>4
  <2>4. CASE c # agent
    BY <1>1, <2>2, <2>4 DEF SendUp, TypeOK
  <2> QED BY <2>3, <2>4
<1>3. ASSUME NEW r \in Request, UpstreamChunk(r)
      PROVE  Fine
  BY <1>2, <1>3 DEF UpstreamChunk
<1>4. ASSUME NEW r \in Request, UpstreamDone(r) \/ StreamDone(r)
      PROVE  Fine
  <2>1. active[r] # "none" /\ FinishRequest(r) /\ down' = down
    BY <1>4 DEF UpstreamDone, StreamDone
  <2>2. ~Queued(r)'
    BY <2>1, UpstreamMeansOut DEF Queued, IsRequest
  <2>3. Done(r)'
    BY <2>1, <2>2 DEF Done, FinishRequest, TypeOK
  <2> QED BY <1>2, <1>4, <2>3 DEF UpstreamDone, StreamDone
<1>5. ASSUME NEW r \in Request, StreamError(r)
      PROVE  Fine
  <2>1. /\ SendUp(<<Frame(late[r], r)>>) /\ late[r] \in {"response", "head"} /\ Done(r)
        /\ UNCHANGED <<active, down>>
    BY <1>5 DEF StreamError, TypeOK, LateDone
  <2>2. Done(r)'
    BY <2>1 DEF Done, Queued, IsRequest
  <2> QED BY <1>2, <2>1, <2>2
<1>6. ASSUME NEW d \in Conn, GatewayReceives(d)
      PROVE  Fine
  <2>1. up' = [up EXCEPT ![d] = Tail(up[d])] /\ up[d] \in Seq(Up) /\ up[d] # <<>>
    BY <1>6 DEF GatewayReceives, TypeOK
  <2>2. CASE c = d
    <3>1. up'[c] = Tail(up[c]) /\ up[c] \in Seq(Up) /\ up[c] # <<>> /\ k \in DOMAIN Tail(up[c])
      BY <2>1, <2>2 DEF TypeOK
    <3>2. k + 1 \in DOMAIN up[c] /\ Tail(up[c])[k] = up[c][k + 1]
      BY <3>1
    <3> QED BY <3>1, <3>2
  <2>3. CASE c # d
    BY <1>1, <2>1, <2>3 DEF TypeOK
  <2> QED BY <2>2, <2>3
<1>7. ASSUME NEW d \in Conn, CloseEvent(d)
      PROVE  Fine
  BY <1>1, <1>7 DEF CloseEvent, TypeOK
<1>8. ASSUME UNCHANGED up
      PROVE  Fine
  BY <1>1, <1>8
<1>9. ASSUME NEW r \in Request,
             \/ \E s \in {"413", "503"} : Refuse(r, s)
             \/ Admit(r) \/ BodyTooLarge(r) \/ BodyRead(r) \/ ProxyTimeout(r)
             \/ BrowserCloses(r) \/ UpstreamHead(r)
      PROVE  Fine
  BY <1>8, <1>9 DEF Refuse, Admit, BodyTooLarge, BodyRead, ProxyTimeout, BrowserCloses, UpstreamHead
<1>10. ASSUME NEW d \in Conn, HeartbeatTimeout(d) \/ Remove(d) \/ Connect(d) \/ AgentReceives(d)
       PROVE  Fine
  BY <1>8, <1>10 DEF HeartbeatTimeout, Remove, Connect, AgentReceives
<1>11. CASE AgentDrops \/ UNCHANGED vars
  <2>1. UNCHANGED up
    BY <1>11 DEF AgentDrops
  <2>2. Fine
    BY <1>8, <2>1
  <2> QED BY <2>2
<1> HIDE DEF Fine
<1>12. Fine
  BY <1>3, <1>4, <1>5, <1>6, <1>7, <1>9, <1>10, <1>11 DEF Next, Fine
<1> QED BY <1>12 DEF Fine

LEMMA OverStep ==
  ASSUME TypeOK, SentOnce, HeadInv, Over, LateDone, [Next]_vars
  PROVE  Over' /\ LateDone'
<1>1. Over'
  <2> SUFFICES ASSUME NEW c \in Conn, NEW k \in DOMAIN up'[c], NEW r \in Request,
                      up'[c][k].type \in {"response", "end"}, up'[c][k].id = r
               PROVE  Done(r)'
    BY DEF Over
  <2>1. CASE \E j \in DOMAIN up[c] : up'[c][k] = up[c][j]
    <3>1. PICK j \in DOMAIN up[c] : up'[c][k] = up[c][j]
      BY <2>1
    <3>2. Done(r) /\ gw[r] \notin {"idle", "reading"}
      BY <3>1 DEF Over, HeadInv, NotSent
    <3> QED BY <3>2, DoneKept
  <2>2. CASE \E q \in Request : up'[c][k].id = q /\ Done(q)'
    BY <2>2
  <2> QED BY <2>1, <2>2, UpOld
<1>2. LateDone'
  <2> SUFFICES ASSUME NEW r \in Request, late'[r] # "nothing"
               PROVE  Done(r)'
    BY DEF LateDone
  <2>1. CASE late[r] # "nothing"
    BY <2>1, DoneKept DEF LateDone, HeadInv, NotSent
  <2>2. CASE late[r] = "nothing"
    <3>1. PICK c \in Conn : AgentReceives(c)
      BY <2>2, ZenonT(40) DEF Next, Refuse, Admit, BodyTooLarge, BodyRead, ProxyTimeout, BrowserCloses,
                  UpstreamHead, UpstreamChunk, UpstreamDone, StreamDone, StreamError,
                  GatewayReceives, HeartbeatTimeout, Remove, Connect, CloseEvent, AgentDrops, TypeOK
    <3> DEFINE m == Head(down[c])
    <3>2. late' = late \/ CancelRequest(m.id)
      BY <3>1 DEF AgentReceives
    <3> HIDE DEF m
    <3>3. m.id = r /\ active[r] # "none" /\ active'[r] = "none"
      BY <2>2, <3>2 DEF CancelRequest, LateEvents, FinishRequest, TypeOK
    <3>4. gw[r] \notin {"idle", "reading"} /\ ~Queued(r)
      BY <3>3, UpstreamMeansOut DEF SentOnce
    <3>5. ~Queued(r)'
      BY <3>4, QueuedOld
    <3> QED BY <3>3, <3>5 DEF Done
  <2> QED BY <2>1, <2>2
<1> QED BY <1>1, <1>2

\* One connection is alive at a time, and it is the one requests are sent on.
Live(c) == conn[c] \in {"open", "closing"}
OneLive ==
  /\ \A c, d \in Conn : Live(c) /\ Live(d) => c = d
  /\ ws # None => Live(ws)
  /\ \A c \in Conn : conn[c] = "unused" => down[c] = <<>>

LEMMA OneLiveStep ==
  ASSUME TypeOK, ~HalfOpen, OneLive, [Next]_vars
  PROVE  OneLive'
<1>1. ASSUME NEW c \in Conn, Connect(c)
      PROVE  OneLive'
  <2>1. \A d \in Conn : conn[d] \in {"unused", "closed"}
    BY <1>1 DEF Connect
  <2>2. /\ conn'[c] = "open" /\ ws' = c /\ down' = down
        /\ \A d \in Conn \ {c} : conn'[d] = conn[d]
    BY <1>1, <2>1 DEF Connect
  <2> QED BY <2>1, <2>2 DEF OneLive, Live
<1>2. ASSUME NEW c \in Conn, HeartbeatTimeout(c) \/ Remove(c)
      PROVE  OneLive'
  <2>1. /\ conn' = [conn EXCEPT ![c] = "closing"] /\ Live(c) /\ down' = down
        /\ ws' \in {ws, None}
    BY <1>2, NoneNotConn DEF HeartbeatTimeout, Remove, OneLive
  <2> QED BY <2>1 DEF OneLive, Live, TypeOK
<1>3. ASSUME NEW c \in Conn, CloseEvent(c)
      PROVE  OneLive'
  <2>1. /\ conn' = [conn EXCEPT ![c] = "closed"] /\ ws' = IF ws = c THEN None ELSE ws
        /\ down' = [down EXCEPT ![c] = <<>>]
    BY <1>3 DEF CloseEvent
  <2> QED BY <2>1 DEF OneLive, Live, TypeOK
<1>4. ASSUME UNCHANGED <<conn, ws>>,
             \A d \in Conn : conn[d] = "unused" /\ down[d] = <<>> => down'[d] = <<>>
      PROVE  OneLive'
  BY <1>4 DEF OneLive, Live
<1>5. ASSUME NEW r \in Request, NEW m \in Down, SendDown(m), UNCHANGED <<conn, ws>>
      PROVE  OneLive'
  <2>1. \A d \in Conn : conn[d] = "unused" => down'[d] = down[d]
    BY <1>5, SentDown DEF Sendable
  <2> QED BY <1>4, <1>5, <2>1
<1>6. ASSUME NEW r \in Request, BodyRead(r) \/ ProxyTimeout(r) \/ BrowserCloses(r)
      PROVE  OneLive'
  <2>1. [type |-> "http", id |-> r] \in Down /\ [type |-> "cancel", id |-> r] \in Down
    BY DEF Down
  <2>2. /\ UNCHANGED <<conn, ws>>
        /\ \/ SendDown([type |-> "http", id |-> r]) \/ SendDown([type |-> "cancel", id |-> r])
           \/ down' = down
    BY <1>6 DEF BodyRead, ProxyTimeout, BrowserCloses, SendCancel
  <2> QED BY <1>4, <1>5, <2>1, <2>2
<1>7. ASSUME NEW c \in Conn, AgentReceives(c)
      PROVE  OneLive'
  <2>1. UNCHANGED <<conn, ws>> /\ down' = [down EXCEPT ![c] = Tail(down[c])] /\ down[c] # <<>>
    BY <1>7 DEF AgentReceives
  <2> QED BY <1>4, <2>1 DEF TypeOK
<1>8. ASSUME AgentDrops
      PROVE  OneLive'
  <2>1. UNCHANGED <<conn, ws>> /\ down' = [down EXCEPT ![agent] = <<>>]
    BY <1>8 DEF AgentDrops
  <2> QED BY <1>4, <2>1 DEF TypeOK
<1>9. ASSUME UNCHANGED <<conn, ws, down>>
      PROVE  OneLive'
  BY <1>4, <1>9
<1>10. ASSUME NEW r \in Request,
              \/ \E s \in {"413", "503"} : Refuse(r, s)
              \/ Admit(r) \/ BodyTooLarge(r) \/ UpstreamHead(r) \/ UpstreamChunk(r)
              \/ UpstreamDone(r) \/ StreamDone(r) \/ StreamError(r)
       PROVE  OneLive'
  BY <1>9, <1>10 DEF Refuse, Admit, BodyTooLarge, UpstreamHead, UpstreamChunk, UpstreamDone,
                     StreamDone, StreamError
<1>11. ASSUME NEW c \in Conn, GatewayReceives(c)
       PROVE  OneLive'
  BY <1>9, <1>11 DEF GatewayReceives
<1>12. CASE UNCHANGED vars
  BY <1>9, <1>12
<1> QED BY <1>1, <1>2, <1>3, <1>6, <1>7, <1>8, <1>10, <1>11, <1>12 DEF Next

\* A request on its way to the agent is tracked, or its cancel is behind it.
Called == Sendable => Revoked(down[ws], Tracked)
Cancels(q, r) == \E k \in DOMAIN q : q[k] = CancelOf(r)
Orphanless == Called /\ NoOrphan

LEMMA NoOrphanIs ==
  NoOrphan <=> \A r \in Request : active[r] # "none" /\ Sendable /\ agent = ws =>
                                    r \in Tracked \/ Cancels(down[ws], r)
BY DEF NoOrphan, CancelOnItsWay, Cancels, CancelOf

\* The connection has changed, or nothing can be sent any more.
LEMMA NotSendable == ASSUME ~Sendable' PROVE Orphanless'
BY DEF Orphanless, Called, NoOrphan

\* The gateway forgets at most requests that the agent has done with.
LEMMA Forgets ==
  ASSUME TypeOK, Orphanless, UNCHANGED <<ws, conn, agent, down>>,
         \A r \in Request : active[r] = "none" => active'[r] = "none",
         \A r \in Request : r \in Tracked \ Tracked' => Done(r)
  PROVE  Orphanless'
<1>1. Called'
  <2> SUFFICES ASSUME Sendable PROVE Revoked(down[ws], Tracked')
    BY DEF Called, Sendable
  <2>1. ws \in Conn
    BY DEF Sendable, TypeOK
  <2>2. \A k \in DOMAIN down[ws] : down[ws][k].type = "http" => down[ws][k].id \notin Tracked \ Tracked'
    BY <2>1, QueuedIds DEF Done, Queued, IsRequest
  <2> QED BY <2>2, RevokedFewer DEF Orphanless, Called
<1>2. \A r \in Request : active'[r] # "none" /\ Sendable' /\ agent' = ws' =>
                           r \in Tracked' \/ Cancels(down'[ws'], r)
  BY NoOrphanIs DEF Orphanless, Sendable, Done
<1>3. NoOrphan'
  BY <1>2 DEF NoOrphan, CancelOnItsWay, Cancels, CancelOf
<1> QED BY <1>1, <1>3 DEF Orphanless

\* The gateway sends m about r, and from then on the requests it tracks are others only
\* in r: it is new, or m is its cancel.
LEMMA Sends ==
  ASSUME TypeOK, SentOnce, Orphanless, UNCHANGED <<ws, conn, agent, active>>, NEW r \in Request,
         NEW m \in Down, SendDown(m), m.id = r, Tracked \ {r} \subseteq Tracked',
         IF m.type = "http" THEN r \in Tracked' \/ ~Sendable ELSE m = CancelOf(r)
  PROVE  Orphanless'
<1>1. CASE ~Sendable
  BY <1>1, NotSendable DEF Sendable
<1>2. CASE Sendable
  <2>1. ws \in Conn /\ down[ws] \in Seq(Down) /\ down' = [down EXCEPT ![ws] = Append(down[ws], m)]
    BY <1>2 DEF Sendable, TypeOK, SendDown
  <2>2. down'[ws] = Append(down[ws], m)
    BY <2>1 DEF TypeOK
  <2>3. \A k \in DOMAIN down[ws] :
          down[ws][k].type = "http" /\ down[ws][k].id \in Tracked \ Tracked' => m = CancelOf(down[ws][k].id)
    <3> SUFFICES ASSUME NEW k \in DOMAIN down[ws], down[ws][k].type = "http",
                        down[ws][k].id \in Tracked \ Tracked'
                 PROVE  m = CancelOf(down[ws][k].id)
      OBVIOUS
    <3>1. down[ws][k].id = r /\ r \notin Tracked'
      OBVIOUS
    <3> QED BY <1>2, <3>1
  <2>4. m.type = "http" => m.id \in Tracked'
    BY <1>2
  <2>5. Revoked(Append(down[ws], m), Tracked')
    BY <1>2, <2>1, <2>3, <2>4, RevokedAppend DEF Orphanless, Called
  <2>6. Called'
    BY <2>2, <2>5 DEF Called
  <2>7. \A k \in DOMAIN down[ws] : k \in DOMAIN Append(down[ws], m)
                                   /\ Append(down[ws], m)[k] = down[ws][k]
    BY <2>1
  <2>8. m = CancelOf(r) => Cancels(Append(down[ws], m), r)
    <3>1. Len(down[ws]) + 1 \in DOMAIN Append(down[ws], m) /\ Append(down[ws], m)[Len(down[ws]) + 1] = m
      BY <2>1
    <3> QED BY <3>1 DEF Cancels
  <2>9. \A q \in Request : active[q] # "none" /\ agent = ws =>
                             q \in Tracked' \/ Cancels(Append(down[ws], m), q)
    <3> SUFFICES ASSUME NEW q \in Request, active[q] # "none", agent = ws, q \notin Tracked'
                 PROVE  Cancels(Append(down[ws], m), q)
      OBVIOUS
    <3>1. CASE q = r
      BY <1>2, <2>8, <3>1
    <3>2. CASE q # r
      <4>1. Cancels(down[ws], q)
        BY <1>2, <3>2, NoOrphanIs DEF Orphanless
      <4> QED BY <2>7, <4>1 DEF Cancels
    <3> QED BY <3>1, <3>2
  <2>10. NoOrphan'
    BY <2>2, <2>9 DEF NoOrphan, CancelOnItsWay, Cancels, CancelOf
  <2> QED BY <2>6, <2>10 DEF Orphanless
<1> QED BY <1>1, <1>2

LEMMA OrphanStep ==
  ASSUME TypeOK, SentOnce, HeadInv, Over, OneLive, Orphanless, [Next]_vars
  PROVE  Orphanless'
<1>1. ASSUME NEW r \in Request,
             \/ \E s \in {"413", "503"} : Refuse(r, s)
             \/ Admit(r) \/ BodyTooLarge(r)
      PROVE  Orphanless'
  <2>1. UNCHANGED <<ws, conn, agent, down, active>> /\ Tracked' = Tracked
    BY <1>1 DEF Refuse, Admit, BodyTooLarge, Tracked, Pending, Streaming, TypeOK
  <2> QED BY <2>1, Forgets
<1>2. ASSUME NEW r \in Request, BodyRead(r)
      PROVE  Orphanless'
  <2> DEFINE m == [type |-> "http", id |-> r]
  <2>1. /\ UNCHANGED <<ws, conn, agent, active>> /\ SendDown(m)
        /\ m \in Down /\ m.id = r /\ m.type = "http"
    BY <1>2 DEF BodyRead, Down
  <2>2. Tracked \ {r} \subseteq Tracked' /\ (r \in Tracked' \/ ~Sendable)
    BY <1>2 DEF BodyRead, Cleanup, Tracked, Pending, Streaming, TypeOK
  <2> HIDE DEF m
  <2> QED BY <2>1, <2>2, Sends
<1>3. ASSUME NEW r \in Request, ProxyTimeout(r) \/ BrowserCloses(r)
      PROVE  Orphanless'
  <2>1. UNCHANGED <<ws, conn, agent, active>> /\ Tracked \ {r} \subseteq Tracked'
    BY <1>3 DEF ProxyTimeout, BrowserCloses, Cleanup, Tracked, Pending, Streaming, TypeOK
  <2>2. CASE SendCancel(r)
    <3>1. SendDown(CancelOf(r)) /\ CancelOf(r) \in Down /\ CancelOf(r).id = r
          /\ CancelOf(r).type # "http"
      BY <2>2 DEF SendCancel, CancelOf, Down
    <3> QED BY <2>1, <3>1, Sends
  <2>3. CASE ~SendCancel(r)
    <3>1. down' = down /\ Tracked' = Tracked
      BY <1>3, <2>3 DEF ProxyTimeout, BrowserCloses, Cleanup, Tracked, Pending, Streaming, TypeOK
    <3> QED BY <2>1, <3>1, Forgets
  <2> QED BY <2>2, <2>3
<1>4. ASSUME NEW c \in Conn, GatewayReceives(c)
      PROVE  Orphanless'
  <2> DEFINE f == Head(up[c])
  <2>1. UNCHANGED <<ws, conn, agent, down, active>> /\ up[c] \in Seq(Up) /\ up[c] # <<>>
    BY <1>4 DEF GatewayReceives, TypeOK
  <2>2. f = up[c][1] /\ 1 \in DOMAIN up[c]
    BY <2>1
  <2>3. f.id \in Pending => f.type \notin {"data", "end"}
    <3>1. Begun(up[c], Pending) /\ 1 .. 1 - 1 = {}
      BY DEF HeadInv
    <3> HIDE DEF f
    <3> QED BY <2>2, <3>1 DEF Begun
  <2>4. f.id \in Request /\ f.type \in {"response", "head", "data", "end"}
    <3>1. up[c][1] \in Up
      BY <2>2, UpIds
    <3> HIDE DEF f
    <3> QED BY <2>2, <3>1 DEF Up
  <2>5. \/ f.id \in Streaming /\ OnStreamFrame(f.id, f.type)
        \/ f.id \in Pending /\ OnFirstFrame(f.id, f.type)
        \/ f.id \notin Tracked /\ gw' = gw
    BY <1>4 DEF GatewayReceives
  <2>6. f.type \in {"response", "end"} => Done(f.id)
    <3> HIDE DEF f
    <3> QED BY <2>2, <2>4 DEF Over
  <2> HIDE DEF f
  <2>7. \A r \in Tracked \ Tracked' : r = f.id /\ f.type \in {"response", "end"}
    BY <2>3, <2>4, <2>5 DEF OnStreamFrame, OnFirstFrame, Cleanup, Promote, Tracked, Pending,
                            Streaming, TypeOK
  <2> QED BY <2>1, <2>6, <2>7, Forgets
<1>5. ASSUME NEW c \in Conn, HeartbeatTimeout(c) \/ Remove(c) \/ CloseEvent(c)
      PROVE  Orphanless'
  <2>1. ~Sendable'
    BY <1>5 DEF HeartbeatTimeout, Remove, CloseEvent, Sendable, OneLive, Live, TypeOK
  <2> QED BY <2>1, NotSendable
<1>6. ASSUME NEW c \in Conn, Connect(c)
      PROVE  Orphanless'
  <2>1. /\ ws' = c /\ down' = down /\ down[c] = <<>> /\ active' = active
        /\ \A r \in Request : active[r] = "none"
    BY <1>6 DEF Connect, OneLive, HeadInv, Idle
  <2> QED BY <2>1 DEF Orphanless, Called, Revoked, NoOrphan
<1>7. ASSUME NEW c \in Conn, AgentReceives(c)
      PROVE  Orphanless'
  <2> DEFINE m == Head(down[c])
  <2>1. /\ UNCHANGED <<gw, ws, conn, agent>> /\ agent = c /\ Tracked' = Tracked
        /\ down[c] \in Seq(Down) /\ down[c] # <<>>
        /\ down' = [down EXCEPT ![c] = Tail(down[c])]
    BY <1>7 DEF AgentReceives, Tracked, Pending, Streaming, TypeOK
  <2>2. /\ m = down[c][1] /\ 1 \in DOMAIN down[c]
        /\ \A j \in DOMAIN down[c] : j = 1 \/ (/\ j - 1 \in DOMAIN Tail(down[c])
                                               /\ Tail(down[c])[j - 1] = down[c][j])
    BY <2>1
  <2>3. IF m.type = "http" THEN active' = [active EXCEPT ![m.id] = "waiting"]
                           ELSE FinishRequest(m.id)
    BY <1>7 DEF AgentReceives, CancelRequest
  <2> HIDE DEF m
  <2>4. down'[c] = Tail(down[c]) /\ \A d \in Conn \ {c} : down'[d] = down[d]
    BY <2>1 DEF TypeOK
  <2>5. Called'
    <3> SUFFICES ASSUME Sendable PROVE Revoked(down'[ws], Tracked)
      BY <2>1 DEF Called, Sendable
    <3>1. Revoked(down[ws], Tracked) /\ ws \in Conn
      BY DEF Orphanless, Called, Sendable, TypeOK
    <3>2. CASE ws = c
      BY <2>1, <2>4, <3>1, <3>2, RevokedTail
    <3>3. CASE ws # c
      BY <2>4, <3>1, <3>3
    <3> QED BY <3>2, <3>3
  <2>6. ASSUME NEW r \in Request, active'[r] # "none", Sendable, agent = ws, r \notin Tracked
        PROVE  Cancels(down'[ws], r)
    <3>1. PICK j \in DOMAIN down[c] : j # 1 /\ down[c][j] = CancelOf(r)
      <4>1. CASE m.type = "http" /\ m.id = r
        <5>1. Revoked(down[c], Tracked)
          BY <2>1, <2>6 DEF Orphanless, Called
        <5> QED BY <2>2, <2>6, <4>1, <5>1 DEF Revoked
      <4>2. CASE ~(m.type = "http" /\ m.id = r)
        <5>1. active[r] # "none" /\ m # CancelOf(r)
          BY <2>3, <2>6, <4>2 DEF FinishRequest, CancelOf, TypeOK
        <5>2. Cancels(down[c], r)
          BY <2>1, <2>6, <5>1, NoOrphanIs DEF Orphanless
        <5> QED BY <2>2, <5>1, <5>2 DEF Cancels
      <4> QED BY <4>1, <4>2
    <3>2. j - 1 \in DOMAIN Tail(down[c]) /\ Tail(down[c])[j - 1] = CancelOf(r)
      BY <2>2, <3>1
    <3>3. down'[ws] = Tail(down[c])
      BY <2>1, <2>4, <2>6
    <3> QED BY <3>2, <3>3 DEF Cancels
  <2>7. NoOrphan'
    BY <2>1, <2>6 DEF NoOrphan, CancelOnItsWay, Cancels, CancelOf, Sendable
  <2> QED BY <2>5, <2>7 DEF Orphanless
<1>8. CASE AgentDrops
  <2>1. /\ UNCHANGED <<gw, ws, conn>> /\ Tracked' = Tracked
        /\ active' = [r \in Request |-> "none"] /\ down' = [down EXCEPT ![agent] = <<>>]
    BY <1>8 DEF AgentDrops, Tracked, Pending, Streaming
  <2>2. Called'
    <3> SUFFICES ASSUME Sendable PROVE Revoked(down'[ws], Tracked)
      BY <2>1 DEF Called, Sendable
    <3>1. down'[ws] = down[ws] \/ down'[ws] = <<>>
      BY <2>1 DEF Sendable, TypeOK
    <3>2. Revoked(<<>>, Tracked) /\ Revoked(down[ws], Tracked)
      BY DEF Revoked, Orphanless, Called
    <3> QED BY <3>1, <3>2
  <2>3. NoOrphan'
    BY <2>1 DEF NoOrphan
  <2> QED BY <2>2, <2>3 DEF Orphanless
<1>9. ASSUME NEW r \in Request,
             \/ UpstreamHead(r) \/ UpstreamChunk(r) \/ UpstreamDone(r) \/ StreamDone(r)
             \/ StreamError(r)
      PROVE  Orphanless'
  <2>1. UNCHANGED <<gw, ws, conn, agent, down>> /\ Tracked' = Tracked
    BY <1>9 DEF UpstreamHead, UpstreamChunk, UpstreamDone, StreamDone, StreamError,
                Tracked, Pending, Streaming
  <2>2. \A q \in Request : active[q] = "none" => active'[q] = "none"
    BY <1>9 DEF UpstreamHead, UpstreamChunk, UpstreamDone, StreamDone, StreamError,
                FinishRequest, TypeOK
  <2> QED BY <2>1, <2>2, Forgets
<1>10. CASE UNCHANGED vars
  <2>1. UNCHANGED <<ws, conn, agent, down, active>> /\ Tracked' = Tracked
    BY <1>10 DEF Tracked, Pending, Streaming
  <2> QED BY <2>1, Forgets
<1> QED BY <1>1, <1>2, <1>3, <1>4, <1>5, <1>6, <1>7, <1>8, <1>9, <1>10 DEF Next

\* Unless the agent comes back before the gateway has noticed that its previous connection
\* is dead, it has no request upstream that the gateway has forgotten without telling it
\* (docs/adr/0003: a cancel "ensures upstream SSE connections are released promptly").
THEOREM NoneOrphaned == ASSUME ~HalfOpen PROVE Spec => []NoOrphan
<1> DEFINE OrphanInv == SentOnce /\ HeadInv /\ Over /\ LateDone /\ OneLive /\ Orphanless
<1>1. Init => OrphanInv
  <2> SUFFICES ASSUME Init PROVE OrphanInv
    OBVIOUS
  <2>1. SentOnce
    BY DEF Init, SentOnce, IsRequest
  <2>2. HeadInv
    BY DEF Init, HeadInv, NotSent, Waits, Idle, Headed, Begun, Pending
  <2>3. Over /\ LateDone /\ OneLive /\ Orphanless
    BY NoneNotConn DEF Init, Over, LateDone, OneLive, Live, Orphanless, Called, Sendable, NoOrphan
  <2> QED BY <2>1, <2>2, <2>3
<1>2. TypeOK /\ ResponseInv /\ OrphanInv /\ [Next]_vars => OrphanInv'
  <2> SUFFICES ASSUME TypeOK, ResponseInv, OrphanInv, [Next]_vars PROVE OrphanInv'
    OBVIOUS
  <2>1. SentOnce' /\ HeadInv' /\ Over' /\ LateDone'
    BY SentStep, HeadStep, OverStep
  <2>2. OneLive' /\ Orphanless'
    BY OneLiveStep, OrphanStep
  <2> QED BY <2>1, <2>2
<1>3. OrphanInv => NoOrphan
  BY DEF Orphanless
<1> HIDE DEF OrphanInv
<1> QED BY <1>1, <1>2, <1>3, TypeCorrect, ResponsesConsistent, PTL DEF Spec

\* Unless the agent comes back before the gateway has noticed that its previous connection
\* is dead, the 'close' of a connection ends no request that travels on another one, open
\* at both ends: cancelForInstance, which asks for the instance and not for the connection,
\* is then as precise as router.ts says.
THEOREM CleanedByOwnClose == ~HalfOpen => (Spec => OnlyDisconnectedCleaned)
<1> SUFFICES ASSUME ~HalfOpen PROVE Spec => OnlyDisconnectedCleaned
  OBVIOUS
<1> DEFINE Spared == \A c \in Conn, r \in Request :
                       CloseEvent(c) /\ c # ws /\ r \in Tracked =>
                         ~(Sendable /\ agent = ws /\ via[r] = ws)
<1>1. Init => OneLive
  BY NoneNotConn DEF Init, OneLive, Live
<1>2. TypeOK /\ OneLive /\ [Next]_vars => OneLive'
  BY OneLiveStep
<1>3. TypeOK /\ OneLive /\ [Next]_vars => [Spared]_vars
  <2> SUFFICES ASSUME TypeOK, OneLive, NEW c \in Conn, CloseEvent(c), c # ws, Sendable
               PROVE  FALSE
    OBVIOUS
  <2>1. Live(c) /\ ws \in Conn /\ Live(ws)
    BY DEF CloseEvent, Live, Sendable, OneLive, TypeOK
  <2> QED BY <2>1 DEF OneLive
<1> QED BY <1>1, <1>2, <1>3, TypeCorrect, PTL DEF Spec, OnlyDisconnectedCleaned

-----------------------------------------------------------------------------
(***************************************************************************)
(* The connections requests travel on (GatewayEnd).  The one that is sent   *)
(* on has not been closed yet, half-open connections or not.                *)
(***************************************************************************)
Link == [c \in Conn |-> LinkOf(c)]
WsLive == ws # None => Live(ws)

LEMMA GatewayStep ==
  ASSUME TypeOK, WsLive, [Next]_vars
  PROVE  WsLive' /\ [Gateway!Next]_(Gateway!vars)
<1>1. ASSUME UNCHANGED <<ws, conn>>
      PROVE  WsLive' /\ UNCHANGED Gateway!vars
  BY <1>1 DEF Gateway!vars, LinkOf, WsLive, Live, Sendable
<1>2. ASSUME NEW c \in Conn, CloseEvent(c)
      PROVE  WsLive' /\ Gateway!CloseEvent(c)
  <2>1. /\ conn[c] \in {"open", "closing"} /\ conn' = [conn EXCEPT ![c] = "closed"]
        /\ ws' = IF ws = c THEN None ELSE ws
    BY <1>2 DEF CloseEvent
  <2>2. Link' = [Link EXCEPT ![c] = "none"] /\ LinkOf(c) # "none"
    BY <2>1 DEF Link, LinkOf, TypeOK
  <2>3. \/ ws = c /\ ws' = None /\ ~Sendable'
        \/ ws # c /\ ws' = ws /\ Sendable' = Sendable
    BY <2>1 DEF TypeOK, Sendable
  <2>4. WsLive'
    BY <2>1 DEF WsLive, Live, TypeOK
  <2> QED BY <2>2, <2>3, <2>4 DEF Gateway!CloseEvent, Link
<1>3. ASSUME NEW c \in Conn, Connect(c)
      PROVE  WsLive' /\ Gateway!Register(c)
  <2>1. Link' = [[d \in Conn |-> IF d = ws /\ Link[d] = "open" THEN "closing" ELSE Link[d]]
                   EXCEPT ![c] = "open"]
    BY <1>3 DEF Connect, Link, LinkOf, TypeOK
  <2>2. LinkOf(c) = "none" /\ ws' = c /\ conn'[c] = "open" /\ Sendable'
    BY <1>3, NoneNotConn DEF Connect, LinkOf, Sendable
  <2> QED BY <2>1, <2>2 DEF Gateway!Register, Gateway!Closed, Link, WsLive, Live
<1>4. ASSUME NEW c \in Conn, HeartbeatTimeout(c) \/ Remove(c)
      PROVE  WsLive' /\ (Gateway!Timeout \/ Gateway!Remove)
  <2>1. ws = c /\ Live(c) /\ conn' = [conn EXCEPT ![c] = "closing"] /\ ~Sendable' /\ WsLive'
    BY <1>4, NoneNotConn DEF HeartbeatTimeout, Remove, WsLive, Live, Sendable, TypeOK
  <2>2. Link' = Gateway!Closed(ws)
    BY <2>1 DEF Link, LinkOf, Gateway!Closed, Live, TypeOK
  <2> QED BY <1>4, <2>1, <2>2, NoneNotConn
          DEF HeartbeatTimeout, Remove, Gateway!Timeout, Gateway!Remove, Link, Sendable
<1>5. ASSUME NEW r \in Request,
             \/ \E x \in {"413", "503"} : Refuse(r, x)
             \/ Admit(r) \/ BodyTooLarge(r) \/ BodyRead(r) \/ ProxyTimeout(r) \/ BrowserCloses(r)
             \/ UpstreamHead(r) \/ UpstreamChunk(r) \/ UpstreamDone(r) \/ StreamDone(r)
             \/ StreamError(r)
      PROVE  UNCHANGED <<ws, conn>>
  BY <1>5 DEF Refuse, Admit, BodyTooLarge, BodyRead, ProxyTimeout, BrowserCloses, UpstreamHead,
     UpstreamChunk, UpstreamDone, StreamDone, StreamError, connVars
<1>6. ASSUME AgentDrops \/ \E c \in Conn : GatewayReceives(c) \/ AgentReceives(c)
      PROVE  UNCHANGED <<ws, conn>>
  BY <1>6 DEF GatewayReceives, AgentReceives, AgentDrops, connVars
<1> QED
  BY <1>1, <1>2, <1>3, <1>4, <1>5, <1>6 DEF Next, Gateway!Next, vars

\* The connections requests travel on come and go as the registry allows.
THEOREM Connected == Spec => GatewaySpec
<1>1. Init => WsLive /\ Gateway!Init
  BY DEF Init, Gateway!Init, LinkOf, Sendable, WsLive
<1>2. TypeOK /\ WsLive /\ [Next]_vars => WsLive' /\ [Gateway!Next]_(Gateway!vars)
  BY GatewayStep
<1> QED BY <1>1, <1>2, TypeCorrect, PTL DEF Spec, GatewaySpec, Gateway!Spec

=============================================================================
