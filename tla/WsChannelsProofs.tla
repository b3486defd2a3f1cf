--------------------------- MODULE WsChannelsProofs ---------------------------
(***************************************************************************)
(* The WebSocket channels, proved for any number of sockets, connections    *)
(* and restarts of the gateway.                                             *)
(*                                                                         *)
(* Ids are unique among what one gateway process has handed out; a restart  *)
(* hands them out again.  What keeps the channels of two processes apart is *)
(* that the agent comes back only when its sockets to localhost have gone   *)
(* (~SlowClose): from then on every live one was opened by the process it   *)
(* talks to.                                                                *)
(***************************************************************************)
EXTENDS WsChannels, FiniteSetTheorems, SequenceTheorems, TLAPS

USE NoneAssumption, BoundAssumption, SwitchAssumption

LiveB(b) == browser[b] \in {"open", "closing"}
LiveL(l) == local[l] \in {"connecting", "open", "closing", "aborted", "failed"}
Linked(c) == conn[c] \in {"open", "closing"}
Usable(l) == local[l] \in {"connecting", "open"}
Elements(s) == {s[k] : k \in DOMAIN s}

\* The steps that are about the tunnel's connections alone.
Tunnel == \/ HeartbeatTimeout \/ Remove
          \/ \E c \in Conn : Heartbeat(c) \/ PeerClosing(c)

-----------------------------------------------------------------------------
BidInv ==
  \A b \in Browser : LiveB(b) =>
    /\ bid[b] \in Id /\ bid[b] < nextId
    /\ \A a \in Browser : LiveB(a) /\ bid[a] = bid[b] => a = b

IdsInv == \A l \in Local : LiveL(l) => lid[l] \in Id
TypeInv == TypeOK /\ BidInv /\ IdsInv /\ OpenIsTracked

TypeGateway ==
  /\ nextId \in 1 .. Cardinality(Browser) + 1
  /\ chan \in [Id -> Browser \cup {None}]
  /\ browser \in [Browser -> {"new", "open", "closing", "closed"}]
  /\ bid \in [Browser -> Id \cup {None}]
  /\ via \in [Browser -> Conn \cup {None}]
TypeConn ==
  /\ online \in BOOLEAN /\ ws \in Conn \cup {None} /\ agent \in Conn \cup {None}
  /\ conn \in [Conn -> {"unused", "open", "closing", "closed"}]
  /\ restarts \in 0 .. MaxRestarts
TypeAgent ==
  /\ act \in [Id -> Local \cup {None}]
  /\ local \in [Local -> {"unused", "connecting", "open", "closing", "aborted", "failed", "closed"}]
  /\ lid \in [Local -> Id \cup {None}]
  /\ for \in [Local -> Browser \cup {None}]
TypePend == pend \in [Id -> Seq(FromBrowser)] /\ \A i \in Id : Len(pend[i]) <= MaxPending
TypeFrames == down \in [Conn -> Seq(Down)] /\ up \in [Conn -> Seq(Up)]
TypeData ==
  /\ bsent \in [Browser -> 0 .. MaxSent] /\ lsent \in [Local -> 0 .. MaxSent]
  /\ bgot \in [Browser -> Seq(FromLocal)] /\ lgot \in [Local -> Seq(FromBrowser)]

LEMMA TypeParts ==
  TypeOK <=> TypeGateway /\ TypeConn /\ TypeAgent /\ TypePend /\ TypeFrames /\ TypeData
BY Zenon DEF TypeOK, TypeGateway, TypeConn, TypeAgent, TypePend, TypeFrames, TypeData

LEMMA TypePartsNext ==
  TypeOK' <=> TypeGateway' /\ TypeConn' /\ TypeAgent' /\ TypePend' /\ TypeFrames' /\ TypeData'
BY Zenon DEF TypeOK, TypeGateway, TypeConn, TypeAgent, TypePend, TypeFrames, TypeData

LEMMA IdNat == Cardinality(Browser) \in Nat /\ Id = 1 .. Cardinality(Browser) /\ Id \subseteq Nat
BY BrowserAssumption, FS_CardinalityType DEF Id

LEMMA OneTyped == ASSUME NEW S, NEW x \in S PROVE <<x>> \in Seq(S)
OBVIOUS

LEMMA TwoTyped == ASSUME NEW S, NEW x \in S, NEW y \in S PROVE <<x, y>> \in Seq(S)
OBVIOUS

LEMMA Repeated ==
  ASSUME NEW S, NEW x \in S, NEW n \in {1, 2} PROVE [k \in 1 .. n |-> x] \in Seq(S)
OBVIOUS

\* What a queue of a family looks like after a send or a receive.
LEMMA QueueSent ==
  ASSUME NEW S, NEW I, NEW q \in [I -> Seq(S)], NEW c \in I, NEW ms \in Seq(S)
  PROVE  [q EXCEPT ![c] = @ \o ms] \in [I -> Seq(S)]
<1>1. q[c] \o ms \in Seq(S)
  OBVIOUS
<1> QED  BY <1>1

LEMMA QueueTaken ==
  ASSUME NEW S, NEW I, NEW q \in [I -> Seq(S)], NEW c \in I, q[c] # <<>>
  PROVE  Head(q[c]) \in S /\ [q EXCEPT ![c] = Tail(@)] \in [I -> Seq(S)]
OBVIOUS

LEMMA QueueCleared ==
  ASSUME NEW S, NEW I, NEW q \in [I -> Seq(S)], NEW c
  PROVE  [q EXCEPT ![c] = <<>>] \in [I -> Seq(S)]
BY EmptySeq

LEMMA SentDown ==
  ASSUME TypeOK, NEW ms \in Seq(Down), SendDown(ms)
  PROVE  down' \in [Conn -> Seq(Down)]
<1>1. down \in [Conn -> Seq(Down)] /\ ws \in Conn \cup {None}
  BY DEF TypeOK
<1>2. CASE Sendable
  <2>1. ws \in Conn
    BY <1>1, <1>2 DEF Sendable
  <2>2. down' = [down EXCEPT ![ws] = @ \o ms]
    BY <1>2 DEF SendDown
  <2> QED  BY <1>1, <2>1, <2>2, QueueSent
<1>3. CASE ~Sendable
  BY <1>1, <1>3 DEF SendDown
<1> QED  BY <1>2, <1>3

LEMMA SentUp ==
  ASSUME TypeOK, NEW ms \in Seq(Up), SendUp(ms)
  PROVE  up' \in [Conn -> Seq(Up)]
<1>1. up \in [Conn -> Seq(Up)] /\ agent \in Conn \cup {None}
  BY DEF TypeOK
<1>2. CASE agent # None
  <2>1. agent \in Conn /\ up' = [up EXCEPT ![agent] = @ \o ms]
    BY <1>1, <1>2 DEF SendUp
  <2> QED  BY <1>1, <2>1, QueueSent
<1>3. CASE agent = None
  BY <1>1, <1>3 DEF SendUp
<1> QED  BY <1>2, <1>3

\* Closing browser sockets: the open ones among them are closing, no other changes.
LEMMA BrowsersClosed ==
  ASSUME TypeOK, NEW B, CloseBrowsers(B)
  PROVE  /\ browser' \in [Browser -> {"new", "open", "closing", "closed"}]
         /\ \A b \in Browser : (LiveB(b))' <=> LiveB(b)
         /\ \A b \in Browser : browser'[b] = "open" <=> browser[b] = "open" /\ b \notin B
BY DEF TypeOK, CloseBrowsers, LiveB

\* Closing localhost sockets: none of them is usable, no other changes.
LEMMA LocalsClosed ==
  ASSUME TypeOK, NEW L, CloseLocals(L)
  PROVE  /\ local' \in [Local -> {"unused", "connecting", "open", "closing", "aborted", "failed", "closed"}]
         /\ \A l \in Local : (LiveL(l))' <=> LiveL(l)
         /\ \A l \in Local : (Usable(l))' <=> Usable(l) /\ l \notin L
         /\ \A l \in Local : local'[l] = "unused" <=> local[l] = "unused"
         /\ \A l \in Local : local'[l] \in {"connecting", "aborted"} <=> local[l] \in {"connecting", "aborted"}
BY DEF TypeOK, CloseLocals, LiveL, Usable

\* What is said of each kind of frame.
LEMMA DownKinds ==
  ASSUME NEW m \in Down
  PROVE  /\ m.id \in Id
         /\ m.type \in {"open", "close", "data"}
         /\ m.type = "data" => m.data \in FromBrowser
         /\ m.type # "data" => m.data \in Browser \cup {None}
BY DEF Down

LEMMA UpKinds ==
  ASSUME NEW m \in Up
  PROVE  /\ m.id \in Id
         /\ m.type \in {"opened", "error", "closed", "data"}
         /\ m.type = "data" => m.data \in FromLocal
BY DEF Up

LEMMA ControlTyped ==
  ASSUME NEW i \in Id, NEW t \in {"opened", "error", "closed"}
  PROVE  Control(t, i) \in Up /\ Control(t, i).id = i /\ Control(t, i).type = t
BY DEF Control, Up

LEMMA CloseTyped ==
  ASSUME NEW i \in Id
  PROVE  [type |-> "close", id |-> i, data |-> None] \in Down
BY DEF Down

LEMMA InitType == Init => TypeInv
<1> SUFFICES ASSUME Init PROVE TypeInv
  OBVIOUS
<1>1. TypeGateway
  BY IdNat DEF Init, TypeGateway
<1>2. TypeConn
  <2>1. restarts \in 0 .. MaxRestarts
    BY DEF Init
  <2>2. online \in BOOLEAN /\ ws \in Conn \cup {None} /\ agent \in Conn \cup {None}
    BY Zenon DEF Init
  <2>3. conn \in [Conn -> {"unused", "open", "closing", "closed"}]
    BY DEF Init
  <2> QED  BY <2>1, <2>2, <2>3 DEF TypeConn
<1>3. TypeAgent
  BY DEF Init, TypeAgent
<1>4. TypePend
  BY EmptySeq DEF Init, TypePend
<1>5. TypeFrames
  BY EmptySeq DEF Init, TypeFrames
<1>6. TypeData
  <2>1. bsent \in [Browser -> 0 .. MaxSent] /\ lsent \in [Local -> 0 .. MaxSent]
    BY DEF Init
  <2>2. bgot \in [Browser -> Seq(FromLocal)] /\ lgot \in [Local -> Seq(FromBrowser)]
    BY EmptySeq DEF Init
  <2> QED  BY <2>1, <2>2 DEF TypeData
<1>7. BidInv /\ IdsInv
  BY DEF Init, BidInv, IdsInv, LiveB, LiveL
<1>8. OpenIsTracked
  BY DEF Init, OpenIsTracked
<1> QED  BY <1>1, <1>2, <1>3, <1>4, <1>5, <1>6, <1>7, <1>8, TypeParts DEF TypeInv

-----------------------------------------------------------------------------
\* Each action keeps the types, unique ids and the gateway's maps.

LEMMA UpgradeType ==
  ASSUME TypeInv, NEW b \in Browser, Upgrade(b)
  PROVE  TypeInv'
<1> USE DEF TypeInv
<1>1. nextId \in Id /\ nextId \in Nat /\ browser[b] = "new"
  BY IdNat DEF Upgrade
<1>2. TypeGateway'
  <2>1. nextId' \in 1 .. Cardinality(Browser) + 1
    BY <1>1, IdNat DEF Upgrade
  <2>2. chan' \in [Id -> Browser \cup {None}] /\ bid' \in [Browser -> Id \cup {None}]
    BY <1>1 DEF Upgrade, TypeOK
  <2>3. browser' \in [Browser -> {"new", "open", "closing", "closed"}]
    BY DEF Upgrade, TypeOK
  <2>4. via' \in [Browser -> Conn \cup {None}]
    BY DEF Upgrade, TypeOK
  <2> QED  BY <2>1, <2>2, <2>3, <2>4 DEF TypeGateway
<1>3. TypeConn' /\ TypeAgent' /\ TypePend' /\ TypeData'
  BY TypeParts DEF Upgrade, agentVars, connVars, dataVars, TypeConn, TypeAgent, TypePend, TypeData
<1>4. TypeFrames'
  <2>1. [type |-> "open", id |-> nextId, data |-> b] \in Down
    BY <1>1 DEF Down
  <2>2. <<[type |-> "open", id |-> nextId, data |-> b]>> \in Seq(Down)
    BY <2>1, OneTyped
  <2>3. down' \in [Conn -> Seq(Down)]
    BY <2>2, SentDown DEF Upgrade
  <2> QED  BY <2>3, TypeParts DEF Upgrade, TypeFrames
<1>5. BidInv'
  <2>1. \A a \in Browser : bid'[a] = IF a = b THEN nextId ELSE bid[a]
    BY DEF Upgrade, TypeOK
  <2>2. \A a \in Browser : (LiveB(a))' <=> a = b \/ LiveB(a)
    BY DEF Upgrade, TypeOK, LiveB
  <2>3. nextId' = nextId + 1
    BY DEF Upgrade
  <2>4. \A a \in Browser : LiveB(a) => bid[a] \in Nat
    BY IdNat DEF BidInv
  <2> QED  BY <2>1, <2>2, <2>3, <2>4, <1>1 DEF BidInv
<1>6. OpenIsTracked'
  <2>1. \A a \in Browser : bid'[a] = IF a = b THEN nextId ELSE bid[a]
    BY DEF Upgrade, TypeOK
  <2>2. \A a \in Browser : browser'[a] = IF a = b THEN "open" ELSE browser[a]
    BY DEF Upgrade, TypeOK
  <2>3. \A i \in Id : chan'[i] = IF i = nextId THEN b ELSE chan[i]
    BY DEF Upgrade, TypeOK
  <2>4. \A a \in Browser : browser[a] = "open" => bid[a] < nextId
    BY DEF BidInv, LiveB
  <2>5. \A a \in Browser, i \in Id : chan[i] = a <=> browser[a] = "open" /\ bid[a] = i
    BY DEF OpenIsTracked
  <2>6. \A a \in Browser, i \in Id : chan'[i] = a <=> browser'[a] = "open" /\ bid'[a] = i
    BY <2>1, <2>2, <2>3, <2>4, <2>5, <1>1
  <2> QED  BY <2>6 DEF OpenIsTracked
<1>7. IdsInv'
  BY DEF IdsInv, LiveL, Upgrade, agentVars
<1> QED  BY <1>2, <1>3, <1>4, <1>5, <1>6, <1>7, TypePartsNext

LEMMA BrowserMessageType ==
  ASSUME TypeInv, NEW b \in Browser, BrowserMessage(b)
  PROVE  TypeInv'
<1> USE DEF TypeInv
<1>1. bid[b] \in Id /\ bsent[b] \in 0 .. MaxSent /\ bsent[b] < MaxSent
  BY DEF BrowserMessage, BidInv, LiveB, TypeOK
<1>2. bsent' \in [Browser -> 0 .. MaxSent]
  BY <1>1 DEF BrowserMessage, TypeOK
<1>3. down' \in [Conn -> Seq(Down)]
  <2>1. <<b, bsent[b] + 1>> \in FromBrowser
    BY <1>1 DEF FromBrowser, Number
  <2>2. [type |-> "data", id |-> bid[b], data |-> <<b, bsent[b] + 1>>] \in Down
    BY <1>1, <2>1 DEF Down
  <2> QED  BY <2>2, OneTyped, SentDown DEF BrowserMessage
<1>4. TypeGateway' /\ TypeConn' /\ TypeAgent' /\ TypePend'
  BY TypeParts DEF BrowserMessage, gatewayVars, agentVars, connVars, TypeGateway, TypeConn,
                   TypeAgent, TypePend
<1>5. TypeFrames' /\ TypeData'
  BY <1>2, <1>3, TypeParts DEF BrowserMessage, TypeFrames, TypeData
<1>6. BidInv' /\ IdsInv' /\ OpenIsTracked'
  BY DEF BrowserMessage, gatewayVars, agentVars, BidInv, IdsInv, OpenIsTracked, LiveB, LiveL
<1> QED  BY <1>4, <1>5, <1>6, TypePartsNext

LEMMA BrowserEventType ==
  ASSUME TypeInv, NEW b \in Browser, BrowserEvent(b)
  PROVE  TypeInv'
<1> USE DEF TypeInv
<1>1. PICK times \in {1, 2} : CloseChannelDown(bid[b], times)
  BY DEF BrowserEvent
<1>2. bid[b] \in Id
  BY DEF BrowserEvent, BidInv, LiveB
<1>3. down' \in [Conn -> Seq(Down)]
  BY <1>1, <1>2, CloseTyped, Repeated, SentDown DEF CloseChannelDown
<1>4. chan' = [chan EXCEPT ![bid[b]] = None] /\ browser' = [browser EXCEPT ![b] = "closed"]
  BY <1>1 DEF BrowserEvent, CloseChannelDown
<1>5. TypeGateway'
  BY <1>4, TypeParts DEF BrowserEvent, TypeGateway
<1>6. TypeFrames'
  BY <1>3, TypeParts DEF BrowserEvent, TypeFrames
<1>7. TypeConn' /\ TypeAgent' /\ TypePend' /\ TypeData'
  BY TypeParts DEF BrowserEvent, agentVars, connVars, dataVars, TypeConn, TypeAgent, TypePend, TypeData
<1>8. \A a \in Browser : browser'[a] = IF a = b THEN "closed" ELSE browser[a]
  BY <1>4 DEF TypeOK
<1>9. BidInv'
  BY <1>8 DEF BrowserEvent, BidInv, LiveB
<1>10. OpenIsTracked'
  <2>1. \A i \in Id : chan'[i] = IF i = bid[b] THEN None ELSE chan[i]
    BY <1>4 DEF TypeOK
  <2>2. \A a \in Browser : browser[a] = "open" /\ bid[a] = bid[b] => a = b
    BY DEF BrowserEvent, BidInv, LiveB
  <2> QED  BY <1>8, <2>1, <2>2 DEF BrowserEvent, OpenIsTracked
<1>11. IdsInv'
  BY DEF BrowserEvent, agentVars, IdsInv, LiveL
<1> QED  BY <1>5, <1>6, <1>7, <1>9, <1>10, <1>11, TypePartsNext

LEMMA GatewayReceivesType ==
  ASSUME TypeInv, NEW c \in Conn, GatewayReceives(c)
  PROVE  TypeInv'
<1> USE DEF TypeInv
<1> DEFINE m == Head(up[c])
<1>1. m \in Up /\ up' \in [Conn -> Seq(Up)]
  BY QueueTaken DEF GatewayReceives, TypeOK
<1>2. m.id \in Id
  BY <1>1, UpKinds
<1>3. ASSUME m.type = "data"
          PROVE  TypeGateway' /\ TypeData' /\ BidInv' /\ OpenIsTracked'
  <2>1. m.data \in FromLocal
    BY <1>1, <1>3, UpKinds
  <2>2. UNCHANGED <<chan, browser>>
        /\ bgot' = IF chan[m.id] # None /\ browser[chan[m.id]] = "open"
                     THEN [bgot EXCEPT ![chan[m.id]] = Append(@, m.data)] ELSE bgot
    BY <1>3 DEF GatewayReceives
  <2>3. bgot' \in [Browser -> Seq(FromLocal)]
    <3> HIDE DEF m
    <3>1. bgot \in [Browser -> Seq(FromLocal)] /\ chan[m.id] \in Browser \cup {None}
      BY <1>2 DEF TypeOK
    <3>2. \A b \in Browser : [bgot EXCEPT ![b] = Append(@, m.data)] \in [Browser -> Seq(FromLocal)]
      BY <2>1, <3>1
    <3> QED  BY <2>2, <3>1, <3>2
  <2>4. TypeData'
    BY <2>3, TypeParts DEF GatewayReceives, TypeData
  <2>5. UNCHANGED <<nextId, chan, browser, bid, via>>
    BY <2>2 DEF GatewayReceives
  <2>6. TypeGateway' /\ BidInv' /\ OpenIsTracked'
    BY <2>5, TypeParts DEF TypeGateway, BidInv, OpenIsTracked, LiveB
  <2> QED  BY <2>4, <2>6
<1>4. ASSUME m.type = "opened"
          PROVE  TypeGateway' /\ TypeData' /\ BidInv' /\ OpenIsTracked'
  <2>1. UNCHANGED <<nextId, chan, browser, bid, via, bsent, lsent, bgot, lgot>>
    BY <1>4 DEF GatewayReceives
  <2>2. TypeData' /\ TypeGateway'
    BY <2>1, TypeParts DEF TypeData, TypeGateway
  <2>3. BidInv' /\ OpenIsTracked'
    BY <2>1 DEF BidInv, OpenIsTracked, LiveB
  <2> QED  BY <2>2, <2>3
<1>5. ASSUME m.type \in {"error", "closed"}
          PROVE  TypeGateway' /\ TypeData' /\ BidInv' /\ OpenIsTracked'
  <2>1. chan' = [chan EXCEPT ![m.id] = None] /\ CloseBrowsers({chan[m.id]}) /\ bgot' = bgot
    BY <1>5 DEF GatewayReceives
  <2>2. TypeData'
    BY <2>1, TypeParts DEF GatewayReceives, TypeData
  <2>3. TypeGateway'
    BY <2>1, BrowsersClosed, TypeParts DEF GatewayReceives, TypeGateway
  <2>4. BidInv'
    BY <2>1, BrowsersClosed DEF GatewayReceives, BidInv
  <2>5. OpenIsTracked'
    <3>1. \A i \in Id : chan'[i] = IF i = m.id THEN None ELSE chan[i]
      BY <2>1 DEF TypeOK
    <3>2. bid' = bid
      BY DEF GatewayReceives
    <3>3. \A b \in Browser : browser'[b] = "open" <=> browser[b] = "open" /\ b # chan[m.id]
      BY <2>1, BrowsersClosed
    <3>4. \A b \in Browser, i \in Id : chan[i] = b <=> browser[b] = "open" /\ bid[b] = i
      BY DEF OpenIsTracked
    <3> HIDE DEF m
    <3>5. \A b \in Browser, i \in Id : chan'[i] = b <=> browser'[b] = "open" /\ bid'[b] = i
      BY <1>2, <3>1, <3>2, <3>3, <3>4
    <3> QED  BY <3>5 DEF OpenIsTracked
  <2> QED  BY <2>2, <2>3, <2>4, <2>5
<1>6. TypeGateway' /\ TypeData' /\ BidInv' /\ OpenIsTracked'
  BY <1>1, <1>3, <1>4, <1>5, UpKinds
<1>7. TypeConn' /\ TypeAgent' /\ TypePend' /\ IdsInv'
  BY TypeParts DEF GatewayReceives, agentVars, connVars, TypeConn, TypeAgent, TypePend, IdsInv, LiveL
<1>8. TypeFrames'
  BY <1>1, TypeParts DEF GatewayReceives, TypeFrames
<1> QED  BY <1>6, <1>7, <1>8, TypePartsNext

\* They close connections, and may forget the current one if it is not OPEN then.
LEMMA TunnelOnly ==
  ASSUME TypeOK, Tunnel
  PROVE  /\ UNCHANGED <<gatewayVars, agentVars, agent, restarts, dataVars, down, up>>
         /\ online' \in BOOLEAN /\ ws' \in {ws, None}
         /\ conn' \in [Conn -> {"unused", "open", "closing", "closed"}]
         /\ \A d \in Conn : conn'[d] = conn[d] \/ (conn[d] = "open" /\ conn'[d] = "closing")
         /\ \A d \in Conn : conn'[d] = "open" /\ ws = d => ws' = d
<1>1. UNCHANGED <<gatewayVars, agentVars, agent, restarts, dataVars, down, up>>
  BY DEF Tunnel, HeartbeatTimeout, Remove, Heartbeat, PeerClosing
<1>2. online' \in BOOLEAN
  BY Zenon DEF Tunnel, HeartbeatTimeout, Remove, Heartbeat, PeerClosing, TypeOK
<1>3. ws' \in {ws, None}
  BY DEF Tunnel, HeartbeatTimeout, Remove, Heartbeat, PeerClosing
<1>4. conn' = conn \/ \E d \in Conn : conn[d] = "open" /\ conn' = [conn EXCEPT ![d] = "closing"]
  BY DEF Tunnel, HeartbeatTimeout, Remove, Heartbeat, PeerClosing, CloseCurrent, Sendable, TypeOK
<1>5. /\ conn' \in [Conn -> {"unused", "open", "closing", "closed"}]
      /\ \A d \in Conn : conn'[d] = conn[d] \/ (conn[d] = "open" /\ conn'[d] = "closing")
  BY <1>4 DEF TypeOK
<1>6. \A d \in Conn : conn'[d] = "open" /\ ws = d => ws' = d
  BY NoneAssumption DEF Tunnel, HeartbeatTimeout, Remove, Heartbeat, PeerClosing, CloseCurrent,
                        Sendable, TypeOK
<1> QED  BY <1>1, <1>2, <1>3, <1>5, <1>6

LEMMA GatewayConnType ==
  ASSUME TypeInv, Tunnel \/ \E c \in Conn : Connect(c)
  PROVE  TypeInv'
<1> USE DEF TypeInv
<1>1. UNCHANGED <<gatewayVars, agentVars, restarts, dataVars, down, up>>
  BY TunnelOnly DEF Connect
<1>2. TypeConn'
  <2>1. restarts' \in 0 .. MaxRestarts
    BY <1>1 DEF TypeOK
  <2>2. online' \in BOOLEAN
    BY Zenon, TunnelOnly DEF Connect, TypeOK
  <2>3. ws' \in Conn \cup {None} /\ agent' \in Conn \cup {None}
    BY TunnelOnly DEF Connect, TypeOK
  <2>4. conn' \in [Conn -> {"unused", "open", "closing", "closed"}]
    BY TunnelOnly DEF Connect, TypeOK
  <2> QED  BY <2>1, <2>2, <2>3, <2>4 DEF TypeConn
<1>3. TypeGateway' /\ TypeAgent' /\ TypePend' /\ TypeFrames' /\ TypeData'
  BY <1>1, TypeParts DEF gatewayVars, agentVars, dataVars, TypeGateway, TypeAgent, TypePend,
                         TypeFrames, TypeData
<1>4. BidInv' /\ IdsInv' /\ OpenIsTracked'
  BY <1>1 DEF gatewayVars, agentVars, BidInv, IdsInv, OpenIsTracked, LiveB, LiveL
<1> QED  BY <1>2, <1>3, <1>4, TypePartsNext

\* When a connection closes, every channel of the gateway goes, with its socket.
LEMMA CloseEventType ==
  ASSUME TypeInv, NEW c \in Conn, CloseEvent(c)
  PROVE  TypeInv'
<1> USE DEF TypeInv
<1>1. /\ CloseBrowsers({chan[i] : i \in Id}) /\ chan' = [i \in Id |-> None]
      /\ UNCHANGED <<nextId, bid, via>>
  BY DEF CloseEvent, CleanupInstanceChannels
<1>2. TypeGateway'
  BY <1>1, BrowsersClosed, TypeParts DEF TypeGateway
<1>3. TypeConn'
  <2>1. restarts' \in 0 .. MaxRestarts
    BY DEF CloseEvent, TypeOK
  <2>2. online' \in BOOLEAN
    BY Zenon DEF CloseEvent, TypeOK
  <2>3. ws' \in Conn \cup {None} /\ agent' \in Conn \cup {None}
    BY DEF CloseEvent, TypeOK
  <2>4. conn' \in [Conn -> {"unused", "open", "closing", "closed"}]
    BY DEF CloseEvent, TypeOK
  <2> QED  BY <2>1, <2>2, <2>3, <2>4 DEF TypeConn
<1>4. TypeFrames'
  BY QueueCleared, TypeParts DEF CloseEvent, TypeFrames
<1>5. TypeAgent' /\ TypePend' /\ TypeData' /\ IdsInv'
  BY TypeParts DEF CloseEvent, agentVars, dataVars, TypeAgent, TypePend, TypeData, IdsInv, LiveL
<1>6. BidInv'
  BY <1>1, BrowsersClosed DEF BidInv
<1>7. OpenIsTracked'
  <2>1. \A b \in Browser : browser'[b] # "open"
    <3>1. \A b \in Browser : browser[b] = "open" => bid[b] \in Id /\ chan[bid[b]] = b
      BY DEF OpenIsTracked, BidInv, LiveB
    <3>2. \A b \in Browser : browser'[b] = "open" <=> browser[b] = "open" /\ b \notin {chan[i] : i \in Id}
      BY <1>1, BrowsersClosed
    <3> QED  BY <3>1, <3>2
  <2> QED  BY <1>1, <2>1 DEF OpenIsTracked
<1> QED  BY <1>2, <1>3, <1>4, <1>5, <1>6, <1>7, TypePartsNext

LEMMA CrashType ==
  ASSUME TypeInv, Crash
  PROVE  TypeInv'
<1> USE DEF TypeInv
<1>1. \A b \in Browser : browser'[b] \in {"new", "closed"}
  BY DEF Crash
<1>2. TypeGateway'
  <2>1. nextId' \in 1 .. Cardinality(Browser) + 1
    BY IdNat DEF Crash
  <2>2. chan' \in [Id -> Browser \cup {None}]
        /\ browser' \in [Browser -> {"new", "open", "closing", "closed"}]
    BY DEF Crash
  <2>3. via' \in [Browser -> Conn \cup {None}]
    BY DEF Crash
  <2> QED  BY <2>1, <2>2, <2>3, TypeParts DEF Crash, TypeGateway
<1>3. TypeConn'
  <2>1. restarts' \in 0 .. MaxRestarts
    BY DEF Crash, TypeOK
  <2>2. online' \in BOOLEAN /\ ws' \in Conn \cup {None} /\ agent' \in Conn \cup {None}
    BY Zenon DEF Crash, TypeOK
  <2>3. conn' \in [Conn -> {"unused", "open", "closing", "closed"}]
    BY DEF Crash
  <2> QED  BY <2>1, <2>2, <2>3 DEF TypeConn
<1>4. TypeFrames'
  BY EmptySeq DEF Crash, TypeFrames
<1>5. TypeAgent' /\ TypePend' /\ TypeData' /\ IdsInv'
  BY TypeParts DEF Crash, agentVars, dataVars, TypeAgent, TypePend, TypeData, IdsInv, LiveL
<1>6. BidInv'
  BY <1>1 DEF BidInv, LiveB
<1>7. OpenIsTracked'
  BY <1>1 DEF Crash, OpenIsTracked
<1> QED  BY <1>2, <1>3, <1>4, <1>5, <1>6, <1>7, TypePartsNext

\* What every event of a localhost socket leaves of the types.
LEMMA LocalType ==
  ASSUME TypeInv, UNCHANGED <<gatewayVars, connVars, bsent, bgot, down>>,
         TypeAgent', TypePend', IdsInv', up' \in [Conn -> Seq(Up)],
         lsent' \in [Local -> 0 .. MaxSent], lgot' \in [Local -> Seq(FromBrowser)]
  PROVE  TypeInv'
<1>1. TypeGateway' /\ TypeConn'
  BY TypeParts DEF TypeInv, gatewayVars, connVars, TypeGateway, TypeConn
<1>2. TypeFrames' /\ TypeData'
  BY TypeParts DEF TypeInv, TypeFrames, TypeData
<1>3. BidInv' /\ OpenIsTracked'
  BY DEF TypeInv, gatewayVars, BidInv, OpenIsTracked, LiveB
<1> QED  BY <1>1, <1>2, <1>3, TypePartsNext DEF TypeInv

LEMMA LocalOpenType ==
  ASSUME TypeInv, NEW l \in Local, LocalOpen(l)
  PROVE  TypeInv'
<1> USE DEF TypeInv
<1>1. lid[l] \in Id
  BY DEF LocalOpen, IdsInv, LiveL
<1>2. up' \in [Conn -> Seq(Up)]
  BY <1>1, ControlTyped, OneTyped, SentUp DEF LocalOpen
<1>3. lgot' \in [Local -> Seq(FromBrowser)]
  BY <1>1, QueueSent DEF LocalOpen, TypeOK
<1>4. TypeAgent' /\ IdsInv'
  BY DEF LocalOpen, TypeOK, TypeAgent, IdsInv, LiveL
<1>5. TypePend'
  <2>1. pend' = [pend EXCEPT ![lid[l]] = <<>>] /\ pend \in [Id -> Seq(FromBrowser)]
    BY DEF LocalOpen, TypeOK
  <2>2. pend' \in [Id -> Seq(FromBrowser)]
    BY <2>1, QueueCleared
  <2>3. \A i \in Id : Len(pend'[i]) <= MaxPending
    BY <2>1 DEF TypeOK
  <2> QED  BY <2>2, <2>3 DEF TypePend
<1> QED  BY <1>2, <1>3, <1>4, <1>5, LocalType DEF LocalOpen, TypeOK

LEMMA LocalMessageType ==
  ASSUME TypeInv, NEW l \in Local, LocalMessage(l)
  PROVE  TypeInv'
<1> USE DEF TypeInv
<1>1. lid[l] \in Id /\ lsent[l] \in 0 .. MaxSent /\ lsent[l] < MaxSent
  BY DEF LocalMessage, IdsInv, LiveL, TypeOK
<1>2. up' \in [Conn -> Seq(Up)]
  <2>1. <<l, lsent[l] + 1>> \in FromLocal
    BY <1>1 DEF FromLocal, Number
  <2>2. [type |-> "data", id |-> lid[l], data |-> <<l, lsent[l] + 1>>] \in Up
    BY <1>1, <2>1 DEF Up
  <2> QED  BY <2>2, OneTyped, SentUp DEF LocalMessage
<1>3. lsent' \in [Local -> 0 .. MaxSent]
  BY <1>1 DEF LocalMessage, TypeOK
<1>4. TypeAgent' /\ TypePend' /\ IdsInv'
  BY TypeParts DEF LocalMessage, agentVars, TypeAgent, TypePend, IdsInv, LiveL
<1> QED  BY <1>2, <1>3, <1>4, LocalType DEF LocalMessage, TypeOK

LEMMA LocalEndType ==
  ASSUME TypeInv, NEW l \in Local, LocalRefused(l) \/ LocalError(l) \/ LocalClose(l)
  PROVE  TypeInv'
<1> USE DEF TypeInv
<1>1. lid[l] \in Id
  BY DEF LocalRefused, LocalError, LocalClose, IdsInv, LiveL
<1>2. up' \in [Conn -> Seq(Up)]
  <2>1. Control("error", lid[l]) \in Up /\ Control("closed", lid[l]) \in Up
    BY <1>1, ControlTyped
  <2> QED  BY <2>1, OneTyped, TwoTyped, SentUp DEF LocalRefused, LocalError, LocalClose
<1>3. /\ act' = [act EXCEPT ![lid[l]] = None] /\ pend' = [pend EXCEPT ![lid[l]] = <<>>]
      /\ local' = [local EXCEPT ![l] = "closed"] \/ local' = [local EXCEPT ![l] = "failed"]
      /\ UNCHANGED <<gatewayVars, lid, for, connVars, dataVars, down>>
      /\ LiveL(l)
  BY DEF LocalRefused, LocalError, LocalClose, ForgetLocal, LiveL
<1>4. TypeAgent' /\ IdsInv'
  BY <1>3 DEF TypeOK, TypeAgent, IdsInv, LiveL
<1>5. TypePend'
  <2>1. pend' \in [Id -> Seq(FromBrowser)]
    BY <1>3, QueueCleared DEF TypeOK
  <2>2. \A i \in Id : Len(pend'[i]) <= MaxPending
    BY <1>3 DEF TypeOK
  <2> QED  BY <2>1, <2>2 DEF TypePend
<1> QED  BY <1>2, <1>3, <1>4, <1>5, LocalType DEF dataVars, TypeOK

LEMMA AgentDropsType ==
  ASSUME TypeInv, AgentDrops
  PROVE  TypeInv'
<1> USE DEF TypeInv
<1>1. CloseLocals({act[i] : i \in Id}) /\ act' = [i \in Id |-> None] /\ UNCHANGED <<pend, lid, for>>
  BY DEF AgentDrops, CloseAllChannels
<1>2. TypeAgent'
  BY <1>1, LocalsClosed, TypeParts DEF TypeAgent
<1>3. IdsInv'
  BY <1>1, LocalsClosed DEF IdsInv
<1>4. TypeConn'
  <2>1. restarts' \in 0 .. MaxRestarts
    BY DEF AgentDrops, TypeOK
  <2>2. online' \in BOOLEAN /\ ws' \in Conn \cup {None} /\ agent' \in Conn \cup {None}
    BY Zenon DEF AgentDrops, TypeOK
  <2>3. conn' \in [Conn -> {"unused", "open", "closing", "closed"}]
    BY DEF AgentDrops, TypeOK
  <2> QED  BY <2>1, <2>2, <2>3 DEF TypeConn
<1>5. TypeFrames'
  BY QueueCleared, TypeParts DEF AgentDrops, TypeFrames
<1>6. TypeGateway' /\ TypePend' /\ TypeData' /\ BidInv' /\ OpenIsTracked'
  BY TypeParts DEF AgentDrops, gatewayVars, dataVars, TypeGateway, TypePend, TypeData, BidInv,
                   OpenIsTracked, LiveB
<1> QED  BY <1>2, <1>3, <1>4, <1>5, <1>6, TypePartsNext

\* The three kinds of frame the agent receives.
LEMMA OpenChannelType ==
  ASSUME TypeInv, NEW m \in Down, m.type = "open", OpenChannel(m)
  PROVE  TypeAgent' /\ TypePend' /\ IdsInv' /\ up' \in [Conn -> Seq(Up)] /\ lgot' = lgot
<1> USE DEF TypeInv
<1>1. m.id \in Id /\ m.data \in Browser \cup {None}
  BY DownKinds
<1>2. ASSUME NEW l \in Local, local' = [local EXCEPT ![l] = "connecting"],
             lid' = [lid EXCEPT ![l] = m.id], for' = [for EXCEPT ![l] = m.data],
             act' = [act EXCEPT ![m.id] = l], UNCHANGED <<pend, lgot, up>>
      PROVE  TypeAgent' /\ TypePend' /\ IdsInv' /\ up' \in [Conn -> Seq(Up)] /\ lgot' = lgot
  <2>1. TypeAgent'
    BY <1>1, <1>2 DEF TypeOK, TypeAgent
  <2>2. TypePend' /\ up' \in [Conn -> Seq(Up)]
    BY <1>2, TypeParts DEF TypePend, TypeOK
  <2>3. IdsInv'
    BY <1>1, <1>2 DEF TypeOK, IdsInv, LiveL
  <2> QED  BY <1>2, <2>1, <2>2, <2>3
<1>3. ASSUME SendUp(<<Control("error", m.id)>>), UNCHANGED <<agentVars, lgot>>
      PROVE  TypeAgent' /\ TypePend' /\ IdsInv' /\ up' \in [Conn -> Seq(Up)] /\ lgot' = lgot
  <2>1. up' \in [Conn -> Seq(Up)]
    BY <1>1, <1>3, ControlTyped, OneTyped, SentUp
  <2>2. TypeAgent' /\ TypePend' /\ IdsInv'
    BY <1>3, TypeParts DEF agentVars, TypeAgent, TypePend, IdsInv, LiveL
  <2> QED  BY <1>3, <2>1, <2>2
<1> QED  BY <1>2, <1>3 DEF OpenChannel

LEMMA CloseChannelType ==
  ASSUME TypeInv, NEW m \in Down, CloseChannel(m)
  PROVE  TypeAgent' /\ TypePend' /\ IdsInv' /\ up' \in [Conn -> Seq(Up)] /\ lgot' = lgot
<1> USE DEF TypeInv
<1>1. m.id \in Id
  BY DownKinds
<1>2. up' \in [Conn -> Seq(Up)]
  BY <1>1, ControlTyped, OneTyped, SentUp DEF CloseChannel
<1>3. TypeAgent'
  BY LocalsClosed, TypeParts DEF CloseChannel, TypeAgent
<1>4. TypePend' /\ IdsInv' /\ lgot' = lgot
  BY LocalsClosed, TypeParts DEF CloseChannel, TypePend, IdsInv
<1> QED  BY <1>2, <1>3, <1>4

LEMMA ForwardType ==
  ASSUME TypeInv, NEW m \in Down, m.type = "data", ForwardChannelData(m)
  PROVE  /\ TypeAgent' /\ TypePend' /\ IdsInv' /\ up' \in [Conn -> Seq(Up)]
         /\ lgot' \in [Local -> Seq(FromBrowser)]
<1> DEFINE G == /\ TypeAgent' /\ TypePend' /\ IdsInv' /\ up' \in [Conn -> Seq(Up)]
                /\ lgot' \in [Local -> Seq(FromBrowser)]
           l == act[m.id]
<1> USE DEF TypeInv
<1>1. /\ m.id \in Id /\ m.data \in FromBrowser /\ l \in Local \cup {None}
      /\ pend \in [Id -> Seq(FromBrowser)] /\ lgot \in [Local -> Seq(FromBrowser)]
      /\ up \in [Conn -> Seq(Up)]
  BY DownKinds DEF TypeOK
<1>2. ASSUME l # None, Pass(l, m) PROVE G
  <2>1. lgot' \in [Local -> Seq(FromBrowser)]
    <3> HIDE DEF l
    <3> QED  BY <1>1, <1>2 DEF Pass
  <2>2. TypeAgent' /\ TypePend' /\ IdsInv' /\ up' = up
    BY <1>2, TypeParts DEF Pass, agentVars, TypeAgent, TypePend, IdsInv, LiveL
  <2> QED  BY <1>1, <2>1, <2>2
<1>3. ASSUME Len(pend[m.id]) < MaxPending, Buffer(m) PROVE G
  <2>1. pend' = [pend EXCEPT ![m.id] = Append(@, m.data)]
    BY <1>3 DEF Buffer
  <2>2. pend' \in [Id -> Seq(FromBrowser)]
    BY <1>1, <2>1
  <2>3. \A i \in Id : Len(pend'[i]) <= MaxPending
    <3>1. \A i \in Id : Len(pend[i]) <= MaxPending
      BY DEF TypeOK
    <3>2. Len(Append(pend[m.id], m.data)) = Len(pend[m.id]) + 1 /\ Len(pend[m.id]) \in Nat
      BY <1>1
    <3> QED  BY <1>1, <1>3, <2>1, <3>1, <3>2
  <2>4. TypeAgent' /\ IdsInv' /\ up' = up /\ lgot' = lgot
    BY <1>3, TypeParts DEF Buffer, TypeAgent, IdsInv, LiveL
  <2> QED  BY <1>1, <2>2, <2>3, <2>4 DEF TypePend
<1>4. ASSUME Overflow(l, m) PROVE G
  <2>1. up' \in [Conn -> Seq(Up)] /\ lgot' = lgot
    BY <1>1, <1>4, ControlTyped, OneTyped, SentUp DEF Overflow
  <2>2. TypeAgent' /\ IdsInv'
    BY <1>4, LocalsClosed, TypeParts DEF Overflow, TypeAgent, IdsInv
  <2>3. pend' = [pend EXCEPT ![m.id] = <<>>]
    BY <1>4 DEF Overflow
  <2>4. pend' \in [Id -> Seq(FromBrowser)]
    BY <1>1, <2>3, QueueCleared
  <2>5. \A i \in Id : Len(pend'[i]) <= MaxPending
    BY <1>1, <2>3 DEF TypeOK
  <2> QED  BY <1>1, <2>1, <2>2, <2>4, <2>5 DEF TypePend
<1>5. ASSUME UNCHANGED <<agentVars, lgot, up>> PROVE G
  <2>1. TypeAgent' /\ TypePend' /\ IdsInv'
    BY <1>5, TypeParts DEF agentVars, TypeAgent, TypePend, IdsInv, LiveL
  <2> QED  BY <1>1, <1>5, <2>1
<1> HIDE DEF G
<1>6. G
  BY <1>2, <1>3, <1>4, <1>5 DEF ForwardChannelData
<1> QED  BY <1>6 DEF G

LEMMA AgentReceivesType ==
  ASSUME TypeInv, NEW c \in Conn, AgentReceives(c)
  PROVE  TypeInv'
<1> USE DEF TypeInv
<1> DEFINE m == Head(down[c])
<1>1. m \in Down /\ down' \in [Conn -> Seq(Down)]
  BY QueueTaken DEF AgentReceives, TypeOK
<1>2. \/ m.type = "open" /\ OpenChannel(m)
      \/ m.type = "close" /\ CloseChannel(m)
      \/ m.type = "data" /\ ForwardChannelData(m)
  BY DEF AgentReceives
<1>3. lgot \in [Local -> Seq(FromBrowser)]
  BY DEF TypeOK
<1> HIDE DEF m
<1>4. /\ TypeAgent' /\ TypePend' /\ IdsInv' /\ up' \in [Conn -> Seq(Up)]
      /\ lgot' \in [Local -> Seq(FromBrowser)]
  BY <1>1, <1>2, <1>3, OpenChannelType, CloseChannelType, ForwardType
<1>5. UNCHANGED <<gatewayVars, connVars, bsent, lsent, bgot>>
  BY DEF AgentReceives
<1>6. TypeGateway' /\ TypeConn' /\ TypeFrames' /\ TypeData'
  BY <1>1, <1>4, <1>5, TypeParts DEF gatewayVars, connVars, TypeGateway, TypeConn, TypeFrames, TypeData
<1>7. BidInv' /\ OpenIsTracked'
  BY <1>5 DEF gatewayVars, BidInv, OpenIsTracked, LiveB
<1> QED  BY <1>4, <1>6, <1>7, TypePartsNext

LEMMA StutterType == TypeInv /\ UNCHANGED vars => TypeInv'
<1> SUFFICES ASSUME TypeInv, UNCHANGED vars PROVE TypeInv'
  OBVIOUS
<1> USE DEF vars, gatewayVars, agentVars, connVars, dataVars
<1>1. TypeGateway' /\ TypeConn' /\ TypeAgent'
  BY TypeParts DEF TypeInv, TypeGateway, TypeConn, TypeAgent
<1>2. TypePend' /\ TypeFrames' /\ TypeData'
  BY TypeParts DEF TypeInv, TypePend, TypeFrames, TypeData
<1>3. BidInv' /\ IdsInv' /\ OpenIsTracked'
  BY DEF TypeInv, BidInv, IdsInv, OpenIsTracked, LiveB, LiveL
<1> QED  BY <1>1, <1>2, <1>3, TypePartsNext DEF TypeInv

LEMMA StepType == TypeInv /\ [Next]_vars => TypeInv'
<1> SUFFICES ASSUME TypeInv, Next PROVE TypeInv'
  BY StutterType
<1>1. ASSUME NEW b \in Browser, Upgrade(b) \/ BrowserMessage(b) \/ BrowserEvent(b)
      PROVE  TypeInv'
  BY <1>1, UpgradeType, BrowserMessageType, BrowserEventType
<1>2. ASSUME NEW c \in Conn, \/ GatewayReceives(c) \/ CloseEvent(c) \/ Connect(c) \/ AgentReceives(c)
      PROVE  TypeInv'
  BY <1>2, GatewayReceivesType, GatewayConnType, CloseEventType, AgentReceivesType
<1>3. ASSUME NEW l \in Local, \/ LocalOpen(l) \/ LocalMessage(l) \/ LocalRefused(l)
                              \/ LocalError(l) \/ LocalClose(l)
      PROVE  TypeInv'
  BY <1>3, LocalOpenType, LocalMessageType, LocalEndType
<1> QED  BY <1>1, <1>2, <1>3, GatewayConnType, CrashType, AgentDropsType DEF Next, Tunnel

LEMMA TypeHolds == Spec => []TypeInv
<1> HIDE DEF TypeInv
<1> QED  BY InitType, StepType, PTL DEF Spec

\* Every variable has its type, whatever is lost and whoever restarts.
THEOREM TypeCorrect == Spec => []TypeOK
<1>1. TypeInv => TypeOK
  BY DEF TypeInv
<1> QED  BY <1>1, TypeHolds, PTL

\* The gateway's maps hold exactly the browser sockets that are open: after any
\* closes, refusals, disconnects and restarts no socket is out of reach of
\* cleanupInstanceChannels and no dead one counts against the limit.
THEOREM Tracked == Spec => []OpenIsTracked
<1>1. TypeInv => OpenIsTracked
  BY DEF TypeInv
<1> QED  BY <1>1, TypeHolds, PTL

-----------------------------------------------------------------------------
\* Which frames and sockets a channel id ties together.

ConnInv ==
  /\ agent # None => conn[agent] # "unused"
  /\ ws # None => conn[ws] # "unused"
  /\ \A c \in Conn : /\ ~Linked(c) => down[c] = <<>>
                     /\ conn[c] = "unused" => up[c] = <<>>

PendFits(i, n) ==
  \E l \in Local : local[l] \in {"connecting", "aborted"} /\ lid[l] = i /\ for[l] = pend[i][n][1]
LocalInv ==
  /\ \A i \in Id : act[i] # None => Usable(act[i]) /\ lid[act[i]] = i
  /\ \A l \in Local : Usable(l) => act[lid[l]] = l
  /\ \A l, k \in Local : LiveL(l) /\ LiveL(k) /\ lid[k] = lid[l] => k = l
  /\ agent = None => \A l \in Local : ~Usable(l)
  /\ \A i \in Id : \A n \in DOMAIN pend[i] : PendFits(i, n)

LiveLocalInv ==
  \A l \in Local : LiveL(l) =>
    lid[l] < nextId /\ \A b \in Browser : LiveB(b) /\ bid[b] = lid[l] => for[l] = b
OpenFits(m) ==
  /\ \A l \in Local : LiveL(l) => lid[l] # m.id
  /\ \A b \in Browser : LiveB(b) /\ bid[b] = m.id => m.data = b
DataFits(m) == \A l \in Local : LiveL(l) /\ lid[l] = m.id => for[l] = m.data[1]
FrameFits(m) ==
  /\ m.id < nextId
  /\ m.type = "open" => OpenFits(m)
  /\ m.type = "data" => DataFits(m)
OpenThenData(q) ==
  \A m, d \in Elements(q) :
    m.type = "open" /\ d.type = "data" /\ d.id = m.id => d.data[1] = m.data
OpenOnce(q) ==
  \A j, k \in DOMAIN q :
    q[j].type = "open" /\ q[k].type = "open" /\ q[j].id = q[k].id => j = k
DownInv ==
  agent # None /\ Linked(agent) =>
    /\ LiveLocalInv
    /\ \A m \in Elements(down[agent]) : FrameFits(m)
    /\ OpenThenData(down[agent]) /\ OpenOnce(down[agent])

UpFits(m) ==
  /\ m.id < nextId
  /\ m.type = "data" =>
       /\ m.data[1] \in Local /\ local[m.data[1]] # "unused"
       /\ \A b \in Browser : LiveB(b) /\ bid[b] = m.id => for[m.data[1]] = b
UpInv == \A c \in Conn : Linked(c) => \A m \in Elements(up[c]) : UpFits(m)

GotInv ==
  /\ \A b \in Browser : \A n \in DOMAIN bgot[b] :
       local[bgot[b][n][1]] # "unused" /\ for[bgot[b][n][1]] = b
  /\ \A l \in Local : /\ local[l] = "unused" => lgot[l] = <<>>
                      /\ \A n \in DOMAIN lgot[l] : for[l] = lgot[l][n][1]

ChannelInv == ConnInv /\ LocalInv /\ DownInv /\ UpInv /\ GotInv

\* Facts about sequences.
LEMMA Domain == ASSUME NEW S, NEW q \in Seq(S) PROVE DOMAIN q = 1 .. Len(q) /\ Len(q) \in Nat
OBVIOUS

LEMMA Appended ==
  ASSUME NEW S, NEW q \in Seq(S), NEW x \in S, NEW n \in DOMAIN Append(q, x)
  PROVE  Append(q, x)[n] = x \/ (n \in DOMAIN q /\ Append(q, x)[n] = q[n])
<1>1. Len(Append(q, x)) = Len(q) + 1 /\ Append(q, x) \in Seq(S) /\ Len(q) \in Nat
  OBVIOUS
<1>2. n \in 1 .. Len(q) + 1
  BY <1>1, Domain
<1>3. Append(q, x)[n] = IF n <= Len(q) THEN q[n] ELSE x
  BY <1>1, <1>2
<1> QED  BY <1>1, <1>2, <1>3, Domain

LEMMA DataAppended ==
  ASSUME NEW q \in Seq(FromBrowser), NEW x \in FromBrowser, NEW y, y = Append(q, x),
         NEW n \in DOMAIN y
  PROVE  y[n] = x \/ (n \in DOMAIN q /\ y[n] = q[n])
BY Appended

LEMMA ElementsTyped == ASSUME NEW S, NEW q \in Seq(S) PROVE Elements(q) \subseteq S
BY DEF Elements

LEMMA ElementsOne == ASSUME NEW x PROVE Elements(<<x>>) = {x}
BY DEF Elements

LEMMA ElementsTwo == ASSUME NEW x, NEW y PROVE Elements(<<x, y>>) = {x, y}
BY DEF Elements

LEMMA ElementsNone == Elements(<<>>) = {}
BY DEF Elements

LEMMA ElementsJoin ==
  ASSUME NEW S, NEW p \in Seq(S), NEW q \in Seq(S)
  PROVE  Elements(p \o q) = Elements(p) \cup Elements(q)
<1>1. p \o q \in Seq(S) /\ Len(p \o q) = Len(p) + Len(q)
  OBVIOUS
<1>2. \A k \in 1 .. Len(p) + Len(q) : (p \o q)[k] = IF k <= Len(p) THEN p[k] ELSE q[k - Len(p)]
  OBVIOUS
<1>3. Elements(p \o q) \subseteq Elements(p) \cup Elements(q)
  BY <1>1, <1>2, Domain DEF Elements
<1>4. \A k \in 1 .. Len(p) : p[k] \in Elements(p \o q)
  BY <1>1, <1>2, Domain DEF Elements
<1>5. \A k \in 1 .. Len(q) : q[k] \in Elements(p \o q)
  <2> TAKE k \in 1 .. Len(q)
  <2>1. Len(p) + k \in DOMAIN (p \o q) /\ (p \o q)[Len(p) + k] = q[k]
    BY <1>1, <1>2, Domain
  <2> QED  BY <2>1 DEF Elements
<1>6. Elements(p) \subseteq Elements(p \o q) /\ Elements(q) \subseteq Elements(p \o q)
  BY <1>4, <1>5, Domain DEF Elements
<1> QED  BY <1>3, <1>6

LEMMA ElementsTail ==
  ASSUME NEW S, NEW q \in Seq(S), q # <<>>
  PROVE  Head(q) \in Elements(q) /\ Elements(Tail(q)) \subseteq Elements(q)
<1>1. Tail(q) \in Seq(S) /\ Len(Tail(q)) = Len(q) - 1 /\ Len(q) >= 1 /\ Head(q) = q[1]
  OBVIOUS
<1>2. \A k \in 1 .. Len(q) - 1 : Tail(q)[k] = q[k + 1] /\ k + 1 \in 1 .. Len(q)
  BY <1>1
<1> QED  BY <1>1, <1>2, Domain DEF Elements

LEMMA OnceTail ==
  ASSUME NEW S, NEW q \in Seq(S), q # <<>>, OpenOnce(q)
  PROVE  /\ OpenOnce(Tail(q))
         /\ \A d \in Elements(Tail(q)) : d.type = "open" /\ Head(q).type = "open" => d.id # Head(q).id
<1>1. Tail(q) \in Seq(S) /\ Len(Tail(q)) = Len(q) - 1 /\ Len(q) >= 1 /\ Head(q) = q[1]
  OBVIOUS
<1>2. \A k \in 1 .. Len(q) - 1 : Tail(q)[k] = q[k + 1] /\ k + 1 \in 1 .. Len(q)
  BY <1>1
<1>3. DOMAIN q = 1 .. Len(q) /\ DOMAIN Tail(q) = 1 .. Len(q) - 1 /\ Len(q) \in Nat
  BY <1>1, Domain
<1>4. OpenOnce(Tail(q))
  BY <1>2, <1>3 DEF OpenOnce
<1>5. \A k \in DOMAIN Tail(q) :
        Tail(q)[k].type = "open" /\ Head(q).type = "open" => Tail(q)[k].id # Head(q).id
  BY <1>1, <1>2, <1>3 DEF OpenOnce
<1> QED  BY <1>4, <1>5 DEF Elements

LEMMA OnceJoin ==
  ASSUME NEW S, NEW p \in Seq(S), NEW q \in Seq(S), OpenOnce(p), OpenOnce(q),
         \A m \in Elements(p), d \in Elements(q) :
           m.type = "open" /\ d.type = "open" => m.id # d.id
  PROVE  OpenOnce(p \o q)
<1>1. DOMAIN (p \o q) = 1 .. Len(p) + Len(q) /\ DOMAIN p = 1 .. Len(p) /\ DOMAIN q = 1 .. Len(q)
      /\ Len(p) \in Nat /\ Len(q) \in Nat
  BY Domain
<1>2. \A k \in 1 .. Len(p) + Len(q) : (p \o q)[k] = IF k <= Len(p) THEN p[k] ELSE q[k - Len(p)]
  OBVIOUS
<1> SUFFICES ASSUME NEW j \in 1 .. Len(p) + Len(q), NEW k \in 1 .. Len(p) + Len(q),
                    (p \o q)[j].type = "open", (p \o q)[k].type = "open",
                    (p \o q)[j].id = (p \o q)[k].id
             PROVE  j = k
  BY <1>1 DEF OpenOnce
<1>3. CASE j <= Len(p) /\ k <= Len(p)
  BY <1>1, <1>2, <1>3 DEF OpenOnce
<1>4. CASE j > Len(p) /\ k > Len(p)
  <2>1. j - Len(p) \in DOMAIN q /\ k - Len(p) \in DOMAIN q
    BY <1>1, <1>4
  <2>2. (p \o q)[j] = q[j - Len(p)] /\ (p \o q)[k] = q[k - Len(p)]
    BY <1>1, <1>2, <1>4
  <2>3. j - Len(p) = k - Len(p)
    BY <2>1, <2>2 DEF OpenOnce
  <2> QED  BY <1>1, <2>3
<1>5. \A x \in 1 .. Len(p), y \in 1 .. Len(q) : p[x].type = "open" /\ q[y].type = "open" => p[x].id # q[y].id
  BY <1>1 DEF Elements
<1>6. ~(j <= Len(p) /\ k > Len(p))
  BY <1>1, <1>2, <1>5
<1>7. ~(k <= Len(p) /\ j > Len(p))
  BY <1>1, <1>2, <1>5
<1> QED  BY <1>1, <1>3, <1>4, <1>6, <1>7

-----------------------------------------------------------------------------
\* A step that starts no socket and hands out no id.
Shrink ==
  /\ UNCHANGED <<nextId, bid, lid, for>>
  /\ \A b \in Browser : (LiveB(b))' => LiveB(b)
  /\ \A l \in Local : (LiveL(l))' => LiveL(l)
  /\ \A l \in Local : local'[l] = "unused" <=> local[l] = "unused"

LEMMA DownAfter ==
  ASSUME TypeOK, NEW ms \in Seq(Down), SendDown(ms), NEW c \in Conn
  PROVE  down'[c] = down[c] \/ (c = ws /\ conn[c] = "open" /\ down'[c] = down[c] \o ms)
BY DEF TypeOK, SendDown, Sendable

LEMMA UpAfter ==
  ASSUME TypeOK, NEW ms \in Seq(Up), SendUp(ms), NEW c \in Conn
  PROVE  up'[c] = up[c] \/ (agent # None /\ c = agent /\ up'[c] = up[c] \o ms)
BY DEF TypeOK, SendUp

LEMMA FitsKept ==
  ASSUME Shrink
  PROVE  /\ \A m : UpFits(m) => (UpFits(m))'
         /\ \A m : FrameFits(m) => (FrameFits(m))'
         /\ LiveLocalInv => LiveLocalInv'
<1>1. \A m : UpFits(m) => (UpFits(m))'
  <2>1. SUFFICES ASSUME NEW m, UpFits(m) PROVE (UpFits(m))'
    OBVIOUS
  <2> QED  BY <2>1 DEF Shrink, UpFits
<1>2. \A m : FrameFits(m) => (FrameFits(m))'
  BY DEF Shrink, FrameFits, OpenFits, DataFits
<1>3. LiveLocalInv => LiveLocalInv'
  BY DEF Shrink, LiveLocalInv
<1> QED  BY <1>1, <1>2, <1>3

LEMMA UpKept ==
  ASSUME UpInv, Shrink, \A c \in Conn : (Linked(c))' => Linked(c),
         \A c \in Conn : Linked(c) => \A m \in Elements(up'[c]) : m \in Elements(up[c]) \/ UpFits(m)
  PROVE  UpInv'
BY FitsKept DEF UpInv, Elements

LEMMA UpSent ==
  ASSUME TypeOK, UpInv, Shrink, UNCHANGED conn, NEW ms \in Seq(Up), SendUp(ms),
         agent # None /\ Linked(agent) => \A m \in Elements(ms) : UpFits(m)
  PROVE  UpInv'
<1>1. up \in [Conn -> Seq(Up)]
  BY DEF TypeOK
<1>2. \A c \in Conn : (Linked(c))' <=> Linked(c)
  BY DEF Linked
<1>3. \A c \in Conn : Linked(c) => \A m \in Elements(up'[c]) : m \in Elements(up[c]) \/ UpFits(m)
  <2> TAKE c \in Conn
  <2> HAVE Linked(c)
  <2>1. CASE up'[c] = up[c]
    BY <2>1
  <2>2. CASE agent # None /\ c = agent /\ up'[c] = up[c] \o ms
    <3>1. Elements(up'[c]) = Elements(up[c]) \cup Elements(ms)
      BY <1>1, <2>2, ElementsJoin
    <3> QED  BY <2>2, <3>1
  <2> QED  BY <2>1, <2>2, UpAfter
<1> QED  BY <1>2, <1>3, UpKept

LEMMA DownKept ==
  ASSUME DownInv, Shrink, agent' = agent, agent # None /\ (Linked(agent))' => Linked(agent),
         agent # None /\ Linked(agent) =>
           /\ \A m \in Elements(down'[agent]) : m \in Elements(down[agent]) \/ FrameFits(m)
           /\ OpenThenData(down'[agent]) /\ OpenOnce(down'[agent])
  PROVE  DownInv'
<1> SUFFICES ASSUME agent # None, Linked(agent)
             PROVE  /\ LiveLocalInv'
                    /\ \A m \in Elements(down'[agent]) : (FrameFits(m))'
                    /\ OpenThenData(down'[agent]) /\ OpenOnce(down'[agent])
  BY DEF DownInv, Elements, OpenThenData, OpenOnce
<1> QED  BY FitsKept DEF DownInv

LEMMA DownSent ==
  ASSUME TypeOK, DownInv, Shrink, UNCHANGED <<agent, conn>>, NEW ms \in Seq(Down), SendDown(ms),
         agent # None /\ Linked(agent) =>
           \A m \in Elements(ms) :
             /\ m.type # "open" /\ FrameFits(m)
             /\ \A d \in Elements(down[agent]) :
                  d.type = "open" /\ m.type = "data" /\ d.id = m.id => m.data[1] = d.data
  PROVE  DownInv'
<1>1. (Linked(agent))' <=> Linked(agent)
  BY DEF Linked
<1>2. ASSUME agent # None, Linked(agent)
      PROVE  /\ \A m \in Elements(down'[agent]) : m \in Elements(down[agent]) \/ FrameFits(m)
             /\ OpenThenData(down'[agent]) /\ OpenOnce(down'[agent])
  <2>1. agent \in Conn /\ down[agent] \in Seq(Down)
    BY <1>2 DEF TypeOK
  <2>2. OpenThenData(down[agent]) /\ OpenOnce(down[agent])
    BY <1>2 DEF DownInv
  <2>3. CASE down'[agent] = down[agent]
    BY <2>2, <2>3
  <2>4. CASE down'[agent] = down[agent] \o ms
    <3>1. Elements(down'[agent]) = Elements(down[agent]) \cup Elements(ms)
      BY <2>1, <2>4, ElementsJoin
    <3>2. OpenThenData(down'[agent])
      BY <1>2, <2>2, <3>1 DEF OpenThenData
    <3>3. OpenOnce(ms)
      BY <1>2 DEF OpenOnce, Elements
    <3>4. OpenOnce(down'[agent])
      BY <1>2, <2>1, <2>2, <2>4, <3>3, OnceJoin
    <3> QED  BY <1>2, <3>1, <3>2, <3>4
  <2> QED  BY <2>1, <2>3, <2>4, DownAfter
<1> QED  BY <1>1, <1>2, DownKept

LEMMA GotKept ==
  ASSUME GotInv, UNCHANGED <<for, bgot, lgot>>,
         \A l \in Local : local'[l] = "unused" <=> local[l] = "unused",
         \A b \in Browser : \A n \in DOMAIN bgot[b] : bgot[b][n][1] \in Local
  PROVE  GotInv'
BY DEF GotInv

LEMMA LocalKept ==
  ASSUME LocalInv, UNCHANGED <<act, pend, local, lid, for, agent>>
  PROVE  LocalInv'
BY DEF LocalInv, PendFits, Usable, LiveL

\* The first component of what a browser got is a localhost socket, and conversely.
LEMMA Senders ==
  ASSUME TypeOK
  PROVE  /\ \A b \in Browser : \A n \in DOMAIN bgot[b] : bgot[b][n][1] \in Local
         /\ \A l \in Local : \A n \in DOMAIN lgot[l] : lgot[l][n][1] \in Browser
<1>1. \A b \in Browser : bgot[b] \in Seq(FromLocal)
  BY DEF TypeOK
<1>2. \A l \in Local : lgot[l] \in Seq(FromBrowser)
  BY DEF TypeOK
<1>3. \A m \in FromLocal : m[1] \in Local
  BY DEF FromLocal
<1>4. \A m \in FromBrowser : m[1] \in Browser
  BY DEF FromBrowser
<1>5. \A b \in Browser : \A n \in DOMAIN bgot[b] : bgot[b][n] \in FromLocal
  BY <1>1
<1>6. \A l \in Local : \A n \in DOMAIN lgot[l] : lgot[l][n] \in FromBrowser
  BY <1>2
<1> QED  BY <1>3, <1>4, <1>5, <1>6

LEMMA ConnSentDown ==
  ASSUME TypeOK, ConnInv, UNCHANGED <<agent, ws, conn, up>>, NEW ms \in Seq(Down), SendDown(ms)
  PROVE  ConnInv'
BY DownAfter DEF ConnInv, Linked

LEMMA ConnSentUp ==
  ASSUME TypeOK, ConnInv, UNCHANGED <<agent, ws, conn>>, NEW ms \in Seq(Up), SendUp(ms),
         \A c \in Conn : ~Linked(c) => down'[c] = <<>>
  PROVE  ConnInv'
BY UpAfter DEF ConnInv, Linked

LEMMA InitChannel == Init => ChannelInv
<1> SUFFICES ASSUME Init PROVE ChannelInv
  OBVIOUS
<1>1. ConnInv
  BY DEF Init, ConnInv, Linked
<1>2. LocalInv
  BY DEF Init, LocalInv, Usable, LiveL
<1>3. DownInv /\ UpInv
  BY DEF Init, DownInv, UpInv, Linked
<1>4. GotInv
  BY DEF Init, GotInv
<1> QED  BY <1>1, <1>2, <1>3, <1>4 DEF ChannelInv

-----------------------------------------------------------------------------
\* The gateway's actions.

LEMMA UpgradeStep ==
  ASSUME TypeInv, ChannelInv, NEW b \in Browser, Upgrade(b)
  PROVE  ChannelInv'
<1> USE DEF TypeInv, ChannelInv
<1>1. /\ nextId \in Id /\ nextId \in Nat /\ browser[b] = "new" /\ nextId' = nextId + 1
      /\ UNCHANGED <<act, pend, local, lid, for, agent, ws, conn, online, up, bgot, lgot>>
  BY IdNat DEF Upgrade, agentVars, connVars, dataVars
<1>0. PICK m \in Down : m = [type |-> "open", id |-> nextId, data |-> b]
  BY <1>1 DEF Down
<1>2. PICK ms \in Seq(Down) : SendDown(ms) /\ ms = <<m>>
  BY <1>0, OneTyped DEF Upgrade
<1>3. \A a \in Browser : (LiveB(a))' => a = b \/ LiveB(a)
  BY DEF Upgrade, TypeOK, LiveB
<1>4. \A a \in Browser : bid'[a] = IF a = b THEN nextId ELSE bid[a]
  BY <1>1 DEF Upgrade, TypeOK
<1>5. \A l \in Local : (LiveL(l))' <=> LiveL(l)
  BY <1>1 DEF LiveL
<1>6. \A x \in Id : x \in Nat
  BY IdNat
<1>7. \A l \in Local : LiveL(l) => lid[l] \in Nat
  BY <1>6 DEF IdsInv
<1>8. \A c \in Conn : (Linked(c))' <=> Linked(c)
  BY <1>1 DEF Linked
<1>9. ConnInv' /\ LocalInv' /\ GotInv'
  <2>1. GotInv'
    BY <1>1, GotKept, Senders
  <2>2. LocalInv'
    BY <1>1, LocalKept
  <2> QED  BY <1>1, <1>2, <2>1, <2>2, ConnSentDown
<1>10. UpInv'
  <2> SUFFICES ASSUME NEW c \in Conn, Linked(c), NEW f \in Elements(up[c])
               PROVE  (UpFits(f))'
    BY <1>1, <1>8 DEF UpInv, Elements
  <2>1. f \in Up /\ f.id \in Nat
    BY <1>6, UpKinds, ElementsTyped DEF TypeOK
  <2>2. UpFits(f)
    BY DEF UpInv
  <2> QED  BY <1>1, <1>3, <1>4, <2>1, <2>2 DEF UpFits
<1>11. DownInv'
  <2> SUFFICES ASSUME agent # None, Linked(agent)
               PROVE  /\ LiveLocalInv'
                      /\ \A f \in Elements(down'[agent]) : (FrameFits(f))'
                      /\ OpenThenData(down'[agent]) /\ OpenOnce(down'[agent])
    BY <1>1, <1>8 DEF DownInv, Elements, OpenThenData, OpenOnce, Linked
  <2>1. agent \in Conn /\ down[agent] \in Seq(Down)
    BY DEF TypeOK
  <2>2. /\ LiveLocalInv /\ \A f \in Elements(down[agent]) : FrameFits(f)
        /\ OpenThenData(down[agent]) /\ OpenOnce(down[agent])
    BY DEF DownInv
  <2>3. LiveLocalInv'
    BY <1>1, <1>3, <1>4, <1>5, <1>7, <2>2 DEF LiveLocalInv
  <2>4. ASSUME NEW f \in Elements(down[agent]) PROVE (FrameFits(f))' /\ f.id # nextId
    <3>1. f.id \in Nat /\ f.id < nextId
      BY <1>6, <2>1, <2>2, DownKinds, ElementsTyped DEF FrameFits
    <3>2. f.type = "open" => (OpenFits(f))'
      BY <1>1, <1>3, <1>4, <1>5, <2>2, <3>1 DEF FrameFits, OpenFits
    <3>3. f.type = "data" => (DataFits(f))'
      BY <1>1, <1>5, <2>2 DEF FrameFits, DataFits
    <3> QED  BY <1>1, <3>1, <3>2, <3>3 DEF FrameFits
  <2>5. (FrameFits(m))' /\ m.id = nextId /\ m.type = "open"
    <3>1. m.id = nextId /\ m.type = "open" /\ m.data = b
      BY <1>0
    <3>2. \A a \in Browser : LiveB(a) => bid[a] # nextId
      BY <1>1, <1>6 DEF BidInv
    <3>3. \A l \in Local : LiveL(l) => lid[l] # nextId
      BY <1>1, <1>7, <2>2 DEF LiveLocalInv
    <3>4. (OpenFits(m))'
      BY <1>1, <1>3, <1>4, <1>5, <3>1, <3>2, <3>3 DEF OpenFits
    <3> QED  BY <1>1, <3>1, <3>4 DEF FrameFits
  <2>6. CASE down'[agent] = down[agent]
    BY <2>2, <2>3, <2>4, <2>6
  <2>7. CASE down'[agent] = down[agent] \o ms
    <3>0. Elements(ms) = {m}
      BY <1>2, ElementsOne
    <3>1. Elements(down'[agent]) = Elements(down[agent]) \cup {m}
      BY <2>1, <2>7, <3>0, ElementsJoin
    <3>2. OpenThenData(down'[agent])
      BY <2>2, <2>4, <2>5, <3>1 DEF OpenThenData
    <3>3. OpenOnce(ms)
      BY <1>2 DEF OpenOnce
    <3>4. OpenOnce(down'[agent])
      BY <2>1, <2>2, <2>4, <2>5, <2>7, <3>0, <3>3, OnceJoin
    <3> QED  BY <2>3, <2>4, <2>5, <3>1, <3>2, <3>4
  <2> QED  BY <1>2, <2>1, <2>6, <2>7, DownAfter
<1> QED  BY <1>9, <1>10, <1>11

LEMMA BrowserMessageStep ==
  ASSUME TypeInv, ChannelInv, NEW b \in Browser, BrowserMessage(b)
  PROVE  ChannelInv'
<1> USE DEF TypeInv, ChannelInv
<1>1. /\ UNCHANGED <<nextId, chan, browser, bid, act, pend, local, lid, for>>
      /\ UNCHANGED <<agent, ws, conn, up, bgot, lgot>>
      /\ LiveB(b)
  BY DEF BrowserMessage, gatewayVars, agentVars, connVars, LiveB
<1>2. bid[b] \in Id /\ bid[b] < nextId
  BY <1>1 DEF BidInv
<1>0. PICK m \in Down : m = [type |-> "data", id |-> bid[b], data |-> <<b, bsent[b] + 1>>]
  <2>1. <<b, bsent[b] + 1>> \in FromBrowser
    BY DEF BrowserMessage, TypeOK, FromBrowser, Number
  <2> QED  BY <1>2, <2>1 DEF Down
<1>3. <<m>> \in Seq(Down) /\ SendDown(<<m>>)
  BY <1>0, OneTyped DEF BrowserMessage
<1>4. Shrink
  BY <1>1 DEF Shrink, LiveB, LiveL
<1>5. ConnInv' /\ LocalInv' /\ GotInv'
  <2>1. GotInv'
    BY <1>1, GotKept, Senders
  <2>2. LocalInv'
    BY <1>1, LocalKept
  <2> QED  BY <1>1, <1>3, <2>1, <2>2, ConnSentDown
<1>6. UpInv'
  BY <1>1, <1>4, UpKept DEF Linked
<1>7. DownInv'
  <2>1. m.type = "data" /\ m.id = bid[b] /\ m.data[1] = b
    BY <1>0
  <2>2. ASSUME agent # None, Linked(agent)
        PROVE  /\ FrameFits(m)
               /\ \A d \in Elements(down[agent]) : d.type = "open" /\ d.id = m.id => m.data[1] = d.data
    <3>1. LiveLocalInv /\ \A f \in Elements(down[agent]) : FrameFits(f)
      BY <2>2 DEF DownInv
    <3>2. FrameFits(m)
      BY <1>1, <1>2, <2>1, <3>1 DEF FrameFits, DataFits, LiveLocalInv
    <3>3. \A d \in Elements(down[agent]) : d.type = "open" /\ d.id = m.id => m.data[1] = d.data
      BY <1>1, <2>1, <3>1 DEF FrameFits, OpenFits
    <3> QED  BY <3>2, <3>3
  <2>3. Elements(<<m>>) = {m}
    BY ElementsOne
  <2> QED  BY <1>1, <1>3, <1>4, <2>1, <2>2, <2>3, DownSent
<1> QED  BY <1>5, <1>6, <1>7

LEMMA BrowserEventStep ==
  ASSUME TypeInv, ChannelInv, NEW b \in Browser, BrowserEvent(b)
  PROVE  ChannelInv'
<1> USE DEF TypeInv, ChannelInv
<1>1. PICK times \in {1, 2} : CloseChannelDown(bid[b], times)
  BY DEF BrowserEvent
<1> DEFINE m == [type |-> "close", id |-> bid[b], data |-> None]
           ms == [n \in 1 .. times |-> m]
<1>2. /\ UNCHANGED <<nextId, bid, act, pend, local, lid, for, agent, ws, conn, up, bgot, lgot>>
      /\ browser' = [browser EXCEPT ![b] = "closed"] /\ LiveB(b) /\ SendDown(ms)
  BY <1>1 DEF BrowserEvent, CloseChannelDown, agentVars, connVars, dataVars, LiveB
<1>3. bid[b] \in Id /\ bid[b] < nextId
  BY <1>2 DEF BidInv
<1>4. m \in Down /\ ms \in Seq(Down)
  BY <1>3, CloseTyped, Repeated
<1>5. \A a \in Browser : (LiveB(a))' => LiveB(a)
  BY <1>2 DEF LiveB, TypeOK
<1>6. Shrink
  BY <1>2, <1>5 DEF Shrink, LiveL
<1>7. ConnInv' /\ LocalInv' /\ GotInv'
  <2>1. GotInv'
    BY <1>2, GotKept, Senders
  <2>2. LocalInv'
    BY <1>2, LocalKept
  <2> HIDE DEF ms
  <2> QED  BY <1>2, <1>4, <2>1, <2>2, ConnSentDown
<1>8. UpInv'
  BY <1>2, <1>6, UpKept DEF Linked
<1>9. DownInv'
  <2>1. \A f \in Elements(ms) : f.type = "close" /\ f.id = bid[b]
    BY DEF Elements
  <2> HIDE DEF ms
  <2>2. \A f \in Elements(ms) : f.type # "open" /\ f.type # "data" /\ FrameFits(f)
    BY <1>3, <2>1 DEF FrameFits
  <2> QED  BY <1>2, <1>4, <1>6, <2>2, DownSent
<1> QED  BY <1>7, <1>8, <1>9

LEMMA GatewayReceivesStep ==
  ASSUME TypeInv, ChannelInv, NEW c \in Conn, GatewayReceives(c)
  PROVE  ChannelInv'
<1> USE DEF TypeInv, ChannelInv
<1>1. /\ UNCHANGED <<nextId, bid, act, pend, local, lid, for, agent, ws, conn, down, lgot>>
      /\ up[c] # <<>> /\ up' = [up EXCEPT ![c] = Tail(@)] /\ Linked(c)
  BY DEF GatewayReceives, agentVars, connVars, Linked
<1>2. PICK m \in Up : m = Head(up[c])
  BY <1>1, QueueTaken DEF TypeOK
<1>3. m \in Elements(up[c]) /\ Elements(up'[c]) \subseteq Elements(up[c])
  BY <1>1, <1>2, ElementsTail DEF TypeOK
<1>4. \A b \in Browser : (LiveB(b))' => LiveB(b)
  <2>1. UNCHANGED browser \/ CloseBrowsers({chan[m.id]})
    BY <1>2 DEF GatewayReceives
  <2> QED  BY <2>1, BrowsersClosed DEF LiveB
<1>5. Shrink
  BY <1>1, <1>4 DEF Shrink, LiveL
<1>6. ConnInv'
  BY <1>1 DEF ConnInv, Linked, TypeOK
<1>7. LocalInv'
  BY <1>1, LocalKept
<1>8. UpInv'
  <2>1. \A d \in Conn : Elements(up'[d]) \subseteq Elements(up[d])
    BY <1>1, <1>3 DEF TypeOK
  <2> QED  BY <1>1, <1>5, <2>1, UpKept DEF Linked
<1>9. DownInv'
  BY <1>1, <1>5, DownKept DEF DownInv, Linked
<1>10. GotInv'
  <2>1. CASE bgot' = bgot
    BY <1>1, <2>1, GotKept, Senders
  <2>2. CASE bgot' # bgot
    <3>1. PICK b \in Browser : /\ m.type = "data" /\ chan[m.id] = b /\ browser[b] = "open"
                               /\ bgot' = [bgot EXCEPT ![b] = Append(@, m.data)]
      <4>1. m.id \in Id /\ chan[m.id] \in Browser \cup {None}
        BY UpKinds DEF TypeOK
      <4>2. /\ m.type = "data" /\ chan[m.id] # None /\ browser[chan[m.id]] = "open"
            /\ bgot' = [bgot EXCEPT ![chan[m.id]] = Append(@, m.data)]
        BY <1>2, <2>2 DEF GatewayReceives
      <4> QED  BY <4>1, <4>2
    <3>2. LiveB(b) /\ bid[b] = m.id
      BY <3>1, UpKinds DEF OpenIsTracked, LiveB
    <3>3. local[m.data[1]] # "unused" /\ for[m.data[1]] = b
      BY <1>1, <1>3, <3>1, <3>2 DEF UpInv, UpFits
    <3>4. bgot[b] \in Seq(FromLocal) /\ m.data \in FromLocal /\ bgot \in [Browser -> Seq(FromLocal)]
      BY <3>1, UpKinds DEF TypeOK
    <3>5. \A n \in DOMAIN Append(bgot[b], m.data) :
            Append(bgot[b], m.data)[n] = m.data
            \/ (n \in DOMAIN bgot[b] /\ Append(bgot[b], m.data)[n] = bgot[b][n])
      BY <3>4, Appended
    <3>6. \A a \in Browser : bgot'[a] = IF a = b THEN Append(bgot[b], m.data) ELSE bgot[a]
      BY <3>1, <3>4
    <3>7. \A a \in Browser : \A n \in DOMAIN bgot'[a] :
            local[bgot'[a][n][1]] # "unused" /\ for[bgot'[a][n][1]] = a
      <4> TAKE a \in Browser
      <4>1. CASE a = b
        <5>1. bgot'[a] = Append(bgot[b], m.data)
          BY <3>6, <4>1
        <5> SUFFICES ASSUME NEW n \in DOMAIN Append(bgot[b], m.data)
                     PROVE  LET x == Append(bgot[b], m.data)[n][1]
                            IN local[x] # "unused" /\ for[x] = a
          BY <5>1
        <5>2. CASE Append(bgot[b], m.data)[n] = m.data
          BY <3>3, <4>1, <5>2
        <5>3. CASE n \in DOMAIN bgot[b] /\ Append(bgot[b], m.data)[n] = bgot[b][n]
          BY <4>1, <5>3 DEF GotInv
        <5> QED  BY <3>5, <5>2, <5>3
      <4>2. CASE a # b
        BY <3>6, <4>2 DEF GotInv
      <4> QED  BY <4>1, <4>2
    <3> QED  BY <1>1, <3>7 DEF GotInv
  <2> QED  BY <2>1, <2>2
<1> QED  BY <1>6, <1>7, <1>8, <1>9, <1>10

LEMMA TunnelStep ==
  ASSUME TypeInv, ChannelInv, Tunnel
  PROVE  ChannelInv'
<1> USE DEF TypeInv, ChannelInv
<1>1. /\ UNCHANGED <<nextId, browser, bid, act, pend, local, lid, for, agent, down, up, bgot, lgot>>
      /\ ws' \in {ws, None}
  BY TunnelOnly DEF gatewayVars, agentVars, dataVars
<1>2. Shrink
  BY <1>1 DEF Shrink, LiveB, LiveL
<1>3. \A d \in Conn : ((Linked(d))' <=> Linked(d)) /\ (conn'[d] = "unused" <=> conn[d] = "unused")
  BY TunnelOnly DEF Linked
<1>4. agent \in Conn \cup {None} /\ ws \in Conn \cup {None}
  BY DEF TypeOK
<1>5. ConnInv'
  BY <1>1, <1>3, <1>4 DEF ConnInv
<1>6. LocalInv' /\ GotInv'
  <2>1. GotInv'
    BY <1>1, GotKept, Senders
  <2> QED  BY <1>1, <2>1, LocalKept
<1>7. UpInv'
  BY <1>1, <1>2, <1>3, UpKept
<1>8. DownInv'
  BY <1>1, <1>2, <1>3, <1>4, DownKept DEF DownInv
<1> QED  BY <1>5, <1>6, <1>7, <1>8

LEMMA CloseEventStep ==
  ASSUME TypeInv, ChannelInv, NEW c \in Conn, CloseEvent(c)
  PROVE  ChannelInv'
<1> USE DEF TypeInv, ChannelInv
<1>1. /\ UNCHANGED <<nextId, bid, act, pend, local, lid, for, agent, bgot, lgot>>
      /\ conn' = [conn EXCEPT ![c] = "closed"] /\ CloseBrowsers({chan[i] : i \in Id})
      /\ ws' \in {ws, None} /\ conn[c] # "unused"
      /\ down' = [down EXCEPT ![c] = <<>>] /\ up' = [up EXCEPT ![c] = <<>>]
  BY DEF CloseEvent, CleanupInstanceChannels, agentVars, dataVars
<1>2. Shrink
  BY <1>1, BrowsersClosed DEF Shrink, LiveL
<1>3. \A d \in Conn : /\ (Linked(d))' <=> Linked(d) /\ d # c
                      /\ conn'[d] = "unused" <=> conn[d] = "unused"
                      /\ d # c => down'[d] = down[d] /\ up'[d] = up[d]
                      /\ d = c => down'[d] = <<>> /\ up'[d] = <<>>
  BY <1>1 DEF Linked, TypeOK
<1>4. agent \in Conn \cup {None} /\ ws \in Conn \cup {None}
  BY DEF TypeOK
<1>5. ConnInv'
  BY <1>1, <1>3, <1>4 DEF ConnInv
<1>6. LocalInv' /\ GotInv'
  <2>1. GotInv'
    BY <1>1, GotKept, Senders
  <2> QED  BY <1>1, <2>1, LocalKept
<1>7. UpInv'
  <2>1. \A d \in Conn : Elements(up'[d]) \subseteq Elements(up[d])
    BY <1>3, ElementsNone
  <2> QED  BY <1>2, <1>3, <2>1, UpKept
<1>8. DownInv'
  <2>1. CASE agent = c
    BY <1>1, <1>3, <2>1 DEF DownInv
  <2>2. CASE agent # c
    BY <1>1, <1>2, <1>3, <1>4, <2>2, DownKept DEF DownInv
  <2> QED  BY <2>1, <2>2
<1> QED  BY <1>5, <1>6, <1>7, <1>8

LEMMA CrashStep ==
  ASSUME TypeInv, ChannelInv, Crash
  PROVE  ChannelInv'
<1> USE DEF TypeInv, ChannelInv
<1>1. UNCHANGED <<act, pend, local, lid, for, agent, bgot, lgot>>
  BY DEF Crash, agentVars, dataVars
<1>2. \A c \in Conn : /\ ~(Linked(c))' /\ down'[c] = <<>> /\ up'[c] = <<>>
                      /\ conn'[c] = "unused" <=> conn[c] = "unused"
  BY DEF Crash, Linked
<1>3. agent \in Conn \cup {None} /\ ws' = None
  BY DEF Crash, TypeOK
<1>4. ConnInv'
  BY <1>1, <1>2, <1>3 DEF ConnInv
<1>5. LocalInv' /\ GotInv'
  <2>1. GotInv'
    BY <1>1, GotKept, Senders
  <2> QED  BY <1>1, <2>1, LocalKept
<1>6. UpInv' /\ DownInv'
  BY <1>1, <1>2, <1>3 DEF UpInv, DownInv
<1> QED  BY <1>4, <1>5, <1>6

\* The agent is back: its sockets to localhost have gone, so that none carries an
\* id of an earlier gateway process.
LEMMA ConnectStep ==
  ASSUME ~SlowClose, TypeInv, ChannelInv, NEW c \in Conn, Connect(c)
  PROVE  ChannelInv'
<1> USE DEF TypeInv, ChannelInv
<1>1. /\ UNCHANGED <<nextId, browser, bid, act, pend, local, lid, for, down, up, bgot, lgot>>
      /\ agent = None /\ agent' = c /\ ws' = c /\ conn[c] = "unused"
  BY DEF Connect, gatewayVars, agentVars, dataVars
<1>2. \A d \in Conn : /\ (Linked(d))' <=> Linked(d) \/ d = c
                      /\ conn'[d] = "unused" <=> conn[d] = "unused" /\ d # c
  BY <1>1 DEF Connect, Linked, TypeOK
<1>3. down[c] = <<>> /\ up[c] = <<>>
  BY <1>1 DEF ConnInv, Linked
<1>4. \A l \in Local : ~LiveL(l)
  BY <1>1 DEF Connect, LocalsGone, LocalInv, Usable, LiveL
<1>5. ConnInv'
  BY <1>1, <1>2, <1>3 DEF ConnInv
<1>6. GotInv'
  BY <1>1, GotKept, Senders
<1>7. LocalInv'
  BY <1>1, <1>4 DEF LocalInv, PendFits, Usable, LiveL
<1>8. UpInv'
  <2> SUFFICES ASSUME NEW d \in Conn, (Linked(d))', NEW m \in Elements(up[d]) PROVE (UpFits(m))'
    BY <1>1 DEF UpInv, Elements
  <2>1. d # c
    BY <1>3, ElementsNone
  <2>2. UpFits(m)
    BY <1>2, <2>1 DEF UpInv
  <2> QED  BY <1>1, <2>2 DEF UpFits, LiveB
<1>9. DownInv'
  <2>1. LiveLocalInv'
    BY <1>1, <1>4 DEF LiveLocalInv, LiveL
  <2>2. Elements(down'[c]) = {} /\ OpenOnce(down'[c])
    BY <1>1, <1>3, ElementsNone DEF OpenOnce
  <2>3. OpenThenData(down'[c])
    BY <2>2 DEF OpenThenData
  <2> QED  BY <1>1, <2>1, <2>2, <2>3 DEF DownInv, Elements, OpenThenData, OpenOnce
<1> QED  BY <1>5, <1>6, <1>7, <1>8, <1>9

-----------------------------------------------------------------------------
\* The agent's actions.

\* The frame the agent takes, and what stays in flight behind it.
LEMMA Taken ==
  ASSUME TypeInv, ChannelInv, NEW c \in Conn, AgentReceives(c)
  PROVE  /\ agent = c /\ c # None /\ Linked(c) /\ LiveLocalInv
         /\ Head(down[c]) \in Down /\ FrameFits(Head(down[c]))
         /\ Elements(down'[c]) \subseteq Elements(down[c])
         /\ \A f \in Elements(down'[c]) : FrameFits(f) /\ f \in Down
         /\ OpenThenData(down'[c]) /\ OpenOnce(down'[c])
         /\ \A f \in Elements(down'[c]) : Head(down[c]).type = "open" =>
              /\ f.type = "open" => f.id # Head(down[c]).id
              /\ f.type = "data" /\ f.id = Head(down[c]).id => f.data[1] = Head(down[c]).data
         /\ \A d \in Conn : ~Linked(d) => down'[d] = <<>>
<1> USE DEF TypeInv, ChannelInv
<1>1. agent = c /\ c # None /\ down[c] # <<>> /\ down' = [down EXCEPT ![c] = Tail(@)]
  BY DEF AgentReceives
<1>2. Linked(c)
  BY <1>1 DEF ConnInv
<1>3. down[c] \in Seq(Down) /\ down'[c] = Tail(down[c]) /\ down'[c] \in Seq(Down)
  BY <1>1 DEF TypeOK
<1>4. /\ LiveLocalInv /\ \A f \in Elements(down[c]) : FrameFits(f)
      /\ OpenThenData(down[c]) /\ OpenOnce(down[c])
  BY <1>1, <1>2 DEF DownInv
<1>5. /\ Head(down[c]) \in Elements(down[c]) /\ Head(down[c]) \in Down
      /\ Elements(down'[c]) \subseteq Elements(down[c]) /\ Elements(down'[c]) \subseteq Down
  BY <1>1, <1>3, ElementsTail, ElementsTyped
<1>6. OpenThenData(down'[c])
  BY <1>4, <1>5 DEF OpenThenData
<1>7. OpenOnce(down'[c])
      /\ \A f \in Elements(down'[c]) :
           f.type = "open" /\ Head(down[c]).type = "open" => f.id # Head(down[c]).id
  BY <1>1, <1>3, <1>4, OnceTail
<1>8. \A f \in Elements(down'[c]) :
        Head(down[c]).type = "open" /\ f.type = "data" /\ f.id = Head(down[c]).id
          => f.data[1] = Head(down[c]).data
  BY <1>4, <1>5 DEF OpenThenData
<1>9. \A d \in Conn : ~Linked(d) => down'[d] = <<>>
  BY <1>1, <1>2 DEF ConnInv, TypeOK
<1> QED  BY <1>1, <1>2, <1>4, <1>5, <1>6, <1>7, <1>8, <1>9

LEMMA TakenShrink ==
  ASSUME TypeInv, ChannelInv, NEW c \in Conn, AgentReceives(c), Shrink
  PROVE  DownInv'
<1>1. /\ agent = c /\ Linked(c) /\ UNCHANGED <<agent, conn>>
      /\ Elements(down'[c]) \subseteq Elements(down[c])
      /\ OpenThenData(down'[c]) /\ OpenOnce(down'[c])
  BY Taken DEF AgentReceives, connVars
<1> QED  BY <1>1, DownKept DEF ChannelInv, Linked

\* The step is told apart by the frame.
ReceiveFacts(c, m) ==
  /\ TypeInv /\ ChannelInv /\ AgentReceives(c)
  /\ m \in Down /\ FrameFits(m) /\ m = Head(down[c])
  /\ UNCHANGED <<nextId, chan, browser, bid, agent, ws, conn, bsent, lsent, bgot>>

\* A socket is opened under an id that no live socket, frame or buffer uses.
LEMMA OpenNewStep ==
  ASSUME NEW c \in Conn, NEW m, ReceiveFacts(c, m), m.type = "open",
         NEW l \in Local, local[l] = "unused", local' = [local EXCEPT ![l] = "connecting"],
         lid' = [lid EXCEPT ![l] = m.id], for' = [for EXCEPT ![l] = m.data],
         act' = [act EXCEPT ![m.id] = l], UNCHANGED <<pend, lgot, up>>
  PROVE  ChannelInv'
<1> USE DEF ReceiveFacts, TypeInv, ChannelInv
<1>1. /\ agent = c /\ c # None /\ Linked(c) /\ LiveLocalInv
      /\ \A f \in Elements(down'[c]) :
           /\ FrameFits(f) /\ f \in Down
           /\ f.type = "open" => f.id # m.id
           /\ f.type = "data" /\ f.id = m.id => f.data[1] = m.data
      /\ OpenThenData(down'[c]) /\ OpenOnce(down'[c])
      /\ \A d \in Conn : ~Linked(d) => down'[d] = <<>>
  BY Taken
<1>2. m.id \in Id /\ m.id < nextId /\ OpenFits(m)
  BY DownKinds DEF FrameFits
<1>3. /\ \A k \in Local : local'[k] = IF k = l THEN "connecting" ELSE local[k]
      /\ \A k \in Local : lid'[k] = IF k = l THEN m.id ELSE lid[k]
      /\ \A k \in Local : for'[k] = IF k = l THEN m.data ELSE for[k]
      /\ \A i \in Id : act'[i] = IF i = m.id THEN l ELSE act[i]
  BY <1>2 DEF TypeOK
<1>4. /\ \A k \in Local : (LiveL(k))' <=> LiveL(k) \/ k = l
      /\ \A k \in Local : (Usable(k))' <=> Usable(k) \/ k = l
      /\ ~LiveL(l) /\ ~Usable(l)
      /\ \A k \in Local : Usable(k) => LiveL(k)
  BY <1>3 DEF LiveL, Usable
<1>5. /\ \A b \in Browser : (LiveB(b))' <=> LiveB(b)
      /\ \A d \in Conn : (Linked(d))' <=> Linked(d)
  BY DEF LiveB, Linked
<1>6. act[m.id] = None
  <2>1. act[m.id] \in Local \cup {None}
    BY <1>2 DEF TypeOK
  <2> QED  BY <1>2, <1>4, <2>1 DEF LocalInv, OpenFits
<1>7. ConnInv'
  BY <1>1 DEF ConnInv, Linked
<1>8. LocalInv'
  <2>1. \A i \in Id : act'[i] # None =>
        local'[act'[i]] \in {"connecting", "open"} /\ lid'[act'[i]] = i
    <3>1. \A i \in Id : act[i] \in Local \cup {None}
      BY DEF TypeOK
    <3>2. \A i \in Id : act[i] # None => Usable(act[i]) /\ lid[act[i]] = i
      BY DEF LocalInv
    <3>3. \A i \in Id : i # m.id /\ act[i] # None =>
             act'[i] = act[i] /\ act[i] \in Local /\ act[i] # l
      BY <1>3, <1>4, <3>1, <3>2
    <3>4. act'[m.id] = l
      BY <1>2, <1>3
    <3>5. \A i \in Id : i # m.id => act'[i] = act[i]
      BY <1>3
    <3>6. \A i \in Id : i # m.id /\ act[i] # None => (Usable(act[i]))' /\ lid'[act[i]] = i
      BY <1>3, <1>4, <3>2, <3>3
    <3>7. (Usable(l))' /\ lid'[l] = m.id
      BY <1>3, <1>4
    <3> QED  BY <3>4, <3>5, <3>6, <3>7 DEF Usable
  <2>2. \A k \in Local : (Usable(k))' => act'[lid'[k]] = k
    <3>1. \A k \in Local : Usable(k) => act[lid[k]] = k /\ lid[k] \in Id /\ lid[k] # m.id
      BY <1>2, <1>4 DEF LocalInv, IdsInv, OpenFits
    <3> QED  BY <1>2, <1>3, <1>4, <3>1
  <2>3. \A j, k \in Local : (LiveL(j))' /\ (LiveL(k))' /\ lid'[k] = lid'[j] => k = j
    BY <1>2, <1>3, <1>4 DEF LocalInv, OpenFits
  <2>4. agent' # None
    BY <1>1
  <2>5. \A i \in Id : \A n \in DOMAIN pend[i] : (PendFits(i, n))'
    <3> TAKE i \in Id
    <3> TAKE n \in DOMAIN pend[i]
    <3>1. PICK k \in Local : local[k] \in {"connecting", "aborted"} /\ lid[k] = i /\ for[k] = pend[i][n][1]
      BY DEF LocalInv, PendFits
    <3>2. k # l
      BY <3>1
    <3>3. local'[k] = local[k] /\ lid'[k] = lid[k] /\ for'[k] = for[k] /\ pend' = pend
      BY <1>3, <3>2
    <3> QED  BY <3>1, <3>3 DEF PendFits
  <2> QED  BY <2>1, <2>2, <2>3, <2>4, <2>5 DEF LocalInv, Usable
<1>9. DownInv'
  <2>1. LiveLocalInv'
    BY <1>1, <1>2, <1>3, <1>4, <1>5 DEF LiveLocalInv, OpenFits
  <2>2. ASSUME NEW f \in Elements(down'[c]) PROVE (FrameFits(f))'
    <3>1. f.type = "open" => (OpenFits(f))'
      BY <1>1, <1>3, <1>4, <1>5 DEF FrameFits, OpenFits
    <3>2. f.type = "data" => (DataFits(f))'
      BY <1>1, <1>3, <1>4 DEF FrameFits, DataFits
    <3> QED  BY <1>1, <3>1, <3>2 DEF FrameFits
  <2> QED  BY <1>1, <2>1, <2>2 DEF DownInv, Elements, OpenThenData, OpenOnce
<1>10. UpInv'
  <2> SUFFICES ASSUME NEW d \in Conn, Linked(d), NEW f \in Elements(up[d]) PROVE (UpFits(f))'
    BY <1>5 DEF UpInv, Elements
  <2>1. UpFits(f)
    BY DEF UpInv
  <2> QED  BY <1>3, <1>5, <2>1 DEF UpFits
<1>11. GotInv'
  <2>1. \A b \in Browser : \A n \in DOMAIN bgot[b] :
          local'[bgot[b][n][1]] # "unused" /\ for'[bgot[b][n][1]] = b
    BY <1>3, Senders DEF GotInv
  <2>2. \A k \in Local : /\ local'[k] = "unused" => lgot[k] = <<>>
                         /\ \A n \in DOMAIN lgot[k] : for'[k] = lgot[k][n][1]
    BY <1>3 DEF GotInv
  <2> QED  BY <2>1, <2>2 DEF GotInv
<1> QED  BY <1>7, <1>8, <1>9, <1>10, <1>11

\* Forgetting the channels of a set of ids closes exactly their sockets.
LEMMA LocalShrunk ==
  ASSUME TypeInv, LocalInv, UNCHANGED <<lid, for>>, NEW I \in SUBSET Id,
         act' = [i \in Id |-> IF i \in I THEN None ELSE act[i]],
         \A l \in Local : (LiveL(l))' => LiveL(l),
         \A l \in Local : (Usable(l))' <=> Usable(l) /\ lid[l] \notin I,
         agent' = None => agent = None \/ I = Id,
         \A i \in Id : \/ pend'[i] = <<>>
                       \/ /\ pend'[i] = pend[i]
                          /\ \A l \in Local : local[l] \in {"connecting", "aborted"} /\ lid[l] = i
                               => local'[l] \in {"connecting", "aborted"}
  PROVE  LocalInv'
<1> USE DEF TypeInv
<1>1. \A i \in Id : act'[i] # None =>
        local'[act'[i]] \in {"connecting", "open"} /\ lid'[act'[i]] = i
  <2> SUFFICES ASSUME NEW i \in Id, act'[i] # None
               PROVE  local'[act'[i]] \in {"connecting", "open"} /\ lid'[act'[i]] = i
    OBVIOUS
  <2>1. i \notin I /\ act'[i] = act[i] /\ act[i] \in Local
    BY DEF TypeOK
  <2>2. Usable(act[i]) /\ lid[act[i]] = i
    BY <2>1 DEF LocalInv
  <2>3. (Usable(act[i]))' <=> local'[act'[i]] \in {"connecting", "open"}
    BY DEF Usable
  <2>4. \A l \in Local : Usable(l) /\ lid[l] \notin I => local'[l] \in {"connecting", "open"}
    BY DEF Usable
  <2> QED  BY <2>1, <2>2, <2>4
<1>2. \A l \in Local : (Usable(l))' => act'[lid'[l]] = l
  <2>1. \A l \in Local : Usable(l) => act[lid[l]] = l /\ lid[l] \in Id
    BY DEF LocalInv, IdsInv, Usable, LiveL
  <2> QED  BY <2>1
<1>3. \A l, k \in Local : (LiveL(l))' /\ (LiveL(k))' /\ lid'[k] = lid'[l] => k = l
  BY DEF LocalInv
<1>4. agent' = None => \A l \in Local : ~(Usable(l))'
  BY DEF LocalInv, IdsInv, Usable, LiveL
<1>5. \A i \in Id : \A n \in DOMAIN pend'[i] : (PendFits(i, n))'
  <2> SUFFICES ASSUME NEW i \in Id, NEW n \in DOMAIN pend'[i]
               PROVE  \E l \in Local : /\ local'[l] \in {"connecting", "aborted"}
                                       /\ lid'[l] = i /\ for'[l] = pend'[i][n][1]
    BY DEF PendFits
  <2>1. pend'[i] # <<>>
    OBVIOUS
  <2>2. pend'[i] = pend[i]
    BY <2>1
  <2>3. PICK l \in Local : local[l] \in {"connecting", "aborted"} /\ lid[l] = i /\ for[l] = pend[i][n][1]
    BY <2>2 DEF LocalInv, PendFits
  <2> QED  BY <2>1, <2>2, <2>3
<1> QED  BY <1>1, <1>2, <1>3, <1>4, <1>5 DEF LocalInv, Usable

\* What the agent says of an id a frame or a live socket carries.
LEMMA ControlFits ==
  ASSUME NEW i \in Id, i < nextId, NEW t \in {"opened", "error", "closed"}
  PROVE  Control(t, i) \in Up /\ UpFits(Control(t, i))
BY ControlTyped DEF UpFits

LEMMA ControlSent ==
  ASSUME NEW i \in Id, i < nextId, NEW t \in {"opened", "error", "closed"},
         SendUp(<<Control(t, i)>>)
  PROVE  \E ms \in Seq(Up) : SendUp(ms) /\ \A f \in Elements(ms) : UpFits(f)
<1>1. Control(t, i) \in Up /\ UpFits(Control(t, i))
  BY ControlFits
<1>2. <<Control(t, i)>> \in Seq(Up)
  BY <1>1, OneTyped
<1>3. Elements(<<Control(t, i)>>) = {Control(t, i)}
  BY ElementsOne
<1> WITNESS <<Control(t, i)>> \in Seq(Up)
<1> QED  BY <1>1, <1>3

LEMMA OpenRefusedStep ==
  ASSUME NEW c \in Conn, NEW m, ReceiveFacts(c, m), SendUp(<<Control("error", m.id)>>),
         UNCHANGED <<agentVars, lgot>>
  PROVE  ChannelInv'
<1> USE DEF ReceiveFacts, TypeInv, ChannelInv
<1>1. m.id \in Id /\ m.id < nextId
  BY DownKinds DEF FrameFits
<1>2. PICK ms \in Seq(Up) : SendUp(ms) /\ \A f \in Elements(ms) : UpFits(f)
  BY <1>1, ControlSent
<1>3. Shrink
  BY DEF agentVars, Shrink, LiveB, LiveL
<1>4. ConnInv' /\ UpInv'
  BY <1>2, <1>3, Taken, ConnSentUp, UpSent
<1>5. LocalInv' /\ GotInv'
  <2>1. GotInv'
    BY GotKept, Senders DEF agentVars
  <2> QED  BY <2>1, LocalKept DEF agentVars
<1> QED  BY <1>3, <1>4, <1>5, TakenShrink

LEMMA CloseChannelStep ==
  ASSUME NEW c \in Conn, NEW m, ReceiveFacts(c, m), CloseChannel(m)
  PROVE  ChannelInv'
<1> USE DEF ReceiveFacts, TypeInv, ChannelInv
<1>1. m.id \in Id /\ m.id < nextId
  BY DownKinds DEF FrameFits
<1>2. PICK ms \in Seq(Up) : SendUp(ms) /\ \A f \in Elements(ms) : UpFits(f)
  BY <1>1, ControlSent DEF CloseChannel
<1>3. /\ CloseLocals({act[m.id]}) /\ act' = [act EXCEPT ![m.id] = None]
      /\ UNCHANGED <<pend, lid, for, lgot>>
  BY DEF CloseChannel
<1>4. Shrink
  BY <1>3, LocalsClosed DEF Shrink, LiveB
<1>5. ConnInv' /\ UpInv'
  BY <1>2, <1>4, Taken, ConnSentUp, UpSent
<1>6. GotInv'
  BY <1>3, GotKept, Senders, LocalsClosed
<1>7. LocalInv'
  <2>1. \A l \in Local : Usable(l) => (l \notin {act[m.id]} <=> lid[l] \notin {m.id})
    BY <1>1 DEF LocalInv
  <2>2. \A l \in Local : (Usable(l))' <=> Usable(l) /\ lid[l] \notin {m.id}
    BY <1>3, <2>1, LocalsClosed
  <2>3. act' = [i \in Id |-> IF i \in {m.id} THEN None ELSE act[i]]
    BY <1>3 DEF TypeOK
  <2>4. {m.id} \in SUBSET Id
    BY <1>1
  <2> QED  BY <1>3, <2>2, <2>3, <2>4, LocalShrunk, LocalsClosed
<1> QED  BY <1>4, <1>5, <1>6, <1>7, TakenShrink

LEMMA PassStep ==
  ASSUME NEW c \in Conn, NEW m, ReceiveFacts(c, m), m.type = "data", act[m.id] # None,
         Pass(act[m.id], m)
  PROVE  ChannelInv'
<1> USE DEF ReceiveFacts, TypeInv, ChannelInv
<1>1. /\ m.id \in Id /\ m.data \in FromBrowser /\ DataFits(m) /\ UNCHANGED <<agentVars, up>>
      /\ lgot' = [lgot EXCEPT ![act[m.id]] = Append(@, m.data)]
      /\ lgot \in [Local -> Seq(FromBrowser)]
  BY DownKinds DEF FrameFits, Pass, TypeOK
<1>2. PICK l \in Local : l = act[m.id]
  BY <1>1 DEF TypeOK
<1>3. LiveL(l) /\ lid[l] = m.id
  BY <1>1, <1>2 DEF LocalInv, Usable, LiveL
<1>4. Shrink
  BY <1>1 DEF agentVars, Shrink, LiveB, LiveL
<1>5. ConnInv'
  BY <1>1, Taken DEF ConnInv, Linked
<1>6. UpInv' /\ LocalInv'
  BY <1>1, <1>4, UpKept, LocalKept DEF agentVars, Linked
<1>7. GotInv'
  <2>1. \A b \in Browser : \A n \in DOMAIN bgot[b] :
          local[bgot[b][n][1]] # "unused" /\ for[bgot[b][n][1]] = b
    BY DEF GotInv
  <2>2. lgot' = [lgot EXCEPT ![l] = Append(@, m.data)] /\ local[l] # "unused" /\ for[l] = m.data[1]
    BY <1>1, <1>2, <1>3 DEF DataFits, LiveL
  <2>3. ASSUME NEW n \in DOMAIN lgot'[l] PROVE for[l] = lgot'[l][n][1]
    <3>1. lgot'[l] = Append(lgot[l], m.data) /\ lgot[l] \in Seq(FromBrowser)
      BY <1>1, <2>2
    <3>2. lgot'[l][n] = m.data \/ (n \in DOMAIN lgot[l] /\ lgot'[l][n] = lgot[l][n])
      <4> HIDE DEF ReceiveFacts, TypeInv, ChannelInv
      <4> QED  BY <1>1, <3>1, DataAppended
    <3> QED  BY <2>2, <3>2 DEF GotInv
  <2>4. \A k \in Local : k # l => lgot'[k] = lgot[k]
    BY <1>1, <2>2
  <2>5. \A k \in Local : /\ local[k] = "unused" => lgot'[k] = <<>>
                         /\ \A n \in DOMAIN lgot'[k] : for[k] = lgot'[k][n][1]
    <3> TAKE k \in Local
    <3>1. CASE k = l
      BY <2>2, <2>3, <3>1
    <3>2. CASE k # l
      BY <2>4, <3>2 DEF GotInv
    <3> QED  BY <3>1, <3>2
  <2>6. bgot' = bgot /\ local' = local /\ for' = for
    BY <1>1 DEF agentVars
  <2> QED  BY <2>1, <2>5, <2>6 DEF GotInv
<1> QED  BY <1>4, <1>5, <1>6, <1>7, TakenShrink

LEMMA BufferStep ==
  ASSUME NEW c \in Conn, NEW m, ReceiveFacts(c, m), m.type = "data", act[m.id] # None,
         local[act[m.id]] = "connecting", Buffer(m)
  PROVE  ChannelInv'
<1> USE DEF ReceiveFacts, TypeInv, ChannelInv
<1>1. /\ m.id \in Id /\ m.data \in FromBrowser /\ DataFits(m)
      /\ UNCHANGED <<act, local, lid, for, lgot, up>>
      /\ pend' = [pend EXCEPT ![m.id] = Append(@, m.data)]
      /\ pend \in [Id -> Seq(FromBrowser)]
  BY DownKinds DEF FrameFits, Buffer, TypeOK
<1>2. PICK l \in Local : l = act[m.id]
  BY <1>1 DEF TypeOK
<1>3. LiveL(l) /\ lid[l] = m.id /\ local[l] = "connecting" /\ for[l] = m.data[1]
  BY <1>1, <1>2 DEF LocalInv, LiveL, DataFits
<1>4. Shrink
  BY <1>1 DEF Shrink, LiveB, LiveL
<1>5. ConnInv'
  BY <1>1, Taken DEF ConnInv, Linked
<1>6. UpInv' /\ GotInv'
  BY <1>1, <1>4, UpKept, GotKept, Senders DEF Linked
<1>7. \A i \in Id : \A n \in DOMAIN pend'[i] : (PendFits(i, n))'
  <2> SUFFICES ASSUME NEW i \in Id, NEW n \in DOMAIN pend'[i]
               PROVE  \E k \in Local : /\ local[k] \in {"connecting", "aborted"}
                                       /\ lid[k] = i /\ for[k] = pend'[i][n][1]
    BY <1>1 DEF PendFits
  <2>1. CASE i = m.id
    <3>1. pend'[i] = Append(pend[i], m.data) /\ pend[i] \in Seq(FromBrowser)
      BY <1>1, <2>1
    <3>2. pend'[i][n] = m.data \/ (n \in DOMAIN pend[i] /\ pend'[i][n] = pend[i][n])
      <4> HIDE DEF ReceiveFacts, TypeInv, ChannelInv
      <4> QED  BY <1>1, <3>1, DataAppended
    <3> QED  BY <1>3, <2>1, <3>2 DEF LocalInv, PendFits
  <2>2. CASE i # m.id
    BY <1>1, <2>2 DEF LocalInv, PendFits
  <2> QED  BY <2>1, <2>2
<1>8. LocalInv'
  BY <1>1, <1>7 DEF LocalInv, Usable, LiveL
<1> QED  BY <1>4, <1>5, <1>6, <1>8, TakenShrink

LEMMA OverflowStep ==
  ASSUME NEW c \in Conn, NEW m, ReceiveFacts(c, m), Overflow(act[m.id], m)
  PROVE  ChannelInv'
<1> USE DEF ReceiveFacts, TypeInv, ChannelInv
<1>1. m.id \in Id /\ m.id < nextId
  BY DownKinds DEF FrameFits
<1>2. PICK ms \in Seq(Up) : SendUp(ms) /\ \A f \in Elements(ms) : UpFits(f)
  BY <1>1, ControlSent DEF Overflow
<1>3. /\ CloseLocals({act[m.id]}) /\ act' = [act EXCEPT ![m.id] = None]
      /\ pend' = [pend EXCEPT ![m.id] = <<>>] /\ UNCHANGED <<lid, for, lgot>>
  BY DEF Overflow
<1>4. Shrink
  BY <1>3, LocalsClosed DEF Shrink, LiveB
<1>5. ConnInv' /\ UpInv'
  BY <1>2, <1>4, Taken, ConnSentUp, UpSent
<1>6. GotInv'
  BY <1>3, GotKept, Senders, LocalsClosed
<1>7. LocalInv'
  <2>1. \A l \in Local : Usable(l) => (l \notin {act[m.id]} <=> lid[l] \notin {m.id})
    BY <1>1 DEF LocalInv
  <2>2. \A l \in Local : (Usable(l))' <=> Usable(l) /\ lid[l] \notin {m.id}
    BY <1>3, <2>1, LocalsClosed
  <2>3. act' = [i \in Id |-> IF i \in {m.id} THEN None ELSE act[i]]
    BY <1>3 DEF TypeOK
  <2>4. {m.id} \in SUBSET Id
    BY <1>1
  <2>5. \A i \in Id : pend'[i] = <<>> \/ pend'[i] = pend[i]
    BY <1>3 DEF TypeOK
  <2> QED  BY <1>3, <2>2, <2>3, <2>4, <2>5, LocalShrunk, LocalsClosed
<1> QED  BY <1>4, <1>5, <1>6, <1>7, TakenShrink

LEMMA DroppedStep ==
  ASSUME NEW c \in Conn, NEW m, ReceiveFacts(c, m), UNCHANGED <<agentVars, lgot, up>>
  PROVE  ChannelInv'
<1> USE DEF ReceiveFacts, TypeInv, ChannelInv
<1>1. Shrink
  BY DEF agentVars, Shrink, LiveB, LiveL
<1>2. ConnInv'
  BY Taken DEF ConnInv, Linked
<1>3. UpInv'
  BY <1>1, UpKept DEF Linked
<1>4. LocalInv' /\ GotInv'
  <2>1. GotInv'
    BY GotKept, Senders DEF agentVars
  <2> QED  BY <2>1, LocalKept DEF agentVars
<1> QED  BY <1>1, <1>2, <1>3, <1>4, TakenShrink

LEMMA AgentReceivesStep ==
  ASSUME TypeInv, ChannelInv, NEW c \in Conn, AgentReceives(c)
  PROVE  ChannelInv'
<1>1. PICK m : m = Head(down[c])
  OBVIOUS
<1>2. ReceiveFacts(c, m)
  BY <1>1, Taken DEF ReceiveFacts, AgentReceives, gatewayVars, connVars
<1>3. \/ m.type = "open" /\ OpenChannel(m)
      \/ m.type = "close" /\ CloseChannel(m)
      \/ m.type = "data" /\ ForwardChannelData(m)
  BY <1>1 DEF AgentReceives
<1>4. ASSUME m.type = "open", OpenChannel(m) PROVE ChannelInv'
  BY <1>2, <1>4, OpenNewStep, OpenRefusedStep DEF OpenChannel
<1>5. ASSUME m.type = "data", ForwardChannelData(m) PROVE ChannelInv'
  BY <1>2, <1>5, PassStep, BufferStep, OverflowStep, DroppedStep DEF ForwardChannelData
<1> QED  BY <1>2, <1>3, <1>4, <1>5, CloseChannelStep

LEMMA LocalOpenStep ==
  ASSUME TypeInv, ChannelInv, NEW l \in Local, LocalOpen(l)
  PROVE  ChannelInv'
<1> USE DEF TypeInv, ChannelInv
<1>1. /\ UNCHANGED <<nextId, chan, browser, bid, via, act, lid, for, agent, ws, conn, down, bgot>>
      /\ local[l] = "connecting" /\ local' = [local EXCEPT ![l] = "open"]
      /\ SendUp(<<Control("opened", lid[l])>>)
      /\ lgot' = [lgot EXCEPT ![l] = @ \o pend[lid[l]]]
      /\ pend' = [pend EXCEPT ![lid[l]] = <<>>]
  BY DEF LocalOpen, gatewayVars, connVars
<1>2. /\ \A k \in Local : (LiveL(k))' <=> LiveL(k)
      /\ \A k \in Local : (Usable(k))' <=> Usable(k)
      /\ \A k \in Local : local'[k] = "unused" <=> local[k] = "unused"
      /\ \A k \in Local : k # l => local'[k] = local[k]
  BY <1>1 DEF LiveL, Usable, TypeOK
<1>3. LiveL(l) /\ lid[l] \in Id
  BY <1>1 DEF LiveL, IdsInv
<1>4. Shrink
  BY <1>1, <1>2 DEF Shrink, LiveB
<1>5. ConnInv' /\ UpInv'
  <2>1. ASSUME agent # None, Linked(agent) PROVE lid[l] < nextId
    BY <1>3, <2>1 DEF DownInv, LiveLocalInv
  <2>2. PICK ms \in Seq(Up) : ms = <<Control("opened", lid[l])>>
    BY <1>3, ControlTyped, OneTyped
  <2>3. agent # None /\ Linked(agent) => \A f \in Elements(ms) : UpFits(f)
    <3>1. Elements(ms) = {Control("opened", lid[l])}
      BY <2>2, ElementsOne
    <3> QED  BY <1>3, <2>1, <3>1, ControlFits
  <2>4. \A c \in Conn : ~Linked(c) => down'[c] = <<>>
    BY <1>1 DEF ConnInv
  <2> QED  BY <1>1, <1>4, <2>2, <2>3, <2>4, ConnSentUp, UpSent
<1>6. DownInv'
  BY <1>1, <1>4, DownKept DEF DownInv, Linked
<1>7. LocalInv'
  <2>1. \A i \in Id : \/ pend'[i] = <<>>
                      \/ /\ pend'[i] = pend[i]
                         /\ \A k \in Local : local[k] \in {"connecting", "aborted"} /\ lid[k] = i
                              => local'[k] \in {"connecting", "aborted"}
    <3> TAKE i \in Id
    <3>1. CASE i = lid[l]
      BY <1>1, <3>1 DEF TypeOK
    <3>2. CASE i # lid[l]
      BY <1>1, <1>2, <3>2 DEF TypeOK
    <3> QED  BY <3>1, <3>2
  <2>2. act' = [i \in Id |-> IF i \in {} THEN None ELSE act[i]]
    BY <1>1 DEF TypeOK
  <2>3. {} \in SUBSET Id /\ \A k \in Local : (Usable(k))' <=> Usable(k) /\ lid[k] \notin {}
    BY <1>2
  <2>4. agent' = None => agent = None
    BY <1>1
  <2> QED  BY <1>1, <1>2, <2>1, <2>2, <2>3, <2>4, LocalShrunk, ZenonT(40)
<1>8. GotInv'
  <2>1. pend[lid[l]] \in Seq(FromBrowser) /\ lgot[l] \in Seq(FromBrowser) /\ lgot \in [Local -> Seq(FromBrowser)]
    BY <1>3 DEF TypeOK
  <2>2. \A n \in DOMAIN pend[lid[l]] : for[l] = pend[lid[l]][n][1]
    <3> TAKE n \in DOMAIN pend[lid[l]]
    <3>1. PICK k \in Local : /\ local[k] \in {"connecting", "aborted"} /\ lid[k] = lid[l]
                             /\ for[k] = pend[lid[l]][n][1]
      BY <1>3 DEF LocalInv, PendFits
    <3>2. k = l
      BY <1>3, <3>1 DEF LocalInv, LiveL
    <3> QED  BY <3>1, <3>2
  <2>3. \A x \in Elements(lgot[l]) : for[l] = x[1]
    BY DEF GotInv, Elements
  <2>4. \A x \in Elements(pend[lid[l]]) : for[l] = x[1]
    BY <2>2 DEF Elements
  <2>5. lgot'[l] = lgot[l] \o pend[lid[l]]
    BY <1>1, <2>1
  <2>6. Elements(lgot'[l]) = Elements(lgot[l]) \cup Elements(pend[lid[l]])
    BY <2>1, <2>5, ElementsJoin
  <2>7. \A n \in DOMAIN lgot'[l] : for[l] = lgot'[l][n][1]
    BY <2>3, <2>4, <2>6 DEF Elements
  <2>8. \A k \in Local : k # l => lgot'[k] = lgot[k]
    BY <1>1, <2>1
  <2>9. \A k \in Local : /\ local'[k] = "unused" => lgot'[k] = <<>>
                         /\ \A n \in DOMAIN lgot'[k] : for[k] = lgot'[k][n][1]
    <3> TAKE k \in Local
    <3>1. CASE k = l
      BY <1>2, <1>3, <2>7, <3>1 DEF LiveL
    <3>2. CASE k # l
      BY <1>2, <2>8, <3>2 DEF GotInv
    <3> QED  BY <3>1, <3>2
  <2>10. \A b \in Browser : \A n \in DOMAIN bgot[b] :
           local'[bgot[b][n][1]] # "unused" /\ for[bgot[b][n][1]] = b
    BY <1>2, Senders DEF GotInv
  <2>11. for' = for /\ bgot' = bgot
    BY <1>1
  <2> QED  BY <2>9, <2>10, <2>11 DEF GotInv
<1> QED  BY <1>5, <1>6, <1>7, <1>8

LEMMA LocalMessageStep ==
  ASSUME TypeInv, ChannelInv, NEW l \in Local, LocalMessage(l)
  PROVE  ChannelInv'
<1> USE DEF TypeInv, ChannelInv
<1>1. /\ UNCHANGED <<nextId, chan, browser, bid, via, act, pend, local, lid, for>>
      /\ UNCHANGED <<agent, ws, conn, down, bgot, lgot>> /\ LiveL(l)
  BY DEF LocalMessage, gatewayVars, agentVars, connVars, LiveL
<1>2. lid[l] \in Id
  BY <1>1 DEF IdsInv
<1>3. PICK m \in Up : m = [type |-> "data", id |-> lid[l], data |-> <<l, lsent[l] + 1>>]
  <2>1. <<l, lsent[l] + 1>> \in FromLocal
    BY DEF LocalMessage, TypeOK, FromLocal, Number
  <2> QED  BY <1>2, <2>1 DEF Up
<1>4. PICK ms \in Seq(Up) : SendUp(ms) /\ ms = <<m>>
  BY <1>3, OneTyped DEF LocalMessage
<1>5. Shrink
  BY <1>1 DEF Shrink, LiveB, LiveL
<1>6. ConnInv' /\ UpInv'
  <2>1. m.type = "data" /\ m.id = lid[l] /\ m.data[1] = l
    BY <1>3
  <2>2. ASSUME agent # None, Linked(agent) PROVE UpFits(m)
    BY <1>1, <2>1, <2>2 DEF DownInv, LiveLocalInv, UpFits, LiveL
  <2>3. Elements(ms) = {m}
    BY <1>4, ElementsOne
  <2>4. \A c \in Conn : ~Linked(c) => down'[c] = <<>>
    BY <1>1 DEF ConnInv
  <2> QED  BY <1>1, <1>4, <1>5, <2>2, <2>3, <2>4, ConnSentUp, UpSent
<1>7. DownInv'
  BY <1>1, <1>5, DownKept DEF DownInv, Linked
<1>8. LocalInv' /\ GotInv'
  <2>1. GotInv'
    BY <1>1, GotKept, Senders
  <2> QED  BY <1>1, <2>1, LocalKept
<1> QED  BY <1>6, <1>7, <1>8

LEMMA LocalEndStep ==
  ASSUME TypeInv, ChannelInv, NEW l \in Local, LocalRefused(l) \/ LocalError(l) \/ LocalClose(l)
  PROVE  ChannelInv'
<1> USE DEF TypeInv, ChannelInv
<1>1. /\ UNCHANGED <<nextId, chan, browser, bid, via, lid, for, agent, ws, conn, down, bgot, lgot>>
      /\ act' = [act EXCEPT ![lid[l]] = None] /\ pend' = [pend EXCEPT ![lid[l]] = <<>>]
      /\ local' = [local EXCEPT ![l] = "closed"] \/ local' = [local EXCEPT ![l] = "failed"]
      /\ LiveL(l)
  BY DEF LocalRefused, LocalError, LocalClose, ForgetLocal, LiveL, gatewayVars, connVars, dataVars
<1>2. lid[l] \in Id
  BY <1>1 DEF IdsInv
<1>3. /\ \A k \in Local : (LiveL(k))' => LiveL(k)
      /\ \A k \in Local : (Usable(k))' <=> Usable(k) /\ k # l
      /\ \A k \in Local : local'[k] = "unused" <=> local[k] = "unused"
      /\ \A k \in Local : k # l => local'[k] = local[k]
  BY <1>1 DEF LiveL, Usable, TypeOK
<1>4. Shrink
  BY <1>1, <1>3 DEF Shrink, LiveB
<1>5. ConnInv' /\ UpInv'
  <2>1. ASSUME agent # None, Linked(agent) PROVE lid[l] < nextId
    BY <1>1, <2>1 DEF DownInv, LiveLocalInv
  <2>2. PICK ms \in Seq(Up) :
          SendUp(ms) /\ Elements(ms) \subseteq {Control("error", lid[l]), Control("closed", lid[l])}
    <3>1. Control("error", lid[l]) \in Up /\ Control("closed", lid[l]) \in Up
      BY <1>2, ControlTyped
    <3>2. \/ SendUp(<<Control("error", lid[l]), Control("closed", lid[l])>>)
          \/ SendUp(<<Control("error", lid[l])>>)
          \/ SendUp(<<Control("closed", lid[l])>>)
      BY DEF LocalRefused, LocalError, LocalClose
    <3>3. /\ <<Control("error", lid[l]), Control("closed", lid[l])>> \in Seq(Up)
          /\ <<Control("error", lid[l])>> \in Seq(Up) /\ <<Control("closed", lid[l])>> \in Seq(Up)
      BY <3>1, OneTyped, TwoTyped
    <3>4. /\ Elements(<<Control("error", lid[l]), Control("closed", lid[l])>>)
                = {Control("error", lid[l]), Control("closed", lid[l])}
          /\ Elements(<<Control("error", lid[l])>>) = {Control("error", lid[l])}
          /\ Elements(<<Control("closed", lid[l])>>) = {Control("closed", lid[l])}
      BY ElementsOne, ElementsTwo
    <3> QED  BY <3>2, <3>3, <3>4
  <2>3. agent # None /\ Linked(agent) => \A f \in Elements(ms) : UpFits(f)
    BY <1>2, <2>1, <2>2, ControlFits
  <2>4. \A c \in Conn : ~Linked(c) => down'[c] = <<>>
    BY <1>1 DEF ConnInv
  <2> QED  BY <1>1, <1>4, <2>2, <2>3, <2>4, ConnSentUp, UpSent
<1>6. DownInv'
  BY <1>1, <1>4, DownKept DEF DownInv, Linked
<1>7. GotInv'
  BY <1>1, <1>3, GotKept, Senders
<1>8. LocalInv'
  <2>1. \A k \in Local : (Usable(k))' <=> Usable(k) /\ lid[k] \notin {lid[l]}
    BY <1>1, <1>3 DEF LocalInv, Usable, LiveL
  <2>2. \A i \in Id : \/ pend'[i] = <<>>
                      \/ /\ pend'[i] = pend[i]
                         /\ \A k \in Local : local[k] \in {"connecting", "aborted"} /\ lid[k] = i
                              => local'[k] \in {"connecting", "aborted"}
    <3> TAKE i \in Id
    <3>1. CASE i = lid[l]
      BY <1>1, <3>1 DEF TypeOK
    <3>2. CASE i # lid[l]
      BY <1>1, <1>3, <3>2 DEF TypeOK
    <3> QED  BY <3>1, <3>2
  <2>3. act' = [i \in Id |-> IF i \in {lid[l]} THEN None ELSE act[i]]
    BY <1>1 DEF TypeOK
  <2>4. {lid[l]} \in SUBSET Id
    BY <1>2
  <2> QED  BY <1>1, <1>3, <2>1, <2>2, <2>3, <2>4, LocalShrunk
<1> QED  BY <1>5, <1>6, <1>7, <1>8

LEMMA AgentDropsStep ==
  ASSUME TypeInv, ChannelInv, AgentDrops
  PROVE  ChannelInv'
<1> USE DEF TypeInv, ChannelInv
<1>1. /\ UNCHANGED <<nextId, chan, browser, bid, via, pend, lid, for, ws, conn, up, bgot, lgot>>
      /\ agent # None /\ agent' = None /\ down' = [down EXCEPT ![agent] = <<>>]
      /\ CloseLocals({act[i] : i \in Id}) /\ act' = [i \in Id |-> None]
  BY DEF AgentDrops, CloseAllChannels, gatewayVars, dataVars
<1>2. Shrink
  BY <1>1, LocalsClosed DEF Shrink, LiveB
<1>3. ConnInv'
  <2>1. \A c \in Conn : down'[c] = down[c] \/ down'[c] = <<>>
    BY <1>1 DEF TypeOK
  <2> QED  BY <1>1, <2>1 DEF ConnInv, Linked
<1>4. UpInv' /\ DownInv'
  BY <1>1, <1>2, UpKept DEF DownInv, Linked
<1>5. GotInv'
  BY <1>1, GotKept, Senders, LocalsClosed
<1>6. LocalInv'
  <2>1. \A k \in Local : Usable(k) => lid[k] \in Id /\ k \in {act[i] : i \in Id}
    BY DEF LocalInv, IdsInv, Usable, LiveL
  <2>2. \A k \in Local : (Usable(k))' <=> Usable(k) /\ lid[k] \notin Id
    BY <1>1, <2>1, LocalsClosed
  <2>3. act' = [i \in Id |-> IF i \in Id THEN None ELSE act[i]]
    BY <1>1
  <2>4. Id \in SUBSET Id
    OBVIOUS
  <2> QED  BY <1>1, <2>2, <2>3, <2>4, LocalShrunk, LocalsClosed
<1> QED  BY <1>3, <1>4, <1>5, <1>6

-----------------------------------------------------------------------------
LEMMA StutterChannel == TypeInv /\ ChannelInv /\ UNCHANGED vars => ChannelInv'
<1> SUFFICES ASSUME TypeInv, ChannelInv, UNCHANGED vars PROVE ChannelInv'
  OBVIOUS
<1> USE DEF TypeInv, ChannelInv
<1>1. /\ UNCHANGED <<nextId, browser, bid, act, pend, local, lid, for>>
      /\ UNCHANGED <<agent, ws, conn, down, up, bgot, lgot>>
  BY DEF vars, gatewayVars, agentVars, connVars, dataVars
<1>2. Shrink
  BY <1>1 DEF Shrink, LiveB, LiveL
<1>3. ConnInv' /\ UpInv'
  BY <1>1, <1>2, UpKept DEF ConnInv, Linked
<1>4. DownInv'
  BY <1>1, <1>2, DownKept DEF DownInv, Linked
<1>5. LocalInv' /\ GotInv'
  <2>1. GotInv'
    BY <1>1, GotKept, Senders
  <2> QED  BY <1>1, <2>1, LocalKept
<1> QED  BY <1>3, <1>4, <1>5

LEMMA StepChannel ==
  ASSUME ~SlowClose
  PROVE  TypeInv /\ ChannelInv /\ [Next]_vars => ChannelInv'
<1> SUFFICES ASSUME TypeInv, ChannelInv, Next PROVE ChannelInv'
  BY StutterChannel
<1>1. ASSUME NEW b \in Browser, Upgrade(b) \/ BrowserMessage(b) \/ BrowserEvent(b)
      PROVE  ChannelInv'
  BY <1>1, UpgradeStep, BrowserMessageStep, BrowserEventStep
<1>2. ASSUME NEW c \in Conn, \/ GatewayReceives(c) \/ CloseEvent(c) \/ Connect(c) \/ AgentReceives(c)
      PROVE  ChannelInv'
  BY <1>2, GatewayReceivesStep, CloseEventStep, ConnectStep, AgentReceivesStep
<1>3. ASSUME NEW l \in Local, \/ LocalOpen(l) \/ LocalMessage(l) \/ LocalRefused(l)
                              \/ LocalError(l) \/ LocalClose(l)
      PROVE  ChannelInv'
  BY <1>3, LocalOpenStep, LocalMessageStep, LocalEndStep
<1> QED  BY <1>1, <1>2, <1>3, TunnelStep, CrashStep, AgentDropsStep DEF Next, Tunnel

LEMMA ChannelHolds == ASSUME ~SlowClose PROVE Spec => []ChannelInv
<1>1. TypeInv /\ ChannelInv /\ [Next]_vars => ChannelInv'
  BY StepChannel
<1> HIDE DEF TypeInv, ChannelInv
<1> QED  BY <1>1, InitChannel, TypeHolds, PTL DEF Spec

\* If localhost sockets are gone before the agent is back, then whatever is lost,
\* closed, superseded or restarted, no message of one channel reaches the other end
\* of another, even when ids are handed out again (forwardAgentData,
\* forwardChannelData).
THEOREM ChannelsApart == ~SlowClose => (Spec => []NoCrossTalk)
<1> SUFFICES ASSUME ~SlowClose PROVE Spec => []NoCrossTalk
  OBVIOUS
<1>1. Spec => []ChannelInv
  BY ChannelHolds
<1>2. ChannelInv => NoCrossTalk
  BY DEF ChannelInv, GotInv, NoCrossTalk
<1> QED  BY <1>1, <1>2, PTL

\* Under the same assumption no socket to localhost is out of reach of
\* channel_close and closeAllChannels.
THEOREM NothingStray == ~SlowClose => (Spec => []NoStray)
<1> SUFFICES ASSUME ~SlowClose PROVE Spec => []NoStray
  OBVIOUS
<1>1. Spec => []ChannelInv
  BY ChannelHolds
<1>2. ChannelInv => NoStray
  BY DEF ChannelInv, LocalInv, NoStray, Usable
<1> QED  BY <1>1, <1>2, PTL

\* And then what forwarder.ts promises is so: when the agent loses its connection,
\* no socket to localhost stays open or goes on opening.  (With a slow close it is
\* not: that is what the run channels_stray shows.)
THEOREM AllClosed == ~SlowClose => (Spec => DisconnectClosesAll)
<1> SUFFICES ASSUME ~SlowClose PROVE Spec => DisconnectClosesAll
  OBVIOUS
<1>1. ChannelInv /\ ChannelInv' /\ [Next]_vars =>
        [agent # None /\ agent' = None =>
           \A l \in Local : local'[l] \notin {"connecting", "open"}]_vars
  BY DEF ChannelInv, LocalInv, Usable
<1>2. Spec => []ChannelInv
  BY ChannelHolds
<1> HIDE DEF ChannelInv
<1> QED  BY <1>1, <1>2, PTL DEF Spec, DisconnectClosesAll

-----------------------------------------------------------------------------
\* The order of messages: what is in flight to a localhost socket goes on, without a
\* gap, from what it has got or has buffered; what is in flight to a browser, from
\* what the browser has got.  Up to the last message sent, while the connection is
\* open: a gap would be one that was lost before one that arrives.

\* The numbers of the messages of x that are in flight in q.
Numbers(q, x) == {m.data[2] : m \in {f \in Elements(q) : f.type = "data" /\ f.data[1] = x}}
\* Those of each sender rise.
Rising(q) ==
  \A j, k \in DOMAIN q :
    j < k /\ q[j].type = "data" /\ q[k].type = "data" /\ q[j].data[1] = q[k].data[1]
      => q[j].data[2] < q[k].data[2]
\* A channel is opened before anything is sent on it.
OpenFirst(q) ==
  \A j, k \in DOMAIN q :
    j < k /\ q[j].type = "data" /\ q[k].type = "open" => q[k].data # q[j].data[1]
\* N goes on from n, without a gap.
Gapless(N, n) == \A i \in N : i > n /\ \A j \in (n + 1) .. i : j \in N
\* And the last message sent is the last of N, or n if nothing is in flight.
Reaches(N, n, sent) == sent = n \/ sent \in N

PairInv ==
  /\ \A b \in Browser : browser[b] = "new" => bsent[b] = 0
  /\ \A l \in Local :
       /\ local[l] = "unused" => for[l] = None /\ lsent[l] = 0
       /\ local[l] # "unused" => /\ for[l] \in Browser /\ browser[for[l]] # "new"
                                 /\ lid[l] = bid[for[l]]
  /\ \A l, k \in Local : for[l] = for[k] /\ for[l] # None => l = k
  /\ agent # None /\ conn[agent] = "open" => ws = agent

DownFrame(m) ==
  /\ m.type = "open" =>
       /\ m.data \in Browser /\ browser[m.data] # "new" /\ bid[m.data] = m.id
       /\ \A l \in Local : for[l] # m.data
  /\ m.type = "data" =>
       /\ browser[m.data[1]] # "new" /\ bid[m.data[1]] = m.id
       /\ m.data[2] <= bsent[m.data[1]]
InStep(b, n) ==
  /\ Gapless(Numbers(down[agent], b), n)
  /\ conn[agent] = "open" => Reaches(Numbers(down[agent], b), n, bsent[b])
Accepted(l) == Len(lgot[l]) + Len(pend[lid[l]])
DownOrder ==
  agent # None =>
    /\ Rising(down[agent]) /\ OpenFirst(down[agent])
    /\ \A m \in Elements(down[agent]) : DownFrame(m) /\ (m.type = "open" => InStep(m.data, 0))
    /\ \A l \in Local : Usable(l) => InStep(for[l], Accepted(l))

LocalOrder ==
  \A l \in Local :
    /\ \A n \in DOMAIN lgot[l] : lgot[l][n] = <<for[l], n>>
    /\ local[l] = "connecting" =>
         lgot[l] = <<>> /\ \A n \in DOMAIN pend[lid[l]] : pend[lid[l]][n] = <<for[l], n>>
    /\ local[l] = "open" => pend[lid[l]] = <<>>

UpFrame(m) ==
  m.type = "data" => /\ local[m.data[1]] # "unused" /\ m.id = lid[m.data[1]]
                     /\ m.data[2] <= lsent[m.data[1]]
Sending(l) == local[l] \in {"connecting", "open", "closing"}
UpOrder ==
  /\ \A c \in Conn : Rising(up[c]) /\ \A m \in Elements(up[c]) : UpFrame(m)
  /\ \A l \in Local, c, d \in Conn : Numbers(up[c], l) # {} /\ Numbers(up[d], l) # {} => c = d
  /\ \A l \in Local, c \in Conn : agent # None /\ Sending(l) /\ Numbers(up[c], l) # {} => c = agent
  /\ \A l \in Local : local[l] # "unused" /\ browser[for[l]] = "open" =>
       /\ \A c \in Conn : Linked(c) => Gapless(Numbers(up[c], l), Len(bgot[for[l]]))
       /\ agent # None /\ Linked(agent) /\ Sending(l) =>
            Reaches(Numbers(up[agent], l), Len(bgot[for[l]]), lsent[l])
  /\ \A b \in Browser : \A n \in DOMAIN bgot[b] : bgot[b][n][2] = n

OrderInv == PairInv /\ DownOrder /\ LocalOrder /\ UpOrder

-----------------------------------------------------------------------------
\* Queues of numbered messages.
LEMMA NumbersIs ==
  ASSUME NEW q, NEW x, NEW n
  PROVE  n \in Numbers(q, x) <=>
           \E m \in Elements(q) : m.type = "data" /\ m.data[1] = x /\ m.data[2] = n
BY DEF Numbers

LEMMA NumbersSame ==
  ASSUME NEW p, NEW q, NEW x,
         \A m \in Elements(p) : m.type = "data" => m \in Elements(q),
         \A m \in Elements(q) : m.type = "data" => m \in Elements(p)
  PROVE  Numbers(p, x) = Numbers(q, x)
BY DEF Numbers

LEMMA NumbersNone == \A x : Numbers(<<>>, x) = {}
BY ElementsNone DEF Numbers

LEMMA OrderNone == Rising(<<>>) /\ OpenFirst(<<>>)
BY DEF Rising, OpenFirst

LEMMA JoinAt ==
  ASSUME NEW S, NEW p \in Seq(S), NEW q \in Seq(S), NEW j \in DOMAIN (p \o q)
  PROVE  \/ j \in DOMAIN p /\ (p \o q)[j] = p[j]
         \/ j - Len(p) \in DOMAIN q /\ (p \o q)[j] = q[j - Len(p)] /\ j > Len(p)
<1>1. DOMAIN (p \o q) = 1 .. Len(p) + Len(q) /\ DOMAIN p = 1 .. Len(p) /\ DOMAIN q = 1 .. Len(q)
      /\ Len(p) \in Nat /\ Len(q) \in Nat
  BY Domain
<1>2. (p \o q)[j] = IF j <= Len(p) THEN p[j] ELSE q[j - Len(p)]
  BY <1>1
<1> QED  BY <1>1, <1>2

LEMMA TailAt ==
  ASSUME NEW S, NEW q \in Seq(S), q # <<>>
  PROVE  /\ Head(q) = q[1] /\ 1 \in DOMAIN q
         /\ \A k \in DOMAIN Tail(q) : k + 1 \in DOMAIN q /\ Tail(q)[k] = q[k + 1] /\ k \in Nat /\ 1 < k + 1
<1>1. Tail(q) \in Seq(S) /\ Len(Tail(q)) = Len(q) - 1 /\ Len(q) >= 1 /\ Head(q) = q[1]
  OBVIOUS
<1>2. \A k \in 1 .. Len(q) - 1 : Tail(q)[k] = q[k + 1]
  BY <1>1
<1>3. DOMAIN q = 1 .. Len(q) /\ DOMAIN Tail(q) = 1 .. Len(q) - 1 /\ Len(q) \in Nat
  BY <1>1, Domain
<1> QED  BY <1>1, <1>2, <1>3

\* A frame that is no message changes nothing of the order.
LEMMA ControlOrder ==
  ASSUME NEW S, NEW p \in Seq(S), NEW q \in Seq(S),
         \A m \in Elements(q) : m.type # "data"
  PROVE  /\ \A x : Numbers(p \o q, x) = Numbers(p, x)
         /\ Rising(p) => Rising(p \o q)
         /\ OpenFirst(p) /\ (\A m \in Elements(q) : m.type # "open") => OpenFirst(p \o q)
<1>1. Elements(p \o q) = Elements(p) \cup Elements(q)
  BY ElementsJoin
<1>2. \A j \in DOMAIN (p \o q) :
        \/ j \in DOMAIN p /\ (p \o q)[j] = p[j]
        \/ (p \o q)[j] \in Elements(q)
  BY JoinAt DEF Elements
<1>3. \A x : Numbers(p \o q, x) = Numbers(p, x)
  BY <1>1, NumbersSame
<1>4. Rising(p) => Rising(p \o q)
  BY <1>2 DEF Rising
<1>5. OpenFirst(p) /\ (\A m \in Elements(q) : m.type # "open") => OpenFirst(p \o q)
  BY <1>2 DEF OpenFirst
<1> QED  BY <1>3, <1>4, <1>5

\* A channel is opened: nothing of the browser's is in flight before.
LEMMA OpenOrder ==
  ASSUME NEW S, NEW p \in Seq(S), NEW m \in S, m.type = "open", OpenFirst(p),
         \A f \in Elements(p) : f.type = "data" => f.data[1] # m.data
  PROVE  OpenFirst(p \o <<m>>)
<1>1. <<m>> \in Seq(S) /\ Elements(<<m>>) = {m}
  BY OneTyped, ElementsOne
<1>2. \A j \in DOMAIN (p \o <<m>>) :
        \/ j \in DOMAIN p /\ (p \o <<m>>)[j] = p[j] /\ p[j] \in Elements(p)
        \/ (p \o <<m>>)[j] = m
  BY <1>1, JoinAt DEF Elements
<1> QED  BY <1>2 DEF OpenFirst

\* The next message of a sender.
LEMMA MessageOrder ==
  ASSUME NEW S, NEW p \in Seq(S), NEW m \in S, m.type = "data",
         \A n \in Numbers(p, m.data[1]) : n < m.data[2]
  PROVE  /\ \A x : Numbers(p \o <<m>>, x) =
                     IF x = m.data[1] THEN Numbers(p, x) \cup {m.data[2]} ELSE Numbers(p, x)
         /\ Rising(p) => Rising(p \o <<m>>)
         /\ OpenFirst(p) => OpenFirst(p \o <<m>>)
<1>1. <<m>> \in Seq(S) /\ Elements(<<m>>) = {m}
  BY OneTyped, ElementsOne
<1>2. Elements(p \o <<m>>) = Elements(p) \cup {m}
  <2>1. PICK r \in Seq(S) : r = <<m>>
    BY <1>1
  <2>2. Elements(p \o r) = Elements(p) \cup Elements(r)
    BY ElementsJoin
  <2> QED  BY <1>1, <2>1, <2>2
<1>3. \A x : Numbers(p \o <<m>>, x) =
               IF x = m.data[1] THEN Numbers(p, x) \cup {m.data[2]} ELSE Numbers(p, x)
  BY <1>2 DEF Numbers
<1>4. \A j \in DOMAIN (p \o <<m>>) :
        \/ j \in DOMAIN p /\ (p \o <<m>>)[j] = p[j] /\ p[j] \in Elements(p) /\ j <= Len(p)
        \/ (p \o <<m>>)[j] = m /\ j = Len(p) + 1
  <2>1. DOMAIN <<m>> = {1} /\ <<m>>[1] = m /\ DOMAIN p = 1 .. Len(p) /\ Len(p) \in Nat
    BY Domain
  <2>2. \A j \in DOMAIN (p \o <<m>>) : j \in Nat
    BY <1>1, Domain
  <2> QED  BY <1>1, <2>1, <2>2, JoinAt DEF Elements
<1>5. Len(p) \in Nat
  OBVIOUS
<1>6. Rising(p) => Rising(p \o <<m>>)
  <2> SUFFICES ASSUME Rising(p), NEW j \in DOMAIN (p \o <<m>>), NEW k \in DOMAIN (p \o <<m>>), j < k,
                      (p \o <<m>>)[j].type = "data", (p \o <<m>>)[k].type = "data",
                      (p \o <<m>>)[j].data[1] = (p \o <<m>>)[k].data[1]
               PROVE  (p \o <<m>>)[j].data[2] < (p \o <<m>>)[k].data[2]
    BY DEF Rising
  <2>1. j \in DOMAIN p /\ (p \o <<m>>)[j] = p[j] /\ p[j] \in Elements(p)
    BY <1>1, <1>4, <1>5, Domain
  <2>2. CASE k \in DOMAIN p /\ (p \o <<m>>)[k] = p[k]
    BY <2>1, <2>2 DEF Rising
  <2>3. CASE (p \o <<m>>)[k] = m
    BY <2>1, <2>3, NumbersIs
  <2> QED  BY <1>4, <2>2, <2>3
<1>7. OpenFirst(p) => OpenFirst(p \o <<m>>)
  BY <1>4 DEF OpenFirst
<1> QED  BY <1>3, <1>6, <1>7

\* The first frame is taken.
LEMMA TakenOrder ==
  ASSUME NEW S, NEW q \in Seq(S), q # <<>>
  PROVE  /\ Rising(q) => Rising(Tail(q))
         /\ OpenFirst(q) => OpenFirst(Tail(q))
         /\ Head(q).type = "data" /\ OpenFirst(q) =>
              \A f \in Elements(Tail(q)) : f.type = "open" => f.data # Head(q).data[1]
         /\ Head(q).type # "data" => \A x : Numbers(Tail(q), x) = Numbers(q, x)
         /\ Head(q).type = "data" =>
              \A x : Numbers(q, x) = IF x = Head(q).data[1]
                                       THEN Numbers(Tail(q), x) \cup {Head(q).data[2]}
                                       ELSE Numbers(Tail(q), x)
         /\ Head(q).type = "data" /\ Rising(q) =>
              \A n \in Numbers(Tail(q), Head(q).data[1]) : Head(q).data[2] < n
<1> DEFINE t == Tail(q) h == Head(q)
<1>1. /\ h = q[1] /\ 1 \in DOMAIN q
      /\ \A k \in DOMAIN t : k + 1 \in DOMAIN q /\ t[k] = q[k + 1] /\ k \in Nat /\ 1 < k + 1
  BY TailAt
<1>2. Elements(q) = Elements(t) \cup {h}
  <2>1. h \in Elements(q) /\ Elements(t) \subseteq Elements(q)
    BY ElementsTail
  <2>2. \A k \in DOMAIN q : k = 1 \/ (k - 1 \in DOMAIN t /\ t[k - 1] = q[k])
    <3>1. t \in Seq(S) /\ Len(t) = Len(q) - 1 /\ Len(q) \in Nat
      OBVIOUS
    <3>2. DOMAIN t = 1 .. Len(q) - 1 /\ DOMAIN q = 1 .. Len(q)
      BY <3>1, Domain
    <3> QED  BY <1>1, <3>1, <3>2
  <2> HIDE DEF t, h
  <2>3. \A k \in DOMAIN q : q[k] = h \/ q[k] \in Elements(t)
    BY <1>1, <2>2 DEF Elements
  <2>4. Elements(q) \subseteq Elements(t) \cup {h}
    BY <2>3 DEF Elements
  <2> QED  BY <2>1, <2>4
<1> HIDE DEF t, h
<1>3. \A j, k \in DOMAIN t : j < k => j + 1 < k + 1
  <2>1. \A j \in DOMAIN t : j \in Nat
    BY <1>1
  <2>2. \A j, k \in Nat : j < k => j + 1 < k + 1
    OBVIOUS
  <2> QED  BY <2>1, <2>2
<1>10. \A k \in DOMAIN t : k + 1 \in DOMAIN q /\ t[k] = q[k + 1]
  BY <1>1
<1>4. Rising(q) => Rising(t)
  BY <1>3, <1>10 DEF Rising
<1>5. OpenFirst(q) => OpenFirst(t)
  BY <1>3, <1>10 DEF OpenFirst
<1>6. h.type = "data" /\ OpenFirst(q) =>
        \A f \in Elements(t) : f.type = "open" => f.data # h.data[1]
  BY <1>1 DEF OpenFirst, Elements
<1>7. h.type # "data" => \A x : Numbers(t, x) = Numbers(q, x)
  BY <1>2, NumbersSame
<1>8. h.type = "data" =>
        \A x : Numbers(q, x) = IF x = h.data[1] THEN Numbers(t, x) \cup {h.data[2]} ELSE Numbers(t, x)
  BY <1>2 DEF Numbers
<1>9. h.type = "data" /\ Rising(q) => \A n \in Numbers(t, h.data[1]) : h.data[2] < n
  BY <1>1, NumbersIs DEF Rising, Elements
<1> QED  BY <1>4, <1>5, <1>6, <1>7, <1>8, <1>9 DEF t, h

\* Numbers without a gap: one more is sent, the first is taken.
LEMMA GaplessSent ==
  ASSUME NEW N \in SUBSET Nat, NEW n \in Nat, NEW s \in Nat, Gapless(N, n), Reaches(N, n, s)
  PROVE  Gapless(N \cup {s + 1}, n) /\ Reaches(N \cup {s + 1}, n, s + 1)
<1>1. s >= n /\ \A j \in (n + 1) .. s : j \in N
  BY DEF Gapless, Reaches
<1>2. \A i \in N \cup {s + 1} : i > n /\ \A j \in (n + 1) .. i : j \in N \cup {s + 1}
  BY <1>1 DEF Gapless
<1> QED  BY <1>2 DEF Gapless, Reaches

LEMMA GaplessTaken ==
  ASSUME NEW N \in SUBSET Nat, NEW h \in Nat, NEW n \in Nat, Gapless(N \cup {h}, n),
         \A i \in N : h < i
  PROVE  /\ h = n + 1 /\ Gapless(N, h)
         /\ \A s : Reaches(N \cup {h}, n, s) /\ s \in Nat /\ s >= h => Reaches(N, h, s)
<1>1. h > n /\ n + 1 \in N \cup {h}
  BY DEF Gapless
<1>2. h = n + 1
  BY <1>1
<1>3. Gapless(N, h)
  BY <1>2 DEF Gapless
<1> QED  BY <1>2, <1>3 DEF Reaches

LEMMA GaplessNone == \A n : Gapless({}, n)
BY DEF Gapless

-----------------------------------------------------------------------------
\* What keeps the order.
LEMMA NumbersNat ==
  ASSUME TypeOK, NEW c \in Conn, NEW x
  PROVE  Numbers(down[c], x) \in SUBSET Nat /\ Numbers(up[c], x) \in SUBSET Nat
<1>1. \A m \in Elements(down[c]) : m.type = "data" => m.data[2] \in Nat
  <2> TAKE m \in Elements(down[c])
  <2>1. m \in Down
    BY ElementsTyped DEF TypeOK
  <2> QED  BY <2>1, DownKinds DEF FromBrowser, Number
<1>2. \A m \in Elements(up[c]) : m.type = "data" => m.data[2] \in Nat
  <2> TAKE m \in Elements(up[c])
  <2>1. m \in Up
    BY ElementsTyped DEF TypeOK
  <2> QED  BY <2>1, UpKinds DEF FromLocal, Number
<1> QED  BY <1>1, <1>2 DEF Numbers

LEMMA AcceptedNat ==
  ASSUME TypeInv, NEW l \in Local, Usable(l)
  PROVE  Accepted(l) \in Nat
<1>1. lid[l] \in Id
  BY DEF TypeInv, IdsInv, LiveL, Usable
<1>2. lgot[l] \in Seq(FromBrowser) /\ pend[lid[l]] \in Seq(FromBrowser)
  BY <1>1 DEF TypeInv, TypeOK
<1>3. PICK m \in Nat : m = Len(lgot[l])
  BY <1>2
<1>4. PICK n \in Nat : n = Len(pend[lid[l]])
  BY <1>2
<1>5. Accepted(l) = m + n
  BY <1>3, <1>4 DEF Accepted
<1> QED  BY <1>5

LEMMA PairKept ==
  ASSUME PairInv, UNCHANGED <<for, lid>>,
         \A b \in Browser : browser'[b] = "new" => browser[b] = "new" /\ bsent'[b] = bsent[b],
         \A b \in Browser : browser[b] # "new" => browser'[b] # "new" /\ bid'[b] = bid[b],
         \A l \in Local : local'[l] = "unused" <=> local[l] = "unused",
         \A l \in Local : local[l] = "unused" => lsent'[l] = lsent[l],
         agent' # None /\ conn'[agent'] = "open" => ws' = agent'
  PROVE  PairInv'
BY DEF PairInv

LEMMA LocalOrderKept ==
  ASSUME LocalOrder, UNCHANGED <<lgot, for, lid>>,
         \A l \in Local : local'[l] = "connecting" =>
           local[l] = "connecting" /\ pend'[lid[l]] = pend[lid[l]],
         \A l \in Local : local'[l] = "open" =>
           local[l] = "open" /\ (pend'[lid[l]] = pend[lid[l]] \/ pend'[lid[l]] = <<>>)
  PROVE  LocalOrder'
<1>0. lgot' = lgot /\ for' = for /\ lid' = lid
  OBVIOUS
<1>1. \A l \in Local : \A n \in DOMAIN lgot[l] : lgot[l][n] = <<for[l], n>>
  BY DEF LocalOrder
<1>2. \A l \in Local : local'[l] = "connecting" =>
        lgot[l] = <<>> /\ \A n \in DOMAIN pend'[lid[l]] : pend'[lid[l]][n] = <<for[l], n>>
  <2> SUFFICES ASSUME NEW l \in Local, local'[l] = "connecting"
               PROVE  lgot[l] = <<>> /\ \A n \in DOMAIN pend'[lid[l]] : pend'[lid[l]][n] = <<for[l], n>>
    OBVIOUS
  <2>1. local[l] = "connecting" /\ pend'[lid[l]] = pend[lid[l]]
    OBVIOUS
  <2>2. lgot[l] = <<>> /\ \A n \in DOMAIN pend[lid[l]] : pend[lid[l]][n] = <<for[l], n>>
    BY <2>1 DEF LocalOrder
  <2> QED  BY <2>1, <2>2
<1>3. \A l \in Local : local'[l] = "open" => pend'[lid[l]] = <<>>
  BY DEF LocalOrder
<1> QED  BY <1>0, <1>1, <1>2, <1>3 DEF LocalOrder

LEMMA DownOrderKept ==
  ASSUME DownOrder, UNCHANGED <<for, bsent>>,
         \A b \in Browser : browser[b] # "new" => browser'[b] # "new" /\ bid'[b] = bid[b],
         TypeOK, down' \in [Conn -> Seq(Down)],
         \A l \in Local : (Usable(l))' => Usable(l) /\ (Accepted(l))' = Accepted(l),
         agent' # None =>
           /\ agent' = agent
           /\ conn'[agent] = "open" => conn[agent] = "open"
           /\ Rising(down'[agent]) /\ OpenFirst(down'[agent])
           /\ \A m \in Elements(down'[agent]) :
                \/ m \in Elements(down[agent]) \/ m.type \notin {"open", "data"}
                \/ /\ m.type = "open" /\ (DownFrame(m))'
                   /\ Gapless(Numbers(down'[agent], m.data), 0)
                   /\ Reaches(Numbers(down'[agent], m.data), 0, bsent[m.data])
           /\ \/ \A x : Numbers(down'[agent], x) = Numbers(down[agent], x)
              \/ conn'[agent] # "open" /\ \A x : Numbers(down'[agent], x) = {}
  PROVE  DownOrder'
<1> SUFFICES ASSUME agent' # None PROVE DownOrder'
  BY DEF DownOrder
<1>1. agent' = agent /\ agent \in Conn /\ down[agent] \in Seq(Down)
  BY DEF TypeOK
<1>2. \A m \in Elements(down'[agent]) : (DownFrame(m))'
  <2> SUFFICES ASSUME NEW m \in Elements(down'[agent]), m.type \in {"open", "data"}
               PROVE  (DownFrame(m))'
    BY DEF DownFrame
  <2>0. CASE m.type = "open" /\ (DownFrame(m))'
    BY <2>0
  <2> SUFFICES ASSUME m \in Elements(down[agent]) PROVE (DownFrame(m))'
    BY <1>1, <2>0
  <2>1. DownFrame(m)
    BY <1>1 DEF DownOrder
  <2>2. m.type = "data" => m.data[1] \in Browser
    BY <1>1, <2>1, ElementsTyped, DownKinds DEF FromBrowser
  <2> QED  BY <2>1, <2>2 DEF DownFrame
<1>3. ASSUME NEW b, NEW n, InStep(b, n)
      PROVE  /\ Gapless(Numbers(down'[agent], b), n)
             /\ conn'[agent] = "open" => Reaches(Numbers(down'[agent], b), n, bsent'[b])
  BY <1>1, <1>3, GaplessNone DEF InStep
<1>4. ASSUME NEW m \in Elements(down'[agent]), m.type = "open"
      PROVE  /\ Gapless(Numbers(down'[agent], m.data), 0)
             /\ conn'[agent] = "open" => Reaches(Numbers(down'[agent], m.data), 0, bsent'[m.data])
  BY <1>1, <1>3, <1>4 DEF DownOrder
<1>5. ASSUME NEW l \in Local, (Usable(l))'
      PROVE  /\ Gapless(Numbers(down'[agent], for[l]), (Accepted(l))')
             /\ conn'[agent] = "open" =>
                  Reaches(Numbers(down'[agent], for[l]), (Accepted(l))', bsent'[for[l]])
  <2>1. Usable(l) /\ (Accepted(l))' = Accepted(l)
    BY <1>5
  <2>2. InStep(for[l], Accepted(l))
    BY <1>1, <2>1 DEF DownOrder
  <2> QED  BY <1>3, <2>1, <2>2
<1>6. Rising(down'[agent]) /\ OpenFirst(down'[agent])
  BY <1>1
<1> QED  BY <1>1, <1>2, <1>4, <1>5, <1>6 DEF DownOrder, InStep

LEMMA UpOrderKept ==
  ASSUME UpOrder, TypeOK, up' \in [Conn -> Seq(Up)], UNCHANGED <<bgot, for, lid, lsent>>,
         \A l \in Local : local'[l] = "unused" <=> local[l] = "unused",
         \A l \in Local : local[l] # "unused" /\ browser'[for[l]] = "open" => browser[for[l]] = "open",
         \A c \in Conn :
           /\ Rising(up'[c])
           /\ \A m \in Elements(up'[c]) : m.type = "data" => m \in Elements(up[c])
           /\ \/ \A x : Numbers(up'[c], x) = Numbers(up[c], x)
              \/ ~(Linked(c))' /\ \A x : Numbers(up'[c], x) = {}
           /\ (Linked(c))' => Linked(c) \/ \A x : Numbers(up'[c], x) = {},
         \/ agent' = None
         \/ agent' = agent /\ (\A l \in Local : (Sending(l))' => Sending(l))
            /\ ((Linked(agent))' => Linked(agent))
         \/ \A l \in Local : ~(Sending(l))'
  PROVE  UpOrder'
<1>1. \A c \in Conn : \A m \in Elements(up'[c]) : (UpFrame(m))'
  <2> SUFFICES ASSUME NEW c \in Conn, NEW m \in Elements(up'[c]), m.type = "data"
               PROVE  (UpFrame(m))'
    BY DEF UpFrame
  <2>1. m \in Elements(up[c]) /\ UpFrame(m)
    BY DEF UpOrder
  <2>2. m.data[1] \in Local
    BY <2>1, ElementsTyped, UpKinds DEF TypeOK, FromLocal
  <2> QED  BY <2>1, <2>2 DEF UpFrame
<1>2. \A c \in Conn : \A x : Numbers(up'[c], x) # {} => Numbers(up'[c], x) = Numbers(up[c], x)
  OBVIOUS
<1>3. \A l \in Local, c, d \in Conn : Numbers(up'[c], l) # {} /\ Numbers(up'[d], l) # {} => c = d
  BY <1>2 DEF UpOrder
<1>4. \A l \in Local, c \in Conn : agent' # None /\ (Sending(l))' /\ Numbers(up'[c], l) # {} => c = agent'
  BY <1>2 DEF UpOrder
<1>5. ASSUME NEW l \in Local, local'[l] # "unused", browser'[for[l]] = "open"
      PROVE  /\ \A c \in Conn : (Linked(c))' => Gapless(Numbers(up'[c], l), Len(bgot[for[l]]))
             /\ agent' # None /\ (Linked(agent))' /\ (Sending(l))' =>
                  Reaches(Numbers(up'[agent], l), Len(bgot[for[l]]), lsent[l])
  <2>1. local[l] # "unused" /\ browser[for[l]] = "open"
    BY <1>5
  <2>2. /\ \A c \in Conn : Linked(c) => Gapless(Numbers(up[c], l), Len(bgot[for[l]]))
        /\ agent # None /\ Linked(agent) /\ Sending(l) =>
             Reaches(Numbers(up[agent], l), Len(bgot[for[l]]), lsent[l])
    BY <2>1 DEF UpOrder
  <2>3. \A c \in Conn : (Linked(c))' => Gapless(Numbers(up'[c], l), Len(bgot[for[l]]))
    BY <2>2, GaplessNone
  <2>4. agent' # None /\ (Linked(agent))' /\ (Sending(l))' =>
          Reaches(Numbers(up'[agent], l), Len(bgot[for[l]]), lsent[l])
    <3> SUFFICES ASSUME agent' # None, (Linked(agent))', (Sending(l))'
                 PROVE  Reaches(Numbers(up'[agent], l), Len(bgot[for[l]]), lsent[l])
      OBVIOUS
    <3>1. agent' = agent /\ agent \in Conn /\ Sending(l) /\ Linked(agent)
      BY DEF TypeOK
    <3>2. (Linked(agent))' <=> conn'[agent] \in {"open", "closing"}
      BY <3>1 DEF Linked
    <3>3. \A c \in Conn : (Linked(c))' <=> conn'[c] \in {"open", "closing"}
      BY DEF Linked
    <3> QED  BY <2>2, <3>1, <3>2, <3>3
  <2> QED  BY <2>3, <2>4
<1>6. \A b \in Browser : \A n \in DOMAIN bgot'[b] : bgot'[b][n][2] = n
  BY DEF UpOrder
<1> QED  BY <1>1, <1>3, <1>4, <1>5, <1>6 DEF UpOrder

\* A step changes nothing of the order of what is in flight to the gateway.
SameUp ==
  \A c \in Conn :
    /\ Rising(up'[c])
    /\ \A m \in Elements(up'[c]) : m.type = "data" => m \in Elements(up[c])
    /\ \A x : Numbers(up'[c], x) = Numbers(up[c], x)

LEMMA UpSame == ASSUME UpOrder, UNCHANGED up PROVE SameUp
BY DEF UpOrder, SameUp

LEMMA UpControl ==
  ASSUME TypeOK, UpOrder, NEW ms \in Seq(Up), SendUp(ms), \A m \in Elements(ms) : m.type # "data"
  PROVE  SameUp
<1> SUFFICES ASSUME NEW c \in Conn
             PROVE  /\ Rising(up'[c])
                    /\ \A m \in Elements(up'[c]) : m.type = "data" => m \in Elements(up[c])
                    /\ \A x : Numbers(up'[c], x) = Numbers(up[c], x)
  BY DEF SameUp
<1>1. Rising(up[c]) /\ up[c] \in Seq(Up)
  BY DEF UpOrder, TypeOK
<1>2. CASE up'[c] = up[c]
  BY <1>1, <1>2
<1>3. CASE up'[c] = up[c] \o ms
  BY <1>1, <1>3, ControlOrder, ElementsJoin
<1> QED  BY <1>2, <1>3, UpAfter

LEMMA OneUp ==
  ASSUME TypeOK, UpOrder, NEW i \in Id, NEW t \in {"opened", "error", "closed"},
         SendUp(<<Control(t, i)>>)
  PROVE  SameUp
<1>1. PICK m \in Up : m = Control(t, i) /\ m.type = t
  BY ControlTyped
<1>2. PICK ms \in Seq(Up) : ms = <<m>>
  BY OneTyped
<1>3. Elements(ms) = {m}
  BY <1>2, ElementsOne
<1> QED  BY <1>1, <1>2, <1>3, UpControl

\* The usual case: no browser socket is opened, none at localhost, nothing is taken.
LEMMA UpOrderSame ==
  ASSUME UpOrder, TypeOK, up' \in [Conn -> Seq(Up)], UNCHANGED <<bgot, for, lid, lsent, agent, conn>>, SameUp,
         \A l \in Local : local'[l] = "unused" <=> local[l] = "unused",
         \A l \in Local : (Sending(l))' => Sending(l),
         \A l \in Local : local[l] # "unused" /\ browser'[for[l]] = "open" => browser[for[l]] = "open"
  PROVE  UpOrder'
<1>1. \A c \in Conn : (Linked(c))' <=> Linked(c)
  BY DEF Linked
<1>2. (Linked(agent))' <=> Linked(agent)
  BY DEF Linked
<1> QED  BY <1>1, <1>2, UpOrderKept DEF SameUp

LEMMA PairBrowser ==
  ASSUME PairInv, NEW l \in Local
  PROVE  /\ local[l] # "unused" => for[l] \in Browser /\ browser[for[l]] # "new"
         /\ \A b \in Browser : browser[b] = "new" => for[l] # b
<1>1. local[l] = "unused" => for[l] = None
  BY DEF PairInv
<1> QED  BY <1>1 DEF PairInv

LEMMA UpgradeOrder ==
  ASSUME TypeInv, TypeInv', ChannelInv, OrderInv, NEW b \in Browser, Upgrade(b)
  PROVE  OrderInv'
<1> USE DEF TypeInv, OrderInv
<1>1. /\ nextId \in Id /\ browser[b] = "new" /\ SendDown(<<[type |-> "open", id |-> nextId, data |-> b]>>)
      /\ UNCHANGED <<act, pend, local, lid, for, agent, ws, conn, up, bsent, lsent, bgot, lgot>>
  BY DEF Upgrade, agentVars, connVars, dataVars
<1>2. \A a \in Browser : /\ browser'[a] = IF a = b THEN "open" ELSE browser[a]
                         /\ bid'[a] = IF a = b THEN nextId ELSE bid[a]
  BY DEF Upgrade, TypeOK
<1>3. PICK m \in Down : m = [type |-> "open", id |-> nextId, data |-> b]
  BY <1>1 DEF Down
<1>4. m.type = "open" /\ m.id = nextId /\ m.data = b
  BY <1>3
<1>5. \A l \in Local : for[l] # b
  BY <1>1, PairBrowser
<1>6. PairInv'
  BY <1>1, <1>2, PairKept DEF PairInv
<1>7. LocalOrder'
  BY <1>1, LocalOrderKept
<1>8. UpOrder'
  <2>1. \A l \in Local : local[l] # "unused" /\ browser'[for[l]] = "open" => browser[for[l]] = "open"
    BY <1>2, <1>5, PairBrowser
  <2>2. \A l \in Local : (Sending(l))' => Sending(l)
    BY <1>1 DEF Sending
  <2>3. up' \in [Conn -> Seq(Up)] /\ SameUp
    BY <1>1, UpSame DEF TypeOK
  <2> QED  BY <1>1, <2>1, <2>2, <2>3, UpOrderSame
<1>9. DownOrder'
  <2> SUFFICES ASSUME agent # None PROVE DownOrder'
    BY <1>1 DEF DownOrder
  <2>1. \A a \in Browser : browser[a] # "new" => browser'[a] # "new" /\ bid'[a] = bid[a]
    BY <1>1, <1>2
  <2>2. \A l \in Local : (Usable(l))' => Usable(l) /\ (Accepted(l))' = Accepted(l)
    BY <1>1 DEF Usable, Accepted
  <2>3. agent \in Conn /\ down[agent] \in Seq(Down) /\ down' \in [Conn -> Seq(Down)]
    BY DEF TypeOK
  <2>4. Rising(down[agent]) /\ OpenFirst(down[agent]) /\ \A f \in Elements(down[agent]) : DownFrame(f)
    BY DEF DownOrder
  <2>5. \A f \in Elements(down[agent]) : f.type = "data" => f.data[1] # b
    BY <1>1, <2>4 DEF DownFrame
  <2>5a. PICK ms \in Seq(Down) : ms = <<m>> /\ SendDown(ms)
    BY <1>1, <1>3, OneTyped
  <2>6. SendDown(ms) /\ Elements(ms) = {m}
    BY <2>5a, ElementsOne
  <2>7. (DownFrame(m))'
    BY <1>1, <1>2, <1>4, <1>5 DEF DownFrame
  <2>8. Numbers(down[agent], b) = {}
    BY <2>5, NumbersIs
  <2>9. Gapless({}, 0) /\ Reaches({}, 0, bsent[b])
    BY <1>1, GaplessNone DEF Reaches, PairInv
  <2>10. /\ Rising(down'[agent]) /\ OpenFirst(down'[agent])
         /\ \A x : Numbers(down'[agent], x) = Numbers(down[agent], x)
         /\ \A f \in Elements(down'[agent]) : f \in Elements(down[agent]) \/ f = m
    <3>1. CASE down'[agent] = down[agent]
      BY <2>4, <3>1
    <3>2. CASE down'[agent] = down[agent] \o ms
      <4>1. Elements(down'[agent]) = Elements(down[agent]) \cup {m}
        BY <2>3, <2>6, <3>2, ElementsJoin
      <4>2. Rising(down'[agent]) /\ \A x : Numbers(down'[agent], x) = Numbers(down[agent], x)
        BY <1>4, <2>3, <2>4, <2>6, <3>2, ControlOrder
      <4>3. OpenFirst(down'[agent])
        BY <1>4, <2>3, <2>4, <2>5, <2>5a, <3>2, OpenOrder
      <4> QED  BY <4>1, <4>2, <4>3
    <3> QED  BY <2>3, <2>6, <3>1, <3>2, DownAfter
  <2>11. \A f \in Elements(down'[agent]) :
           \/ f \in Elements(down[agent])
           \/ /\ f.type = "open" /\ (DownFrame(f))'
              /\ Gapless(Numbers(down'[agent], f.data), 0)
              /\ Reaches(Numbers(down'[agent], f.data), 0, bsent[f.data])
    BY <1>4, <2>7, <2>8, <2>9, <2>10
  <2> QED  BY <1>1, <2>1, <2>2, <2>3, <2>10, <2>11, DownOrderKept
<1> QED  BY <1>6, <1>7, <1>8, <1>9

\* What the gateway sends while the agent's connection is open goes there.
LEMMA SentOrNot ==
  ASSUME TypeOK, PairInv, agent # None, NEW ms \in Seq(Down), SendDown(ms)
  PROVE  \/ conn[agent] = "open" /\ down'[agent] = down[agent] \o ms
         \/ conn[agent] # "open" /\ down'[agent] = down[agent]
<1>1. agent \in Conn /\ (conn[agent] = "open" => ws = agent)
  BY DEF TypeOK, PairInv
<1>2. CASE conn[agent] = "open"
  <2>1. Sendable /\ ws = agent
    BY <1>1, <1>2 DEF Sendable
  <2> QED  BY <1>1, <1>2, <2>1 DEF SendDown, TypeOK
<1>3. CASE conn[agent] # "open"
  BY <1>1, <1>3, DownAfter
<1> QED  BY <1>2, <1>3

LEMMA BrowserMessageOrder ==
  ASSUME TypeInv, TypeInv', ChannelInv, OrderInv, NEW b \in Browser, BrowserMessage(b)
  PROVE  OrderInv'
<1> USE DEF TypeInv, OrderInv
<1>1. /\ LiveB(b) /\ browser[b] # "new"
      /\ SendDown(<<[type |-> "data", id |-> bid[b], data |-> <<b, bsent[b] + 1>>]>>)
      /\ UNCHANGED <<browser, bid, act, pend, local, lid, for, agent, ws, conn, up, lsent, bgot, lgot>>
  BY DEF BrowserMessage, gatewayVars, agentVars, connVars, LiveB
<1>2. \A a \in Browser : bsent'[a] = IF a = b THEN bsent[b] + 1 ELSE bsent[a]
  BY DEF BrowserMessage, TypeOK
<1>3. bsent[b] \in Nat /\ \A a \in Browser : bsent[a] \in Nat
  BY DEF TypeOK
<1>4. PICK m \in Down : m = [type |-> "data", id |-> bid[b], data |-> <<b, bsent[b] + 1>>]
  <2>1. <<b, bsent[b] + 1>> \in FromBrowser
    BY DEF BrowserMessage, TypeOK, FromBrowser, Number
  <2> QED  BY <1>1, <2>1 DEF BidInv, Down
<1>5. m.type = "data" /\ m.id = bid[b] /\ m.data[1] = b /\ m.data[2] = bsent[b] + 1
  BY <1>4
<1>6. PairInv'
  <2>1. \A a \in Browser : browser[a] = "new" => bsent'[a] = bsent[a]
    BY <1>1, <1>2
  <2> QED  BY <1>1, <2>1, PairKept DEF PairInv
<1>7. LocalOrder'
  BY <1>1, LocalOrderKept
<1>8. UpOrder'
  <2>1. \A l \in Local : (Sending(l))' => Sending(l)
    BY <1>1 DEF Sending
  <2>2. up' \in [Conn -> Seq(Up)] /\ SameUp
    BY <1>1, UpSame DEF TypeOK
  <2> QED  BY <1>1, <2>1, <2>2, UpOrderSame
<1>9. DownOrder'
  <2> SUFFICES ASSUME agent # None PROVE DownOrder'
    BY <1>1 DEF DownOrder
  <2>1. agent \in Conn /\ down[agent] \in Seq(Down)
    BY DEF TypeOK
  <2>2. /\ Rising(down[agent]) /\ OpenFirst(down[agent])
        /\ \A f \in Elements(down[agent]) : DownFrame(f) /\ (f.type = "open" => InStep(f.data, 0))
        /\ \A l \in Local : Usable(l) => InStep(for[l], Accepted(l))
    BY DEF DownOrder
  <2>3. /\ \A l \in Local : (Usable(l))' <=> Usable(l)
        /\ \A l \in Local : (Accepted(l))' = Accepted(l)
        /\ \A l \in Local : Usable(l) => for[l] \in Browser /\ Accepted(l) \in Nat
        /\ for' = for
    BY <1>1, PairBrowser, AcceptedNat DEF Usable, Accepted
  <2>4. \A f \in Elements(down[agent]) :
          /\ f.type = "open" => f.data \in Browser
          /\ f.type = "data" => f.data[1] \in Browser /\ f.data[2] \in Nat
    <3> TAKE f \in Elements(down[agent])
    <3>1. f \in Down
      BY <2>1, ElementsTyped
    <3> QED  BY <2>2, <3>1, DownKinds DEF DownFrame, FromBrowser, Number
  <2>5. \A f \in Elements(down[agent]) : (DownFrame(f))'
    BY <1>1, <1>2, <1>3, <2>2, <2>4 DEF DownFrame
  <2>6. (DownFrame(m))'
    BY <1>1, <1>2, <1>3, <1>5 DEF DownFrame
  <2>7. PICK ms \in Seq(Down) : ms = <<m>> /\ SendDown(ms)
    BY <1>1, <1>4, OneTyped
  <2>8. Elements(ms) = {m}
    BY <2>7, ElementsOne
  <2>9. CASE conn[agent] = "open" /\ down'[agent] = down[agent] \o ms
    <3>1. Elements(down'[agent]) = Elements(down[agent]) \cup {m}
      BY <2>1, <2>8, <2>9, ElementsJoin
    <3>2. \A n \in Numbers(down[agent], b) : n < bsent[b] + 1
      BY <1>3, <2>2, <2>4, NumbersIs DEF DownFrame
    <3>3. /\ \A x : Numbers(down'[agent], x) = IF x = b THEN Numbers(down[agent], x) \cup {bsent[b] + 1}
                                                       ELSE Numbers(down[agent], x)
          /\ Rising(down'[agent]) /\ OpenFirst(down'[agent])
      <4>1. PICK p \in Seq(Down) : p = down[agent]
        BY <2>1
      <4>2. /\ \A x : Numbers(p \o <<m>>, x) =
                         IF x = m.data[1] THEN Numbers(p, x) \cup {m.data[2]} ELSE Numbers(p, x)
            /\ Rising(p) => Rising(p \o <<m>>)
            /\ OpenFirst(p) => OpenFirst(p \o <<m>>)
        <5>1. \A n \in Numbers(p, m.data[1]) : n < m.data[2]
          BY <1>5, <3>2, <4>1
        <5> QED  BY <1>5, <5>1, MessageOrder
      <4>3. down'[agent] = p \o <<m>>
        BY <2>7, <2>9, <4>1
      <4> QED  BY <1>5, <2>2, <4>1, <4>2, <4>3
    <3>4. conn[agent] = "open"
      BY <2>9
    <3>5. ASSUME NEW a \in Browser, NEW n \in Nat, InStep(a, n)
          PROVE  Gapless(Numbers(down'[agent], a), n) /\ Reaches(Numbers(down'[agent], a), n, bsent'[a])
      <4>1. Gapless(Numbers(down[agent], a), n) /\ Reaches(Numbers(down[agent], a), n, bsent[a])
        BY <3>4, <3>5 DEF InStep
      <4>2. Numbers(down[agent], a) \in SUBSET Nat /\ bsent[a] \in Nat
        BY <1>3, <2>1, NumbersNat
      <4>3. Gapless(Numbers(down[agent], a) \cup {bsent[a] + 1}, n)
            /\ Reaches(Numbers(down[agent], a) \cup {bsent[a] + 1}, n, bsent[a] + 1)
        BY <4>1, <4>2, GaplessSent
      <4> QED  BY <1>2, <3>3, <4>1, <4>3
    <3>6. \A f \in Elements(down'[agent]) : (DownFrame(f))' /\ (f.type = "open" => (InStep(f.data, 0))')
      <4> TAKE f \in Elements(down'[agent])
      <4>1. (DownFrame(f))'
        BY <2>5, <2>6, <3>1
      <4>2. ASSUME f.type = "open"
            PROVE  Gapless(Numbers(down'[agent], f.data), 0) /\ Reaches(Numbers(down'[agent], f.data), 0, bsent'[f.data])
        BY <1>5, <2>2, <2>4, <3>1, <3>5, <4>2
      <4> QED  BY <1>1, <4>1, <4>2 DEF InStep
    <3>7. \A l \in Local : Usable(l) =>
            /\ Gapless(Numbers(down'[agent], for[l]), Accepted(l))
            /\ Reaches(Numbers(down'[agent], for[l]), Accepted(l), bsent'[for[l]])
      BY <2>2, <2>3, <3>5
    <3> QED  BY <1>1, <2>3, <3>3, <3>6, <3>7 DEF DownOrder, InStep
  <2>10. CASE down'[agent] = down[agent] /\ conn[agent] # "open"
    <3>1. \A f \in Elements(down'[agent]) : (DownFrame(f))' /\ (f.type = "open" => (InStep(f.data, 0))')
      BY <1>1, <2>2, <2>5, <2>10 DEF InStep
    <3>2. \A l \in Local : (Usable(l))' =>
            Gapless(Numbers(down'[agent], for'[l]), (Accepted(l))')
      BY <2>2, <2>3, <2>10 DEF InStep
    <3> QED  BY <1>1, <2>2, <2>10, <3>1, <3>2 DEF DownOrder, InStep
  <2> QED  BY <2>1, <2>7, <2>9, <2>10, SentOrNot
<1> QED  BY <1>6, <1>7, <1>8, <1>9

LEMMA AppendAt ==
  ASSUME NEW S, NEW q \in Seq(S), NEW x \in S, NEW k \in DOMAIN Append(q, x)
  PROVE  \/ k \in DOMAIN q /\ Append(q, x)[k] = q[k]
         \/ k = Len(q) + 1 /\ Append(q, x)[k] = x
<1>1. Append(q, x) \in Seq(S) /\ Len(Append(q, x)) = Len(q) + 1 /\ Len(q) \in Nat
  OBVIOUS
<1>2. k \in 1 .. Len(q) + 1 /\ DOMAIN q = 1 .. Len(q)
  BY <1>1, Domain
<1>3. Append(q, x)[k] = IF k <= Len(q) THEN q[k] ELSE x
  BY <1>1, <1>2
<1> QED  BY <1>1, <1>2, <1>3

LEMMA BrowserEventOrder ==
  ASSUME TypeInv, TypeInv', ChannelInv, OrderInv, NEW b \in Browser, BrowserEvent(b)
  PROVE  OrderInv'
<1> USE DEF TypeInv, OrderInv
<1>1. PICK times \in {1, 2} : CloseChannelDown(bid[b], times)
  BY DEF BrowserEvent
<1> DEFINE m == [type |-> "close", id |-> bid[b], data |-> None]
           ms == [n \in 1 .. times |-> m]
<1>2. /\ UNCHANGED <<nextId, bid, act, pend, local, lid, for, agent, ws, conn, up, bsent, lsent, bgot, lgot>>
      /\ browser' = [browser EXCEPT ![b] = "closed"] /\ LiveB(b) /\ SendDown(ms)
  BY <1>1 DEF BrowserEvent, CloseChannelDown, agentVars, connVars, dataVars, LiveB
<1>3. ms \in Seq(Down) /\ \A f \in Elements(ms) : f.type = "close"
  BY <1>2, CloseTyped, Repeated DEF BidInv, Elements
<1> HIDE DEF ms
<1>4. \A a \in Browser : /\ browser'[a] = "new" <=> browser[a] = "new"
                         /\ browser'[a] = "open" => browser[a] = "open"
  BY <1>2 DEF LiveB, TypeOK
<1>5. PairInv'
  BY <1>2, <1>4, PairKept DEF PairInv
<1>6. LocalOrder'
  BY <1>2, LocalOrderKept
<1>7. UpOrder'
  <2>1. \A l \in Local : (Sending(l))' => Sending(l)
    BY <1>2 DEF Sending
  <2>2. up' \in [Conn -> Seq(Up)] /\ SameUp
    BY <1>2, UpSame DEF TypeOK
  <2>3. \A l \in Local : local[l] # "unused" /\ browser'[for[l]] = "open" => browser[for[l]] = "open"
    BY <1>4, PairBrowser
  <2> QED  BY <1>2, <2>1, <2>2, <2>3, UpOrderSame
<1>8. DownOrder'
  <2> SUFFICES ASSUME agent # None PROVE DownOrder'
    BY <1>2 DEF DownOrder
  <2>1. agent \in Conn /\ down[agent] \in Seq(Down) /\ down' \in [Conn -> Seq(Down)]
    BY DEF TypeOK
  <2>2. Rising(down[agent]) /\ OpenFirst(down[agent])
    BY DEF DownOrder
  <2>3. \A l \in Local : (Usable(l))' => Usable(l) /\ (Accepted(l))' = Accepted(l)
    BY <1>2 DEF Usable, Accepted
  <2>4. /\ Rising(down'[agent]) /\ OpenFirst(down'[agent])
        /\ \A x : Numbers(down'[agent], x) = Numbers(down[agent], x)
        /\ \A f \in Elements(down'[agent]) : f \in Elements(down[agent]) \/ f.type = "close"
    <3>1. CASE down'[agent] = down[agent]
      BY <2>2, <3>1
    <3>2. CASE down'[agent] = down[agent] \o ms
      BY <1>3, <2>1, <2>2, <3>2, ControlOrder, ElementsJoin
    <3> QED  BY <1>2, <1>3, <2>1, <3>1, <3>2, DownAfter
  <2> QED  BY <1>2, <1>4, <2>1, <2>3, <2>4, DownOrderKept
<1> QED  BY <1>5, <1>6, <1>7, <1>8

\* The message the gateway takes is the next of its sender.
LEMMA GatewayReceivesOrder ==
  ASSUME TypeInv, TypeInv', ChannelInv, OrderInv, NEW c \in Conn, GatewayReceives(c)
  PROVE  OrderInv'
<1> USE DEF TypeInv, OrderInv
<1>1. /\ UNCHANGED <<nextId, bid, act, pend, local, lid, for, agent, ws, conn, down, bsent, lsent, lgot>>
      /\ up[c] # <<>> /\ up' = [up EXCEPT ![c] = Tail(@)] /\ Linked(c)
  BY DEF GatewayReceives, agentVars, connVars, Linked
<1>2. PICK m \in Up : m = Head(up[c])
  BY <1>1, QueueTaken DEF TypeOK
<1>3. PICK q \in Seq(Up) : q = up[c]
  BY DEF TypeOK
<1>4. /\ q # <<>> /\ m = Head(q) /\ up'[c] = Tail(q)
      /\ \A d \in Conn : d # c => up'[d] = up[d]
  BY <1>1, <1>2, <1>3 DEF TypeOK
<1>5. \A a \in Browser : /\ browser'[a] = "new" <=> browser[a] = "new"
                         /\ browser'[a] = "open" => browser[a] = "open"
  <2>1. UNCHANGED browser \/ CloseBrowsers({chan[m.id]})
    BY <1>2 DEF GatewayReceives
  <2> QED  BY <2>1 DEF CloseBrowsers
<1>6. PairInv'
  BY <1>1, <1>5, PairKept DEF PairInv
<1>7. LocalOrder'
  BY <1>1, LocalOrderKept
<1>8. DownOrder'
  <2>1. \A l \in Local : (Usable(l))' => Usable(l) /\ (Accepted(l))' = Accepted(l)
    BY <1>1 DEF Usable, Accepted
  <2> QED  BY <1>1, <1>5, <2>1, DownOrderKept DEF DownOrder, TypeOK
<1>9. /\ Rising(Tail(q)) /\ Elements(Tail(q)) \subseteq Elements(q) /\ m \in Elements(q) /\ UpFrame(m)
      /\ \A x : Numbers(Tail(q), x) \subseteq Numbers(q, x)
  <2>1. Rising(q) /\ \A f \in Elements(q) : UpFrame(f)
    BY <1>3 DEF UpOrder
  <2>2. Elements(Tail(q)) \subseteq Elements(q) /\ m \in Elements(q)
    BY <1>4, ElementsTail
  <2>3. Rising(Tail(q))
    BY <1>4, <2>1, TakenOrder
  <2>4. \A x : Numbers(Tail(q), x) \subseteq Numbers(q, x)
    BY <2>2 DEF Numbers
  <2> QED  BY <2>1, <2>2, <2>3, <2>4
<1>10. \A d \in Conn : /\ Rising(up'[d]) /\ Elements(up'[d]) \subseteq Elements(up[d])
                       /\ \A x : Numbers(up'[d], x) \subseteq Numbers(up[d], x)
  BY <1>3, <1>4, <1>9 DEF UpOrder
<1>11. /\ \A d \in Conn : Rising(up'[d]) /\ \A f \in Elements(up'[d]) : (UpFrame(f))'
       /\ \A l \in Local, d, e \in Conn : Numbers(up'[d], l) # {} /\ Numbers(up'[e], l) # {} => d = e
       /\ \A l \in Local, d \in Conn : agent' # None /\ (Sending(l))' /\ Numbers(up'[d], l) # {} => d = agent'
  <2>1. \A d \in Conn : Rising(up'[d]) /\ \A f \in Elements(up'[d]) : (UpFrame(f))'
    BY <1>1, <1>10 DEF UpOrder, UpFrame
  <2>2. \A l \in Local, d \in Conn : Numbers(up'[d], l) # {} => Numbers(up[d], l) # {}
    BY <1>10
  <2>3. \A l \in Local : (Sending(l))' <=> Sending(l)
    BY <1>1 DEF Sending
  <2>4. \A l \in Local, d, e \in Conn : Numbers(up'[d], l) # {} /\ Numbers(up'[e], l) # {} => d = e
    BY <2>2 DEF UpOrder
  <2>5. \A l \in Local, d \in Conn : agent' # None /\ (Sending(l))' /\ Numbers(up'[d], l) # {} => d = agent'
    BY <1>1, <2>2, <2>3 DEF UpOrder
  <2> QED  BY <2>1, <2>4, <2>5
<1> DEFINE Goal == /\ \A l \in Local : local[l] # "unused" /\ browser'[for[l]] = "open" =>
                        /\ \A d \in Conn : Linked(d) => Gapless(Numbers(up'[d], l), Len(bgot'[for[l]]))
                        /\ agent # None /\ Linked(agent) /\ Sending(l) =>
                             Reaches(Numbers(up'[agent], l), Len(bgot'[for[l]]), lsent[l])
                   /\ \A b \in Browser : \A n \in DOMAIN bgot'[b] : bgot'[b][n][2] = n
<1>12. ASSUME Goal PROVE UpOrder'
  <2>1. /\ \A d \in Conn : (Linked(d))' <=> Linked(d)
        /\ (Linked(agent))' <=> Linked(agent)
        /\ \A l \in Local : (Sending(l))' <=> Sending(l)
    BY <1>1 DEF Linked, Sending
  <2> QED  BY <1>1, <1>11, <1>12, <2>1 DEF UpOrder
<1>13. ASSUME NEW l \in Local, local[l] # "unused", browser'[for[l]] = "open"
       PROVE  /\ for[l] \in Browser /\ browser[for[l]] = "open"
              /\ \A d \in Conn : Linked(d) => Gapless(Numbers(up[d], l), Len(bgot[for[l]]))
              /\ agent # None /\ Linked(agent) /\ Sending(l) =>
                   Reaches(Numbers(up[agent], l), Len(bgot[for[l]]), lsent[l])
  <2>1. for[l] \in Browser
    BY <1>13, PairBrowser
  <2>2. browser[for[l]] = "open"
    BY <1>5, <1>13, <2>1
  <2> QED  BY <1>13, <2>1, <2>2 DEF UpOrder
<1>14. agent \in Conn \cup {None}
  BY DEF TypeOK
<1>15. ASSUME bgot' = bgot /\ (m.type = "data" => local[m.data[1]] # "unused" /\ browser[for[m.data[1]]] # "open")
       PROVE  UpOrder'
  <2>1. ASSUME NEW l \in Local, local[l] # "unused", browser'[for[l]] = "open"
        PROVE  \A d \in Conn : Numbers(up'[d], l) = Numbers(up[d], l)
    <3>1. m.type = "data" => l # m.data[1]
      BY <1>13, <1>15, <2>1
    <3>2. Numbers(Tail(q), l) = Numbers(q, l)
      BY <1>4, <3>1, TakenOrder
    <3> QED  BY <1>3, <1>4, <3>2
  <2>2. \A b \in Browser : \A n \in DOMAIN bgot'[b] : bgot'[b][n][2] = n
    BY <1>15 DEF UpOrder
  <2>3. ASSUME NEW l \in Local, local[l] # "unused", browser'[for[l]] = "open"
        PROVE  /\ \A d \in Conn : Linked(d) => Gapless(Numbers(up'[d], l), Len(bgot'[for[l]]))
               /\ agent # None /\ Linked(agent) /\ Sending(l) =>
                    Reaches(Numbers(up'[agent], l), Len(bgot'[for[l]]), lsent[l])
    BY <1>13, <1>14, <1>15, <2>1, <2>3
  <2>4. Goal
    BY <2>2, <2>3, Zenon
  <2> HIDE DEF Goal
  <2> QED  BY <1>12, <2>4
<1>16. ASSUME bgot' # bgot \/ (m.type = "data" /\ (local[m.data[1]] # "unused" => browser[for[m.data[1]]] = "open"))
       PROVE  UpOrder'
  <2>1. m.type = "data" /\ browser' = browser
    BY <1>2, <1>16 DEF GatewayReceives
  <2>2. PICK x \in Local : x = m.data[1]
    BY <2>1, UpKinds DEF FromLocal
  <2>3. PICK n \in Nat : n = m.data[2]
    BY <2>1, UpKinds DEF FromLocal, Number
  <2>4. /\ m.id \in Id /\ m.data \in FromLocal
        /\ local[x] # "unused" /\ m.id = lid[x] /\ n <= lsent[x]
    BY <1>9, <2>1, <2>2, <2>3, UpKinds DEF UpFrame
  <2>5. for[x] \in Browser /\ lid[x] = bid[for[x]]
    BY <2>4 DEF PairInv
  <2>6. PICK a \in Browser : a = for[x]
    BY <2>5
  <2>7. \A b \in Browser : LiveB(b) /\ bid[b] = m.id => b = a
    BY <1>1, <1>3, <1>9, <2>1, <2>2, <2>6 DEF ChannelInv, UpInv, UpFits
  <2>8. chan[m.id] \in Browser \cup {None} /\ chan[m.id] # None =>
          browser[chan[m.id]] = "open" /\ bid[chan[m.id]] = m.id
    BY <2>4 DEF TypeOK, OpenIsTracked
  <2>9. browser[a] = "open"
    <3>1. CASE bgot' # bgot
      <4>1. chan[m.id] # None /\ chan[m.id] \in Browser \cup {None}
        BY <1>2, <2>4, <3>1 DEF GatewayReceives, TypeOK
      <4> QED  BY <2>7, <2>8, <4>1 DEF LiveB
    <3>2. CASE bgot' = bgot
      BY <1>16, <2>2, <2>4, <2>6, <3>2
    <3> QED  BY <3>1, <3>2
  <2>10. chan[m.id] = a
    BY <2>4, <2>5, <2>6, <2>9 DEF OpenIsTracked
  <2>11. bgot' = [bgot EXCEPT ![a] = Append(@, m.data)]
    BY <1>2, <2>1, <2>9, <2>10, NoneAssumption DEF GatewayReceives
  <2>12. PICK g \in Seq(FromLocal) : g = bgot[a]
    BY DEF TypeOK
  <2>13. /\ bgot'[a] = Append(g, m.data)
         /\ \A b \in Browser : b # a => bgot'[b] = bgot[b]
    BY <2>11, <2>12 DEF TypeOK
  <2>14. Len(g) \in Nat /\ Len(Append(g, m.data)) = Len(g) + 1
    BY <2>4, <2>12
  <2>15. /\ Gapless(Numbers(q, x), Len(g))
         /\ agent # None /\ agent = c /\ Sending(x) => Reaches(Numbers(q, x), Len(g), lsent[x])
    BY <1>1, <1>3, <1>13, <2>1, <2>4, <2>6, <2>9, <2>12
  <2>16. /\ Numbers(q, x) = Numbers(Tail(q), x) \cup {n}
         /\ \A y : y # x => Numbers(Tail(q), y) = Numbers(q, y)
         /\ \A i \in Numbers(Tail(q), x) : n < i
    BY <1>3, <1>4, <2>1, <2>2, <2>3, TakenOrder, ZenonT(40) DEF UpOrder
  <2>17. Numbers(q, x) \in SUBSET Nat /\ lsent[x] \in Nat
    <3>1. lsent[x] \in 0 .. MaxSent
      BY DEF TypeOK
    <3>2. Numbers(up[c], x) \in SUBSET Nat
      BY NumbersNat
    <3> QED  BY <1>3, <3>1, <3>2
  <2>18. /\ n = Len(g) + 1 /\ Gapless(Numbers(Tail(q), x), n)
         /\ agent # None /\ agent = c /\ Sending(x) => Reaches(Numbers(Tail(q), x), n, lsent[x])
    <3>1. PICK N \in SUBSET Nat : N = Numbers(Tail(q), x)
      BY <2>16, <2>17
    <3>2. PICK k \in Nat : k = Len(g)
      BY <2>14
    <3>3. Gapless(N \cup {n}, k) /\ \A i \in N : n < i
      BY <2>15, <2>16, <3>1, <3>2
    <3>4. /\ n = k + 1 /\ Gapless(N, n)
          /\ \A s : Reaches(N \cup {n}, k, s) /\ s \in Nat /\ s >= n => Reaches(N, n, s)
      BY <3>3, GaplessTaken
    <3>5. PICK s \in Nat : s = lsent[x] /\ s >= n
      BY <2>4, <2>17
    <3>6. agent # None /\ agent = c /\ Sending(x) => Reaches(N \cup {n}, k, s)
      BY <2>15, <2>16, <3>1, <3>2, <3>5
    <3> QED  BY <3>1, <3>2, <3>4, <3>5, <3>6
  <2>19. Numbers(up[c], x) # {}
    BY <1>3, <2>16
  <2>20. \A d \in Conn : d # c => Numbers(up'[d], x) = {}
    BY <1>4, <2>19 DEF UpOrder
  <2>21. \A d \in Conn : \A l \in Local : l # x => Numbers(up'[d], l) = Numbers(up[d], l)
    BY <1>3, <1>4, <2>16
  <2>22. ASSUME NEW l \in Local, local[l] # "unused", browser'[for[l]] = "open"
         PROVE  /\ \A d \in Conn : Linked(d) => Gapless(Numbers(up'[d], l), Len(bgot'[for[l]]))
                /\ agent # None /\ Linked(agent) /\ Sending(l) =>
                     Reaches(Numbers(up'[agent], l), Len(bgot'[for[l]]), lsent[l])
    <3>1. CASE l = x
      <4>1. Len(bgot'[for[l]]) = n
        BY <2>6, <2>13, <2>14, <2>18, <3>1
      <4>2. \A d \in Conn : Linked(d) => Gapless(Numbers(up'[d], l), n)
        BY <1>4, <2>18, <2>20, <3>1, GaplessNone
      <4>3. agent # None /\ Sending(l) => agent = c
        BY <2>19, <3>1 DEF UpOrder
      <4> QED  BY <1>4, <2>18, <3>1, <4>1, <4>2, <4>3
    <3>2. CASE l # x
      <4>1. for[l] # a /\ for[l] \in Browser
        BY <1>13, <2>6, <2>22, <3>2, NoneAssumption DEF PairInv
      <4>2. bgot'[for[l]] = bgot[for[l]]
        BY <2>13, <4>1
      <4> QED  BY <1>13, <1>14, <2>21, <2>22, <3>2, <4>2
    <3> QED  BY <3>1, <3>2
  <2>23. \A b \in Browser : \A k \in DOMAIN bgot'[b] : bgot'[b][k][2] = k
    <3> TAKE b \in Browser
    <3>1. CASE b # a
      BY <2>13, <3>1 DEF UpOrder
    <3>2. CASE b = a
      <4>1. \A k \in DOMAIN g : g[k][2] = k
        BY <2>12 DEF UpOrder
      <4>2. \A k \in DOMAIN Append(g, m.data) :  (k \in DOMAIN g /\ Append(g, m.data)[k] = g[k])
                                                \/ (k = Len(g) + 1 /\ Append(g, m.data)[k] = m.data)
        BY <2>4, <2>12, AppendAt
      <4>3. \A k \in DOMAIN Append(g, m.data) : Append(g, m.data)[k][2] = k
        BY <2>3, <2>18, <4>1, <4>2
      <4> QED  BY <2>13, <3>2, <4>3
    <3> QED  BY <3>1, <3>2
  <2>24. Goal
    BY <2>22, <2>23, Zenon
  <2> HIDE DEF Goal
  <2> QED  BY <1>12, <2>24
<1>17. UpOrder'
  BY <1>15, <1>16
<1> QED  BY <1>6, <1>7, <1>8, <1>17

LEMMA TunnelOrder ==
  ASSUME TypeInv, TypeInv', ChannelInv, OrderInv, Tunnel
  PROVE  OrderInv'
<1> USE DEF TypeInv, OrderInv
<1>1. UNCHANGED <<nextId, browser, bid, act, pend, local, lid, for, agent, down, up,
                  bsent, lsent, bgot, lgot>>
  BY TunnelOnly DEF gatewayVars, agentVars, dataVars
<1>2. \A d \in Conn : /\ conn'[d] = "open" => conn[d] = "open"
                      /\ (Linked(d))' <=> Linked(d)
                      /\ conn'[d] = "open" /\ ws = d => ws' = d
  BY TunnelOnly DEF Linked
<1>3. agent \in Conn \cup {None}
  BY DEF TypeOK
<1>4. PairInv'
  BY <1>1, <1>2, <1>3, PairKept DEF PairInv
<1>5. LocalOrder'
  BY <1>1, LocalOrderKept
<1>6. UpOrder'
  <2>1. \A l \in Local : (Sending(l))' => Sending(l)
    BY <1>1 DEF Sending
  <2>2. agent = None \/ ((Linked(agent))' => Linked(agent))
    BY <1>1, <1>2, <1>3 DEF Linked
  <2>3. SameUp /\ up' \in [Conn -> Seq(Up)]
    BY <1>1, UpSame DEF TypeOK
  <2> QED  BY <1>1, <1>2, <2>1, <2>2, <2>3, UpOrderKept DEF SameUp
<1>7. DownOrder'
  <2>1. \A l \in Local : (Usable(l))' => Usable(l) /\ (Accepted(l))' = Accepted(l)
    BY <1>1 DEF Usable, Accepted
  <2>2. down' \in [Conn -> Seq(Down)] /\ (agent # None => Rising(down[agent]) /\ OpenFirst(down[agent]))
    BY DEF TypeOK, DownOrder
  <2> QED  BY <1>1, <1>2, <1>3, <2>1, <2>2, DownOrderKept
<1> QED  BY <1>4, <1>5, <1>6, <1>7

\* What is in flight on connections that close is lost on both ways.
LEMMA LostOrder ==
  ASSUME TypeInv, TypeInv', OrderInv,
         UNCHANGED <<bid, act, pend, local, lid, for, agent, bsent, lsent, bgot, lgot>>,
         \A a \in Browser : /\ browser'[a] = "new" <=> browser[a] = "new"
                            /\ browser'[a] = "open" => browser[a] = "open",
         \A d \in Conn : \/ ~(Linked(d))' /\ down'[d] = <<>> /\ up'[d] = <<>>
                         \/ conn'[d] = conn[d] /\ down'[d] = down[d] /\ up'[d] = up[d],
         \A d \in Conn : conn'[d] = "open" /\ ws = d => ws' = d
  PROVE  OrderInv'
<1> USE DEF TypeInv, OrderInv
<1>1. \A d \in Conn : /\ conn'[d] = "open" => conn[d] = "open"
                      /\ (Linked(d))' => Linked(d)
  BY DEF Linked
<1>2. agent \in Conn \cup {None}
  BY DEF TypeOK
<1>3. PairInv'
  BY <1>1, <1>2, PairKept DEF PairInv
<1>4. LocalOrder'
  BY LocalOrderKept
<1>5. UpOrder'
  <2>1. \A l \in Local : (Sending(l))' => Sending(l)
    BY DEF Sending
  <2>2. agent = None \/ ((Linked(agent))' => Linked(agent))
    BY <1>1, <1>2 DEF Linked
  <2>3. \A l \in Local : local[l] # "unused" /\ browser'[for[l]] = "open" => browser[for[l]] = "open"
    BY PairBrowser
  <2>4. \A d \in Conn :
          /\ Rising(up'[d]) /\ \A m \in Elements(up'[d]) : m.type = "data" => m \in Elements(up[d])
          /\ \/ \A x : Numbers(up'[d], x) = Numbers(up[d], x)
             \/ ~(Linked(d))' /\ \A x : Numbers(up'[d], x) = {}
    BY NumbersNone, OrderNone, ElementsNone DEF UpOrder
  <2>5. up' \in [Conn -> Seq(Up)]
    BY DEF TypeOK
  <2> QED  BY <1>1, <2>1, <2>2, <2>3, <2>4, <2>5, UpOrderKept
<1>6. DownOrder'
  <2>1. \A l \in Local : (Usable(l))' => Usable(l) /\ (Accepted(l))' = Accepted(l)
    BY DEF Usable, Accepted
  <2>2. down' \in [Conn -> Seq(Down)]
    BY DEF TypeOK
  <2>3. agent # None =>
          /\ Rising(down'[agent]) /\ OpenFirst(down'[agent])
          /\ \A m \in Elements(down'[agent]) : m \in Elements(down[agent])
          /\ \/ \A x : Numbers(down'[agent], x) = Numbers(down[agent], x)
             \/ conn'[agent] # "open" /\ \A x : Numbers(down'[agent], x) = {}
    BY <1>2, NumbersNone, OrderNone, ElementsNone DEF DownOrder, Linked
  <2> QED  BY <1>1, <1>2, <2>1, <2>2, <2>3, DownOrderKept
<1> QED  BY <1>3, <1>4, <1>5, <1>6

LEMMA CloseEventOrder ==
  ASSUME TypeInv, TypeInv', OrderInv, NEW c \in Conn, CloseEvent(c)
  PROVE  OrderInv'
<1>1. /\ UNCHANGED <<bid, act, pend, local, lid, for, agent, bsent, lsent, bgot, lgot>>
      /\ conn' = [conn EXCEPT ![c] = "closed"] /\ CloseBrowsers({chan[i] : i \in Id})
      /\ ws' = (IF ws = c THEN None ELSE ws)
      /\ down' = [down EXCEPT ![c] = <<>>] /\ up' = [up EXCEPT ![c] = <<>>]
  BY DEF CloseEvent, CleanupInstanceChannels, agentVars, dataVars
<1>2. \A a \in Browser : /\ browser'[a] = "new" <=> browser[a] = "new"
                         /\ browser'[a] = "open" => browser[a] = "open"
  BY <1>1 DEF CloseBrowsers
<1>3. \A d \in Conn : \/ ~(Linked(d))' /\ down'[d] = <<>> /\ up'[d] = <<>>
                      \/ conn'[d] = conn[d] /\ down'[d] = down[d] /\ up'[d] = up[d]
  BY <1>1 DEF Linked, TypeInv, TypeOK
<1>4. \A d \in Conn : conn'[d] = "open" /\ ws = d => ws' = d
  BY <1>1 DEF TypeInv, TypeOK
<1> QED  BY <1>1, <1>2, <1>3, <1>4, LostOrder

LEMMA CrashOrder ==
  ASSUME TypeInv, TypeInv', OrderInv, Crash
  PROVE  OrderInv'
<1>1. UNCHANGED <<bid, act, pend, local, lid, for, agent, bsent, lsent, bgot, lgot>>
  BY DEF Crash, agentVars, dataVars
<1>2. \A a \in Browser : /\ browser'[a] = "new" <=> browser[a] = "new"
                         /\ browser'[a] = "open" => browser[a] = "open"
  BY DEF Crash
<1>3. \A d \in Conn : ~(Linked(d))' /\ down'[d] = <<>> /\ up'[d] = <<>> /\ conn'[d] # "open"
  BY DEF Crash, Linked
<1> QED  BY <1>1, <1>2, <1>3, LostOrder

LEMMA ConnectOrder ==
  ASSUME ~SlowClose, TypeInv, TypeInv', ChannelInv, OrderInv, NEW c \in Conn, Connect(c)
  PROVE  OrderInv'
<1> USE DEF TypeInv, OrderInv
<1>1. /\ UNCHANGED <<nextId, browser, bid, act, pend, local, lid, for, down, up, bsent, lsent, bgot, lgot>>
      /\ agent = None /\ agent' = c /\ ws' = c /\ conn[c] = "unused"
  BY DEF Connect, gatewayVars, agentVars, dataVars
<1>2. \A d \in Conn : (Linked(d))' => Linked(d) \/ d = c
  BY <1>1 DEF Connect, Linked, TypeOK
<1>3. down[c] = <<>> /\ up[c] = <<>>
  BY <1>1 DEF ChannelInv, ConnInv, Linked
<1>4. \A l \in Local : ~LiveL(l)
  BY <1>1 DEF Connect, LocalsGone, ChannelInv, LocalInv, Usable, LiveL
<1>5. \A l \in Local : ~(Sending(l))' /\ ~(Usable(l))'
  BY <1>1, <1>4 DEF Sending, Usable, LiveL
<1>6. PairInv'
  BY <1>1, PairKept
<1>7. LocalOrder'
  BY <1>1, LocalOrderKept
<1>8. UpOrder'
  <2>1. SameUp /\ up' \in [Conn -> Seq(Up)]
    BY <1>1, UpSame DEF TypeOK
  <2>2. \A d \in Conn : (Linked(d))' => Linked(d) \/ \A x : Numbers(up'[d], x) = {}
    BY <1>1, <1>2, <1>3, NumbersNone
  <2> QED  BY <1>1, <1>5, <2>1, <2>2, UpOrderKept DEF SameUp
<1>9. DownOrder'
  <2>1. Rising(down'[agent']) /\ OpenFirst(down'[agent']) /\ Elements(down'[agent']) = {}
    BY <1>1, <1>3, OrderNone, ElementsNone
  <2> QED  BY <1>5, <2>1 DEF DownOrder
<1> QED  BY <1>6, <1>7, <1>8, <1>9

LEMMA StutterOrder ==
  ASSUME TypeInv, TypeInv', OrderInv, UNCHANGED vars
  PROVE  OrderInv'
<1>1. UNCHANGED <<browser, bid, act, pend, local, lid, for, agent, ws, conn, down, up, bsent, lsent, bgot, lgot>>
  BY DEF vars, gatewayVars, agentVars, connVars, dataVars
<1> QED  BY <1>1, LostOrder

LEMMA InitOrder == Init => OrderInv
<1> SUFFICES ASSUME Init PROVE OrderInv
  OBVIOUS
<1>1. PairInv /\ DownOrder
  BY DEF Init, PairInv, DownOrder
<1>2. LocalOrder
  BY DEF Init, LocalOrder
<1>3. UpOrder
  <2>1. \A c \in Conn : Rising(up[c]) /\ Elements(up[c]) = {} /\ \A x : Numbers(up[c], x) = {}
    BY NumbersNone, OrderNone, ElementsNone DEF Init
  <2> QED  BY <2>1 DEF Init, UpOrder
<1> QED  BY <1>1, <1>2, <1>3 DEF OrderInv

LEMMA AgentDropsOrder ==
  ASSUME TypeInv, TypeInv', ChannelInv, OrderInv, AgentDrops
  PROVE  OrderInv'
<1> USE DEF TypeInv, OrderInv
<1>1. /\ UNCHANGED <<browser, bid, pend, lid, for, ws, conn, up, bsent, lsent, bgot, lgot>>
      /\ agent # None /\ agent' = None /\ CloseLocals({act[i] : i \in Id})
  BY DEF AgentDrops, CloseAllChannels, gatewayVars, dataVars
<1>2. \A l \in Local : /\ local'[l] = "unused" <=> local[l] = "unused"
                       /\ local'[l] = "connecting" => local[l] = "connecting"
                       /\ local'[l] = "open" => local[l] = "open"
  BY <1>1 DEF CloseLocals
<1>3. PairInv'
  BY <1>1, <1>2, PairKept
<1>4. LocalOrder'
  BY <1>1, <1>2, LocalOrderKept
<1>5. UpOrder'
  <2>1. SameUp /\ up' \in [Conn -> Seq(Up)]
    BY <1>1, UpSame DEF TypeOK
  <2>2. \A d \in Conn : (Linked(d))' => Linked(d)
    BY <1>1 DEF Linked
  <2> QED  BY <1>1, <1>2, <2>1, <2>2, UpOrderKept DEF SameUp
<1>6. DownOrder'
  BY <1>1 DEF DownOrder
<1> QED  BY <1>3, <1>4, <1>5, <1>6

-----------------------------------------------------------------------------
\* The agent takes a frame.
TakeFacts(c, m, q) ==
  /\ TypeInv /\ TypeInv' /\ ChannelInv /\ OrderInv /\ ReceiveFacts(c, m)
  /\ q \in Seq(Down) /\ q = down[c] /\ q # <<>> /\ m = Head(q) /\ down'[c] = Tail(q)
  /\ agent = c /\ c # None
  /\ Rising(Tail(q)) /\ OpenFirst(Tail(q)) /\ Elements(Tail(q)) \subseteq Elements(q)
  /\ DownFrame(m) /\ m \in Elements(q)

LEMMA TakeHolds ==
  ASSUME TypeInv, TypeInv', ChannelInv, OrderInv, NEW c \in Conn, AgentReceives(c),
         NEW m, m = Head(down[c])
  PROVE  \E q : TakeFacts(c, m, q)
<1> USE DEF TypeInv, OrderInv
<1>1. ReceiveFacts(c, m)
  BY Taken DEF ReceiveFacts, AgentReceives, gatewayVars, connVars
<1>2. agent = c /\ c # None /\ down[c] # <<>> /\ down' = [down EXCEPT ![c] = Tail(@)]
  BY DEF AgentReceives
<1>3. PICK q \in Seq(Down) : q = down[c]
  BY DEF TypeOK
<1>4. q # <<>> /\ m = Head(q) /\ down'[c] = Tail(q)
  BY <1>2, <1>3 DEF TypeOK
<1>5. Rising(q) /\ OpenFirst(q) /\ \A f \in Elements(q) : DownFrame(f)
  BY <1>2, <1>3 DEF DownOrder
<1>6. Rising(Tail(q)) /\ OpenFirst(Tail(q))
  BY <1>4, <1>5, TakenOrder
<1>7. m \in Elements(q) /\ Elements(Tail(q)) \subseteq Elements(q)
  BY <1>4, ElementsTail
<1> QED  BY <1>1, <1>2, <1>3, <1>4, <1>5, <1>6, <1>7 DEF TakeFacts

\* Nothing changes at the browsers: what is left to show of each part.
LEMMA TakePair ==
  ASSUME NEW c, NEW m, NEW q, TakeFacts(c, m, q), UNCHANGED <<lid, for>>,
         \A l \in Local : local'[l] = "unused" <=> local[l] = "unused"
  PROVE  PairInv'
BY PairKept DEF TakeFacts, ReceiveFacts, OrderInv, PairInv

LEMMA TakeUp ==
  ASSUME NEW c, NEW m, NEW q, TakeFacts(c, m, q), UNCHANGED <<lid, for>>, SameUp,
         \A l \in Local : local'[l] = "unused" <=> local[l] = "unused",
         \A l \in Local : (Sending(l))' => Sending(l)
  PROVE  UpOrder'
<1>1. UpOrder /\ TypeOK /\ up' \in [Conn -> Seq(Up)] /\ UNCHANGED <<bgot, for, lid, lsent, agent, conn, browser>>
  BY DEF TakeFacts, ReceiveFacts, OrderInv, TypeInv, TypeOK
<1> QED  BY <1>1, UpOrderSame

\* An open or a close: no message is taken.
LEMMA TakeControl ==
  ASSUME NEW c \in Conn, NEW m, NEW q, TakeFacts(c, m, q), m.type # "data", UNCHANGED for,
         \A l \in Local : (Usable(l))' => Usable(l) /\ (Accepted(l))' = Accepted(l)
  PROVE  DownOrder'
<1>1. /\ DownOrder /\ TypeOK /\ down' \in [Conn -> Seq(Down)]
      /\ UNCHANGED <<browser, bid, bsent, agent, conn>>
      /\ q \in Seq(Down) /\ q # <<>> /\ m = Head(q) /\ down'[c] = Tail(q) /\ down[c] = q /\ agent = c
      /\ Rising(Tail(q)) /\ OpenFirst(Tail(q)) /\ Elements(Tail(q)) \subseteq Elements(q)
  BY DEF TakeFacts, ReceiveFacts, OrderInv, TypeInv, TypeOK
<1>2. \A x : Numbers(Tail(q), x) = Numbers(q, x)
  BY <1>1, TakenOrder
<1> QED  BY <1>1, <1>2, DownOrderKept

\* A message is taken: the socket it is for has one more, if it is still usable.
LEMMA TakeData ==
  ASSUME NEW c \in Conn, NEW m, NEW q, TakeFacts(c, m, q), m.type = "data", UNCHANGED for,
         \A l \in Local : (Usable(l))' =>
           /\ Usable(l)
           /\ (Accepted(l))' = IF for[l] = m.data[1] THEN Accepted(l) + 1 ELSE Accepted(l)
  PROVE  /\ DownOrder'
         /\ \A l \in Local : Usable(l) /\ for[l] = m.data[1] => m.data[2] = Accepted(l) + 1
<1> USE DEF TakeFacts, ReceiveFacts, OrderInv, TypeInv
<1>1. PICK b \in Browser : b = m.data[1]
  BY DownKinds DEF FromBrowser
<1>2. PICK n \in Nat : n = m.data[2]
  BY DownKinds DEF FromBrowser, Number
<1>3. n <= bsent[b] /\ bsent[b] \in Nat
  <2>1. bsent[b] \in 0 .. MaxSent
    BY DEF TypeOK
  <2> QED  BY <1>1, <1>2, <2>1 DEF DownFrame
<1>4. PICK N \in SUBSET Nat : N = Numbers(Tail(q), b)
  <2>1. Numbers(down'[c], b) \in SUBSET Nat
    <3>1. \A f \in Elements(Tail(q)) : f.type = "data" => f.data[2] \in Nat
      <4> TAKE f \in Elements(Tail(q))
      <4>1. f \in Down
        BY ElementsTyped
      <4> QED  BY <4>1, DownKinds DEF FromBrowser, Number
    <3> QED  BY <3>1 DEF Numbers
  <2> QED  BY <2>1
<1>5. /\ Numbers(q, b) = N \cup {n}
      /\ \A x : x # b => Numbers(Tail(q), x) = Numbers(q, x)
      /\ \A i \in N : n < i
      /\ \A f \in Elements(Tail(q)) : f.type = "open" => f.data # b
  BY <1>1, <1>2, <1>4, TakenOrder DEF DownOrder
<1>6. ASSUME NEW k \in Nat, InStep(b, k)
      PROVE  /\ n = k + 1 /\ Gapless(N, k + 1)
             /\ conn[c] = "open" => Reaches(N, k + 1, bsent[b])
  <2>1. Gapless(N \cup {n}, k) /\ (conn[c] = "open" => Reaches(N \cup {n}, k, bsent[b]))
    BY <1>5, <1>6 DEF InStep
  <2>2. /\ n = k + 1 /\ Gapless(N, n)
        /\ \A s : Reaches(N \cup {n}, k, s) /\ s \in Nat /\ s >= n => Reaches(N, n, s)
    BY <1>5, <2>1, GaplessTaken
  <2> QED  BY <1>3, <2>1, <2>2
<1>7. \A l \in Local : Usable(l) => Accepted(l) \in Nat /\ InStep(for[l], Accepted(l))
  BY AcceptedNat DEF DownOrder
<1>8. \A l \in Local : Usable(l) /\ for[l] = b =>
        /\ n = Accepted(l) + 1 /\ Gapless(N, Accepted(l) + 1)
        /\ conn[c] = "open" => Reaches(N, Accepted(l) + 1, bsent[b])
  BY <1>6, <1>7
<1>9. DownOrder'
  <2>1. /\ agent' = c /\ down'[c] = Tail(q) /\ conn' = conn /\ bsent' = bsent /\ for' = for
        /\ Rising(Tail(q)) /\ OpenFirst(Tail(q))
    OBVIOUS
  <2>2. \A f \in Elements(Tail(q)) : (DownFrame(f))'
    <3> TAKE f \in Elements(Tail(q))
    <3>1. DownFrame(f)
      BY DEF DownOrder
    <3> QED  BY <3>1 DEF DownFrame
  <2>3. ASSUME NEW x, x # b, NEW k, InStep(x, k)
        PROVE  /\ Gapless(Numbers(Tail(q), x), k)
               /\ conn[c] = "open" => Reaches(Numbers(Tail(q), x), k, bsent[x])
    BY <1>5, <2>3 DEF InStep
  <2>4. ASSUME NEW f \in Elements(Tail(q)), f.type = "open"
        PROVE  /\ Gapless(Numbers(Tail(q), f.data), 0)
               /\ conn[c] = "open" => Reaches(Numbers(Tail(q), f.data), 0, bsent[f.data])
    <3>1. InStep(f.data, 0) /\ f.data # b
      BY <1>5, <2>4 DEF DownOrder
    <3> QED  BY <2>3, <3>1
  <2>5. ASSUME NEW l \in Local, (Usable(l))'
        PROVE  /\ Gapless(Numbers(Tail(q), for[l]), (Accepted(l))')
               /\ conn[c] = "open" => Reaches(Numbers(Tail(q), for[l]), (Accepted(l))', bsent[for[l]])
    <3>1. Usable(l)
      BY <2>5
    <3>2. CASE for[l] = b
      BY <1>1, <1>4, <1>8, <2>5, <3>1, <3>2
    <3>3. CASE for[l] # b
      BY <1>1, <1>7, <2>3, <2>5, <3>1, <3>3
    <3> QED  BY <3>2, <3>3
  <2> QED  BY <2>1, <2>2, <2>4, <2>5 DEF DownOrder, InStep
<1> QED  BY <1>1, <1>2, <1>8, <1>9

LEMMA OpenNewOrder ==
  ASSUME NEW c \in Conn, NEW m, NEW q, TakeFacts(c, m, q), m.type = "open",
         NEW l \in Local, local[l] = "unused", local' = [local EXCEPT ![l] = "connecting"],
         lid' = [lid EXCEPT ![l] = m.id], for' = [for EXCEPT ![l] = m.data],
         act' = [act EXCEPT ![m.id] = l], UNCHANGED <<pend, lgot, up>>
  PROVE  OrderInv'
<1> USE DEF TakeFacts, ReceiveFacts, OrderInv, TypeInv
<1>1. /\ \A k \in Local : local'[k] = IF k = l THEN "connecting" ELSE local[k]
      /\ \A k \in Local : lid'[k] = IF k = l THEN m.id ELSE lid[k]
      /\ \A k \in Local : for'[k] = IF k = l THEN m.data ELSE for[k]
  BY DEF TypeOK
<1>2. /\ m.data \in Browser /\ browser[m.data] # "new" /\ bid[m.data] = m.id
      /\ \A k \in Local : for[k] # m.data
      /\ m.id \in Id /\ OpenFits(m)
  BY DownKinds DEF DownFrame, FrameFits
<1>3. lsent[l] = 0 /\ lgot[l] = <<>> /\ bgot[m.data] = <<>> /\ pend[m.id] = <<>>
  <2>1. lsent[l] = 0 /\ lgot[l] = <<>>
    BY DEF PairInv, ChannelInv, GotInv
  <2>2. bgot[m.data] = <<>>
    <3>1. \A n \in DOMAIN bgot[m.data] : FALSE
      BY <1>2, Senders DEF ChannelInv, GotInv
    <3>2. PICK g \in Seq(FromLocal) : g = bgot[m.data]
      BY <1>2 DEF TypeOK
    <3>3. Len(g) = 0
      <4>1. Len(g) \in Nat /\ DOMAIN g = 1 .. Len(g)
        BY Domain
      <4>2. 1 \notin DOMAIN g
        BY <3>1, <3>2
      <4> QED  BY ONLY <4>1, <4>2
    <3> QED  BY <3>2, <3>3
  <2>3. pend[m.id] = <<>>
    <3>1. \A n \in DOMAIN pend[m.id] : FALSE
      BY <1>2 DEF ChannelInv, LocalInv, PendFits, OpenFits, LiveL
    <3>2. PICK g \in Seq(FromBrowser) : g = pend[m.id]
      BY <1>2 DEF TypeOK
    <3>3. Len(g) = 0
      <4>1. Len(g) \in Nat /\ DOMAIN g = 1 .. Len(g)
        BY Domain
      <4>2. 1 \notin DOMAIN g
        BY <3>1, <3>2
      <4> QED  BY ONLY <4>1, <4>2
    <3> QED  BY <3>2, <3>3
  <2> QED  BY <2>1, <2>2, <2>3
<1>4. PairInv'
  <2>1. \A k \in Local :
          /\ local'[k] = "unused" => for'[k] = None /\ lsent[k] = 0
          /\ local'[k] # "unused" => /\ for'[k] \in Browser /\ browser[for'[k]] # "new"
                                     /\ lid'[k] = bid[for'[k]]
    BY <1>1, <1>2 DEF PairInv
  <2>2. \A j, k \in Local : for'[j] = for'[k] /\ for'[j] # None => j = k
    BY <1>1, <1>2 DEF PairInv
  <2> QED  BY <2>1, <2>2 DEF PairInv
<1>5. LocalOrder'
  <2> SUFFICES ASSUME NEW k \in Local
               PROVE  /\ \A n \in DOMAIN lgot[k] : lgot[k][n] = <<for'[k], n>>
                      /\ local'[k] = "connecting" =>
                           lgot[k] = <<>> /\ \A n \in DOMAIN pend[lid'[k]] : pend[lid'[k]][n] = <<for'[k], n>>
                      /\ local'[k] = "open" => pend[lid'[k]] = <<>>
    BY DEF LocalOrder
  <2>1. CASE k = l
    <3>1. local'[k] = "connecting" /\ lid'[k] = m.id
      BY <1>1, <2>1
    <3> QED  BY <1>3, <2>1, <3>1
  <2>2. CASE k # l
    <3>1. local'[k] = local[k] /\ lid'[k] = lid[k] /\ for'[k] = for[k]
      BY <1>1, <2>2
    <3>2. /\ \A n \in DOMAIN lgot[k] : lgot[k][n] = <<for[k], n>>
          /\ local[k] = "connecting" =>
               lgot[k] = <<>> /\ \A n \in DOMAIN pend[lid[k]] : pend[lid[k]][n] = <<for[k], n>>
          /\ local[k] = "open" => pend[lid[k]] = <<>>
      BY DEF LocalOrder
    <3> QED  BY <3>1, <3>2
  <2> QED  BY <2>1, <2>2
<1>6. UpOrder'
  <2>1. \A d \in Conn : \A f \in Elements(up[d]) : f.type = "data" => f.data[1] \in Local /\ f.data[1] # l
    <3> TAKE d \in Conn
    <3> TAKE f \in Elements(up[d])
    <3>1. f \in Up /\ UpFrame(f)
      BY ElementsTyped DEF TypeOK, UpOrder
    <3> QED  BY <3>1, UpKinds DEF FromLocal, UpFrame
  <2>2. \A d \in Conn : Numbers(up[d], l) = {}
    BY <2>1, NumbersIs
  <2>3. \A d \in Conn : Rising(up[d]) /\ \A f \in Elements(up[d]) : (UpFrame(f))'
    BY <1>1, <2>1 DEF UpOrder, UpFrame
  <2>4. \A k \in Local, d \in Conn : agent' # None /\ (Sending(k))' /\ Numbers(up[d], k) # {} => d = agent'
    BY <1>1, <2>2 DEF UpOrder, Sending
  <2>5. ASSUME NEW k \in Local, local'[k] # "unused", browser[for'[k]] = "open"
        PROVE  /\ \A d \in Conn : Linked(d) => Gapless(Numbers(up[d], k), Len(bgot[for'[k]]))
               /\ Linked(c) /\ (Sending(k))' => Reaches(Numbers(up[c], k), Len(bgot[for'[k]]), lsent[k])
    <3>1. CASE k = l
      <4>1. Len(bgot[for'[k]]) = 0 /\ lsent[k] = 0
        BY <1>1, <1>3, <3>1
      <4> QED  BY <2>2, <3>1, <4>1, GaplessNone DEF Reaches
    <3>2. CASE k # l
      <4>1. local'[k] = local[k] /\ for'[k] = for[k]
        BY <1>1, <3>2
      <4> QED  BY <2>5, <4>1 DEF UpOrder, Sending
    <3> QED  BY <3>1, <3>2
  <2>6. /\ \A d \in Conn : (Linked(d))' <=> Linked(d)
        /\ (Linked(agent))' <=> Linked(c)
    BY DEF Linked
  <2> QED  BY <2>3, <2>4, <2>5, <2>6 DEF UpOrder
<1>7. DownOrder'
  <2>1. \A x : Numbers(Tail(q), x) = Numbers(q, x)
    BY TakenOrder
  <2>2. \A f \in Elements(Tail(q)) : f.type = "open" => f.data # m.data
    <3> TAKE f \in Elements(Tail(q))
    <3>1. f.type = "open" => f.id # m.id /\ DownFrame(f)
      BY Taken DEF DownOrder
    <3> QED  BY <1>2, <3>1 DEF DownFrame
  <2>3. \A f \in Elements(Tail(q)) : (DownFrame(f))'
    <3> TAKE f \in Elements(Tail(q))
    <3>1. DownFrame(f)
      BY DEF DownOrder
    <3> QED  BY <1>1, <2>2, <3>1 DEF DownFrame
  <2>4. ASSUME NEW x, NEW k, InStep(x, k)
        PROVE  /\ Gapless(Numbers(Tail(q), x), k)
               /\ conn[c] = "open" => Reaches(Numbers(Tail(q), x), k, bsent[x])
    BY <2>1, <2>4 DEF InStep
  <2>5. \A f \in Elements(Tail(q)) : f.type = "open" =>
          /\ Gapless(Numbers(Tail(q), f.data), 0)
          /\ conn[c] = "open" => Reaches(Numbers(Tail(q), f.data), 0, bsent[f.data])
    BY <2>4 DEF DownOrder
  <2>6. ASSUME NEW k \in Local, (Usable(k))'
        PROVE  /\ Gapless(Numbers(Tail(q), for'[k]), (Accepted(k))')
               /\ conn[c] = "open" => Reaches(Numbers(Tail(q), for'[k]), (Accepted(k))', bsent[for'[k]])
    <3>1. CASE k = l
      <4>1. (Accepted(k))' = 0 /\ for'[k] = m.data
        <5>1. (Accepted(k))' = Len(lgot'[k]) + Len(pend'[lid'[k]])
          BY DEF Accepted
        <5>2. lgot'[k] = <<>> /\ pend'[lid'[k]] = <<>> /\ for'[k] = m.data
          BY <1>1, <1>3, <3>1
        <5> QED  BY <5>1, <5>2
      <4>2. InStep(m.data, 0)
        BY DEF DownOrder
      <4> QED  BY <2>4, <4>1, <4>2
    <3>2. CASE k # l
      <4>1. (Accepted(k))' = Accepted(k) /\ for'[k] = for[k] /\ Usable(k)
        BY <1>1, <2>6, <3>2 DEF Accepted, Usable
      <4>2. InStep(for[k], Accepted(k))
        BY <4>1 DEF DownOrder
      <4> QED  BY <2>4, <4>1, <4>2
    <3> QED  BY <3>1, <3>2
  <2> QED  BY <2>3, <2>5, <2>6 DEF DownOrder, InStep
<1> QED  BY <1>4, <1>5, <1>6, <1>7

LEMMA OpenRefusedOrder ==
  ASSUME NEW c \in Conn, NEW m, NEW q, TakeFacts(c, m, q), m.type = "open",
         SendUp(<<Control("error", m.id)>>), UNCHANGED <<agentVars, lgot>>
  PROVE  OrderInv'
<1>1. UNCHANGED <<act, pend, local, lid, for, lgot>> /\ m.id \in Id
  BY DownKinds DEF agentVars, TakeFacts, ReceiveFacts
<1>2. SameUp
  BY <1>1, OneUp DEF TakeFacts, TypeInv, OrderInv
<1>3. LocalOrder'
  BY <1>1, LocalOrderKept DEF TakeFacts, OrderInv
<1>4. UpOrder'
  BY <1>1, <1>2, TakeUp DEF Sending
<1>5. DownOrder'
  BY <1>1, TakeControl DEF Usable, Accepted
<1> QED  BY <1>1, <1>3, <1>4, <1>5, TakePair DEF OrderInv

\* Closing localhost sockets: none starts to send or to wait.
LEMMA LocalsClosing ==
  ASSUME TypeOK, NEW L, CloseLocals(L)
  PROVE  \A l \in Local : /\ (Sending(l))' => Sending(l)
                          /\ local'[l] = "unused" <=> local[l] = "unused"
                          /\ local'[l] \in {"connecting", "open"} => local'[l] = local[l] /\ l \notin L
BY DEF CloseLocals, Sending, TypeOK

LEMMA CloseChannelOrder ==
  ASSUME NEW c \in Conn, NEW m, NEW q, TakeFacts(c, m, q), m.type = "close", CloseChannel(m)
  PROVE  OrderInv'
<1>1. /\ UNCHANGED <<pend, lid, for, lgot>> /\ m.id \in Id
      /\ CloseLocals({act[m.id]}) /\ SendUp(<<Control("closed", m.id)>>)
  BY DownKinds DEF CloseChannel, TakeFacts, ReceiveFacts
<1>2. TypeOK /\ UpOrder /\ LocalOrder
  BY DEF TakeFacts, TypeInv, OrderInv
<1>3. SameUp
  BY <1>1, <1>2, OneUp
<1>4. LocalOrder'
  BY <1>1, <1>2, LocalsClosing, LocalOrderKept
<1>5. UpOrder'
  BY <1>1, <1>2, <1>3, LocalsClosing, TakeUp
<1>6. DownOrder'
  <2>1. \A l \in Local : (Usable(l))' => Usable(l) /\ (Accepted(l))' = Accepted(l)
    BY <1>1, <1>2, LocalsClosing DEF Usable, Accepted
  <2> QED  BY <1>1, <2>1, TakeControl
<1>7. PairInv'
  BY <1>1, <1>2, LocalsClosing, TakePair
<1> QED  BY <1>4, <1>5, <1>6, <1>7 DEF OrderInv

LEMMA AcceptedSame ==
  ASSUME NEW l, lgot'[l] = lgot[l], lid'[l] = lid[l], pend'[lid[l]] = pend[lid[l]]
  PROVE  (Accepted(l))' = Accepted(l)
BY DEF Accepted

LEMMA AcceptedMore ==
  ASSUME NEW l, NEW n \in Nat, lid'[l] = lid[l],
         \/ /\ Len(lgot[l]) = n /\ Len(lgot'[l]) = n + 1
            /\ pend[lid[l]] = <<>> /\ pend'[lid[l]] = <<>>
         \/ /\ lgot[l] = <<>> /\ lgot'[l] = <<>>
            /\ Len(pend[lid[l]]) = n /\ Len(pend'[lid[l]]) = n + 1
  PROVE  Accepted(l) = n /\ (Accepted(l))' = Accepted(l) + 1
<1>1. /\ Accepted(l) = Len(lgot[l]) + Len(pend[lid[l]])
      /\ (Accepted(l))' = Len(lgot'[l]) + Len(pend'[lid[l]])
  BY DEF Accepted
<1>2. Len(<<>>) = 0
  OBVIOUS
<1>3. CASE /\ Len(lgot[l]) = n /\ Len(lgot'[l]) = n + 1
           /\ pend[lid[l]] = <<>> /\ pend'[lid[l]] = <<>>
  BY <1>1, <1>2, <1>3
<1>4. CASE /\ lgot[l] = <<>> /\ lgot'[l] = <<>>
           /\ Len(pend[lid[l]]) = n /\ Len(pend'[lid[l]]) = n + 1
  BY <1>1, <1>2, <1>4
<1> QED  BY <1>3, <1>4

\* The socket a message is for is the one opened for its sender.
LEMMA DataFor ==
  ASSUME NEW c \in Conn, NEW m, NEW q, TakeFacts(c, m, q), m.type = "data"
  PROVE  /\ m.id \in Id /\ m.data \in FromBrowser
         /\ act[m.id] # None =>
              /\ act[m.id] \in Local /\ Usable(act[m.id]) /\ lid[act[m.id]] = m.id
              /\ for[act[m.id]] = m.data[1]
         /\ \A k \in Local : Usable(k) /\ k # act[m.id] => lid[k] # m.id /\ for[k] # m.data[1]
<1> USE DEF TakeFacts, ReceiveFacts, OrderInv, TypeInv, ChannelInv
<1>1. m.id \in Id /\ m.data \in FromBrowser /\ m.data[1] \in Browser
  BY DownKinds DEF FromBrowser
<1>2. act[m.id] # None =>
        act[m.id] \in Local /\ Usable(act[m.id]) /\ lid[act[m.id]] = m.id /\ for[act[m.id]] = m.data[1]
  BY <1>1, SMTT(20) DEF TypeOK, LocalInv, FrameFits, DataFits, Usable, LiveL
<1>3. \A k \in Local : Usable(k) /\ k # act[m.id] => lid[k] # m.id
  BY DEF LocalInv
<1>4. \A k \in Local : Usable(k) /\ for[k] = m.data[1] => lid[k] = m.id
  BY DEF PairInv, DownFrame, Usable
<1> QED  BY <1>1, <1>2, <1>3, <1>4

LEMMA PassOrder ==
  ASSUME NEW c \in Conn, NEW m, NEW q, TakeFacts(c, m, q), m.type = "data",
         NEW l, l = act[m.id], l # None, local[l] = "open", Pass(l, m)
  PROVE  OrderInv'
<1>0. TypeOK /\ IdsInv /\ LocalOrder /\ UpOrder
  BY DEF TakeFacts, OrderInv, TypeInv
<1>1. /\ UNCHANGED <<act, pend, local, lid, for, up>> /\ lgot' = [lgot EXCEPT ![l] = Append(@, m.data)]
      /\ l \in Local /\ lid[l] = m.id /\ for[l] = m.data[1] /\ m.data \in FromBrowser
      /\ \A k \in Local : Usable(k) /\ k # l => for[k] # m.data[1]
  BY DataFor DEF Pass, agentVars
<1>2. PICK g \in Seq(FromBrowser) : g = lgot[l]
  BY <1>0, <1>1 DEF TypeOK
<1>3. /\ lgot'[l] = Append(g, m.data)
      /\ \A k \in Local : k # l => lgot'[k] = lgot[k]
  BY <1>0, <1>1, <1>2 DEF TypeOK
<1>4. Len(g) \in Nat /\ Len(lgot'[l]) = Len(g) + 1 /\ pend[lid[l]] = <<>>
  <2>1. pend[lid[l]] = <<>>
    BY <1>0, <1>1 DEF LocalOrder
  <2>2. Len(Append(g, m.data)) = Len(g) + 1 /\ Len(g) \in Nat
    BY <1>1
  <2> QED  BY <1>3, <2>1, <2>2
<1>5. (Accepted(l))' = Accepted(l) + 1 /\ Accepted(l) = Len(g)
  <2>1. PICK n \in Nat : n = Len(g)
    BY <1>4
  <2>2. /\ lid'[l] = lid[l] /\ Len(lgot[l]) = n /\ Len(lgot'[l]) = n + 1
        /\ pend[lid[l]] = <<>> /\ pend'[lid[l]] = <<>>
    BY <1>1, <1>2, <1>4, <2>1
  <2> QED  BY <2>1, <2>2, AcceptedMore
<1>6. \A k \in Local : (Usable(k))' =>
        /\ Usable(k)
        /\ (Accepted(k))' = IF for[k] = m.data[1] THEN Accepted(k) + 1 ELSE Accepted(k)
  <2> SUFFICES ASSUME NEW k \in Local, Usable(k)
               PROVE  (Accepted(k))' = IF for[k] = m.data[1] THEN Accepted(k) + 1 ELSE Accepted(k)
    BY <1>1 DEF Usable
  <2>1. CASE k = l
    BY <1>1, <1>5, <2>1
  <2>2. CASE k # l
    BY <1>1, <1>3, <2>2, AcceptedSame
  <2> QED  BY <2>1, <2>2
<1>7. DownOrder' /\ m.data[2] = Len(g) + 1
  <2>1. DownOrder' /\ \A k \in Local : Usable(k) /\ for[k] = m.data[1] => m.data[2] = Accepted(k) + 1
    BY <1>1, <1>6, TakeData
  <2> QED  BY <1>1, <1>5, <2>1 DEF Usable
<1>8. UpOrder'
  BY <1>0, <1>1, UpSame, TakeUp DEF Sending
<1>9. LocalOrder'
  <2>1. \A n \in DOMAIN g : g[n] = <<for[l], n>>
    BY <1>0, <1>1, <1>2 DEF LocalOrder
  <2>2. m.data = <<for[l], Len(g) + 1>>
    BY <1>1, <1>7 DEF FromBrowser
  <2>3. \A n \in DOMAIN Append(g, m.data) : Append(g, m.data)[n] = <<for[l], n>>
    BY <1>1, <2>1, <2>2, AppendAt
  <2>4. \A k \in Local : \A n \in DOMAIN lgot'[k] : lgot'[k][n] = <<for'[k], n>>
    <3> TAKE k \in Local
    <3>1. CASE k = l
      <4>1. lgot'[k] = Append(g, m.data) /\ for'[k] = for[l]
        BY <1>1, <1>3, <3>1
      <4> QED  BY ONLY <2>3, <4>1
    <3>2. CASE k # l
      <4>1. lgot'[k] = lgot[k] /\ for'[k] = for[k]
        BY <1>1, <1>3, <3>2
      <4>2. \A n \in DOMAIN lgot[k] : lgot[k][n] = <<for[k], n>>
        BY <1>0 DEF LocalOrder
      <4> QED  BY ONLY <4>1, <4>2
    <3> QED  BY <3>1, <3>2
  <2>5. \A k \in Local : local[k] = "connecting" =>
          lgot'[k] = <<>> /\ \A n \in DOMAIN pend[lid[k]] : pend[lid[k]][n] = <<for[k], n>>
    BY <1>0, <1>3 DEF LocalOrder
  <2>6. \A k \in Local : local[k] = "open" => pend[lid[k]] = <<>>
    BY <1>0 DEF LocalOrder
  <2> QED  BY <1>0, <1>1, <2>4, <2>5, <2>6 DEF LocalOrder
<1> QED  BY <1>1, <1>7, <1>8, <1>9, TakePair DEF OrderInv

LEMMA BufferOrder ==
  ASSUME NEW c \in Conn, NEW m, NEW q, TakeFacts(c, m, q), m.type = "data",
         NEW l, l = act[m.id], l # None, local[l] = "connecting", Buffer(m)
  PROVE  OrderInv'
<1>0. TypeOK /\ IdsInv /\ LocalOrder /\ UpOrder
  BY DEF TakeFacts, OrderInv, TypeInv
<1>1. /\ UNCHANGED <<act, local, lid, for, lgot, up>> /\ pend' = [pend EXCEPT ![m.id] = Append(@, m.data)]
      /\ l \in Local /\ lid[l] = m.id /\ m.id \in Id /\ for[l] = m.data[1] /\ m.data \in FromBrowser
      /\ \A k \in Local : Usable(k) /\ k # l => lid[k] # m.id /\ for[k] # m.data[1]
      /\ \A k \in Local : Usable(k) => lid[k] \in Id
  BY <1>0, DataFor DEF Buffer, IdsInv, Usable, LiveL
<1>2. PICK g \in Seq(FromBrowser) : g = pend[m.id]
  BY <1>0, <1>1 DEF TypeOK
<1>3. /\ pend'[m.id] = Append(g, m.data)
      /\ \A k \in Local : Usable(k) /\ k # l => pend'[lid[k]] = pend[lid[k]]
  BY <1>0, <1>1, <1>2 DEF TypeOK
<1>4. Len(g) \in Nat /\ Len(pend'[m.id]) = Len(g) + 1 /\ lgot[l] = <<>>
  <2>1. lgot[l] = <<>>
    BY <1>0, <1>1 DEF LocalOrder
  <2>2. Len(Append(g, m.data)) = Len(g) + 1 /\ Len(g) \in Nat
    BY <1>1
  <2> QED  BY <1>3, <2>1, <2>2
<1>5. (Accepted(l))' = Accepted(l) + 1 /\ Accepted(l) = Len(g)
  <2>1. PICK n \in Nat : n = Len(g)
    BY <1>4
  <2>2. lid'[l] = lid[l] /\ lgot[l] = <<>> /\ lgot'[l] = <<>>
    BY <1>1, <1>4
  <2>3. Len(pend[lid[l]]) = n /\ Len(pend'[lid[l]]) = n + 1
    BY <1>1, <1>2, <1>4, <2>1
  <2>4. Accepted(l) = n /\ (Accepted(l))' = Accepted(l) + 1
    BY ONLY <2>1, <2>2, <2>3, AcceptedMore
  <2> QED  BY <2>1, <2>4
<1>6. \A k \in Local : (Usable(k))' =>
        /\ Usable(k)
        /\ (Accepted(k))' = IF for[k] = m.data[1] THEN Accepted(k) + 1 ELSE Accepted(k)
  <2> SUFFICES ASSUME NEW k \in Local, Usable(k)
               PROVE  (Accepted(k))' = IF for[k] = m.data[1] THEN Accepted(k) + 1 ELSE Accepted(k)
    BY <1>1 DEF Usable
  <2>1. CASE k = l
    BY <1>1, <1>5, <2>1
  <2>2. CASE k # l
    BY <1>1, <1>3, <2>2, AcceptedSame
  <2> QED  BY <2>1, <2>2
<1>7. DownOrder' /\ m.data[2] = Len(g) + 1
  <2>1. DownOrder' /\ \A k \in Local : Usable(k) /\ for[k] = m.data[1] => m.data[2] = Accepted(k) + 1
    BY <1>1, <1>6, TakeData
  <2> QED  BY <1>1, <1>5, <2>1 DEF Usable
<1>8. UpOrder'
  BY <1>0, <1>1, UpSame, TakeUp DEF Sending
<1>9. LocalOrder'
  <2>1. \A n \in DOMAIN g : g[n] = <<for[l], n>>
    <3>1. \A n \in DOMAIN pend[lid[l]] : pend[lid[l]][n] = <<for[l], n>>
      BY <1>0, <1>1 DEF LocalOrder
    <3> QED  BY <1>1, <1>2, <3>1
  <2>2. m.data = <<for[l], Len(g) + 1>>
    BY <1>1, <1>7 DEF FromBrowser
  <2>3. \A n \in DOMAIN Append(g, m.data) : Append(g, m.data)[n] = <<for[l], n>>
    BY <1>1, <2>1, <2>2, AppendAt
  <2>4. \A k \in Local : \A n \in DOMAIN lgot[k] : lgot[k][n] = <<for[k], n>>
    BY <1>0 DEF LocalOrder
  <2>5. \A k \in Local : local[k] = "connecting" =>
          lgot[k] = <<>> /\ \A n \in DOMAIN pend'[lid[k]] : pend'[lid[k]][n] = <<for[k], n>>
    <3> TAKE k \in Local
    <3> HAVE local[k] = "connecting"
    <3>1. CASE k = l
      BY <1>1, <1>3, <1>4, <2>3, <3>1
    <3>2. CASE k # l
      <4>1. lgot[k] = <<>> /\ \A n \in DOMAIN pend[lid[k]] : pend[lid[k]][n] = <<for[k], n>>
        BY <1>0 DEF LocalOrder
      <4>2. pend'[lid[k]] = pend[lid[k]]
        BY <1>3, <3>2 DEF Usable
      <4> QED  BY <1>1, <4>1, <4>2
    <3> QED  BY <3>1, <3>2
  <2>6. \A k \in Local : local[k] = "open" => pend'[lid[k]] = <<>>
    BY <1>0, <1>3 DEF LocalOrder, Usable
  <2>7. lgot' = lgot /\ lid' = lid /\ for' = for /\ local' = local
    BY <1>1
  <2> QED  BY <2>4, <2>5, <2>6, <2>7 DEF LocalOrder
<1> QED  BY <1>1, <1>7, <1>8, <1>9, TakePair DEF OrderInv

LEMMA OverflowOrder ==
  ASSUME NEW c \in Conn, NEW m, NEW q, TakeFacts(c, m, q), m.type = "data",
         NEW l, l = act[m.id], l # None, Overflow(l, m)
  PROVE  OrderInv'
<1>0. TypeOK /\ IdsInv /\ LocalOrder /\ UpOrder
  BY DEF TakeFacts, OrderInv, TypeInv
<1>1. /\ UNCHANGED <<lid, for, lgot>> /\ pend' = [pend EXCEPT ![m.id] = <<>>]
      /\ CloseLocals({l}) /\ SendUp(<<Control("error", m.id)>>)
      /\ l \in Local /\ lid[l] = m.id /\ m.id \in Id /\ for[l] = m.data[1]
      /\ \A k \in Local : Usable(k) /\ k # l => lid[k] # m.id /\ for[k] # m.data[1]
      /\ \A k \in Local : Usable(k) => lid[k] \in Id
  BY <1>0, DataFor DEF Overflow, IdsInv, Usable, LiveL
<1>2. \A k \in Local : (Usable(k))' => /\ Usable(k) /\ k # l /\ local'[k] = local[k]
                                       /\ pend'[lid[k]] = pend[lid[k]]
  <2>1. \A k \in Local : (Usable(k))' => Usable(k) /\ k # l /\ local'[k] = local[k]
    BY <1>0, <1>1, LocalsClosing DEF Usable
  <2> QED  BY <1>0, <1>1, <2>1 DEF TypeOK
<1>3. SameUp
  BY <1>0, <1>1, OneUp
<1>4. LocalOrder'
  BY <1>0, <1>1, <1>2, LocalOrderKept DEF Usable
<1>5. UpOrder'
  BY <1>0, <1>1, <1>3, LocalsClosing, TakeUp
<1>6. DownOrder'
  <2>1. \A k \in Local : (Usable(k))' =>
          /\ Usable(k)
          /\ (Accepted(k))' = IF for[k] = m.data[1] THEN Accepted(k) + 1 ELSE Accepted(k)
    BY <1>1, <1>2, AcceptedSame
  <2> QED  BY <1>1, <2>1, TakeData
<1>7. PairInv'
  BY <1>0, <1>1, LocalsClosing, TakePair
<1> QED  BY <1>4, <1>5, <1>6, <1>7 DEF OrderInv

\* A message for a channel that has gone: no usable socket was opened for its sender.
LEMMA DroppedOrder ==
  ASSUME NEW c \in Conn, NEW m, NEW q, TakeFacts(c, m, q), m.type = "data",
         act[m.id] = None \/ local[act[m.id]] \notin {"open", "connecting"},
         UNCHANGED <<agentVars, lgot, up>>
  PROVE  OrderInv'
<1>0. TypeOK /\ IdsInv /\ LocalOrder /\ UpOrder
  BY DEF TakeFacts, OrderInv, TypeInv
<1>1. /\ UNCHANGED <<act, pend, local, lid, for, lgot, up>>
      /\ \A k \in Local : Usable(k) => for[k] # m.data[1]
  BY DataFor DEF agentVars, Usable
<1>2. LocalOrder'
  BY <1>0, <1>1, LocalOrderKept
<1>3. UpOrder'
  BY <1>0, <1>1, UpSame, TakeUp DEF Sending
<1>4. DownOrder'
  <2>1. \A k \in Local : (Usable(k))' =>
          /\ Usable(k)
          /\ (Accepted(k))' = IF for[k] = m.data[1] THEN Accepted(k) + 1 ELSE Accepted(k)
    BY <1>1 DEF Usable, Accepted
  <2> QED  BY <1>1, <2>1, TakeData
<1> QED  BY <1>1, <1>2, <1>3, <1>4, TakePair DEF OrderInv

LEMMA AgentReceivesOrder ==
  ASSUME TypeInv, TypeInv', ChannelInv, OrderInv, NEW c \in Conn, AgentReceives(c)
  PROVE  OrderInv'
<1>1. PICK m : m = Head(down[c])
  OBVIOUS
<1>2. PICK q : TakeFacts(c, m, q)
  BY <1>1, TakeHolds
<1>3. \/ m.type = "open" /\ OpenChannel(m)
      \/ m.type = "close" /\ CloseChannel(m)
      \/ m.type = "data" /\ ForwardChannelData(m)
  BY <1>1 DEF AgentReceives
<1>4. ASSUME m.type = "open", OpenChannel(m) PROVE OrderInv'
  BY <1>2, <1>4, OpenNewOrder, OpenRefusedOrder DEF OpenChannel
<1>5. ASSUME m.type = "data", ForwardChannelData(m) PROVE OrderInv'
  BY <1>2, <1>5, PassOrder, BufferOrder, OverflowOrder, DroppedOrder DEF ForwardChannelData
<1> QED  BY <1>2, <1>3, <1>4, <1>5, CloseChannelOrder

LEMMA LocalOpenOrder ==
  ASSUME TypeInv, TypeInv', ChannelInv, OrderInv, NEW l \in Local, LocalOpen(l)
  PROVE  OrderInv'
<1>0. TypeOK /\ IdsInv /\ LocalOrder /\ UpOrder /\ DownOrder /\ PairInv /\ LocalInv
      /\ up' \in [Conn -> Seq(Up)] /\ down' \in [Conn -> Seq(Down)]
  BY DEF OrderInv, TypeInv, ChannelInv, TypeOK
<1>1. /\ UNCHANGED <<browser, bid, lid, for, agent, ws, conn, down, bsent, lsent, bgot>>
      /\ local[l] = "connecting" /\ local' = [local EXCEPT ![l] = "open"]
      /\ SendUp(<<Control("opened", lid[l])>>)
      /\ lgot' = [lgot EXCEPT ![l] = @ \o pend[lid[l]]]
      /\ pend' = [pend EXCEPT ![lid[l]] = <<>>]
  BY DEF LocalOpen, gatewayVars, connVars
<1>2. lid[l] \in Id /\ LiveL(l)
  BY <1>0, <1>1 DEF LiveL, IdsInv
<1>3. /\ local'[l] = "open" /\ pend'[lid[l]] = <<>>
      /\ \A k \in Local : k # l => local'[k] = local[k] /\ lgot'[k] = lgot[k]
      /\ \A k \in Local : Usable(k) /\ k # l => pend'[lid[k]] = pend[lid[k]]
  <2>1. \A k \in Local : Usable(k) /\ k # l => lid[k] # lid[l] /\ lid[k] \in Id
    BY <1>0, <1>2 DEF LocalInv, IdsInv, Usable, LiveL
  <2> QED  BY <1>0, <1>1, <1>2, <2>1 DEF TypeOK
<1>4. PICK g \in Seq(FromBrowser) : g = pend[lid[l]]
  BY <1>0, <1>2 DEF TypeOK
<1>5. lgot[l] = <<>> /\ lgot'[l] = g /\ \A n \in DOMAIN g : g[n] = <<for[l], n>>
  <2>1. lgot[l] = <<>> /\ \A n \in DOMAIN pend[lid[l]] : pend[lid[l]][n] = <<for[l], n>>
    BY <1>0, <1>1 DEF LocalOrder
  <2>2. lgot'[l] = <<>> \o g
    BY <1>0, <1>1, <1>4, <2>1 DEF TypeOK
  <2>3. <<>> \o g = g
    OBVIOUS
  <2> QED  BY <1>4, <2>1, <2>2, <2>3
<1>6. \A k \in Local : /\ (Usable(k))' <=> Usable(k)
                       /\ (Sending(k))' => Sending(k)
                       /\ local'[k] = "unused" <=> local[k] = "unused"
  BY <1>1, <1>3 DEF Usable, Sending
<1>7. \A k \in Local : (Usable(k))' => Usable(k) /\ (Accepted(k))' = Accepted(k)
  <2> SUFFICES ASSUME NEW k \in Local, Usable(k)
               PROVE  (Accepted(k))' = Accepted(k)
    BY <1>6
  <2>1. CASE k = l
    <3>1. PICK n \in Nat : n = Len(g)
      OBVIOUS
    <3>2. Len(lgot[l]) = 0 /\ Len(lgot'[l]) = n /\ Len(pend[lid[l]]) = n /\ Len(pend'[lid[l]]) = 0
          /\ lid'[l] = lid[l]
      BY <1>1, <1>3, <1>4, <1>5, <3>1
    <3>3. (Accepted(l))' = Len(lgot'[l]) + Len(pend'[lid'[l]]) /\ Accepted(l) = Len(lgot[l]) + Len(pend[lid[l]])
      BY DEF Accepted
    <3>4. (Accepted(l))' = n + 0 /\ Accepted(l) = 0 + n
      BY <3>2, <3>3
    <3> QED  BY <2>1, <3>4
  <2>2. CASE k # l
    BY <1>1, <1>3, <2>2, AcceptedSame
  <2> QED  BY <2>1, <2>2
<1>8. PairInv'
  BY <1>0, <1>1, <1>6, PairKept DEF PairInv
<1>9. LocalOrder'
  <2>1. \A k \in Local : \A n \in DOMAIN lgot'[k] : lgot'[k][n] = <<for[k], n>>
    <3> TAKE k \in Local
    <3>1. CASE k = l
      BY <1>5, <3>1
    <3>2. CASE k # l
      BY <1>0, <1>3, <3>2 DEF LocalOrder
    <3> QED  BY <3>1, <3>2
  <2>2. \A k \in Local : local'[k] = "connecting" =>
          lgot'[k] = <<>> /\ \A n \in DOMAIN pend'[lid[k]] : pend'[lid[k]][n] = <<for[k], n>>
    <3> TAKE k \in Local
    <3> HAVE local'[k] = "connecting"
    <3>1. k # l /\ local[k] = "connecting" /\ lgot'[k] = lgot[k] /\ pend'[lid[k]] = pend[lid[k]]
      BY <1>3 DEF Usable
    <3>2. lgot[k] = <<>> /\ \A n \in DOMAIN pend[lid[k]] : pend[lid[k]][n] = <<for[k], n>>
      BY <1>0, <3>1 DEF LocalOrder
    <3> QED  BY <3>1, <3>2
  <2>3. \A k \in Local : local'[k] = "open" => pend'[lid[k]] = <<>>
    <3> TAKE k \in Local
    <3> HAVE local'[k] = "open"
    <3>1. CASE k = l
      BY <1>3, <3>1
    <3>2. CASE k # l
      BY <1>0, <1>3, <3>2 DEF LocalOrder, Usable
    <3> QED  BY <3>1, <3>2
  <2>4. for' = for /\ lid' = lid
    BY <1>1
  <2> QED  BY <2>1, <2>2, <2>3, <2>4 DEF LocalOrder
<1>10. UpOrder'
  <2>1. SameUp
    BY <1>0, <1>1, <1>2, OneUp
  <2> QED  BY <1>0, <1>1, <1>6, <2>1, UpOrderSame
<1>11. DownOrder'
  BY <1>0, <1>1, <1>7, DownOrderKept DEF DownOrder
<1> QED  BY <1>8, <1>9, <1>10, <1>11 DEF OrderInv

\* The next message of a localhost socket goes on the agent's one connection.
LEMMA LocalMessageOrder ==
  ASSUME TypeInv, TypeInv', ChannelInv, OrderInv, NEW l \in Local, LocalMessage(l)
  PROVE  OrderInv'
<1>0. TypeOK /\ IdsInv /\ LocalOrder /\ UpOrder /\ DownOrder /\ PairInv
      /\ up' \in [Conn -> Seq(Up)] /\ down' \in [Conn -> Seq(Down)]
  BY DEF OrderInv, TypeInv, ChannelInv, TypeOK
<1>1. /\ UNCHANGED <<browser, bid, act, pend, local, lid, for, agent, ws, conn, down, bsent, bgot, lgot>>
      /\ Sending(l) /\ local[l] # "unused"
      /\ SendUp(<<[type |-> "data", id |-> lid[l], data |-> <<l, lsent[l] + 1>>]>>)
      /\ LiveL(l)
  BY DEF LocalMessage, gatewayVars, agentVars, connVars, Sending, LiveL
<1>2. /\ \A k \in Local : lsent'[k] = IF k = l THEN lsent[l] + 1 ELSE lsent[k]
      /\ \A k \in Local : lsent[k] \in Nat
  BY <1>0 DEF LocalMessage, TypeOK
<1>3. PICK m \in Up : m = [type |-> "data", id |-> lid[l], data |-> <<l, lsent[l] + 1>>]
  <2>1. <<l, lsent[l] + 1>> \in FromLocal
    BY <1>0 DEF LocalMessage, TypeOK, FromLocal, Number
  <2>2. lid[l] \in Id
    BY <1>0, <1>1 DEF IdsInv
  <2> QED  BY <2>1, <2>2 DEF Up
<1>4. m.type = "data" /\ m.id = lid[l] /\ m.data[1] = l /\ m.data[2] = lsent[l] + 1
  BY <1>3
<1>5. PairInv'
  BY <1>0, <1>1, <1>2, PairKept DEF PairInv
<1>6. LocalOrder'
  BY <1>0, <1>1, LocalOrderKept
<1>7. DownOrder'
  <2>1. \A k \in Local : (Usable(k))' => Usable(k) /\ (Accepted(k))' = Accepted(k)
    BY <1>1, AcceptedSame DEF Usable
  <2> QED  BY <1>0, <1>1, <2>1, DownOrderKept DEF DownOrder
<1>8. \A c \in Conn : \A f \in Elements(up[c]) :
        f.type = "data" => f.data[1] \in Local /\ f.data[2] \in Nat /\ (UpFrame(f))'
  <2> TAKE c \in Conn
  <2> TAKE f \in Elements(up[c])
  <2>1. f \in Up /\ UpFrame(f)
    BY <1>0, ElementsTyped DEF TypeOK, UpOrder
  <2> QED  BY <1>1, <1>2, <2>1, UpKinds DEF FromLocal, UpFrame, Number
<1>9. PICK ms \in Seq(Up) : ms = <<m>> /\ SendUp(ms)
  BY <1>1, <1>3, OneTyped
<1>10. ASSUME NEW c \in Conn
       PROVE  /\ Rising(up'[c])
              /\ \A f \in Elements(up'[c]) : f = m \/ f \in Elements(up[c])
              /\ \/ \A x : Numbers(up'[c], x) = Numbers(up[c], x)
                 \/ /\ agent # None /\ c = agent
                    /\ \A x : Numbers(up'[c], x) = IF x = l THEN Numbers(up[c], x) \cup {lsent[l] + 1}
                                                            ELSE Numbers(up[c], x)
  <2>1. Rising(up[c])
    BY <1>0 DEF UpOrder
  <2>2. CASE up'[c] = up[c]
    BY <2>1, <2>2
  <2>3. CASE agent # None /\ c = agent /\ up'[c] = up[c] \o ms
    <3>1. PICK p \in Seq(Up) : p = up[c]
      BY <1>0 DEF TypeOK
    <3>2. \A n \in Numbers(p, m.data[1]) : n < m.data[2]
      <4>1. \A f \in Elements(p) : f.type = "data" /\ f.data[1] = l => f.data[2] \in Nat /\ f.data[2] <= lsent[l]
        BY <1>0, <1>8, <3>1 DEF UpOrder, UpFrame
      <4> QED  BY <1>2, <1>4, <4>1, NumbersIs
    <3>3. /\ \A x : Numbers(p \o <<m>>, x) =
                      IF x = m.data[1] THEN Numbers(p, x) \cup {m.data[2]} ELSE Numbers(p, x)
          /\ Rising(p) => Rising(p \o <<m>>)
          /\ OpenFirst(p) => OpenFirst(p \o <<m>>)
      <4>1. m.type = "data"
        BY <1>4
      <4> QED  BY <3>2, <4>1, MessageOrder
    <3>4. up'[c] = p \o <<m>>
      BY <1>9, <2>3, <3>1
    <3>5. Elements(ms) = {m}
      BY <1>9, ElementsOne
    <3>6. Elements(up'[c]) = Elements(p) \cup {m}
      BY <2>3, <3>1, <3>5, ElementsJoin
    <3> QED  BY <1>4, <2>1, <2>3, <3>1, <3>3, <3>4, <3>6
  <2> QED  BY <1>0, <1>9, <2>2, <2>3, UpAfter
<1>11. UpOrder'
  <2>1. (UpFrame(m))'
    BY <1>1, <1>2, <1>4 DEF UpFrame
  <2>2. \A c \in Conn : Rising(up'[c]) /\ \A f \in Elements(up'[c]) : (UpFrame(f))'
    BY <1>8, <1>10, <2>1 DEF UpFrame
  <2>3. \A c \in Conn : \A k \in Local :
          Numbers(up'[c], k) # {} => Numbers(up[c], k) # {} \/ (k = l /\ agent # None /\ c = agent)
    BY <1>10
  <2>4. \A c \in Conn : agent # None /\ Numbers(up[c], l) # {} => c = agent
    BY <1>0, <1>1 DEF UpOrder
  <2>5. \A k \in Local, c, d \in Conn : Numbers(up'[c], k) # {} /\ Numbers(up'[d], k) # {} => c = d
    BY <1>0, <2>3, <2>4 DEF UpOrder
  <2>6. \A k \in Local, c \in Conn : agent' # None /\ (Sending(k))' /\ Numbers(up'[c], k) # {} => c = agent'
    BY <1>0, <1>1, <2>3 DEF UpOrder, Sending
  <2>7. /\ \A c \in Conn : (Linked(c))' <=> Linked(c)
        /\ (Linked(agent))' <=> Linked(agent)
        /\ \A k \in Local : (Sending(k))' <=> Sending(k)
    BY <1>1 DEF Linked, Sending
  <2>8. ASSUME NEW k \in Local, local[k] # "unused", browser[for[k]] = "open"
        PROVE  /\ \A c \in Conn : Linked(c) => Gapless(Numbers(up'[c], k), Len(bgot[for[k]]))
               /\ agent # None /\ Linked(agent) /\ Sending(k) =>
                    Reaches(Numbers(up'[agent], k), Len(bgot[for[k]]), lsent'[k])
    <3>1. /\ \A c \in Conn : Linked(c) => Gapless(Numbers(up[c], k), Len(bgot[for[k]]))
          /\ agent # None /\ Linked(agent) /\ Sending(k) =>
               Reaches(Numbers(up[agent], k), Len(bgot[for[k]]), lsent[k])
      BY <1>0, <2>8 DEF UpOrder
    <3>2. agent \in Conn \cup {None}
      BY <1>0 DEF TypeOK
    <3>3. CASE k # l
      <4>1. \A c \in Conn : Numbers(up'[c], k) = Numbers(up[c], k)
        BY <1>10, <3>3
      <4> QED  BY <1>2, <3>1, <3>2, <3>3, <4>1
    <3>4. CASE k = l /\ agent = None
      <4>1. \A c \in Conn : Numbers(up'[c], k) = Numbers(up[c], k)
        BY <1>10, <3>4
      <4> QED  BY <3>1, <3>4, <4>1
    <3>5. CASE k = l /\ agent # None
      <4>1. agent \in Conn /\ up'[agent] = up[agent] \o ms
        BY <1>0, <1>9, <3>2, <3>5 DEF SendUp, TypeOK
      <4>2. Numbers(up'[agent], k) = Numbers(up[agent], k) \cup {lsent[l] + 1}
        <5>1. lsent[l] + 1 \in Numbers(up'[agent], l)
          <6>1. Elements(up'[agent]) = Elements(up[agent]) \cup Elements(ms)
            BY <1>0, <4>1, ElementsJoin DEF TypeOK
          <6>2. m \in Elements(up'[agent])
            BY <1>9, <6>1, ElementsOne
          <6> QED  BY <1>4, <6>2, NumbersIs
        <5> QED  BY <1>10, <3>5, <4>1, <5>1
      <4>3. \A c \in Conn : c # agent => Numbers(up'[c], k) = Numbers(up[c], k)
        BY <1>10
      <4>4. PICK n \in Nat : n = Len(bgot[for[k]])
        <5>1. for[k] \in Browser
          BY <1>0, <2>8, PairBrowser
        <5>2. bgot[for[k]] \in Seq(FromLocal)
          BY <1>0, <5>1 DEF TypeOK
        <5> QED  BY <5>2
      <4>5. PICK N \in SUBSET Nat : N = Numbers(up[agent], k)
        BY <1>0, <4>1, NumbersNat
      <4>6. PICK s \in Nat : s = lsent[l]
        BY <1>2
      <4>7. Linked(agent) => Gapless(N \cup {s + 1}, n) /\ Reaches(N \cup {s + 1}, n, s + 1)
        <5> HAVE Linked(agent)
        <5>1. Gapless(N, n) /\ Reaches(N, n, s)
          BY <1>1, <3>1, <3>5, <4>1, <4>4, <4>5, <4>6
        <5> QED  BY <5>1, GaplessSent
      <4>8. lsent'[k] = s + 1
        BY <1>2, <3>5, <4>6
      <4> QED  BY <3>1, <3>5, <4>1, <4>2, <4>3, <4>4, <4>5, <4>6, <4>7, <4>8
    <3> QED  BY <3>3, <3>4, <3>5
  <2>9. \A b \in Browser : \A n \in DOMAIN bgot'[b] : bgot'[b][n][2] = n
    BY <1>0, <1>1 DEF UpOrder
  <2> QED  BY <1>1, <2>2, <2>5, <2>6, <2>7, <2>8, <2>9 DEF UpOrder
<1> QED  BY <1>5, <1>6, <1>7, <1>11 DEF OrderInv

LEMMA LocalEndOrder ==
  ASSUME TypeInv, TypeInv', ChannelInv, OrderInv, NEW l \in Local,
         LocalRefused(l) \/ LocalError(l) \/ LocalClose(l)
  PROVE  OrderInv'
<1>0. TypeOK /\ IdsInv /\ LocalOrder /\ UpOrder /\ DownOrder /\ PairInv /\ LocalInv
      /\ up' \in [Conn -> Seq(Up)] /\ down' \in [Conn -> Seq(Down)]
  BY DEF OrderInv, TypeInv, ChannelInv, TypeOK
<1>1. /\ UNCHANGED <<browser, bid, lid, for, agent, ws, conn, down, bsent, lsent, bgot, lgot>>
      /\ pend' = [pend EXCEPT ![lid[l]] = <<>>]
      /\ local' = [local EXCEPT ![l] = "closed"] \/ local' = [local EXCEPT ![l] = "failed"]
      /\ LiveL(l)
  BY DEF LocalRefused, LocalError, LocalClose, ForgetLocal, LiveL, gatewayVars, connVars, dataVars
<1>2. lid[l] \in Id
  BY <1>0, <1>1 DEF IdsInv
<1>3. /\ \A k \in Local : local'[k] = "unused" <=> local[k] = "unused"
      /\ \A k \in Local : k # l => local'[k] = local[k]
      /\ local'[l] \in {"closed", "failed"}
  BY <1>0, <1>1 DEF LiveL, TypeOK
<1>4. \A k \in Local : Usable(k) /\ k # l => pend'[lid[k]] = pend[lid[k]]
  <2>1. \A k \in Local : Usable(k) /\ k # l => lid[k] # lid[l] /\ lid[k] \in Id
    BY <1>0, <1>1 DEF LocalInv, IdsInv, Usable, LiveL
  <2> QED  BY <1>0, <1>1, <1>2, <2>1 DEF TypeOK
<1>5. PairInv'
  BY <1>0, <1>1, <1>3, PairKept DEF PairInv
<1>6. LocalOrder'
  <2>1. \A k \in Local : (Usable(k))' => k # l /\ Usable(k) /\ local'[k] = local[k]
    BY <1>3 DEF Usable
  <2> QED  BY <1>0, <1>1, <1>4, <2>1, LocalOrderKept DEF Usable
<1>7. SameUp
  <2>1. PICK ms \in Seq(Up) :
          SendUp(ms) /\ Elements(ms) \subseteq {Control("error", lid[l]), Control("closed", lid[l])}
    <3>1. Control("error", lid[l]) \in Up /\ Control("closed", lid[l]) \in Up
      BY <1>2, ControlTyped
    <3>2. \/ SendUp(<<Control("error", lid[l]), Control("closed", lid[l])>>)
          \/ SendUp(<<Control("error", lid[l])>>)
          \/ SendUp(<<Control("closed", lid[l])>>)
      BY DEF LocalRefused, LocalError, LocalClose
    <3>3. /\ <<Control("error", lid[l]), Control("closed", lid[l])>> \in Seq(Up)
          /\ <<Control("error", lid[l])>> \in Seq(Up) /\ <<Control("closed", lid[l])>> \in Seq(Up)
      BY <3>1, OneTyped, TwoTyped
    <3>4. /\ Elements(<<Control("error", lid[l]), Control("closed", lid[l])>>)
                = {Control("error", lid[l]), Control("closed", lid[l])}
          /\ Elements(<<Control("error", lid[l])>>) = {Control("error", lid[l])}
          /\ Elements(<<Control("closed", lid[l])>>) = {Control("closed", lid[l])}
      BY ElementsOne, ElementsTwo
    <3> QED  BY <3>2, <3>3, <3>4
  <2>2. \A f \in Elements(ms) : f.type # "data"
    BY <1>2, <2>1, ControlTyped
  <2> QED  BY <1>0, <2>1, <2>2, UpControl
<1>8. UpOrder'
  <2>1. \A k \in Local : (Sending(k))' => Sending(k)
    BY <1>3 DEF Sending
  <2> QED  BY <1>0, <1>1, <1>3, <1>7, <2>1, UpOrderSame
<1>9. DownOrder'
  <2>1. \A k \in Local : (Usable(k))' => Usable(k) /\ (Accepted(k))' = Accepted(k)
    <3>1. \A k \in Local : (Usable(k))' => k # l /\ Usable(k)
      BY <1>3 DEF Usable
    <3> QED  BY <1>1, <1>4, <3>1, AcceptedSame
  <2> QED  BY <1>0, <1>1, <2>1, DownOrderKept DEF DownOrder
<1> QED  BY <1>5, <1>6, <1>8, <1>9 DEF OrderInv

LEMMA StepOrder ==
  ASSUME ~SlowClose
  PROVE  TypeInv /\ TypeInv' /\ ChannelInv /\ OrderInv /\ [Next]_vars => OrderInv'
<1> SUFFICES ASSUME TypeInv, TypeInv', ChannelInv, OrderInv, Next PROVE OrderInv'
  BY StutterOrder
<1>1. ASSUME NEW b \in Browser, Upgrade(b) \/ BrowserMessage(b) \/ BrowserEvent(b)
      PROVE  OrderInv'
  BY <1>1, UpgradeOrder, BrowserMessageOrder, BrowserEventOrder
<1>2. ASSUME NEW c \in Conn, \/ GatewayReceives(c) \/ CloseEvent(c) \/ Connect(c) \/ AgentReceives(c)
      PROVE  OrderInv'
  BY <1>2, GatewayReceivesOrder, CloseEventOrder, ConnectOrder, AgentReceivesOrder
<1>3. ASSUME NEW l \in Local, \/ LocalOpen(l) \/ LocalMessage(l) \/ LocalRefused(l)
                              \/ LocalError(l) \/ LocalClose(l)
      PROVE  OrderInv'
  BY <1>3, LocalOpenOrder, LocalMessageOrder, LocalEndOrder
<1> QED  BY <1>1, <1>2, <1>3, TunnelOrder, CrashOrder, AgentDropsOrder DEF Next, Tunnel

LEMMA OrderHolds == ASSUME ~SlowClose PROVE Spec => []OrderInv
<1>1. TypeInv /\ TypeInv' /\ ChannelInv /\ OrderInv /\ [Next]_vars => OrderInv'
  BY StepOrder
<1> HIDE DEF TypeInv, ChannelInv, OrderInv
<1> QED  BY <1>1, InitOrder, TypeHolds, ChannelHolds, PTL DEF Spec

\* Whatever is lost, closed, superseded or restarted: each end of a channel gets the
\* messages of one single sender, from the first on, in the order sent, none twice
\* and none skipped (forwardAgentData; forwardChannelData with what it buffers).
\* As above, localhost sockets are gone before the agent is back.
THEOREM Ordered == ~SlowClose => (Spec => []InOrder)
<1> SUFFICES ASSUME ~SlowClose PROVE Spec => []InOrder
  OBVIOUS
<1>1. TypeInv /\ ChannelInv /\ OrderInv => InOrder
  <2> SUFFICES ASSUME TypeInv, ChannelInv, OrderInv PROVE InOrder
    OBVIOUS
  <2>1. ASSUME NEW b \in Browser PROVE PrefixOfOne(bgot[b])
    <3>1. PICK g \in Seq(FromLocal) : g = bgot[b]
      BY DEF TypeInv, TypeOK
    <3>2. \A n \in DOMAIN g : g[n] \in FromLocal /\ g[n][2] = n /\ for[g[n][1]] = b
      BY <3>1 DEF OrderInv, UpOrder, ChannelInv, GotInv
    <3>3. \A n \in DOMAIN g : 1 \in DOMAIN g /\ g[n][1] \in Local /\ g[n] = <<g[n][1], n>>
      <4>1. \A n \in DOMAIN g : 1 \in DOMAIN g
        BY Domain
      <4> QED  BY <3>2, <4>1 DEF FromLocal
    <3>4. \A n \in DOMAIN g : g[n][1] = g[1][1]
      BY <3>2, <3>3 DEF OrderInv, PairInv
    <3> QED  BY <3>1, <3>3, <3>4 DEF PrefixOfOne
  <2>2. ASSUME NEW l \in Local PROVE PrefixOfOne(lgot[l])
    <3>1. PICK g \in Seq(FromBrowser) : g = lgot[l]
      BY DEF TypeInv, TypeOK
    <3>2. \A n \in DOMAIN g : g[n] = <<for[l], n>>
      BY <3>1 DEF OrderInv, LocalOrder
    <3>3. \A n \in DOMAIN g : 1 \in DOMAIN g
      BY Domain
    <3> QED  BY <3>1, <3>2, <3>3 DEF PrefixOfOne
  <2> QED  BY <2>1, <2>2 DEF InOrder
<1>2. Spec => [](TypeInv /\ ChannelInv /\ OrderInv)
  BY TypeHolds, ChannelHolds, OrderHolds, PTL
<1> QED  BY <1>1, <1>2, PTL

-----------------------------------------------------------------------------
\* The two ends of a channel see a pipe (ChannelPipe).

\* What waits for a localhost socket to open has been sent.
PendSent ==
  \A i \in Id : \A n \in DOMAIN pend[i] : pend[i][n][2] <= bsent[pend[i][n][1]]

\* Nothing is sent, or one message more; nothing new waits.
LEMMA PendKept ==
  ASSUME TypeInv, PendSent,
         \A b \in Browser : bsent'[b] = bsent[b] \/ bsent'[b] = bsent[b] + 1,
         \A i \in Id : pend'[i] = pend[i] \/ pend'[i] = <<>>
  PROVE  PendSent'
<1> SUFFICES ASSUME NEW i \in Id, NEW n \in DOMAIN pend'[i]
             PROVE  pend'[i][n][2] <= bsent'[pend'[i][n][1]]
  BY DEF PendSent
<1>1. pend'[i] = pend[i] /\ n \in DOMAIN pend[i]
  OBVIOUS
<1>2. pend[i][n] \in FromBrowser
  <2>1. PICK p \in Seq(FromBrowser) : p = pend[i]
    BY DEF TypeInv, TypeOK
  <2> QED  BY <1>1, <2>1
<1>3. PICK b \in Browser, k \in Nat, s \in Nat : b = pend[i][n][1] /\ k = pend[i][n][2] /\ s = bsent[b]
  <2>1. pend[i][n][1] \in Browser /\ pend[i][n][2] \in Nat
    BY <1>2 DEF FromBrowser, Number
  <2>2. \A b \in Browser : bsent[b] \in Nat
    BY DEF TypeInv, TypeOK
  <2> QED  BY <2>1, <2>2
<1>4. k <= s
  BY <1>1, <1>3 DEF PendSent
<1>5. k <= bsent'[b]
  <2>1. bsent'[b] = s \/ bsent'[b] = s + 1
    BY <1>3
  <2> QED  BY <1>4, <2>1
<1>6. pend'[i][n][1] = b /\ pend'[i][n][2] = k
  BY <1>1, <1>3
<1> QED  BY <1>5, <1>6

\* The one frame that makes a message wait.
LEMMA PendBuffered ==
  ASSUME TypeInv, PendSent, UNCHANGED bsent, NEW m \in Down, m.type = "data", DownFrame(m), Buffer(m)
  PROVE  PendSent'
<1>1. m.id \in Id /\ m.data \in FromBrowser /\ m.data[2] <= bsent[m.data[1]]
  BY DownKinds DEF DownFrame
<1>2. PICK g \in Seq(FromBrowser) : g = pend[m.id]
  BY <1>1 DEF TypeInv, TypeOK
<1>3. pend'[m.id] = Append(g, m.data) /\ \A i \in Id : i # m.id => pend'[i] = pend[i]
  BY <1>1, <1>2 DEF Buffer, TypeInv, TypeOK
<1>4. \A n \in DOMAIN Append(g, m.data) :
        Append(g, m.data)[n] = m.data \/ (n \in DOMAIN g /\ Append(g, m.data)[n] = g[n])
  BY <1>1, Appended
<1> SUFFICES ASSUME NEW i \in Id, NEW n \in DOMAIN pend'[i]
             PROVE  pend'[i][n][2] <= bsent[pend'[i][n][1]]
  BY DEF PendSent
<1>5. CASE i = m.id
  <2>1. pend'[i][n] = m.data \/ (n \in DOMAIN g /\ pend'[i][n] = g[n])
    BY <1>3, <1>4, <1>5
  <2> QED  BY <1>1, <1>2, <1>5, <2>1 DEF PendSent
<1>6. CASE i # m.id
  BY <1>3, <1>6 DEF PendSent
<1> QED  BY <1>5, <1>6

LEMMA PendStep ==
  ASSUME TypeInv, TypeInv', ChannelInv, OrderInv, PendSent, [Next]_vars
  PROVE  PendSent'
<1>1. CASE UNCHANGED <<pend, bsent>>
  BY <1>1, PendKept
<1>2. ASSUME NEW b \in Browser, Upgrade(b) \/ BrowserMessage(b) \/ BrowserEvent(b)
      PROVE  PendSent'
  <2>1. UNCHANGED pend /\ (UNCHANGED bsent \/ bsent' = [bsent EXCEPT ![b] = @ + 1])
    BY <1>2 DEF Upgrade, BrowserMessage, BrowserEvent, agentVars, dataVars
  <2>2. \A a \in Browser : bsent'[a] = bsent[a] \/ bsent'[a] = bsent[a] + 1
    BY <2>1 DEF TypeInv, TypeOK
  <2> QED  BY <2>1, <2>2, PendKept
<1>3. ASSUME NEW c \in Conn, AgentReceives(c) PROVE PendSent'
  <2>1. PICK m : m = Head(down[c])
    OBVIOUS
  <2>2. PICK q : TakeFacts(c, m, q)
    BY <1>3, <2>1, TakeHolds
  <2>3. m \in Down /\ DownFrame(m) /\ UNCHANGED bsent
    BY <2>2 DEF TakeFacts, ReceiveFacts
  <2>4. \/ UNCHANGED pend
        \/ m.type = "data" /\ Buffer(m)
        \/ pend' = [pend EXCEPT ![m.id] = <<>>]
    BY <1>3, <2>1 DEF AgentReceives, OpenChannel, CloseChannel, ForwardChannelData, Pass, Overflow, agentVars
  <2>5. CASE m.type = "data" /\ Buffer(m)
    BY <2>3, <2>5, PendBuffered
  <2>6. CASE UNCHANGED pend \/ pend' = [pend EXCEPT ![m.id] = <<>>]
    <3>1. \A i \in Id : pend'[i] = pend[i] \/ pend'[i] = <<>>
      BY <2>6 DEF TypeInv, TypeOK
    <3> QED  BY <2>3, <3>1, PendKept
  <2> QED  BY <2>4, <2>5, <2>6
<1>4. ASSUME NEW l \in Local, \/ LocalOpen(l) \/ LocalMessage(l) \/ LocalRefused(l)
                              \/ LocalError(l) \/ LocalClose(l)
      PROVE  PendSent'
  <2>1. UNCHANGED bsent /\ (UNCHANGED pend \/ pend' = [pend EXCEPT ![lid[l]] = <<>>])
    BY <1>4 DEF LocalOpen, LocalMessage, LocalRefused, LocalError, LocalClose, ForgetLocal,
                agentVars, dataVars
  <2>2. \A i \in Id : pend'[i] = pend[i] \/ pend'[i] = <<>>
    BY <2>1 DEF TypeInv, TypeOK
  <2> QED  BY <2>1, <2>2, PendKept
<1>5. ASSUME NEW c \in Conn, GatewayReceives(c) \/ CloseEvent(c) \/ Connect(c)
      PROVE  UNCHANGED <<pend, bsent>>
  BY <1>5 DEF GatewayReceives, CloseEvent, Connect, agentVars, dataVars
<1>6. Tunnel \/ Crash \/ AgentDrops => UNCHANGED <<pend, bsent>>
  BY TunnelOnly DEF TypeInv, Crash, AgentDrops, agentVars, dataVars
<1>7. UNCHANGED vars => UNCHANGED <<pend, bsent>>
  BY DEF vars, agentVars, dataVars
<1> QED  BY <1>1, <1>2, <1>3, <1>4, <1>5, <1>6, <1>7 DEF Next, Tunnel

LEMMA PendHolds == ASSUME ~SlowClose PROVE Spec => []PendSent
<1>1. Init => PendSent
  BY DEF Init, PendSent
<1>2. TypeInv /\ TypeInv' /\ ChannelInv /\ OrderInv /\ PendSent /\ [Next]_vars => PendSent'
  BY PendStep
<1> HIDE DEF TypeInv, ChannelInv, OrderInv, PendSent
<1> QED  BY <1>1, <1>2, TypeHolds, ChannelHolds, OrderHolds, PTL DEF Spec
-----------------------------------------------------------------------------
\* What a step does to the life of a socket, to what it was opened for and to what it sends.
BrowserGoes(b) ==
  /\ \/ browser'[b] = browser[b]
     \/ browser[b] = "new" /\ browser'[b] = "open"
     \/ browser[b] = "open" /\ browser'[b] \in {"closing", "closed"}
     \/ browser[b] = "closing" /\ browser'[b] = "closed"
  /\ \/ bsent'[b] = bsent[b]
     \/ LiveB(b) /\ bsent'[b] = bsent[b] + 1
LocalGoes(l) ==
  /\ \/ local'[l] = local[l] /\ for'[l] = for[l]
     \/ /\ local[l] = "unused" /\ local'[l] = "connecting"
        /\ for'[l] \in Browser /\ browser[for'[l]] # "new"
     \/ /\ for'[l] = for[l]
        /\ \/ local[l] = "connecting" /\ local'[l] \in {"open", "aborted", "closed"}
           \/ local[l] = "open" /\ local'[l] \in {"closing", "failed", "closed"}
           \/ local[l] = "closing" /\ local'[l] \in {"failed", "closed"}
           \/ local[l] \in {"aborted", "failed"} /\ local'[l] = "closed"
  /\ \/ lsent'[l] = lsent[l]
     \/ local[l] \in {"open", "closing"} /\ lsent'[l] = lsent[l] + 1

LEMMA BrowsersGo ==
  ASSUME TypeInv, [Next]_vars
  PROVE  \A b \in Browser : BrowserGoes(b)
<1>0. TypeOK
  BY DEF TypeInv
<1>1. ASSUME NEW b \in Browser, Upgrade(b) \/ BrowserMessage(b) \/ BrowserEvent(b)
      PROVE  \A a \in Browser : BrowserGoes(a)
  BY <1>0, <1>1 DEF Upgrade, BrowserMessage, BrowserEvent, dataVars, gatewayVars, BrowserGoes, LiveB, TypeOK
<1>2. ASSUME UNCHANGED bsent, NEW B, CloseBrowsers(B) PROVE \A a \in Browser : BrowserGoes(a)
  BY <1>0, <1>2 DEF CloseBrowsers, BrowserGoes, TypeOK
<1>3. ASSUME UNCHANGED <<browser, bsent>> PROVE \A a \in Browser : BrowserGoes(a)
  BY <1>3 DEF BrowserGoes
<1>4. ASSUME NEW c \in Conn, GatewayReceives(c) \/ CloseEvent(c)
      PROVE  UNCHANGED bsent /\ (UNCHANGED browser \/ \E B : CloseBrowsers(B))
  BY <1>4 DEF GatewayReceives, CloseEvent, CleanupInstanceChannels, dataVars
<1>5. ASSUME NEW c \in Conn, Connect(c) \/ AgentReceives(c)
      PROVE  UNCHANGED <<browser, bsent>>
  BY <1>5 DEF Connect, AgentReceives, gatewayVars, dataVars
<1>6. ASSUME NEW l \in Local, \/ LocalOpen(l) \/ LocalMessage(l) \/ LocalRefused(l)
                              \/ LocalError(l) \/ LocalClose(l)
      PROVE  UNCHANGED <<browser, bsent>>
  BY <1>6 DEF LocalOpen, LocalMessage, LocalRefused, LocalError, LocalClose, gatewayVars, dataVars
<1>7. ASSUME Crash PROVE \A a \in Browser : BrowserGoes(a)
  BY <1>0, <1>7 DEF Crash, dataVars, BrowserGoes, TypeOK
<1>8. Tunnel \/ AgentDrops \/ UNCHANGED vars => UNCHANGED <<browser, bsent>>
  BY <1>0, TunnelOnly DEF AgentDrops, vars, gatewayVars, dataVars
<1> QED  BY <1>1, <1>2, <1>3, <1>4, <1>5, <1>6, <1>7, <1>8 DEF Next, Tunnel

LEMMA LocalsGo ==
  ASSUME TypeInv, TypeInv', ChannelInv, OrderInv, [Next]_vars
  PROVE  \A l \in Local : LocalGoes(l)
<1>0. TypeOK
  BY DEF TypeInv
<1>1. ASSUME UNCHANGED <<for, lsent>>, NEW L, CloseLocals(L) PROVE \A l \in Local : LocalGoes(l)
  BY <1>0, <1>1 DEF CloseLocals, LocalGoes, TypeOK
<1>2. ASSUME UNCHANGED <<for, local, lsent>> PROVE \A l \in Local : LocalGoes(l)
  BY <1>2 DEF LocalGoes
<1>3. ASSUME NEW b \in Browser, Upgrade(b) \/ BrowserMessage(b) \/ BrowserEvent(b)
      PROVE  UNCHANGED <<for, local, lsent>>
  BY <1>3 DEF Upgrade, BrowserMessage, BrowserEvent, agentVars, dataVars
<1>4. ASSUME NEW c \in Conn, GatewayReceives(c) \/ CloseEvent(c) \/ Connect(c)
      PROVE  UNCHANGED <<for, local, lsent>>
  BY <1>4 DEF GatewayReceives, CloseEvent, Connect, agentVars, dataVars
<1>5. ASSUME NEW c \in Conn, AgentReceives(c) PROVE \A l \in Local : LocalGoes(l)
  <2>1. PICK m : m = Head(down[c])
    OBVIOUS
  <2>2. PICK q : TakeFacts(c, m, q)
    BY <1>5, <2>1, TakeHolds
  <2>3. m \in Down /\ DownFrame(m) /\ UNCHANGED lsent
    BY <1>5, <2>2 DEF TakeFacts, ReceiveFacts
  <2>4. \/ UNCHANGED <<for, local>>
        \/ UNCHANGED for /\ \E L : CloseLocals(L)
        \/ /\ m.type = "open"
           /\ \E l \in Local : /\ local[l] = "unused"
                               /\ local' = [local EXCEPT ![l] = "connecting"]
                               /\ for' = [for EXCEPT ![l] = m.data]
    BY <1>5, <2>1 DEF AgentReceives, OpenChannel, CloseChannel, ForwardChannelData, Pass, Buffer,
                      Overflow, agentVars
  <2>5. ASSUME m.type = "open", NEW k \in Local, local[k] = "unused",
               local' = [local EXCEPT ![k] = "connecting"], for' = [for EXCEPT ![k] = m.data]
        PROVE  \A l \in Local : LocalGoes(l)
    <3>1. m.data \in Browser /\ browser[m.data] # "new"
      BY <2>3, <2>5 DEF DownFrame
    <3> QED  BY <1>0, <2>3, <2>5, <3>1 DEF LocalGoes, TypeOK
  <2> QED  BY <1>1, <1>2, <2>3, <2>4, <2>5
<1>6. ASSUME NEW l \in Local, \/ LocalOpen(l) \/ LocalMessage(l) \/ LocalRefused(l)
                              \/ LocalError(l) \/ LocalClose(l)
      PROVE  \A k \in Local : LocalGoes(k)
  BY <1>0, <1>6 DEF LocalOpen, LocalMessage, LocalRefused, LocalError, LocalClose, agentVars, dataVars,
                    LocalGoes, TypeOK
<1>7. ASSUME Crash PROVE UNCHANGED <<for, local, lsent>>
  BY <1>7 DEF Crash, agentVars, dataVars
<1>8. ASSUME AgentDrops PROVE UNCHANGED <<for, lsent>> /\ \E L : CloseLocals(L)
  BY <1>8 DEF AgentDrops, CloseAllChannels, dataVars
<1>9. Tunnel \/ UNCHANGED vars => UNCHANGED <<for, local, lsent>>
  BY <1>0, TunnelOnly DEF vars, agentVars, dataVars
<1> QED  BY <1>1, <1>2, <1>3, <1>4, <1>5, <1>6, <1>7, <1>8, <1>9 DEF Next, Tunnel

-----------------------------------------------------------------------------
\* A sequence of numbered messages of one sender, as the pipe writes it.
LEMMA NumberedIs ==
  ASSUME NEW S, NEW g \in Seq(S), NEW x, NEW k \in Nat, k = Len(g), \A n \in DOMAIN g : g[n] = <<x, n>>
  PROVE  g = Pipe!Numbered(x, k)
<1>1. g = [n \in 1 .. k |-> g[n]]
  OBVIOUS
<1>2. \A n \in 1 .. k : g[n] = <<x, n>>
  OBVIOUS
<1> QED  BY <1>1, <1>2 DEF Pipe!Numbered

\* The gateway passes a message on to a browser socket.
LEMMA GatewayGives ==
  ASSUME TypeInv, [Next]_vars, NEW b \in Browser, bgot'[b] # bgot[b]
  PROVE  \E c \in Conn, m \in Up :
           /\ m \in Elements(up[c]) /\ m.type = "data" /\ browser[b] = "open" /\ UNCHANGED for
           /\ bgot'[b] = Append(bgot[b], m.data)
<1>1. PICK c \in Conn : GatewayReceives(c)
  <2>1. ASSUME NEW a \in Browser, Upgrade(a) \/ BrowserMessage(a) \/ BrowserEvent(a)
        PROVE  UNCHANGED bgot
    BY <2>1 DEF Upgrade, BrowserMessage, BrowserEvent, dataVars
  <2>2. ASSUME NEW c \in Conn, CloseEvent(c) \/ Connect(c) \/ AgentReceives(c)
        PROVE  UNCHANGED bgot
    BY <2>2 DEF CloseEvent, Connect, AgentReceives, dataVars
  <2>3. ASSUME NEW l \in Local, \/ LocalOpen(l) \/ LocalMessage(l) \/ LocalRefused(l)
                                \/ LocalError(l) \/ LocalClose(l)
        PROVE  UNCHANGED bgot
    BY <2>3 DEF LocalOpen, LocalMessage, LocalRefused, LocalError, LocalClose, dataVars
  <2>4. Tunnel \/ Crash \/ AgentDrops \/ UNCHANGED vars => UNCHANGED bgot
    BY TunnelOnly DEF TypeInv, Crash, AgentDrops, vars, dataVars
  <2> QED  BY <2>1, <2>2, <2>3, <2>4 DEF Next, Tunnel
<1>2. PICK m : m = Head(up[c])
  OBVIOUS
<1>3. m \in Elements(up[c]) /\ m \in Up
  <2>1. up[c] \in Seq(Up) /\ up[c] # <<>>
    BY <1>1 DEF GatewayReceives, TypeInv, TypeOK
  <2> QED  BY <1>2, <2>1, ElementsTail, ElementsTyped
<1>4. /\ m.type = "data" /\ chan[m.id] # None /\ browser[chan[m.id]] = "open"
      /\ bgot' = [bgot EXCEPT ![chan[m.id]] = Append(@, m.data)] /\ UNCHANGED for
  BY <1>1, <1>2 DEF GatewayReceives, agentVars
<1>5. chan[m.id] = b
  BY <1>4 DEF TypeInv, TypeOK
<1>6. bgot'[b] = Append(bgot[b], m.data)
  BY <1>4, <1>5 DEF TypeInv, TypeOK
<1> QED  BY <1>3, <1>4, <1>5, <1>6

LEMMA BrowsersGet ==
  ASSUME TypeInv, TypeInv', ChannelInv', OrderInv, OrderInv', [Next]_vars, NEW b \in Browser
  PROVE  Pipe!FrontGets(b)
<1> SUFFICES ASSUME bgot'[b] # bgot[b] PROVE Pipe!FrontGets(b)
  BY DEF Pipe!FrontGets
<1>1. PICK c \in Conn, m \in Up :
        /\ m \in Elements(up[c]) /\ m.type = "data" /\ browser[b] = "open" /\ UNCHANGED for
        /\ bgot'[b] = Append(bgot[b], m.data)
  BY GatewayGives
<1>2. PICK g \in Seq(FromLocal) : g = bgot[b]
  BY DEF TypeInv, TypeOK
<1>3. PICK h \in Seq(FromLocal) : h = bgot'[b]
  BY DEF TypeInv, TypeOK
<1>4. PICK k \in Nat : k = Len(g)
  BY <1>2
<1>5. m.data \in FromLocal /\ m.data[2] <= lsent[m.data[1]]
  <2>1. UpFrame(m)
    BY <1>1 DEF OrderInv, UpOrder
  <2> QED  BY <1>1, <2>1, UpKinds DEF UpFrame
<1>6. PICK x \in Local : x = m.data[1]
  BY <1>5 DEF FromLocal
<1>7. h = Append(g, m.data) /\ Len(h) = k + 1 /\ k + 1 \in DOMAIN h /\ h[k + 1] = m.data
  BY <1>1, <1>2, <1>3, <1>4, <1>5
<1>8. \A n \in DOMAIN h : h[n] \in FromLocal /\ h[n][2] = n /\ for[h[n][1]] = b
  BY <1>1, <1>3 DEF OrderInv, UpOrder, ChannelInv, GotInv
<1>9. \A n \in DOMAIN h : h[n] = <<x, n>>
  <2>1. \A n \in DOMAIN h : h[n][1] \in Local /\ h[n] = <<h[n][1], n>>
    BY <1>8 DEF FromLocal
  <2>2. \A l, j \in Local : for[l] = for[j] /\ for[l] # None => l = j
    BY DEF OrderInv, PairInv
  <2>3. for[x] = b /\ b # None
    BY <1>6, <1>7, <1>8
  <2>4. \A n \in DOMAIN h : h[n][1] = x
    BY <1>8, <2>1, <2>2, <2>3
  <2> QED  BY <2>1, <2>4
<1>10. h = Pipe!Numbered(x, k + 1)
  <2>1. PICK n \in Nat : n = k + 1 /\ n = Len(h)
    BY <1>7
  <2>2. \A i \in DOMAIN h : h[i] = <<x, i>>
    BY <1>9
  <2>3. h \in Seq(FromLocal)
    OBVIOUS
  <2>4. h = Pipe!Numbered(x, n)
    BY ONLY <2>1, <2>2, <2>3, NumberedIs
  <2> QED  BY <2>1, <2>4
<1>11. for[x] = b /\ m.data[2] = k + 1
  BY <1>6, <1>7, <1>8
<1>12. k < lsent[x]
  <2>1. lsent[x] \in Nat
    BY DEF TypeInv, TypeOK
  <2> QED  BY <1>5, <1>6, <1>11, <2>1
<1>13. Life(browser[b]) = "open"
  BY <1>1 DEF Life
<1> QED  BY <1>2, <1>3, <1>4, <1>10, <1>11, <1>12, <1>13 DEF Pipe!FrontGets

\* The agent passes messages on to a localhost socket.
LEMMA AgentGives ==
  ASSUME TypeInv, TypeInv', ChannelInv, OrderInv, [Next]_vars, NEW l \in Local, lgot'[l] # lgot[l]
  PROVE  /\ local'[l] = "open" /\ UNCHANGED <<for, bsent>>
         /\ \/ \E m \in Down : /\ m.type = "data" /\ DownFrame(m) /\ m.data \in FromBrowser
                               /\ lgot'[l] = Append(lgot[l], m.data)
            \/ lid[l] \in Id /\ lgot[l] = <<>> /\ lgot'[l] = pend[lid[l]]
<1>1. ASSUME NEW a \in Browser, Upgrade(a) \/ BrowserMessage(a) \/ BrowserEvent(a)
      PROVE  UNCHANGED lgot
  BY <1>1 DEF Upgrade, BrowserMessage, BrowserEvent, dataVars
<1>2. ASSUME NEW c \in Conn, GatewayReceives(c) \/ CloseEvent(c) \/ Connect(c)
      PROVE  UNCHANGED lgot
  BY <1>2 DEF GatewayReceives, CloseEvent, Connect, dataVars
<1>3. ASSUME NEW k \in Local, LocalMessage(k) \/ LocalRefused(k) \/ LocalError(k) \/ LocalClose(k)
      PROVE  UNCHANGED lgot
  BY <1>3 DEF LocalMessage, LocalRefused, LocalError, LocalClose, dataVars
<1>4. Tunnel \/ Crash \/ AgentDrops \/ UNCHANGED vars => UNCHANGED lgot
  BY TunnelOnly DEF TypeInv, Crash, AgentDrops, vars, dataVars
<1>5. \/ \E c \in Conn : AgentReceives(c)
      \/ \E k \in Local : LocalOpen(k)
  BY <1>1, <1>2, <1>3, <1>4 DEF Next, Tunnel
<1>6. ASSUME NEW c \in Conn, AgentReceives(c)
      PROVE  /\ local'[l] = "open" /\ UNCHANGED <<for, bsent>>
             /\ \E m \in Down : /\ m.type = "data" /\ DownFrame(m) /\ m.data \in FromBrowser
                                /\ lgot'[l] = Append(lgot[l], m.data)
  <2>1. PICK m : m = Head(down[c])
    OBVIOUS
  <2>2. PICK q : TakeFacts(c, m, q)
    BY <1>6, <2>1, TakeHolds
  <2>3. m \in Down /\ DownFrame(m) /\ UNCHANGED bsent
    BY <2>2 DEF TakeFacts, ReceiveFacts
  <2>4. m.type = "data" /\ local[act[m.id]] = "open" /\ Pass(act[m.id], m)
    BY <1>6, <2>1 DEF AgentReceives, OpenChannel, CloseChannel, ForwardChannelData, Buffer, Overflow
  <2>5. lgot' = [lgot EXCEPT ![act[m.id]] = Append(@, m.data)] /\ UNCHANGED <<local, for>>
    BY <2>4 DEF Pass, agentVars
  <2>6. act[m.id] = l
    BY <2>5 DEF TypeInv, TypeOK
  <2>7. lgot'[l] = Append(lgot[l], m.data)
    BY <2>5, <2>6 DEF TypeInv, TypeOK
  <2> QED  BY <2>3, <2>4, <2>5, <2>6, <2>7, DownKinds
<1>7. ASSUME NEW k \in Local, LocalOpen(k)
      PROVE  /\ local'[l] = "open" /\ UNCHANGED <<for, bsent>>
             /\ lid[l] \in Id /\ lgot[l] = <<>> /\ lgot'[l] = pend[lid[l]]
  <2>1. /\ local[k] = "connecting" /\ local' = [local EXCEPT ![k] = "open"]
        /\ lgot' = [lgot EXCEPT ![k] = @ \o pend[lid[k]]] /\ UNCHANGED <<for, bsent>>
    BY <1>7 DEF LocalOpen
  <2>2. k = l
    BY <2>1 DEF TypeInv, TypeOK
  <2>3. lid[l] \in Id /\ lgot[l] = <<>>
    BY <2>1, <2>2 DEF TypeInv, IdsInv, LiveL, OrderInv, LocalOrder
  <2>4. PICK p \in Seq(FromBrowser) : p = pend[lid[l]]
    BY <2>3 DEF TypeInv, TypeOK
  <2>5. lgot'[l] = <<>> \o p /\ local'[l] = "open"
    BY <2>1, <2>2, <2>3, <2>4 DEF TypeInv, TypeOK
  <2>6. <<>> \o p = p
    OBVIOUS
  <2> QED  BY <2>1, <2>3, <2>4, <2>5, <2>6
<1> QED  BY <1>5, <1>6, <1>7

LEMMA LocalsGet ==
  ASSUME TypeInv, TypeInv', ChannelInv, OrderInv, OrderInv', PendSent, [Next]_vars, NEW l \in Local
  PROVE  Pipe!BackGets(l)
<1> SUFFICES ASSUME lgot'[l] # lgot[l] PROVE Pipe!BackGets(l)
  BY DEF Pipe!BackGets
<1>1. /\ local'[l] = "open" /\ UNCHANGED <<for, bsent>>
      /\ \/ \E m \in Down : /\ m.type = "data" /\ DownFrame(m) /\ m.data \in FromBrowser
                            /\ lgot'[l] = Append(lgot[l], m.data)
         \/ lid[l] \in Id /\ lgot[l] = <<>> /\ lgot'[l] = pend[lid[l]]
  BY AgentGives
<1>2. PICK g \in Seq(FromBrowser) : g = lgot[l]
  BY DEF TypeInv, TypeOK
<1>3. PICK h \in Seq(FromBrowser) : h = lgot'[l]
  BY DEF TypeInv, TypeOK
<1>4. PICK k \in Nat, n \in Nat : k = Len(g) /\ n = Len(h)
  BY <1>2, <1>3
<1>5. \A j \in DOMAIN h : h[j] = <<for[l], j>>
  BY <1>1, <1>3 DEF OrderInv, LocalOrder
<1>6. h = Pipe!Numbered(for[l], n)
  BY <1>4, <1>5, NumberedIs
<1>7. k + 1 <= n /\ n \in DOMAIN h /\ h[n][2] <= bsent[h[n][1]]
  <2>1. ASSUME NEW m \in Down, m.type = "data", DownFrame(m), m.data \in FromBrowser, h = Append(g, m.data)
        PROVE  k + 1 <= n /\ n \in DOMAIN h /\ h[n][2] <= bsent[h[n][1]]
    <3>1. n = k + 1 /\ n \in DOMAIN h /\ h[n] = m.data
      BY <1>4, <2>1
    <3> QED  BY <2>1, <3>1 DEF DownFrame
  <2>2. ASSUME lid[l] \in Id, g = <<>>, h = pend[lid[l]]
        PROVE  k + 1 <= n /\ n \in DOMAIN h /\ h[n][2] <= bsent[h[n][1]]
    <3>1. k = 0 /\ n # 0
      BY <1>2, <1>3, <1>4, <2>2
    <3>2. DOMAIN h = 1 .. n
      BY <1>4
    <3>3. n \in DOMAIN h
      BY <3>1, <3>2
    <3> QED  BY <2>2, <3>1, <3>3 DEF PendSent
  <2> QED  BY <1>1, <1>2, <1>3, <2>1, <2>2
<1>8. n <= bsent[for[l]]
  BY <1>5, <1>7
<1>9. bsent[for[l]] \in Nat
  <2>1. for[l] \in Browser
    BY <1>1, PairBrowser DEF OrderInv, PairInv
  <2> QED  BY <2>1 DEF TypeInv, TypeOK
<1>10. n \in (k + 1) .. bsent[for[l]]
  BY <1>7, <1>8, <1>9
<1>11. (Life(local[l]))' = "open"
  BY <1>1 DEF Life
<1> QED  BY <1>2, <1>3, <1>4, <1>6, <1>10, <1>11 DEF Pipe!BackGets

-----------------------------------------------------------------------------
LEMMA FrontSteps ==
  ASSUME NEW b \in Browser, BrowserGoes(b), Pipe!FrontGets(b)
  PROVE  Pipe!FrontStep(b)
<1>1. Pipe!Goes(Life(browser[b]), Life(browser'[b]), Pipe!FrontMoves)
  BY DEF BrowserGoes, Life, Pipe!Goes, Pipe!FrontMoves, Pipe!Closes
<1>2. Pipe!Sends(Life(browser[b]), bsent[b], bsent'[b])
  BY DEF BrowserGoes, LiveB, Life, Pipe!Sends
<1> QED  BY <1>1, <1>2 DEF Pipe!FrontStep

LEMMA BackSteps ==
  ASSUME TypeInv, PairInv', NEW l \in Local, LocalGoes(l), Pipe!BackGets(l)
  PROVE  Pipe!BackStep(l)
<1>1. Pipe!Goes(Life(local[l]), Life(local'[l]), Pipe!BackMoves)
  BY DEF LocalGoes, Life, Pipe!Goes, Pipe!BackMoves, Pipe!Closes
<1>2. Pipe!Sends(Life(local[l]), lsent[l], lsent'[l])
  BY DEF LocalGoes, Life, Pipe!Sends
<1>3. Pipe!Joins(l)
  <2>1. Life(local[l]) = "new" <=> local[l] = "unused"
    BY DEF Life, TypeInv, TypeOK
  <2>2. ASSUME local[l] = "unused", local'[l] = "connecting"
        PROVE  Pipe!Joins(l)
    <3>1. for'[l] \in Browser /\ browser[for'[l]] # "new"
      BY <2>2 DEF LocalGoes
    <3>2. \A k \in Local \ {l} : for'[k] # for'[l]
      BY <3>1 DEF PairInv
    <3>3. Life(browser[for'[l]]) # "new"
      BY <3>1 DEF Life, TypeInv, TypeOK
    <3>4. Life(local'[l]) = "connecting"
      BY <2>2 DEF Life
    <3> QED  BY <2>1, <2>2, <3>1, <3>2, <3>3, <3>4 DEF Pipe!Joins
  <2>3. ASSUME local[l] # "unused" \/ local'[l] # "connecting"
        PROVE  Pipe!Joins(l)
    <3>1. for'[l] = for[l]
      BY <2>3 DEF LocalGoes
    <3>2. ~(Life(local[l]) = "new" /\ Life(local'[l]) = "connecting")
      BY <2>1, <2>3 DEF LocalGoes, Life
    <3> QED  BY <3>1, <3>2 DEF Pipe!Joins
  <2> QED  BY <2>2, <2>3
<1> QED  BY <1>1, <1>2, <1>3 DEF Pipe!BackStep

\* The two ends of a channel, whatever tunnel connections, channel ids and gateway
\* processes come and go between them, are the ends of a pipe: a browser's socket is
\* joined to one socket on localhost at most, each gets what the other has sent, from
\* the first message on, none before it was sent, none twice and none skipped, and
\* nothing once it is closed (browser-ws-channels.ts, forwarder.ts).  As above,
\* localhost sockets are gone before the agent is back.
THEOREM Piped == ~SlowClose => (Spec => PipeSpec)
<1> SUFFICES ASSUME ~SlowClose PROVE Spec => PipeSpec
  OBVIOUS
<1>1. Init => Pipe!Init
  BY DEF Init, Pipe!Init, Life
<1> DEFINE Inv == TypeInv /\ ChannelInv /\ OrderInv /\ PendSent
<1>2. Inv /\ Inv' /\ [Next]_vars => [Pipe!Next]_(Pipe!vars)
  <2> SUFFICES ASSUME Inv, Inv', [Next]_vars PROVE Pipe!Next
    OBVIOUS
  <2>1. \A b \in Browser : Pipe!FrontStep(b)
    BY BrowsersGo, BrowsersGet, FrontSteps
  <2>2. \A l \in Local : Pipe!BackStep(l)
    BY LocalsGo, LocalsGet, BackSteps DEF OrderInv
  <2> QED  BY <2>1, <2>2 DEF Pipe!Next
<1>3. Spec => []Inv
  BY TypeHolds, ChannelHolds, OrderHolds, PendHolds, PTL
<1> HIDE DEF Inv
<1> QED  BY <1>1, <1>2, <1>3, PTL DEF Spec, PipeSpec, Pipe!Spec

-----------------------------------------------------------------------------
\* The connections a channel's frames travel on (GatewayEnd).
Link == [c \in Conn |-> LinkOf(c)]

LEMMA ConnTurns ==
  ASSUME TypeOK, NEW c \in Conn, NEW x \in {"closing", "closed"}, conn' = [conn EXCEPT ![c] = x]
  PROVE  Link' = [Link EXCEPT ![c] = IF x = "closing" THEN "closing" ELSE "none"]
BY DEF Link, LinkOf, TypeOK

LEMMA CurrentCloses ==
  ASSUME TypeOK, CloseCurrent
  PROVE  Link' = Gateway!Closed(ws)
BY NoneAssumption DEF Link, LinkOf, TypeOK, CloseCurrent, Sendable, Gateway!Closed

LEMMA GatewayStep ==
  ASSUME TypeOK, [Next]_vars
  PROVE  [Gateway!Next]_(Gateway!vars)
<1>1. ASSUME UNCHANGED <<online, ws, conn>>
      PROVE  UNCHANGED Gateway!vars
  BY <1>1 DEF Gateway!vars, LinkOf
<1>2. CASE UNCHANGED vars
  BY <1>1, <1>2 DEF vars, connVars
<1>3. ASSUME NEW b \in Browser, Upgrade(b) \/ BrowserMessage(b) \/ BrowserEvent(b)
      PROVE  UNCHANGED <<online, ws, conn>>
  BY <1>3 DEF Upgrade, BrowserMessage, BrowserEvent, connVars
<1>4. ASSUME NEW c \in Conn, Heartbeat(c)
      PROVE  Gateway!Heartbeat(c)
  BY <1>4 DEF Heartbeat, Gateway!Heartbeat, LinkOf
<1>5. ASSUME NEW c \in Conn, PeerClosing(c)
      PROVE  Gateway!Closing(c)
  BY <1>5 DEF PeerClosing, Gateway!Closing, Gateway!Closed, LinkOf, TypeOK
<1>6. ASSUME NEW c \in Conn, CloseEvent(c)
      PROVE  Gateway!CloseEvent(c)
  <2>1. Link' = [Link EXCEPT ![c] = "none"]
    BY <1>6, ConnTurns DEF CloseEvent
  <2>2. /\ LinkOf(c) # "none"
        /\ \/ ws = c /\ ws' = None /\ online' = FALSE
           \/ ws # c /\ UNCHANGED <<ws, online>>
    BY <1>6 DEF CloseEvent, LinkOf, TypeOK
  <2> QED BY <2>1, <2>2 DEF Gateway!CloseEvent, Link
<1>7. ASSUME NEW c \in Conn, Connect(c)
      PROVE  Gateway!Register(c)
  <2>1. Link' = [[d \in Conn |-> IF d = ws /\ Link[d] = "open" THEN "closing" ELSE Link[d]]
                   EXCEPT ![c] = "open"]
    BY <1>7 DEF Connect, Link, LinkOf, TypeOK
  <2>2. LinkOf(c) = "none" /\ ws' = c /\ online' = TRUE
    BY <1>7 DEF Connect, LinkOf
  <2> QED BY <2>1, <2>2 DEF Gateway!Register, Gateway!Closed, Link
<1>8. ASSUME NEW c \in Conn, GatewayReceives(c) \/ AgentReceives(c)
      PROVE  UNCHANGED <<online, ws, conn>>
  BY <1>8 DEF GatewayReceives, AgentReceives, connVars
<1>9. CASE HeartbeatTimeout
  <2>1. Link' = Gateway!Closed(ws)
    BY <1>9, CurrentCloses DEF HeartbeatTimeout
  <2> QED BY <1>9, <2>1 DEF HeartbeatTimeout, Gateway!Timeout, Gateway!Next, Link
<1>10. CASE Remove
  <2>1. Link' = Gateway!Closed(ws)
    BY <1>10, CurrentCloses DEF Remove
  <2> QED BY <1>10, <2>1 DEF Remove, Gateway!Remove, Gateway!Next, Link
<1>11. CASE Crash
  <2>1. \A c \in Conn : LinkOf(c)' = "none"
    BY <1>11 DEF Crash, LinkOf
  <2> QED BY <1>11, <2>1 DEF Crash, Gateway!Crash, Gateway!Next
<1>12. ASSUME NEW l \in Local,
              \/ LocalOpen(l) \/ LocalMessage(l) \/ LocalRefused(l)
              \/ LocalError(l) \/ LocalClose(l)
       PROVE  UNCHANGED <<online, ws, conn>>
  BY <1>12 DEF LocalOpen, LocalMessage, LocalRefused, LocalError, LocalClose, connVars
<1>13. ASSUME AgentDrops
       PROVE  UNCHANGED <<online, ws, conn>>
  BY <1>13 DEF AgentDrops
<1> QED
  BY <1>1, <1>2, <1>3, <1>4, <1>5, <1>6, <1>7, <1>8, <1>9, <1>10, <1>11, <1>12, <1>13
     DEF Next, Gateway!Next

\* The connections the channels travel on come and go as the registry allows.
THEOREM Connected == Spec => GatewaySpec
<1>1. Init => Gateway!Init
  BY DEF Init, Gateway!Init, LinkOf
<1>2. TypeOK /\ [Next]_vars => [Gateway!Next]_(Gateway!vars)
  BY GatewayStep
<1> QED BY <1>1, <1>2, TypeCorrect, PTL DEF Spec, GatewaySpec, Gateway!Spec

=============================================================================
