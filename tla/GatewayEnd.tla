------------------------------ MODULE GatewayEnd ------------------------------
(***************************************************************************)
(* What the gateway promises about one instance's tunnel connections to     *)
(* whoever sends on them: Registry keeps the promise for each of its         *)
(* instances, ProxyRequests and WsChannels have no other connections than    *)
(* it allows.                                                               *)
(***************************************************************************)
CONSTANTS Conn, None

VARIABLES
  current, \* the connection that is sent on, or None
  link,    \* each connection: not registered, open, or being closed
  shown    \* the instance is shown online

vars == <<current, link, shown>>

Init ==
  /\ current = None
  /\ link = [c \in Conn |-> "none"]
  /\ shown = FALSE

\* close() on a connection: it matters to an open one only.
Closed(c) == [d \in Conn |-> IF d = c /\ link[d] = "open" THEN "closing" ELSE link[d]]

\* An agent registers on a new connection, which supersedes the one it had.
Register(c) ==
  /\ link[c] = "none"
  /\ current' = c
  /\ link' = [Closed(current) EXCEPT ![c] = "open"]
  /\ shown' = TRUE

\* A heartbeat on a connection that is being closed counts as well.
Heartbeat(c) ==
  /\ link[c] = "closing"
  /\ shown' = TRUE
  /\ UNCHANGED <<current, link>>

\* No heartbeat for too long: given up, but sent on no more.
Timeout ==
  /\ shown
  /\ shown' = FALSE
  /\ link' = Closed(current)
  /\ UNCHANGED current

\* Either side begins to close an open connection.
Closing(c) ==
  /\ link[c] = "open"
  /\ link' = Closed(c)
  /\ UNCHANGED <<current, shown>>

\* The instance is deleted.
Remove ==
  /\ current' = None
  /\ shown' = FALSE
  /\ link' = Closed(current)

\* 'close' on a connection: the instance is offline if it was the current one.
CloseEvent(c) ==
  /\ link[c] # "none"
  /\ link' = [link EXCEPT ![c] = "none"]
  /\ \/ current = c /\ current' = None /\ shown' = FALSE
     \/ current # c /\ UNCHANGED <<current, shown>>

\* The gateway's process ends.
Crash ==
  /\ current' = None
  /\ link' = [c \in Conn |-> "none"]
  /\ shown' = FALSE

Next ==
  \/ Timeout \/ Remove \/ Crash
  \/ \E c \in Conn : Register(c) \/ Heartbeat(c) \/ Closing(c) \/ CloseEvent(c)

Spec == Init /\ [][Next]_vars

\* What the senders rely on.  A connection that could carry a frame is the one that is
\* sent on, of an instance that is shown online: nothing is sent on a superseded one.
OnlyCurrentOpen == \A c \in Conn : link[c] = "open" => current = c /\ shown
\* The connection that is sent on has not been closed yet: its 'close' is still to
\* come, and with it the clean-up of what was sent.
CurrentIsLinked == current # None => current \in Conn /\ link[current] # "none"

\* A connection that was given up, superseded or closed is never sent on again, however
\* late its frames and its 'close' come: a new one has to register.
GivenUp(c) == link[c] # "none" /\ (current # c \/ link[c] = "closing")
StaysGivenUp == \A c \in Conn : GivenUp(c) => GivenUp(c)' \/ link'[c] = "none"
GivenUpForGood == [][StaysGivenUp]_vars

===============================================================================
