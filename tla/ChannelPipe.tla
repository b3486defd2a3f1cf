----------------------------- MODULE ChannelPipe -----------------------------
(***************************************************************************)
(* What the portal promises the two ends of a WebSocket channel, a browser  *)
(* and the OpenCode server on localhost, whatever tunnel connections, ids   *)
(* and processes come and go in between: a pipe.  A browser's socket is     *)
(* joined to one socket on localhost at most, and that one to it, for good; *)
(* each gets what the other has sent, from the first message on, in order,  *)
(* without a gap; nothing before it is open or after it was closed.         *)
(***************************************************************************)
EXTENDS Integers, Sequences

CONSTANTS Browser, Local, None

VARIABLES
  front, back,  \* life of each browser socket, of each localhost socket
  for,          \* the browser socket a localhost socket is joined to
  bsent, lsent, \* how many messages each has sent
  bgot, lgot    \* the messages each has got: <<sender, number>>

vars == <<front, back, for, bsent, lsent, bgot, lgot>>

Init ==
  /\ front = [b \in Browser |-> "new"] /\ back = [l \in Local |-> "new"]
  /\ for = [l \in Local |-> None]
  /\ bsent = [b \in Browser |-> 0] /\ lsent = [l \in Local |-> 0]
  /\ bgot = [b \in Browser |-> <<>>] /\ lgot = [l \in Local |-> <<>>]

\* A socket's life goes one way; it may be cut at any time.
Closes == {<<"open", "closing">>, <<"open", "over">>, <<"closing", "over">>}
FrontMoves == {<<"new", "open">>} \cup Closes
BackMoves == {<<"new", "connecting">>, <<"connecting", "open">>, <<"connecting", "over">>}
               \cup Closes
Goes(x, y, Moves) == x = y \/ <<x, y>> \in Moves

\* A socket sends while it is open, and until its close is complete.
Sends(life, n, m) == m = n \/ (life \in {"open", "closing"} /\ m = n + 1)

\* The first n messages of a sender.
Numbered(x, n) == [k \in 1 .. n |-> <<x, k>>]

\* A browser gets the next message of the socket that is joined to it.
FrontGets(b) ==
  \/ bgot'[b] = bgot[b]
  \/ /\ front[b] = "open"
     /\ \E l \in Local : /\ for[l] = b /\ Len(bgot[b]) < lsent[l]
                         /\ bgot'[b] = Numbered(l, Len(bgot[b]) + 1)

\* A localhost socket gets one message, or, when it opens, all that have waited for it.
BackGets(l) ==
  \/ lgot'[l] = lgot[l]
  \/ /\ back'[l] = "open"
     /\ \E n \in (Len(lgot[l]) + 1) .. bsent[for[l]] : lgot'[l] = Numbered(for[l], n)

\* A localhost socket is opened for a browser's socket that no other was opened for.
Joins(l) ==
  IF back[l] = "new" /\ back'[l] = "connecting"
    THEN /\ for'[l] \in Browser /\ front[for'[l]] # "new"
         /\ \A k \in Local \ {l} : for'[k] # for'[l]
    ELSE for'[l] = for[l]

FrontStep(b) == /\ Goes(front[b], front'[b], FrontMoves)
                /\ Sends(front[b], bsent[b], bsent'[b])
                /\ FrontGets(b)
BackStep(l) == /\ Goes(back[l], back'[l], BackMoves)
               /\ Joins(l)
               /\ Sends(back[l], lsent[l], lsent'[l])
               /\ BackGets(l)

\* Several sockets may move at once, as when a connection ends.
Next == (\A b \in Browser : FrontStep(b)) /\ (\A l \in Local : BackStep(l))

Spec == Init /\ [][Next]_vars

=============================================================================
