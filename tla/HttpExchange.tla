---------------------------- MODULE HttpExchange ----------------------------
(***************************************************************************)
(* What the portal promises the browser about each of its HTTP requests,    *)
(* whatever agents, connections and timers do: one status line at most,     *)
(* either followed by the whole answer at once, or, for an event stream, by *)
(* chunks until the stream is ended once; and nothing after the end.        *)
(***************************************************************************)
CONSTANTS Request, Codes, None

VARIABLES phase, code
vars == <<phase, code>>

Phase == {"idle", "asked", "sent", "answered", "streaming", "over", "gone"}

Init == /\ phase = [r \in Request |-> "idle"]
        /\ code = [r \in Request |-> None]

Stays(r) == phase'[r] = phase[r] /\ code'[r] = code[r]

\* The request's body is being read; then the request is on its way to the agent.
Ask(r) == phase[r] = "idle" /\ phase'[r] = "asked" /\ code'[r] = code[r]
Send(r) == phase[r] = "asked" /\ phase'[r] = "sent" /\ code'[r] = code[r]

\* A complete answer.  504 is only for a request an agent was asked about.
Answer(r) ==
  /\ phase[r] \in {"idle", "asked", "sent"}
  /\ phase'[r] = "answered"
  /\ code'[r] \in Codes \ {"sse"}
  /\ code'[r] = "504" => phase[r] = "sent"
  /\ code'[r] = "413" => phase[r] \in {"idle", "asked"}

\* An event stream begins, and ends.
Begin(r) == phase[r] = "sent" /\ phase'[r] = "streaming" /\ code'[r] = "sse"
End(r) == phase[r] = "streaming" /\ phase'[r] = "over" /\ code'[r] = code[r]

\* The browser goes away first.
Leave(r) ==
  /\ phase[r] \in {"asked", "sent", "streaming"}
  /\ phase'[r] = "gone"
  /\ code'[r] = code[r]

Step(r) == Stays(r) \/ Ask(r) \/ Send(r) \/ Answer(r) \/ Begin(r) \/ End(r) \/ Leave(r)

\* Several requests may move at once, as when their agent disconnects.
Next == \A r \in Request : Step(r)

Spec == Init /\ [][Next]_vars

-----------------------------------------------------------------------------
Over == {"answered", "over", "gone"}

\* What the browser can rely on.  A status line, once written, is never replaced, by a
\* timeout, a late frame or a disconnect.
StatusOnce == [][\A r \in Request : code[r] # None => code'[r] = code[r]]_vars

\* An exchange that is over, answered in full or left by its browser, stays as it is.
Settled == \A r \in Request : phase[r] \in Over => Stays(r)
OverForGood == [][Settled]_vars

\* What is written tells how far the exchange is: none before an answer, that of a
\* stream exactly once it has begun (unless its browser has left).
StatusTells ==
  \A r \in Request :
    /\ phase[r] \in {"idle", "asked", "sent"} => code[r] = None
    /\ phase[r] = "answered" => code[r] \in Codes \ {"sse"}
    /\ phase[r] \in {"streaming", "over"} => code[r] = "sse"
    /\ phase[r] = "gone" => code[r] \in {None, "sse"}

=============================================================================
