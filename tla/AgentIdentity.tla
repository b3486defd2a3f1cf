----------------------------- MODULE AgentIdentity -----------------------------
(***************************************************************************)
(* Who an agent says it is: its configuration, the pair of instance id and  *)
(* token it keeps in agent-state.jsonc, crashes while that file is written, *)
(* and the gateway's decision whom to register (src/agent/index.ts,         *)
(* config.ts, tunnel.ts; src/server/tunnel.ts, registry.ts).                *)
(*                                                                         *)
(* The agent runs under a supervisor that starts it again whenever it ends  *)
(* ("--restart unless-stopped" in deploy-instructions.ts).  Of its          *)
(* connection only the registration is here (see AgentTunnel for the rest), *)
(* and the gateway notices at once when it is lost (see Registry).          *)
(***************************************************************************)
EXTENDS Naturals, Sequences

CONSTANTS
  Id,         \* instance ids
  Token,      \* per-instance tokens; each is generated once
  MaxDeploys, \* bound on deployments of the agent
  MaxFaults,  \* bound on crashes of the agent and losses of its connection
  None

Pair == [id: Id, token: Token]
Presented == [id: Id \cup {None}, token: Token]

ASSUME NoneAssumption == None \notin Id \cup Token \cup Presented
ASSUME BoundAssumption == MaxDeploys \in Nat /\ MaxFaults \in Nat

VARIABLES
  entries,  \* the gateway's instances: their tokens
  owner,    \* the instance a token has been generated for, whether or not it still exists
  config,   \* the agent's deployment: instanceId, usually not given, and registrationToken
  file,     \* agent-state.jsonc: a pair, or None if there is none or it cannot be read
  own,      \* config in the agent's memory: what it says it is
  conn,     \* "off": no process; "connecting"; "sent": register is; "saving":
            \* saveAgentState is under way; "registered"
  as,       \* the instance the gateway has registered the connection as
  answers,  \* what is in flight to the agent: a pair (status ok), or None (an error,
            \* or a close frame with a permanent code)
  deploys, faults \* so far (bound the model only)

gatewayVars == <<entries, owner>>
connVars == <<conn, as, answers>>
vars == <<gatewayVars, config, file, own, connVars, deploys, faults>>

Init ==
  /\ entries = [i \in Id |-> None] /\ owner = [t \in Token |-> None]
  /\ config = None /\ file = None /\ own = None
  /\ conn = "off" /\ as = None /\ answers = <<>>
  /\ deploys = 0 /\ faults = 0

Exists(i) == entries[i] # None
Fault == faults < MaxFaults /\ faults' = faults + 1
\* The process ends; its file stays.
Ends == own' = None /\ conn' = "off" /\ as' = None /\ answers' = <<>>

-----------------------------------------------------------------------------
\* An instance is created, with a new token.
Create(i, t) ==
  /\ ~Exists(i) /\ owner[t] = None
  /\ entries' = [entries EXCEPT ![i] = t]
  /\ owner' = [owner EXCEPT ![t] = i]
  /\ UNCHANGED <<config, file, own, connVars, deploys, faults>>

\* Mutant: the connection outlives its instance.
KeepConnection(G) == UNCHANGED <<as, answers>>
CloseConnection(G) ==
  IF as \in G THEN as' = None /\ answers' = Append(answers, None)
              ELSE UNCHANGED <<as, answers>>
\* The instances in G are gone: one is deleted, or the gateway's state file is lost.
Remove(G) ==
  /\ \E i \in G : Exists(i)
  /\ entries' = [i \in Id |-> IF i \in G THEN None ELSE entries[i]]
  /\ CloseConnection(G)
  /\ UNCHANGED <<owner, config, file, own, conn, deploys, faults>>

\* The agent is deployed with an instance's token, with or without its id; its data
\* directory may be that of an earlier deployment.
Deploy(i, named) ==
  /\ Exists(i) /\ deploys < MaxDeploys
  /\ deploys' = deploys + 1
  /\ config' = [id |-> IF named THEN i ELSE None, token |-> entries[i]]
  /\ Ends
  /\ UNCHANGED <<gatewayVars, file, faults>>

-----------------------------------------------------------------------------
\* The saved pair replaces the configured one, unless an id is configured.
Loaded == IF file # None /\ config.id = None THEN file ELSE config
Start ==
  /\ config # None /\ conn = "off"
  /\ own' = Loaded
  /\ conn' = "connecting"
  /\ UNCHANGED <<gatewayVars, config, file, as, answers, deploys, faults>>

\* 'open': register, with the id if there is one.
Register ==
  /\ conn = "connecting"
  /\ conn' = "sent"
  /\ UNCHANGED <<gatewayVars, config, file, own, as, answers, deploys, faults>>

\* The gateway's handleControl: the token decides, an id that is declared must agree.
\* Mutant: the id must be declared.
MustDeclare(i) == entries[i] = own.token /\ own.id = i
Entitled(i) == entries[i] = own.token /\ own.id \in {None, i}
Answer ==
  /\ conn = "sent" /\ as = None /\ answers = <<>>
  /\ IF \E i \in Id : Entitled(i)
       THEN \E i \in Id : /\ Entitled(i)
                          /\ as' = i
                          /\ answers' = <<[id |-> i, token |-> entries[i]]>>
       ELSE answers' = <<None>> /\ UNCHANGED as
  /\ UNCHANGED <<gatewayVars, config, file, own, conn, deploys, faults>>

\* A permanent close code: the process has nothing left to do and ends.
Rejected ==
  /\ conn \in {"sent", "registered"} /\ answers # <<>> /\ Head(answers) = None
  /\ Ends
  /\ UNCHANGED <<gatewayVars, config, file, deploys, faults>>

\* onRegistered: saveAgentState writes a temporary file, then renames it.  Mutants: the
\* file is written in place; with the configured token.
WriteInPlace == file' = None
WriteTmp == UNCHANGED file
WithConfigured(a) == [a EXCEPT !.token = config.token]
Assigned(a) == a
Confirmed ==
  /\ conn = "sent" /\ answers # <<>> /\ Head(answers) # None
  /\ own' = Assigned(Head(answers))
  /\ WriteTmp
  /\ conn' = "saving"
  /\ answers' = Tail(answers)
  /\ UNCHANGED <<gatewayVars, config, as, deploys, faults>>
Rename ==
  /\ conn = "saving"
  /\ file' = own
  /\ conn' = "registered"
  /\ UNCHANGED <<gatewayVars, config, own, as, answers, deploys, faults>>

\* The process ends in the middle of anything.
Crash ==
  /\ Fault
  /\ conn # "off"
  /\ Ends
  /\ UNCHANGED <<gatewayVars, config, file, deploys>>

\* The connection is lost; the agent comes back on another.
Lost ==
  /\ Fault
  /\ conn \in {"sent", "registered"}
  /\ conn' = "connecting" /\ as' = None /\ answers' = <<>>
  /\ UNCHANGED <<gatewayVars, config, file, own, deploys>>

Next ==
  \/ \E i \in Id, t \in Token : Create(i, t)
  \/ \E i \in Id : Remove({i})
  \/ Remove(Id)
  \/ \E i \in Id, named \in BOOLEAN : Deploy(i, named)
  \/ Start \/ Register \/ Answer \/ Rejected \/ Confirmed \/ Rename
  \/ Crash \/ Lost

Spec == Init /\ [][Next]_vars

\* The supervisor starts the agent, frames arrive, and what the agent does it finishes.
Fairness ==
  /\ WF_vars(Start) /\ WF_vars(Register) /\ WF_vars(Answer)
  /\ WF_vars(Rejected) /\ WF_vars(Confirmed) /\ WF_vars(Rename)
FairSpec == Spec /\ Fairness

-----------------------------------------------------------------------------
\* Every variable has its type.
TypeOK ==
  /\ entries \in [Id -> Token \cup {None}] /\ owner \in [Token -> Id \cup {None}]
  /\ config \in Presented \cup {None}
  /\ file \in Pair \cup {None}
  /\ own \in Presented \cup {None}
  /\ conn \in {"off", "connecting", "sent", "saving", "registered"}
  /\ as \in Id \cup {None}
  /\ answers \in Seq(Pair \cup {None})
  /\ deploys \in 0 .. MaxDeploys /\ faults \in 0 .. MaxFaults

\* An agent never serves an instance with a token that is not that instance's own:
\* not if the instance it had is deleted and its id given to a new one, not if the
\* gateway has lost its state (ADR 0004: it "should fail cleanly rather than silently
\* registering to the wrong instance").
NoImpostor == as # None => entries[as] = own.token

\* The saved id and token belong together, whatever was configured before or after,
\* and whichever connection the answer came on.
SavedPairBelongs == file # None => owner[file.token] = file.id

\* A crash never costs the agent the identity it has saved (ADR 0004: "written
\* atomically").
NeverForgets == [][file # None => file' # None]_vars

\* An agent that starts with a pair the gateway knows ends up registered as that
\* instance, however often it crashes or loses its connection in between.
Knows(i) == config # None /\ entries[i] = Loaded.token /\ Loaded.id \in {None, i}
Returns == \A i \in Id : Knows(i) ~> ((conn = "registered" /\ as = i) \/ ~Knows(i))

=============================================================================
