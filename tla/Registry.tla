------------------------------ MODULE Registry ------------------------------
(***************************************************************************)
(* The gateway's instance registry and the agent side of its tunnel        *)
(* server (src/server/registry.ts, src/server/tunnel.ts, and the wiring of *)
(* src/server/index.ts): which instances exist, which agent socket speaks  *)
(* for each of them, the heartbeat timer that watches it, and the state    *)
(* file that survives a restart.                                           *)
(*                                                                         *)
(* Sockets are Node `ws` objects.  Their life is                           *)
(*   open    readyState OPEN, the peer may talk                            *)
(*   lost    readyState OPEN, the peer vanished without a FIN              *)
(*   closing close() was called here: readyState CLOSING, but frames the   *)
(*           peer sent before it saw the close frame are still delivered   *)
(*   ended   the peer's end of stream has been read, 'close' not emitted   *)
(*   closed  'close' emitted; the identity may be given to a new socket    *)
(* JavaScript runs one handler to its end, so each handler is one action.  *)
(***************************************************************************)
EXTENDS Integers, FiniteSets

CONSTANTS
  InstanceId,     \* subdomain-valid instance ids
  Token,          \* per-instance agent tokens (ocp-at-*)
  Name,           \* display names: stands for all PATCHable metadata
  Address,        \* remote addresses of agents
  Socket,         \* how many agent sockets may exist at once
  MaxSessions,    \* bound on a heartbeat's sessionCount
  MaxFailures,    \* bound on failed writes of the state file
  None, Off       \* no value; timer not armed

ASSUME NoneAssumption ==
  None \notin InstanceId \cup Token \cup Name \cup Address \cup Socket \cup {Off}
ASSUME OffAssumption == Off \notin Socket
ASSUME BoundAssumption == MaxSessions \in Nat /\ MaxFailures \in Nat

VARIABLES
  entry,      \* registry.entries: what each id maps to (NoEntry: absent)
  tokenIndex, \* registry.tokenIndex
  ws,         \* registry.connections[i].ws (None: null, or no connection record)
  timer,      \* registry.connections[i].heartbeatTimer: the ws it was armed for
  sock,       \* life of each socket, as above
  bound,      \* the instanceId closed over by a socket's listeners
  disk,       \* state.jsonc: the persisted part of each entry
  unsaved,    \* the last write of state.jsonc failed
  failures,   \* failed writes so far (bounds the model only)
  stopping,   \* shutdown() has run, process.exit is pending
  shared      \* history: the file this process has hydrated from gives one token
              \* to two instances (only a file edited by hand does)

vars == <<entry, tokenIndex, ws, timer, sock, bound, disk, unsaved, failures, stopping, shared>>
procVars == <<stopping, shared>>
connVars == <<ws, timer>>
diskVars == <<disk, unsaved, failures>>

Status == {"online", "offline"}
Sessions == 0 .. MaxSessions

Entry == [token: Token, name: Name, agentIp: Address \cup {None},
          status: Status, sessions: Sessions]
NoEntry == [token |-> None, name |-> None, agentIp |-> None,
            status |-> "offline", sessions |-> 0]
Stored == [token: Token, name: Name, agentIp: Address \cup {None}]
NotStored == [token |-> None, name |-> None, agentIp |-> None]

Known(i) == entry[i].token # None
OnDisk(i) == disk[i].token # None
Online(i) == entry[i].status = "online"

\* ws.readyState === ws.OPEN: what the code can see of a socket.
ReadyOpen(s) == sock[s] \in {"open", "lost"}
\* A frame of this socket may still reach its 'message' listener.
Talks(s) == sock[s] \in {"open", "closing"}

\* toPersistState: the snapshot store.save writes.
Snapshot(e) ==
  [i \in InstanceId |-> [token |-> e[i].token, name |-> e[i].name, agentIp |-> e[i].agentIp]]

\* hydrate: every persisted instance comes back offline, with no session.
Hydrated(d) ==
  [i \in InstanceId |->
     [token |-> d[i].token, name |-> d[i].name, agentIp |-> d[i].agentIp,
      status |-> "offline", sessions |-> 0]]

Holders(d, t) == {i \in InstanceId : d[i].token = t}
\* Mutant: the index is filled by create only.
NotRebuilt(d) == {[t \in Token |-> None]}
\* The token index hydrate builds: of several holders of one token, the first in
\* the file's order.  The file's order is not modelled: any holder may be first.
HydratedIndex(d) ==
  {f \in [Token -> InstanceId \cup {None}] :
     \A t \in Token : IF Holders(d, t) = {} THEN f[t] = None ELSE f[t] \in Holders(d, t)}

DistinctTokens(d) ==
  \A i, j \in InstanceId : d[i].token = d[j].token /\ d[i].token # None => i = j

\* verifyToken: the index entry, if that instance still exists.
VerifyToken(t) ==
  IF tokenIndex[t] # None /\ Known(tokenIndex[t]) THEN tokenIndex[t] ELSE None

Init ==
  /\ disk \in [InstanceId -> Stored \cup {NotStored}]
  /\ entry = Hydrated(disk)
  /\ tokenIndex \in HydratedIndex(disk)
  /\ ws = [i \in InstanceId |-> None]
  /\ timer = [i \in InstanceId |-> Off]
  /\ sock = [s \in Socket |-> "closed"]
  /\ bound = [s \in Socket |-> None]
  /\ unsaved = FALSE
  /\ failures = 0
  /\ stopping = FALSE
  /\ shared = ~DistinctTokens(disk)

-----------------------------------------------------------------------------
\* store.save(buildPersistState()): write to a temporary file, then rename it.
\* A write may fail; then the old file stays as it was.
\* Mutant: the snapshot is taken before the change.
SaveStale(e) == disk' = Snapshot(entry) /\ unsaved' = FALSE /\ UNCHANGED failures
SaveOk(e) == disk' = Snapshot(e) /\ unsaved' = FALSE /\ UNCHANGED failures
SaveFails == failures < MaxFailures /\ failures' = failures + 1
             /\ unsaved' = TRUE /\ UNCHANGED disk
\* From an API handler a failed save is a 500 after the registry has changed.
Save(e) == SaveOk(e) \/ SaveFails

\* randomBytes(16): a new token differs from every token in use.
Fresh(t) == \A i \in InstanceId : entry[i].token # t /\ disk[i].token # t

\* ws.close(): only an OPEN socket changes; closing a closing one does nothing.
Close(s) == IF ReadyOpen(s) THEN [sock EXCEPT ![s] = "closing"] ELSE sock

Create(i, t, n) ==
  /\ ~Known(i)
  /\ Fresh(t)
  /\ entry' = [entry EXCEPT ![i] = [token |-> t, name |-> n, agentIp |-> None,
                                    status |-> "offline", sessions |-> 0]]
  /\ tokenIndex' = [tokenIndex EXCEPT ![t] = i]
  /\ Save(entry')
  /\ UNCHANGED <<connVars, sock, bound, procVars>>

Update(i, n) ==
  /\ Known(i)
  /\ entry' = [entry EXCEPT ![i].name = n]
  /\ Save(entry')
  /\ UNCHANGED <<tokenIndex, connVars, sock, bound, procVars>>

\* The index entry goes only if it maps to the removed instance: a hand-edited
\* file may give the token to two instances, and the other must not be stranded.
\* Mutant: dropped for whoever holds it.
DropAnyToken(i) == [tokenIndex EXCEPT ![entry[i].token] = None]
DropToken(i) ==
  IF tokenIndex[entry[i].token] = i
    THEN [tokenIndex EXCEPT ![entry[i].token] = None] ELSE tokenIndex

Remove(i) ==
  /\ Known(i)
  /\ sock' = IF ws[i] = None THEN sock ELSE Close(ws[i])
  /\ tokenIndex' = DropToken(i)
  /\ ws' = [ws EXCEPT ![i] = None]
  /\ timer' = [timer EXCEPT ![i] = Off]
  /\ entry' = [entry EXCEPT ![i] = NoEntry]
  /\ Save(entry')
  /\ UNCHANGED <<bound, procVars>>

-----------------------------------------------------------------------------
\* An agent's upgrade on /agent/connect completes: a new ws, closed over nothing.
Connect(s) ==
  /\ ~stopping
  /\ sock[s] = "closed"
  /\ sock' = [sock EXCEPT ![s] = "open"]
  /\ UNCHANGED <<entry, tokenIndex, connVars, bound, diskVars, procVars>>

\* What handleControl makes of a register message with token t and declared id d.
Accepts(t, d, i) == VerifyToken(t) = i /\ d \in {None, i}

\* registry.register: close the connection this one supersedes, adopt the new
\* one, arm its timer.
\* Mutant: the superseded connection is left open.
AdoptOnly(i, s) == sock
Supersede(i, s) ==
  IF ws[i] # None /\ ws[i] # s THEN Close(ws[i]) ELSE sock

\* register, accepted: adopt the socket, store the agent's address (which saves),
\* answer `registered`.
Register(s, t, d, a) ==
  /\ sock[s] = "open" /\ bound[s] = None
  /\ \E i \in InstanceId :
       /\ Accepts(t, d, i)
       /\ sock' = Supersede(i, s)
       /\ ws' = [ws EXCEPT ![i] = s]
       /\ timer' = [timer EXCEPT ![i] = s]
       /\ bound' = [bound EXCEPT ![s] = i]
       /\ entry' = [entry EXCEPT ![i].status = "online", ![i].agentIp = a]
  /\ SaveOk(entry')
  /\ UNCHANGED <<tokenIndex, procVars>>

\* register, refused: unknown token or token of another instance (4001).
RefuseRegister(s, t, d) ==
  /\ sock[s] = "open" /\ bound[s] = None
  /\ ~\E i \in InstanceId : Accepts(t, d, i)
  /\ sock' = [sock EXCEPT ![s] = "closing"]
  /\ UNCHANGED <<entry, tokenIndex, connVars, bound, diskVars, procVars>>

\* resetHeartbeat: the timer is armed for the connection of the moment, which may
\* be null.  Mutants: the old timer is cleared and none armed; no timer without
\* a connection... but the instance is online all the same.
ClearOnly(i) == [timer EXCEPT ![i] = Off]
ArmIfConnected(i) == [timer EXCEPT ![i] = IF ws[i] = None THEN timer[i] ELSE ws[i]]
ResetHeartbeat(i) == [timer EXCEPT ![i] = ws[i]]

\* A heartbeat from a socket that has registered.  The entry it finds is the one
\* the id maps to now.
Heartbeat(s, n) ==
  /\ Talks(s) /\ bound[s] # None
  /\ Known(bound[s])
  /\ LET i == bound[s] IN
       /\ entry' = [entry EXCEPT ![i].sessions = n, ![i].status = "online"]
       /\ timer' = ResetHeartbeat(i)
  /\ UNCHANGED <<tokenIndex, ws, sock, bound, diskVars, procVars>>

\* handleHeartbeatTimeout.  Mutant: the expired connection is not closed.
LeaveOpen(i) == sock
CloseExpired(i) == IF timer[i] # None /\ ws[i] = timer[i] THEN Close(timer[i]) ELSE sock

\* The heartbeat timer of instance i expires: offline, and the ws that owned
\* the timer is closed if it is still the instance's connection.
HeartbeatTimeout(i) ==
  /\ timer[i] # Off
  /\ timer' = [timer EXCEPT ![i] = Off]
  /\ entry' = [entry EXCEPT ![i].status = "offline"]
  /\ sock' = CloseExpired(i)
  /\ UNCHANGED <<tokenIndex, ws, bound, diskVars, procVars>>

\* The peer's machine or network goes away without a word.
Lose(s) ==
  /\ sock[s] = "open"
  /\ sock' = [sock EXCEPT ![s] = "lost"]
  /\ UNCHANGED <<entry, tokenIndex, connVars, bound, diskVars, procVars>>

\* The peer's close frame or end of stream arrives, or ws gives up waiting for it.
End(s) ==
  /\ sock[s] \in {"open", "closing"}
  /\ sock' = [sock EXCEPT ![s] = "ended"]
  /\ UNCHANGED <<entry, tokenIndex, connVars, bound, diskVars, procVars>>

ClearTimer(i) == [timer EXCEPT ![i] = Off]

Disconnected(e) == [token |-> e.token, name |-> e.name, agentIp |-> e.agentIp,
                    status |-> "offline", sessions |-> 0]

\* 'close' is emitted: the listener register() added, if the socket got that far.
CloseEvent(s) ==
  /\ sock[s] = "ended"
  /\ sock' = [sock EXCEPT ![s] = "closed"]
  /\ bound' = [bound EXCEPT ![s] = None]
  /\ IF bound[s] # None /\ ws[bound[s]] = s
       THEN LET i == bound[s] IN
            /\ ws' = [ws EXCEPT ![i] = None]
            /\ timer' = ClearTimer(i)
            /\ entry' = [entry EXCEPT ![i] = Disconnected(@)]
       ELSE UNCHANGED <<entry, connVars>>
  /\ UNCHANGED <<tokenIndex, diskVars, procVars>>

-----------------------------------------------------------------------------
\* SIGTERM: close the connection of every online instance, save once more.  The
\* sockets' events go on until the process exits.
Shutdown ==
  /\ ~stopping
  /\ stopping' = TRUE
  /\ sock' = [s \in Socket |->
                IF ReadyOpen(s) /\ \E i \in InstanceId : Online(i) /\ ws[i] = s
                  THEN "closing" ELSE sock[s]]
  /\ SaveOk(entry)
  /\ UNCHANGED <<entry, tokenIndex, connVars, bound, shared>>

\* The process dies (exit after shutdown, a crash, or an exception out of a
\* 'message' listener, as when register's save fails) and starts again.
Restart ==
  /\ entry' = Hydrated(disk)
  /\ tokenIndex' \in HydratedIndex(disk)
  /\ ws' = [i \in InstanceId |-> None]
  /\ timer' = [i \in InstanceId |-> Off]
  /\ sock' = [s \in Socket |-> "closed"]
  /\ bound' = [s \in Socket |-> None]
  /\ unsaved' = FALSE
  /\ stopping' = FALSE
  /\ shared' = ~DistinctTokens(disk)
  /\ UNCHANGED <<disk, failures>>

Next ==
  \/ \E i \in InstanceId, t \in Token, n \in Name : Create(i, t, n)
  \/ \E i \in InstanceId, n \in Name : Update(i, n)
  \/ \E i \in InstanceId : Remove(i) \/ HeartbeatTimeout(i)
  \/ \E s \in Socket : Connect(s) \/ Lose(s) \/ End(s) \/ CloseEvent(s)
  \/ \E s \in Socket, t \in Token, d \in InstanceId \cup {None} :
       RefuseRegister(s, t, d) \/ \E a \in Address : Register(s, t, d, a)
  \/ \E s \in Socket, n \in Sessions : Heartbeat(s, n)
  \/ Shutdown
  \/ Restart

\* Nothing that could still postpone instance i's timer is left.
Silent(i) == \A s \in Socket : ~(Talks(s) /\ bound[s] = i)

\* Node runs its timers: with nobody left to send a heartbeat, an armed one
\* expires.  ws emits 'close' after a bounded wait for the peer (30 s).
Fairness ==
  /\ \A i \in InstanceId : WF_vars(Silent(i) /\ HeartbeatTimeout(i))
  /\ \A s \in Socket : WF_vars(sock[s] = "closing" /\ End(s))
  /\ \A s \in Socket : WF_vars(CloseEvent(s))

Spec == Init /\ [][Next]_vars
FairSpec == Spec /\ Fairness

-----------------------------------------------------------------------------
\* Every variable has its type; None stands for null and undefined.
TypeOK ==
  /\ entry \in [InstanceId -> Entry \cup {NoEntry}]
  /\ tokenIndex \in [Token -> InstanceId \cup {None}]
  /\ ws \in [InstanceId -> Socket \cup {None}]
  /\ timer \in [InstanceId -> Socket \cup {None, Off}]
  /\ sock \in [Socket -> {"open", "lost", "closing", "ended", "closed"}]
  /\ bound \in [Socket -> InstanceId \cup {None}]
  /\ disk \in [InstanceId -> Stored \cup {NotStored}]
  /\ unsaved \in BOOLEAN
  /\ failures \in 0 .. MaxFailures
  /\ stopping \in BOOLEAN
  /\ shared \in BOOLEAN

\* The index never leads to an instance with another token.
IndexSound == \A t \in Token : tokenIndex[t] # None => entry[tokenIndex[t]].token = t

\* The token index is kept in sync with the entries by create, remove and hydrate
\* (the comment on tokenIndex): a token leads to an instance that has it, and every
\* instance's token leads to it, whatever was created, deleted, half-saved or
\* restarted in between; the latter unless this process found a token in the state
\* file twice.
TokensResolve ==
  /\ IndexSound
  /\ shared \/ \A i \in InstanceId : Known(i) => tokenIndex[entry[i].token] = i

\* An agent socket that is open and registered is the connection of an existing,
\* online instance and is watched by that instance's timer: so an instance has
\* at most one open connection, a superseded or timed-out or deleted agent's
\* socket is being closed, a late 'close' of an old socket cannot take the new
\* one's instance offline, and no open connection goes unwatched.
OpenIsCurrent ==
  \A s \in Socket : ReadyOpen(s) /\ bound[s] # None =>
     LET i == bound[s] IN Known(i) /\ Online(i) /\ ws[i] = s /\ timer[i] = s

\* An armed timer was armed for the connection the instance has now (or for
\* null, when it has none): no expiry is aimed at a connection already replaced,
\* so handleHeartbeatTimeout's identity check never has to reject one.
TimerOwnsConnection == \A i \in InstanceId : timer[i] # Off => timer[i] = ws[i]

\* An instance is shown online exactly while a timer runs that will take it
\* offline again: no instance stays online for ever on old news.
OnlineIsTimed == \A i \in InstanceId : Online(i) <=> timer[i] # Off

\* Unless the last write failed, the state file holds what the registry holds:
\* a crash at any moment loses no completed operation, and the next write after
\* a failed one repairs the file whatever it is about.
DiskIsCurrent == ~unsaved => disk = Snapshot(entry)

\* To an instance's senders, the registry is what GatewayEnd promises.
LinkOf(i, s) == IF bound[s] # i THEN "none" ELSE IF ReadyOpen(s) THEN "open" ELSE "closing"
Gateway(i) == INSTANCE GatewayEnd WITH Conn <- Socket, current <- ws[i], shown <- Online(i),
                                       link <- [s \in Socket |-> LinkOf(i, s)]
GatewaySpec(i) == Gateway(i)!Spec

Resolves(i) == Known(i) /\ VerifyToken(entry[i].token) = i

\* Deleting one instance never makes another one's agent unable to register:
\* the case the comment in remove() is about, two instances with one token, as
\* long as the token led to the other one.
RemoveStrandsNobody ==
  [][\A i \in InstanceId : Remove(i) =>
       \A j \in InstanceId \ {i} : Resolves(j) => Resolves(j)']_vars

\* An instance that is online although nobody is left who could speak for it
\* (the last heartbeat came from a socket already superseded, or the connection
\* is half-open) does not stay so.
GhostExpires ==
  \A i \in InstanceId : (Online(i) /\ Silent(i)) ~> (~Online(i) \/ ~Silent(i))

\* A registered connection whose peer vanished is eventually given up: nothing
\* but the heartbeat timer notices that it is dead.
LostIsReleased ==
  \A s \in Socket : (sock[s] = "lost" /\ bound[s] # None) ~> sock[s] = "closed"

=============================================================================
