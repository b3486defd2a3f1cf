--------------------------- MODULE RegistryProofs ---------------------------
(***************************************************************************)
(* What Registry keeps true for every set of instances, tokens and sockets. *)
(* One inductive invariant per concern: types, the token index with the     *)
(* state file, and the connections with their timers.                       *)
(***************************************************************************)
EXTENDS Registry, TLAPS

USE DEF vars, connVars, diskVars, procVars

\* What a save leaves in the state file: the old contents or the snapshot.
LEMMA SaveTypes ==
  ASSUME TypeOK, NEW e \in [InstanceId -> Entry \cup {NoEntry}], Save(e)
  PROVE  /\ disk' \in [InstanceId -> Stored \cup {NotStored}]
         /\ unsaved' \in BOOLEAN
         /\ failures' \in 0 .. MaxFailures
<1>1. Snapshot(e) \in [InstanceId -> Stored \cup {NotStored}]
  <2> SUFFICES ASSUME NEW i \in InstanceId
               PROVE  [token |-> e[i].token, name |-> e[i].name, agentIp |-> e[i].agentIp]
                        \in Stored \cup {NotStored}
    BY DEF Snapshot
  <2>1. CASE e[i] \in Entry
    BY <2>1 DEF Entry, Stored
  <2>2. CASE e[i] = NoEntry
    BY <2>2 DEF NoEntry, NotStored
  <2> QED BY <2>1, <2>2
<1>2. CASE SaveOk(e)
  BY <1>1, <1>2 DEF TypeOK, SaveOk
<1>3. CASE SaveFails
  BY <1>3, BoundAssumption DEF TypeOK, SaveFails
<1> QED BY <1>2, <1>3 DEF Save

\* Closing a socket leaves the table of socket states well typed.
LEMMA CloseTypes ==
  ASSUME TypeOK, NEW s \in Socket
  PROVE  Close(s) \in [Socket -> {"open", "lost", "closing", "ended", "closed"}]
BY DEF TypeOK, Close, ReadyOpen

\* Hydration yields a well-typed registry.
LEMMA HydrateTypes ==
  ASSUME NEW d \in [InstanceId -> Stored \cup {NotStored}]
  PROVE  Hydrated(d) \in [InstanceId -> Entry \cup {NoEntry}]
<1> SUFFICES ASSUME NEW i \in InstanceId
             PROVE  [token |-> d[i].token, name |-> d[i].name, agentIp |-> d[i].agentIp,
                     status |-> "offline", sessions |-> 0] \in Entry \cup {NoEntry}
  BY DEF Hydrated
<1>1. CASE d[i] \in Stored
  BY <1>1, BoundAssumption DEF Entry, Stored, Status, Sessions
<1>2. CASE d[i] = NotStored
  BY <1>2 DEF NoEntry, NotStored
<1> QED BY <1>1, <1>2

\* An id that is known maps to a full entry.
LEMMA KnownEntry ==
  ASSUME TypeOK, NEW i \in InstanceId, Known(i)
  PROVE  entry[i] \in Entry
BY DEF TypeOK, Known, NoEntry

LEMMA TypeStep ==
  ASSUME TypeOK, [Next]_vars
  PROVE  TypeOK'
<1>1. CASE UNCHANGED vars
  BY <1>1 DEF TypeOK
<1>2. ASSUME NEW i \in InstanceId, NEW t \in Token, NEW n \in Name, Create(i, t, n)
      PROVE  TypeOK'
  <2>1. entry' \in [InstanceId -> Entry \cup {NoEntry}]
    BY <1>2, BoundAssumption DEF TypeOK, Create, Entry, Status, Sessions
  <2>2. tokenIndex' \in [Token -> InstanceId \cup {None}]
    BY <1>2 DEF TypeOK, Create
  <2> QED BY <1>2, <2>1, <2>2, SaveTypes DEF TypeOK, Create
<1>3. ASSUME NEW i \in InstanceId, NEW n \in Name, Update(i, n)
      PROVE  TypeOK'
  <2>1. entry' \in [InstanceId -> Entry \cup {NoEntry}]
    BY <1>3, KnownEntry DEF TypeOK, Update, Entry
  <2> QED BY <1>3, <2>1, SaveTypes DEF TypeOK, Update
<1>4. ASSUME NEW i \in InstanceId, Remove(i)
      PROVE  TypeOK'
  <2>1. entry' \in [InstanceId -> Entry \cup {NoEntry}]
    BY <1>4 DEF TypeOK, Remove
  <2>2. sock' \in [Socket -> {"open", "lost", "closing", "ended", "closed"}]
    BY <1>4, CloseTypes DEF TypeOK, Remove
  <2>3. tokenIndex' \in [Token -> InstanceId \cup {None}]
    BY <1>4 DEF TypeOK, Remove, DropToken
  <2> QED BY <1>4, <2>1, <2>2, <2>3, SaveTypes DEF TypeOK, Remove
<1>5. ASSUME NEW i \in InstanceId, HeartbeatTimeout(i)
      PROVE  TypeOK'
  <2>1. entry' \in [InstanceId -> Entry \cup {NoEntry}]
    <3>1. entry[i] \in Entry => [entry[i] EXCEPT !.status = "offline"] \in Entry
      BY DEF Entry, Status
    <3>2. [NoEntry EXCEPT !.status = "offline"] = NoEntry
      BY DEF NoEntry
    <3> QED BY <1>5, <3>1, <3>2 DEF TypeOK, HeartbeatTimeout
  <2>2. sock' \in [Socket -> {"open", "lost", "closing", "ended", "closed"}]
    BY <1>5, CloseTypes DEF TypeOK, HeartbeatTimeout, CloseExpired
  <2> QED BY <1>5, <2>1, <2>2 DEF TypeOK, HeartbeatTimeout
<1>6. ASSUME NEW s \in Socket, Connect(s) \/ Lose(s) \/ End(s)
      PROVE  TypeOK'
  BY <1>6 DEF TypeOK, Connect, Lose, End
<1>7. ASSUME NEW s \in Socket, CloseEvent(s)
      PROVE  TypeOK'
  <2>1. CASE bound[s] # None /\ ws[bound[s]] = s
    <3> DEFINE i == bound[s]
    <3>1. i \in InstanceId
      BY <2>1 DEF TypeOK
    <3>2. Disconnected(entry[i]) \in Entry \cup {NoEntry}
      <4>1. CASE entry[i] \in Entry
        BY <4>1, BoundAssumption DEF Entry, Status, Sessions, Disconnected
      <4>2. CASE entry[i] = NoEntry
        BY <4>2 DEF NoEntry, Disconnected
      <4> QED BY <3>1, <4>1, <4>2 DEF TypeOK
    <3>3. entry' = [entry EXCEPT ![i] = Disconnected(entry[i])]
      BY <1>7, <2>1 DEF CloseEvent
    <3>4. entry' \in [InstanceId -> Entry \cup {NoEntry}]
      BY <3>2, <3>3 DEF TypeOK
    <3> QED BY <1>7, <2>1, <3>1, <3>4 DEF TypeOK, CloseEvent, ClearTimer
  <2>2. CASE ~(bound[s] # None /\ ws[bound[s]] = s)
    BY <1>7, <2>2 DEF TypeOK, CloseEvent
  <2> QED BY <2>1, <2>2
<1>8. ASSUME NEW s \in Socket, NEW t \in Token, NEW d \in InstanceId \cup {None},
             RefuseRegister(s, t, d)
      PROVE  TypeOK'
  BY <1>8 DEF TypeOK, RefuseRegister
<1>9. ASSUME NEW s \in Socket, NEW t \in Token, NEW d \in InstanceId \cup {None},
             NEW a \in Address, Register(s, t, d, a)
      PROVE  TypeOK'
  <2>1. PICK i \in InstanceId :
          /\ Accepts(t, d, i)
          /\ sock' = Supersede(i, s)
          /\ ws' = [ws EXCEPT ![i] = s]
          /\ timer' = [timer EXCEPT ![i] = s]
          /\ bound' = [bound EXCEPT ![s] = i]
          /\ entry' = [entry EXCEPT ![i].status = "online", ![i].agentIp = a]
    BY <1>9 DEF Register
  <2>2. Known(i)
    BY <2>1, NoneAssumption DEF Accepts, VerifyToken
  <2>3. entry' \in [InstanceId -> Entry \cup {NoEntry}]
    BY <2>1, <2>2, KnownEntry, ZenonT(40) DEF TypeOK, Entry, Status
  <2>4. sock' \in [Socket -> {"open", "lost", "closing", "ended", "closed"}]
    BY <2>1, CloseTypes DEF TypeOK, Supersede
  <2>5. Save(entry')
    BY <1>9 DEF Register, Save
  <2> QED BY <1>9, <2>1, <2>3, <2>4, <2>5, SaveTypes DEF TypeOK, Register
<1>10. ASSUME NEW s \in Socket, NEW n \in Sessions, Heartbeat(s, n)
       PROVE  TypeOK'
  <2>1. bound[s] \in InstanceId
    BY <1>10 DEF TypeOK, Heartbeat
  <2>2. entry' \in [InstanceId -> Entry \cup {NoEntry}]
    BY <1>10, <2>1, KnownEntry, ZenonT(40) DEF TypeOK, Heartbeat, Entry, Status
  <2> QED BY <1>10, <2>1, <2>2 DEF TypeOK, Heartbeat, ResetHeartbeat
<1>11. CASE Shutdown
  <2>1. Save(entry)
    BY <1>11 DEF Shutdown, Save
  <2> QED BY <1>11, <2>1, SaveTypes DEF TypeOK, Shutdown
<1>12. CASE Restart
  BY <1>12, HydrateTypes DEF TypeOK, Restart, HydratedIndex
<1> QED
  BY <1>1, <1>2, <1>3, <1>4, <1>5, <1>6, <1>7, <1>8, <1>9, <1>10, <1>11, <1>12 DEF Next

LEMMA TypeInit == Init => TypeOK
<1> SUFFICES ASSUME Init PROVE TypeOK
  OBVIOUS
<1>1. entry \in [InstanceId -> Entry \cup {NoEntry}]
  BY HydrateTypes DEF Init
<1>2. tokenIndex \in [Token -> InstanceId \cup {None}]
  BY DEF Init, HydratedIndex
<1>3. failures \in 0 .. MaxFailures
  BY BoundAssumption DEF Init
<1> QED BY <1>1, <1>2, <1>3 DEF Init, TypeOK

\* Type correctness of the registry for every value of the constants.
THEOREM TypeCorrect == Spec => []TypeOK
<1>1. Init => TypeOK
  BY TypeInit
<1>2. TypeOK /\ [Next]_vars => TypeOK'
  BY TypeStep
<1> QED BY <1>1, <1>2, PTL DEF Spec

-----------------------------------------------------------------------------
(***************************************************************************)
(* Connections.  OpenIsCurrent alone is not inductive: it needs to know     *)
(* whose socket the table holds and that a socket identity given out again  *)
(* is closed over nothing.                                                  *)
(***************************************************************************)
WsBound == \A i \in InstanceId : ws[i] # None =>
             bound[ws[i]] = i /\ sock[ws[i]] # "closed" /\ Known(i)
ClosedUnbound == \A s \in Socket : sock[s] = "closed" => bound[s] = None

ConnInv ==
  OpenIsCurrent /\ TimerOwnsConnection /\ OnlineIsTimed /\ WsBound /\ ClosedUnbound

LEMMA ConnInit == Init => ConnInv
BY NoneAssumption DEF Init, ConnInv, OpenIsCurrent, TimerOwnsConnection, OnlineIsTimed,
   WsBound, ClosedUnbound, ReadyOpen, Online, Known, Hydrated

USE DEF ConnInv, OpenIsCurrent, TimerOwnsConnection, OnlineIsTimed, WsBound,
        ClosedUnbound, ReadyOpen, Online, Known

LEMMA ConnStep ==
  ASSUME TypeOK, ConnInv, [Next]_vars
  PROVE  ConnInv'
<1>1. CASE UNCHANGED vars
  BY <1>1
<1>2. ASSUME NEW i \in InstanceId, NEW t \in Token, NEW n \in Name, Create(i, t, n)
      PROVE  ConnInv'
  <2>1. entry[i] = NoEntry
    BY <1>2, NoneAssumption DEF TypeOK, Create, Entry
  <2>2. entry[i].status = "offline" /\ entry'[i].status = "offline" /\ Known(i)'
    BY <1>2, <2>1, NoneAssumption DEF TypeOK, Create, NoEntry
  <2>3. \A j \in InstanceId \ {i} : entry'[j] = entry[j]
    BY <1>2 DEF TypeOK, Create
  <2> QED BY <1>2, <2>2, <2>3 DEF TypeOK, Create
<1>3. ASSUME NEW i \in InstanceId, NEW n \in Name, Update(i, n)
      PROVE  ConnInv'
  <2>1. entry'[i].status = entry[i].status /\ entry'[i].token = entry[i].token
    BY <1>3, KnownEntry DEF TypeOK, Update, Entry
  <2>2. \A j \in InstanceId \ {i} : entry'[j] = entry[j]
    BY <1>3 DEF TypeOK, Update
  <2> QED BY <1>3, <2>1, <2>2 DEF TypeOK, Update
<1>4. ASSUME NEW i \in InstanceId, Remove(i)
      PROVE  ConnInv'
  <2>1. sock' = IF ws[i] = None THEN sock ELSE Close(ws[i])
    BY <1>4 DEF Remove
  <2>2. ws' = [ws EXCEPT ![i] = None] /\ timer' = [timer EXCEPT ![i] = Off]
        /\ entry' = [entry EXCEPT ![i] = NoEntry] /\ bound' = bound
    BY <1>4 DEF Remove
  <2>3. ClosedUnbound' /\ WsBound'
    BY <2>1, <2>2, NoneAssumption DEF TypeOK, Close, NoEntry
  <2>4. TimerOwnsConnection' /\ OnlineIsTimed'
    BY <2>2, OffAssumption DEF TypeOK, NoEntry
  <2>5. OpenIsCurrent'
    BY <2>1, <2>2, NoneAssumption DEF TypeOK, Close
  <2> QED BY <2>3, <2>4, <2>5
<1>5. ASSUME NEW i \in InstanceId, HeartbeatTimeout(i)
      PROVE  ConnInv'
  BY <1>5, NoneAssumption, OffAssumption
     DEF TypeOK, HeartbeatTimeout, CloseExpired, Close
<1>6. ASSUME NEW s \in Socket, Connect(s) \/ Lose(s) \/ End(s)
      PROVE  ConnInv'
  BY <1>6 DEF TypeOK, Connect, Lose, End
<1>7. ASSUME NEW s \in Socket, CloseEvent(s)
      PROVE  ConnInv'
  BY <1>7, NoneAssumption, OffAssumption DEF TypeOK, CloseEvent, ClearTimer, Disconnected
<1>8. ASSUME NEW s \in Socket, NEW t \in Token, NEW d \in InstanceId \cup {None},
             RefuseRegister(s, t, d)
      PROVE  ConnInv'
  BY <1>8 DEF TypeOK, RefuseRegister
<1>9. ASSUME NEW s \in Socket, NEW t \in Token, NEW d \in InstanceId \cup {None},
             NEW a \in Address, Register(s, t, d, a)
      PROVE  ConnInv'
  <2>1. PICK i \in InstanceId :
          /\ Accepts(t, d, i)
          /\ sock' = Supersede(i, s)
          /\ ws' = [ws EXCEPT ![i] = s]
          /\ timer' = [timer EXCEPT ![i] = s]
          /\ bound' = [bound EXCEPT ![s] = i]
          /\ entry' = [entry EXCEPT ![i].status = "online", ![i].agentIp = a]
    BY <1>9 DEF Register
  <2>2. Known(i)
    BY <2>1, NoneAssumption DEF Accepts, VerifyToken
  <2>3. entry'[i].status = "online" /\ entry'[i].token = entry[i].token
    BY <2>1, <2>2, KnownEntry DEF TypeOK, Entry
  <2>4. \A j \in InstanceId \ {i} : entry'[j] = entry[j]
    BY <2>1 DEF TypeOK
  <2>5. sock[s] = "open" /\ bound[s] = None
    BY <1>9 DEF Register
  <2> QED BY <2>1, <2>2, <2>3, <2>4, <2>5, NoneAssumption, OffAssumption
          DEF TypeOK, Supersede, Close
<1>10. ASSUME NEW s \in Socket, NEW n \in Sessions, Heartbeat(s, n)
       PROVE  ConnInv'
  BY <1>10, NoneAssumption, OffAssumption DEF TypeOK, Heartbeat, ResetHeartbeat
<1>11. CASE Shutdown
  BY <1>11 DEF TypeOK, Shutdown
<1>12. CASE Restart
  BY <1>12, NoneAssumption DEF TypeOK, Restart, Hydrated
<1> QED
  BY <1>1, <1>2, <1>3, <1>4, <1>5, <1>6, <1>7, <1>8, <1>9, <1>10, <1>11, <1>12 DEF Next

\* An open registered agent socket is the connection of an existing online
\* instance and its timer runs: at most one open connection per instance, whatever
\* the order of registrations, late closes, timeouts, deletions and restarts.
THEOREM ConnectionsSafe ==
  Spec => [](OpenIsCurrent /\ TimerOwnsConnection /\ OnlineIsTimed)
<1>1. Init => ConnInv
  BY ConnInit
<1>2. TypeOK /\ TypeOK' /\ ConnInv /\ [Next]_vars => ConnInv'
  BY ConnStep
<1>3. ConnInv => OpenIsCurrent /\ TimerOwnsConnection /\ OnlineIsTimed
  BY DEF ConnInv
<1> QED BY <1>1, <1>2, <1>3, TypeCorrect, PTL DEF Spec

-----------------------------------------------------------------------------
(***************************************************************************)
(* The token index and the state file.  That every token resolves after a   *)
(* restart needs the file to hold distinct tokens, which the snapshots do    *)
(* because the index resolved every token when they were taken.              *)
(***************************************************************************)
TokenInv == TokensResolve /\ (shared \/ DistinctTokens(disk))

Complete(e, f) == \A i \in InstanceId : e[i].token # None => f[e[i].token] = i

LEMMA SnapshotDistinct ==
  ASSUME NEW e, NEW f, Complete(e, f)
  PROVE  DistinctTokens(Snapshot(e))
BY DEF Complete, DistinctTokens, Snapshot

\* A step that renames no token and keeps the index keeps the invariant,
\* whether or not it saves.
LEMMA TokensKept ==
  ASSUME TokenInv, tokenIndex' = tokenIndex, shared' = shared, TypeOK,
         \A i \in InstanceId : entry'[i].token = entry[i].token,
         disk' = disk \/ disk' = Snapshot(entry')
  PROVE  TokenInv'
<1>1. TokensResolve'
  BY DEF TokenInv, TokensResolve, IndexSound, Known, TypeOK
<1>2. ASSUME ~shared' PROVE DistinctTokens(disk')
  <2>1. Complete(entry', tokenIndex')
    BY <1>1, <1>2 DEF TokensResolve, Known, Complete
  <2> QED BY <1>2, <2>1, SnapshotDistinct DEF TokenInv
<1> QED BY <1>1, <1>2 DEF TokenInv

\* What hydrate builds from a file resolves as far as the file allows.
LEMMA HydrateResolves ==
  ASSUME NEW d \in [InstanceId -> Stored \cup {NotStored}], NEW f \in HydratedIndex(d)
  PROVE  /\ \A t \in Token : f[t] # None => Hydrated(d)[f[t]].token = t
         /\ DistinctTokens(d) => Complete(Hydrated(d), f)
<1>1. \A t \in Token : f[t] # None => f[t] \in Holders(d, t)
  BY DEF HydratedIndex
<1>2. \A i \in InstanceId : Hydrated(d)[i].token = d[i].token
  BY DEF Hydrated
<1>3. \A t \in Token : f[t] # None => Hydrated(d)[f[t]].token = t
  BY <1>1, <1>2 DEF Holders
<1>4. ASSUME DistinctTokens(d), NEW i \in InstanceId, d[i].token # None
      PROVE  f[d[i].token] = i
  <2>1. d[i].token \in Token
    BY <1>4 DEF Stored, NotStored
  <2>2. i \in Holders(d, d[i].token)
    BY DEF Holders
  <2>3. f[d[i].token] \in Holders(d, d[i].token)
    BY <2>1, <2>2 DEF HydratedIndex
  <2> QED BY <1>4, <2>3 DEF Holders, DistinctTokens
<1> QED BY <1>2, <1>3, <1>4 DEF Complete

LEMMA TokenInit == Init => TokenInv
<1> SUFFICES ASSUME Init PROVE TokenInv
  OBVIOUS
<1>1. \A t \in Token : tokenIndex[t] # None => entry[tokenIndex[t]].token = t
  BY HydrateResolves DEF Init
<1>2. DistinctTokens(disk) => Complete(entry, tokenIndex)
  BY HydrateResolves DEF Init
<1> QED BY <1>1, <1>2 DEF Init, TokenInv, TokensResolve, IndexSound, Complete, Known

LEMMA TokenStep ==
  ASSUME TypeOK, TokenInv, [Next]_vars
  PROVE  TokenInv'
<1>0. \A e : Save(e) => disk' = disk \/ disk' = Snapshot(e)
  BY DEF Save, SaveOk, SaveFails
<1>1. CASE UNCHANGED vars
  BY <1>1, TokensKept
<1>2. ASSUME NEW i \in InstanceId, NEW t \in Token, NEW n \in Name, Create(i, t, n)
      PROVE  TokenInv'
  <2>1. /\ tokenIndex' = [tokenIndex EXCEPT ![t] = i]
        /\ entry'[i].token = t
        /\ \A j \in InstanceId \ {i} : entry'[j] = entry[j]
        /\ entry[i].token = None
        /\ \A j \in InstanceId : entry[j].token # t
    BY <1>2 DEF TypeOK, Create, Known, Fresh
  <2>2. IndexSound'
    BY <2>1, NoneAssumption DEF TypeOK, TokenInv, TokensResolve, IndexSound
  <2>3. ~shared => Complete(entry', tokenIndex')
    <3> SUFFICES ASSUME ~shared, NEW j \in InstanceId, entry'[j].token # None
                 PROVE  tokenIndex'[entry'[j].token] = j
      BY DEF Complete
    <3>1. CASE j = i
      BY <2>1, <3>1 DEF TypeOK
    <3>2. CASE j # i
      <4>1. entry[j].token \in Token
        BY <2>1, <3>2, KnownEntry DEF Known, Entry
      <4> QED BY <2>1, <3>2, <4>1 DEF TypeOK, TokenInv, TokensResolve, Known
    <3> QED BY <3>1, <3>2
  <2>4. shared' = shared /\ (shared \/ DistinctTokens(disk'))
    BY <1>0, <1>2, <2>3, SnapshotDistinct DEF Create, TokenInv
  <2> QED BY <2>2, <2>3, <2>4 DEF TokenInv, TokensResolve, Complete, Known
<1>3. ASSUME NEW i \in InstanceId, NEW n \in Name, Update(i, n)
      PROVE  TokenInv'
  <2>1. \A j \in InstanceId : entry'[j].token = entry[j].token
    BY <1>3, KnownEntry DEF TypeOK, Update, Entry
  <2> QED BY <1>0, <1>3, <2>1, TokensKept DEF Update
<1>4. ASSUME NEW i \in InstanceId, Remove(i)
      PROVE  TokenInv'
  <2>1. /\ entry'[i].token = None
        /\ \A j \in InstanceId \ {i} : entry'[j] = entry[j]
        /\ tokenIndex' = DropToken(i)
        /\ entry[i].token \in Token
    BY <1>4, KnownEntry DEF TypeOK, Remove, NoEntry, Entry
  <2>2. IndexSound'
    <3> SUFFICES ASSUME NEW t \in Token, tokenIndex'[t] # None
                 PROVE  entry'[tokenIndex'[t]].token = t
      BY DEF IndexSound
    <3>1. tokenIndex'[t] = tokenIndex[t] /\ tokenIndex[t] # i
      BY <2>1 DEF TypeOK, DropToken, TokenInv, TokensResolve, IndexSound
    <3> QED BY <2>1, <3>1 DEF TypeOK, TokenInv, TokensResolve, IndexSound
  <2>3. ~shared => Complete(entry', tokenIndex')
    <3> SUFFICES ASSUME ~shared, NEW j \in InstanceId, entry'[j].token # None
                 PROVE  tokenIndex'[entry'[j].token] = j
      BY DEF Complete
    <3>1. j # i /\ entry'[j] = entry[j]
      BY <2>1
    <3>2. tokenIndex[entry[j].token] = j /\ tokenIndex[entry[i].token] = i
      BY <1>4, <3>1 DEF TokenInv, TokensResolve, Known, Remove
    <3> QED BY <2>1, <3>1, <3>2 DEF TypeOK, DropToken
  <2>4. shared' = shared /\ (shared \/ DistinctTokens(disk'))
    BY <1>0, <1>4, <2>3, SnapshotDistinct DEF Remove, TokenInv
  <2> QED BY <2>2, <2>3, <2>4 DEF TokenInv, TokensResolve, Complete, Known
<1>5. ASSUME NEW i \in InstanceId, HeartbeatTimeout(i)
      PROVE  TokenInv'
  <2>1. \A j \in InstanceId : entry'[j].token = entry[j].token
    BY <1>5 DEF TypeOK, HeartbeatTimeout, Entry, NoEntry
  <2> QED BY <1>5, <2>1, TokensKept DEF HeartbeatTimeout
<1>6. ASSUME NEW s \in Socket, Connect(s) \/ Lose(s) \/ End(s)
      PROVE  TokenInv'
  BY <1>6, TokensKept DEF Connect, Lose, End
<1>7. ASSUME NEW s \in Socket, CloseEvent(s)
      PROVE  TokenInv'
  <2>1. \A j \in InstanceId : entry'[j].token = entry[j].token
    BY <1>7 DEF TypeOK, CloseEvent, Disconnected
  <2> QED BY <1>7, <2>1, TokensKept DEF CloseEvent
<1>8. ASSUME NEW s \in Socket, NEW t \in Token, NEW d \in InstanceId \cup {None},
             RefuseRegister(s, t, d)
      PROVE  TokenInv'
  BY <1>8, TokensKept DEF RefuseRegister
<1>9. ASSUME NEW s \in Socket, NEW t \in Token, NEW d \in InstanceId \cup {None},
             NEW a \in Address, Register(s, t, d, a)
      PROVE  TokenInv'
  <2>1. PICK i \in InstanceId :
          /\ Accepts(t, d, i)
          /\ entry' = [entry EXCEPT ![i].status = "online", ![i].agentIp = a]
    BY <1>9 DEF Register
  <2>2. Known(i)
    BY <2>1, NoneAssumption DEF Accepts, VerifyToken
  <2>3. \A j \in InstanceId : entry'[j].token = entry[j].token
    BY <2>1, <2>2, KnownEntry DEF TypeOK, Entry
  <2> QED BY <1>9, <2>3, TokensKept DEF Register, SaveOk
<1>10. ASSUME NEW s \in Socket, NEW n \in Sessions, Heartbeat(s, n)
       PROVE  TokenInv'
  <2>1. bound[s] \in InstanceId
    BY <1>10 DEF TypeOK, Heartbeat
  <2>2. \A j \in InstanceId : entry'[j].token = entry[j].token
    BY <1>10, <2>1, KnownEntry DEF TypeOK, Heartbeat, Entry
  <2> QED BY <1>10, <2>2, TokensKept DEF Heartbeat
<1>11. CASE Shutdown
  BY <1>11, TokensKept DEF Shutdown, SaveOk
<1>12. CASE Restart
  <2>1. disk \in [InstanceId -> Stored \cup {NotStored}]
    BY DEF TypeOK
  <2>2. \A t \in Token : tokenIndex'[t] # None => entry'[tokenIndex'[t]].token = t
    BY <1>12, <2>1, HydrateResolves DEF Restart
  <2>3. DistinctTokens(disk) => Complete(entry', tokenIndex')
    BY <1>12, <2>1, HydrateResolves DEF Restart
  <2> QED BY <1>12, <2>2, <2>3
          DEF Restart, TokenInv, TokensResolve, IndexSound, Complete, Known
<1> QED
  BY <1>1, <1>2, <1>3, <1>4, <1>5, <1>6, <1>7, <1>8, <1>9, <1>10, <1>11, <1>12 DEF Next

\* The token index is kept in sync with create, remove and hydrate.
THEOREM TokensSafe == Spec => []TokensResolve
<1>1. Init => TokenInv
  BY TokenInit
<1>2. TypeOK /\ TokenInv /\ [Next]_vars => TokenInv'
  BY TokenStep
<1>3. TokenInv => TokensResolve
  BY DEF TokenInv
<1> QED BY <1>1, <1>2, <1>3, TypeCorrect, PTL DEF Spec

-----------------------------------------------------------------------------
(***************************************************************************)
(* Durability.  The steps that do not save change only what the snapshot    *)
(* leaves out: status and session count.                                     *)
(***************************************************************************)
LEMMA RoundTrip ==
  ASSUME NEW d \in [InstanceId -> Stored \cup {NotStored}]
  PROVE  Snapshot(Hydrated(d)) = d
<1>1. \A j \in InstanceId :
        d[j] = [token |-> d[j].token, name |-> d[j].name, agentIp |-> d[j].agentIp]
  BY DEF Stored, NotStored
<1>2. \A j \in InstanceId : Snapshot(Hydrated(d))[j] = d[j]
  BY <1>1 DEF Snapshot, Hydrated
<1>3. Snapshot(Hydrated(d)) = [j \in InstanceId |-> Snapshot(Hydrated(d))[j]]
  BY DEF Snapshot
<1> QED BY <1>2, <1>3

LEMMA DiskStep ==
  ASSUME TypeOK, DiskIsCurrent, [Next]_vars
  PROVE  DiskIsCurrent'
<1>0. \A e : Save(e) => (unsaved' \/ disk' = Snapshot(e))
  BY DEF Save, SaveOk, SaveFails
<1>1. CASE UNCHANGED vars
  BY <1>1 DEF DiskIsCurrent, Snapshot
<1>2. ASSUME NEW i \in InstanceId, NEW t \in Token, NEW n \in Name, Create(i, t, n)
      PROVE  DiskIsCurrent'
  <2>1. Save(entry')
    BY <1>2 DEF Create
  <2> QED BY <1>0, <2>1 DEF DiskIsCurrent, Snapshot
<1>3. ASSUME NEW i \in InstanceId, NEW n \in Name, Update(i, n)
      PROVE  DiskIsCurrent'
  <2>1. Save(entry')
    BY <1>3 DEF Update
  <2> QED BY <1>0, <2>1 DEF DiskIsCurrent, Snapshot
<1>4. ASSUME NEW i \in InstanceId, Remove(i)
      PROVE  DiskIsCurrent'
  <2>1. Save(entry')
    BY <1>4 DEF Remove
  <2> QED BY <1>0, <2>1 DEF DiskIsCurrent, Snapshot
<1>5. ASSUME NEW i \in InstanceId, HeartbeatTimeout(i)
      PROVE  DiskIsCurrent'
  <2>1. \A j \in InstanceId : /\ entry'[j].token = entry[j].token
                              /\ entry'[j].name = entry[j].name
                              /\ entry'[j].agentIp = entry[j].agentIp
    BY <1>5 DEF TypeOK, HeartbeatTimeout, Entry, NoEntry
  <2> QED BY <1>5, <2>1 DEF HeartbeatTimeout, DiskIsCurrent, Snapshot
<1>6. ASSUME NEW s \in Socket, Connect(s) \/ Lose(s) \/ End(s)
      PROVE  DiskIsCurrent'
  BY <1>6 DEF Connect, Lose, End, DiskIsCurrent, Snapshot
<1>7. ASSUME NEW s \in Socket, CloseEvent(s)
      PROVE  DiskIsCurrent'
  <2>1. \A j \in InstanceId : /\ entry'[j].token = entry[j].token
                              /\ entry'[j].name = entry[j].name
                              /\ entry'[j].agentIp = entry[j].agentIp
    BY <1>7 DEF TypeOK, CloseEvent, Disconnected
  <2> QED BY <1>7, <2>1 DEF CloseEvent, DiskIsCurrent, Snapshot
<1>8. ASSUME NEW s \in Socket, NEW t \in Token, NEW d \in InstanceId \cup {None},
             RefuseRegister(s, t, d)
      PROVE  DiskIsCurrent'
  BY <1>8 DEF RefuseRegister, DiskIsCurrent, Snapshot
<1>9. ASSUME NEW s \in Socket, NEW t \in Token, NEW d \in InstanceId \cup {None},
             NEW a \in Address, Register(s, t, d, a)
      PROVE  DiskIsCurrent'
  <2>1. SaveOk(entry')
    BY <1>9 DEF Register
  <2> QED BY <2>1 DEF SaveOk, DiskIsCurrent, Snapshot
<1>10. ASSUME NEW s \in Socket, NEW n \in Sessions, Heartbeat(s, n)
       PROVE  DiskIsCurrent'
  <2>1. bound[s] \in InstanceId
    BY <1>10 DEF TypeOK, Heartbeat
  <2>2. \A j \in InstanceId : /\ entry'[j].token = entry[j].token
                              /\ entry'[j].name = entry[j].name
                              /\ entry'[j].agentIp = entry[j].agentIp
    BY <1>10, <2>1, KnownEntry DEF TypeOK, Heartbeat, Entry
  <2> QED BY <1>10, <2>2 DEF Heartbeat, DiskIsCurrent, Snapshot
<1>11. CASE Shutdown
  BY <1>11 DEF Shutdown, SaveOk, DiskIsCurrent, Snapshot
<1>12. CASE Restart
  <2>1. Snapshot(Hydrated(disk)) = disk
    BY RoundTrip DEF TypeOK
  <2> QED BY <1>12, <2>1 DEF Restart, DiskIsCurrent
<1> QED
  BY <1>1, <1>2, <1>3, <1>4, <1>5, <1>6, <1>7, <1>8, <1>9, <1>10, <1>11, <1>12 DEF Next

\* After every completed save the state file holds what the registry holds, and
\* what a restart reads back is what was written.
THEOREM DiskSafe == Spec => []DiskIsCurrent
<1>1. Init => DiskIsCurrent
  BY RoundTrip DEF Init, DiskIsCurrent
<1>2. TypeOK /\ DiskIsCurrent /\ [Next]_vars => DiskIsCurrent'
  BY DiskStep
<1> QED BY <1>1, <1>2, TypeCorrect, PTL DEF Spec

-----------------------------------------------------------------------------
(***************************************************************************)
(* Deleting an instance.                                                    *)
(***************************************************************************)
LEMMA RemoveStep ==
  ASSUME TypeOK, NEW i \in InstanceId, Remove(i), NEW j \in InstanceId \ {i}, Resolves(j)
  PROVE  Resolves(j)'
<1>1. entry'[j] = entry[j] /\ Known(j) /\ tokenIndex[entry[j].token] = j
  BY NoneAssumption DEF Remove, Resolves, VerifyToken, TypeOK
<1>2. entry[i] \in Entry /\ entry[j] \in Entry
  BY <1>1, KnownEntry DEF Remove
<1>3. tokenIndex'[entry[j].token] = j
  <2>1. CASE tokenIndex[entry[i].token] = i
    <3>1. entry[i].token # entry[j].token
      BY <1>1, <2>1
    <3> QED  BY <1>1, <1>2, <3>1 DEF Remove, DropToken, TypeOK, Entry
  <2>2. CASE tokenIndex[entry[i].token] # i
    BY <1>1, <2>2 DEF Remove, DropToken
  <2> QED  BY <2>1, <2>2
<1> QED  BY <1>1, <1>3, NoneAssumption DEF Resolves, VerifyToken, Known

\* Whatever tokens instances share, removing one leaves every other instance's agent able
\* to register (remove, verifyToken).
THEOREM OthersKept == Spec => RemoveStrandsNobody
<1>1. TypeOK /\ [Next]_vars => [\A i \in InstanceId : Remove(i) =>
                                 \A j \in InstanceId \ {i} : Resolves(j) => Resolves(j)']_vars
  BY RemoveStep
<1> QED  BY <1>1, TypeCorrect, PTL DEF Spec, RemoveStrandsNobody

-----------------------------------------------------------------------------
(***************************************************************************)
(* What the senders of one instance see of all this (GatewayEnd).           *)
(***************************************************************************)
Links(i) == [s \in Socket |-> LinkOf(i, s)]

\* A step that changes neither the instance's connection, nor how its sockets look, nor
\* its status is not seen.
LEMMA NotSeen ==
  ASSUME NEW i \in InstanceId, ws'[i] = ws[i], Online(i)' = Online(i),
         \A s \in Socket : LinkOf(i, s)' = LinkOf(i, s)
  PROVE  UNCHANGED Gateway(i)!vars
BY DEF Gateway!vars

LEMMA SeenStep ==
  ASSUME TypeOK, ConnInv, [Next]_vars, NEW i \in InstanceId
  PROVE  [Gateway(i)!Next]_(Gateway(i)!vars)
<1> USE DEF LinkOf
<1>1. CASE UNCHANGED vars
  BY <1>1 DEF Gateway!vars
<1>2. ASSUME NEW j \in InstanceId, NEW t \in Token, NEW n \in Name, Create(j, t, n)
      PROVE  UNCHANGED Gateway(i)!vars
  <2>1. entry[j] = NoEntry
    BY <1>2, NoneAssumption DEF TypeOK, Create, Entry
  <2>2. entry'[i].status = entry[i].status
    BY <1>2, <2>1 DEF TypeOK, Create, NoEntry
  <2> QED BY <1>2, <2>2, NotSeen DEF Create
<1>3. ASSUME NEW j \in InstanceId, NEW n \in Name, Update(j, n)
      PROVE  UNCHANGED Gateway(i)!vars
  <2>1. entry'[i].status = entry[i].status
    BY <1>3, KnownEntry DEF TypeOK, Update, Entry
  <2> QED BY <1>3, <2>1, NotSeen DEF Update
<1>4. ASSUME NEW j \in InstanceId, Remove(j)
      PROVE  [Gateway(i)!Next]_(Gateway(i)!vars)
  <2>1. /\ sock' = IF ws[j] = None THEN sock ELSE Close(ws[j])
        /\ ws' = [ws EXCEPT ![j] = None]
        /\ entry' = [entry EXCEPT ![j] = NoEntry] /\ bound' = bound
    BY <1>4 DEF Remove
  <2>2. CASE i = j
    <3>1. ws'[i] = None /\ ~Online(i)'
      BY <2>1, <2>2 DEF TypeOK, NoEntry
    <3>2. \A s \in Socket : LinkOf(i, s)' = IF s = ws[i] /\ LinkOf(i, s) = "open"
                                              THEN "closing" ELSE LinkOf(i, s)
      BY <2>1, <2>2, NoneAssumption DEF TypeOK, Close
    <3>3. Gateway(i)!Remove
      BY <3>1, <3>2 DEF Gateway!Remove, Gateway!Closed
    <3> QED BY <3>3 DEF Gateway!Next
  <2>3. CASE i # j
    BY <2>1, <2>3, NoneAssumption, NotSeen DEF TypeOK, Close
  <2> QED BY <2>2, <2>3
<1>5. ASSUME NEW j \in InstanceId, HeartbeatTimeout(j)
      PROVE  [Gateway(i)!Next]_(Gateway(i)!vars)
  <2>1. /\ timer[j] # Off /\ Online(j) /\ timer[j] = ws[j] /\ bound' = bound /\ ws' = ws
        /\ entry' = [entry EXCEPT ![j].status = "offline"]
        /\ sock' = CloseExpired(j)
    BY <1>5 DEF HeartbeatTimeout
  <2>2. CASE i = j
    <3>1. ~Online(i)'
      BY <2>1, <2>2, KnownEntry DEF TypeOK, NoEntry, Entry
    <3>2. \A s \in Socket : LinkOf(i, s)' = IF s = ws[i] /\ LinkOf(i, s) = "open"
                                              THEN "closing" ELSE LinkOf(i, s)
      BY <2>1, <2>2, NoneAssumption DEF TypeOK, CloseExpired, Close
    <3>3. Gateway(i)!Timeout
      BY <2>1, <2>2, <3>1, <3>2 DEF Gateway!Timeout, Gateway!Closed
    <3> QED BY <3>3 DEF Gateway!Next
  <2>3. CASE i # j
    BY <2>1, <2>3, NoneAssumption, NotSeen DEF TypeOK, CloseExpired, Close
  <2> QED BY <2>2, <2>3
<1>6. ASSUME NEW s \in Socket, Connect(s) \/ Lose(s)
      PROVE  UNCHANGED Gateway(i)!vars
  BY <1>6, NotSeen, NoneAssumption DEF TypeOK, Connect, Lose
<1>7. ASSUME NEW s \in Socket,
             \/ End(s)
             \/ \E t \in Token, d \in InstanceId \cup {None} : RefuseRegister(s, t, d)
      PROVE  [Gateway(i)!Next]_(Gateway(i)!vars)
  <2>1. /\ ws' = ws /\ entry' = entry /\ bound' = bound
        /\ \E x \in {"closing", "ended"} : sock' = [sock EXCEPT ![s] = x]
    BY <1>7 DEF End, RefuseRegister
  <2>2. CASE LinkOf(i, s) = "open"
    <3>1. \A d \in Socket : LinkOf(i, d)' = IF d = s /\ LinkOf(i, d) = "open"
                                              THEN "closing" ELSE LinkOf(i, d)
      BY <2>1, <2>2 DEF TypeOK
    <3>2. Gateway(i)!Closing(s)
      BY <2>1, <2>2, <3>1 DEF Gateway!Closing, Gateway!Closed
    <3> QED BY <3>2 DEF Gateway!Next
  <2>3. CASE LinkOf(i, s) # "open"
    BY <1>7, <2>1, <2>3, NotSeen, NoneAssumption DEF TypeOK, End, RefuseRegister
  <2> QED BY <2>2, <2>3
<1>8. ASSUME NEW s \in Socket, CloseEvent(s)
      PROVE  [Gateway(i)!Next]_(Gateway(i)!vars)
  <2>1. /\ sock[s] = "ended" /\ sock' = [sock EXCEPT ![s] = "closed"]
        /\ bound' = [bound EXCEPT ![s] = None]
    BY <1>8 DEF CloseEvent
  <2>2. CASE bound[s] = i
    <3>1. \A d \in Socket : LinkOf(i, d)' = IF d = s THEN "none" ELSE LinkOf(i, d)
      BY <2>1, NoneAssumption DEF TypeOK
    <3>2. Links(i)' = [Links(i) EXCEPT ![s] = "none"] /\ Links(i)[s] # "none"
      BY <2>1, <2>2, <3>1, ZenonT(40) DEF Links
    <3>3. CASE ws[i] = s
      <4>1. ws'[i] = None /\ ~Online(i)'
        BY <1>8, <2>2, <3>3, NoneAssumption DEF TypeOK, CloseEvent, Disconnected
      <4>2. Gateway(i)!CloseEvent(s)
        BY <3>2, <3>3, <4>1 DEF Gateway!CloseEvent, Links
      <4> QED BY <4>2 DEF Gateway!Next
    <3>4. CASE ws[i] # s
      <4>1. ws' = ws /\ entry' = entry
        BY <1>8, <2>2, <3>4 DEF CloseEvent
      <4>2. Gateway(i)!CloseEvent(s)
        BY <3>2, <3>4, <4>1 DEF Gateway!CloseEvent, Links
      <4> QED BY <4>2 DEF Gateway!Next
    <3> QED BY <3>3, <3>4
  <2>3. CASE bound[s] # i
    <3>1. \A d \in Socket : LinkOf(i, d)' = LinkOf(i, d)
      BY <2>1, <2>3, NoneAssumption DEF TypeOK
    <3>2. ws'[i] = ws[i] /\ entry'[i] = entry[i]
      BY <1>8, <2>3 DEF TypeOK, CloseEvent
    <3> QED BY <3>1, <3>2, NotSeen
  <2> QED BY <2>2, <2>3
<1>9. ASSUME NEW s \in Socket, NEW t \in Token, NEW d \in InstanceId \cup {None},
             NEW a \in Address, Register(s, t, d, a)
      PROVE  [Gateway(i)!Next]_(Gateway(i)!vars)
  <2>1. PICK j \in InstanceId :
          /\ Accepts(t, d, j)
          /\ sock' = Supersede(j, s)
          /\ ws' = [ws EXCEPT ![j] = s]
          /\ timer' = [timer EXCEPT ![j] = s]
          /\ bound' = [bound EXCEPT ![s] = j]
          /\ entry' = [entry EXCEPT ![j].status = "online", ![j].agentIp = a]
    BY <1>9 DEF Register
  <2>2. sock[s] = "open" /\ bound[s] = None
    BY <1>9 DEF Register
  <2>3. CASE i = j
    <3>1. ws'[i] = s /\ ws[i] # s /\ LinkOf(i, s) = "none"
      BY <2>1, <2>2, <2>3, NoneAssumption DEF TypeOK
    <3>2. Online(i)'
      BY <2>1, <2>3, KnownEntry, NoneAssumption DEF TypeOK, Accepts, VerifyToken, Entry
    <3>3. \A c \in Socket : LinkOf(i, c)' = IF c = s THEN "open"
                                            ELSE IF c = ws[i] /\ LinkOf(i, c) = "open"
                                              THEN "closing" ELSE LinkOf(i, c)
      BY <2>1, <2>2, <2>3, <3>1, NoneAssumption DEF TypeOK, Supersede, Close
    <3>4. Links(i)' = [[c \in Socket |-> IF c = ws[i] /\ Links(i)[c] = "open"
                                          THEN "closing" ELSE Links(i)[c]]
                         EXCEPT ![s] = "open"]
      BY <3>3, ZenonT(40) DEF Links
    <3>5. Gateway(i)!Register(s)
      BY <3>1, <3>2, <3>4 DEF Gateway!Register, Gateway!Closed, Links
    <3> QED BY <3>5 DEF Gateway!Next
  <2>4. CASE i # j
    <3>1. \A c \in Socket : LinkOf(i, c)' = LinkOf(i, c)
      BY <2>1, <2>2, <2>4, NoneAssumption DEF TypeOK, Supersede, Close
    <3>2. ws'[i] = ws[i] /\ entry'[i] = entry[i]
      BY <2>1, <2>4 DEF TypeOK
    <3> QED BY <3>1, <3>2, NotSeen
  <2> QED BY <2>3, <2>4
<1>10. ASSUME NEW s \in Socket, NEW n \in Sessions, Heartbeat(s, n)
       PROVE  [Gateway(i)!Next]_(Gateway(i)!vars)
  <2>1. bound[s] \in InstanceId /\ Known(bound[s]) /\ Talks(s)
        /\ ws' = ws /\ sock' = sock /\ bound' = bound
        /\ entry' = [entry EXCEPT ![bound[s]].sessions = n, ![bound[s]].status = "online"]
    BY <1>10 DEF TypeOK, Heartbeat
  <2>2. CASE bound[s] # i
    BY <2>1, <2>2, NotSeen DEF TypeOK
  <2>3. CASE bound[s] = i
    <3>1. Online(i)'
      BY <2>1, <2>3, KnownEntry DEF TypeOK, Entry
    <3>2. CASE sock[s] = "open"
      <4>1. Online(i)
        BY <2>1, <2>3, <3>2, NoneAssumption
      <4> QED BY <2>1, <3>1, <4>1, NotSeen
    <3>3. CASE sock[s] = "closing"
      <4>1. Gateway(i)!Heartbeat(s)
        BY <2>1, <2>3, <3>1, <3>3 DEF Gateway!Heartbeat
      <4> QED BY <4>1 DEF Gateway!Next
    <3> QED BY <2>1, <3>2, <3>3 DEF Talks
  <2> QED BY <2>2, <2>3
<1>11. CASE Shutdown
  <2>1. /\ ws' = ws /\ entry' = entry /\ bound' = bound
        /\ sock' = [s \in Socket |->
                      IF ReadyOpen(s) /\ \E j \in InstanceId : Online(j) /\ ws[j] = s
                        THEN "closing" ELSE sock[s]]
    BY <1>11 DEF Shutdown
  <2>2. \A s \in Socket : LinkOf(i, s)' = IF s = ws[i] /\ LinkOf(i, s) = "open"
                                            THEN "closing" ELSE LinkOf(i, s)
    BY <2>1, NoneAssumption DEF TypeOK
  <2>3. CASE \E s \in Socket : s = ws[i] /\ LinkOf(i, s) = "open"
    <3>1. PICK s \in Socket : s = ws[i] /\ LinkOf(i, s) = "open"
      BY <2>3
    <3>2. Gateway(i)!Closing(s)
      BY <2>1, <2>2, <3>1 DEF Gateway!Closing, Gateway!Closed
    <3> QED BY <3>2 DEF Gateway!Next
  <2>4. CASE ~ \E s \in Socket : s = ws[i] /\ LinkOf(i, s) = "open"
    BY <2>1, <2>2, <2>4, NotSeen
  <2> QED BY <2>3, <2>4
<1>12. CASE Restart
  <2>1. ws'[i] = None /\ ~Online(i)' /\ \A s \in Socket : LinkOf(i, s)' = "none"
    BY <1>12, NoneAssumption DEF Restart, Hydrated
  <2>2. Gateway(i)!Crash
    BY <2>1 DEF Gateway!Crash
  <2> QED BY <2>2 DEF Gateway!Next
<1> QED
  BY <1>1, <1>2, <1>3, <1>4, <1>5, <1>6, <1>7, <1>8, <1>9, <1>10, <1>11, <1>12 DEF Next

\* The registry keeps its promise to the senders of each of its instances, whatever
\* happens to the other ones: GatewayEnd is all they need to know of it.
THEOREM ServesSenders == \A i \in InstanceId : Spec => GatewaySpec(i)
<1> SUFFICES ASSUME NEW i \in InstanceId PROVE Spec => GatewaySpec(i)
  OBVIOUS
<1>1. Init => Gateway(i)!Init
  BY NoneAssumption DEF Init, Gateway!Init, LinkOf, Hydrated
<1>2. TypeOK /\ ConnInv /\ [Next]_vars => [Gateway(i)!Next]_(Gateway(i)!vars)
  BY SeenStep
<1>3. Spec => []ConnInv
  <2>1. TypeOK /\ TypeOK' /\ ConnInv /\ [Next]_vars => ConnInv'
    BY ConnStep
  <2> QED BY <2>1, ConnInit, TypeCorrect, PTL DEF Spec
<1> QED BY <1>1, <1>2, <1>3, TypeCorrect, PTL DEF Spec, GatewaySpec, Gateway!Spec

\* What follows of the promise alone.
LEMMA PromiseKept ==
  ASSUME NEW i \in InstanceId,
         Gateway(i)!OnlyCurrentOpen, Gateway(i)!CurrentIsLinked, Gateway(i)!Next
  PROVE  Gateway(i)!OnlyCurrentOpen' /\ Gateway(i)!CurrentIsLinked' /\ Gateway(i)!StaysGivenUp
<1> HIDE DEF LinkOf, Online
<1> QED
  BY NoneAssumption
  DEF Gateway!Next, Gateway!Timeout, Gateway!Remove, Gateway!Crash, Gateway!Register,
      Gateway!Heartbeat, Gateway!Closing, Gateway!CloseEvent, Gateway!Closed,
      Gateway!OnlyCurrentOpen, Gateway!CurrentIsLinked, Gateway!StaysGivenUp, Gateway!GivenUp

\* So, for whoever sends to an instance's agent (sendToAgent, sendControlToAgent): the
\* only connection of the instance that could carry a frame is the one that is sent on,
\* and the instance is shown online; the 'close' of the one that is sent on is still to
\* come; and one that was superseded, timed out or deleted is never sent on again.
THEOREM SendersSafe ==
  \A i \in InstanceId :
    Spec => /\ [](Gateway(i)!OnlyCurrentOpen /\ Gateway(i)!CurrentIsLinked)
            /\ Gateway(i)!GivenUpForGood
<1> SUFFICES ASSUME NEW i \in InstanceId
             PROVE  Spec => /\ [](Gateway(i)!OnlyCurrentOpen /\ Gateway(i)!CurrentIsLinked)
                            /\ Gateway(i)!GivenUpForGood
  OBVIOUS
<1> DEFINE Promise == Gateway(i)!OnlyCurrentOpen /\ Gateway(i)!CurrentIsLinked
<1>1. Gateway(i)!Init => Promise
  BY DEF Gateway!Init, Gateway!OnlyCurrentOpen, Gateway!CurrentIsLinked
<1>2. Promise /\ [Gateway(i)!Next]_(Gateway(i)!vars) =>
        Promise' /\ [Gateway(i)!StaysGivenUp]_(Gateway(i)!vars)
  <2>1. ASSUME Promise, UNCHANGED Gateway(i)!vars PROVE Promise'
    BY <2>1 DEF Gateway!vars, Gateway!OnlyCurrentOpen, Gateway!CurrentIsLinked
  <2> QED BY <2>1, PromiseKept
<1>3. Spec => Gateway(i)!Init /\ [][Gateway(i)!Next]_(Gateway(i)!vars)
  BY ServesSenders DEF GatewaySpec, Gateway!Spec
<1> HIDE DEF Promise
<1>4. Spec => []Promise /\ Gateway(i)!GivenUpForGood
  BY <1>1, <1>2, <1>3, PTL DEF Gateway!GivenUpForGood
<1> QED BY <1>4 DEF Promise

=============================================================================
