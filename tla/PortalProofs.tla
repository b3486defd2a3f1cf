------------------------------ MODULE PortalProofs ------------------------------
(***************************************************************************)
(* The management side of the gateway, proved for any number of requests,   *)
(* instances and names: what clients were told about instances adds up, and *)
(* the login limit holds up to the attempts under way.                      *)
(***************************************************************************)
EXTENDS Portal, FiniteSetTheorems, TLAPS

USE RequestAssumption, BoundAssumption, NoneAssumption

Places == {"idle"} \cup Waiting \cup Answers
Final == Created \cup Deleted

-----------------------------------------------------------------------------
(***************************************************************************)
(* What a step does to the place of a request: at most one request moves,   *)
(* and never from an answer that counts in the ledger.                      *)
(***************************************************************************)
LEMMA RouteTyped ==
  ASSUME NEW m \in Modes, NEW h \in Reached[m]
  PROVE  h \in (Waiting \cup Answers \cup {"delete"}) \ Final
<1>1. PICK r \in Inputs : h = Route(m, r)
  BY DEF Reached
<1>2. Challenge(m, r) \in {"", "401", "302"}
  BY DEF Challenge
<1>3. ApiOperation(r) \in {"", "list", "create", "deploy", "update", "delete", "404",
                            "misplaced"}
  BY DEF ApiOperation
<1>4. AuthRoute(m, r) \in {"", "sso", "404", "302", "form", "login"}
  BY DEF AuthRoute
<1>5. Page(m, r) \in {"401", "302", "page", "events", "404"}
  BY <1>2 DEF Page
<1>6. Route(m, r) \in {"health", "404", "proxy", "static", "401", "302", "list", "create",
                       "deploy", "update", "delete", "misplaced", "sso", "form", "login", "page", "events"}
  BY <1>2, <1>3, <1>4, <1>5 DEF Route
<1> QED BY <1>1, <1>6 DEF Waiting, Answers, Unsaved, Final, Created, Deleted

\* Where a request that arrives may get.
Landing == (Waiting \cup Answers) \ Created
LEMMA Arrival ==
  ASSUME TypeOK, NEW q \in Request, NEW i \in InstanceId, Arrive(q, i)
  PROVE  /\ at[q] \in {"idle", "form", "denied", "limited"}
         /\ id' = [id EXCEPT ![q] = i]
         /\ UNCHANGED <<mode, failures, changes>>
         /\ \E a \in Landing :
              /\ at' = [at EXCEPT ![q] = a]
              /\ a = "login" => failures < MaxAttempts
              /\ IF a \in Deleted THEN Known(i) /\ table' = [table EXCEPT ![i] = None]
                                  ELSE \/ table' = table
                                       \/ ~Known(i) /\ table' = [table EXCEPT ![i] = None]
         /\ \/ shown' = shown
            \/ \E Q : shown' = [r \in Request |-> IF r \in Q THEN table ELSE shown[r]]
<1>1. PICK h \in Reached[mode] :
        /\ CASE h = "deploy" -> Reply(q, IF Known(i) THEN h ELSE "404")
             [] h = "delete" -> Delete(q, i)
             [] h = "proxy" ->
                  Reply(q, IF ~Known(i) THEN "404" ELSE IF table[i].online THEN h ELSE "503")
             [] h = "login" -> Reply(q, IF Limited THEN "limited" ELSE h)
             [] OTHER -> Reply(q, h)
        /\ table' = IF h = "delete" THEN [table EXCEPT ![i] = None] ELSE table
        /\ IF h = "events" THEN PushTo(Streams \cup {q}, table) ELSE UNCHANGED shown
  BY DEF Arrive
<1>2. h \in (Waiting \cup Answers \cup {"delete"}) \ Final
  BY RouteTyped DEF TypeOK
<1>3. \E a \in Landing :
        /\ at' = [at EXCEPT ![q] = a]
        /\ a = "login" => failures < MaxAttempts
        /\ IF a \in Deleted THEN Known(i) /\ table' = [table EXCEPT ![i] = None]
                            ELSE \/ table' = table
                                 \/ ~Known(i) /\ table' = [table EXCEPT ![i] = None]
  <2> DEFINE Ends(a) ==
        /\ at' = [at EXCEPT ![q] = a]
        /\ a = "login" => failures < MaxAttempts
        /\ IF a \in Deleted THEN Known(i) /\ table' = [table EXCEPT ![i] = None]
                            ELSE \/ table' = table
                                 \/ ~Known(i) /\ table' = [table EXCEPT ![i] = None]
  <2>0. "404" \in Landing /\ "503" \in Landing /\ "proxy" \in Landing /\ "deploy" \in Landing
        /\ Deleted \subseteq Landing /\ "login" \in Landing /\ "limited" \in Landing
        /\ {"404", "503", "proxy", "deploy", "login", "limited"} \cap Deleted = {}
    BY DEF Landing, Answers, Unsaved, Waiting, Created, Deleted
  <2>1. CASE h = "delete"
    <3>1. Delete(q, i) /\ table' = [table EXCEPT ![i] = None]
      BY <1>1, <2>1
    <3>2. CASE Known(i)
      <4>1. PICK a \in Deleted : at' = [at EXCEPT ![q] = a]
        BY <3>1, <3>2 DEF Delete, Reply, Deleted
      <4>2. a # "login"
        BY DEF Deleted
      <4>3. Ends(a)
        BY <3>1, <3>2, <4>1, <4>2
      <4> QED BY <2>0, <4>3
    <3>3. CASE ~Known(i)
      <4>1. Ends("404")
        BY <2>0, <3>1, <3>3 DEF Delete, Reply
      <4> QED BY <2>0, <4>1
    <3> QED BY <3>2, <3>3
  <2>2. CASE h = "login"
    <3>1. at' = [at EXCEPT ![q] = IF Limited THEN "limited" ELSE "login"] /\ table' = table
      BY <1>1, <2>2 DEF Reply
    <3>2. CASE Limited
      <4>1. Ends("limited")
        BY <2>0, <3>1, <3>2
      <4> QED BY <2>0, <4>1
    <3>3. CASE ~Limited
      <4>1. failures < MaxAttempts
        BY <3>3 DEF Limited, TypeOK
      <4>2. Ends("login")
        BY <2>0, <3>1, <3>3, <4>1
      <4> QED BY <2>0, <4>2
    <3> QED BY <3>2, <3>3
  <2>3. CASE h \notin {"delete", "login"}
    <3>1. table' = table
      BY <1>1, <2>3
    <3>2. PICK a \in Landing : at' = [at EXCEPT ![q] = a] /\ a \notin Deleted \cup {"login"}
      <4>1. CASE h = "deploy"
        <5>1. \/ at' = [at EXCEPT ![q] = "deploy"]
              \/ at' = [at EXCEPT ![q] = "404"]
          BY <1>1, <4>1 DEF Reply
        <5> QED BY <2>0, <5>1
      <4>2. CASE h = "proxy"
        <5>1. \/ at' = [at EXCEPT ![q] = "404"]
              \/ at' = [at EXCEPT ![q] = "proxy"]
              \/ at' = [at EXCEPT ![q] = "503"]
          BY <1>1, <4>2 DEF Reply
        <5> QED BY <2>0, <5>1
      <4>3. CASE h \notin {"deploy", "proxy"}
        <5>1. at' = [at EXCEPT ![q] = h]
          BY <1>1, <2>3, <4>3 DEF Reply
        <5>2. h \in Landing /\ h \notin Deleted /\ h # "login"
          BY <1>2, <2>3 DEF Landing, Final
        <5> QED BY <5>1, <5>2
      <4> QED BY <4>1, <4>2, <4>3
    <3>3. Ends(a)
      BY <3>1, <3>2
    <3> QED BY <3>3
  <2> QED BY <2>1, <2>2, <2>3
<1>4. \/ shown' = shown
      \/ \E Q : shown' = [r \in Request |-> IF r \in Q THEN table ELSE shown[r]]
  BY <1>1 DEF PushTo
<1> QED BY <1>3, <1>4 DEF Arrive

-----------------------------------------------------------------------------
LEMMA ShownTyped ==
  ASSUME TypeOK, NEW Q, shown' = [r \in Request |-> IF r \in Q THEN table ELSE shown[r]]
  PROVE  shown' \in [Request -> Tables \cup {None}]
BY DEF TypeOK

LEMMA PlaceTyped ==
  ASSUME TypeOK, NEW q \in Request, NEW a \in Places, at' = [at EXCEPT ![q] = a]
  PROVE  at' \in [Request -> {"idle"} \cup Waiting \cup Answers]
BY DEF TypeOK, Places

LEMMA TypeStep == TypeOK /\ [Next]_vars => TypeOK'
<1> SUFFICES ASSUME TypeOK, [Next]_vars PROVE TypeOK'
  OBVIOUS
<1>1. ASSUME NEW q \in Request, NEW i \in InstanceId, Arrive(q, i) PROVE TypeOK'
  <2>1. PICK a \in Landing :
          /\ at' = [at EXCEPT ![q] = a]
          /\ table' = table \/ table' = [table EXCEPT ![i] = None]
    BY <1>1, Arrival
  <2>2. a \in Places
    BY DEF Landing, Places
  <2>3. table' \in Tables
    BY <2>1 DEF TypeOK, Tables
  <2>4. shown' \in [Request -> Tables \cup {None}]
    BY <1>1, Arrival, ShownTyped DEF TypeOK
  <2>5. /\ mode' = mode /\ failures' = failures /\ changes' = changes
        /\ id' = [id EXCEPT ![q] = i]
    BY <1>1 DEF Arrive
  <2> QED BY <2>1, <2>2, <2>3, <2>4, <2>5, PlaceTyped DEF TypeOK
<1>2. ASSUME NEW q \in Request, NEW n \in Name, ApiBody(q, n) PROVE TypeOK'
  <2>1. id[q] \in InstanceId \cup {None} /\ table \in Tables
    BY DEF TypeOK
  <2>2. [name |-> n, online |-> FALSE] \in Entries
    BY DEF Entries
  <2>3. CASE at[q] = "create" /\ Create(q, id[q], n)
    <3>1. /\ \E a \in Created \cup {"400"} : at' = [at EXCEPT ![q] = a]
          /\ table' \in Tables
      BY <2>1, <2>2, <2>3 DEF Create, Created, Reply, Tables
    <3>2. Created \cup {"400"} \subseteq Places
      BY DEF Places, Answers, Unsaved, Created
    <3> QED BY <1>2, <3>1, <3>2, PlaceTyped DEF ApiBody, TypeOK
  <2>4. CASE at[q] = "update" /\ Update(q, id[q], n)
    <3>1. /\ \E a \in {"200", "unsaved update", "404"} : at' = [at EXCEPT ![q] = a]
          /\ table' \in Tables
      BY <2>1, <2>4 DEF Update, Reply, Tables, Known, Entries
    <3>2. {"200", "unsaved update", "404"} \subseteq Places
      BY DEF Places, Answers, Unsaved
    <3> QED BY <1>2, <3>1, <3>2, PlaceTyped DEF ApiBody, TypeOK
  <2>5. CASE at[q] = "misplaced" /\ Reply(q, "404") /\ UNCHANGED table
    <3>1. at' = [at EXCEPT ![q] = "404"] /\ "404" \in Places
      BY <2>5 DEF Reply, Places, Answers
    <3> QED BY <1>2, <2>5, <3>1, PlaceTyped DEF ApiBody, TypeOK
  <2> QED BY <1>2, <2>3, <2>4, <2>5 DEF ApiBody
<1>3. ASSUME NEW q \in Request, BadBody(q) PROVE TypeOK'
  <2>1. \E a \in {"413", "400", "no answer"} : at' = [at EXCEPT ![q] = a]
    BY <1>3 DEF BadBody, Reply
  <2>2. {"413", "400", "no answer"} \subseteq Places
    BY DEF Places, Answers
  <2> QED BY <1>3, <2>1, <2>2, PlaceTyped DEF BadBody, TypeOK
<1>4. ASSUME NEW q \in Request, LoginBody(q) PROVE TypeOK'
  <2>1. \E a \in {"welcome", "denied"} : at' = [at EXCEPT ![q] = a]
    BY <1>4 DEF LoginBody, Reply
  <2>2. {"welcome", "denied"} \subseteq Places
    BY DEF Places, Answers
  <2>3. failures' \in Nat
    BY <1>4 DEF LoginBody, CountFailure, TypeOK
  <2> QED BY <1>4, <2>1, <2>2, <2>3, PlaceTyped DEF LoginBody, TypeOK
<1>5. ASSUME NEW q \in Request, Tick(q) PROVE TypeOK'
  BY <1>5, ShownTyped DEF Tick, PushToAll, PushTo, TypeOK
<1>6. ASSUME NEW q \in Request, StreamCloses(q) PROVE TypeOK'
  <2>1. "over" \in Places /\ at' = [at EXCEPT ![q] = "over"]
    BY <1>6 DEF StreamCloses, Reply, Places, Answers
  <2> QED BY <1>6, <2>1, PlaceTyped DEF StreamCloses, TypeOK
<1>7. ASSUME NEW i \in InstanceId, AgentUp(i) \/ AgentDown(i) PROVE TypeOK'
  <2>0. table[i] \in Entries /\ table \in [InstanceId -> Entries \cup {None}]
    BY <1>7 DEF AgentUp, AgentDown, Known, TypeOK, Tables
  <2>1. table' \in Tables
    <3>1. PICK o \in BOOLEAN : table' = [table EXCEPT ![i].online = o]
      BY <1>7 DEF AgentUp, AgentDown
    <3>2. [table[i] EXCEPT !.online = o] \in Entries
      BY <2>0 DEF Entries
    <3> QED BY <2>0, <3>1, <3>2 DEF Tables
  <2>2. changes' \in 0 .. MaxChanges
    BY <1>7 DEF AgentUp, AgentDown, TypeOK
  <2>3. shown' \in [Request -> Tables \cup {None}]
    BY <1>7, ShownTyped DEF AgentUp, AgentDown, PushTo, TypeOK
  <2> QED BY <1>7, <2>1, <2>2, <2>3 DEF AgentUp, AgentDown, TypeOK
<1>8. ASSUME NEW i \in InstanceId, Metrics(i) PROVE TypeOK'
  BY <1>8, ShownTyped DEF Metrics, PushTo, TypeOK
<1>9. CASE BackoffOver
  BY <1>9 DEF BackoffOver, TypeOK
<1>10. CASE UNCHANGED vars
  BY <1>10 DEF vars, TypeOK
<1> QED BY <1>1, <1>2, <1>3, <1>4, <1>5, <1>6, <1>7, <1>8, <1>9, <1>10 DEF Next

\* Every variable has its type.
THEOREM TypeCorrect == Spec => []TypeOK
<1>1. Init => TypeOK
  BY DEF Init, TypeOK, Tables
<1> QED BY <1>1, TypeStep, PTL DEF Spec

-----------------------------------------------------------------------------
(***************************************************************************)
(* The ledger: how many requests were told that they created, or deleted,   *)
(* an instance.                                                             *)
(***************************************************************************)
Told(i, A) == {q \in Request : id[q] = i /\ at[q] \in A}

LEMMA ToldFinite ==
  ASSUME NEW i, NEW A
  PROVE  IsFiniteSet(Told(i, A)) /\ Answered(i, A) \in Nat /\ Answered(i, A) = Cardinality(Told(i, A))
<1>1. IsFiniteSet(Told(i, A))
  BY FS_Subset DEF Told
<1> QED BY <1>1, FS_CardinalityType DEF Told, Answered

\* A request whose answer does not count moves to place a, about instance k.
Moves(q, a, k) ==
  at[q] \notin Final /\ at' = [at EXCEPT ![q] = a] /\ id' = [id EXCEPT ![q] = k]

LEMMA OneMoves ==
  ASSUME TypeOK, NEW q \in Request, NEW a, NEW k,
         Moves(q, a, k), NEW i, NEW B \in {Created, Deleted}
  PROVE  Answered(i, B)' = IF a \in B /\ i = k THEN Answered(i, B) + 1 ELSE Answered(i, B)
<1>1. Answered(i, B)' = Cardinality(Told(i, B)')
  BY DEF Answered, Told
<1>2. B \subseteq Final
  BY DEF Final
<1>3. CASE a \in B /\ i = k
  <2>1. Told(i, B)' = Told(i, B) \cup {q} /\ q \notin Told(i, B)
    BY <1>2, <1>3 DEF Moves, Told, TypeOK
  <2>2. IsFiniteSet(Told(i, B)) /\ Answered(i, B) = Cardinality(Told(i, B))
    BY ToldFinite
  <2>3. Cardinality(Told(i, B) \cup {q}) = Cardinality(Told(i, B)) + 1
    BY <2>1, <2>2, FS_AddElement
  <2> QED BY <1>1, <1>3, <2>1, <2>2, <2>3
<1>4. CASE ~(a \in B /\ i = k)
  <2>1. Told(i, B)' = Told(i, B)
    BY <1>2, <1>4 DEF Moves, Told, TypeOK
  <2> QED BY <1>1, <1>4, <2>1, ToldFinite
<1> QED BY <1>3, <1>4

\* Nobody moves.
LEMMA NoneMoves ==
  ASSUME UNCHANGED <<at, id>>, NEW i, NEW A
  PROVE  Answered(i, A)' = Answered(i, A)
BY DEF Answered

LEMMA LedgerStep ==
  ASSUME TypeOK, LedgerBalances, [Next]_vars PROVE LedgerBalances'
<1> SUFFICES ASSUME NEW j \in InstanceId
             PROVE  Answered(j, Created)' = Answered(j, Deleted)' + (IF Known(j)' THEN 1 ELSE 0)
  BY DEF LedgerBalances
<1>0. /\ Answered(j, Created) = Answered(j, Deleted) + (IF Known(j) THEN 1 ELSE 0)
      /\ Answered(j, Created) \in Nat /\ Answered(j, Deleted) \in Nat
      /\ Created \in {Created, Deleted} /\ Deleted \in {Created, Deleted}
      /\ Created \cup Deleted = Final /\ Created \cap Deleted = {}
      /\ table \in [InstanceId -> Entries \cup {None}]
  BY ToldFinite DEF LedgerBalances, Final, Created, Deleted, TypeOK, Tables
<1>1. ASSUME NEW q \in Request, NEW a, NEW k, Moves(q, a, k), a \notin Final,
             Known(j)' <=> Known(j)
      PROVE  Answered(j, Created)' = Answered(j, Deleted)' + (IF Known(j)' THEN 1 ELSE 0)
  <2>1. Answered(j, Created)' = Answered(j, Created) /\ Answered(j, Deleted)' = Answered(j, Deleted)
    BY <1>0, <1>1, OneMoves
  <2> QED BY <1>0, <1>1, <2>1
<1>2. ASSUME UNCHANGED <<at, id>>, Known(j)' <=> Known(j)
      PROVE  Answered(j, Created)' = Answered(j, Deleted)' + (IF Known(j)' THEN 1 ELSE 0)
  BY <1>0, <1>2, NoneMoves
<1>3. ASSUME NEW q \in Request, NEW i \in InstanceId, Arrive(q, i)
      PROVE  Answered(j, Created)' = Answered(j, Deleted)' + (IF Known(j)' THEN 1 ELSE 0)
  <2>1. /\ at[q] \notin Final /\ id' = [id EXCEPT ![q] = i]
    BY <1>3 DEF Arrive, Final, Created, Deleted
  <2>2. PICK a \in Landing :
          /\ at' = [at EXCEPT ![q] = a]
          /\ IF a \in Deleted THEN Known(i) /\ table' = [table EXCEPT ![i] = None]
                              ELSE \/ table' = table
                                   \/ ~Known(i) /\ table' = [table EXCEPT ![i] = None]
    BY <1>3, Arrival
  <2>3. CASE a \in Deleted
    <3>0. Moves(q, a, i)
      BY <2>1, <2>2 DEF Moves
    <3>1. Answered(j, Created)' = Answered(j, Created)
      BY <1>0, <2>3, <3>0, OneMoves
    <3>2. Answered(j, Deleted)' = IF j = i THEN Answered(j, Deleted) + 1 ELSE Answered(j, Deleted)
      BY <1>0, <2>3, <3>0, OneMoves
    <3>3. Known(i) /\ (Known(j)' <=> Known(j) /\ j # i)
      BY <1>0, <2>2, <2>3 DEF Known
    <3> QED BY <1>0, <3>1, <3>2, <3>3
  <2>4. CASE a \notin Deleted
    <3>1. a \notin Final
      BY <2>4 DEF Landing, Final
    <3>2. Known(j)' <=> Known(j)
      BY <1>0, <2>2, <2>4 DEF Known
    <3>3. Moves(q, a, i)
      BY <2>1, <2>2 DEF Moves
    <3> QED BY <1>1, <3>1, <3>2, <3>3
  <2> QED BY <2>3, <2>4
<1>4. ASSUME NEW q \in Request, NEW n \in Name, ApiBody(q, n)
      PROVE  Answered(j, Created)' = Answered(j, Deleted)' + (IF Known(j)' THEN 1 ELSE 0)
  <2>1. at[q] \notin Final /\ id' = [id EXCEPT ![q] = id[q]]
    BY <1>4 DEF ApiBody, Final, Created, Deleted, TypeOK
  <2>2. CASE at[q] = "create" /\ Create(q, id[q], n)
    <3>1. CASE Reply(q, "400") /\ UNCHANGED table
      <4>1. at' = [at EXCEPT ![q] = "400"] /\ "400" \notin Final
        BY <3>1 DEF Reply, Final, Created, Deleted
      <4>2. Known(j)' <=> Known(j)
        BY <3>1 DEF Known
      <4>3. Moves(q, "400", id[q])
        BY <2>1, <4>1 DEF Moves
      <4> QED BY <1>1, <4>1, <4>2, <4>3
    <3>2. CASE /\ ~Known(id[q])
               /\ table' = [table EXCEPT ![id[q]] = [name |-> n, online |-> FALSE]]
               /\ Reply(q, "201") \/ Reply(q, "unsaved create")
      <4>1. PICK a \in Created : Moves(q, a, id[q])
        BY <2>1, <3>2 DEF Moves, Reply, Created
      <4>2. Answered(j, Deleted)' = Answered(j, Deleted)
        BY <1>0, <4>1, OneMoves
      <4>3. Answered(j, Created)' = IF j = id[q] THEN Answered(j, Created) + 1 ELSE Answered(j, Created)
        BY <1>0, <4>1, OneMoves
      <4>4. [name |-> n, online |-> FALSE] # None
        <5>1. [name |-> n, online |-> FALSE] \in Entries
          BY DEF Entries
        <5> QED BY <5>1, NoneAssumption
      <4>5. ~Known(id[q]) /\ (Known(j)' <=> Known(j) \/ j = id[q])
        BY <1>0, <3>2, <4>4 DEF Known
      <4> QED BY <1>0, <4>2, <4>3, <4>5
    <3> QED BY <2>2, <3>1, <3>2 DEF Create
  <2>3. CASE at[q] = "update" /\ Update(q, id[q], n)
    <3>1. \E a \in {"200", "unsaved update", "404"} : at' = [at EXCEPT ![q] = a]
      BY <2>3 DEF Update, Reply
    <3>2. Known(j)' <=> Known(j)
      <4>1. CASE j = id[q] /\ table' = [table EXCEPT ![id[q]].name = n] /\ Known(id[q])
        <5>1. table[j] \in Entries
          BY <1>0, <4>1 DEF Known
        <5>2. [table[j] EXCEPT !.name = n] \in Entries
          BY <5>1 DEF Entries
        <5> QED BY <1>0, <4>1, <5>2 DEF Known
      <4>2. CASE ~(j = id[q] /\ table' = [table EXCEPT ![id[q]].name = n] /\ Known(id[q]))
        BY <1>0, <2>3, <4>2 DEF Update, Known
      <4> QED BY <4>1, <4>2
    <3>3. PICK a \in {"200", "unsaved update", "404"} : Moves(q, a, id[q])
      BY <2>1, <3>1 DEF Moves
    <3>4. a \notin Final
      BY DEF Final, Created, Deleted
    <3> QED BY <1>1, <3>2, <3>3, <3>4
  <2>4. CASE at[q] = "misplaced" /\ Reply(q, "404") /\ UNCHANGED table
    <3>1. Moves(q, "404", id[q]) /\ "404" \notin Final /\ (Known(j)' <=> Known(j))
      BY <2>1, <2>4 DEF Moves, Reply, Final, Created, Deleted, Known
    <3> QED BY <1>1, <3>1
  <2> QED BY <1>4, <2>2, <2>3, <2>4 DEF ApiBody
<1>5. ASSUME NEW q \in Request, BadBody(q) \/ LoginBody(q) \/ StreamCloses(q)
      PROVE  Answered(j, Created)' = Answered(j, Deleted)' + (IF Known(j)' THEN 1 ELSE 0)
  <2>1. at[q] \notin Final /\ id' = [id EXCEPT ![q] = id[q]] /\ table' = table
    BY <1>5 DEF BadBody, LoginBody, StreamCloses, Streams, Waiting, Final, Created, Deleted, TypeOK
  <2>2. \E a \in {"413", "400", "no answer", "welcome", "denied", "over"} :
          at' = [at EXCEPT ![q] = a]
    BY <1>5 DEF BadBody, LoginBody, StreamCloses, Reply
  <2>3. PICK a \in {"413", "400", "no answer", "welcome", "denied", "over"} : Moves(q, a, id[q])
    BY <2>1, <2>2 DEF Moves
  <2>4. a \notin Final /\ (Known(j)' <=> Known(j))
    BY <2>1 DEF Final, Created, Deleted, Known
  <2> QED BY <1>1, <2>3, <2>4
<1>6. ASSUME NEW i \in InstanceId, AgentUp(i) \/ AgentDown(i)
      PROVE  Answered(j, Created)' = Answered(j, Deleted)' + (IF Known(j)' THEN 1 ELSE 0)
  <2>1. UNCHANGED <<at, id>> /\ Known(i)
    BY <1>6 DEF AgentUp, AgentDown
  <2>2. table' = [table EXCEPT ![i].online = TRUE] \/ table' = [table EXCEPT ![i].online = FALSE]
    BY <1>6 DEF AgentUp, AgentDown
  <2>3. table[i] \in Entries
    BY <1>0, <2>1 DEF Known
  <2>4. \A o \in BOOLEAN : [table[i] EXCEPT !.online = o] \in Entries
    BY <2>3 DEF Entries
  <2>5. Known(j)' <=> Known(j)
    BY <1>0, <2>1, <2>2, <2>4 DEF Known
  <2> QED BY <1>2, <2>1, <2>5
<1>7. ASSUME UNCHANGED <<at, id, table>>
      PROVE  Answered(j, Created)' = Answered(j, Deleted)' + (IF Known(j)' THEN 1 ELSE 0)
  BY <1>2, <1>7 DEF Known
<1>8. \A q \in Request : Tick(q) => UNCHANGED <<at, id, table>>
  BY DEF Tick
<1>9. \A i \in InstanceId : Metrics(i) => UNCHANGED <<at, id, table>>
  BY DEF Metrics
<1>10. BackoffOver \/ UNCHANGED vars => UNCHANGED <<at, id, table>>
  BY DEF BackoffOver, vars
<1> QED BY <1>3, <1>4, <1>5, <1>6, <1>7, <1>8, <1>9, <1>10 DEF Next

\* Of any number of clients that create and delete an instance, with bodies that arrive
\* whenever they do and saves that fail, one more was told that it created it (or got the
\* 500 of a failed save) than that it deleted it exactly if the instance exists
\* (InstancesApi, router.ts's catch).
THEOREM LedgerSafe == Spec => []LedgerBalances
<1>1. Init => LedgerBalances
  <2> SUFFICES ASSUME Init, NEW i \in InstanceId
               PROVE  Answered(i, Created) = Answered(i, Deleted) + (IF Known(i) THEN 1 ELSE 0)
    BY DEF LedgerBalances
  <2>1. \A A \in {Created, Deleted} : {q \in Request : id[q] = i /\ at[q] \in A} = {}
    BY DEF Init, Created, Deleted
  <2>2. Answered(i, Created) = 0 /\ Answered(i, Deleted) = 0
    BY <2>1, FS_EmptySet DEF Answered
  <2> QED BY <2>2 DEF Init, Known
<1> QED BY <1>1, TypeCorrect, LedgerStep, PTL DEF Spec

-----------------------------------------------------------------------------
(***************************************************************************)
(* The login limit: an attempt whose body is under way was let in below the *)
(* limit, and may yet fail.                                                 *)
(***************************************************************************)
Trying == {q \in Request : at[q] = "login"}
LimitInv == failures + Cardinality(Trying) <= MaxAttempts + Cardinality(Request) - 1

LEMMA TryingFinite ==
  /\ IsFiniteSet(Trying) /\ Cardinality(Trying) \in Nat /\ Cardinality(Request) \in Nat
  /\ Cardinality(Trying) <= Cardinality(Request)
BY FS_Subset, FS_CardinalityType DEF Trying

LEMMA LimitStep == ASSUME TypeOK, LimitInv, [Next]_vars PROVE LimitInv'
<1> DEFINE N == Cardinality(Request)
<1>0. /\ failures \in Nat /\ N \in Nat /\ MaxAttempts \in Nat \ {0}
      /\ Cardinality(Trying) \in Nat /\ Cardinality(Trying') \in Nat
      /\ Cardinality(Trying) <= N /\ Cardinality(Trying') <= N
      /\ failures + Cardinality(Trying) <= MaxAttempts + N - 1
      /\ IsFiniteSet(Trying)
  <2>1. IsFiniteSet(Trying') /\ Cardinality(Trying') \in Nat /\ Cardinality(Trying') <= N
    BY FS_Subset, FS_CardinalityType DEF Trying
  <2> QED BY <2>1, TryingFinite DEF LimitInv, TypeOK
<1>1. ASSUME failures' = failures, Trying' \subseteq Trying PROVE LimitInv'
  <2>1. Cardinality(Trying') <= Cardinality(Trying)
    BY <1>0, <1>1, FS_Subset
  <2> QED BY <1>0, <1>1, <2>1 DEF LimitInv
<1>2. ASSUME failures' = 0 PROVE LimitInv'
  BY <1>0, <1>2 DEF LimitInv
<1>3. ASSUME NEW q \in Request, NEW i \in InstanceId, Arrive(q, i) PROVE LimitInv'
  <2>1. PICK a \in Landing :
          /\ at' = [at EXCEPT ![q] = a]
          /\ a = "login" => failures < MaxAttempts
    BY <1>3, Arrival
  <2>2. failures' = failures
    BY <1>3 DEF Arrive
  <2>3. CASE a = "login"
    BY <1>0, <2>1, <2>2, <2>3 DEF LimitInv
  <2>4. CASE a # "login"
    <3>1. Trying' \subseteq Trying
      BY <2>1, <2>4 DEF Trying, TypeOK
    <3> QED BY <1>1, <2>2, <3>1
  <2> QED BY <2>3, <2>4
<1>4. ASSUME NEW q \in Request, LoginBody(q) PROVE LimitInv'
  <2>1. \/ failures' = 0
        \/ failures' = failures + 1 /\ at[q] = "login" /\ at' = [at EXCEPT ![q] = "denied"]
    BY <1>4 DEF LoginBody, CountFailure, Reply
  <2>2. CASE failures' = failures + 1 /\ at[q] = "login" /\ at' = [at EXCEPT ![q] = "denied"]
    <3>1. Trying' = Trying \ {q} /\ q \in Trying
      BY <2>2 DEF Trying, TypeOK
    <3>2. Cardinality(Trying') = Cardinality(Trying) - 1
      BY <1>0, <3>1, FS_RemoveElement
    <3> QED BY <1>0, <2>2, <3>2 DEF LimitInv
  <2> QED BY <1>2, <2>1, <2>2
<1>5. ASSUME NEW q \in Request, NEW n \in Name, ApiBody(q, n) PROVE LimitInv'
  <2>1. \E a \in {"201", "unsaved create", "400", "200", "unsaved update", "404"} : at' = [at EXCEPT ![q] = a]
    BY <1>5 DEF ApiBody, Create, Update, Reply
  <2>2. Trying' \subseteq Trying
    BY <2>1 DEF Trying, TypeOK
  <2> QED BY <1>1, <1>5, <2>2 DEF ApiBody
<1>6. ASSUME NEW q \in Request, BadBody(q) \/ StreamCloses(q) PROVE LimitInv'
  <2>1. \E a \in {"413", "400", "no answer", "over"} : at' = [at EXCEPT ![q] = a]
    BY <1>6 DEF BadBody, StreamCloses, Reply
  <2>2. Trying' \subseteq Trying
    BY <2>1 DEF Trying, TypeOK
  <2> QED BY <1>1, <1>6, <2>2 DEF BadBody, StreamCloses
<1>7. ASSUME UNCHANGED <<at, failures>> PROVE LimitInv'
  <2>1. Trying' \subseteq Trying
    BY <1>7 DEF Trying
  <2> QED BY <1>1, <1>7, <2>1
<1>8. /\ \A q \in Request : Tick(q) => UNCHANGED <<at, failures>>
      /\ \A i \in InstanceId : AgentUp(i) \/ AgentDown(i) \/ Metrics(i) => UNCHANGED <<at, failures>>
      /\ UNCHANGED vars => UNCHANGED <<at, failures>>
      /\ BackoffOver => failures' = 0
  BY DEF Tick, AgentUp, AgentDown, Metrics, vars, BackoffOver
<1> QED BY <1>2, <1>3, <1>4, <1>5, <1>6, <1>7, <1>8 DEF Next

\* However many attempts overlap, failed logins exceed the limit by at most the others
\* under way (checkLoginRateLimit, recordLoginFailure).
THEOREM LimitSafe == Spec => []OvershootBounded
<1>1. Init => LimitInv
  <2> SUFFICES ASSUME Init PROVE LimitInv
    OBVIOUS
  <2>1. Trying = {}
    BY DEF Init, Trying
  <2> QED BY <2>1, FS_EmptySet, TryingFinite DEF Init, LimitInv
<1>2. TypeOK /\ LimitInv => OvershootBounded
  BY TryingFinite DEF TypeOK, LimitInv, OvershootBounded
<1> QED BY <1>1, <1>2, TypeCorrect, LimitStep, PTL DEF Spec

-----------------------------------------------------------------------------
(***************************************************************************)
(* The router.  Its dispatch is a function of the mode and the request, so  *)
(* what it promises is a fact about every mode and every request.           *)
(***************************************************************************)
\* What each part of the dispatch can say.
LEMMA Dispatches ==
  ASSUME NEW m \in Modes, NEW r \in Inputs
  PROVE  /\ Challenge(m, r) \in {"", "401", "302"}
         /\ Challenge(m, r) = "" <=> r.method = "OPTIONS" \/ Authenticated(m, r)
         /\ ApiOperation(r) \in Operations \cup {"", "404"}
         /\ AuthRoute(m, r) \in {"", "sso", "404", "302", "form", "login"}
         /\ AuthRoute(m, r) = "302" => r.path = "logout"
BY DEF Challenge, ApiOperation, AuthRoute, Operations

\* No handler that shows or changes an instance is reached past the gate, but by OPTIONS.
THEOREM GateKept == GateAsked
<1> SUFFICES ASSUME NEW m \in Modes, NEW r \in Inputs
             PROVE  /\ Route(m, r) \in Operations => Authenticated(m, r)
                    /\ Route(m, r) \in Views => Authenticated(m, r) \/ r.method = "OPTIONS"
  BY DEF GateAsked
<1>1. Page(m, r) \in {"401", "302", "404"} \/ (Page(m, r) \in Views /\ Challenge(m, r) = "")
  BY Dispatches DEF Page, Views
<1> QED BY <1>1, Dispatches DEF Route, Operations, Views

\* A good credential opens every door; a redirect ends at the login form.
THEOREM DoorsOpen == NobodyShutOut
<1> SUFFICES ASSUME NEW m \in Modes, NEW r \in Inputs
             PROVE  /\ Authenticated(m, r) =>
                         Route(m, r) # "401" /\ (Route(m, r) = "302" => r.path = "logout")
                    /\ Route(m, r) = "302" => Route(m, SentToForm(r)) = "form"
  BY DEF NobodyShutOut
<1>1. ASSUME Authenticated(m, r)
      PROVE  Route(m, r) # "401" /\ (Route(m, r) = "302" => r.path = "logout")
  <2>1. Challenge(m, r) = "" /\ Page(m, r) \in {"page", "events", "404"}
    BY <1>1, Dispatches DEF Page
  <2> QED BY <1>1, <2>1, Dispatches DEF Route, Operations
<1>2. Route(m, SentToForm(r)) = "form"
  <2> DEFINE f == SentToForm(r)
  <2>1. f.host = "apex" /\ f.path = "login" /\ f.method = "GET"
    BY DEF SentToForm, Inputs
  <2>2. ApiOperation(f) = "" /\ AuthRoute(m, f) = "form" /\ HostRoute(f) = "apex"
    BY <2>1 DEF ApiOperation, AuthRoute, HostRoute
  <2> QED BY <2>1, <2>2 DEF Route, IsHealth, IsStatic
<1> QED BY <1>1, <1>2

=============================================================================
