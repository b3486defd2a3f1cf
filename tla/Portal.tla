------------------------------- MODULE Portal -------------------------------
(***************************************************************************)
(* The gateway's management side on the apex host: the router's dispatch,  *)
(* the gate, the login form with its limit, the instance API whose bodies  *)
(* are awaited, and the dashboard's event stream.  The registry is a table *)
(* of names and states (Registry has the detail); a request for an         *)
(* instance's own host leaves for ProxyRequests.                           *)
(***************************************************************************)
EXTENDS Naturals, FiniteSets

CONSTANTS
  InstanceId, Name,
  Request,          \* HTTP requests from one address
  MaxAttempts,      \* MAX_LOGIN_ATTEMPTS
  MaxChanges,       \* bound: agents that connect or are lost, agent metrics
  None

ASSUME RequestAssumption == IsFiniteSet(Request)
ASSUME BoundAssumption == MaxAttempts \in Nat \ {0} /\ MaxChanges \in Nat

VARIABLES
  mode,      \* [oidc, secret: BOOLEAN]: which ways to authenticate are configured
  table,     \* [InstanceId -> [name, online] or None]: the registry
  at,        \* [Request -> "idle", a handler waiting for its body, or its answer]
  id,        \* [Request -> InstanceId \cup {None}]: the instance in its path or body
  failures,  \* loginFailures: failed logins of the address
  shown,     \* [Request -> the table its event stream last carried, or None]
  changes    \* agents connected or lost so far

vars == <<mode, table, at, id, failures, shown, changes>>

Modes == [oidc : BOOLEAN, secret : BOOLEAN]
Entries == [name : Name, online : BOOLEAN]
Tables == [InstanceId -> Entries \cup {None}]
Known(i) == table[i] # None

ASSUME NoneAssumption == None \notin Entries \cup InstanceId

Hosts == {"apex", "instance", "local", "other"}
Paths == {"health", "list", "item", "deploy", "static", "login", "sso", "logout",
          "page", "events", "other"}
Methods == {"GET", "POST", "PATCH", "DELETE", "OPTIONS"}
Creds == {"none", "session", "secret", "cookie", "basic", "wrong basic"}
Inputs == [host : Hosts, path : Paths, method : Methods, cred : Creds]

\* "misplaced" is a PATCH of a path no instance has: its body is awaited all the same.
Waiting == {"create", "update", "misplaced", "login"}
\* The 500 of an operation that changed the registry and could not write the state file.
Unsaved == {"unsaved create", "unsaved update", "unsaved delete"}
Answers == {"health", "404", "proxy", "list", "deploy", "static", "form", "sso", "401", "302",
            "page", "201", "200", "deleted", "400", "413", "503", "welcome", "limited",
            "denied", "events", "over", "no answer"} \cup Unsaved

Init ==
  /\ mode \in Modes
  /\ table = [i \in InstanceId |-> None]
  /\ at = [q \in Request |-> "idle"]
  /\ id = [q \in Request |-> None]
  /\ failures = 0
  /\ shown = [q \in Request |-> None]
  /\ changes = 0

-----------------------------------------------------------------------------
\* isAuthenticated: a session only under OIDC; the secret, in a header, a query, the
\* cookie or a basic credential, whenever one is configured; anyone if neither is.
Authenticated(m, r) ==
  \/ m.oidc /\ r.cred = "session"
  \/ m.secret /\ r.cred \in {"secret", "cookie", "basic"}
  \/ ~m.oidc /\ ~m.secret

\* respondIfUnauthenticated: "" to go on.
Challenge(m, r) ==
  IF r.method = "OPTIONS" \/ Authenticated(m, r) THEN ""
  ELSE IF r.cred \in {"basic", "wrong basic"} THEN "401" ELSE "302"

\* InstancesApi.handle: the operation, or "" for a method and path it has not.  The path
\* ending in /deploy names, to PATCH and DELETE, an id no instance has; PATCH finds that
\* out when it has read the body.
ApiOperation(r) ==
  CASE r.path = "list" /\ r.method = "GET" -> "list"
    [] r.path = "list" /\ r.method = "POST" -> "create"
    [] r.path = "deploy" /\ r.method = "GET" -> "deploy"
    [] r.path = "item" /\ r.method = "PATCH" -> "update"
    [] r.path = "item" /\ r.method = "DELETE" -> "delete"
    [] r.path = "deploy" /\ r.method = "PATCH" -> "misplaced"
    [] r.path = "deploy" /\ r.method = "DELETE" -> "404"
    [] OTHER -> ""

\* BrowserAuthRoutes.handle; what /auth/login, /auth/callback and /auth/logout do
\* under OIDC is in OidcSessions.
AuthRoute(m, r) ==
  IF r.path = "sso" THEN (IF m.oidc THEN "sso" ELSE "404")
  ELSE IF r.path = "logout" THEN (IF m.oidc THEN "sso" ELSE "302")
  ELSE IF r.method = "GET" \/ (r.method = "POST" /\ ~m.secret) THEN "form"
  ELSE IF r.method = "POST" THEN "login" ELSE ""

Page(m, r) ==
  IF Challenge(m, r) # "" THEN Challenge(m, r)
  ELSE IF r.path = "page" THEN "page" ELSE IF r.path = "events" THEN "events" ELSE "404"

\* parseRequestHost and isDevApexHost: a loopback or private address serves as apex.
HostRoute(r) == IF r.host \in {"apex", "local"} THEN "apex" ELSE r.host
IsHealth(r) == r.path = "health"
IsStatic(r) == r.path = "static"

\* _handleRequest: which handler a request reaches, or how it is answered at once.
Route(m, r) ==
  IF IsHealth(r) THEN "health"
  ELSE IF HostRoute(r) = "other" THEN "404"
  ELSE IF HostRoute(r) = "instance" THEN (IF Challenge(m, r) = "" THEN "proxy" ELSE Challenge(m, r))
  ELSE IF ApiOperation(r) # "" THEN (IF Authenticated(m, r) THEN ApiOperation(r) ELSE "401")
  ELSE IF IsStatic(r) THEN "static"
  ELSE IF r.path \in {"login", "sso", "logout"} /\ AuthRoute(m, r) # "" THEN AuthRoute(m, r)
  ELSE Page(m, r)

Reached == [m \in Modes |-> {Route(m, r) : r \in Inputs}]

-----------------------------------------------------------------------------
Streams == {q \in Request : at[q] = "events"}
Reply(q, a) == at' = [at EXCEPT ![q] = a]

\* pushToAll: every open event stream gets the table as it is.
PushTo(to, t) == shown' = [q \in Request |-> IF q \in to THEN t ELSE shown[q]]

\* Mutant: one attempt too many.
LimitedLate == failures > MaxAttempts
\* checkLoginRateLimit, when a request arrives: its own body is not yet read.
Limited == failures >= MaxAttempts

\* registry.remove, then the save, which may throw out of the handler.
Delete(q, i) ==
  IF Known(i) THEN Reply(q, "deleted") \/ Reply(q, "unsaved delete") ELSE Reply(q, "404")

\* A request arrives, or its sender tries the login form again; what needs no body is
\* done at once.
Arrive(q, i) ==
  /\ at[q] \in {"idle", "form", "denied", "limited"}
  /\ \E h \in Reached[mode] :
       /\ CASE h = "deploy" -> Reply(q, IF Known(i) THEN h ELSE "404")
            [] h = "delete" -> Delete(q, i)
            [] h = "proxy" ->
                 Reply(q, IF ~Known(i) THEN "404" ELSE IF table[i].online THEN h ELSE "503")
            [] h = "login" -> Reply(q, IF Limited THEN "limited" ELSE h)
            [] OTHER -> Reply(q, h)
       /\ table' = IF h = "delete" THEN [table EXCEPT ![i] = None] ELSE table
       /\ IF h = "events" THEN PushTo(Streams \cup {q}, table) ELSE UNCHANGED shown
  /\ id' = [id EXCEPT ![q] = i]
  /\ UNCHANGED <<mode, failures, changes>>

\* The body is too large, aborted, or no JSON.  A body that is the JSON value null is
\* taken for one of these by the handler, which then answers nothing.
BadBody(q) ==
  /\ at[q] \in Waiting
  /\ \E a \in {"413", "400"} \cup (IF at[q] = "login" THEN {} ELSE {"no answer"}) : Reply(q, a)
  /\ UNCHANGED <<mode, table, id, failures, shown, changes>>

\* Mutant: create does not look for the id again.
Overwrite(q, i, n) ==
  /\ table' = [table EXCEPT ![i] = [name |-> n, online |-> FALSE]]
  /\ Reply(q, "201")
\* registry.create, against the table of the moment: an id that is taken, or a bad
\* name or id, is refused.  The entry is in the table when the save throws.
Create(q, i, n) ==
  \/ /\ ~Known(i)
     /\ table' = [table EXCEPT ![i] = [name |-> n, online |-> FALSE]]
     /\ Reply(q, "201") \/ Reply(q, "unsaved create")
  \/ Reply(q, "400") /\ UNCHANGED table

\* registry.update: an instance deleted meanwhile, or a bad name, is answered 404.
Update(q, i, n) ==
  \/ /\ Known(i)
     /\ table' = [table EXCEPT ![i].name = n]
     /\ Reply(q, "200") \/ Reply(q, "unsaved update")
  \/ Reply(q, "404") /\ UNCHANGED table

\* The body of an API request is complete.
ApiBody(q, n) ==
  /\ \/ at[q] = "create" /\ Create(q, id[q], n)
     \/ at[q] = "update" /\ Update(q, id[q], n)
     \/ at[q] = "misplaced" /\ Reply(q, "404") /\ UNCHANGED table
  /\ UNCHANGED <<mode, id, failures, shown, changes>>

\* recordLoginFailure; a success forgets the failures.
CountFailure(ok) == failures' = IF ok THEN 0 ELSE failures + 1

\* The login form is complete: the secret is right or wrong, whatever other
\* attempts have been recorded since it arrived.
LoginBody(q) ==
  /\ at[q] = "login"
  /\ \E ok \in BOOLEAN : CountFailure(ok) /\ Reply(q, IF ok THEN "welcome" ELSE "denied")
  /\ UNCHANGED <<mode, table, id, shown, changes>>

\* LOGIN_BACKOFF_MS after the first failure the entry no longer counts.
BackoffOver ==
  /\ failures > 0
  /\ failures' = 0
  /\ UNCHANGED <<mode, table, at, id, shown, changes>>

-----------------------------------------------------------------------------
\* An agent registers: the table says online, nobody is told yet.
AgentUp(i) ==
  /\ changes < MaxChanges /\ Known(i) /\ ~table[i].online
  /\ table' = [table EXCEPT ![i].online = TRUE]
  /\ changes' = changes + 1
  /\ UNCHANGED <<mode, at, id, failures, shown>>

\* Its connection closes: the tunnel's listener publishes before the registry's sets
\* the instance offline; or the heartbeat timer does, unannounced.
AgentDown(i) ==
  /\ changes < MaxChanges /\ Known(i) /\ table[i].online
  /\ PushTo(Streams, table) \/ UNCHANGED shown
  /\ table' = [table EXCEPT ![i].online = FALSE]
  /\ changes' = changes + 1
  /\ UNCHANGED <<mode, at, id, failures>>

\* A heartbeat that changes what is shown: publish().
Metrics(i) ==
  /\ Known(i) /\ table[i].online
  /\ PushTo(Streams, table)
  /\ UNCHANGED <<mode, table, at, id, failures, changes>>

\* Mutant: only a stream's first snapshot is pushed.
PushNothing(q) == UNCHANGED shown
PushToAll(q) == PushTo(Streams, table)
\* The two-second interval of one stream pushes to all of them.
Tick(q) ==
  /\ q \in Streams
  /\ PushToAll(q)
  /\ UNCHANGED <<mode, table, at, id, failures, changes>>

\* The dashboard goes away: its interval stops.
StreamCloses(q) ==
  /\ q \in Streams
  /\ Reply(q, "over")
  /\ UNCHANGED <<mode, table, id, failures, shown, changes>>

Next ==
  \/ \E q \in Request : \/ \E i \in InstanceId : Arrive(q, i)
                        \/ \E n \in Name : ApiBody(q, n)
                        \/ BadBody(q) \/ LoginBody(q) \/ Tick(q) \/ StreamCloses(q)
  \/ \E i \in InstanceId : AgentUp(i) \/ AgentDown(i) \/ Metrics(i)
  \/ BackoffOver

Spec == Init /\ [][Next]_vars
\* The interval of every open stream fires again and again.
FairSpec == Spec /\ \A q \in Request : WF_vars(Tick(q))

-----------------------------------------------------------------------------
\* Every variable has its type.
TypeOK ==
  /\ mode \in Modes
  /\ table \in Tables
  /\ at \in [Request -> {"idle"} \cup Waiting \cup Answers]
  /\ id \in [Request -> InstanceId \cup {None}]
  /\ failures \in Nat
  /\ shown \in [Request -> Tables \cup {None}]
  /\ changes \in 0 .. MaxChanges

\* The login limit is exceeded by those attempts only whose bodies were under way when it
\* was reached: however late they come, nobody gets a further try (checkLoginRateLimit
\* is asked before the body is read, recordLoginFailure after).
OvershootBounded == failures <= MaxAttempts + Cardinality(Request) - 1

Created == {"201", "unsaved create"}
Deleted == {"deleted", "unsaved delete"}
Answered(i, A) == Cardinality({q \in Request : id[q] = i /\ at[q] \in A})

\* What clients were told adds up: an instance exists exactly if one more create than
\* deletes of it was done, however bodies arrive late, requests interleave and saves
\* fail.  Two clients never both create an id, none deletes what another has deleted, and
\* nothing is done under a refusal: the one answer that hides a create or a delete is the
\* 500 of a failed save (router.ts's catch), which counts here as done.
LedgerBalances ==
  \A i \in InstanceId :
    Answered(i, Created) = Answered(i, Deleted) + (IF Known(i) THEN 1 ELSE 0)

\* A dashboard shows what is the case: whatever was pushed late or before a change,
\* an open stream comes to carry the table as it is then.
DashboardFresh ==
  \A q \in Request : (at[q] = "events" /\ shown[q] # table) ~> (shown[q] = table \/ at[q] # "events")

\* What the instance API does, and what only the owner of a credential should see.
Operations == {"list", "create", "update", "delete", "deploy", "misplaced"}
Views == {"page", "events", "proxy"}

\* The router asks the gate before every handler that shows or changes an instance, on
\* every host and in every mode; only OPTIONS, which a browser sends without
\* credentials, goes past it, and never to an operation of the API.
GateAsked ==
  \A m \in Modes, r \in Inputs :
    /\ Route(m, r) \in Operations => Authenticated(m, r)
    /\ Route(m, r) \in Views => Authenticated(m, r) \/ r.method = "OPTIONS"

\* Nobody with a good credential is turned away, and nobody without one is sent in
\* circles: a redirect, whose Location is /login on the apex host, ends at the form.
SentToForm(r) == [r EXCEPT !.host = "apex", !.path = "login", !.method = "GET"]
NobodyShutOut ==
  \A m \in Modes, r \in Inputs :
    /\ Authenticated(m, r) =>
         Route(m, r) # "401" /\ (Route(m, r) = "302" => r.path = "logout")
    /\ Route(m, r) = "302" => Route(m, SentToForm(r)) = "form"

=============================================================================
