---------------------------- MODULE OidcSessions ----------------------------
(***************************************************************************)
(* Single sign-on at the gateway: oidc-bootstrap.ts discovers the provider *)
(* with retries, oidc-client.ts keeps the sessions, and the router          *)
(* refreshes a stale access token before it asks the gate.  Each session is *)
(* one login, begun in one browser whose only transaction cookie is tx.     *)
(* Refresh tokens are numbered by generation; the provider is external.     *)
(***************************************************************************)
EXTENDS Naturals

CONSTANTS
  Session,       \* logins and the sessions they become
  Request,       \* requests that carry a session cookie
  Rotates,       \* TRUE: the provider issues a new refresh token at every use
  NetworkFails,  \* TRUE: an exchange with the provider may fail on the way
  MaxToken,      \* bound: generations of refresh tokens
  InitialDelay, MaxDelay, Timeout,  \* options of the bootstrap
  InitTime,      \* bound: how long one discovery may take
  None

ASSUME SwitchAssumption == Rotates \in BOOLEAN /\ NetworkFails \in BOOLEAN
ASSUME NoneAssumption == None \notin Nat \cup Session
ASSUME NumberAssumption ==
  /\ MaxToken \in Nat /\ InitTime \in Nat /\ Timeout \in Nat
  /\ InitialDelay \in Nat \ {0} /\ MaxDelay \in Nat \ {0}

VARIABLES
  boot,     \* the bootstrap: "idle", "trying", "waiting", "ready", "givenUp"
  delay,    \* its backoff before the next attempt
  elapsed,  \* time since start()
  reachable, \* a discovery would succeed now (followed until the bootstrap ends)
  missed,   \* the provider was out of reach at some moment of the latest attempt
  tx,       \* the login transaction the browser's cookie holds
  store,    \* [Session -> state of the login, then of the session]
  expired,  \* [Session -> BOOLEAN]: past session.expires
  access,   \* [Session -> "fresh", "stale", "unknown"]: accessTokenExpiresAt
  token,    \* [Session -> generation of session.refreshToken, or None]
  idp,      \* [Session -> generation the provider honours, or None: revoked]
  req,      \* [Request -> where it is, see Places]
  sid,      \* [Request -> Session \cup {None}]: its cookie
  sent,     \* [Request -> the refresh token it sent, or None]
  reply     \* [Request -> the token the provider answered with, or None]

bootVars == <<boot, delay, elapsed, reachable, missed>>
sessionVars == <<tx, store, expired, access, token, idp>>
reqVars == <<req, sid, sent, reply>>
vars == <<bootVars, sessionVars, reqVars>>

Stages == {"unused", "atIdp", "exchanging", "failed", "live", "gone"}
Tokens == 0 .. MaxToken
\* "refreshing": the provider has not answered; "answered" and "failed": the answer
\* is on its way back; then what the gate said.
Places == {"idle", "refreshing", "answered", "failed", "allowed", "upgraded", "refused"}
Waiting == {"refreshing", "answered", "failed"}

Init ==
  /\ boot = "idle" /\ delay = InitialDelay /\ elapsed = 0
  /\ reachable \in BOOLEAN /\ missed = FALSE
  /\ tx = None
  /\ store = [s \in Session |-> "unused"]
  /\ expired = [s \in Session |-> FALSE]
  /\ access = [s \in Session |-> "unknown"]
  /\ token = [s \in Session |-> None]
  /\ idp = [s \in Session |-> None]
  /\ req = [q \in Request |-> "idle"]
  /\ sid = [q \in Request |-> None]
  /\ sent = [q \in Request |-> None]
  /\ reply = [q \in Request |-> None]

-----------------------------------------------------------------------------
\* OidcBootstrap.  runAttempt: give up once the deadline has passed, else discover.
\* Mutant: at the deadline is too late.
GiveUpEarly(t) ==
  elapsed' = t /\ boot' = (IF t >= Timeout THEN "givenUp" ELSE "trying") /\ missed' = ~reachable
RunAttempt(t) ==
  elapsed' = t /\ boot' = (IF t > Timeout THEN "givenUp" ELSE "trying") /\ missed' = ~reachable

Start ==
  /\ boot = "idle"
  /\ RunAttempt(0)
  /\ UNCHANGED <<delay, reachable, sessionVars, reqVars>>

Backoff(d) == IF 2 * d < MaxDelay THEN 2 * d ELSE MaxDelay

\* client.init succeeds, perhaps after the deadline.
InitSucceeds ==
  /\ boot = "trying" /\ reachable
  /\ boot' = "ready" /\ missed' = FALSE
  /\ UNCHANGED <<delay, elapsed, reachable, sessionVars, reqVars>>

\* It fails after d: retry after the delay, doubled up to maxDelayMs.
InitFails(d) ==
  /\ boot = "trying" /\ missed
  /\ boot' = "waiting"
  /\ elapsed' = elapsed + d
  /\ UNCHANGED <<delay, reachable, missed, sessionVars, reqVars>>
Retry ==
  /\ boot = "waiting"
  /\ RunAttempt(elapsed + delay)
  /\ delay' = Backoff(delay)
  /\ UNCHANGED <<reachable, sessionVars, reqVars>>

\* The provider, or the way to it, goes away and comes back.
IdpGone ==
  /\ boot \notin {"ready", "givenUp"} /\ reachable
  /\ reachable' = FALSE /\ missed' = TRUE
  /\ UNCHANGED <<boot, delay, elapsed, sessionVars, reqVars>>
IdpBack ==
  /\ boot \notin {"ready", "givenUp"} /\ ~reachable
  /\ reachable' = TRUE
  /\ UNCHANGED <<boot, delay, elapsed, missed, sessionVars, reqVars>>

-----------------------------------------------------------------------------
\* login: only once discovery is done, else it throws; the new transaction
\* replaces the one in the cookie.
Login(s) ==
  /\ boot = "ready" /\ store[s] = "unused"
  /\ store' = [store EXCEPT ![s] = "atIdp"]
  /\ tx' = s
  /\ UNCHANGED <<bootVars, expired, access, token, idp, reqVars>>

\* The cookie ends before the login does (TX_TTL_MS).
TxExpires ==
  /\ tx # None
  /\ tx' = None
  /\ UNCHANGED <<bootVars, store, expired, access, token, idp, reqVars>>

\* The browser is back from the provider: the transaction is read from the cookie.
\* Missing, or another login's (the state differs): refused, and the cookie cleared.
Callback(s) ==
  /\ store[s] = "atIdp"
  /\ IF tx = s THEN store' = [store EXCEPT ![s] = "exchanging"] /\ UNCHANGED tx
               ELSE store' = [store EXCEPT ![s] = "failed"] /\ tx' = None
  /\ UNCHANGED <<bootVars, expired, access, token, idp, reqVars>>

\* The code is exchanged: a session, with a refresh token or none and an expiry of
\* the access token or none; or an error.  The cookie is cleared whatever it holds.
ExchangeDone(s) ==
  /\ store[s] = "exchanging"
  /\ tx' = None
  /\ \/ \E t \in {None, 0}, a \in {"fresh", "unknown"} :
          /\ store' = [store EXCEPT ![s] = "live"]
          /\ token' = [token EXCEPT ![s] = t]
          /\ idp' = [idp EXCEPT ![s] = t]
          /\ access' = [access EXCEPT ![s] = a]
     \/ store' = [store EXCEPT ![s] = "failed"] /\ UNCHANGED <<token, idp, access>>
  /\ UNCHANGED <<bootVars, expired, reqVars>>

-----------------------------------------------------------------------------
\* SessionStore.  get: an expired session is deleted when it is asked for.
Delete(s) == store' = [store EXCEPT ![s] = IF @ = "live" THEN "gone" ELSE @]
Valid(s) == store[s] = "live" /\ ~expired[s]

\* Mutants: the tokens of a deleted session bring it back; rotation is ignored.
ReviveTokens(s, t, a) ==
  /\ store' = [store EXCEPT ![s] = "live"]
  /\ token' = [token EXCEPT ![s] = t] /\ access' = [access EXCEPT ![s] = a]
KeepRefreshToken(s, t, a) ==
  /\ access' = [access EXCEPT ![s] = IF store[s] = "live" THEN a ELSE @]
  /\ UNCHANGED <<token, store>>
\* updateTokens: nothing if the session has gone meanwhile.
UpdateTokens(s, t, a) ==
  /\ IF store[s] = "live"
       THEN token' = [token EXCEPT ![s] = t] /\ access' = [access EXCEPT ![s] = a]
       ELSE UNCHANGED <<token, access>>
  /\ UNCHANGED store

\* cleanup, every five minutes: all expired sessions go.
CleanupSessions ==
  /\ store' = [s \in Session |-> IF store[s] = "live" /\ expired[s] THEN "gone" ELSE store[s]]
  /\ UNCHANGED <<bootVars, tx, expired, access, token, idp, reqVars>>

Logout(s) ==
  /\ store[s] = "live"
  /\ Delete(s)
  /\ UNCHANGED <<bootVars, tx, expired, access, token, idp, reqVars>>

\* Time passes: an access token goes stale, a session reaches its end.
GoStale(s) ==
  /\ store[s] = "live" /\ access[s] = "fresh"
  /\ access' = [access EXCEPT ![s] = "stale"]
  /\ UNCHANGED <<bootVars, tx, store, expired, token, idp, reqVars>>
Expire(s) ==
  /\ store[s] = "live" /\ ~expired[s]
  /\ expired' = [expired EXCEPT ![s] = TRUE]
  /\ UNCHANGED <<bootVars, tx, store, access, token, idp, reqVars>>

-----------------------------------------------------------------------------
NeedsRefresh(s) == Valid(s) /\ token[s] # None /\ access[s] = "stale"

\* Mutant: the gate's answer is computed before the refresh and used after it.
GateTrusting(q, s) == req' = [req EXCEPT ![q] = "allowed"]
\* isAuthenticated: the session is looked up after the refresh.
Gate(q, s) ==
  req' = [req EXCEPT ![q] = IF store'[s] = "live" /\ ~expired[s] THEN "allowed" ELSE "refused"]

\* An HTTP request with the cookie of s: refresh first if the token is stale, else
\* straight to the gate.
Arrive(q, s) ==
  /\ req[q] = "idle" /\ store[s] \in {"live", "gone"}
  /\ sid' = [sid EXCEPT ![q] = s]
  /\ IF NeedsRefresh(s)
       THEN /\ req' = [req EXCEPT ![q] = "refreshing"]
            /\ sent' = [sent EXCEPT ![q] = token[s]]
            /\ UNCHANGED store
       ELSE /\ IF expired[s] THEN Delete(s) ELSE UNCHANGED store
            /\ Gate(q, s)
            /\ UNCHANGED sent
  /\ UNCHANGED <<bootVars, tx, expired, access, token, idp, reply>>

\* A WebSocket upgrade with the cookie of s is checked without a refresh.
Upgrade(q, s) ==
  /\ req[q] = "idle" /\ store[s] \in {"live", "gone"}
  /\ sid' = [sid EXCEPT ![q] = s]
  /\ IF expired[s] THEN Delete(s) ELSE UNCHANGED store
  /\ req' = [req EXCEPT ![q] = IF Valid(s) THEN "upgraded" ELSE "refused"]
  /\ UNCHANGED <<bootVars, tx, expired, access, token, idp, sent, reply>>

\* The provider answers a refresh: it honours its newest token only, and may issue
\* the next.
IdpAnswers(q) ==
  LET s == sid[q] IN
  /\ req[q] = "refreshing"
  /\ IF idp[s] # None /\ sent[q] = idp[s]
       THEN /\ Rotates => idp[s] < MaxToken
            /\ idp' = IF Rotates THEN [idp EXCEPT ![s] = @ + 1] ELSE idp
            /\ reply' = [reply EXCEPT ![q] = idp'[s]]
            /\ req' = [req EXCEPT ![q] = "answered"]
       ELSE req' = [req EXCEPT ![q] = "failed"] /\ UNCHANGED <<idp, reply>>
  /\ UNCHANGED <<bootVars, tx, store, expired, access, token, sid, sent>>

\* The request never reaches the provider, or its answer never comes back.
NetworkFailure(q) ==
  /\ NetworkFails /\ req[q] \in {"refreshing", "answered"}
  /\ req' = [req EXCEPT ![q] = "failed"]
  /\ UNCHANGED <<bootVars, sessionVars, sid, sent, reply>>

\* Mutant: a refresh that failed leaves the session.
KeepOnError(s) == UNCHANGED store
EndOnError(s) == Delete(s)

\* refreshSessionIfStale goes on after its await: new tokens, or on any error the
\* end of the session; then the gate.
RefreshDone(q) ==
  LET s == sid[q] IN
  /\ req[q] \in {"answered", "failed"}
  /\ IF req[q] = "failed"
       THEN EndOnError(s) /\ UNCHANGED <<token, access>>
       ELSE \E a \in {"fresh", "unknown"} : UpdateTokens(s, reply[q], a)
  /\ Gate(q, s)
  /\ UNCHANGED <<bootVars, tx, expired, idp, sid, sent, reply>>

\* Authentik revokes the grant.
IdpRevokes(s) ==
  /\ idp[s] # None
  /\ idp' = [idp EXCEPT ![s] = None]
  /\ UNCHANGED <<bootVars, tx, store, expired, access, token, reqVars>>

-----------------------------------------------------------------------------
Next ==
  \/ Start \/ InitSucceeds \/ Retry \/ IdpGone \/ IdpBack \/ \E d \in 0 .. InitTime : InitFails(d)
  \/ \E s \in Session : \/ Login(s) \/ Callback(s) \/ ExchangeDone(s) \/ Logout(s)
                        \/ GoStale(s) \/ Expire(s) \/ IdpRevokes(s)
  \/ TxExpires \/ CleanupSessions
  \/ \E q \in Request : \/ \E s \in Session : Arrive(q, s) \/ Upgrade(q, s)
                        \/ IdpAnswers(q) \/ NetworkFailure(q) \/ RefreshDone(q)

Spec == Init /\ [][Next]_vars

\* A discovery ends, one way or the other (openid-client limits its requests), and
\* the retry timer fires.
Fairness ==
  /\ WF_vars(Start) /\ WF_vars(Retry)
  /\ WF_vars(InitSucceeds \/ \E d \in 0 .. InitTime : InitFails(d))
FairSpec == Spec /\ Fairness

-----------------------------------------------------------------------------
\* Every variable has its type; the clock of the bootstrap is bounded by its options.
TypeOK ==
  /\ boot \in {"idle", "trying", "waiting", "ready", "givenUp"}
  /\ delay \in 1 .. (InitialDelay + MaxDelay)
  /\ elapsed \in 0 .. (Timeout + InitTime + InitialDelay + MaxDelay)
  /\ reachable \in BOOLEAN /\ missed \in BOOLEAN
  /\ tx \in Session \cup {None}
  /\ store \in [Session -> Stages]
  /\ expired \in [Session -> BOOLEAN]
  /\ access \in [Session -> {"fresh", "stale", "unknown"}]
  /\ token \in [Session -> Tokens \cup {None}]
  /\ idp \in [Session -> Tokens \cup {None}]
  /\ req \in [Request -> Places]
  /\ sid \in [Request -> Session \cup {None}]
  /\ sent \in [Request -> Tokens \cup {None}]
  /\ reply \in [Request -> Tokens \cup {None}]

\* A session that has ended, by logout, at its time, or because a refresh failed,
\* is not brought back by the answer to a refresh that was under way.
GoneStays == [][\A s \in Session : store[s] = "gone" => store'[s] = "gone"]_vars

Lets(q) == req[q] # "allowed" /\ req'[q] = "allowed"

\* What the gate lets through is still a session at that moment, although the
\* request may have waited for a refresh while the user logged out elsewhere.
AllowedIsLive ==
  [][\A q \in Request : Lets(q) => store'[sid'[q]] = "live" /\ ~expired'[sid'[q]]]_vars

\* No HTTP request rides a session whose access token is known to be stale and
\* could have been refreshed: this is how revocation at the provider reaches the
\* portal (oidc-client.ts, refreshSessionIfStale).
StaleNotAllowed ==
  [][\A q \in Request :
       Lets(q) => access'[sid'[q]] # "stale" \/ token'[sid'[q]] = None]_vars

\* Between refreshes a session holds the token the provider will accept next: no
\* order of answers leaves an older one.
TokenCurrent ==
  \A s \in Session :
    store[s] = "live" /\ idp[s] # None /\ (\A q \in Request : sid[q] = s => req[q] \notin Waiting)
      => token[s] = idp[s]

\* An attempt that has missed nothing, or one that starts by the deadline, is still to
\* come.
AttemptLeft ==
  \/ boot = "idle"
  \/ boot = "waiting" /\ elapsed + delay <= Timeout
  \/ boot = "trying" /\ (~missed \/ elapsed + InitTime + delay <= Timeout)

\* Single sign-on comes up once the provider is back to stay, however often it came and
\* went before: of what docs/authentik-sso.md:16 promises ("retries discovery with
\* backoff until the IdP comes back"), the part oidc-bootstrap.ts keeps.  Past the
\* deadline it retries no more, and a provider that comes back later is never asked.
ReadyOnceBack == [](AttemptLeft /\ []reachable => <>(boot = "ready"))

\* docs/authentik-sso.md: "The access token is silently refreshed in the background
\* [...] so a short access-token validity [...] never logs the user out": a session
\* ends by logout, at its time, or because the provider revoked it.
EndsForReason ==
  [][\A s \in Session :
       store[s] = "live" /\ store'[s] = "gone" =>
         expired[s] \/ idp[s] = None \/ Logout(s)]_vars

=============================================================================
