-------------------------- MODULE OidcSessionsProofs --------------------------
(***************************************************************************)
(* Theorems about OidcSessions for every number of sessions and requests,  *)
(* any provider, and any options of the bootstrap.                         *)
(***************************************************************************)
EXTENDS OidcSessions, TLAPS

(***************************************************************************)
(* Types.  A request that waits for a refresh has a session in its cookie,  *)
(* and the clock of the bootstrap obeys its deadline at every stage.        *)
(***************************************************************************)
WaitsForSession == \A q \in Request : req[q] \in Waiting => sid[q] \in Session
InTime ==
  /\ boot \in {"idle", "trying"} => elapsed <= Timeout
  /\ boot = "waiting" => elapsed <= Timeout + InitTime
TypeInv == TypeOK /\ WaitsForSession /\ InTime

LEMMA TypeInit == Init => TypeInv
<1> SUFFICES ASSUME Init PROVE TypeInv
  OBVIOUS
<1>1. /\ boot \in {"idle", "trying", "waiting", "ready", "givenUp"}
      /\ delay \in 1 .. (InitialDelay + MaxDelay)
      /\ elapsed \in 0 .. (Timeout + InitTime + InitialDelay + MaxDelay)
      /\ InTime
  BY NumberAssumption DEF Init, InTime
<1>2. reachable \in BOOLEAN /\ missed \in BOOLEAN
  BY DEF Init
<1>3. /\ tx \in Session \cup {None}
      /\ store \in [Session -> Stages]
      /\ expired \in [Session -> BOOLEAN]
      /\ access \in [Session -> {"fresh", "stale", "unknown"}]
      /\ token \in [Session -> Tokens \cup {None}]
      /\ idp \in [Session -> Tokens \cup {None}]
  BY DEF Init, Stages
<1>4. /\ req \in [Request -> Places]
      /\ sid \in [Request -> Session \cup {None}]
      /\ sent \in [Request -> Tokens \cup {None}]
      /\ reply \in [Request -> Tokens \cup {None}]
      /\ WaitsForSession
  BY DEF Init, WaitsForSession, Waiting, Places
<1> QED BY <1>1, <1>2, <1>3, <1>4 DEF TypeInv, TypeOK

\* The bootstrap touches nothing but its own variables.
LEMMA BootTypes ==
  ASSUME TypeInv,
         Start \/ InitSucceeds \/ Retry \/ IdpGone \/ IdpBack \/ \E d \in 0 .. InitTime : InitFails(d)
  PROVE  TypeInv'
<1> USE NumberAssumption DEF TypeInv, TypeOK, WaitsForSession, InTime
<1>1. UNCHANGED <<sessionVars, reqVars>>
  BY DEF Start, InitSucceeds, Retry, IdpGone, IdpBack, InitFails
<1>2. CASE Start
  BY <1>1, <1>2 DEF Start, RunAttempt, sessionVars, reqVars
<1>3. CASE InitSucceeds
  BY <1>1, <1>3 DEF InitSucceeds, sessionVars, reqVars
<1>4. ASSUME NEW d \in 0 .. InitTime, InitFails(d)
      PROVE  TypeInv'
  BY <1>1, <1>4 DEF InitFails, sessionVars, reqVars
<1>5. CASE Retry
  BY <1>1, <1>5 DEF Retry, RunAttempt, Backoff, sessionVars, reqVars
<1>6. CASE IdpGone \/ IdpBack
  BY <1>1, <1>6 DEF IdpGone, IdpBack, sessionVars, reqVars
<1> QED BY <1>2, <1>3, <1>4, <1>5, <1>6

LEMMA TypeStep == TypeInv /\ [Next]_vars => TypeInv'
<1> SUFFICES ASSUME TypeInv, [Next]_vars PROVE TypeInv'
  OBVIOUS
<1> USE DEF TypeInv, TypeOK, WaitsForSession, InTime, bootVars, Stages
<1>1. CASE UNCHANGED vars
  BY <1>1 DEF vars, sessionVars, reqVars
<1>2. CASE Start \/ InitSucceeds \/ Retry \/ IdpGone \/ IdpBack \/ \E d \in 0 .. InitTime : InitFails(d)
  BY <1>2, BootTypes
<1>3. ASSUME NEW s \in Session, Login(s) \/ Callback(s) \/ Logout(s) \/ GoStale(s) \/ Expire(s)
                                 \/ IdpRevokes(s)
      PROVE  TypeInv'
  BY <1>3 DEF Login, Callback, Logout, GoStale, Expire, IdpRevokes, Delete, reqVars
<1>4. ASSUME NEW s \in Session, ExchangeDone(s)
      PROVE  TypeInv'
  BY <1>4, NumberAssumption DEF ExchangeDone, Tokens, reqVars
<1>5. CASE TxExpires \/ CleanupSessions
  BY <1>5 DEF TxExpires, CleanupSessions, reqVars
<1>6. ASSUME NEW q \in Request, NEW s \in Session, Arrive(q, s)
      PROVE  TypeInv'
  BY <1>6 DEF Arrive, NeedsRefresh, Delete, Gate, Places, Waiting
<1>7. ASSUME NEW q \in Request, NEW s \in Session, Upgrade(q, s)
      PROVE  TypeInv'
  BY <1>7 DEF Upgrade, Delete, Places, Waiting
<1>8. ASSUME NEW q \in Request, IdpAnswers(q)
      PROVE  TypeInv'
  <2>1. sid[q] \in Session
    BY <1>8 DEF IdpAnswers, Waiting
  <2>2. idp' \in [Session -> Tokens \cup {None}]
    BY <1>8, <2>1, NumberAssumption, NoneAssumption DEF IdpAnswers, Tokens
  <2>3. reply' \in [Request -> Tokens \cup {None}]
    BY <1>8, <2>1, <2>2 DEF IdpAnswers
  <2> QED BY <1>8, <2>2, <2>3 DEF IdpAnswers, Places, Waiting
<1>9. ASSUME NEW q \in Request, NetworkFailure(q)
      PROVE  TypeInv'
  BY <1>9 DEF NetworkFailure, Places, Waiting, sessionVars
<1>10. ASSUME NEW q \in Request, RefreshDone(q)
       PROVE  TypeInv'
  <2>1. sid[q] \in Session
    BY <1>10 DEF RefreshDone, Waiting
  <2> QED BY <1>10, <2>1 DEF RefreshDone, EndOnError, Delete, UpdateTokens, Gate, Places, Waiting
<1> QED BY <1>1, <1>2, <1>3, <1>4, <1>5, <1>6, <1>7, <1>8, <1>9, <1>10 DEF Next

\* Every variable keeps its type; the discovery never runs past its deadline by
\* more than one attempt and one delay.
THEOREM TypeCorrect == Spec => []TypeOK
<1>1. TypeInv => TypeOK
  BY DEF TypeInv
<1> QED BY <1>1, TypeInit, TypeStep, PTL DEF Spec

-----------------------------------------------------------------------------
(***************************************************************************)
(* The gate.  Nothing is written to a session after the end but by a login  *)
(* of its own, and every handler that lets a request through looks the      *)
(* session up after whatever it awaited.                                    *)
(***************************************************************************)
\* A session that has ended is not brought back, by whatever answer comes late.
THEOREM EndedForGood == Spec => GoneStays
<1> DEFINE Ended == \A s \in Session : store[s] = "gone" => store'[s] = "gone"
<1>1. TypeInv /\ [Next]_vars => [Ended]_vars
  <2> SUFFICES ASSUME TypeInv, Next, NEW s \in Session, store[s] = "gone"
               PROVE  store'[s] = "gone"
    OBVIOUS
  <2> USE DEF TypeInv, TypeOK, sessionVars
  <2>1. CASE Start \/ InitSucceeds \/ Retry \/ IdpGone \/ IdpBack \/ \E d \in 0 .. InitTime : InitFails(d)
    BY <2>1 DEF Start, InitSucceeds, Retry, IdpGone, IdpBack, InitFails
  <2>2. ASSUME NEW t \in Session, \/ Login(t) \/ Callback(t) \/ ExchangeDone(t) \/ Logout(t)
                                  \/ GoStale(t) \/ Expire(t) \/ IdpRevokes(t)
        PROVE  store'[s] = "gone"
    BY <2>2 DEF Login, Callback, ExchangeDone, Logout, GoStale, Expire, IdpRevokes, Delete
  <2>3. CASE TxExpires \/ CleanupSessions
    BY <2>3 DEF TxExpires, CleanupSessions
  <2>4. ASSUME NEW q \in Request, NEW t \in Session, Arrive(q, t) \/ Upgrade(q, t)
        PROVE  store'[s] = "gone"
    BY <2>4 DEF Arrive, Upgrade, Delete
  <2>5. ASSUME NEW q \in Request, IdpAnswers(q) \/ NetworkFailure(q) \/ RefreshDone(q)
        PROVE  store'[s] = "gone"
    BY <2>5 DEF IdpAnswers, NetworkFailure, RefreshDone, EndOnError, Delete, UpdateTokens
  <2> QED BY <2>1, <2>2, <2>3, <2>4, <2>5 DEF Next
<1> QED BY <1>1, TypeInit, TypeStep, PTL DEF Spec, GoneStays

\* What one step lets through, on which session.
LEMMA LetThrough ==
  ASSUME TypeInv, Next, NEW q \in Request, Lets(q)
  PROVE  LET s == sid'[q] IN
           /\ store'[s] = "live" /\ ~expired'[s]
           /\ access'[s] # "stale" \/ token'[s] = None
<1> USE DEF TypeInv, TypeOK, Lets, reqVars
<1>1. CASE Start \/ InitSucceeds \/ Retry \/ IdpGone \/ IdpBack \/ \E d \in 0 .. InitTime : InitFails(d)
  BY <1>1 DEF Start, InitSucceeds, Retry, IdpGone, IdpBack, InitFails
<1>2. ASSUME NEW t \in Session, \/ Login(t) \/ Callback(t) \/ ExchangeDone(t) \/ Logout(t)
                                \/ GoStale(t) \/ Expire(t) \/ IdpRevokes(t)
      PROVE  FALSE
  BY <1>2 DEF Login, Callback, ExchangeDone, Logout, GoStale, Expire, IdpRevokes
<1>3. CASE TxExpires \/ CleanupSessions
  BY <1>3 DEF TxExpires, CleanupSessions
<1>4. ASSUME NEW r \in Request, NEW t \in Session, Arrive(r, t)
      PROVE  /\ sid'[q] = t /\ store'[t] = "live" /\ ~expired'[t]
             /\ access'[t] # "stale" \/ token'[t] = None
  <2>1. r = q /\ sid'[q] = t /\ ~NeedsRefresh(t)
    BY <1>4 DEF Arrive, Gate
  <2>2. store'[t] = "live" /\ ~expired[t]
    BY <1>4, <2>1 DEF Arrive, Gate
  <2>3. UNCHANGED <<expired, access, token>> /\ store'[t] = store[t]
    BY <1>4, <2>1, <2>2 DEF Arrive
  <2> QED BY <2>1, <2>2, <2>3 DEF NeedsRefresh, Valid
<1>5. ASSUME NEW r \in Request, NEW t \in Session, Upgrade(r, t)
      PROVE  FALSE
  BY <1>5 DEF Upgrade
<1>6. ASSUME NEW r \in Request, IdpAnswers(r) \/ NetworkFailure(r)
      PROVE  FALSE
  BY <1>6 DEF IdpAnswers, NetworkFailure
<1>7. ASSUME NEW r \in Request, RefreshDone(r)
      PROVE  /\ store'[sid'[q]] = "live" /\ ~expired'[sid'[q]]
             /\ access'[sid'[q]] # "stale" \/ token'[sid'[q]] = None
  <2> DEFINE t == sid[r]
  <2>1. r = q /\ sid' = sid /\ expired' = expired /\ t \in Session
    BY <1>7 DEF RefreshDone, Gate, WaitsForSession, Waiting
  <2>2. store'[t] = "live" /\ ~expired[t]
    BY <1>7, <2>1 DEF RefreshDone, Gate
  <2>3. req[r] # "failed"
    BY <1>7, <2>1, <2>2 DEF RefreshDone, EndOnError, Delete, Stages
  <2>4. PICK a \in {"fresh", "unknown"} : UpdateTokens(t, reply[r], a)
    BY <1>7, <2>3 DEF RefreshDone
  <2>5. access'[t] = a
    BY <2>1, <2>2, <2>4 DEF UpdateTokens
  <2> QED BY <2>1, <2>2, <2>4, <2>5
<1> QED BY <1>1, <1>2, <1>3, <1>4, <1>5, <1>6, <1>7 DEF Next

\* A request is let through only on a session that is in the store at that moment,
\* whatever happened to it while the request waited for a refresh.
THEOREM GateChecksLast == Spec => AllowedIsLive
<1> DEFINE Live == \A q \in Request :
                     Lets(q) => store'[sid'[q]] = "live" /\ ~expired'[sid'[q]]
<1>1. TypeInv /\ [Next]_vars => [Live]_vars
  BY LetThrough
<1> QED BY <1>1, TypeInit, TypeStep, PTL DEF Spec, AllowedIsLive

\* No request is let through on an access token known to be stale, if it could have
\* been refreshed: a provider that has revoked the session is always heard first.
THEOREM RefreshFirst == Spec => StaleNotAllowed
<1> DEFINE Fresh == \A q \in Request :
                      Lets(q) => access'[sid'[q]] # "stale" \/ token'[sid'[q]] = None
<1>1. TypeInv /\ [Next]_vars => [Fresh]_vars
  BY LetThrough
<1> QED BY <1>1, TypeInit, TypeStep, PTL DEF Spec, StaleNotAllowed

-----------------------------------------------------------------------------
(***************************************************************************)
(* The refresh token.  While the provider is ahead of a session, somebody   *)
(* is on the way back with its newest token, or with an error that ends the *)
(* session; and nobody else can be answered until then.                     *)
(***************************************************************************)
OnItsWay(s, q) == sid[q] = s /\ req[q] \in {"answered", "failed"}

\* What requests of session s may hold.
Refreshing(s, q) ==
  sid[q] = s => /\ req[q] = "refreshing" => sent[q] # None /\ sent[q] <= token[s]
                /\ req[q] = "answered" => reply[q] = idp[s] /\ (Rotates => token[s] < idp[s])
OneAnswer(s) ==
  \A p, q \in Request :
    sid[p] = s /\ sid[q] = s /\ req[p] = "answered" /\ req[q] = "answered" /\ Rotates => p = q

InStep(s) ==
  /\ token[s] # None /\ token[s] <= idp[s]
  /\ token[s] # idp[s] => Rotates /\ \E q \in Request : OnItsWay(s, q)
  /\ \A q \in Request : Refreshing(s, q)
  /\ OneAnswer(s)

TokenInv ==
  \A s \in Session :
    /\ store[s] \notin {"live", "gone"} => \A q \in Request : sid[q] # s
    /\ store[s] = "live" /\ idp[s] # None => InStep(s)

\* A session nobody touches stays as it is.
LEMMA Undisturbed ==
  ASSUME TokenInv, NEW s \in Session, UNCHANGED <<sid, req, sent, reply>>,
         store[s] \in {"live", "gone"} => store'[s] \in {"live", "gone"},
         store'[s] = "live" => store[s] = "live",
         idp'[s] \in {idp[s], None}, token'[s] = token[s]
  PROVE  /\ store'[s] \notin {"live", "gone"} => \A q \in Request : sid'[q] # s
         /\ store'[s] = "live" /\ idp'[s] # None => InStep(s)'
BY DEF TokenInv, InStep, OneAnswer, Refreshing, OnItsWay

LEMMA TokenStep ==
  ASSUME TypeInv, TypeInv', TokenInv, [Next]_vars, NEW s \in Session
  PROVE  /\ store'[s] \notin {"live", "gone"} => \A q \in Request : sid'[q] # s
         /\ store'[s] = "live" /\ idp'[s] # None => InStep(s)'
<1> DEFINE Goal == /\ store'[s] \notin {"live", "gone"} => \A q \in Request : sid'[q] # s
                   /\ store'[s] = "live" /\ idp'[s] # None => InStep(s)'
<1> USE DEF TypeInv, TypeOK, reqVars
<1>1. CASE UNCHANGED vars
  BY <1>1, Undisturbed DEF vars, sessionVars
<1>2. CASE Start \/ InitSucceeds \/ Retry \/ IdpGone \/ IdpBack \/ \E d \in 0 .. InitTime : InitFails(d)
  <2>1. UNCHANGED <<sessionVars, reqVars>>
    BY <1>2 DEF Start, InitSucceeds, Retry, IdpGone, IdpBack, InitFails
  <2> QED BY <2>1, Undisturbed DEF sessionVars
<1>3. ASSUME NEW t \in Session, \/ Login(t) \/ Callback(t) \/ Logout(t) \/ GoStale(t) \/ Expire(t)
                                \/ IdpRevokes(t)
      PROVE  Goal
  <2>1. UNCHANGED <<sid, req, sent, reply, token>> /\ idp'[s] \in {idp[s], None}
    BY <1>3 DEF Login, Callback, Logout, GoStale, Expire, IdpRevokes
  <2>2. /\ store[s] \in {"live", "gone"} => store'[s] \in {"live", "gone"}
        /\ store'[s] = "live" => store[s] = "live"
    BY <1>3 DEF Login, Callback, Logout, GoStale, Expire, IdpRevokes, Delete
  <2> QED BY <2>1, <2>2, Undisturbed
<1>4. ASSUME NEW t \in Session, ExchangeDone(t)
      PROVE  Goal
  <2>1. UNCHANGED <<sid, req, sent, reply>>
    BY <1>4 DEF ExchangeDone
  <2>2. CASE s = t /\ store'[s] = "live"
    <3>1. \A q \in Request : sid'[q] # s
      BY <1>4, <2>1, <2>2 DEF ExchangeDone, TokenInv
    <3>2. token'[s] = idp'[s] /\ idp'[s] \in {None, 0}
      BY <1>4, <2>2 DEF ExchangeDone
    <3> QED BY <2>2, <3>1, <3>2 DEF InStep, Refreshing, OneAnswer
  <2>3. CASE ~(s = t /\ store'[s] = "live")
    <3>1. /\ store[s] \in {"live", "gone"} => store'[s] \in {"live", "gone"}
          /\ store'[s] = "live" => store[s] = "live"
          /\ idp'[s] = idp[s] /\ token'[s] = token[s]
      BY <1>4, <2>3 DEF ExchangeDone
    <3> QED BY <2>1, <3>1, Undisturbed
  <2> QED BY <2>2, <2>3
<1>5. CASE TxExpires \/ CleanupSessions
  <2>1. UNCHANGED <<sid, req, sent, reply, token, idp>>
    BY <1>5 DEF TxExpires, CleanupSessions
  <2>2. /\ store[s] \in {"live", "gone"} => store'[s] \in {"live", "gone"}
        /\ store'[s] = "live" => store[s] = "live"
    BY <1>5 DEF TxExpires, CleanupSessions
  <2> QED BY <2>1, <2>2, Undisturbed
<1>6. ASSUME NEW r \in Request, NEW t \in Session, Arrive(r, t) \/ Upgrade(r, t)
      PROVE  Goal
  <2>1. /\ req[r] = "idle" /\ store[t] \in {"live", "gone"}
        /\ sid' = [sid EXCEPT ![r] = t]
        /\ UNCHANGED <<idp, token, reply>>
        /\ \A q \in Request \ {r} : req'[q] = req[q] /\ sent'[q] = sent[q]
    BY <1>6 DEF Arrive, Upgrade, Gate
  <2>2. /\ store[s] \in {"live", "gone"} => store'[s] \in {"live", "gone"}
        /\ store'[s] = "live" => store[s] = "live"
    BY <1>6 DEF Arrive, Upgrade, Delete
  <2>3. req'[r] \in {"refreshing", "allowed", "upgraded", "refused"}
    BY <1>6, <2>1 DEF Arrive, Upgrade, Gate
  <2>4. req'[r] = "refreshing" => sent'[r] = token[t] /\ token[t] # None
    BY <1>6, <2>1 DEF Arrive, Upgrade, Gate, NeedsRefresh
  <2>5. store'[s] \notin {"live", "gone"} => \A q \in Request : sid'[q] # s
    BY <2>1, <2>2 DEF TokenInv
  <2>6. ASSUME store'[s] = "live", idp'[s] # None
        PROVE  InStep(s)'
    <3>1. InStep(s)
      BY <2>1, <2>2, <2>6 DEF TokenInv
    <3>2. \A q \in Request : OnItsWay(s, q) => OnItsWay(s, q)'
      BY <2>1 DEF OnItsWay
    <3>3. \A q \in Request : Refreshing(s, q)'
      <4>1. token[s] \in Nat
        BY <3>1, NumberAssumption DEF InStep, Tokens
      <4> QED BY <2>1, <2>3, <2>4, <3>1, <4>1 DEF InStep, Refreshing
    <3>4. OneAnswer(s)'
      BY <2>1, <2>3, <3>1 DEF InStep, OneAnswer
    <3> QED BY <2>1, <3>1, <3>2, <3>3, <3>4 DEF InStep
  <2> QED BY <2>5, <2>6
<1>7. ASSUME NEW r \in Request, NetworkFailure(r)
      PROVE  Goal
  <2>1. /\ req[r] \in {"refreshing", "answered"}
        /\ req' = [req EXCEPT ![r] = "failed"]
        /\ UNCHANGED <<store, idp, token, sid, sent, reply>>
    BY <1>7 DEF NetworkFailure, sessionVars
  <2>2. ASSUME InStep(s)
        PROVE  InStep(s)'
    <3>1. \A q \in Request : OnItsWay(s, q) => OnItsWay(s, q)'
      BY <2>1 DEF OnItsWay
    <3>2. \A q \in Request : Refreshing(s, q)'
      BY <2>1, <2>2 DEF InStep, Refreshing
    <3>3. OneAnswer(s)'
      BY <2>1, <2>2 DEF InStep, OneAnswer
    <3> QED BY <2>1, <2>2, <3>1, <3>2, <3>3 DEF InStep
  <2> QED BY <2>1, <2>2 DEF TokenInv
<1>8. ASSUME NEW r \in Request, IdpAnswers(r)
      PROVE  Goal
  <2>1. /\ req[r] = "refreshing" /\ sid[r] \in Session
        /\ UNCHANGED <<store, token, sid, sent>>
        /\ \A q \in Request \ {r} : req'[q] = req[q] /\ reply'[q] = reply[q]
        /\ req'[r] \in {"answered", "failed"}
    BY <1>8 DEF IdpAnswers, WaitsForSession, Waiting
  <2>2. ASSUME InStep(s), idp'[s] = idp[s], store[s] = "live",
               sid[r] = s /\ req'[r] = "answered" => reply'[r] = idp[s] /\ ~Rotates
        PROVE  InStep(s)'
    <3>1. \A q \in Request : OnItsWay(s, q) => OnItsWay(s, q)'
      BY <2>1 DEF OnItsWay
    <3>2. \A q \in Request : Refreshing(s, q)'
      BY <2>1, <2>2 DEF InStep, Refreshing
    <3>3. OneAnswer(s)'
      BY <2>1, <2>2 DEF InStep, OneAnswer
    <3> QED BY <2>1, <2>2, <3>1, <3>2, <3>3 DEF InStep
  <2>3. CASE sid[r] # s
    <3>1. idp'[s] = idp[s]
      BY <1>8, <2>3 DEF IdpAnswers
    <3> QED BY <2>1, <2>2, <2>3, <3>1 DEF TokenInv
  <2>4. CASE sid[r] = s /\ ~(idp[s] # None /\ sent[r] = idp[s])
    <3>1. idp'[s] = idp[s] /\ req'[r] = "failed"
      BY <1>8, <2>4 DEF IdpAnswers
    <3> QED BY <2>1, <2>2, <2>4, <3>1 DEF TokenInv
  <2>5. CASE sid[r] = s /\ idp[s] # None /\ sent[r] = idp[s] /\ ~Rotates
    <3>1. idp'[s] = idp[s] /\ req'[r] = "answered" /\ reply'[r] = idp[s]
      BY <1>8, <2>5 DEF IdpAnswers
    <3> QED BY <2>1, <2>2, <2>5, <3>1 DEF TokenInv
  <2>6. CASE sid[r] = s /\ idp[s] # None /\ sent[r] = idp[s] /\ Rotates
    <3>1. idp'[s] = idp[s] + 1 /\ req'[r] = "answered" /\ reply'[r] = idp'[s]
      BY <1>8, <2>6 DEF IdpAnswers
    <3>2. ASSUME store[s] = "live"
          PROVE  InStep(s)'
      <4>1. InStep(s)
        BY <2>6, <3>2 DEF TokenInv
      <4>2. idp[s] \in Nat /\ token[s] \in Nat
        BY <2>6, <4>1, NumberAssumption DEF InStep, Tokens
      <4>3. token[s] = idp[s]
        BY <2>1, <2>6, <4>1, <4>2 DEF InStep, Refreshing
      <4>4. \A q \in Request : sid[q] = s => req[q] # "answered"
        BY <2>6, <4>1, <4>2, <4>3 DEF InStep, Refreshing
      <4>5. OnItsWay(s, r)'
        BY <2>1, <2>6, <3>1 DEF OnItsWay
      <4>6. \A q \in Request : Refreshing(s, q)'
        BY <2>1, <3>1, <4>1, <4>2, <4>3, <4>4 DEF InStep, Refreshing
      <4>7. OneAnswer(s)'
        BY <2>1, <4>4 DEF OneAnswer
      <4>8. token'[s] # None /\ token'[s] <= idp'[s]
        BY <2>1, <3>1, <4>1, <4>2, <4>3 DEF InStep
      <4> QED BY <2>6, <4>5, <4>6, <4>7, <4>8 DEF InStep
    <3> QED BY <2>1, <2>6, <3>2 DEF TokenInv
  <2> QED BY <2>3, <2>4, <2>5, <2>6
<1>9. ASSUME NEW r \in Request, RefreshDone(r)
      PROVE  Goal
  <2>1. /\ req[r] \in {"answered", "failed"} /\ sid[r] \in Session
        /\ UNCHANGED <<idp, sid, sent, reply>>
        /\ \A q \in Request \ {r} : req'[q] = req[q]
        /\ req'[r] \in {"allowed", "refused"}
    BY <1>9 DEF RefreshDone, Gate, WaitsForSession, Waiting
  <2>2. /\ store[s] \in {"live", "gone"} => store'[s] \in {"live", "gone"}
        /\ store'[s] = "live" => store[s] = "live"
    BY <1>9 DEF RefreshDone, EndOnError, Delete, UpdateTokens
  <2>3. store'[s] \notin {"live", "gone"} => \A q \in Request : sid'[q] # s
    BY <2>1, <2>2 DEF TokenInv
  <2>4. ASSUME store'[s] = "live", idp'[s] # None, sid[r] # s
        PROVE  InStep(s)'
    <3>1. InStep(s) /\ token'[s] = token[s]
      BY <1>9, <2>1, <2>2, <2>4 DEF TokenInv, RefreshDone, UpdateTokens
    <3>2. \A q \in Request : OnItsWay(s, q) => OnItsWay(s, q)'
      BY <2>1, <2>4 DEF OnItsWay
    <3>3. \A q \in Request : Refreshing(s, q)'
      BY <2>1, <2>4, <3>1 DEF InStep, Refreshing
    <3>4. OneAnswer(s)'
      BY <2>1, <2>4, <3>1 DEF InStep, OneAnswer
    <3> QED BY <2>1, <3>1, <3>2, <3>3, <3>4 DEF InStep
  <2>5. ASSUME store'[s] = "live", idp'[s] # None, sid[r] = s
        PROVE  InStep(s)'
    <3>1. InStep(s)
      BY <2>1, <2>2, <2>5 DEF TokenInv
    <3>2. req[r] = "answered"
      BY <1>9, <2>1, <2>2, <2>5 DEF RefreshDone, EndOnError, Delete
    <3>3. token'[s] = idp[s] /\ reply[r] = idp[s]
      BY <1>9, <2>2, <2>5, <3>1, <3>2 DEF RefreshDone, UpdateTokens, InStep, Refreshing
    <3>4. idp[s] \in Nat /\ token[s] \in Nat
      BY <2>1, <2>5, <3>1, NumberAssumption DEF InStep, Tokens
    <3>5. \A q \in Request : Refreshing(s, q)'
      <4> SUFFICES ASSUME NEW q \in Request, sid[q] = s, q # r
                   PROVE  Refreshing(s, q)'
        BY <2>1 DEF Refreshing
      <4>1. Refreshing(s, q)
        BY <3>1 DEF InStep
      <4>2. Rotates => req[q] # "answered"
        BY <2>5, <3>1, <3>2 DEF InStep, OneAnswer
      <4>3. req[q] = "refreshing" => sent[q] \in Nat
        BY <4>1, NumberAssumption DEF Refreshing, Tokens
      <4> QED BY <2>1, <3>1, <3>3, <3>4, <4>1, <4>2, <4>3 DEF InStep, Refreshing
    <3>6. OneAnswer(s)'
      BY <2>1, <3>1 DEF InStep, OneAnswer
    <3>7. token'[s] = idp'[s] /\ token'[s] # None /\ token'[s] <= idp'[s]
      BY <2>1, <2>5, <3>3, <3>4
    <3> QED BY <3>5, <3>6, <3>7 DEF InStep
  <2> QED BY <2>3, <2>4, <2>5
<1> QED BY <1>1, <1>2, <1>3, <1>4, <1>5, <1>6, <1>7, <1>8, <1>9 DEF Next

\* Between refreshes a session holds the token its provider will accept next,
\* whatever the number of requests that refreshed it together, and whether or not
\* the provider rotates.
THEOREM NewestKept == Spec => []TokenCurrent
<1>1. Init => TokenInv
  <2> SUFFICES ASSUME Init, NEW s \in Session
               PROVE  store[s] = "unused" /\ \A q \in Request : sid[q] # s
    BY DEF TokenInv
  <2> QED BY NoneAssumption DEF Init
<1>2. TypeInv /\ TypeInv' /\ TokenInv /\ [Next]_vars => TokenInv'
  BY TokenStep DEF TokenInv
<1>3. TokenInv => TokenCurrent
  BY DEF TokenInv, TokenCurrent, InStep, OnItsWay, Waiting
<1> QED BY <1>1, <1>2, <1>3, TypeInit, TypeStep, PTL DEF Spec

-----------------------------------------------------------------------------
(***************************************************************************)
(* Nobody is logged out without a reason, by a provider that keeps its      *)
(* refresh tokens over a network that does not fail: whoever is waiting has *)
(* sent the one token there is, so only a revoked grant is refused.         *)
(***************************************************************************)
Granted(s) == idp[s] # None
ReasonInv ==
  /\ \A s \in Session :
       /\ store[s] \notin {"live", "gone"} => \A q \in Request : sid[q] # s
       /\ store[s] \in {"live", "gone"} /\ Granted(s) => token[s] = idp[s]
  /\ \A q \in Request : \A s \in Session : sid[q] = s =>
       /\ req[q] = "refreshing" => ~Granted(s) \/ sent[q] = idp[s]
       /\ req[q] = "answered" => ~Granted(s) \/ reply[q] = idp[s]
       /\ req[q] = "failed" => ~Granted(s)

LEMMA ReasonStep ==
  ASSUME ~Rotates, ~NetworkFails, TypeInv, ReasonInv, [Next]_vars
  PROVE  ReasonInv'
<1> USE DEF TypeInv, TypeOK, reqVars
\* Sessions and the provider's grants move on; the requests stay.
<1>1. ASSUME UNCHANGED <<sid, req, sent, reply, token>>,
             \A s \in Session : /\ idp'[s] \in {idp[s], None}
                                /\ store'[s] \in {"live", "gone"} <=> store[s] \in {"live", "gone"}
      PROVE  ReasonInv'
  BY <1>1 DEF ReasonInv, Granted
<1>2. CASE UNCHANGED vars
  BY <1>1, <1>2 DEF vars, sessionVars
<1>3. CASE Start \/ InitSucceeds \/ Retry \/ IdpGone \/ IdpBack \/ \E d \in 0 .. InitTime : InitFails(d)
  <2>1. UNCHANGED <<sessionVars, reqVars>>
    BY <1>3 DEF Start, InitSucceeds, Retry, IdpGone, IdpBack, InitFails
  <2> QED BY <1>1, <2>1 DEF sessionVars
<1>4. ASSUME NEW t \in Session, \/ Login(t) \/ Callback(t) \/ Logout(t) \/ GoStale(t) \/ Expire(t)
                                \/ IdpRevokes(t)
      PROVE  ReasonInv'
  <2>1. UNCHANGED <<sid, req, sent, reply, token>> /\ \A s \in Session : idp'[s] \in {idp[s], None}
    BY <1>4 DEF Login, Callback, Logout, GoStale, Expire, IdpRevokes
  <2>2. \A s \in Session : store'[s] \in {"live", "gone"} <=> store[s] \in {"live", "gone"}
    BY <1>4 DEF Login, Callback, Logout, GoStale, Expire, IdpRevokes, Delete
  <2> QED BY <1>1, <2>1, <2>2
<1>5. CASE TxExpires \/ CleanupSessions
  BY <1>1, <1>5 DEF TxExpires, CleanupSessions
<1>6. ASSUME NEW t \in Session, ExchangeDone(t)
      PROVE  ReasonInv'
  <2>1. UNCHANGED <<sid, req, sent, reply>> /\ \A q \in Request : sid[q] # t
    BY <1>6 DEF ExchangeDone, ReasonInv
  <2>2. \A s \in Session \ {t} : /\ store'[s] = store[s] /\ idp'[s] = idp[s]
                                 /\ token'[s] = token[s]
    BY <1>6 DEF ExchangeDone
  <2>3. store'[t] = "failed" \/ token'[t] = idp'[t]
    BY <1>6 DEF ExchangeDone
  <2> QED BY <2>1, <2>2, <2>3 DEF ReasonInv, Granted
<1>7. ASSUME NEW r \in Request, NEW t \in Session, Arrive(r, t) \/ Upgrade(r, t)
      PROVE  ReasonInv'
  <2>1. /\ store[t] \in {"live", "gone"} /\ sid' = [sid EXCEPT ![r] = t]
        /\ UNCHANGED <<idp, token, reply>>
        /\ \A q \in Request \ {r} : req'[q] = req[q] /\ sent'[q] = sent[q]
    BY <1>7 DEF Arrive, Upgrade, Gate
  <2>2. \A s \in Session : store'[s] \in {"live", "gone"} <=> store[s] \in {"live", "gone"}
    BY <1>7 DEF Arrive, Upgrade, Delete
  <2>3. /\ req'[r] \in {"refreshing", "allowed", "upgraded", "refused"}
        /\ req'[r] = "refreshing" => sent'[r] = token[t]
    BY <1>7 DEF Arrive, Upgrade, Gate
  <2> QED BY <2>1, <2>2, <2>3 DEF ReasonInv, Granted
<1>8. ASSUME NEW r \in Request, IdpAnswers(r)
      PROVE  ReasonInv'
  <2>1. /\ req[r] = "refreshing" /\ sid[r] \in Session
        /\ UNCHANGED <<store, token, idp, sid, sent>>
        /\ \A q \in Request \ {r} : req'[q] = req[q] /\ reply'[q] = reply[q]
    BY <1>8 DEF IdpAnswers, WaitsForSession, Waiting
  <2>2. \/ req'[r] = "answered" /\ reply'[r] = idp[sid[r]]
        \/ req'[r] = "failed" /\ ~(Granted(sid[r]) /\ sent[r] = idp[sid[r]])
    BY <1>8, <2>1 DEF IdpAnswers, Granted
  <2> QED BY <2>1, <2>2 DEF ReasonInv, Granted
<1>9. ASSUME NEW r \in Request, RefreshDone(r)
      PROVE  ReasonInv'
  <2>1. /\ req[r] \in {"answered", "failed"} /\ sid[r] \in Session
        /\ UNCHANGED <<idp, sid, sent, reply>>
        /\ \A q \in Request \ {r} : req'[q] = req[q]
        /\ req'[r] \in {"allowed", "refused"}
    BY <1>9 DEF RefreshDone, Gate, WaitsForSession, Waiting
  <2>2. \A s \in Session : store'[s] \in {"live", "gone"} <=> store[s] \in {"live", "gone"}
    BY <1>9, <2>1 DEF RefreshDone, EndOnError, Delete, UpdateTokens
  <2>3. \A s \in Session \ {sid[r]} : token'[s] = token[s]
    BY <1>9, <2>1 DEF RefreshDone, UpdateTokens
  <2>4. token'[sid[r]] = token[sid[r]] \/ (req[r] = "answered" /\ token'[sid[r]] = reply[r])
    BY <1>9, <2>1 DEF RefreshDone, UpdateTokens
  <2> QED BY <2>1, <2>2, <2>3, <2>4 DEF ReasonInv, Granted
<1>10. ASSUME NEW r \in Request, NetworkFailure(r)
       PROVE  ReasonInv'
  BY <1>10 DEF NetworkFailure
<1> QED BY <1>2, <1>3, <1>4, <1>5, <1>6, <1>7, <1>8, <1>9, <1>10 DEF Next

\* With a provider that keeps its refresh tokens, and no exchange lost on the way, a session
\* ends only by logout, at its time, or because the provider revoked it
\* (docs/authentik-sso.md), however many requests refresh it together.
THEOREM NoneLoggedOut == ~Rotates /\ ~NetworkFails => (Spec => EndsForReason)
<1> SUFFICES ASSUME ~Rotates, ~NetworkFails PROVE Spec => EndsForReason
  OBVIOUS
<1> DEFINE Reason == \A s \in Session :
                       store[s] = "live" /\ store'[s] = "gone" =>
                         expired[s] \/ idp[s] = None \/ Logout(s)
<1>1. Init => ReasonInv
  BY NoneAssumption DEF Init, ReasonInv, Granted
<1>2. TypeInv /\ ReasonInv /\ [Next]_vars => ReasonInv'
  BY ReasonStep
<1>3. TypeInv /\ ReasonInv /\ [Next]_vars => [Reason]_vars
  <2> SUFFICES ASSUME TypeInv, ReasonInv, Next, NEW s \in Session,
                      store[s] = "live", store'[s] = "gone"
               PROVE  expired[s] \/ ~Granted(s) \/ Logout(s)
    BY DEF Granted
  <2> USE DEF TypeInv, TypeOK, sessionVars
  <2>1. CASE Start \/ InitSucceeds \/ Retry \/ IdpGone \/ IdpBack \/ \E d \in 0 .. InitTime : InitFails(d)
    BY <2>1 DEF Start, InitSucceeds, Retry, IdpGone, IdpBack, InitFails
  <2>2. ASSUME NEW t \in Session, \/ Login(t) \/ Callback(t) \/ ExchangeDone(t)
                                  \/ GoStale(t) \/ Expire(t) \/ IdpRevokes(t)
        PROVE  FALSE
    BY <2>2 DEF Login, Callback, ExchangeDone, GoStale, Expire, IdpRevokes
  <2>3. ASSUME NEW t \in Session, Logout(t)
        PROVE  t = s
    BY <2>3 DEF Logout, Delete
  <2>4. CASE TxExpires \/ CleanupSessions
    BY <2>4 DEF TxExpires, CleanupSessions
  <2>5. ASSUME NEW q \in Request, NEW t \in Session, Arrive(q, t) \/ Upgrade(q, t)
        PROVE  expired[s]
    BY <2>5 DEF Arrive, Upgrade, Delete
  <2>6. ASSUME NEW q \in Request, IdpAnswers(q) \/ NetworkFailure(q)
        PROVE  FALSE
    BY <2>6 DEF IdpAnswers, NetworkFailure
  <2>7. ASSUME NEW q \in Request, RefreshDone(q)
        PROVE  ~Granted(s)
    <3>1. sid[q] \in Session
      BY <2>7 DEF RefreshDone, WaitsForSession, Waiting
    <3>2. req[q] = "failed" /\ sid[q] = s
      BY <2>7, <3>1 DEF RefreshDone, EndOnError, Delete, UpdateTokens
    <3> QED BY <3>2 DEF ReasonInv
  <2> QED BY <2>1, <2>2, <2>3, <2>4, <2>5, <2>6, <2>7 DEF Next
<1> HIDE DEF ReasonInv
<1> QED BY <1>1, <1>2, <1>3, TypeInit, TypeStep, PTL DEF Spec, EndsForReason

=============================================================================
