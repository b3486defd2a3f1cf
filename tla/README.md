# OpenCodePortal in TLA+

OpenCodePortal is a gateway that shows browsers the OpenCode servers of several
machines.  On each machine an *agent* keeps one WebSocket (the *tunnel*) open to the
gateway; the gateway multiplexes over it the HTTP requests, event streams and
WebSocket channels of the browsers, and the agent replays them against the OpenCode
server on localhost.  These modules specify the parts of that program whose
correctness depends on the order in which things happen.  Paths below are relative
to the repository's root (`src/server/...`, `src/agent/...`).

Contents: 1 inventory · 2 modules and how they correspond to the code · 3 what each
run checks, its bounds · 4 fairness · 5 what is proved · 6 where the code and its
documents disagree · 7 what is not modelled · 8 plan.

## 1. Inventory

Both processes are single-threaded JavaScript: a handler runs to its end, and what
interleaves is handlers (timers, socket events, messages, promise continuations).
In every module one handler is one action; a handler that awaits is one action per
stretch between awaits.

| Component | State it keeps | Operations | What must hold | Module |
|---|---|---|---|---|
| Instance registry (`server/registry.ts`) | entries, token index, one connection record per instance (socket, heartbeat timer), the state file through `onPersist` | create, update, remove, register, heartbeat, heartbeat timeout, close of a socket, hydrate | index, entries and file agree; one open socket per instance; an instance without a living agent goes offline | `Registry` |
| Tunnel server (`server/tunnel.ts`) | per socket: the instance id it registered for | register, heartbeat, frames both ways, close | frames go to the current socket only; the close of an old socket harms nobody | `Registry`, `ProxyRequests`, `WsChannels` |
| HTTP/SSE proxy (`server/proxy/*`, `server/router.ts`) | pending and streaming requests, timers | register, timeout, browser close, first frame, stream frames, clean-up on disconnect | every request is answered once, a stream is not cut by the timeout, nothing is left behind | `ProxyRequests`, `HttpExchange` |
| Agent forwarder (`agent/forwarder.ts`) | active requests and their count, active channels and their buffered messages | forward, cancel, cancel all, channel open, data, close | the count is exact; what is cancelled is released upstream | `ProxyRequests`, `WsChannels` |
| Browser WebSocket channels (`server/proxy/browser-ws-channels.ts`) | channel, its browser socket | upgrade, opened, error, closed, data, clean-up | a channel joins one browser socket to one localhost socket and is torn down at both ends | `WsChannels` |
| Agent tunnel and version probe (`agent/tunnel.ts`, `agent/version-probe.ts`) | socket, heartbeat, debounce, reconnect and probe timers, stopped, back-off | start, stop, connect, register, close, shutdown | one socket at a time; reconnects until told to stop; never after | `AgentTunnel` |
| Agent entry and identity (`agent/index.ts`, `agent/config.ts`) | configuration, `agent-state.jsonc` | choose a pair, be registered or refused, save the pair | an agent serves only the instance its token belongs to; the saved pair is never lost or mixed; it comes back | `AgentIdentity` |
| OIDC sessions (`server/auth/oidc-client.ts`) | sessions, transactions | login, callback, logout, refresh, lazy expiry, clean-up | an ended session stays ended, a valid one is not ended by a race | `OidcSessions` |
| OIDC bootstrap (`server/auth/oidc-bootstrap.ts`) | a retry loop | start, attempt, back off, give up | ready once the provider is back, if that is before its deadline; given up after | `OidcSessions` |
| Router, gate, login form (`server/router.ts`, `server/auth/gate.ts`, `browser-routes.ts`) | login rate-limit table | dispatch, decide, redirect, log in | who reaches which handler; the limit bounds failed logins | `Portal` |
| Instances API (`server/api/instances-api.ts`) | none | list, create, update, delete, deploy text | each answer is true of the registry at the moment the body was complete | `Portal` |
| Dashboard events (`server/webui/dashboard-event-bus.ts`) | subscribers and their intervals | subscribe, publish, tick, close | an open dashboard comes to show what is the case | `Portal` |
| State file (`shared/state.ts`) | a JSONC file | load, save | a save is atomic; what is loaded is what was saved | `Registry` (partly) |
| Frame protocol (`shared/protocol.ts`) | two id counters | encode, decode, next id | HTTP and channel ids are disjoint | ids only, in `ProxyRequests`, `WsChannels` |
| Policy of a proxied page (`server/proxy/csp.ts`) | none | patch | the injected script runs; nothing else is let in or kept out | `Csp` |
| Injected script (`server/proxy/nav-script.ts`) | in the browser: mount, menu, submenu, one timer, labels | mount, re-mount, open, hover, close, relabel | the button survives any re-rendering; the menu's records of being open agree; labels follow the language | `NavPage` |
| Dashboard page (`server/webui/dashboard-page.ts`) | in the browser: the list, three dialogs, requests under way | show, submit, close, drag out, Escape, answers, pushes | a dialog sends nothing it does not show, about the instance it names, and what it shows, except after a drag out of it (section 6) | `DashboardPage` |
| A browser window (`nav-injection.ts`, `router.ts`) | the page that is open | load, serve, leave | the pages' promises hold across loads | `BrowserPages` |
| Where the script is put, header rewriting, markup, CSS, i18n, setup guide, deploy text, cookies, logger, dotenv, version | none | render, parse | | not modelled (section 7) |

Interactions: `index.ts` wires the tunnel server's callbacks to the router and the
dashboard bus; the registry calls back into the tunnel server on a heartbeat timeout
and into the state store on each change; the router asks the registry for the current
socket at each send, so between two sends the socket may have changed.  Hard parts:
superseded sockets whose `close` comes up to 30 s late, frames still delivered by a
socket that is being closed, timers that fire around the event they wait for,
requests whose two ends are forgotten at different times, state read before an
awaited body or an awaited refresh and used after it; in the browser, dialogs that are
hidden but not reset, and a document another program re-renders at any time.

## 2. Modules

`*Proofs` modules hold the theorems of section 5 about the module they are named after.
`MC*` modules only add symmetry sets; everything else is in the module they extend.
`None` is `null`/`undefined`.  Every definition named "mutant" in a comment is a
plausible bug in the definition after it, which the checks are shown to notice.

**`Registry`** — the gateway's table of instances and their connections.
`entry`, `tokenIndex`, `ws`, `timer` are the maps of `InstanceRegistry`; `sock` is the
life of a Node `ws` object, `bound` the instance id its listeners close over (the
closure is what makes a late `close` dangerous, so it is a variable), `disk` what
`state.jsonc` holds.  Actions: `Create`, `Update`, `Remove` (API), `Connect`,
`Register`/`RefuseRegister`, `Heartbeat`, `HeartbeatTimeout`, `CloseEvent` (listeners),
`Lose`, `End` (the network), `Shutdown`, `Restart`.  Every mutation of the registry
saves, as in the code; a save from an API handler may fail, which leaves memory
ahead of the file.  The file an execution starts from is one the gateway wrote or one
edited by hand, which may give a token to two instances; `shared` records whether the
file this process has read did.

**`GatewayEnd`** — the abstract promise to whoever sends on an instance's connection: which
one is `current`, which are open or being closed (`link`), whether the instance is `shown`
online; how a registration supersedes, what a timeout, a deletion and a late `close` do,
that a late heartbeat may show the instance again.  `Registry!Gateway(i)` instantiates it
for each instance, `ProxyRequests!Gateway` and `WsChannels!Gateway` for theirs.

**`ProxyRequests`** — one instance's HTTP and SSE requests end to end.  `gw`, `timer`
are the gateway's two maps and its timer; `res` is the browser's `ServerResponse`, with
"broken" for any use of it that Node answers with an exception; `conn`/`ws`/`agent`
are the two ends' views of the tunnel connections, `down`/`up` the FIFO queues;
`active`, `head`, `late`, `count` the agent's bookkeeping.  `CloseEvent` runs *both*
listeners of a socket, in the order they were added; `CancelForInstance` is called
whichever socket closes, as in `tunnel.ts`.  `late` is the pair of `error` listeners
that `destroy()` triggers a tick after the request was forgotten; which of them Node
emits depends on its version, so it is a choice.
**`HttpExchange`** — the abstract promise to the browser: at most one status line,
then the answer or chunks, one end, nothing after it; several requests may move at once.
`ProxyRequests!Exchange` instantiates it under the mapping `Phase`.

**`WsChannels`** — browser socket ↔ channel id ↔ localhost socket.  `bid`, `lid` are the
ids the listeners at each end close over; ids start again after `Crash`, while the
agent's sockets live on.  Messages are numbered per sender, so order, gaps,
duplicates and mixed channels are visible in `bgot`, `lgot`.  Of the registry it keeps
`online` and `ws`: `HeartbeatTimeout` and `Remove` (the instance is deleted, its id
possibly given to a new one) close the connection without a word to the channels, which
wait for `CloseEvent`; `Heartbeat` is one still delivered by a connection that is being
closed, and can show the instance online when no connection is left.  `Deletes` says
whether instances are deleted at all; the theorems hold either way.
**`ChannelPipe`** — the abstract promise to the two ends of a channel: an end is new,
in use or over, in that order; a socket to localhost is the partner of one
browser socket at most, for good, and each end gets what the partner has sent, from the
first message on and without a gap, and nothing once it is over.  `WsChannels!Pipe` instantiates
it under the mapping `Life`.

**`AgentTunnel`** — one agent's connection state machine and four timers, the version
probe, the process' restart, against the gateway's ends of its connections (`end`, of which
`ws` is the one the registry has; `shown` is the session count) with their close codes,
shutdown and deletion.  The agent reconnects whether or not the gateway has noticed the end of
the connection before, and the gateway may read what is left on that one after it has
registered the next, even a `register`, which then supersedes the newer one.  `outdated` is a
history variable: the count shown is from a connection that has been replaced.

**`AgentIdentity`** — who an agent says it is: `config` (its deployment), `file`
(`agent-state.jsonc`), `own` (the configuration in memory), against the gateway's
`entries`.  `Loaded` is the precedence in `index.ts`, `Answer` the decision of
`handleControl`, `Confirmed` and `Rename` the two halves of `saveAgentState` with a
`Crash` between them.  `Create` and `Remove` delete and re-create an id, `Remove(Id)` is
the loss of the gateway's state file, `Deploy` a new container over an old volume.
`owner` remembers for which instance a token was generated: a history variable that
only `SavedPairBelongs` and `Create`'s freshness read.

**`OidcSessions`** — the discovery loop, the login transaction, the session store, and
`refreshSessionIfStale` as three actions around its await (`Arrive`, `IdpAnswers` or
`NetworkFailure`, `RefreshDone`).  Refresh tokens are generations; the provider
(external) honours the newest one.  Discovery fails whenever the provider was out of
reach during the attempt (`reachable`, `missed`); it goes and comes back at any time.  Logout, expiry, clean-up and other requests of the
same session interleave with a refresh under way.

**`Portal`** — which handler a request reaches, as a function of host, path, method and
credential (`Route`), under each of the four combinations of OIDC and secret; the
handlers that await a body as two actions (`Arrive`, then `ApiBody`, `LoginBody` or
`BadBody`); the login limit; and the dashboard's pushes.  The registry is a table; an
operation that has changed it may fail to save and is then answered 500 (`Unsaved`).  The
gateway is not restarted here: what a failed save leaves in the file is `Registry`'s subject.

**`Csp`** — a policy as the sequence of its directives, `PatchCspPolicyString` as the code
has it, and beside it what a browser makes of a policy (external: which directive
counts for a script or a style, and when `'unsafe-inline'` is disregarded).
**`DashboardPage`** — `list` is `allInstances`; `visible` the class of that name on the
dialogs; `form`, `del`, `deploy` what the three dialogs keep, hidden or not; `flight` the
requests under way.  `Close`, `DragOut` and `Escape` are three ways out of a dialog that
reset different parts of it.
**`NavPage`** — the injected script: `bars` is the document's title bars, which the
application (external) renders, moves and restyles; `nav`, `first` where the button is;
`changed`, `relang` records that await the two observers, `scheduled` the animation
frame; `menu`, `open`, `sub`, `hiding` the menu's own state and its 80 ms timer.
**`BrowserPages`** — one window that is on the dashboard or on an instance's page, composed
of the three: a page that is left forgets its state, the injected script runs if the
patched policy lets it.

How they compose: `Registry` owns which socket is current; `ProxyRequests` and
`WsChannels` keep of it `ws` and the life of each connection (`WsChannels` also `online`).
All three implement `GatewayEnd` (`ServesSenders`, `Connected`), so that the two modules
reason about connections such as the registry has.  The converse, that they have *every*
such connection, is by inspection: their connection actions are those of `GatewayEnd`, with
two exceptions in `ProxyRequests`, which has no restart of the gateway (its requests do not
survive one) and no heartbeat (it admits requests whether or not the instance is shown
online, which is more than the code allows).  `AgentTunnel` keeps of the registry whether
the token is good, the current connection and the session count, `AgentIdentity` only whether it is connected; `Portal` hands a request for an instance's host to `ProxyRequests`
and abstracts registrations to `AgentUp`/`AgentDown`; `BrowserPages` sees of the API
that a request succeeds, fails or is answered late, and that lists are pushed.

## 3. Runs

All passing runs finish without error; together they take every action.  "Mutant" in
`PROJECT.json` names, for every property of a passing run, a change of one modelled
definition that makes that run report that property violated.

| Run | What it shows | Bounds |
|---|---|---|
| `registry` | `TokensResolve`, `OpenIsCurrent`, `DiskIsCurrent`, `RemoveStrandsNobody` in every interleaving of API calls, registrations, heartbeats, timeouts, late closes, failed saves, restarts; `GhostExpires`, `LostIsReleased` under fairness | 2 instances (one more than any handler touches), 2 sockets (the current one and its successor; a closed one is reused), 2 tokens, so that an execution starts from a file in which each instance has its own or from one edited by hand in which they share one, 1 failed save |
| `proxy` | `TimerIsPending`, `CountMatches`, `StreamsBeginWithHead`, `NoOrphan`; the module implements `HttpExchange`; `Answered`, `StreamsReleased` under fairness | 2 requests over 2 connections, both limits 1 so that both are reached; 2 frames in flight (a head and what follows it); no half-open connections: with them the close of a superseded connection forgets requests that live on (section 6), which is `proxy_stale`'s subject.  `TimerIsPending`, `CountMatches`, `StreamsBeginWithHead` and `ExchangeSpec` are proved with them, too (section 5) |
| `proxy_stale` | a finding: `OnlyDisconnectedCleaned` is violated | 1 request, 2 connections, half-open ones included |
| `channels` | `InOrder`; `BrowserLetGo`, `LocalLetGo` under fairness | 1 browser socket, 1 localhost socket, 2 connections, half-open ones and late heartbeats included, deletion of the instance, 1 gateway restart; 2 messages against a buffer of 1, so it overflows |
| `channels_restart` | `OpenIsTracked`, and the module implements `ChannelPipe` (`PipeSpec`), across a gateway restart that hands out the same ids again | 2 browser sockets, 2 localhost sockets, 2 connections, 1 restart, a limit of 1 channel; no deletion (`Deletes` is FALSE, for TLC's time: to the channels a deletion is one more way for a connection to close, and `channels` has it) |
| `channels_stray` | a finding: `DisconnectClosesAll` is violated | as above, 3 connections, slow closes |
| `agent` | `NeverIdle`, `TimersServeRegistration`, `ProbeGoesOn`, `SessionsAgree`; `DeletedStops` under fairness | 3 faults (lost connections, crashes, restarts, shutdowns) in any mixture, delays 2, 4, 7 so that the ceiling is met, 2 connections (one the gateway has not seen the end of, and its successor), 2 frames in flight on each |
| `identity` | `NoImpostor`, `SavedPairBelongs`, `NeverForgets`; `Returns` under fairness | 2 ids, 3 tokens (both ids and one re-created), 3 deployments, 2 crashes or lost connections |
| `oidc_sessions` | `GoneStays`, `AllowedIsLive`, `StaleNotAllowed`, `TokenCurrent`; `ReadyOnceBack` under fairness | 2 logins, 2 requests (a race needs two), 3 generations of tokens; discovery of 0 or 1 time units, back-off of 2, 4, 5, against a timeout of 7, so that an attempt can start exactly at the deadline |
| `oidc_race` | a finding: `EndsForReason` is violated | 1 session, 2 requests, no network failure, so only the race can end it |
| `portal` | `LedgerBalances`: nothing is created or deleted under a refusal, the 500 of a failed save excepted; `OvershootBounded`: failed logins exceed the limit by at most the other attempts under way; `DashboardFresh` under fairness | 3 requests, 1 id, 2 names, limit 2 |
| `pages` | `PolicyKept`, `MenuCoherent`, `OnlyShownIsSent`; `ControlsRestored`, `LabelsFollow` under fairness | 2 instances (a dialog about one after a dialog about the other), 1 request under way, 2 title bars (the button moves between them), 2 languages, 3 changes of the document; every policy of up to 3 directives over 4 names and 4 source lists |

Counters that exist only to bound a model are variables or guards of their own and are
named where they are declared: `MaxFailures`, `MaxFrames`, `MaxSent`, `MaxRestarts`,
`MaxFaults`, `MaxProbes`, `MaxSessions`, `MaxToken`, `InitTime`, `MaxChanges`, `MaxDeploys`,
`MaxFlight`, `MaxRenders`.  Runs whose sockets, connections or faults are used up say
`CHECK_DEADLOCK FALSE`; `registry`, whose sockets are reused, and `pages` are checked for
deadlock.

`SYMMETRY` is used in runs without liveness properties only.

## 4. Fairness

Weak fairness only, and only of what the runtime or a library promises:

- an armed Node timer fires: `HeartbeatTimeout` once nobody can re-arm it (in `WsChannels`,
  while the agent is not on the gateway's current connection), `ProxyTimeout`,
  `ReconnectFires`, `DebounceFires`, `HeartbeatFires`, `Retry` of the discovery loop, `Tick`
  of an open dashboard stream;
- `ws` ends a close handshake within 30 s, answered or not: `End` and `CloseEvent` of a
  closing socket; the gateway's end of a connection the agent has left ends (`EndCloses` of
  `AgentTunnel`), by TCP or after the heartbeat timer has closed it;
- frames on a live connection arrive (TCP): `GatewayReceives`, `AgentReceives`;
- an agent learns that the gateway has dropped its connection: `AgentDrops` if the
  gateway's end is closed;
- a version probe ends (5 s timeout), a discovery ends (openid-client's request timeout);
- a gateway that was stopped is started again by its supervisor (`AgentTunnel` only;
  without it no agent could reconnect);
- an agent's process that ended is started again by its supervisor
  (`--restart unless-stopped` in `deploy-instructions.ts`), and what it then does, it
  finishes (`AgentIdentity`);
- a browser calls mutation observers, and animation frames while the page is in view
  (`Observe`, `Relabel`, `Frame` of `BrowserPages`).

Nothing else is assumed of browsers, and nothing of the OpenCode server on
localhost, of users or of the identity provider's answers; that it stays in reach is a
premise of `ReadyOnceBack`, not fairness.

## 5. What is proved

Eight modules hold theorems: `RegistryProofs`, `ProxyRequestsProofs`, `WsChannelsProofs`,
`AgentTunnelProofs`, `AgentIdentityProofs`, `OidcSessionsProofs`, `PortalProofs` and
`BrowserPagesProofs` (which covers `Csp`, `DashboardPage` and `NavPage` as well).  They
hold for every value of the constants that satisfies the assumptions named in the
modules: `None`, `Off` and `NoBar` are different from the values they stand beside, bounds
are naturals, delays positive, switches Boolean; `Request` is finite where requests are
counted (`ProxyRequests`, `Portal`), `Browser` where channels are (`WsChannels`); there is
a language; a policy is a finite sequence of directives.  Nothing else is assumed, except
by the theorems that name a switch.  Each is proved from an inductive invariant that TLC
checked first; type correctness is proved first and used by the others.

| Theorem | Statement | Inductive invariant, and why the property alone is not inductive |
|---|---|---|
| `RegistryProofs!TypeCorrect` | `[]TypeOK` | itself |
| `ConnectionsSafe` | `[](OpenIsCurrent /\ TimerOwnsConnection /\ OnlineIsTimed)` | `ConnInv` adds `WsBound` (a current socket's listeners close over that very instance) and `ClosedUnbound` (a socket that is gone is nobody's current one); without them a late `close` could belong to anyone |
| `TokensSafe` | `[]TokensResolve` | `TokenInv` adds that the *file's* tokens are distinct unless `shared`: a restart rebuilds the index from the file, so an invariant of memory alone is lost there |
| `DiskSafe` | `[]DiskIsCurrent` | itself, with `RoundTrip`: hydrating a snapshot and taking one again gives the same file |
| `OthersKept` | `RemoveStrandsNobody` | action property, from `TypeOK` |
| `ServesSenders` | for each instance `i`: `Spec => GatewaySpec(i)` | `ConnInv`: that a late `close` and a shutdown reach this instance's own socket only, and that a timer expires for the current one, is what `WsBound` and `TimerOwnsConnection` say |
| `SendersSafe` | for each instance: `[](OnlyCurrentOpen /\ CurrentIsLinked)`, `GivenUpForGood` of `GatewayEnd` | `GatewayEnd`'s own consequences, carried over by `ServesSenders` |
| `ProxyRequestsProofs!TypeCorrect` | `[]TypeOK` | itself |
| `ResponsesSafe`, `TimersSafe`, `TrackedSafe` | `[]ResponseUnbroken`, `[]TimerIsPending`, `[]TrackedIsOpen` | `ResponseInv` ties, per request, the map it is in, its timer and the state of its response; `LocalStep` shows every step moves every request by one of the few `Moves` |
| `Implements` | `Spec => ExchangeSpec` | the same `Moves`: each is a step of `HttpExchange` or a stutter under `Phase` |
| `CountExact` | `[]CountMatches` | `SentOnce`: a request frame is on one connection once, and not active while it is on its way; else the counter could be raised twice for one request |
| `HeadFirst` | `[]StreamsBeginWithHead` | `HeadInv`: a request nobody has sent has left no trace on the agent (`NotSent`, `Idle`); one whose upstream has not answered has sent no head (`Waits`); as long as the gateway waits for a stream that has begun, its head is still in the queue the agent sends on (`Headed`), so that whatever is appended comes behind it (`Begun`) |
| `NoneOrphaned` | `~HalfOpen`: `[]NoOrphan` | one connection is alive, and it is the one the gateway sends on (`OneLive`); what ends a response comes when the agent is done (`Over`, `LateDone`), so that the gateway forgets nothing the agent still works on without a cancel; a request frame on its way is tracked or has its cancel behind it (`Called`), so that what is taken up is never late |
| `CleanedByOwnClose` | `~HalfOpen`: `OnlyDisconnectedCleaned` | action property, from `OneLive`: without half-open connections, the one that closes is the last one that was alive |
| `AnsweredOnce` | `[]StatusTells`, `StatusOnce`, `OverForGood` of `HttpExchange` | `HttpExchange`'s own consequences, carried over by `Implements`: a status line is never replaced, an exchange that is over is not touched again, the status tells how far it got |
| `WsChannelsProofs!TypeCorrect`, `Tracked` | `[]TypeOK`, `[]OpenIsTracked` | `TypeInv`: live browser sockets close over different ids below the next one (`BidInv`), so that a late `close` removes its own entry only |
| `ChannelsApart`, `NothingStray`, `AllClosed` | `~SlowClose`: `[]NoCrossTalk`, `[]NoStray`, `DisconnectClosesAll` | `ChannelInv`: every frame in flight (`DownInv`, `UpInv`) and every buffered message (`LocalInv`) fits the socket its id means *now*, over any number of restarts that hand the ids out again; what is dead has empty queues (`ConnInv`) and what was delivered came from the partner (`GotInv`).  Without the assumption `channels_stray` refutes the last one |
| `Ordered` | `~SlowClose`: `[]InOrder` | `OrderInv`, beside `ChannelInv`.  For each end, what it has got (`LocalOrder`, `UpOrder`), then what is buffered, then what is in flight (`DownOrder`) are the partner's messages, numbered without a gap, up to the last one sent while the connection is open (`Reaches`); a sender's messages are on one connection only; a channel's open frame precedes its data (`OpenFirst`); `PairInv` says who the partner is.  `InOrder` alone says nothing of the message that arrives next |
| `Piped` | `~SlowClose`: `Spec => PipeSpec` | the same, with `PendSent`: what is buffered was sent; each step is a step of `ChannelPipe` or a stutter under `Life`, by who may have changed (`TunnelOnly` for the steps of the connection alone) |
| `Connected` (here and in `ProxyRequestsProofs`) | `Spec => GatewaySpec` | `TypeOK`; in `ProxyRequests` also `WsLive`: the connection that is sent on has not been closed, else its deletion would close it a second time |
| `AgentTunnelProofs!TypeCorrect` | `[]TypeOK` | itself, by groups of variables |
| `ReconnectSafe`, `TimersSafe`, `ProbeSafe` | `[]NeverIdle`, `[]TimersServeRegistration`, `[]ProbeGoesOn` | `TimerInv`, their conjunction with `Attached`: an agent is registered only while it has a connection, so the close that clears its timers always comes |
| `CountsAgree` | `[]SessionsAgree` | `SessionInv`: the *last* report on its way on the present connection carries the current count, or the gateway shows it if none is and no replaced connection has reported since (`LastReport`); the introduction is the first frame of a connection, and until it is read the agent has no sessions (`Introducing`, `Detached`); the one registered connection is the registry's, and without one nothing is shown (`Ends`) |
| `AgentIdentityProofs!TypeCorrect` | `[]TypeInv` | `TypeOK` with what each stage of the process has in hand (`Running`, `Saving`) |
| `NeverImpostor`, `SavedPairSafe` | `[]NoImpostor`, `[]SavedPairBelongs` | `IdentityInv`: an entry's token was generated for it (`Owned`); an answer on its way is about the token presented and names that token's owner (`InFlight`); what is being saved belongs together (`Assured`); nothing is in flight on a connection that is off (`Quiet`) |
| `SavedForGood` | `NeverForgets` | action property, from `TypeInv`: a crash between the two halves of a save leaves the old pair |
| `OidcSessionsProofs!TypeCorrect` | `[]TypeOK` | `TypeInv` adds that a waiting request has a session (`WaitsForSession`), and how far the clock may be at each stage of the discovery loop (`InTime`) |
| `EndedForGood`, `GateChecksLast`, `RefreshFirst` | `GoneStays`, `AllowedIsLive`, `StaleNotAllowed` | action properties, from `TypeInv`: each holds of every step |
| `NewestKept` | `[]TokenCurrent` | `TokenInv`: whenever the provider is ahead of a session, an answer with its newest token or an error that will end the session is on its way (`InStep`), and at most one such answer exists (`OneAnswer`), so that no later answer undoes it |
| `NoneLoggedOut` | `~Rotates /\ ~NetworkFails`: `EndsForReason` | action property; `ReasonInv`: whoever waits for a refresh has sent the one token there is, so an answer is a refusal only if the provider has revoked the grant |
| `PortalProofs!TypeCorrect` | `[]TypeOK` | itself |
| `LedgerSafe` | `[]LedgerBalances` | itself with `TypeOK`: every step changes the answers of at most one request (`Moves`), so the two cardinalities move with the table |
| `LimitSafe` | `[]OvershootBounded` | `LimitInv`: failures *plus* the attempts whose body is under way never exceed the limit plus the other requests; the attempts were let in against an older count |
| `GateKept`, `DoorsOpen` | `GateAsked`, `NobodyShutOut`: no handler that shows or changes an instance is reached past the gate (an `OPTIONS` request may reach a view); a good credential is never turned away, and a redirect to log in ends at the form | no induction: `Route` by cases (`Dispatches`), for every combination of modes, hosts, paths, methods and credentials |
| `BrowserPagesProofs!TypeCorrect` | `[]TypeOK` | with the next two: `DashInv`, `NavInv`, `PageInv`, one per page and one for what a page that was left leaves behind |
| `PasswordsSafe` | `OnlyShownIsSent`: no step leaves anything pending that the form does not show (`NothingHidden`), and only a drag out of the form makes a save differ from what it shows | action property, from the same invariant |
| `MenuSafe` | `[]MenuCoherent` | as above |
| `PortalRuns`, `PatchAdmitsNone`, `PatchLosesNone` | for *every* policy: the script runs, nothing else is let in, nothing is kept out that did not rely on `'unsafe-inline'` alone | no induction: the directive that counts is the least one of its name, and the patch keeps every name in its place |
| `PoliciesKept` | `[]PolicyKept` | the three facts above, with `PageInv`: the page holds a policy and its patch |

Only model-checked: every liveness property (`GhostExpires`, `LostIsReleased`, `Answered`,
`StreamsReleased`, `BrowserLetGo`, `LocalLetGo`, `DeletedStops`, `ReadyOnceBack`,
`DashboardFresh`, `ControlsRestored`, `LabelsFollow`, `Returns`), which the proof system
does not reach.  Every safety invariant, action property and refinement that a passing run
checks is a theorem.  So are the three properties that a run refutes, with the switch off
that makes them false: no half-open connections (`CleanedByOwnClose`), no slow closes
(`AllClosed`), no rotation of refresh tokens (`NoneLoggedOut`).

## 6. Where the code and its documents disagree

With a run that shows it:

- `proxy_stale`: `src/server/router.ts:317` speaks of "a disconnected agent", but the close
  listener at `src/server/tunnel.ts:89` cleans up for the instance whichever of its sockets
  closes.  The late close of a superseded socket answers 502 to requests of the new
  connection and ends its streams.  Without half-open connections it does not
  (`CleanedByOwnClose`).
- `channels_stray`: `src/agent/forwarder.ts:310`, "Close all active channels (called on
  disconnect)": a localhost socket that closes late (282) deletes the entry of another
  channel that was given the same id by a restarted gateway, and nothing closes that one.
  If localhost sockets are gone before the agent is back, all are closed (`AllClosed`).
- `oidc_race`: `docs/authentik-sso.md:83` says refreshes never log the user out; two
  requests that refresh together do, when the provider rotates refresh tokens.  With one
  that does not, over a network that does not fail, they never do (`NoneLoggedOut`).

Met while modelling, modelled as the code has it, without a run of its own:

- `docs/adr/0004-agent-identity-model.md:91` has the session count zeroed when a connection
  is superseded; `register` (`src/server/registry.ts:273`) leaves it, and the superseded
  connection's last reports are recorded after it, until the present one's next heartbeat.
  `SessionsAgree` excepts that time (`outdated`).
- `docs/authentik-sso.md:16` has the gateway retry discovery "with backoff until the IdP comes
  back", `docs/adr/0006-oidc-sso.md:126` names no end either; `runAttempt`
  (`src/server/auth/oidc-bootstrap.ts:114`) gives up five minutes after the start, and a
  provider that comes back later is never asked: single sign-on stays down until the gateway
  is restarted.  `ReadyOnceBack` promises it only while an attempt is left (`AttemptLeft`).
- a create, update or delete whose save fails has changed the registry (`src/server/registry.ts:188`,
  218, 247) and is answered 500 (`src/server/router.ts:160`): the client is told of an error,
  the instance is there, or gone, until a restart brings back what the file has.
  `LedgerBalances` counts these answers as done.
- the comment at `src/server/registry.ts:315` has a connection behind every heartbeat;
  the heartbeat of a superseded socket, delivered after its successor has closed too,
  finds none, and brings the instance online with a timer that has no socket
  (`Heartbeat` in `Registry` leaves `timer = None` then; `GhostExpires` shows that it ends).
  Until then a browser's WebSocket is accepted, its `channel_open` goes to nobody
  (`src/server/proxy/browser-ws-channels.ts:97`), and nothing closes that socket before some
  connection of the instance closes (`Upgrade` of `WsChannels` with `via = None`).
  `BrowserLetGo` therefore promises its end only if a connection was closing at the time.
- `docs/adr/0003-tunnel-protocol.md:122` describes a set `canceledHttpRequests` that the code does not have.
- when the browser has gone before the forwarder registers the request, no
  `request_cancel` is sent; the upstream answer is read and dropped.
- `docs/adr/0004-agent-identity-model.md:119` has a shutdown of the gateway followed by
  reconnects; the `shutdown` message stops the agent until its process is restarted.
- with half-open connections *and* localhost sockets that close slowly, a browser can get
  channel messages with a gap (`InOrder` fails if `HalfOpen` and `SlowClose` are
  both TRUE).
- an API body that is the JSON value `null` gets no answer.
- `docs/adr/0005-nav-injection-csp.md:207` has the button mounted in the first visible title
  bar; `src/server/proxy/nav-script.ts:69` takes the last one, and the observers do not see a
  bar that is only restyled (`NavPage` has both).
- after a re-mount with the menu open, `aria-expanded` of the new button says it is closed
  (`src/server/proxy/nav-script.ts:314`); the attribute is not modelled.
- a drag that starts inside the form dialog and ends beside it leaves the dialog open, but
  `closeForm` (`src/server/webui/dashboard-page.ts:436`) has dropped the pending removal of the
  password all the same: the note goes on saying "Password will be removed on save"
  (`src/server/i18n/locales/en.ts:90`), and the save removes nothing.  `OnlyShownIsSent`
  therefore says in general only that nothing happens that is not displayed, and that this
  drag is the one step after which something displayed may not happen.
- a late answer to a request for deploy instructions fills the dialog that was opened for
  another instance since (`src/server/webui/dashboard-page.ts:635`; `DashboardPage` has `title`
  and `shows` of the dialog apart).
- `docs/adr/0004-agent-identity-model.md` wants a token that was reset to be usable without
  loss of identity (15) and the saved pair to be preferred over the configured one (129);
  `src/agent/index.ts:21` prefers it only if no instance id is configured.  An agent deployed
  with a new token over an old data directory is then refused for good (`Rejected`).
- the patch of a policy that lets scripts in by `'unsafe-inline'` alone disables that source
  (`NoneLost` excepts it), and several policies joined by a comma are patched as one.
- a page that is not UTF-8 gets no script, but a hash of nothing in its policy.
- comments of `src/server/router.ts` (129, 247) call the `ocp_auth` cookie masked in OIDC
  mode; the gate still accepts one issued before, when a secret is configured as well.

## 7. What is not modelled, and why

- Where the script is put into a page, the rewriting of headers, HTML, CSS, translations,
  the setup guide, deploy text: sequential functions from text to text.  `ProxyRequests`
  has a failing transformation as an outcome.
- A `writeHead` that throws on the head of a stream, after the promotion
  (`src/server/proxy/agent-http-response.ts:65`): the catch answers 502 and forgets the request
  without a cancel.  The head has been parsed by node's HTTP client before it comes here.
- Filters and sorting of the dashboard's table, copying to the clipboard: no state that
  anything else reads.
- Cookies, signatures, PKCE, token validation: the credential a request carries is taken
  as valid or not.
- The byte layout of frames, and the wrap of the 31-bit id counters: the models hand out
  few ids.
- The JSONC comment stripper and the validators of `shared/state.ts`.
- Configuration, environment, logging, version: read once or output only.
- `OidcBootstrap.stop()`: the program never calls it.
- Two agents with one token: the code has no rule that would settle their contest.
- Back-pressure: frames in flight are bounded (`MaxFrames`) but `ws` buffers without limit.

## 8. Plan

Done: the state machines above and their composition in a browser window, their runs, the
theorems of section 5.  Next, in order:

1. The state file: `stripJsoncComments` as a fold against a reference definition over
   short texts, and the validators, composed with `Registry`'s `Restart`.
2. Frame codec: ids with their width, and the wrap of both counters while channels live.
3. Longer runs: more faults in `agent`, a second restart in `channels_restart`.
