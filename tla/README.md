# realtime-platform in TLA+

A verification development for the realtime platform: a multi-tenant
publish/subscribe server in Rust (`src/backend`), its client libraries
(`src/sdk-*`, `src/vanilla-client`) and its web applications (`src/web-client`,
`src/tenant-portal`, `src/admin`). The modules are translated from the source;
`PROJECT.json` maps each definition to the lines it stands for, and lists the
components, the hazards (each at its line) and the findings. `tlc -config X.cfg M`
repeats a run, `tlapm M.tla` a proof.

## 1. The system

A client opens a WebSocket or a TCP connection and exchanges fixed-size frames:
AUTH, SUB, UNSUB, PUB, UNICAST, REPLAY, PING. The server routes what is published
on a channel of a tenant to the subscribers of that channel and of the patterns
(`orders:*`) that match it. Everything runs in one tokio process per instance;
instances share frames and history over Redis. State lives in `DashMap`s, whose
locks cover one entry (shard) at a time: every operation that touches two entries
is several steps, and any other task may run in between.

In browsers the unit is the callback: nothing interrupts one, and between two of
them, at every `await`, anything may happen: the user leaves the page, signs out,
types another channel; an older request is answered after a newer one; another tab
writes the same localStorage.

### The server

| Component | State | Operations | Talks to |
|---|---|---|---|
| Channel router (`realtime/services/ChannelRouterService`, `repositories/ChannelStateRepository`) | a bus and a history ring buffer per channel, a bus per pattern | subscribe, subscribe_wildcard, publish, replay, prune_empty, prune_dead_wildcards | called by every connection, presence, the cluster bus and HTTP |
| Presence (`PresenceService`, `PresenceSessionRepository`) | the session table: last_seen and tracked channels | join, heartbeat, subscribe, unsubscribe, leave; heartbeat loop | publishes JOIN, LEAVE, TIMEOUT on meta-channels through the router; prunes it |
| Connection (`WsController`, `TcpController`) | the command loop, relay tasks, the out queue | one handler per `FrameCommand`, cleanup on disconnection | owns receivers of the router; drives presence and rate limits |
| Cluster bus, fan-out, durable history (`RedisClusterAdapter`, `PushFallbackService`, `RedisStreamsHistoryAdapter`) | two bounded queues per instance, Redis streams | publish_and_fanout, PUBLISH task, SUBSCRIBE task, XADD task | router, Redis, push |
| Rate limiter (`RateLimitService`) | token buckets per session and per tenant, quota overrides | check, check_tenant, drop_session, set/clear_tenant_limits | connections, HTTP publish, Admin API |
| Keys (`auth`, `portal`) | secrets and API keys in memory, and their database rows | sign up, create, rotate, generate, revoke, mint; reload at start-up | AUTH, Admin and portal API |

### The client libraries

| Component | State | Operations |
|---|---|---|
| Connection of the TypeScript SDK (`client.ts`) | socket, reconnect timer, subscriptions, pending sends | connect, disconnect, subscribe, publish, unicast, replay, socket events |
| Codec and chunks (`protocol.ts`, `chunking.ts`, and the codec's copies in `mio-protocol.js` and both `mio-embed.js`) | messages being reassembled | encodeFrame, decodeFrame, globMatch, encodeChunks, feed |
| Dispatch (`client.ts`, `channel.ts`, `event-emitter.ts`, `mio-client.js`) | handlers per channel and pattern | subscribe, on, off, dispatch |
| Push registration (`notifications.ts`, `mio-vapid-subscription.js`, hooks and components of `sdk-react`) | permission and subscription of the browser, a row on the server, a dismissal | register, unregister, popup card, buttons |
| React and React Native (`RealtimeContext.tsx`, `hooks.ts`, `RealtimeProvider.tsx`, `useNetworkReconnect.ts`, `AiAssistantBlob.tsx`) | the provider's client, the buffer of a hook, a docked widget | mount, remount, new props, AppState and network changes |
| Feeds of a plain web page (`mio-shortcode.js`, `mio-embed.js`) | socket, list of messages, status line | autoInit, token, reconnection |

### The applications

| Component | State | Operations |
|---|---|---|
| Web client (`web-client`) | connection, chat and notification stores, push toggle, service worker | connect, join, leave, send, reload, update |
| Resource pages of the portal (templates, keys, devices, channels; `DataTable`) | session, table, dialog stack, requests | load, search, sort, page, select, export, create, remove |
| Broadcasting page | message, templates, devices, history | type, fill in, send |
| Sign-in, keys, tokens, profile | session and token stores, settings tabs, workbench | sign in and out, mint, rotate, save |
| Live views | overview, sessions, bell, assistant | poll, mark read, focus mode |
| Portal frame | stores in localStorage, shared by tabs | navigate, theme, preferences, setup guide |
| Admin console (`admin`) | connection, tracked tenants, dialogs with secrets, sandbox tab | connect, idle logout, rotate, revoke, join a session |

What is hard here, and what "correct" means for each part:

* **Router.** publish is a span of steps (history and exact bus; a scan of the
  patterns; one send per sender the scan cloned) during which others subscribe, go
  away and prune. Nobody may be skipped, served twice, served another tenant's
  frame or stranded on a bus that has left the map; the count it returns decides on
  the push fallback.
* **Presence.** The disconnection of a session and the heartbeat loop race for the
  same table entry; a sweep is a scan followed by removals. A departure is announced
  once, a member that is gone does not stay a member, silence is noticed.
* **Connection.** One loop reads commands and writes the out queue; relays fill
  that queue. A slow client, a re-SUB, a REPLAY and a disconnection meet there. A
  feed has no gaps, relays do not pile up, all end.
* **Cluster.** Frames leave through queues that drop, Redis may fail, and each
  instance hears its own envelopes. No echo, no reordering within a session, one
  push, no lasting loss without a drop.
* **Rate limiter.** check takes three locks one after the other while an
  administrator changes the quotas.
* **Keys.** A request writes a key to a table and to memory with an await between,
  where the server may stop, the statement fail, or another request revoke or rotate
  the same key. Memory decides who gets in, the tables what memory is after a restart.
* **SDK connection.** Callbacks of sockets that the client no longer owns act on the
  one it does; disconnect() falls between two awaits.
* **Chunks and codec.** The chunks of a message come once per subscription that
  covers its channel, mixed with those of others, late or not at all; names are cut
  to a field of fixed size, by four programs that must agree.
* **Dispatch.** Handlers change the very collections that are being walked.
* **Push.** Registering is a chain of five awaits in two systems; each may fail and
  leave what the earlier ones did.
* **Pages.** An answer belongs to the page, channel, tenant and session it was asked
  from, and arrives in whichever is there by then.

## 2. Modules

| Module | Models | Extends / instances |
|---|---|---|
| `Addressing` | channel keys, wildcard keys, messages, which target covers which channel | |
| `PubSub` | abstract specification: what the holder of a subscription is promised | `Addressing` |
| `ChannelRouter` | the router, lock by lock | `Addressing`; `PubSub` as refinement target |
| `ChannelRouterProofs` | proofs about it | `ChannelRouter`, TLAPS |
| `Presence`, `PresenceProofs` | presence and the proofs about it | |
| `Connection` | one connection of either transport | |
| `Cluster` | several instances, Redis, history queue, push fallback | |
| `RateLimit` | the two levels of token buckets | |
| `KeyStore` | a tenant's keys on the server, in memory and in tables, through restarts | |
| `SdkClient` | `RealtimeClient` of the TypeScript SDK | |
| `Chunking`, `FrameCodec`, `EventDispatch` | a message from publish() to the handlers: chunks, bytes, calls | |
| `WebPush` | registration of a browser for push, from nine controls | |
| `FeedClient` | the feed of a plain web page | |
| `ReactSdk`, `AssistantWidget` | provider and hook of the React SDKs; the floating assistant | |
| `WebChat`, `AppShell` | the stores of the web client; service workers and their updates | |
| `PortalTables`, `DataTable` | requests, dialogs and sessions of the resource pages; the table itself | |
| `Broadcasting`, `Workspace`, `PortalBell`, `AppFrame` | the other parts of the portal | |
| `PortalViews` | the pages of the portal that poll | |
| `AdminConsole`, `SandboxSession` | the operator's console, and the tab that joins a session | |
| `ConnectionProofs`, `ClusterProofs`, `RateLimitProofs`, `SdkClientProofs` | proofs about the module each is named after | that module, TLAPS |
| `ClientSide` | the client libraries and the web client, one of them at a time | instances of the modules above |
| `Consoles` | the portal, the admin console and the keys both write, one part at a time | instances of the modules above |
| `ClientSideProofs`, `ConsolesProofs` | proofs about the programs in them | `ClientSide`, `Consoles`, TLAPS |
| `MC*` | small instances for TLC | the module after `MC` |

Operators named `Faulty...` are slips one could make in the definition that follows
them. They are no part of any specification: `PROJECT.json` ("mutants") says which
property fails when the slip replaces the definition.

### How the client-side modules are put together

`ClientSide` and `Consoles` have a variable `program`, chosen in `Init` and never
changed, and slots `s1, s2, ...`. Each program is an instance of its module with the
module's variables in the first slots; the slots it does not use are 0. So one run
checks programs that never meet, each over its whole state space, and a design that
exists in several copies is one module with several instances: the codec three times
(the SDK's, the WordPress plugin's, the plain script's), the feed three times, the
dispatch twice, the service worker twice, `DataTable` twice. Where the copies differ
a constant says how (`Client` of `EventDispatch` is "sdk" or "light"). A property of
the composition says `program = "x" => X!P`; an action property is built from the
module's `...Step` formula.

### ChannelRouter

A bus (`broadcast::Sender`) is a number; `channels`, `wildcards` are the two
`DashMap`s, `history` the ring buffers. A receiver goes free, cloned (pattern
subscriptions only: the sender's clone has left the lock, `subscribe()` has not been
called), attached, dropped. `pub[p]` holds the locals of a running publish.

| Action | Code |
|---|---|
| `Subscribe`, `Replay` | `subscribe`, `replay`: under one entry lock, creating the entry if need be |
| `CloneWildcardSender`, `AttachToClone` | the two halves of `subscribe_wildcard` |
| `PublishBegin`, `PublishExact`, `PublishScan`, `PublishFanout`, `PublishReturn` | `publish`: the call, history with exact bus, one pattern of the scan, one cloned sender, the return |
| `PruneEmpty` | `prune_empty` of one channel |
| `PruneWildcardsBegin`, `PruneWildcard` | `prune_dead_wildcards`, entry by entry |
| `DropReceiver` | the end of the relay task that owns the receiver |

`glob_match` is the constant relation `Match`: the router's correctness does not
depend on which patterns match which channels. The per-receiver overflow of a bus
(Lagged) is in `Connection`, where the receiver is read; `inbox` here is what the
bus offered. The number of buses is bounded by `MaxSenders`.

### Presence

`registered` and `tracked` are the table (a channel is tracked once per SUB, as in
the code's `Vec`), `silence` the age of `last_seen`. A SUB or UNSUB is two steps,
table and announcement; a disconnection is the removal and one LEAVE per tracked
entry; a sweep is a scan, removals by id, and TIMEOUTs. `seen`, `joined` and
`departed` record what watchers of the meta-channel were told. `disturbed` marks
sessions that sent a second AUTH or were swept while connected. `silence` stops one
past `Timeout`, since the code only compares with it.

### Connection

`main` is the command loop, `tasks` the relay tasks, `relay_tasks` the map the loop
keeps, `out` the queue of `RelayBuffer` frames. `have` and `skew` describe the
inbound frame being read, in chunks: on TCP (`CancelSafe = FALSE`) taking an
outbound frame drops what `read_exact` has read. An aborted task may still move a
frame before the abort reaches it. Commands that do not touch relays are
`HandleNone`.

### Cluster

`Publish` is the local half of `publish_and_fanout`, `Fanout` the rest (enqueue on
the bus, push fallback when nobody was reached); both are steps of one connection
task, one frame at a time. `RedisPublish` and `Reinject` are the two background
tasks, `Persist` the history writer; their failures are `RedisPublishFails`,
`SubscriptionEnds`, `PersistFails`. Who subscribes to what is the constant
`Subscribed`.

### RateLimit

A call of `check` reads the quotas, then visits the session's bucket, then the
tenant's. Time is in ticks, refill in tokens per tick: the code's fractions of a
token are not modelled, and the bounds below are about whole tokens. `raced` marks
tenants that had a call in flight when their quotas changed. `admitted` records for every
session and tenant how many frames were let through up to each instant; no action reads
it.

### KeyStore

One tenant. `primary` and `extra` are the two repositories of `TokenService`, `stored`
and `rows` the tables behind them. A handler of the portal is cut at its awaits; `ops`
holds what is under way, each with its next statement or call. Sign-up and rotation
write memory first and the table second, generation and revocation of an extra key the
table first. The handlers of the Admin API have no await and no table. `Stop` ends all
requests and empties memory. main() starts in steps: `Start` registers the secret the
environment may provide for the demo tenant (`demo`, which has no row) and serves the
Admin API; `LoadSecrets` and `LoadKeys` read one table each, and either may fail, which
the code logs; only then is the portal served. Between them the Admin API creates,
rotates, revokes and mints in a memory that is empty or half filled. A token keeps the
secret it is signed with and the one its owner has shown. `secretApart`, `keysForgotten`
and `overtaken` record why memory and tables may differ: a secret only memory has, the
environment's or the Admin API's, a statement that failed, two writers at once, a tenant
revoked in memory, a key revoked while it was generated. No action reads them. A row that
is read ends the first, keys that are read the second, and every start the third.
`MemoryFollowsRows` is about the served portal, but for its last line: that no revoked key
is live without having been overtaken holds at start-up too.

### SdkClient

JavaScript callbacks are the steps. `sockets` keeps every socket the client has
created, `ws` is `this.ws`. `openSocket` is cut at its two awaits (`TokenResolved`,
`TokenRejected`, `ImplResolved`, `ImplMissing`, `NoToken`). `authed` and `serverSubs` are what
the server has been told on each socket. `overlapped` marks applications that called
connect() while something of an earlier connection was left.

### The client libraries

* **Chunking.** A text is a sequence of UTF-16 units (one of one byte, one of two,
  the halves of one of four). `Publish` is encodeChunks and the frames it gives,
  `Fanout` the server, which relays a frame once per subscription that covers it,
  `Dispatch` the receiver's onmessage with `Feed` (ChunkReassembler.feed) in it. `Lose`
  is a relay that lags, `Tick` the clock that sweepStale looks at. `late` and `lost`
  remember whose frames did not make it. `published` also keeps the pieces a text was
  cut into and what the receiver reads of each: a NUL ends a piece, half a code point is
  U+FFFD. What the handlers should hear is the join of these (`Received`), which is the
  text itself unless it has a NUL or a code point was cut (`PlainTextsSurvive`). Two
  messages may be given one id; then `OnlyWholeMessages` says which mixtures of the two
  can come of it (`Mixtures`), and no others do.
* **FrameCodec.** The frame with fields of one and three bytes: layout, padding,
  truncation at a code point and CRC are the code's. `Writer` says how a client cuts
  a name: encodeInto (the SDK) or a cut and a step back (the other two copies).
  `Send`, `Damage`, `Receive` take one frame from publish() to dispatch().
* **EventDispatch.** dispatch is cut before each call of a handler, which may
  subscribe and unsubscribe (`Touch`) or throw. The SDK walks its live Map and Sets,
  hence positions in `keysLeft` and `left`; the light client walks copies.
* **WebPush.** `control` says which of nine controls the page has. A call is a record
  with the link of the chain it waits at (permission, worker, lookup, subscribe, post,
  delete, unsubscribe); each link is an action, `LinkFails` its failure. `rows` is the
  server's table, `browserSub` the browser's subscription, `seen` what the control
  believes. `overlapped`, `meddled`, `undeleted` mark calls that were not made one at
  a time, a user who blocked notifications meanwhile, and a DELETE that failed.
* **FeedClient.** MioRealtimeClient and the page code around it, with queues to and
  from the server; close codes 1006 and 4001, the second of which ends retries. The
  server's `refusal` of a token is decided when it takes AUTH and told with the 4001; a
  connection that breaks in between closes with 1006, and the client tries again. The
  status line is set by 'close' whatever the code.
* **ReactSdk.** The cleanups and effects of a commit are one step; in between come
  the client's own steps, of which `rt` keeps what matters here (`SdkClient` has the
  rest).
* **AssistantWidget.** Panel, docking (written to localStorage by an effect) and the
  animation frame that mouse moves wait for.

### The applications

* **WebChat.** Each store's functions are actions or parts of the page that calls
  them. `conn[k]` is the socket of the kth client; old clients keep their listeners.
* **AppShell.** Versions are numbers; `installing`, `waiting`, `active` the workers of
  the registration, `tabs` the pages with their controller and toast. When the browser
  looks for a new worker and which worker controls what is external.
* **PortalTables.** A request remembers the session it was sent in, whether its page
  and its dialog are still there and whether its load was cancelled. `ServeRead`,
  `ServeWrite`, `Refuse` are the server (external), `...Settles` the callbacks. A list
  (`Listed`) holds rows with their status: what was deleted is not in it, and a revoked
  key is, as revoked.
* **DataTable.** filtered, sorted, paginated as in the code; a load is two steps.
* **Broadcasting.** A message is its size and the variables left in it. The forms of
  the popover stand inside the composer's form, so `ValuesForm` and `InsertForm` run
  handleSubmit too.
* **Workspace.** Forms, settings tabs, workbench and embed page; answers of requests
  whose page is gone matter only where they reach a store. Secrets are numbers. A mint is
  two requests, each with its own way: queued, sent by whoever is signed in when its
  interceptor runs (`MintLeaves`), answered, arrived. The interceptors are microtasks of
  the click, so nothing but they runs while one of the two has still to leave
  (`Departing`); everything may happen between the two answers. `MaxCalls` bounds
  what is under way at once: requests, mints, an open workbench and an open dialog count
  one each.
* **PortalBell.** The list and the badge on the page against the server's, whose answer
  is read in two statements (`ListForTenant`, `CountUnread`) with inserts and marks in
  between. `between` holds what happened there for the list that is on the page.
* **AppFrame.** Two tabs over one localStorage: sidebar, drawer, focus mode, theme,
  setup guide. `clicks` bounds what users do.
* **PortalViews.** Polls on an interval, answered in any order; the assistant's
  snapshot of five requests.
* **AdminConsole.** One connection, polled pages, one form and the secrets revealed on
  top of it. **SandboxSession.** Runs of one effect, each with its token and client.

## 3. Runs

| Run | Instance | Distinct states | Checks |
|---|---|---|---|
| `router` | 2 tenants, 1 channel, 1 pattern that matches it, 2 messages, 2 receivers, 2 publishers, history of 1, 3 buses; symmetric in all sets | 729 k | an exact subscriber is always on the mapped bus; publish reaches its audience; the returned count is exact, history and feeds agree (`ReportsAgreeWithFeed`); refinement of `PubSub` |
| `presence` | 1 session, 2 channels, 2 SUBs, timeout 1 | 81 k | one departure per JOIN at most; the table lists only running connections; no ghost after a clean exit; silence is noticed and TIMEOUTs are published (`SilentSessionsEnd`) |
| `connection` | 1 key, queue of 1, bus of 2, 3 frames, 2 relay tasks | 42 k | gapless feeds; one relay per key; relays end and their frames arrive (`RelaysComeToAnEnd`) |
| `cluster` | 2 instances, 2 sessions, queues of 1, PUB and UNICAST | 80 k | no echo; session order; one push; the stream holds nothing but deliveries; everything not dropped arrives |
| `rate_limit` | 1 tenant, 2 sockets, 1 HTTP client, 2 quotas, 2 instants | 407 k | bounds of sessions and tenants over every window (`RatesBounded`); new quotas hold, no bucket outlives its connection (`BucketsFollow`) |
| `sdk` | 1 channel, 2 handlers, 3 sockets, 2 sends, 2 connects, every configuration | 123 k | no call is forgotten or reordered; the server's subscriptions are the client's; the client keeps trying; one live socket, none after disconnect() (`SocketsUnderControl`) |
| `client_side` | 14 programs, see below | 1.84 M | whole messages reach every handler, as their pieces read (`MessagesArriveWhole`); who says it is registered for push is, and no dead rows stay (`PushRowsAgree`); feeds miss nothing, and say "Reconnecting" only while they do or when told that their token is refused (`FeedIsTrue`); a hook's buffer is of its channel; a chat client hears what was joined; no tab is left behind by its worker, which has its shell (`ShellFollowsDeploys`); heard exactly when covered, same bytes everywhere; a handler runs once |
| `consoles` | 11 programs, see below | 3.09 M | no rows of another session; removed rows are not offered again, and revoked keys stay listed as such (`RemovedStaysRemoved`); a page is not lost by sorting or searching; broadcasts fit and their reach is of their channel (`BroadcastIsHonest`); a token is filed under its tenant (`TokenBelongsToItsTenant`); the badge and its items differ by what happened between their two statements at most (`BadgeCoversItems`); figures are of this tenant and instance, and a sandbox tab is one agent (`AdminKeepsToItsPage`); keys in memory are those in the tables, but for the recorded reasons (`MemoryFollowsRows`); a reload restores the chrome and the docking (`ReloadRestores`) |
| `portal_views` | 2 events, 2 polls on their way, chart of 2 | 26 k | a page that stays open shows what the server has, again and again |

The bounds are chosen so that each race has all of its parties. Two publishers and
two receivers give every overlap of one publish with another and with a receiver of
either kind; three buses allow a pattern's bus to be pruned and created anew; a
history of one makes the ring buffer drop its oldest entry. A session of presence
shares nothing with others but the loop, so one suffices; two SUBs make repeated
tracking happen. Queues of one slot fill up at once, three frames overrun a bus of
two. Three sockets are a connection and two reconnections.

`client_side`: two senders, two ids, which both may draw the same of, two subscriptions
that cover one channel and texts of one, two and three chunks make chunks of two messages
and their duplicates mix; one text in one frame has a NUL, one of the cut texts a surrogate
pair that stays whole, the other a pair that is cut and a NUL; two ticks exceed the time
limit of one; three messages, three sockets and a list of three are a feed that is cut off,
refused or complete; names that fit, fit exactly and have to be cut inside a
code point; two patterns and two touches per dispatch are the least that removes one
key while another is walked; two push calls and two endpoints register, fail and
register again; two clients of a hook and two sockets each are a remount; three
versions, two of which share a cache name, and two tabs are an update in one tab that
the other has not seen. `consoles`: two tenants that sign in one after the other on
one browser, two requests at once (a load and a removal, or two loads that overtake
each other), three rows on pages of one and two, two channels of which one is a prefix
of the other, three notifications with a list of two, two engine instances, three runs
of an effect, two tabs. `Workspace` has two things under way at once and two secrets, so that a
secret is rotated while the workbench shows it. `AppFrame` stops at four clicks. `KeyStore` has three secrets
(a sign-up and two rotations that cross), two extra keys and two requests at once, a
generation and a revocation among them, with and without a secret of the environment;
stops and starts are not bounded.

`connection`, `cluster`, `client_side` and `consoles` do not check deadlock: a
connection that is closed, clients that have sent all of their frames, and programs
whose bounded users have nothing left to do rightly end.

Runs that are expected to fail show where the code and its comments disagree:

| Run | The comment | What the code does |
|---|---|---|
| `wildcard_orphan` | publish reaches "already-connected subscribers (exact channel **and** matching wildcard patterns)" | a pattern's sender pruned between the two halves of `subscribe_wildcard` leaves its subscriber on a bus nobody sends to |
| `replay_deadlock` | relayed "without blocking the inbound command loop" | REPLAY enqueues from the loop that is the queue's only reader, and waits for itself once it is full |
| `tcp_framing` | "Frame relaying identical in behavior to `WsController`" | a half-read TCP frame is dropped when an outbound frame is ready |

### Fairness

* Presence: weak fairness of the heartbeat loop and of a connection task that is in
  the middle of a frame: tokio polls runnable tasks. Nothing is assumed of clients.
* Connection: weak fairness of relays, of aborts reaching their task, of REPLAY and of
  handling a frame that was read; strong fairness of `WriteOut`, since `select!`
  picks among ready branches at random, so a queue that is non-empty again and again
  is served. Clients need not send, nor ever disconnect. A client that stays
  connected reads.
* Cluster: weak fairness of the rest of `publish_and_fanout` and of both bus tasks.
  Redis may fail at any time; no fairness is assumed of it.
* PortalViews: weak fairness of `Tick` (the browser runs the interval) and strong
  fairness of `Answer` and `PollSettles`: `http.ts` ends a request after 15 s, and
  requests made again and again are answered again and again, though any of them may
  fail.
* Everything else: safety only.

## 4. Findings

`PROJECT.json` quotes the code and the comment of each. Besides the three runs above,
these properties are stated in the modules and no run checks them, since the code as it
is breaks them; TLC shows how when the property is added to the cfg of the module's run
(of a part of `ClientSide` or `Consoles`: as `program = "x" => X!P`).

| Property | What the code does |
|---|---|
| `Presence.LeaveOnEveryChannel` | a second AUTH, or a sweep of a live session, forgets the channels, and no LEAVE follows |
| `Cluster.DeliveredWhereAddressed` | a UNICAST from the bus is published on the channel named like the user, not on the inbox |
| `KeyStore.RevokedKeyIsDead` | a key revoked before its generation has reached memory is added afterwards and stays until a restart |
| `KeyStore.RevocationIsLasting` | a revoked tenant is back after a restart: its rows were left |
| `KeyStore.SecretOutlivesRestart` | rotations that cross, and rotations by the administrator, are undone by a restart |
| `KeyStore.TokensOutliveRotation` | a rotation does invalidate the tokens signed before it |
| `KeyStore.TokenDiesWithItsKey` | tokens asked for with an extra key are signed with the primary secret and outlive the key |
| `KeyStore.SignupHeals` | a sign-up whose write fails leaves a tenant without an account to rotate from |
| `KeyStore.ReloadComesFirst` | the Admin API is served before the tables are read, and the reload replaces a secret it has set |
| `Chunking.PiecesKeepCodePoints` | splitByByteBudget cuts a surrogate pair |
| `Chunking.OnlyPaddingIsTrimmed` | readTrimmed ends a payload at its first NUL, where the server takes off trailing ones |
| `Chunking.CompleteTextsOnly` | two messages of one random id are put together as one mixture |
| `FeedClient.ReconnectingMeansTrying` | after a close with 4001 the page says "Reconnecting…" for ever, and nothing is tried |
| `EventDispatch.DispatchCompletes` | the light client's `_dispatch` throws when a handler removes the last handler of a later pattern |
| `ReactSdk.RemountsShareASocket` | a client given to the provider has two live sockets after a remount |
| `ReactSdk.QuietInBackground` | the return of the network connects an application in the background |
| `AssistantWidget.EyesAreAlive` | docking with a frame pending leaves rafRef set: the eyes stay still |
| `AppShell.ReloadsOnlyWhenAsked` | a worker that nobody told to take over claims pages, and they reload |
| `WebPush.OffCanBeTurnedOn` | the web client's toggle shows the permission, and reads as on after it was turned off |
| `WebChat.BellCountsItsItems`, `WebChat.ShownIsPublished` | the badge counts items that were dropped; a message is shown as sent without a client |
| `Broadcasting.OnlySendPublishes`, `Broadcasting.HistoryIsOfItsChannel` | filling in a variable publishes the message; a late answer joins the history of another channel |
| `PortalTables.SecretStaysUntilClosed`, `AdminConsole.RevealStaysUntilClosed` | closeAll() after a late answer takes a secret that is shown once with it |
| `Workspace.BenchShowsActiveSecret`, `Workspace.SnippetIsOfOneTenant` | the workbench keeps a rotated secret; a snippet names one tenant and holds another's token |
| `PortalBell.ReadStaysRead` | a list asked for earlier shows a read item as unread again |
| `PortalBell.BadgeCountsShown` | an item marked between the two statements is listed as unread and not counted |
| `PortalViews.AdviceIsTrue` | a failed request counts as "no channels" |
| `AppFrame.PageSizeIsRemembered`, `AppFrame.ChromeOffOverview`, `AppFrame.ToggleIsSeen` | a tab writes its old store over another's; focus mode outlives the overview; the theme button may change nothing one sees |
| `AdminConsole.IdleLeavesNoSecret` | a revealed secret stays on the screen after the idle logout |
| `SandboxSession.LabelledRight` | the tab hears its own messages back as the session's |

Two more have no property: the durable history is no "Strict superset of the ring
buffer" (its queue drops), and the late `onclose` of an old SDK socket clears `this.ws`
of a newer one (why `OneLiveSocket` excuses `overlapped` applications).

## 5. Proofs

For every value of the constants (any number of tenants, channels, patterns, receivers,
publishers, sessions, instances, tabs, calls; any capacities and quotas), from the
assumptions named in the modules:

| Module | Theorem | States |
|---|---|---|
| `ChannelRouterProofs` | `TypeCorrect` | type correctness |
| | `ExactSubscribersStayMapped` | a live exact subscriber is on the bus publish looks up |
| | `PublishReachesAudience` | publish reaches whoever was attached when it began, still is, and is mapped |
| | `ReportsAreTrue` | the count publish returns is the number of receivers that got the message; a channel's history is what its subscribers saw |
| | `RouterKeepsPromise` | `ChannelRouter` implements `PubSub` |
| `PresenceProofs` | `PresenceTypes` | type correctness |
| | `DeparturesNeverDoubled` | departures never outnumber JOINs |
| | `RegisteredAreLive` | the table lists running connections only |
| | `CleanExitLeavesNoGhost` | an undisturbed session leaves no JOIN behind |
| `ConnectionProofs` | `FeedsHaveNoGaps` | what a relay has got through is a gapless stretch of its bus |
| | `OneRelayForEachKey` | one relay that is not aborted per key, the one on file |
| `ClusterProofs` | `DeliveredOnce` | no instance delivers a frame twice |
| | `OrderOfASessionKept` | frames of a session arrive everywhere in the order sent |
| | `OnePushPerFrame` | one push per frame at most |
| | `StreamsHoldDeliveries` | a stream holds what was delivered, once per instance at most |
| `RateLimitProofs` | `BucketsFollowTheirOwners` | new quotas hold, no bucket outlives its connection |
| | `RatesStayBounded` | in no window does a session or a tenant get more than burst plus refill |
| `SdkClientProofs` | `NoCallForgotten` | what was sent is on the wire or queued, once, in order |
| | `ServerFollowsTheClient` | on an open socket the server's subscriptions are the client's |
| | `ClientKeepsTrying` | a client that should be connected has a socket, an attempt or a timer |
| | `SocketsStayUnderControl` | one live socket at most, none after disconnect() |
| `ClientSideProofs` | `EveryHandlerRunsOnce` | whoever stays registered during a dispatch runs exactly once (an action property) |
| | `PushRowsStayTrue` | a control that says "registered" is right; no dead rows stay |
| | `FeedsAreTrue` | a feed that replays misses nothing; it says "Reconnecting" only while it is, or when it was told that its token is refused and has given up; in all three copies |
| | `BuffersAreOfTheirChannel` | the buffer of useChannel holds messages of its channel |
| | `OpenClientHearsJoined` | an open chat client has a handler on exactly the joined channels |
| | `ShellsFollowDeploys` | no tab is older than its worker, whose shell is cached |
| `ConsolesProofs` | `MemoryAndTablesAgree` | keys in memory and in the tables differ for the recorded reasons only; a revoked key that was not overtaken is never live, not at start-up either |
| | `TokensOfOneTenant` | the two requests of a mint are of one tenant, and the token is filed under it |
| | `BroadcastsAreHonest` | a broadcast fits its frame, its reach is of its channel |
| | `BadgeCovers` | the badge and the unread items listed differ by what happened between the two statements at most |
| | `AdminStaysOnItsPage` | figures are of the tenant and instance shown; a sandbox tab is one agent |
| | `TablesShowOwnRows`, `RemovedRowsStayAway` | no rows of another session; removed rows are not offered again, revoked keys stay listed as such |
| | `ReloadsRestore` | a reload restores the chrome and the docking |

`ConnectionInvariant`, `ClusterInvariant`, `LimitInvariant` and `ClientInvariant` state
the inductive invariants as a whole. None of the properties is inductive as it stands;
every strengthening below was checked by TLC on the instance of its run before it was
proved. A proof has one step per action and, under it, one per conjunct that the action
can disturb.

**Assumptions.** They name what the code takes for granted: capacities and limits are
numbers, positive where the code could not work with 0; receivers and instances are
finitely many (`RouterAssumption`, `ClusterAssumption`), since they are counted; a session
has one home instance; sessions, HTTP calls and tenants have different names, as their
buckets are in different maps (`LimitAssumption`); 0 is no tenant (`ConsolesAssumption`);
a channel is no pattern and "none" is neither (`ClientSideAssumption`). The bounds of the
model (`MaxFrames`, `MaxSockets`, ...) are constants too, so the theorems hold however
large they are.

**Router.** `RouterInv` adds: a receiver that is not yet
attached has heard nothing, and nobody has heard what was not published
(`ReceiverInv`); a bus number belongs to one key, and the receivers on it were made
for that key (`BusInv`: needed because a pruned bus lives on in clones); a sender
that a publish has cloned leads only to receivers its message covers and that do not
have it (`FanoutInv`: this is at-most-once delivery); calls in flight carry different
messages, and while patterns are unvisited only exact subscribers have the message
(`CallInv`: why the scan cannot clone a sender twice); each member of the audience has
the message or the rest of the call leads to it (`AudienceInv`). Refinement follows: each
step is an `Attach`, a `Detach`, a `Deliver` or leaves `PubSub`'s variables alone.
For the reports: the count of a call is the cardinality of the set of receivers that hold
its message (`Counted`), which each send enlarges by the receivers of one bus; history and
inbox agree from their ends (`EndsAgree`), which the ring buffer's dropping of its oldest
entry keeps.

**Presence.** `PresenceInv` adds to the types what each stage of a connection task
implies (`SessionInv`: no entry, no tracked channels; nothing parting unless leaving)
and, for undisturbed sessions, that a JOIN as last word is owed a departure: a tracked
channel, an UNSUB half done, or a LEAVE that handle_leave has yet to publish
(`CleanInv`).

**Connection.** Between what the client has heard of a relay (`Awaited`) and what the
relay takes next (`Pending`), the out queue holds every frame, in order and no other of
that relay (`QueueInv`); a relay holds the frame before the one it will read, or none
(`FeedInv`). A queue shared by all relays and by REPLAY needs `OriginInv`: frames come
from tasks that were spawned, or from REPLAY.

**Cluster.** A frame moves from its handler through the outbound queue and Redis to the
other instances. `QueuesInOrder` says each of these holds the frames of a session in
order, `StagesInOrder` that a later stage holds older frames than an earlier one; dropping
keeps both. `OriginInv` says where a frame is at home, hence that its envelope is
recognised as an echo. For the streams: what waits to be written was delivered, and waits
once (`DurableInv`), and the copies of a frame in a stream inject into the instances that
have delivered it and do not have it waiting any more (`StreamInv`).

**Rate limiter.** `LimitInv`: no bucket is over-full (`SoundInv`), and a check that did
not race with a change of quotas has the tenant's in hand (`CallInv`). The rates need
`Budget(count, b)`: in every window what was let through is within a burst and the window's
refill; in those that end with the bucket's last refill, the tokens it still has are within
that too; since then nothing was let through. A check that has the session's token and not
yet the tenant's counts as let through (`Accounted`); should the tenant's bucket refuse it,
it is dropped from the count, which keeps the bounds (`Forget`). New quotas drop the
tenant's bucket, and its count starts anew.

**SDK connection.** `ServerInv`: `this.ws` is the last socket or none; an open socket has
had AUTH, the subscriptions and the backlog. `ControlInv`: without overlapping connect()
calls there is one attempt (a run of openSocket or a timer) or one live socket, never
both.

**Dispatch.** The dispatch under way has keys and, under the current key, handlers before
it. `Tally(K, H)`, given these two sets, says that a registration which has been there
since the message arrived was called once, unless it waits: then not at all. It is proved
once for both clients. `SdkDispatchInv` takes the sets from the positions of the live
iterators, `LightDispatchInv` from the copies; `Registry` (no handler twice, the Map has
exactly the keys with handlers) is what makes a removed element shift a position by one.

**The other client-side programs.** `ChatInv`: only the client in use tries or is open,
and each handler on it has its entry in liveSubscriptions. `HooksInv`: the hook's handler
is on the provider's client, under its present channel. `ShellInv`: versions only grow,
the waiting worker and the one in charge have their shell, no older cache is left.
`FeedInv`: on the first socket REPLAY follows SUB, and each message is in the list, on its
way, or older than a full list holds (`ReplayInv`), and a client that was told of a refusal
has neither socket nor timer; the steps of the two embeds are shown
to be steps of the shortcode's feed. `PushInv`: while calls are made one at a time, only
the last runs, it has the browser's subscription in hand when it posts or unsubscribes,
and a row of another endpoint is about to be deleted (`OneAtATime`).

**Consoles.** Each invariant is about what is on its way. `KeysInv`: whoever is about to
write the table has the secret of memory in hand; an active row without its key in memory
is being added; before the portal is served nobody is, and memory has no extra keys and, but
for the recorded reasons, no secret. `MintsInv`: the two requests of a mint have both left,
with one session, or both not (`Together`, `Waiting`), or the first has, with the session
there is now (`Halfway`): this is where `Departing` is needed, since nobody signs in or out
before the second follows. `ComposerInv`: a broadcast under way fits and has the reach of its
own channel. `BellInv`: in every answer still to come number and list differ by what came
between, and a list whose number is still to be read is the newest of a former time, whose
read items are still read (`HalfRead`). `AdminInv`:
a poll that was not cleaned up is of the page, tenant and instance there are now.
`SandboxInv`: at most one run of the effect waits for its token, and only while no client
is in use. `ResourcesInv`: what an awaited load brings is of the session there is now and
reflects what the page saw removed (`Reflects`). `ChromeInv`, `BlobInv`: what a tab has dismissed or
docked is in the store.

**Only model-checked.** Liveness (`SilentSessionsEnd`, `RelaysComeToAnEnd`, `ReachesEveryInstance`,
`StaysLive`): fairness is outside the prover's reach. `MessagesArriveWhole`
and `HeardWhenCovered` are about what recursively defined functions compute (splitting and
joining texts, UTF-8, the glob matcher, CRC): induction over data, which the provers do
not find. `OnlyALoadEmptiesThePage` of `DataTable` rests on `SelectSeq` and `SortSeq`, of
which they know nothing.

## 6. Not modelled, and why

* **The portal's API on the server** other than keys and notifications: rows in SQL
  written one statement at a time. The consoles' modules treat the rest of it as external:
  it answers, refuses or fails.
* **Frame codec of the server**: it reads fields at fixed places and relays a frame as
  it came; the copies that cut and pad are the clients'.
* **Push delivery, metrics, settings and start-up**: plain I/O, counters and wiring.
* **Rust, Python, Android SDKs and the Laravel package**: ports of the TypeScript
  client, or one HTTP call per message. **The WordPress plugin's PHP**: settings pages
  and a token endpoint.
* **Documentation pages, layout, translations, styles**: no state worth the name.
* HMAC and token format, SQL, HTTP routing and DTOs; the XRANGE of `since()` and the
  approximate trim of Redis streams; wording of presence events, toasts and logs.

Details per component are in `PROJECT.json`.

## 7. Plan

1. Facts about `Chunking` and `FrameCodec` that need no induction: a message that is
   delivered had all of its chunks; padding and truncation keep the fields apart.
2. `OnlyALoadEmptiesThePage` of `DataTable`, once filter and sort are functions the provers
   can expand: only the number of rows matters.
3. `History`: ring buffer and Redis stream answering the same REPLAY, seconds against
   milliseconds, trimming.
4. A composition of `Connection` with `ChannelRouter` and `Presence` for one client.
