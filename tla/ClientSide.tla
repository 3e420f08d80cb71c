----------------------------- MODULE ClientSide -----------------------------
(***************************************************************************)
(* What runs in the browser of an end user beside the core of the          *)
(* TypeScript SDK: the other parts of the client libraries, the chat of    *)
(* web-client and the service workers, each for itself.  Which program     *)
(* runs is chosen at the start, and they share the variables s1 ...        *)
(* without ever meeting.                                                   *)
(* Several are copies of one design (the codec exists four times, the feed *)
(* three times); a copy is an instance of the module that models it.       *)
(***************************************************************************)
EXTENDS Naturals

CONSTANTS  \* of Chunking
  Senders, Texts, Channel, Keys, MsgIds, LenPayload, HeaderMax, LenChannel,
  MaxMessage, MaxChunks, Ttl, MaxTime, MaxLosses
CONSTANTS  \* of WebPush
  Controls, MaxCalls, MaxEndpoints, MaxDays
CONSTANTS  \* of FeedClient
  MaxMessages, MaxOpens, Limit
CONSTANTS  \* of FrameCodec
  Utf8, Star, Nul, LEN_TENANT, LEN_CHANNEL, LEN_PAYLOAD, Tenant, Text, Payload
CONSTANTS  \* of EventDispatch
  Handler, Wants, Exact, Pattern, Events, MaxTouches
CONSTANTS  \* of ReactSdk
  HookChannel, NullChannel, MaxHookClients, MaxHookSockets, HookLimit
CONSTANTS  \* of WebChat
  ChatChannel, NoChannel, MaxClients, MaxUnread, MaxNotifications
CONSTANTS  \* of AppShell
  Tab, MaxVersion, CacheName

\* Limits are numbers (the pages read data-limit with "parseInt(...) || 20"), and so are
\* the names of caches; a channel is no pattern.
ASSUME ClientSideAssumption ==
  /\ Limit \in Nat \ {0} /\ HookLimit \in Nat /\ MaxVersion \in Nat \ {0}
  /\ CacheName \in [1..MaxVersion -> Nat]
  /\ Exact \notin Pattern /\ "none" \notin {Exact} \cup Pattern

VARIABLES
  program,       \* which of the programs runs
  s1, s2, s3, s4, s5, s6, s7, s8, s9, s10, s11, s12, s13, s14, s15, s16

vars == <<program, s1, s2, s3, s4, s5, s6, s7, s8, s9, s10, s11, s12, s13, s14, s15, s16>>

\* What a program with n variables leaves alone.
After14 == <<s15, s16>>
After13 == <<s14, After14>>
After10 == <<s11, s12, s13, After13>>
After8 == <<s9, s10, After10>>
After5 == <<s6, s7, s8, After8>>

\* ... and that these are not used.
Zero14 == s15 = 0 /\ s16 = 0
Zero13 == s14 = 0 /\ Zero14
Zero10 == s11 = 0 /\ s12 = 0 /\ s13 = 0 /\ Zero13
Zero8 == s9 = 0 /\ s10 = 0 /\ Zero10
Zero5 == s6 = 0 /\ s7 = 0 /\ s8 = 0 /\ Zero8

-----------------------------------------------------------------------------
(* The programs                                                            *)

\* chunking.ts of sdk-typescript, between two clients.
Chunks == INSTANCE Chunking WITH
  subs <- s1, published <- s2, out <- s3, relay <- s4, pending <- s5, now <- s6,
  heard <- s7, first <- s8, late <- s9, lost <- s10

\* The controls that register a browser for push.
Push == INSTANCE WebPush WITH
  control <- s1, vapidKey <- s2, reprompt <- s3, permission <- s4, browserSub <- s5,
  endpoints <- s6, rows <- s7, calls <- s8, card <- s9, dismissedAt <- s10, day <- s11,
  seen <- s12, last <- s13, overlapped <- s14, meddled <- s15, undeleted <- s16

\* The feed of the WordPress plugin's shortcode, mio-shortcode.js and mio-client.js.
WordPressFeed == INSTANCE FeedClient WITH
  script <- "shortcode", replay <- s1, stage <- s2, status <- s3, list <- s4, ws <- s5,
  timer <- s6, attempt <- s7, pendingSends <- s8, toServer <- s9, joined <- s10,
  toClient <- s11, log <- s12, opens <- s13, focused <- s14, notified <- s15,
  refusal <- s16

\* The feed of the plugin's mio-embed.js.
WordPressEmbed == INSTANCE FeedClient WITH
  script <- "embed", replay <- s1, stage <- s2, status <- s3, list <- s4, ws <- s5,
  timer <- s6, attempt <- s7, pendingSends <- s8, toServer <- s9, joined <- s10,
  toClient <- s11, log <- s12, opens <- s13, focused <- s14, notified <- s15,
  refusal <- s16

\* The same in the copy of mio-embed.js that vanilla-client has.
VanillaEmbed == INSTANCE FeedClient WITH
  script <- "embed", replay <- s1, stage <- s2, status <- s3, list <- s4, ws <- s5,
  timer <- s6, attempt <- s7, pendingSends <- s8, toServer <- s9, joined <- s10,
  toClient <- s11, log <- s12, opens <- s13, focused <- s14, notified <- s15,
  refusal <- s16

\* protocol.ts, which lets encodeInto stop before a torn code point.
SdkCodec == INSTANCE FrameCodec WITH
  Writer <- "encodeInto", key <- s1, sent <- s2, buf <- s3, damaged <- s4, result <- s5

\* mio-protocol.js, which steps back from a torn code point itself, and its copy in the plugin's mio-embed.js.
WordPressCodec == INSTANCE FrameCodec WITH
  Writer <- "stepBack", key <- s1, sent <- s2, buf <- s3, damaged <- s4, result <- s5

\* The copy in vanilla-client's mio-embed.js.
VanillaCodec == INSTANCE FrameCodec WITH
  Writer <- "stepBack", key <- s1, sent <- s2, buf <- s3, damaged <- s4, result <- s5

\* dispatch of client.ts, which walks live Maps and Sets.
SdkDispatch == INSTANCE EventDispatch WITH
  Client <- "sdk", order <- s1, handlers <- s2, focused <- s3, phase <- s4, event <- s5,
  keysLeft <- s6, current <- s7, left <- s8, running <- s9, touches <- s10, kept <- s11,
  called <- s12, failed <- s13, notified <- s14

\* _dispatch of mio-client.js, which walks copies, like both copies of mio-embed.js.
LightDispatch == INSTANCE EventDispatch WITH
  Client <- "light", order <- s1, handlers <- s2, focused <- s3, phase <- s4,
  event <- s5, keysLeft <- s6, current <- s7, left <- s8, running <- s9, touches <- s10,
  kept <- s11, called <- s12, failed <- s13, notified <- s14

\* RealtimeProvider and useChannel of sdk-react and sdk-react-native.
Hooks == INSTANCE ReactSdk WITH
  owned <- s1, native <- s2, mounted <- s3, client <- s4, rt <- s5,
  connectionState <- s6, channelProp <- s7, messages <- s8, appState <- s9,
  online <- s10

\* The chat of web-client.
Chat == INSTANCE WebChat WITH
  connStatus <- s1, activeClient <- s2, hasCredentials <- s3, conn <- s4,
  handlers <- s5, live <- s6, channelIds <- s7, activeChannelId <- s8,
  unreadByChannel <- s9, bubbles <- s10, bell <- s11, bellCount <- s12, route <- s13

\* The service worker of web-client and the tabs under it.
ChatShell == INSTANCE AppShell WITH
  deployed <- s1, installing <- s2, waiting <- s3, active <- s4, skip <- s5,
  caches <- s6, tabs <- s7, notification <- s8

\* The same in the tenant portal, which is installed like an application too.
PortalShell == INSTANCE AppShell WITH
  deployed <- s1, installing <- s2, waiting <- s3, active <- s4, skip <- s5,
  caches <- s6, tabs <- s7, notification <- s8

Init ==
  \/ program = "chunking" /\ Chunks!Init /\ Zero10
  \/ program = "push" /\ Push!Init
  \/ program = "wordpress-feed" /\ WordPressFeed!Init
  \/ program = "wordpress-embed" /\ WordPressEmbed!Init
  \/ program = "vanilla-embed" /\ VanillaEmbed!Init
  \/ program = "sdk-codec" /\ SdkCodec!Init /\ Zero5
  \/ program = "wordpress-codec" /\ WordPressCodec!Init /\ Zero5
  \/ program = "vanilla-codec" /\ VanillaCodec!Init /\ Zero5
  \/ program = "sdk-dispatch" /\ SdkDispatch!Init /\ Zero14
  \/ program = "light-dispatch" /\ LightDispatch!Init /\ Zero14
  \/ program = "hooks" /\ Hooks!Init /\ Zero10
  \/ program = "chat" /\ Chat!Init /\ Zero13
  \/ program = "chat-shell" /\ ChatShell!Init /\ Zero8
  \/ program = "portal-shell" /\ PortalShell!Init /\ Zero8

Next ==
  \/ program = "chunking" /\ Chunks!Next /\ UNCHANGED <<program, After10>>
  \/ program = "push" /\ Push!Next /\ UNCHANGED program
  \/ program = "wordpress-feed" /\ WordPressFeed!Next /\ UNCHANGED program
  \/ program = "wordpress-embed" /\ WordPressEmbed!Next /\ UNCHANGED program
  \/ program = "vanilla-embed" /\ VanillaEmbed!Next /\ UNCHANGED program
  \/ program = "sdk-codec" /\ SdkCodec!Next /\ UNCHANGED <<program, After5>>
  \/ program = "wordpress-codec" /\ WordPressCodec!Next /\ UNCHANGED <<program, After5>>
  \/ program = "vanilla-codec" /\ VanillaCodec!Next /\ UNCHANGED <<program, After5>>
  \/ program = "sdk-dispatch" /\ SdkDispatch!Next /\ UNCHANGED <<program, After14>>
  \/ program = "light-dispatch" /\ LightDispatch!Next /\ UNCHANGED <<program, After14>>
  \/ program = "hooks" /\ Hooks!Next /\ UNCHANGED <<program, After10>>
  \/ program = "chat" /\ Chat!Next /\ UNCHANGED <<program, After13>>
  \/ program = "chat-shell" /\ ChatShell!Next /\ UNCHANGED <<program, After8>>
  \/ program = "portal-shell" /\ PortalShell!Next /\ UNCHANGED <<program, After8>>

Spec == Init /\ [][Next]_vars

-----------------------------------------------------------------------------
(* Properties, each of the programs that its module is about               *)

\* Handlers are called with whole messages only, or with a mixture of two that were given
\* one id; a message is as it was published unless it has a NUL or was cut inside a code
\* point, and each handler is called with every message whose frames all came in time
\* (chunking.ts, readTrimmed of protocol.ts, dispatch of client.ts).
MessagesArriveWhole ==
  program = "chunking" =>
    Chunks!OnlyWholeMessages /\ Chunks!PlainTextsSurvive /\ Chunks!HeardByEveryHandler

\* After calls made one at a time, a control that says the browser is registered
\* is right, and the server has no row for a dead endpoint it could have deleted
\* (notifications.ts, mio-vapid-subscription.js and the controls).
PushRowsAgree == program = "push" => Push!RegisteredIsReachable /\ Push!NoDeadRows

\* A page that asked for the history and was never cut off misses no message, and a feed
\* that says "Reconnecting" while nothing happens was told that its token is refused, after
\* which it never tries again (onopen and onclose of mio-client.js and of both copies of
\* mio-embed.js).
FeedIsTrue ==
  /\ program = "wordpress-feed" => WordPressFeed!NothingMissed /\ WordPressFeed!ReconnectingIsTrue
  /\ program = "wordpress-embed" => WordPressEmbed!NothingMissed /\ WordPressEmbed!ReconnectingIsTrue
  /\ program = "vanilla-embed" => VanillaEmbed!NothingMissed /\ VanillaEmbed!ReconnectingIsTrue

\* A subscriber hears a publication exactly when its name or pattern covers the
\* channel, and every client writes the same bytes for the same name, torn code
\* points included (protocol.ts, mio-protocol.js and its two copies).
HeardWhenCovered ==
  [][/\ program = "sdk-codec" => SdkCodec!SameBytesEverywhere /\ SdkCodec!HeardWhenCoveredStep
     /\ program = "wordpress-codec" =>
          WordPressCodec!SameBytesEverywhere /\ WordPressCodec!HeardWhenCoveredStep
     /\ program = "vanilla-codec" =>
          VanillaCodec!SameBytesEverywhere /\ VanillaCodec!HeardWhenCoveredStep]_vars

\* A handler that stays registered while a message is dispatched runs once for it,
\* whatever the others subscribe and unsubscribe meanwhile (dispatch of client.ts,
\* _dispatch of mio-client.js and mio-embed.js).
HeardOnce ==
  [][/\ program = "sdk-dispatch" => SdkDispatch!HeardOnceStep
     /\ program = "light-dispatch" => LightDispatch!HeardOnceStep]_vars

\* The buffer of useChannel holds messages of the hook's present channel only.
BufferIsOfItsChannel == program = "hooks" => Hooks!BufferIsOfItsChannel

\* An open client hears exactly the joined channels (useConnection.ts).
SubscribedToJoined == program = "chat" => Chat!SubscribedToJoined

\* No tab runs a bundle older than its service worker, and the worker in charge has
\* the shell of its version (sw.js and main.tsx of both applications).
ShellFollowsDeploys ==
  /\ program = "chat-shell" => ChatShell!NoTabIsLeftBehind /\ ChatShell!ShellIsCached
  /\ program = "portal-shell" => PortalShell!NoTabIsLeftBehind /\ PortalShell!ShellIsCached
=============================================================================
