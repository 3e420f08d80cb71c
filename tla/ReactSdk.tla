------------------------------- MODULE ReactSdk -------------------------------
(***************************************************************************)
(* The React binding of the SDK, and what React Native adds to it: the      *)
(* provider that connects a client, the hook that keeps the messages of a   *)
(* channel, the reconnections on AppState and on the network's return.      *)
(*                                                                         *)
(* React runs the cleanups and the effects of a commit in one piece; the    *)
(* client's own steps (SdkClient) come in between.  connect() does not ask  *)
(* whether a socket is there: it opens another one.                         *)
(***************************************************************************)
EXTENDS Naturals, Sequences, FiniteSets

CONSTANTS
  HookChannel,     \* channels the hook is given
  NullChannel,     \* a channelId that is null or undefined
  MaxHookClients,  \* bound: clients made from a config
  MaxHookSockets,  \* bound: sockets one client is asked for
  HookLimit        \* options.limit

VARIABLES
  owned,           \* the provider was given a config, not a client
  native,          \* the provider of sdk-react-native, with useNetworkReconnect
  mounted,         \* the provider is mounted
  client,          \* the client of the provider
  rt,              \* rt[k]: what is left to know of client k
  connectionState,
  channelProp,     \* the channelId the hook is given
  messages,        \* its buffer: the channel of each message, oldest first
  appState,
  online           \* whether the device has a network

vars == <<owned, native, mounted, client, rt, connectionState, channelProp, messages, appState, online>>

HookClients == 1..MaxHookClients

\* closed: closedByUser; opening: runs of openSocket at their await; socks: the
\* state of every socket; ws: this.ws; heard: channels with a handler of the hook.
NewClient == [closed |-> TRUE, opening |-> 0, timers |-> 0, socks |-> << >>, ws |-> 0, heard |-> {}]

-----------------------------------------------------------------------------
(* Calls of the client (modelled in full by SdkClient)                      *)

Connected(c) == [c EXCEPT !.closed = FALSE, !.opening = @ + 1]

\* The bound on what is asked of a client.
Bounded(c) == c.opening + c.timers + Len(c.socks) <= MaxHookSockets

Live(c) == {i \in DOMAIN c.socks : c.socks[i] \in {"connecting", "open"}}

Disconnected(c) ==
  [c EXCEPT !.closed = TRUE, !.timers = IF @ = 0 THEN 0 ELSE @ - 1, !.ws = 0,
            !.socks = IF c.ws \in Live(c) THEN [@ EXCEPT ![c.ws] = "closing"] ELSE @]

-----------------------------------------------------------------------------
(* Effects                                                                  *)

\* The provider's cleanup, for the client it listens to.
ProviderCleanup(c) == IF owned THEN Disconnected(c) ELSE c

\* The cleanup of useChannel is the Unsubscribe of its handler.
FaultyHookCleanup(c) == c

HookCleanup(c) == [c EXCEPT !.heard = @ \ {channelProp}]

\* The effect of useChannel: the buffer is emptied, and the channel subscribed.
HookEffect(c, ch) == IF ch = NullChannel THEN c ELSE [c EXCEPT !.heard = @ \cup {ch}]

FaultyReset == messages

Reset == << >>

\* All effects of a commit, child first, on client k of clients f.
Effects(f, k, ch) ==
  /\ rt' = [f EXCEPT ![k] = Connected(HookEffect(@, ch))]
  /\ connectionState' = "connecting"
  /\ messages' = Reset
  /\ Bounded(rt'[k])

Cleanups(f) == [f EXCEPT ![client] = ProviderCleanup(HookCleanup(@))]

Init ==
  /\ owned \in BOOLEAN /\ native \in BOOLEAN
  /\ mounted = FALSE /\ client = 1
  /\ rt = [k \in HookClients |-> NewClient]
  /\ connectionState = "idle"
  /\ channelProp = NullChannel /\ messages = << >>
  /\ appState = "active" /\ online = TRUE

-----------------------------------------------------------------------------
(* The application                                                          *)

\* A provider that owns its client makes one for every mount.
Mount ==
  /\ ~mounted
  /\ mounted' = TRUE
  /\ client' = IF owned /\ rt[client] # NewClient THEN client + 1 ELSE client
  /\ client' \in HookClients
  /\ Effects(rt, client', channelProp)
  /\ UNCHANGED <<owned, native, channelProp, appState, online>>

Unmount ==
  /\ mounted
  /\ mounted' = FALSE
  /\ rt' = Cleanups(rt)
  /\ UNCHANGED <<owned, native, client, connectionState, channelProp, messages, appState, online>>

\* Strict Mode runs cleanups and effects once more; client and state stay.
StrictRemount ==
  /\ mounted
  /\ Effects(Cleanups(rt), client, channelProp)
  /\ UNCHANGED <<owned, native, mounted, client, channelProp, appState, online>>

\* Another config object, equal or not: useMemo makes another client.
NewConfig ==
  /\ mounted /\ owned /\ client + 1 \in HookClients
  /\ client' = client + 1
  /\ Effects(Cleanups(rt), client', channelProp)
  /\ UNCHANGED <<owned, native, mounted, channelProp, appState, online>>

\* The component that calls useChannel is rendered with another channelId.
SetChannelProp(ch) ==
  /\ ch # channelProp
  /\ channelProp' = ch
  /\ IF mounted THEN /\ rt' = [rt EXCEPT ![client] = HookEffect(HookCleanup(@), ch)]
                     /\ messages' = Reset
                ELSE UNCHANGED <<rt, messages>>
  /\ UNCHANGED <<owned, native, mounted, client, connectionState, appState, online>>

clear ==
  /\ mounted
  /\ messages' = << >>
  /\ UNCHANGED <<owned, native, mounted, client, rt, connectionState, channelProp, appState, online>>

-----------------------------------------------------------------------------
(* React Native                                                             *)

Behind(s) == s \in {"inactive", "background"}

\* AppStateReconnector listens while the provider is mounted.
AppStateChanges(next) ==
  /\ native /\ next # appState
  /\ appState' = next
  /\ rt' = IF ~mounted THEN rt
           ELSE IF Behind(appState) /\ next = "active" THEN [rt EXCEPT ![client] = Connected(@)]
           ELSE IF ~Behind(appState) /\ Behind(next) THEN [rt EXCEPT ![client] = Disconnected(@)]
           ELSE rt
  /\ Bounded(rt'[client])
  /\ UNCHANGED <<owned, native, mounted, client, connectionState, channelProp, messages, online>>

\* useNetworkReconnect: connect() when the network comes back.
NetworkChanges ==
  /\ native
  /\ online' = ~online
  /\ rt' = IF mounted /\ ~online THEN [rt EXCEPT ![client] = Connected(@)] ELSE rt
  /\ Bounded(rt'[client])
  /\ UNCHANGED <<owned, native, mounted, client, connectionState, channelProp, messages, appState>>

-----------------------------------------------------------------------------
(* The client's steps                                                       *)

\* The provider's listeners are on the client it has.
Hears(k) == mounted /\ k = client

Emit(k, state) == connectionState' = IF Hears(k) THEN state ELSE connectionState

\* openSocket after its await, and the reconnect timer.
Opened(c) ==
  IF c.closed THEN [c EXCEPT !.opening = @ - 1]
  ELSE [c EXCEPT !.opening = @ - 1, !.socks = Append(@, "connecting"), !.ws = Len(c.socks) + 1]

Retried(c) ==
  IF c.closed THEN [c EXCEPT !.timers = @ - 1] ELSE [c EXCEPT !.timers = @ - 1, !.opening = @ + 1]

Closed(c, i) ==
  [c EXCEPT !.socks[i] = "closed", !.ws = 0, !.timers = IF c.closed THEN @ ELSE @ + 1]

OpenSocket(k) ==
  /\ rt[k].opening > 0
  /\ rt' = [rt EXCEPT ![k] = Opened(@)]
  /\ UNCHANGED <<owned, native, mounted, client, connectionState, channelProp, messages, appState, online>>

TimerFires(k) ==
  /\ rt[k].timers > 0
  /\ rt' = [rt EXCEPT ![k] = Retried(@)]
  /\ UNCHANGED <<owned, native, mounted, client, connectionState, channelProp, messages, appState, online>>

\* "open" and "authenticated"; when this.ws is not open the first send throws.
SocketOpens(k, i) ==
  /\ online /\ i \in DOMAIN rt[k].socks /\ rt[k].socks[i] = "connecting"
  /\ rt' = [rt EXCEPT ![k].socks[i] = "open"]
  /\ IF rt'[k].ws # 0 /\ rt'[k].socks[rt'[k].ws] = "open" THEN Emit(k, "open")
                                                          ELSE UNCHANGED connectionState
  /\ UNCHANGED <<owned, native, mounted, client, channelProp, messages, appState, online>>

SocketErrors(k, i) ==
  /\ i \in Live(rt[k])
  /\ Emit(k, "error")
  /\ UNCHANGED <<owned, native, mounted, client, rt, channelProp, messages, appState, online>>

SocketCloses(k, i) ==
  /\ i \in DOMAIN rt[k].socks /\ rt[k].socks[i] # "closed"
  /\ rt' = [rt EXCEPT ![k] = Closed(@, i)]
  /\ Bounded(rt'[k])
  /\ Emit(k, "closed")
  /\ UNCHANGED <<owned, native, mounted, client, channelProp, messages, appState, online>>

\* The last HookLimit messages of a buffer.
Limited(next) ==
  IF Len(next) > HookLimit THEN SubSeq(next, Len(next) - HookLimit + 1, Len(next)) ELSE next

\* A message of ch arrives on a socket; the handler appends it to the buffer.
Message(k, ch) ==
  /\ ch \in rt[k].heard /\ \E i \in DOMAIN rt[k].socks : rt[k].socks[i] = "open"
  /\ mounted
  /\ messages' = Limited(Append(messages, ch))
  /\ UNCHANGED <<owned, native, mounted, client, rt, connectionState, channelProp, appState, online>>

Next ==
  \/ Mount \/ Unmount \/ StrictRemount \/ NewConfig \/ clear \/ NetworkChanges
  \/ \E ch \in HookChannel \cup {NullChannel} : SetChannelProp(ch)
  \/ \E s \in {"active", "inactive", "background"} : AppStateChanges(s)
  \/ \E k \in HookClients : OpenSocket(k) \/ TimerFires(k)
  \/ \E k \in HookClients, i \in 1..MaxHookSockets :
       SocketOpens(k, i) \/ SocketErrors(k, i) \/ SocketCloses(k, i)
  \/ \E k \in HookClients, ch \in HookChannel : Message(k, ch)

Spec == Init /\ [][Next]_vars

-----------------------------------------------------------------------------
(* Properties                                                               *)

\* The buffer holds messages of the channel the hook has now and no others, over any
\* sequence of new channels, new clients and remounts: useChannel "se désabonne et
\* vide le buffer à chaque changement de channelId" (hooks.ts:81).
BufferIsOfItsChannel ==
  mounted => \A n \in DOMAIN messages : messages[n] = channelProp

\* A client that is reused between remounts, "ex. React Strict Mode, navigation
\* d'écran RN" (RealtimeContext.tsx:39-40), has one connection at a time.
\* The code breaks it (README, Findings).
RemountsShareASocket == \A k \in HookClients : Cardinality(Live(rt[k])) <= 1

\* In the background the application is not connected (RealtimeProvider.tsx:11-16).
\* The code breaks it (README, Findings).
QuietInBackground == native /\ mounted /\ Behind(appState) => Live(rt[client]) = {}
=============================================================================
