-------------------------- MODULE ClientSideProofs --------------------------
(***************************************************************************)
(* What runs in the browser of an end user, for every number of channels,  *)
(* clients, tabs, versions, messages and calls.  One section per program;  *)
(* each starts with the names its module gives to the variables it needs.  *)
(***************************************************************************)
EXTENDS ClientSide, Sequences, WellFoundedInduction, TLAPS

-----------------------------------------------------------------------------
(* Programs                                                                *)

\* The program that was chosen keeps running.
LEMMA SameProgram == [Next]_vars => program' = program
BY DEF Next, vars

-----------------------------------------------------------------------------
(* WebChat                                                                 *)

connStatus   == s1
activeClient == s2
conn         == s4
chatHandlers == s5
live         == s6
channelIds   == s7

USE DEF connStatus, activeClient, conn, chatHandlers, live, channelIds

\* The client in use is trying or open, the others are on their way out, and the status
\* says "open" only while the client in use is.
ConnInv ==
  /\ conn \in [Chat!Clients -> {"none", "connecting", "open", "retry", "closing", "dead"}]
  /\ activeClient \in Chat!Clients \cup {0}
  /\ activeClient # 0 => conn[activeClient] \in {"connecting", "open", "retry"}
  /\ \A k \in Chat!Clients : k # activeClient => conn[k] \in {"none", "closing", "dead"}
  /\ connStatus = "open" => activeClient # 0 /\ conn[activeClient] = "open"

\* A client that was not made has no handler.  liveSubscriptions has entries of joined
\* channels only, and each handler on the client in use has its entry.
LiveInv ==
  /\ DOMAIN chatHandlers = Chat!Clients
  /\ \A k \in Chat!Clients : conn[k] = "none" => chatHandlers[k] = {}
  /\ DOMAIN live \subseteq channelIds
  /\ activeClient # 0 =>
       \A c \in chatHandlers[activeClient] : c \in DOMAIN live /\ live[c] = activeClient
  /\ Chat!SubscribedToJoined

ChatInv == ConnInv /\ LiveInv

\* There is no client at first.
LEMMA ChatStart == Chat!Init => ChatInv
BY DEF Chat!Init, ChatInv, ConnInv, LiveInv, Chat!SubscribedToJoined

\* The events of sockets, and what useConnection does when the status becomes "open".
LEMMA SocketStep ==
  ASSUME ChatInv, NEW k \in Chat!Clients,
         Chat!OnOpen(k) \/ Chat!OnClose(k) \/ Chat!OnError(k) \/ Chat!Reconnect(k)
  PROVE  ChatInv'
<1>1. activeClient' = activeClient /\ channelIds' = channelIds
  BY DEF Chat!OnOpen, Chat!OnClose, Chat!OnError, Chat!Reconnect, Chat!chat
<1>2. k \in Chat!Clients /\ 0 \notin Chat!Clients
  BY DEF Chat!Clients
<1>3. CASE Chat!OnOpen(k)
  <2>1. k = activeClient /\ conn[k] = "connecting" /\ connStatus # "open"
    BY <1>3 DEF Chat!OnOpen, ChatInv, ConnInv
  <2>2. /\ connStatus' = "open" /\ conn' = [conn EXCEPT ![k] = "open"]
        /\ live' = [c \in channelIds |-> k]
        /\ chatHandlers' = [j \in Chat!Clients |-> IF j = k THEN chatHandlers[j] \cup channelIds
                                                            ELSE chatHandlers[j]]
    BY <1>3, <2>1 DEF Chat!OnOpen, Chat!SetStatus, Chat!rehydrateSubscriptions, Chat!subscribeToChannels
  <2>3. chatHandlers[k] \subseteq channelIds
    BY <1>2, <2>1 DEF ChatInv, LiveInv
  <2>4. ConnInv'
    BY <1>1, <1>2, <2>1, <2>2 DEF ChatInv, ConnInv
  <2>5. LiveInv'
    BY <1>1, <1>2, <2>1, <2>2, <2>3 DEF ChatInv, ConnInv, LiveInv, Chat!SubscribedToJoined
  <2> QED BY <2>4, <2>5 DEF ChatInv
<1>4. CASE ~Chat!OnOpen(k)
  <2>1. live' = live /\ chatHandlers' = chatHandlers
    BY <1>4 DEF Chat!OnClose, Chat!OnError, Chat!Reconnect, Chat!SetStatus
  <2>2. /\ DOMAIN conn' = DOMAIN conn
        /\ \A j \in Chat!Clients : j # k => conn'[j] = conn[j]
        /\ \/ conn' = conn
           \/ conn[k] \in {"connecting", "open"} /\ conn'[k] = "retry"
           \/ conn[k] = "closing" /\ conn'[k] = "dead"
           \/ conn[k] = "retry" /\ conn'[k] = "connecting"
    BY <1>2, <1>4 DEF Chat!OnClose, Chat!OnError, Chat!Reconnect, ChatInv, ConnInv
  <2>3. connStatus' # "open" \/ (connStatus' = connStatus /\ conn[k] = "retry")
    BY <1>4 DEF Chat!OnClose, Chat!OnError, Chat!Reconnect, Chat!SetStatus
  <2>4. conn' \in [Chat!Clients -> {"none", "connecting", "open", "retry", "closing", "dead"}]
    <3>1. \A j \in Chat!Clients : conn'[j] \in {"none", "connecting", "open", "retry", "closing", "dead"}
      BY <2>2 DEF ChatInv, ConnInv
    <3>2. conn' = [j \in Chat!Clients |-> conn'[j]]
      BY <1>4 DEF Chat!OnClose, Chat!OnError, Chat!Reconnect, ChatInv, ConnInv
    <3> QED BY <3>1, <3>2
  <2>5. ConnInv'
    BY <1>1, <1>2, <2>2, <2>3, <2>4 DEF ChatInv, ConnInv
  <2>6. LiveInv'
    BY <1>1, <1>2, <2>1, <2>2 DEF ChatInv, LiveInv, Chat!SubscribedToJoined, ConnInv
  <2> QED BY <2>5, <2>6 DEF ChatInv
<1> QED BY <1>3, <1>4

\* Connecting anew, disconnecting and reloading the page.
LEMMA ClientStep ==
  ASSUME ChatInv, Chat!ConnectPage \/ Chat!disconnect \/ Chat!Reload
  PROVE  ChatInv'
<1>1. 0 \notin Chat!Clients
  BY DEF Chat!Clients
<1>2. CASE Chat!ConnectPage
  <2>1. PICK k \in Chat!Clients : /\ conn[k] = "none" /\ activeClient' = k
                                  /\ conn' = [Chat!Dropped EXCEPT ![k] = "connecting"]
    BY <1>2 DEF Chat!ConnectPage, Chat!connect
  <2>2. /\ connStatus' = "connecting" /\ live' = live /\ chatHandlers' = chatHandlers
        /\ channelIds' = channelIds
    BY <1>2 DEF Chat!ConnectPage, Chat!connect, Chat!chat
  <2>3. k # activeClient
    BY <1>1, <2>1 DEF ChatInv, ConnInv
  <2>4. conn' \in [Chat!Clients -> {"none", "connecting", "open", "retry", "closing", "dead"}]
    BY <2>1 DEF ChatInv, ConnInv, Chat!Dropped, Chat!Ended
  <2>5. /\ conn'[k] = "connecting"
        /\ \A j \in Chat!Clients \ {k} : \/ conn'[j] = conn[j] /\ j # activeClient
                                         \/ conn'[j] \in {"closing", "dead"}
    BY <2>1 DEF Chat!Dropped, Chat!Ended
  <2>6. ConnInv'
    BY <1>1, <2>1, <2>2, <2>3, <2>4, <2>5 DEF ChatInv, ConnInv
  <2>7. chatHandlers[k] = {}
    BY <2>1 DEF ChatInv, LiveInv
  <2>8. LiveInv'
    BY <2>1, <2>2, <2>3, <2>5, <2>7 DEF ChatInv, LiveInv, Chat!SubscribedToJoined
  <2> QED BY <2>6, <2>8 DEF ChatInv
<1>3. CASE Chat!disconnect
  <2>1. /\ connStatus' = "idle" /\ activeClient' = 0 /\ conn' = Chat!Dropped
        /\ live' = live /\ chatHandlers' = chatHandlers /\ channelIds' = channelIds
    BY <1>3 DEF Chat!disconnect, Chat!chat
  <2>2. /\ conn' \in [Chat!Clients -> {"none", "connecting", "open", "retry", "closing", "dead"}]
        /\ \A j \in Chat!Clients : \/ conn'[j] = conn[j] /\ j # activeClient
                                   \/ conn'[j] \in {"closing", "dead"}
    BY <2>1 DEF ChatInv, ConnInv, Chat!Dropped, Chat!Ended
  <2> QED BY <1>1, <2>1, <2>2 DEF ChatInv, ConnInv, LiveInv, Chat!SubscribedToJoined
<1>4. CASE Chat!Reload
  <2>1. /\ connStatus' = "idle" /\ activeClient' = 0 /\ channelIds' = channelIds
        /\ conn' = [k \in Chat!Clients |-> IF conn[k] = "none" THEN "none" ELSE "dead"]
        /\ live' = << >> /\ chatHandlers' = [k \in Chat!Clients |-> {}]
    BY <1>4 DEF Chat!Reload
  <2> QED BY <1>1, <2>1 DEF ChatInv, ConnInv, LiveInv, Chat!SubscribedToJoined
<1> QED BY <1>2, <1>3, <1>4

\* Joining and leaving a channel.
LEMMA ChannelStep ==
  ASSUME ChatInv, NEW c, Chat!JoinForm(c) \/ Chat!ChannelRow(c)
  PROVE  ChatInv'
<1>1. /\ 0 \notin Chat!Clients /\ ConnInv /\ LiveInv /\ activeClient \in Chat!Clients \cup {0}
  BY DEF Chat!Clients, ChatInv, ConnInv
<1>2. UNCHANGED <<connStatus, activeClient, conn>>
  BY DEF Chat!JoinForm, Chat!ChannelRow, Chat!joinChannel, Chat!setActiveChannel, Chat!leaveChannel
<1>3. ConnInv'
  BY <1>2 DEF ChatInv, ConnInv
<1>4. CASE UNCHANGED <<live, chatHandlers, channelIds>>
  BY <1>2, <1>3, <1>4 DEF ChatInv, LiveInv, Chat!SubscribedToJoined
<1>5. CASE Chat!joinChannel(c) /\ c \notin channelIds
  <2>1. /\ c \notin DOMAIN live /\ channelIds' = channelIds \cup {c}
        /\ live' = [d \in {c} \cup DOMAIN live |-> IF d = c THEN activeClient ELSE live[d]]
        /\ chatHandlers' = [k \in Chat!Clients |-> IF k = activeClient THEN chatHandlers[k] \cup {c}
                                                                     ELSE chatHandlers[k]]
    <3>1. c \notin DOMAIN live
      BY <1>1, <1>5 DEF LiveInv
    <3>2. {c} \ DOMAIN live = {c}
      BY <3>1
    <3>3. channelIds' = channelIds \cup {c} /\ Chat!subscribeToChannels({c}, live)
      BY <1>5 DEF Chat!joinChannel
    <3> QED BY <3>1, <3>2, <3>3 DEF Chat!subscribeToChannels
  <2>2. \A k \in Chat!Clients : conn[k] = "none" => k # activeClient
    BY <1>1 DEF ConnInv
  <2>3. LiveInv'
    BY <1>1, <1>2, <2>1, <2>2 DEF LiveInv, Chat!SubscribedToJoined
  <2> QED BY <1>3, <2>3 DEF ChatInv
<1>6. CASE Chat!leaveChannel(c) /\ c \in channelIds
  <2>1. /\ channelIds' = channelIds \ {c} /\ live' = [d \in DOMAIN live \ {c} |-> live[d]]
        /\ chatHandlers' = [k \in Chat!Clients |-> IF c \in DOMAIN live /\ k = live[c] THEN chatHandlers[k] \ {c}
                                                                                 ELSE chatHandlers[k]]
    BY <1>6 DEF Chat!leaveChannel
  <2>2. activeClient # 0 => chatHandlers'[activeClient] = chatHandlers[activeClient] \ {c}
    BY <1>1, <2>1 DEF LiveInv
  <2>3. \A k \in Chat!Clients : chatHandlers'[k] \subseteq chatHandlers[k]
    BY <2>1
  <2>4. LiveInv'
    BY <1>1, <1>2, <2>1, <2>2, <2>3 DEF LiveInv, Chat!SubscribedToJoined
  <2> QED BY <1>3, <2>4 DEF ChatInv
<1> QED
  BY <1>4, <1>5, <1>6 DEF Chat!JoinForm, Chat!ChannelRow, Chat!joinChannel, Chat!setActiveChannel

\* Every step of the application, its sockets and its visitor keeps the invariant.
LEMMA ChatStep == ChatInv /\ Chat!Next => ChatInv'
<1> SUFFICES ASSUME ChatInv, Chat!Next PROVE ChatInv'
  OBVIOUS
<1>1. ASSUME UNCHANGED <<s1, s2, s4, s5, s6, s7>> PROVE ChatInv'
  BY <1>1 DEF ChatInv, ConnInv, LiveInv, Chat!SubscribedToJoined
<1>2. ASSUME \/ Chat!NotificationBell \/ Chat!MessageInput \/ (\E r : Chat!Navigate(r))
             \/ (\E k, c : Chat!handleIncoming(k, c))
      PROVE  UNCHANGED <<s1, s2, s4, s5, s6, s7>>
  BY <1>2 DEF Chat!NotificationBell, Chat!markAllRead, Chat!MessageInput, Chat!sendMessage, Chat!Navigate,
              Chat!handleIncoming, Chat!chat
<1> QED BY <1>1, <1>2, SocketStep, ClientStep, ChannelStep DEF Chat!Next

\* An open client hears exactly the joined channels, each through one handler, after any
\* sequence of joining, leaving, reconnecting, connecting anew and reloading, with events
\* of clients that were given up in between (useConnection.ts).
THEOREM OpenClientHearsJoined == Spec => []SubscribedToJoined
<1> DEFINE Inv == program = "chat" => ChatInv
<1>1. Init => Inv
  BY ChatStart DEF Init
<1>2. Inv /\ [Next]_vars => Inv'
  <2>1. ASSUME Inv, [Next]_vars, program = "chat" PROVE ChatInv'
    <3>1. CASE Chat!Next
      BY <2>1, <3>1, ChatStep
    <3>2. CASE UNCHANGED vars
      BY <2>1, <3>2 DEF vars, ChatInv, ConnInv, LiveInv, Chat!SubscribedToJoined
    <3> QED BY <2>1, <3>1, <3>2 DEF Next
  <2> QED BY <2>1, SameProgram
<1>3. Inv => SubscribedToJoined
  BY DEF SubscribedToJoined, ChatInv, LiveInv
<1> QED BY <1>1, <1>2, <1>3, PTL DEF Spec

-----------------------------------------------------------------------------
(* ReactSdk                                                                *)

mounted     == s3
client      == s4
rt          == s5
channelProp == s7
messages    == s8

USE DEF mounted, client, rt, channelProp, messages

\* The hook has a handler on the provider's client only, and only under its present
\* channel; what is in the buffer came through it.
HooksInv ==
  /\ mounted => client \in Hooks!HookClients
  /\ DOMAIN rt = Hooks!HookClients
  /\ \A k \in Hooks!HookClients :
       /\ "heard" \in DOMAIN rt[k]
       /\ rt[k].heard \subseteq IF mounted /\ k = client THEN {channelProp} ELSE {}
  /\ messages \in Seq(HookChannel)
  /\ Hooks!BufferIsOfItsChannel

\* No client has been used at first.
LEMMA HooksStart == Hooks!Init => HooksInv
BY DEF Hooks!Init, HooksInv, Hooks!NewClient, Hooks!BufferIsOfItsChannel

\* What the calls of a client leave of the hook's handlers.
LEMMA HeardAfter ==
  ASSUME NEW c, "heard" \in DOMAIN c, NEW ch
  PROVE  /\ Hooks!Connected(c).heard = c.heard /\ "heard" \in DOMAIN Hooks!Connected(c)
         /\ Hooks!Disconnected(c).heard = c.heard /\ "heard" \in DOMAIN Hooks!Disconnected(c)
         /\ Hooks!ProviderCleanup(c).heard = c.heard /\ "heard" \in DOMAIN Hooks!ProviderCleanup(c)
         /\ Hooks!HookCleanup(c).heard = c.heard \ {channelProp} /\ "heard" \in DOMAIN Hooks!HookCleanup(c)
         /\ Hooks!HookEffect(c, ch).heard \subseteq c.heard \cup {ch} /\ "heard" \in DOMAIN Hooks!HookEffect(c, ch)
<1>1. Hooks!Connected(c).heard = c.heard /\ "heard" \in DOMAIN Hooks!Connected(c)
  BY DEF Hooks!Connected
<1>2. Hooks!Disconnected(c).heard = c.heard /\ "heard" \in DOMAIN Hooks!Disconnected(c)
  BY DEF Hooks!Disconnected
<1>3. Hooks!ProviderCleanup(c).heard = c.heard /\ "heard" \in DOMAIN Hooks!ProviderCleanup(c)
  BY <1>2 DEF Hooks!ProviderCleanup
<1>4. Hooks!HookCleanup(c).heard = c.heard \ {channelProp} /\ "heard" \in DOMAIN Hooks!HookCleanup(c)
  BY DEF Hooks!HookCleanup
<1>5. Hooks!HookEffect(c, ch).heard \subseteq c.heard \cup {ch} /\ "heard" \in DOMAIN Hooks!HookEffect(c, ch)
  BY DEF Hooks!HookEffect
<1> QED BY <1>1, <1>2, <1>3, <1>4, <1>5

\* Cleanups leave no handler of the hook on any client.
LEMMA CleanedUp ==
  ASSUME HooksInv, mounted
  PROVE  /\ DOMAIN Hooks!Cleanups(rt) = Hooks!HookClients
         /\ \A k \in Hooks!HookClients : "heard" \in DOMAIN Hooks!Cleanups(rt)[k] /\ Hooks!Cleanups(rt)[k].heard = {}
<1>1. client \in Hooks!HookClients /\ "heard" \in DOMAIN rt[client] /\ rt[client].heard \subseteq {channelProp}
  BY DEF HooksInv
<1>2. PICK d : d = Hooks!ProviderCleanup(Hooks!HookCleanup(rt[client]))
  OBVIOUS
<1>3. d.heard = {} /\ "heard" \in DOMAIN d
  BY <1>1, <1>2, HeardAfter
<1>4. Hooks!Cleanups(rt) = [rt EXCEPT ![client] = d]
  BY <1>2 DEF Hooks!Cleanups
<1> QED BY <1>1, <1>3, <1>4 DEF HooksInv

\* Effects of a commit, on clients without handlers of the hook.
LEMMA EffectsStep ==
  ASSUME HooksInv, mounted', channelProp' = channelProp, client' \in Hooks!HookClients,
         NEW f, DOMAIN f = Hooks!HookClients,
         \A k \in Hooks!HookClients : "heard" \in DOMAIN f[k] /\ f[k].heard = {},
         Hooks!Effects(f, client', channelProp)
  PROVE  HooksInv'
<1>1. PICK d : d = Hooks!Connected(Hooks!HookEffect(f[client'], channelProp))
  OBVIOUS
<1>2. d.heard \subseteq {channelProp} /\ "heard" \in DOMAIN d
  BY <1>1, HeardAfter
<1>3. rt' = [f EXCEPT ![client'] = d] /\ messages' = << >>
  BY <1>1 DEF Hooks!Effects, Hooks!Reset
<1> QED BY <1>2, <1>3 DEF HooksInv, Hooks!BufferIsOfItsChannel

\* Steps of one client that leave the handlers of the hook alone.
LEMMA OneClientStep ==
  ASSUME HooksInv, UNCHANGED <<mounted, client, channelProp, messages>>,
         NEW k, NEW d, "heard" \in DOMAIN d, d.heard = rt[k].heard,
         rt' = [rt EXCEPT ![k] = d]
  PROVE  HooksInv'
BY DEF HooksInv, Hooks!BufferIsOfItsChannel

\* Every commit, every step of a client and every message keeps the invariant.
LEMMA HooksStep == HooksInv /\ Hooks!Next => HooksInv'
<1> SUFFICES ASSUME HooksInv, Hooks!Next PROVE HooksInv'
  OBVIOUS
<1>1. ASSUME UNCHANGED <<s3, s4, s5, s7, s8>> PROVE HooksInv'
  BY <1>1 DEF HooksInv, Hooks!BufferIsOfItsChannel
<1>2. CASE Hooks!Mount
  <2>1. /\ ~mounted /\ mounted' /\ channelProp' = channelProp /\ client' \in Hooks!HookClients
        /\ Hooks!Effects(rt, client', channelProp)
    BY <1>2 DEF Hooks!Mount
  <2>2. \A k \in Hooks!HookClients : "heard" \in DOMAIN rt[k] /\ rt[k].heard = {}
    BY <2>1 DEF HooksInv
  <2>3. DOMAIN rt = Hooks!HookClients
    BY DEF HooksInv
  <2> QED BY <2>1, <2>2, <2>3, EffectsStep
<1>3. CASE Hooks!Unmount
  <2>1. mounted /\ mounted' = FALSE /\ rt' = Hooks!Cleanups(rt) /\ messages' = messages
    BY <1>3 DEF Hooks!Unmount
  <2> QED BY <2>1, CleanedUp DEF HooksInv, Hooks!BufferIsOfItsChannel
<1>4. CASE Hooks!StrictRemount \/ Hooks!NewConfig
  <2>1. /\ mounted /\ mounted' = mounted /\ channelProp' = channelProp /\ client' \in Hooks!HookClients
        /\ Hooks!Effects(Hooks!Cleanups(rt), client', channelProp)
    BY <1>4 DEF Hooks!StrictRemount, Hooks!NewConfig, HooksInv
  <2>2. PICK f : f = Hooks!Cleanups(rt)
    OBVIOUS
  <2> QED BY <2>1, <2>2, CleanedUp, EffectsStep
<1>5. ASSUME NEW ch, Hooks!SetChannelProp(ch) PROVE HooksInv'
  <2>1. channelProp' = ch /\ UNCHANGED <<mounted, client>>
    BY <1>5 DEF Hooks!SetChannelProp
  <2>2. CASE ~mounted
    BY <1>5, <2>1, <2>2 DEF Hooks!SetChannelProp, HooksInv, Hooks!BufferIsOfItsChannel
  <2>3. CASE mounted
    <3>1. PICK d : d = Hooks!HookEffect(Hooks!HookCleanup(rt[client]), ch)
      OBVIOUS
    <3>2. client \in Hooks!HookClients /\ "heard" \in DOMAIN rt[client] /\ rt[client].heard \subseteq {channelProp}
      BY <2>3 DEF HooksInv
    <3>3. d.heard \subseteq {ch} /\ "heard" \in DOMAIN d
      BY <3>1, <3>2, HeardAfter
    <3>4. rt' = [rt EXCEPT ![client] = d] /\ messages' = << >>
      BY <1>5, <2>3, <3>1 DEF Hooks!SetChannelProp, Hooks!Reset
    <3> QED BY <2>1, <2>3, <3>2, <3>3, <3>4 DEF HooksInv, Hooks!BufferIsOfItsChannel
  <2> QED BY <2>2, <2>3
<1>6. CASE Hooks!clear
  BY <1>6 DEF Hooks!clear, HooksInv, Hooks!BufferIsOfItsChannel
<1>7. ASSUME Hooks!NetworkChanges \/ (\E s : Hooks!AppStateChanges(s)) PROVE HooksInv'
  <2>1. UNCHANGED <<mounted, client, channelProp, messages>>
    BY <1>7 DEF Hooks!NetworkChanges, Hooks!AppStateChanges
  <2>2. \/ rt' = rt
        \/ mounted /\ \E d \in {Hooks!Connected(rt[client]), Hooks!Disconnected(rt[client])} :
             rt' = [rt EXCEPT ![client] = d]
    BY <1>7 DEF Hooks!NetworkChanges, Hooks!AppStateChanges
  <2>3. mounted => client \in Hooks!HookClients /\ "heard" \in DOMAIN rt[client]
    BY DEF HooksInv
  <2> QED BY <1>1, <2>1, <2>2, <2>3, HeardAfter, OneClientStep
<1>8. ASSUME NEW k \in Hooks!HookClients, Hooks!OpenSocket(k) \/ Hooks!TimerFires(k) PROVE HooksInv'
  <2>1. UNCHANGED <<mounted, client, channelProp, messages>> /\ "heard" \in DOMAIN rt[k]
    BY <1>8 DEF Hooks!OpenSocket, Hooks!TimerFires, HooksInv
  <2>2. PICK d : /\ d \in {Hooks!Opened(rt[k]), Hooks!Retried(rt[k])}
                 /\ rt' = [rt EXCEPT ![k] = d]
    BY <1>8 DEF Hooks!OpenSocket, Hooks!TimerFires
  <2>3. "heard" \in DOMAIN d /\ d.heard = rt[k].heard
    BY <2>1, <2>2 DEF Hooks!Opened, Hooks!Retried
  <2> QED BY <2>1, <2>2, <2>3, OneClientStep
<1>9. ASSUME NEW k \in Hooks!HookClients, NEW i,
             Hooks!SocketOpens(k, i) \/ Hooks!SocketErrors(k, i) \/ Hooks!SocketCloses(k, i)
      PROVE  HooksInv'
  <2>1. UNCHANGED <<mounted, client, channelProp, messages>> /\ "heard" \in DOMAIN rt[k]
    BY <1>9 DEF Hooks!SocketOpens, Hooks!SocketErrors, Hooks!SocketCloses, HooksInv
  <2>2. CASE Hooks!SocketErrors(k, i)
    BY <1>1, <2>1, <2>2 DEF Hooks!SocketErrors
  <2>3. CASE Hooks!SocketOpens(k, i)
    <3>1. PICK d : d = [rt[k] EXCEPT !.socks[i] = "open"]
      OBVIOUS
    <3>2. rt' = [rt EXCEPT ![k] = d]
      BY <2>3, <3>1 DEF Hooks!SocketOpens, HooksInv
    <3>3. "heard" \in DOMAIN d /\ d.heard = rt[k].heard
      BY <2>1, <3>1
    <3> QED BY <2>1, <3>2, <3>3, OneClientStep
  <2>4. CASE Hooks!SocketCloses(k, i)
    <3>1. PICK d : d = Hooks!Closed(rt[k], i)
      OBVIOUS
    <3>2. rt' = [rt EXCEPT ![k] = d]
      BY <2>4, <3>1 DEF Hooks!SocketCloses
    <3>3. "heard" \in DOMAIN d /\ d.heard = rt[k].heard
      BY <2>1, <3>1 DEF Hooks!Closed
    <3> QED BY <2>1, <3>2, <3>3, OneClientStep
  <2> QED BY <1>9, <2>2, <2>3, <2>4
<1>10. ASSUME NEW k \in Hooks!HookClients, NEW ch \in HookChannel, Hooks!Message(k, ch) PROVE HooksInv'
  <2>1. /\ mounted /\ ch = channelProp /\ messages' = Hooks!Limited(Append(messages, ch))
        /\ UNCHANGED <<mounted, client, rt, channelProp>>
    BY <1>10 DEF Hooks!Message, HooksInv
  <2>2. PICK all : all = Append(messages, ch)
    OBVIOUS
  <2>3. all \in Seq(HookChannel) /\ \A n \in DOMAIN all : all[n] = channelProp
    BY <2>1, <2>2 DEF HooksInv, Hooks!BufferIsOfItsChannel
  <2>4. messages' \in Seq(HookChannel) /\ \A n \in DOMAIN messages' : messages'[n] = channelProp
    <3>1. HookLimit \in Nat /\ messages' = Hooks!Limited(all)
      BY <2>1, <2>2, ClientSideAssumption
    <3>2. CASE Len(all) > HookLimit
      <4>1. PICK p \in 1..Len(all) + 1 : p = Len(all) - HookLimit + 1
        <5>1. PICK len \in Nat : len = Len(all)
          BY <2>3
        <5>2. len - HookLimit + 1 \in 1..len + 1
          BY <3>1, <3>2, <5>1
        <5> QED BY <5>1, <5>2
      <4>2. messages' = SubSeq(all, p, Len(all))
        BY <3>1, <3>2, <4>1 DEF Hooks!Limited
      <4>3. PICK b : b = SubSeq(all, p, Len(all))
        OBVIOUS
      <4>4. b \in Seq(HookChannel)
        BY <2>3, <4>1, <4>3
      <4>5. \A n \in DOMAIN b : p + n - 1 \in DOMAIN all /\ b[n] = all[p + n - 1]
        BY <2>3, <4>1, <4>3
      <4> QED BY <2>3, <4>2, <4>3, <4>4, <4>5
    <3>3. CASE ~(Len(all) > HookLimit)
      BY <2>3, <3>1, <3>3 DEF Hooks!Limited
    <3> QED BY <3>2, <3>3
  <2> QED BY <2>1, <2>4 DEF HooksInv, Hooks!BufferIsOfItsChannel
<1> QED BY <1>2, <1>3, <1>4, <1>5, <1>6, <1>7, <1>8, <1>9, <1>10 DEF Hooks!Next

\* The buffer of useChannel holds messages of the hook's present channel only, over any
\* sequence of new channels, new clients and remounts (hooks.ts).
THEOREM BuffersAreOfTheirChannel == Spec => []BufferIsOfItsChannel
<1> DEFINE Inv == program = "hooks" => HooksInv
<1>1. Init => Inv
  BY HooksStart DEF Init
<1>2. Inv /\ [Next]_vars => Inv'
  <2>1. ASSUME Inv, [Next]_vars, program = "hooks" PROVE HooksInv'
    <3>1. CASE Hooks!Next
      BY <2>1, <3>1, HooksStep
    <3>2. CASE UNCHANGED vars
      BY <2>1, <3>2 DEF vars, HooksInv, Hooks!BufferIsOfItsChannel
    <3> QED BY <2>1, <3>1, <3>2 DEF Next
  <2> QED BY <2>1, SameProgram
<1>3. Inv => BufferIsOfItsChannel
  BY DEF BufferIsOfItsChannel, HooksInv
<1> QED BY <1>1, <1>2, <1>3, PTL DEF Spec

-----------------------------------------------------------------------------
(* AppShell                                                                *)

deployed   == s1
installing == s2
waiting    == s3
active     == s4
caches     == s6
tabs       == s7

USE DEF deployed, installing, waiting, active, caches, tabs

Tabs == [page : Nat, controller : Nat, registered : BOOLEAN, heard : Nat, toast : Nat, reloading : BOOLEAN]

\* No worker is newer than what is deployed.
VersionsInv ==
  /\ deployed \in 1..MaxVersion
  /\ installing \in 0..deployed /\ waiting \in 0..deployed /\ active \in 0..deployed

\* The worker that waits and the one in charge have the shell, at least of their version,
\* and no cache is left that is older than the worker in charge.
CachesInv ==
  /\ caches \in [ChatShell!Names -> Nat]
  /\ waiting # 0 => caches[CacheName[waiting]] >= waiting
  /\ ChatShell!ShellIsCached
  /\ active # 0 => \A n \in ChatShell!Names : caches[n] = 0 \/ caches[n] >= active

ShellInv ==
  /\ VersionsInv /\ CachesInv
  /\ tabs \in [Tab -> Tabs] /\ ChatShell!NoTabIsLeftBehind

\* Nothing is installed at first.
LEMMA ShellStart == ChatShell!Init => ShellInv
BY ClientSideAssumption
   DEF ChatShell!Init, ShellInv, VersionsInv, CachesInv, Tabs, ChatShell!ShellIsCached,
       ChatShell!NoTabIsLeftBehind, ChatShell!Closed, ChatShell!Open

\* A nonempty set of numbers has a least one.
LEMMA LeastOf ==
  ASSUME NEW T \in SUBSET Nat, T # {}
  PROVE  \E n \in T : \A m \in T : n <= m
<1>1. \E x \in T : \A y \in T : ~(<<y, x>> \in OpToRel(<, Nat))
  BY NatLessThanWellFounded, WFMin, Zenon
<1>2. PICK x \in T : \A y \in T : ~(<<y, x>> \in OpToRel(<, Nat))
  BY <1>1
<1>3. ASSUME NEW y \in T PROVE ~(y < x)
  <2>1. <<y, x>> \in Nat \X Nat
    OBVIOUS
  <2>2. y < x => <<y, x>> \in OpToRel(<, Nat)
    BY <2>1, Zenon DEF OpToRel
  <2> QED BY <1>2, <2>2
<1> QED BY <1>3

\* Offline, a page under a worker is at least of that worker's version.
LEMMA CachedIsNew == ShellInv /\ active # 0 => ChatShell!Cached \in Nat /\ ChatShell!Cached >= active
<1> SUFFICES ASSUME ShellInv, active # 0 PROVE ChatShell!Cached \in Nat /\ ChatShell!Cached >= active
  OBVIOUS
<1>1. PICK has : has = {n \in ChatShell!Names : caches[n] # 0}
  OBVIOUS
<1>2. ChatShell!Names \subseteq Nat /\ CacheName[active] \in ChatShell!Names
  BY ClientSideAssumption DEF ChatShell!Names, ChatShell!Version, ShellInv, VersionsInv
<1>3. CacheName[active] \in has
  BY <1>1, <1>2 DEF ShellInv, VersionsInv, CachesInv, ChatShell!ShellIsCached
<1>4. PICK n : n = CHOOSE k \in has : \A m \in has : k <= m
  OBVIOUS
<1>5. n \in has
  BY <1>1, <1>2, <1>3, <1>4, LeastOf
<1>6. ChatShell!Cached = caches[n]
  BY <1>1, <1>3, <1>4 DEF ChatShell!Cached
<1> QED BY <1>1, <1>5, <1>6 DEF ShellInv, CachesInv

\* A page that is loaded, from the network or from the cache, is at least of the version
\* of the worker in charge.
LEMMA PageLoaded ==
  ASSUME ShellInv, NEW t, NEW online, ChatShell!Fetched(online) # 0,
         tabs' = [tabs EXCEPT ![t] = [ChatShell!Closed EXCEPT !.page = ChatShell!Fetched(online), !.controller = active]],
         UNCHANGED <<deployed, installing, waiting, active, caches>>
  PROVE  ShellInv'
<1>1. PICK v : v = ChatShell!Fetched(online)
  OBVIOUS
<1>2. v \in Nat /\ v >= active /\ active \in Nat
  BY <1>1, CachedIsNew DEF ChatShell!Fetched, ShellInv, VersionsInv
<1>3. PICK r : /\ r \in Tabs /\ r.page = v /\ r.controller = active /\ ~r.reloading
               /\ tabs' = [tabs EXCEPT ![t] = r]
  <2>1. PICK r : r = [ChatShell!Closed EXCEPT !.page = v, !.controller = active]
    OBVIOUS
  <2>2. r \in Tabs /\ r.page = v /\ r.controller = active /\ ~r.reloading
    BY <1>2, <2>1 DEF ChatShell!Closed, Tabs
  <2> QED BY <1>1, <2>1, <2>2
<1>4. tabs' \in [Tab -> Tabs] /\ ChatShell!NoTabIsLeftBehind'
  BY <1>2, <1>3 DEF ShellInv, ChatShell!NoTabIsLeftBehind, ChatShell!Open
<1> QED BY <1>4 DEF ShellInv, VersionsInv, CachesInv, ChatShell!ShellIsCached

\* Steps that leave the version, the controller and the reload of each tab alone.
TabsAlike ==
  /\ tabs' \in [Tab -> Tabs]
  /\ \A t \in Tab : /\ tabs'[t].page = tabs[t].page /\ tabs'[t].controller = tabs[t].controller
                    /\ tabs'[t].reloading = tabs[t].reloading

\* They keep every tab up with its worker.
LEMMA AlikeStep == ShellInv /\ TabsAlike => ChatShell!NoTabIsLeftBehind'
BY DEF ShellInv, TabsAlike, ChatShell!NoTabIsLeftBehind, ChatShell!Open

\* Offering a worker in a toast.
LEMMA Prompted ==
  ASSUME NEW r \in Tabs, NEW w \in Nat
  PROVE  /\ ChatShell!promptUpdate(r, w) \in Tabs
         /\ ChatShell!promptUpdate(r, w).page = r.page
         /\ ChatShell!promptUpdate(r, w).controller = r.controller
         /\ ChatShell!promptUpdate(r, w).reloading = r.reloading
         /\ ChatShell!promptUpdate(r, w).registered = r.registered
BY DEF ChatShell!promptUpdate, Tabs

\* Deploying, registering, installing, updating, activating, opening and closing tabs all
\* keep the invariant.
LEMMA ShellStep == ShellInv /\ ChatShell!Next => ShellInv'
<1> SUFFICES ASSUME ShellInv, ChatShell!Next PROVE ShellInv'
  OBVIOUS
<1>1. VersionsInv /\ CachesInv /\ tabs \in [Tab -> Tabs] /\ ChatShell!NoTabIsLeftBehind
  BY DEF ShellInv
<1>2. ASSUME UNCHANGED <<s1, s2, s3, s4, s6, s7>> PROVE ShellInv'
  BY <1>2 DEF ShellInv, VersionsInv, CachesInv, ChatShell!ShellIsCached, ChatShell!NoTabIsLeftBehind, ChatShell!Open
<1>3. CASE ChatShell!Deploy
  <2>1. deployed < MaxVersion /\ deployed' = deployed + 1 /\ UNCHANGED <<s2, s3, s4, s6, s7>>
    BY <1>3 DEF ChatShell!Deploy
  <2>2. VersionsInv'
    BY <1>1, <2>1, ClientSideAssumption DEF VersionsInv
  <2>3. CachesInv' /\ ChatShell!NoTabIsLeftBehind'
    BY <1>1, <2>1 DEF CachesInv, ChatShell!ShellIsCached, ChatShell!NoTabIsLeftBehind, ChatShell!Open
  <2> QED BY <1>1, <2>1, <2>2, <2>3 DEF ShellInv
<1>4. CASE ChatShell!Installed
  <2>1. /\ installing # 0 /\ waiting' = installing /\ installing' = 0 /\ UNCHANGED <<s1, s4>>
        /\ caches' = [caches EXCEPT ![CacheName[installing]] = deployed]
        /\ tabs' = [t \in Tab |-> IF tabs[t].heard = installing THEN ChatShell!promptUpdate(tabs[t], installing)
                                                               ELSE tabs[t]]
    BY <1>4 DEF ChatShell!Installed
  <2>2. VersionsInv'
    BY <1>1, <2>1 DEF VersionsInv
  <2>3. installing \in ChatShell!Version /\ CacheName[installing] \in ChatShell!Names
    BY <1>1, <2>1, ClientSideAssumption DEF VersionsInv, ChatShell!Version, ChatShell!Names
  <2>4. deployed \in Nat /\ deployed >= installing /\ deployed >= active /\ active \in Nat
    BY <1>1 DEF VersionsInv
  <2>5. /\ caches' \in [ChatShell!Names -> Nat] /\ caches'[CacheName[installing]] = deployed
        /\ \A n \in ChatShell!Names : caches'[n] \in {caches[n], deployed}
    BY <1>1, <2>1, <2>3, <2>4 DEF CachesInv
  <2>6. active # 0 => active \in ChatShell!Version /\ CacheName[active] \in ChatShell!Names
    BY <1>1, ClientSideAssumption DEF VersionsInv, ChatShell!Version, ChatShell!Names
  <2>7. CachesInv'
    BY <1>1, <2>1, <2>4, <2>5, <2>6 DEF CachesInv, ChatShell!ShellIsCached
  <2>8. TabsAlike
    BY <1>1, <2>1, <2>4, Prompted DEF TabsAlike, VersionsInv
  <2> QED BY <2>2, <2>7, <2>8, AlikeStep DEF ShellInv, TabsAlike
<1>5. CASE ChatShell!InstallFails
  <2>1. installing' = 0 /\ UNCHANGED <<s1, s3, s4, s6, s7>>
    BY <1>5 DEF ChatShell!InstallFails
  <2> QED BY <1>1, <2>1 DEF ShellInv, VersionsInv, CachesInv, ChatShell!ShellIsCached, ChatShell!NoTabIsLeftBehind, ChatShell!Open
<1>6. CASE ChatShell!Activate
  <2>1. /\ waiting # 0 /\ active' = waiting /\ waiting' = 0 /\ UNCHANGED <<s1, s2>>
        /\ caches' = [n \in ChatShell!Names |-> IF n = CacheName[waiting] THEN caches[n] ELSE 0]
        /\ tabs' = [t \in Tab |-> IF t \in ChatShell!Open THEN ChatShell!controllerchange(tabs[t], waiting) ELSE tabs[t]]
    BY <1>6 DEF ChatShell!Activate, ChatShell!Kept
  <2>2. VersionsInv'
    BY <1>1, <2>1 DEF VersionsInv
  <2>3. waiting \in ChatShell!Version /\ CacheName[waiting] \in ChatShell!Names /\ waiting \in Nat
    BY <1>1, <2>1, ClientSideAssumption DEF VersionsInv, ChatShell!Version, ChatShell!Names
  <2>4. CachesInv'
    BY <1>1, <2>1, <2>3 DEF CachesInv, ChatShell!ShellIsCached
  <2>5. \A t \in Tab : \/ t \in ChatShell!Open /\ tabs'[t] \in Tabs /\ tabs'[t].reloading
                       \/ t \notin ChatShell!Open /\ tabs'[t] = tabs[t]
    BY <1>1, <2>1, <2>3 DEF ChatShell!controllerchange, Tabs
  <2>6. tabs' \in [Tab -> Tabs] /\ ChatShell!NoTabIsLeftBehind'
    BY <1>1, <2>1, <2>5 DEF ChatShell!NoTabIsLeftBehind, ChatShell!Open
  <2> QED BY <2>2, <2>4, <2>6 DEF ShellInv
<1>7. CASE ChatShell!Push
  BY <1>2, <1>7 DEF ChatShell!Push
<1>8. CASE ChatShell!notificationclick
  <2>1. CASE UNCHANGED tabs
    BY <1>2, <1>8, <2>1 DEF ChatShell!notificationclick
  <2>2. CASE ~UNCHANGED tabs
    BY <1>8, <2>2, PageLoaded DEF ChatShell!notificationclick
  <2> QED BY <2>1, <2>2
<1>9. ASSUME NEW t \in Tab, NEW online \in BOOLEAN, ChatShell!Navigate(t, online) PROVE ShellInv'
  BY <1>9, PageLoaded DEF ChatShell!Navigate
<1>10. ASSUME TabsAlike, UNCHANGED <<s1, s3, s4, s6>>, VersionsInv' PROVE ShellInv'
  BY <1>10, AlikeStep DEF ShellInv, CachesInv, ChatShell!ShellIsCached, TabsAlike
<1>11. ASSUME NEW t \in Tab, ChatShell!Close(t) PROVE ShellInv'
  <2>1. tabs' = [tabs EXCEPT ![t] = ChatShell!Closed] /\ UNCHANGED <<s1, s2, s3, s4, s6>>
    BY <1>11 DEF ChatShell!Close
  <2>2. ChatShell!Closed \in Tabs /\ ChatShell!Closed.page = 0
    BY DEF ChatShell!Closed, Tabs
  <2>3. tabs' \in [Tab -> Tabs] /\ ChatShell!NoTabIsLeftBehind'
    BY <1>1, <2>1, <2>2 DEF ChatShell!NoTabIsLeftBehind, ChatShell!Open
  <2> QED BY <1>1, <2>1, <2>3 DEF ShellInv, VersionsInv, CachesInv, ChatShell!ShellIsCached
<1>12. ASSUME NEW t \in Tab, ChatShell!ClickUpdate(t) PROVE ShellInv'
  <2>1. tabs' = [tabs EXCEPT ![t].toast = 0] /\ UNCHANGED <<s1, s2, s3, s4, s6>>
    BY <1>12 DEF ChatShell!ClickUpdate
  <2>2. TabsAlike
    BY <1>1, <2>1 DEF TabsAlike, Tabs
  <2> QED BY <1>1, <1>10, <2>1, <2>2 DEF VersionsInv
<1>13. ASSUME NEW t \in Tab, ChatShell!Register(t) PROVE ShellInv'
  <2>1. PICK mine : mine = [tabs EXCEPT ![t].registered = TRUE]
    OBVIOUS
  <2>2. PICK seen : seen = IF waiting # 0 THEN [mine EXCEPT ![t] = ChatShell!promptUpdate(@, waiting)] ELSE mine
    OBVIOUS
  <2>3. /\ tabs' = seen \/ tabs' = [u \in Tab |-> IF seen[u].registered THEN [seen[u] EXCEPT !.heard = deployed]
                                                                        ELSE seen[u]]
        /\ installing' \in {deployed, installing} /\ UNCHANGED <<s1, s3, s4, s6>>
    BY <1>13, <2>1, <2>2 DEF ChatShell!Register
  <2>4. deployed \in Nat /\ waiting \in Nat
    BY <1>1 DEF VersionsInv
  <2>5. mine \in [Tab -> Tabs] /\ \A u \in Tab : /\ mine[u].page = tabs[u].page /\ mine[u].controller = tabs[u].controller
                                                 /\ mine[u].reloading = tabs[u].reloading
    BY <1>1, <2>1 DEF Tabs
  <2>6. seen \in [Tab -> Tabs] /\ \A u \in Tab : /\ seen[u].page = tabs[u].page /\ seen[u].controller = tabs[u].controller
                                                 /\ seen[u].reloading = tabs[u].reloading
    BY <2>2, <2>4, <2>5, Prompted
  <2>7. TabsAlike
    BY <2>3, <2>4, <2>6 DEF TabsAlike, Tabs
  <2>8. VersionsInv'
    BY <1>1, <2>3 DEF VersionsInv
  <2> QED BY <1>10, <2>3, <2>7, <2>8
<1> QED BY <1>3, <1>4, <1>5, <1>6, <1>7, <1>8, <1>9, <1>11, <1>12, <1>13 DEF ChatShell!Next

\* The portal's worker is a copy of the chat's.
LEMMA SameShell ==
  /\ PortalShell!Init => ChatShell!Init
  /\ PortalShell!Next => ChatShell!Next
  /\ ChatShell!NoTabIsLeftBehind => PortalShell!NoTabIsLeftBehind
  /\ ChatShell!ShellIsCached => PortalShell!ShellIsCached
<1>1. PortalShell!Init => ChatShell!Init
  BY DEF PortalShell!Init, ChatShell!Init, PortalShell!Names, ChatShell!Names, PortalShell!Version,
         ChatShell!Version, PortalShell!Closed, ChatShell!Closed
<1>2. /\ ChatShell!NoTabIsLeftBehind => PortalShell!NoTabIsLeftBehind
      /\ ChatShell!ShellIsCached => PortalShell!ShellIsCached
  BY DEF PortalShell!NoTabIsLeftBehind, ChatShell!NoTabIsLeftBehind, PortalShell!Open, ChatShell!Open,
         PortalShell!ShellIsCached, ChatShell!ShellIsCached
<1>3. PortalShell!Deploy => ChatShell!Deploy
  BY DEF PortalShell!Deploy, ChatShell!Deploy
<1>4. PortalShell!Installed => ChatShell!Installed
  BY Zenon DEF PortalShell!Installed, ChatShell!Installed, PortalShell!promptUpdate, ChatShell!promptUpdate
<1>5. PortalShell!InstallFails => ChatShell!InstallFails
  BY DEF PortalShell!InstallFails, ChatShell!InstallFails
<1>6. PortalShell!Activate => ChatShell!Activate
  BY Zenon DEF PortalShell!Activate, ChatShell!Activate, PortalShell!Open, ChatShell!Open, PortalShell!Names,
         ChatShell!Names, PortalShell!Version, ChatShell!Version, PortalShell!Kept, ChatShell!Kept,
         PortalShell!controllerchange, ChatShell!controllerchange
<1>7. PortalShell!Push => ChatShell!Push
  BY DEF PortalShell!Push, ChatShell!Push
<1>8. \A online : PortalShell!Fetched(online) = ChatShell!Fetched(online)
  BY Zenon DEF PortalShell!Fetched, ChatShell!Fetched, PortalShell!Cached, ChatShell!Cached, PortalShell!Names,
         ChatShell!Names, PortalShell!Version, ChatShell!Version
<1>9. PortalShell!notificationclick => ChatShell!notificationclick
  BY <1>8, Zenon DEF PortalShell!notificationclick, ChatShell!notificationclick, PortalShell!Open, ChatShell!Open,
              PortalShell!Closed, ChatShell!Closed
<1>10. ASSUME NEW t, NEW online, PortalShell!Navigate(t, online) PROVE ChatShell!Navigate(t, online)
  BY <1>8, <1>10, Zenon DEF PortalShell!Navigate, ChatShell!Navigate, PortalShell!Closed, ChatShell!Closed
<1>11. ASSUME NEW t, PortalShell!Close(t) PROVE ChatShell!Close(t)
  BY <1>11, Zenon DEF PortalShell!Close, ChatShell!Close, PortalShell!Open, ChatShell!Open, PortalShell!Closed, ChatShell!Closed
<1>12. ASSUME NEW t, PortalShell!Register(t) PROVE ChatShell!Register(t)
  BY <1>12, Zenon DEF PortalShell!Register, ChatShell!Register, PortalShell!Open, ChatShell!Open,
               PortalShell!promptUpdate, ChatShell!promptUpdate
<1>13. ASSUME NEW t, PortalShell!ClickUpdate(t) PROVE ChatShell!ClickUpdate(t)
  BY <1>13, Zenon DEF PortalShell!ClickUpdate, ChatShell!ClickUpdate
<1> QED
  BY <1>1, <1>2, <1>3, <1>4, <1>5, <1>6, <1>7, <1>9, <1>10, <1>11, <1>12, <1>13, Zenon
     DEF PortalShell!Next, ChatShell!Next

\* No tab runs a bundle older than its service worker, and the worker in charge has the
\* shell of its version, whichever versions are deployed while others install, wait and
\* take over, online or off, with any choice of CACHE_NAME (sw.js and main.tsx).
THEOREM ShellsFollowDeploys == Spec => []ShellFollowsDeploys
<1> DEFINE Inv == program \in {"chat-shell", "portal-shell"} => ShellInv
<1>1. Init => Inv
  BY ShellStart, SameShell DEF Init
<1>2. Inv /\ [Next]_vars => Inv'
  <2>1. ASSUME Inv, [Next]_vars, program \in {"chat-shell", "portal-shell"} PROVE ShellInv'
    <3>1. CASE ChatShell!Next \/ PortalShell!Next
      BY <2>1, <3>1, ShellStep, SameShell
    <3>2. CASE UNCHANGED vars
      BY <2>1, <3>2 DEF vars, ShellInv, VersionsInv, CachesInv, ChatShell!ShellIsCached,
                        ChatShell!NoTabIsLeftBehind, ChatShell!Open
    <3> QED BY <2>1, <3>1, <3>2 DEF Next
  <2> QED BY <2>1, SameProgram
<1>3. Inv => ShellFollowsDeploys
  BY SameShell DEF ShellFollowsDeploys, ShellInv, CachesInv
<1> QED BY <1>1, <1>2, <1>3, PTL DEF Spec

-----------------------------------------------------------------------------
(* FeedClient                                                              *)

replay       == s1
stage        == s2
status       == s3
list         == s4
ws           == s5
timer        == s6
pendingSends == s8
toServer     == s9
joined       == s10
toClient     == s11
log          == s12
opens        == s13
refusal      == s16

USE DEF replay, stage, status, list, ws, timer, pendingSends, toServer, joined, toClient, log, opens, refusal

\* Of n messages each is in the list l, on its way in c, or an older one that a full list
\* has let go; and the newest is the last that arrives.
Shown(l, c, n) ==
  /\ n # 0 => IF c = << >> THEN l # << >> /\ l[Len(l)] = n ELSE c[Len(c)] = n
  /\ \A m \in 1..n : \/ \E i \in DOMAIN l : l[i] = m
                     \/ \E i \in DOMAIN c : c[i] = m
                     \/ m < n /\ Len(l) = Limit

Frames == {"AUTH", "SUB", "REPLAY"}

\* Lists are lists of messages; until a page is wired there is no socket, and without an
\* open one nothing is on its way.
FeedTypes ==
  /\ list \in Seq(Nat) /\ Len(list) <= Limit /\ toClient \in Seq(Nat) /\ log \in Nat /\ opens \in Nat
  /\ toServer \in Seq(Frames) /\ pendingSends \in Seq(Frames) /\ (timer => ws = "none")
  /\ IF stage = "wired" THEN opens > 0 ELSE opens = 0 /\ ws = "none" /\ ~timer /\ refusal = "none"
  /\ ws \in {"none", "connecting"} => toServer = << >> /\ toClient = << >> /\ ~joined
  /\ ws \in {"none", "connecting", "open", "closing"}

\* On the first socket REPLAY follows SUB, so that whatever the history has not is relayed.
ReplayInv ==
  replay /\ opens = 1 =>
    /\ ws = "connecting" => pendingSends = <<"REPLAY">>
    /\ ws = "open" /\ refusal = "none" =>
         \/ toServer \in {<<"AUTH", "SUB", "REPLAY">>, <<"SUB", "REPLAY">>}
         \/ toServer = <<"REPLAY">> /\ joined
         \/ toServer = << >> /\ joined /\ Shown(list, toClient, log)

FeedInv == FeedTypes /\ ReplayInv /\ WordPressFeed!ReconnectingIsTrue

\* The invariant gives the property.
LEMMA FeedImplies == FeedInv => WordPressFeed!NothingMissed /\ WordPressFeed!ReconnectingIsTrue
<1> SUFFICES ASSUME FeedInv PROVE WordPressFeed!NothingMissed
  BY DEF FeedInv
<1> SUFFICES ASSUME replay, opens = 1, ws = "open", refusal = "none", toServer = << >>, NEW n \in 1..log
             PROVE  \/ n \in WordPressFeed!Listed
                    \/ \E i \in DOMAIN toClient : toClient[i] = n
                    \/ \E m \in n..log : m # n /\ Len(list) = Limit
  BY DEF WordPressFeed!NothingMissed
<1>1. Shown(list, toClient, log)
  BY DEF FeedInv, ReplayInv
<1>2. log \in Nat /\ n \in Nat
  BY DEF FeedInv, FeedTypes
<1>3. CASE \E i \in DOMAIN list : list[i] = n
  BY <1>3 DEF WordPressFeed!Listed
<1>4. CASE n < log /\ Len(list) = Limit
  <2>1. log \in n..log /\ log # n
    BY <1>2, <1>4
  <2> QED BY <1>4, <2>1
<1> QED BY <1>1, <1>3, <1>4 DEF Shown

\* The page is empty at first.
LEMMA FeedStart == WordPressFeed!Init => FeedInv
BY ClientSideAssumption
   DEF WordPressFeed!Init, FeedInv, FeedTypes, ReplayInv, WordPressFeed!ReconnectingIsTrue

\* A message that arrives moves from the socket to the list, which lets the oldest go.
LEMMA ShownAfterReceive ==
  ASSUME NEW l \in Seq(Nat), NEW c \in Seq(Nat), NEW n \in Nat, Len(l) <= Limit, c # << >>
  PROVE  /\ WordPressFeed!Trimmed(Append(l, Head(c))) \in Seq(Nat)
         /\ Len(WordPressFeed!Trimmed(Append(l, Head(c)))) <= Limit
         /\ Shown(l, c, n) => Shown(WordPressFeed!Trimmed(Append(l, Head(c))), Tail(c), n)
<1>1. PICK l1, l2, c2 : l1 = Append(l, Head(c)) /\ l2 = WordPressFeed!Trimmed(l1) /\ c2 = Tail(c)
  OBVIOUS
<1>2. Limit \in Nat /\ Limit > 0
  BY ClientSideAssumption
<1>3. /\ Len(c) > 0 /\ c2 \in Seq(Nat) /\ Len(c2) = Len(c) - 1 /\ \A i \in 1..Len(c2) : c2[i] = c[i + 1]
      /\ Head(c) = c[1] /\ c[1] \in Nat
  BY <1>1
<1>4. /\ l1 \in Seq(Nat) /\ Len(l1) = Len(l) + 1 /\ l1[Len(l1)] = c[1] /\ \A i \in 1..Len(l) : l1[i] = l[i]
  BY <1>1, <1>3
<1>5. CASE Len(l) = Limit
  <2>1. l2 \in Seq(Nat) /\ Len(l2) = Limit /\ \A i \in 1..Len(l2) : l2[i] = l1[i + 1]
    <3>1. Len(l1) > Limit /\ l1 # << >>
      BY <1>2, <1>4, <1>5
    <3>2. l2 = Tail(l1)
      BY <1>1, <3>1 DEF WordPressFeed!Trimmed
    <3>3. l2 \in Seq(Nat) /\ Len(l2) = Len(l1) - 1 /\ \A i \in 1..Len(l2) : l2[i] = l1[i + 1]
      BY <1>4, <3>1, <3>2
    <3> QED BY <1>2, <1>4, <1>5, <3>3
  <2>2. l2 # << >> /\ l2[Len(l2)] = c[1]
    BY <1>2, <1>4, <1>5, <2>1
  <2>3. ASSUME Shown(l, c, n) PROVE Shown(l2, c2, n)
    <3>1. n # 0 => c[Len(c)] = n
      BY <2>3 DEF Shown
    <3>2. n # 0 => IF c2 = << >> THEN l2 # << >> /\ l2[Len(l2)] = n ELSE c2[Len(c2)] = n
      <4>1. CASE c2 = << >>
        <5>1. Len(c2) = 0 /\ Len(c) \in Nat
          BY <4>1
        <5>2. Len(c) = 1
          BY <1>3, <5>1
        <5> QED BY <2>2, <3>1, <4>1, <5>2
      <4>2. CASE c2 # << >>
        <5>1. Len(c2) \in 1..Len(c2) /\ Len(c) = Len(c2) + 1
          BY <1>3, <4>2
        <5> QED BY <1>3, <3>1, <4>2, <5>1
      <4> QED BY <4>1, <4>2
    <3>3. ASSUME NEW m \in 1..n
          PROVE  \/ \E i \in DOMAIN l2 : l2[i] = m
                 \/ \E i \in DOMAIN c2 : c2[i] = m
                 \/ m < n /\ Len(l2) = Limit
      <4>1. CASE m = n
        <5>1. n # 0
          BY <3>3, <4>1
        <5>2. CASE c2 = << >>
          BY <2>1, <2>2, <3>2, <4>1, <5>1, <5>2
        <5>3. CASE c2 # << >>
          <6>1. Len(c2) \in DOMAIN c2
            BY <1>3, <5>3
          <6> QED BY <3>2, <4>1, <5>1, <5>3, <6>1
        <5> QED BY <5>2, <5>3
      <4>2. CASE m # n
        BY <2>1, <4>2
      <4> QED BY <4>1, <4>2
    <3> QED BY <3>2, <3>3 DEF Shown
  <2> QED BY <1>1, <2>1, <2>3
<1>6. CASE Len(l) < Limit
  <2>1. l2 = l1
    BY <1>1, <1>2, <1>4, <1>6 DEF WordPressFeed!Trimmed
  <2>2. ASSUME Shown(l, c, n) PROVE Shown(l2, c2, n)
    <3>1. n # 0 => c[Len(c)] = n
      BY <2>2 DEF Shown
    <3>2. n # 0 => IF c2 = << >> THEN l2 # << >> /\ l2[Len(l2)] = n ELSE c2[Len(c2)] = n
      BY <1>3, <1>4, <2>1, <3>1
    <3>3. ASSUME NEW m \in 1..n
          PROVE  \/ \E i \in DOMAIN l2 : l2[i] = m
                 \/ \E i \in DOMAIN c2 : c2[i] = m
      <4>1. ASSUME NEW i \in DOMAIN l, l[i] = m PROVE \E j \in DOMAIN l2 : l2[j] = m
        <5>1. i \in 1..Len(l) /\ i \in DOMAIN l1
          BY <1>4, <4>1
        <5>2. l1[i] = m
          BY <1>4, <4>1, <5>1
        <5> QED BY <2>1, <5>1, <5>2
      <4>2. ASSUME NEW i \in DOMAIN c, c[i] = m
            PROVE  \/ \E j \in DOMAIN l2 : l2[j] = m
                   \/ \E j \in DOMAIN c2 : c2[j] = m
        <5>1. CASE i = 1
          <6>1. Len(l1) \in DOMAIN l1 /\ l1[Len(l1)] = m
            BY <1>4, <4>2, <5>1
          <6> QED BY <2>1, <6>1
        <5>2. CASE i # 1
          <6>1. i - 1 \in 1..Len(c2) /\ c2[i - 1] = c[i]
            BY <1>3, <4>2, <5>2
          <6>2. DOMAIN c2 = 1..Len(c2)
            BY <1>3
          <6> QED BY <4>2, <6>1, <6>2
        <5> QED BY <5>1, <5>2
      <4>3. \/ \E i \in DOMAIN l : l[i] = m
            \/ \E i \in DOMAIN c : c[i] = m
            \/ Len(l) = Limit
        BY <2>2, <3>3 DEF Shown
      <4>4. Len(l) # Limit
        BY <1>2, <1>6
      <4> QED BY <4>1, <4>2, <4>3, <4>4
    <3> QED BY <3>2, <3>3 DEF Shown
  <2>3. Len(l2) <= Limit
    BY <1>2, <1>4, <1>6, <2>1
  <2> QED BY <1>1, <1>4, <2>1, <2>2, <2>3
<1> QED BY <1>2, <1>5, <1>6

\* The history that REPLAY queues has all messages, and the newest last.
LEMMA ShownAfterReplay ==
  ASSUME NEW l \in Seq(Nat), NEW c \in Seq(Nat), NEW n \in Nat, NEW d, d = c \o [m \in 1..n |-> m]
  PROVE  d \in Seq(Nat) /\ Shown(l, d, n)
<1>1. PICK h : h = [m \in 1..n |-> m]
  OBVIOUS
<1>2. h \in Seq(Nat) /\ Len(h) = n
  BY <1>1
<1>3. d \in Seq(Nat) /\ Len(d) = Len(c) + n /\ \A i \in 1..n : d[Len(c) + i] = i
  BY <1>1, <1>2
<1>4. ASSUME NEW m \in 1..n PROVE Len(c) + m \in DOMAIN d /\ d[Len(c) + m] = m
  BY <1>3
<1>5. ASSUME n # 0 PROVE d # << >> /\ d[Len(d)] = n
  <2>1. n \in 1..n
    BY <1>5
  <2>2. d[Len(c) + n] = n
    BY <1>4, <2>1
  <2>3. Len(d) # 0
    BY <1>3, <1>5
  <2> QED BY <1>3, <2>2, <2>3
<1> QED BY <1>3, <1>4, <1>5 DEF Shown

\* A message that is relayed is the newest.
LEMMA ShownAfterPublish ==
  ASSUME NEW l \in Seq(Nat), NEW c \in Seq(Nat), NEW n \in Nat, Shown(l, c, n)
  PROVE  Shown(l, Append(c, n + 1), n + 1)
<1>1. PICK d : d = Append(c, n + 1)
  OBVIOUS
<1>2. d \in Seq(Nat) /\ Len(d) = Len(c) + 1 /\ d[Len(d)] = n + 1 /\ d # << >> /\ \A i \in 1..Len(c) : d[i] = c[i]
  <2>1. d \in Seq(Nat) /\ Len(d) = Len(c) + 1
    BY <1>1
  <2>2. d[Len(c) + 1] = n + 1
    BY <1>1
  <2>3. \A i \in 1..Len(c) : d[i] = c[i]
    BY <1>1
  <2>4. d # << >>
    BY <2>1
  <2> QED BY <2>1, <2>2, <2>3, <2>4
<1>3. ASSUME NEW m \in 1..(n + 1)
      PROVE  \/ \E i \in DOMAIN l : l[i] = m
             \/ \E i \in DOMAIN d : d[i] = m
             \/ m < n + 1 /\ Len(l) = Limit
  <2>1. CASE m = n + 1
    <3>1. Len(d) \in DOMAIN d
      BY <1>2
    <3> QED BY <1>2, <2>1, <3>1
  <2>2. CASE m \in 1..n
    <3>1. ASSUME NEW i \in DOMAIN c PROVE i \in DOMAIN d /\ d[i] = c[i]
      <4>1. i \in 1..Len(c)
        OBVIOUS
      <4>2. i \in 1..Len(d)
        BY <1>2, <4>1
      <4> QED BY <1>2, <4>1, <4>2
    <3>2. \/ \E i \in DOMAIN l : l[i] = m
          \/ \E i \in DOMAIN c : c[i] = m
          \/ Len(l) = Limit
      BY <2>2 DEF Shown
    <3>3. m < n + 1
      BY <2>2
    <3> QED BY <3>1, <3>2, <3>3
  <2> QED BY <2>1, <2>2
<1> QED BY <1>1, <1>2, <1>3 DEF Shown

\* What is sent when the socket opens.
LEMMA FirstFrames ==
  ASSUME NEW q \in Seq(Frames)
  PROVE  /\ <<"AUTH", "SUB">> \o q \in Seq(Frames)
         /\ q = <<"REPLAY">> => <<"AUTH", "SUB">> \o q = <<"AUTH", "SUB", "REPLAY">>
<1>1. PICK a : a = <<"AUTH", "SUB">>
  OBVIOUS
<1>2. a \in Seq(Frames) /\ Len(a) = 2 /\ a[1] = "AUTH" /\ a[2] = "SUB"
  BY <1>1 DEF Frames
<1>3. a \o q \in Seq(Frames)
  BY <1>2
<1>4. ASSUME q = <<"REPLAY">> PROVE a \o q = <<"AUTH", "SUB", "REPLAY">>
  <2>1. Len(q) = 1 /\ q[1] = "REPLAY"
    BY <1>4
  <2>2. PICK e : e = a \o q
    OBVIOUS
  <2>3. e \in Seq(Frames) /\ Len(e) = 3 /\ e[1] = "AUTH" /\ e[2] = "SUB" /\ e[3] = "REPLAY"
    <3>1. e \in Seq(Frames) /\ Len(e) = 3
      <4>1. Len(a \o q) = Len(a) + Len(q)
        <5>1. a \in Seq(Frames)
          BY <1>2
        <5> QED BY <5>1
      <4> QED BY <1>2, <1>3, <2>1, <2>2, <4>1
    <3>2. e[1] = a[1] /\ e[2] = a[2]
      BY <1>2, <2>1, <2>2
    <3>3. e[3] = q[1]
      <4>1. \A i \in 1..(Len(a) + Len(q)) : (a \o q)[i] = IF i <= Len(a) THEN a[i] ELSE q[i - Len(a)]
        <5>1. a \in Seq(Frames)
          BY <1>2
        <5> QED BY <5>1
      <4>2. 3 \in 1..(Len(a) + Len(q)) /\ ~(3 <= Len(a)) /\ 3 - Len(a) = 1
        BY <1>2, <2>1
      <4> QED BY <2>2, <4>1, <4>2
    <3> QED BY <1>2, <2>1, <3>1, <3>2, <3>3
  <2>4. <<"AUTH", "SUB", "REPLAY">> = e
    BY <2>3
  <2> QED BY <2>2, <2>4
<1> QED BY <1>1, <1>3, <1>4

\* connect() and replay(), called once, when the page is wired.
LEMMA WireStep ==
  ASSUME FeedInv, stage # "wired", WordPressFeed!Wire
  PROVE  FeedInv'
<1>1. /\ opens' = opens + 1 /\ ws' = "connecting" /\ stage' = "wired"
      /\ pendingSends' = (IF replay THEN <<"REPLAY">> ELSE << >>)
      /\ UNCHANGED <<replay, list, timer, toServer, joined, toClient, log, refusal>>
  BY DEF WordPressFeed!Wire, WordPressFeed!OpenSocket, WordPressFeed!server
<1>2. opens = 0 /\ ws = "none" /\ refusal = "none"
  BY DEF FeedInv, FeedTypes
<1>3. FeedTypes'
  <2>1. <<"REPLAY">> \in Seq(Frames) /\ << >> \in Seq(Frames)
    BY DEF Frames
  <2>2. pendingSends' \in Seq(Frames)
    BY <1>1, <2>1
  <2> QED BY <1>1, <1>2, <2>2 DEF FeedInv, FeedTypes
<1>4. ReplayInv'
  BY <1>1 DEF ReplayInv
<1> QED BY <1>1, <1>2, <1>3, <1>4 DEF FeedInv, WordPressFeed!ReconnectingIsTrue

\* The server takes a frame.
LEMMA TakesStep == FeedInv /\ WordPressFeed!ServerTakes => FeedInv'
<1> SUFFICES ASSUME FeedInv, WordPressFeed!ServerTakes PROVE FeedInv'
  OBVIOUS
<1>1. /\ toServer # << >> /\ refusal = "none" /\ toServer' = Tail(toServer)
      /\ UNCHANGED <<replay, stage, status, list, ws, timer, pendingSends, log, opens>>
  BY DEF WordPressFeed!ServerTakes, WordPressFeed!page
<1>2. /\ FeedTypes /\ ReplayInv /\ Head(toServer) \in {"AUTH", "SUB", "REPLAY"}
      /\ toServer' \in Seq(Frames)
  BY <1>1 DEF FeedInv, FeedTypes, Frames
<1>3. \/ Head(toServer) = "AUTH" /\ refusal' \in {"none", "decided"} /\ UNCHANGED <<joined, toClient>>
      \/ Head(toServer) = "SUB" /\ joined' = TRUE /\ UNCHANGED <<refusal, toClient>>
      \/ /\ Head(toServer) = "REPLAY" /\ toClient' = toClient \o [n \in 1..log |-> n]
         /\ UNCHANGED <<refusal, joined>>
  BY <1>2 DEF WordPressFeed!ServerTakes
<1>4. ws \notin {"none", "connecting"}
  BY <1>1, <1>2 DEF FeedTypes
<1>5. Head(toServer) = "REPLAY" => toClient' \in Seq(Nat) /\ Shown(list, toClient', log)
  BY <1>2, <1>3, ShownAfterReplay DEF FeedTypes
<1>6. FeedTypes'
  BY <1>1, <1>2, <1>3, <1>4, <1>5 DEF FeedTypes
<1>7. ReplayInv'
  <2> SUFFICES ASSUME replay, opens = 1, ws = "open"
               PROVE  \/ toServer' \in {<<"AUTH", "SUB", "REPLAY">>, <<"SUB", "REPLAY">>}
                      \/ toServer' = <<"REPLAY">> /\ joined'
                      \/ toServer' = << >> /\ joined' /\ Shown(list, toClient', log)
    BY <1>1, <1>4 DEF ReplayInv
  <2>1. CASE toServer = <<"AUTH", "SUB", "REPLAY">>
    <3>1. toServer' = <<"SUB", "REPLAY">>
      BY <1>1, <2>1
    <3> QED BY <3>1
  <2>2. CASE toServer = <<"SUB", "REPLAY">>
    <3>1. toServer' = <<"REPLAY">> /\ Head(toServer) = "SUB"
      BY <1>1, <2>2
    <3> QED BY <1>3, <3>1
  <2>3. CASE toServer = <<"REPLAY">> /\ joined
    <3>1. toServer' = << >> /\ Head(toServer) = "REPLAY"
      BY <1>1, <2>3
    <3> QED BY <1>3, <1>5, <2>3, <3>1
  <2> QED BY <1>1, <1>2, <2>1, <2>2, <2>3 DEF ReplayInv
<1> QED BY <1>1, <1>3, <1>6, <1>7 DEF FeedInv, WordPressFeed!ReconnectingIsTrue

\* Every step of the page, the client and the server keeps the invariant.
LEMMA FeedStep == FeedInv /\ WordPressFeed!Next => FeedInv'
<1> SUFFICES ASSUME FeedInv, WordPressFeed!Next PROVE FeedInv'
  OBVIOUS
<1>1. FeedTypes /\ ReplayInv /\ WordPressFeed!ReconnectingIsTrue
  BY DEF FeedInv
<1>2. ASSUME WordPressFeed!WireFeed \/ WordPressFeed!TokenFails PROVE FeedInv'
  <2>1. /\ stage # "wired" /\ stage' # "wired" /\ status' # "Reconnecting"
        /\ UNCHANGED <<replay, list, ws, timer, pendingSends, toServer, joined, toClient, log, opens, refusal>>
    BY <1>2 DEF WordPressFeed!WireFeed, WordPressFeed!TokenFails, WordPressFeed!server
  <2> QED BY <1>1, <2>1 DEF FeedInv, FeedTypes, ReplayInv, WordPressFeed!ReconnectingIsTrue
<1>3. CASE WordPressFeed!TokenFetched
  <2>1. stage = "fetching" /\ WordPressFeed!Wire /\ status' = status
    BY <1>3 DEF WordPressFeed!TokenFetched
  <2> QED BY <2>1, WireStep
<1>4. CASE WordPressFeed!SocketOpens
  <2>1. /\ ws = "connecting" /\ ws' = "open" /\ status' = "Live" /\ pendingSends' = << >>
        /\ toServer' = <<"AUTH", "SUB">> \o pendingSends
        /\ UNCHANGED <<replay, stage, list, timer, joined, toClient, log, opens, refusal>>
    BY <1>4 DEF WordPressFeed!SocketOpens, WordPressFeed!page
  <2>2. FeedTypes'
    <3>1. toServer' \in Seq(Frames)
      BY <1>1, <2>1, FirstFrames DEF FeedTypes
    <3>2. pendingSends' \in Seq(Frames)
      BY <2>1
    <3> QED BY <1>1, <2>1, <3>1, <3>2 DEF FeedTypes
  <2>3. ReplayInv'
    <3> SUFFICES ASSUME replay, opens = 1 PROVE toServer' = <<"AUTH", "SUB", "REPLAY">>
      BY <2>1 DEF ReplayInv
    <3>1. pendingSends = <<"REPLAY">>
      BY <1>1, <2>1 DEF ReplayInv
    <3> QED BY <1>1, <2>1, <3>1, FirstFrames DEF FeedTypes
  <2> QED BY <2>1, <2>2, <2>3 DEF FeedInv, WordPressFeed!ReconnectingIsTrue
<1>5. CASE WordPressFeed!SocketErrors
  <2>1. /\ ws \in {"connecting", "open"} /\ ws' = "closing" /\ status' = "Connection error"
        /\ UNCHANGED <<replay, stage, list, timer, pendingSends, toServer, joined, toClient, log, opens, refusal>>
    BY <1>5 DEF WordPressFeed!SocketErrors, WordPressFeed!page, WordPressFeed!server
  <2> QED BY <1>1, <2>1 DEF FeedInv, FeedTypes, ReplayInv, WordPressFeed!ReconnectingIsTrue
<1>6. ASSUME NEW code, WordPressFeed!SocketCloses(code) PROVE FeedInv'
  <2>1. /\ ws # "none" /\ ws' = "none" /\ refusal' = (IF code = 4001 THEN "told" ELSE refusal)
        /\ code = 4001 => ws = "open" /\ refusal = "decided"
        /\ timer' = (code # 4001) /\ toServer' = << >> /\ toClient' = << >> /\ joined' = FALSE
        /\ UNCHANGED <<replay, stage, list, pendingSends, log, opens>>
    BY <1>6 DEF WordPressFeed!SocketCloses, WordPressFeed!page
  <2>2. /\ refusal' = "told" \/ timer'
        /\ refusal' = "told" => ~timer'
    <3>1. PICK d : d = 4001
      OBVIOUS
    <3>2. refusal # "told"
      BY <1>1, <2>1 DEF WordPressFeed!ReconnectingIsTrue
    <3>3. timer' = (code # d) /\ refusal' = (IF code = d THEN "told" ELSE refusal)
      BY <2>1, <3>1
    <3> QED BY <3>2, <3>3
  <2>3. FeedTypes' /\ ReplayInv'
    BY <1>1, <2>1 DEF FeedTypes, ReplayInv
  <2> QED BY <2>1, <2>2, <2>3 DEF FeedInv, WordPressFeed!ReconnectingIsTrue
<1>7. CASE WordPressFeed!TimerFires
  <2>1. /\ timer /\ timer' = FALSE /\ opens' = opens + 1 /\ ws' = "connecting"
        /\ UNCHANGED <<replay, stage, list, pendingSends, toServer, joined, toClient, log, refusal>>
    BY <1>7 DEF WordPressFeed!TimerFires, WordPressFeed!OpenSocket, WordPressFeed!page, WordPressFeed!server
  <2>2. stage = "wired" /\ opens \in Nat /\ opens > 0
    BY <1>1, <2>1 DEF FeedTypes
  <2>3. opens' > 1
    BY <2>1, <2>2
  <2>4. FeedTypes'
    BY <1>1, <2>1, <2>2 DEF FeedTypes
  <2>5. ReplayInv'
    BY <2>3 DEF ReplayInv
  <2> QED BY <2>1, <2>4, <2>5 DEF FeedInv, WordPressFeed!ReconnectingIsTrue
<1>8. CASE WordPressFeed!Receive
  <2>1. /\ ws = "open" /\ toClient # << >> /\ toClient' = Tail(toClient)
        /\ list' = WordPressFeed!Trimmed(Append(list, Head(toClient)))
        /\ UNCHANGED <<replay, stage, status, ws, timer, pendingSends, toServer, joined, log, opens, refusal>>
    BY <1>8 DEF WordPressFeed!Receive
  <2>2. /\ list' \in Seq(Nat) /\ Len(list') <= Limit
        /\ Shown(list, toClient, log) => Shown(list', toClient', log)
    BY <1>1, <2>1, ShownAfterReceive DEF FeedTypes
  <2>3. toClient' \in Seq(Nat)
    BY <1>1, <2>1 DEF FeedTypes
  <2>4. FeedTypes'
    BY <1>1, <2>1, <2>2, <2>3 DEF FeedTypes
  <2>5. ReplayInv'
    BY <1>1, <2>1, <2>2 DEF ReplayInv
  <2> QED BY <1>1, <2>1, <2>4, <2>5 DEF FeedInv, WordPressFeed!ReconnectingIsTrue
<1>9. CASE WordPressFeed!Publish
  <2>1. /\ log' = log + 1 /\ toClient' = (IF joined THEN Append(toClient, log + 1) ELSE toClient)
        /\ UNCHANGED <<replay, stage, status, list, ws, timer, pendingSends, toServer, joined, opens, refusal>>
    BY <1>9 DEF WordPressFeed!Publish, WordPressFeed!page
  <2>2. FeedTypes'
    BY <1>1, <2>1 DEF FeedTypes
  <2>3. joined /\ Shown(list, toClient, log) => Shown(list', toClient', log')
    BY <1>1, <2>1, ShownAfterPublish DEF FeedTypes
  <2>4. ReplayInv'
    BY <1>1, <2>1, <2>3 DEF ReplayInv
  <2> QED BY <1>1, <2>1, <2>2, <2>4 DEF FeedInv, WordPressFeed!ReconnectingIsTrue
<1>10. CASE WordPressFeed!FocusChanges
  <2>1. UNCHANGED <<replay, stage, status, list, ws, timer, pendingSends, toServer, joined, toClient, log,
                    opens, refusal>>
    BY <1>10 DEF WordPressFeed!FocusChanges, WordPressFeed!server
  <2> QED BY <1>1, <2>1 DEF FeedInv, FeedTypes, ReplayInv, WordPressFeed!ReconnectingIsTrue
<1>11. ~WordPressFeed!AutoInit
  BY DEF WordPressFeed!AutoInit
<1> QED
  BY <1>2, <1>3, <1>4, <1>5, <1>6, <1>7, <1>8, <1>9, <1>10, <1>11, TakesStep DEF WordPressFeed!Next

\* autoInit of mio-embed.js, which has its token at once.
EmbedWires == stage = "loading" /\ WordPressFeed!Wire /\ status' = "Connecting"

\* The plugin's mio-embed.js takes the same steps as the shortcode, but for that.
LEMMA EmbedSteps == WordPressEmbed!Next => WordPressFeed!Next \/ EmbedWires
<1>1. CASE WordPressEmbed!AutoInit
  BY <1>1, Zenon DEF WordPressEmbed!AutoInit, EmbedWires, WordPressEmbed!Wire, WordPressFeed!Wire, WordPressEmbed!OpenSocket, WordPressFeed!OpenSocket,
              WordPressEmbed!server, WordPressFeed!server
<1>2. ~WordPressEmbed!WireFeed
  BY DEF WordPressEmbed!WireFeed
<1>3. WordPressEmbed!TokenFetched => WordPressFeed!TokenFetched
  BY DEF WordPressEmbed!TokenFetched, WordPressFeed!TokenFetched, WordPressEmbed!Wire, WordPressFeed!Wire, WordPressEmbed!OpenSocket, WordPressFeed!OpenSocket, WordPressEmbed!server, WordPressFeed!server
<1>4. WordPressEmbed!TokenFails => WordPressFeed!TokenFails
  BY DEF WordPressEmbed!TokenFails, WordPressFeed!TokenFails, WordPressEmbed!server, WordPressFeed!server
<1>5. WordPressEmbed!SocketOpens => WordPressFeed!SocketOpens
  BY DEF WordPressEmbed!SocketOpens, WordPressFeed!SocketOpens, WordPressEmbed!page, WordPressFeed!page
<1>6. WordPressEmbed!SocketErrors => WordPressFeed!SocketErrors
  BY DEF WordPressEmbed!SocketErrors, WordPressFeed!SocketErrors, WordPressEmbed!page, WordPressFeed!page, WordPressEmbed!server, WordPressFeed!server
<1>7. ASSUME NEW code, WordPressEmbed!SocketCloses(code) PROVE WordPressFeed!SocketCloses(code)
  BY <1>7 DEF WordPressEmbed!SocketCloses, WordPressFeed!SocketCloses, WordPressEmbed!page, WordPressFeed!page
<1>8. WordPressEmbed!TimerFires => WordPressFeed!TimerFires
  BY DEF WordPressEmbed!TimerFires, WordPressFeed!TimerFires, WordPressEmbed!OpenSocket, WordPressFeed!OpenSocket, WordPressEmbed!page, WordPressFeed!page, WordPressEmbed!server, WordPressFeed!server
<1>9. WordPressEmbed!Receive => WordPressFeed!Receive
  BY DEF WordPressEmbed!Receive, WordPressFeed!Receive, WordPressEmbed!Trimmed, WordPressFeed!Trimmed
<1>10. WordPressEmbed!ServerTakes => WordPressFeed!ServerTakes
  BY DEF WordPressEmbed!ServerTakes, WordPressFeed!ServerTakes, WordPressEmbed!page, WordPressFeed!page
<1>11. WordPressEmbed!Publish => WordPressFeed!Publish
  BY DEF WordPressEmbed!Publish, WordPressFeed!Publish, WordPressEmbed!page, WordPressFeed!page
<1>12. WordPressEmbed!FocusChanges => WordPressFeed!FocusChanges
  BY DEF WordPressEmbed!FocusChanges, WordPressFeed!FocusChanges, WordPressEmbed!server, WordPressFeed!server
<1>13. (\E code \in {1006, 4001} : WordPressEmbed!SocketCloses(code)) =>
          (\E code \in {1006, 4001} : WordPressFeed!SocketCloses(code))
  BY <1>7
<1> QED
  BY <1>1, <1>2, <1>3, <1>4, <1>5, <1>6, <1>8, <1>9, <1>10, <1>11, <1>12, <1>13
     DEF WordPressEmbed!Next, WordPressFeed!Next

\* So does the copy that vanilla-client has.
LEMMA VanillaSteps == VanillaEmbed!Next => WordPressFeed!Next \/ EmbedWires
<1>1. CASE VanillaEmbed!AutoInit
  BY <1>1, Zenon DEF VanillaEmbed!AutoInit, EmbedWires, VanillaEmbed!Wire, WordPressFeed!Wire, VanillaEmbed!OpenSocket, WordPressFeed!OpenSocket,
              VanillaEmbed!server, WordPressFeed!server
<1>2. ~VanillaEmbed!WireFeed
  BY DEF VanillaEmbed!WireFeed
<1>3. VanillaEmbed!TokenFetched => WordPressFeed!TokenFetched
  BY DEF VanillaEmbed!TokenFetched, WordPressFeed!TokenFetched, VanillaEmbed!Wire, WordPressFeed!Wire, VanillaEmbed!OpenSocket, WordPressFeed!OpenSocket, VanillaEmbed!server, WordPressFeed!server
<1>4. VanillaEmbed!TokenFails => WordPressFeed!TokenFails
  BY DEF VanillaEmbed!TokenFails, WordPressFeed!TokenFails, VanillaEmbed!server, WordPressFeed!server
<1>5. VanillaEmbed!SocketOpens => WordPressFeed!SocketOpens
  BY DEF VanillaEmbed!SocketOpens, WordPressFeed!SocketOpens, VanillaEmbed!page, WordPressFeed!page
<1>6. VanillaEmbed!SocketErrors => WordPressFeed!SocketErrors
  BY DEF VanillaEmbed!SocketErrors, WordPressFeed!SocketErrors, VanillaEmbed!page, WordPressFeed!page, VanillaEmbed!server, WordPressFeed!server
<1>7. ASSUME NEW code, VanillaEmbed!SocketCloses(code) PROVE WordPressFeed!SocketCloses(code)
  BY <1>7 DEF VanillaEmbed!SocketCloses, WordPressFeed!SocketCloses, VanillaEmbed!page, WordPressFeed!page
<1>8. VanillaEmbed!TimerFires => WordPressFeed!TimerFires
  BY DEF VanillaEmbed!TimerFires, WordPressFeed!TimerFires, VanillaEmbed!OpenSocket, WordPressFeed!OpenSocket, VanillaEmbed!page, WordPressFeed!page, VanillaEmbed!server, WordPressFeed!server
<1>9. VanillaEmbed!Receive => WordPressFeed!Receive
  BY DEF VanillaEmbed!Receive, WordPressFeed!Receive, VanillaEmbed!Trimmed, WordPressFeed!Trimmed
<1>10. VanillaEmbed!ServerTakes => WordPressFeed!ServerTakes
  BY DEF VanillaEmbed!ServerTakes, WordPressFeed!ServerTakes, VanillaEmbed!page, WordPressFeed!page
<1>11. VanillaEmbed!Publish => WordPressFeed!Publish
  BY DEF VanillaEmbed!Publish, WordPressFeed!Publish, VanillaEmbed!page, WordPressFeed!page
<1>12. VanillaEmbed!FocusChanges => WordPressFeed!FocusChanges
  BY DEF VanillaEmbed!FocusChanges, WordPressFeed!FocusChanges, VanillaEmbed!server, WordPressFeed!server
<1>13. (\E code \in {1006, 4001} : VanillaEmbed!SocketCloses(code)) =>
          (\E code \in {1006, 4001} : WordPressFeed!SocketCloses(code))
  BY <1>7
<1> QED
  BY <1>1, <1>2, <1>3, <1>4, <1>5, <1>6, <1>8, <1>9, <1>10, <1>11, <1>12, <1>13
     DEF VanillaEmbed!Next, WordPressFeed!Next

\* All three start alike, and promise the same.
LEMMA SameFeed ==
  /\ WordPressEmbed!Init \/ VanillaEmbed!Init => FeedInv
  /\ WordPressFeed!NothingMissed => WordPressEmbed!NothingMissed /\ VanillaEmbed!NothingMissed
  /\ WordPressFeed!ReconnectingIsTrue => WordPressEmbed!ReconnectingIsTrue /\ VanillaEmbed!ReconnectingIsTrue
<1>1. WordPressEmbed!Init \/ VanillaEmbed!Init => FeedInv
  BY FeedStart DEF WordPressEmbed!Init, VanillaEmbed!Init, WordPressFeed!Init
<1>2. WordPressFeed!NothingMissed => WordPressEmbed!NothingMissed /\ VanillaEmbed!NothingMissed
  BY Zenon DEF WordPressFeed!NothingMissed, WordPressEmbed!NothingMissed, VanillaEmbed!NothingMissed,
               WordPressFeed!Listed, WordPressEmbed!Listed, VanillaEmbed!Listed
<1>3. WordPressFeed!ReconnectingIsTrue => WordPressEmbed!ReconnectingIsTrue /\ VanillaEmbed!ReconnectingIsTrue
  BY DEF WordPressFeed!ReconnectingIsTrue, WordPressEmbed!ReconnectingIsTrue, VanillaEmbed!ReconnectingIsTrue
<1> QED BY <1>1, <1>2, <1>3

\* A page that asked for the history and was never cut off misses no message, whatever is
\* published between SUB and REPLAY and however short its list; a feed that says
\* "Reconnecting" is trying, or was told that its token is refused, and that one never
\* opens another socket (mio-client.js and both copies of mio-embed.js).
THEOREM FeedsAreTrue == Spec => []FeedIsTrue
<1> DEFINE Feeds == {"wordpress-feed", "wordpress-embed", "vanilla-embed"}
<1> DEFINE Inv == program \in Feeds => FeedInv
<1>1. Init => Inv
  BY FeedStart, SameFeed DEF Init
<1>2. Inv /\ [Next]_vars => Inv'
  <2>1. ASSUME Inv, [Next]_vars, program \in Feeds PROVE FeedInv'
    <3>1. CASE EmbedWires
      BY <2>1, <3>1, WireStep DEF EmbedWires
    <3>2. CASE WordPressFeed!Next \/ WordPressEmbed!Next \/ VanillaEmbed!Next
      BY <2>1, <3>1, <3>2, FeedStep, EmbedSteps, VanillaSteps
    <3>3. CASE UNCHANGED vars
      BY <2>1, <3>3 DEF vars, FeedInv, FeedTypes, ReplayInv, WordPressFeed!ReconnectingIsTrue
    <3> QED BY <2>1, <3>2, <3>3 DEF Next
  <2> QED BY <2>1, SameProgram
<1>3. Inv => FeedIsTrue
  BY FeedImplies, SameFeed DEF FeedIsTrue
<1> QED BY <1>1, <1>2, <1>3, PTL DEF Spec

-----------------------------------------------------------------------------
(* WebPush                                                                 *)

control    == s1
vapidKey   == s2
browserSub == s5
endpoints  == s6
rows       == s7
calls      == s8
last       == s13
overlapped == s14
meddled    == s15
undeleted  == s16

USE DEF control, vapidKey, browserSub, endpoints, rows, calls, last, overlapped, meddled, undeleted

Links    == {"toggle", "permission", "worker", "lookup", "subscribe", "post", "unsubscribe", "delete", "done", "failed"}
PushCall == [op : {"register", "unregister", "subscribe", "unsubscribe"}, at : Links, endpoint : Nat]
Over     == {"done", "failed"}

\* Endpoints are numbers other than 0.  The hook that leaves the server to the application
\* is the only control that makes calls of the browser's half, and it writes no row.
PushTypes ==
  /\ calls \in Seq(PushCall) /\ last \in 0..Len(calls)
  /\ endpoints \in Nat /\ browserSub \in Nat /\ 0 \notin rows
  /\ \A i \in 1..Len(calls) : /\ calls[i].op \in {"subscribe", "unsubscribe"} <=> control = "hookBrowser"
                              /\ calls[i].at = "post" => calls[i].endpoint # 0
  /\ control = "hookBrowser" => rows = {}

\* While no two calls have run at once: only the last call runs; when it is about to post,
\* or to unsubscribe, it has the browser's subscription in hand; and a row that is not of
\* that subscription is about to be deleted.
OneAtATime ==
  ~overlapped =>
    /\ \A i \in 1..Len(calls) :
         calls[i].at \notin Over =>
           /\ i = Len(calls)
           /\ calls[i].at = "post" /\ (~meddled \/ ~undeleted) => browserSub = calls[i].endpoint
           /\ calls[i].at = "unsubscribe" /\ ~undeleted => browserSub = calls[i].endpoint
    /\ ~undeleted => \A e \in rows : \/ e = browserSub
                                     \/ calls # << >> /\ calls[Len(calls)].at = "delete" /\ calls[Len(calls)].endpoint = e

PushInv == PushTypes /\ OneAtATime /\ Push!RegisteredIsReachable

\* The calls that have not settled.
LEMMA RunningIs == calls \in Seq(PushCall) => Push!Running = {i \in 1..Len(calls) : calls[i].at \notin Over}
BY DEF Push!Running, Over

\* The invariant gives the property.
LEMMA PushImplies == PushInv => Push!RegisteredIsReachable /\ Push!NoDeadRows
<1> SUFFICES ASSUME PushInv, Push!Running = {}, ~overlapped, ~undeleted, NEW e \in rows PROVE e = browserSub
  BY DEF PushInv, Push!NoDeadRows, Push!Idle
<1>1. calls # << >> => Len(calls) \in 1..Len(calls) /\ calls[Len(calls)].at \in Over
  BY RunningIs DEF PushInv, PushTypes
<1> QED BY <1>1 DEF PushInv, OneAtATime, Over

\* There are no calls and no rows at first.
LEMMA PushStart == Push!Init => PushInv
BY DEF Push!Init, PushInv, PushTypes, OneAtATime, Push!RegisteredIsReachable

\* Call i goes on to `at', with endpoint e in hand.
Moved(i, at, e) ==
  /\ calls' \in Seq(PushCall) /\ Len(calls') = Len(calls)
  /\ calls'[i].op = calls[i].op /\ calls'[i].at = at /\ calls'[i].endpoint = e
  /\ \A j \in 1..Len(calls) : j # i => calls'[j] = calls[j]

\* How the steps of the model move a call.
LEMMA Moves ==
  ASSUME calls \in Seq(PushCall), NEW i \in 1..Len(calls), NEW at \in Links, NEW e \in Nat
  PROVE  /\ calls' = [calls EXCEPT ![i].at = at] => Moved(i, at, calls[i].endpoint)
         /\ calls' = [calls EXCEPT ![i].at = at, ![i].endpoint = e] => Moved(i, at, e)
<1>1. calls[i] \in PushCall
  OBVIOUS
<1>2. ASSUME NEW c \in PushCall, c.op = calls[i].op, c.at = at, calls' = [calls EXCEPT ![i] = c]
      PROVE  Moved(i, at, c.endpoint)
  BY <1>2 DEF Moved
<1>3. ASSUME calls' = [calls EXCEPT ![i].at = at] PROVE Moved(i, at, calls[i].endpoint)
  <2>1. PICK c : c = [calls[i] EXCEPT !.at = at]
    OBVIOUS
  <2>2. c \in PushCall /\ c.op = calls[i].op /\ c.at = at /\ c.endpoint = calls[i].endpoint
    BY <1>1, <2>1 DEF PushCall
  <2>3. calls' = [calls EXCEPT ![i] = c]
    BY <1>3, <2>1
  <2> QED BY <1>2, <2>2, <2>3
<1>4. ASSUME calls' = [calls EXCEPT ![i].at = at, ![i].endpoint = e] PROVE Moved(i, at, e)
  <2>1. PICK c : c = [calls[i] EXCEPT !.at = at, !.endpoint = e]
    OBVIOUS
  <2>2. c \in PushCall /\ c.op = calls[i].op /\ c.at = at /\ c.endpoint = e
    BY <1>1, <2>1 DEF PushCall
  <2>3. calls' = [calls EXCEPT ![i] = c]
    BY <1>4, <2>1
  <2> QED BY <1>2, <2>2, <2>3
<1> QED BY <1>3, <1>4

\* What no link of a chain changes.
SameCalls ==
  /\ UNCHANGED <<control, vapidKey, overlapped>>
  /\ endpoints' \in Nat /\ browserSub' \in Nat /\ 0 \notin rows'
  /\ control = "hookBrowser" => rows' = {}

\* A call that goes on.
LEMMA MoveStep ==
  ASSUME PushInv, SameCalls, UNCHANGED <<last, meddled, undeleted>>,
         NEW i \in 1..Len(calls), calls[i].at \notin Over,
         NEW at, at \notin Over, NEW e, Moved(i, at, e),
         at = "post" => e # 0 /\ browserSub' = e,
         at = "unsubscribe" => browserSub' = e,
         ~overlapped /\ ~undeleted => \A r \in rows' : r = browserSub' \/ (at = "delete" /\ r = e)
  PROVE  PushInv'
<1>1. PushTypes'
  BY DEF PushInv, PushTypes, SameCalls, Moved
<1>2. OneAtATime'
  <2> SUFFICES ASSUME ~overlapped PROVE OneAtATime'
    BY DEF OneAtATime, SameCalls
  <2>1. i = Len(calls) /\ i = Len(calls') /\ calls' # << >> /\ \A j \in 1..Len(calls) : calls[j].at \notin Over => j = i
    BY DEF PushInv, OneAtATime, Moved, PushTypes
  <2>2. ASSUME NEW j \in 1..Len(calls'), calls'[j].at \notin Over PROVE j = i
    BY <2>1, <2>2 DEF Moved
  <2>3. calls'[i].at = at /\ calls'[i].endpoint = e
    BY DEF Moved
  <2> QED BY <2>1, <2>2, <2>3 DEF OneAtATime, SameCalls
<1>3. Push!RegisteredIsReachable'
  <2>1. ~Push!Idle'
    <3>1. calls'[i].at \notin Over /\ i \in DOMAIN calls'
      BY DEF Moved
    <3> QED BY <3>1 DEF Push!Idle, Push!Running, Over
  <2> QED BY <2>1 DEF Push!RegisteredIsReachable
<1> QED BY <1>1, <1>2, <1>3 DEF PushInv

\* A call that settles.
LEMMA SettleStep ==
  ASSUME PushInv, SameCalls, meddled' = meddled, undeleted => undeleted',
         NEW i \in 1..Len(calls), calls[i].at \notin Over,
         NEW how \in Over, Moved(i, how, calls[i].endpoint), last' = i,
         ~overlapped /\ ~undeleted' => rows' \subseteq {browserSub'},
         ~overlapped /\ ~meddled /\ vapidKey /\ how = "done" /\ calls[i].op = "register" =>
           browserSub' # 0 /\ browserSub' \in rows'
  PROVE  PushInv'
<1>1. PushTypes'
  <2>1. how # "post"
    BY DEF Over
  <2>2. calls' \in Seq(PushCall) /\ Len(calls') = Len(calls) /\ last' \in 0..Len(calls')
    BY DEF PushInv, PushTypes, Moved
  <2>3. ASSUME NEW j \in 1..Len(calls)
        PROVE  /\ calls'[j].op \in {"subscribe", "unsubscribe"} <=> control = "hookBrowser"
               /\ calls'[j].at = "post" => calls'[j].endpoint # 0
    <3>1. CASE j = i
      BY <2>1, <3>1 DEF PushInv, PushTypes, Moved
    <3>2. CASE j # i
      BY <3>2 DEF PushInv, PushTypes, Moved
    <3> QED BY <3>1, <3>2
  <2> QED BY <2>2, <2>3 DEF PushTypes, SameCalls
<1>2. OneAtATime'
  <2> SUFFICES ASSUME ~overlapped PROVE OneAtATime'
    BY DEF OneAtATime, SameCalls
  <2>1. \A j \in 1..Len(calls) : calls[j].at \notin Over => j = i
    BY DEF PushInv, OneAtATime
  <2>2. ASSUME NEW j \in 1..Len(calls') PROVE calls'[j].at \in Over
    BY <2>1 DEF Moved
  <2> QED BY <2>2 DEF OneAtATime, SameCalls
<1>3. Push!RegisteredIsReachable'
  BY DEF Push!RegisteredIsReachable, SameCalls, Moved
<1> QED BY <1>1, <1>2, <1>3 DEF PushInv


\* What a step leaves alone that neither the calls nor the registration are touched by.
PushSame == UNCHANGED <<control, vapidKey, browserSub, endpoints, rows, calls, last, overlapped, meddled, undeleted>>

\* Cards come and go, days pass, and a control reads the permission again.
LEMMA SamePush == PushInv /\ PushSame => PushInv'
BY DEF PushInv, PushTypes, OneAtATime, Push!RegisteredIsReachable, Push!Idle, Push!Running, PushSame

\* A call starts.
LEMMA StartStep ==
  ASSUME PushInv, NEW op, NEW at \in Links, at \notin Over \cup {"post", "unsubscribe", "delete"}, Push!Start(op, at),
         op \in {"register", "unregister", "subscribe", "unsubscribe"},
         op \in {"subscribe", "unsubscribe"} <=> control = "hookBrowser",
         UNCHANGED <<control, vapidKey, browserSub, endpoints, rows, last, undeleted>>
  PROVE  PushInv'
<1>1. PICK c : c = [op |-> op, at |-> at, endpoint |-> 0]
  OBVIOUS
<1>2. c \in PushCall /\ c.op = op /\ c.at = at
  BY <1>1 DEF PushCall
<1>3. calls \in Seq(PushCall) /\ calls' = Append(calls, c)
  BY <1>1 DEF PushInv, PushTypes, Push!Start
<1>4. PICK n \in Nat : n = Len(calls)
  BY <1>3
<1>5. /\ calls' \in Seq(PushCall) /\ Len(calls') = n + 1 /\ calls'[n + 1] = c
      /\ \A j \in 1..n : calls'[j] = calls[j]
  BY <1>2, <1>3, <1>4
<1>6. PushTypes'
  BY <1>2, <1>4, <1>5 DEF PushInv, PushTypes
<1>7. ~Push!Idle'
  BY <1>2, <1>4, <1>5 DEF Push!Idle, Push!Running, Over
<1>8. OneAtATime'
  <2> SUFFICES ASSUME ~overlapped' PROVE OneAtATime'
    BY DEF OneAtATime
  <2>1. ~overlapped /\ \A j \in 1..n : calls[j].at \in Over
    BY <1>3, <1>4, RunningIs DEF Push!Start, Push!Idle
  <2>2. ~undeleted => rows \subseteq {browserSub}
    <3>1. calls # << >> => calls[Len(calls)].at \in Over
      BY <1>3, <1>4, <2>1
    <3> QED BY <2>1, <3>1 DEF PushInv, OneAtATime, Over
  <2>3. ASSUME NEW j \in 1..Len(calls'), calls'[j].at \notin Over PROVE j = Len(calls') /\ calls'[j].at = at
    BY <1>2, <1>4, <1>5, <2>1, <2>3
  <2> QED BY <2>2, <2>3 DEF OneAtATime
<1> QED BY <1>6, <1>7, <1>8 DEF PushInv, Push!RegisteredIsReachable


\* What the invariant says of a call that has not settled.
LEMMA WhileRunning ==
  ASSUME PushInv, NEW i \in DOMAIN calls, calls[i].at \notin Over
  PROVE  /\ i \in 1..Len(calls) /\ calls[i] \in PushCall
         /\ ~overlapped /\ ~undeleted => \A e \in rows : e = browserSub \/ (calls[i].at = "delete" /\ e = calls[i].endpoint)
         /\ calls[i].at = "post" => calls[i].endpoint # 0
         /\ ~overlapped /\ calls[i].at = "post" /\ (~meddled \/ ~undeleted) => browserSub = calls[i].endpoint
         /\ ~overlapped /\ ~undeleted /\ calls[i].at = "unsubscribe" => browserSub = calls[i].endpoint
         /\ calls[i].op \in {"subscribe", "unsubscribe"} <=> control = "hookBrowser"
         /\ control = "hookBrowser" => rows = {}
<1>1. calls \in Seq(PushCall)
  BY DEF PushInv, PushTypes
<1>2. i \in 1..Len(calls) /\ calls[i] \in PushCall
  BY <1>1
<1>3. ~overlapped => i = Len(calls)
  BY <1>2 DEF PushInv, OneAtATime
<1>4. /\ calls[i].op \in {"subscribe", "unsubscribe"} <=> control = "hookBrowser"
      /\ calls[i].at = "post" => calls[i].endpoint # 0
  BY <1>2 DEF PushInv, PushTypes
<1> QED BY <1>2, <1>3, <1>4 DEF PushInv, PushTypes, OneAtATime

\* The permission, the service worker and a refusal: the rows and the subscription stay.
LEMMA PlainLinks ==
  ASSUME PushInv, NEW i, NEW answer,
         \/ Push!ToggleAsks(i, answer)
         \/ Push!requestNotificationPermission(i, answer)
         \/ Push!registerPushServiceWorker(i)
         \/ Push!LinkFails(i)
  PROVE  PushInv'
<1>1. /\ i \in DOMAIN calls
      /\ calls[i].at \in {"toggle", "permission", "worker"} \/ (Push!LinkFails(i) /\ calls[i].at \in {"worker", "subscribe", "post", "delete"})
  BY DEF Push!ToggleAsks, Push!requestNotificationPermission, Push!registerPushServiceWorker, Push!LinkFails, Push!At, Push!Running
<1>2. calls[i].at \notin Over
  BY <1>1 DEF Over
<1>3. /\ i \in 1..Len(calls) /\ calls[i] \in PushCall
      /\ ~overlapped /\ ~undeleted => \A e \in rows : e = browserSub \/ (calls[i].at = "delete" /\ e = calls[i].endpoint)
  BY <1>1, <1>2, WhileRunning
<1>4. calls \in Seq(PushCall) /\ calls[i].endpoint \in Nat
  BY <1>3 DEF PushInv, PushTypes, PushCall
<1>5. UNCHANGED <<control, vapidKey, overlapped, endpoints, browserSub, rows, meddled>>
  BY DEF Push!ToggleAsks, Push!requestNotificationPermission, Push!registerPushServiceWorker, Push!LinkFails, Push!page, Push!ghosts
<1>6. SameCalls
  BY <1>5 DEF SameCalls, PushInv, PushTypes
<1>7. ASSUME NEW how, Push!Settle(i, how), how = "failed" \/ (how = "done" /\ ~vapidKey),
             undeleted \/ calls[i].at = "delete" => undeleted'
      PROVE  PushInv'
  <2>1. how \in Over /\ how \in Links
    BY <1>7 DEF Over, Links
  <2>2. Moved(i, how, calls[i].endpoint) /\ last' = i
    BY <1>3, <1>4, <1>7, <2>1, Moves DEF Push!Settle
  <2>3. ~overlapped /\ ~undeleted' => rows' \subseteq {browserSub'}
    BY <1>3, <1>5, <1>7
  <2> QED BY <1>2, <1>3, <1>5, <1>6, <1>7, <2>1, <2>2, <2>3, SettleStep
<1>8. ASSUME NEW at \in {"permission", "worker", "lookup"}, Push!Step(i, at), undeleted' = undeleted, calls[i].at # "delete"
      PROVE  PushInv'
  <2>1. at \in Links /\ at \notin Over /\ at # "post" /\ at # "unsubscribe"
    BY <1>8 DEF Over, Links
  <2>2. Moved(i, at, calls[i].endpoint) /\ last' = last
    BY <1>3, <1>4, <1>8, <2>1, Moves DEF Push!Step
  <2>3. ~overlapped /\ ~undeleted => \A r \in rows' : r = browserSub'
    BY <1>3, <1>5, <1>8
  <2> QED BY <1>2, <1>3, <1>5, <1>6, <1>8, <2>1, <2>2, <2>3, MoveStep
<1>9. CASE Push!ToggleAsks(i, answer)
  <2>1. calls[i].at = "toggle" /\ undeleted' = undeleted
    BY <1>9 DEF Push!ToggleAsks, Push!At, Push!ghosts
  <2>2. \/ Push!Settle(i, "failed") \/ (Push!Settle(i, "done") /\ ~vapidKey)
        \/ Push!Step(i, "permission")
    BY <1>9 DEF Push!ToggleAsks, Push!registerPushSubscriptionAction
  <2> QED BY <1>7, <1>8, <2>1, <2>2
<1>10. CASE Push!requestNotificationPermission(i, answer)
  <2>1. calls[i].at = "permission" /\ undeleted' = undeleted
    BY <1>10 DEF Push!requestNotificationPermission, Push!At, Push!ghosts
  <2>2. Push!Settle(i, "failed") \/ Push!Step(i, "worker")
    BY <1>10 DEF Push!requestNotificationPermission
  <2> QED BY <1>7, <1>8, <2>1, <2>2
<1>11. CASE Push!registerPushServiceWorker(i)
  <2>1. calls[i].at = "worker" /\ undeleted' = undeleted /\ Push!Step(i, "lookup")
    BY <1>11 DEF Push!registerPushServiceWorker, Push!ghosts
  <2> QED BY <1>8, <2>1
<1>12. CASE Push!LinkFails(i)
  BY <1>7, <1>12 DEF Push!LinkFails
<1> QED BY <1>9, <1>10, <1>11, <1>12


\* The browser hands out its subscription, or gives it up.
LEMMA BrowserLinks ==
  ASSUME PushInv, NEW i, Push!subscribeToPush(i) \/ Push!LookUpSubscription(i) \/ Push!unsubscribeFromPush(i)
  PROVE  PushInv'
<1>1. i \in DOMAIN calls /\ calls[i].at \in {"lookup", "subscribe", "unsubscribe"}
  BY DEF Push!subscribeToPush, Push!LookUpSubscription, Push!unsubscribeFromPush, Push!At
<1>2. calls[i].at \notin Over /\ calls[i].at # "delete"
  BY <1>1 DEF Over
<1>3. /\ i \in 1..Len(calls) /\ calls[i] \in PushCall
      /\ ~overlapped /\ ~undeleted => \A e \in rows : e = browserSub
      /\ ~overlapped /\ ~undeleted /\ calls[i].at = "unsubscribe" => browserSub = calls[i].endpoint
      /\ calls[i].op \in {"subscribe", "unsubscribe"} => rows = {}
  BY <1>1, <1>2, WhileRunning
<1>4. /\ calls \in Seq(PushCall) /\ calls[i].endpoint \in Nat /\ browserSub \in Nat /\ endpoints \in Nat /\ 0 \notin rows
      /\ control = "hookBrowser" => rows = {}
  BY <1>3 DEF PushInv, PushTypes, PushCall
<1>5. UNCHANGED <<control, vapidKey, overlapped, rows, meddled, undeleted>>
  BY DEF Push!subscribeToPush, Push!LookUpSubscription, Push!unsubscribeFromPush, Push!page, Push!ghosts
<1>6. endpoints' \in Nat /\ browserSub' \in Nat
  BY <1>4 DEF Push!subscribeToPush, Push!LookUpSubscription, Push!unsubscribeFromPush
<1>7. SameCalls
  BY <1>4, <1>5, <1>6 DEF SameCalls
<1>8. ASSUME Push!Settle(i, "done"), calls[i].op # "register", rows \subseteq {browserSub'} \/ overlapped \/ undeleted
      PROVE  PushInv'
  <2>1. "done" \in Over /\ "done" \in Links
    BY DEF Over, Links
  <2>2. Moved(i, "done", calls[i].endpoint) /\ last' = i
    BY <1>3, <1>4, <1>8, <2>1, Moves DEF Push!Settle
  <2> QED BY <1>2, <1>3, <1>5, <1>7, <1>8, <2>1, <2>2, SettleStep
<1>9. ASSUME NEW at \in {"subscribe", "post", "unsubscribe", "delete"}, NEW e \in Nat, last' = last,
             Moved(i, at, e),
             at = "post" => e # 0 /\ browserSub' = e,
             at = "unsubscribe" => browserSub' = e,
             ~overlapped /\ ~undeleted => \A r \in rows : r = browserSub' \/ (at = "delete" /\ r = e)
      PROVE  PushInv'
  <2>1. at \notin Over
    BY <1>9 DEF Over
  <2> QED BY <1>2, <1>3, <1>5, <1>7, <1>9, <2>1, MoveStep
<1>10. ASSUME NEW at \in {"subscribe", "delete"}, Push!Step(i, at),
              at = "delete" => calls[i].at = "unsubscribe", at = "subscribe" => browserSub' = browserSub
       PROVE  PushInv'
  <2>1. at \in Links
    BY <1>10 DEF Links
  <2>2. Moved(i, at, calls[i].endpoint) /\ last' = last
    BY <1>3, <1>4, <1>10, <2>1, Moves DEF Push!Step
  <2> QED BY <1>3, <1>4, <1>9, <1>10, <2>2
<1>11. ASSUME NEW at \in {"post", "unsubscribe"}, NEW e \in Nat, e # 0, browserSub' = e, last' = last,
              browserSub = e \/ browserSub = 0,
              calls' = [calls EXCEPT ![i].at = at, ![i].endpoint = e]
       PROVE  PushInv'
  <2>1. at \in Links
    BY <1>11 DEF Links
  <2>2. Moved(i, at, e)
    BY <1>3, <1>4, <1>11, <2>1, Moves
  <2>3. ~overlapped /\ ~undeleted => \A r \in rows : r = browserSub'
    BY <1>3, <1>4, <1>11
  <2> QED BY <1>9, <1>11, <2>2, <2>3
<1>12. CASE Push!subscribeToPush(i)
  <2>1. calls[i].op \in {"register", "subscribe"}
    BY <1>12 DEF Push!subscribeToPush, Push!At
  <2>2. CASE browserSub # 0
    <3>1. CASE calls[i].op = "register"
      BY <1>4, <1>11, <1>12, <2>2, <3>1 DEF Push!subscribeToPush
    <3>2. CASE calls[i].op # "register"
      BY <1>3, <1>8, <1>12, <2>1, <2>2, <3>2 DEF Push!subscribeToPush
    <3> QED BY <3>1, <3>2
  <2>3. CASE browserSub = 0 /\ calls[i].at = "lookup"
    BY <1>10, <1>12, <2>3 DEF Push!subscribeToPush
  <2>4. CASE browserSub = 0 /\ calls[i].at # "lookup"
    <3>1. PICK e : e = endpoints + 1
      OBVIOUS
    <3>2. e \in Nat /\ e # 0
      BY <1>4, <3>1
    <3>3. browserSub' = e
      BY <1>12, <2>4, <3>1 DEF Push!subscribeToPush
    <3>4. CASE calls[i].op = "register"
      <4>1. calls' = [calls EXCEPT ![i].at = "post", ![i].endpoint = e] /\ last' = last
        BY <1>12, <2>4, <3>1, <3>4 DEF Push!subscribeToPush
      <4> QED BY <1>11, <2>4, <3>2, <3>3, <4>1
    <3>5. CASE calls[i].op # "register"
      BY <1>3, <1>8, <1>12, <2>1, <2>4, <3>5 DEF Push!subscribeToPush
    <3> QED BY <3>4, <3>5
  <2> QED BY <2>2, <2>3, <2>4
<1>13. CASE Push!LookUpSubscription(i)
  <2>1. calls[i].op \in {"unregister", "unsubscribe"} /\ browserSub' = browserSub
    BY <1>13 DEF Push!LookUpSubscription, Push!At
  <2>2. CASE browserSub = 0
    <3>1. Push!Settle(i, "done")
      BY <1>13, <2>2 DEF Push!LookUpSubscription
    <3> QED BY <1>3, <1>8, <2>1, <3>1
  <2>3. CASE browserSub # 0
    <3>1. calls' = [calls EXCEPT ![i].at = "unsubscribe", ![i].endpoint = browserSub] /\ last' = last
      BY <1>13, <2>3 DEF Push!LookUpSubscription
    <3> QED BY <1>4, <1>11, <2>1, <2>3, <3>1
  <2> QED BY <2>2, <2>3
<1>14. CASE Push!unsubscribeFromPush(i)
  <2>1. calls[i].op \in {"unregister", "unsubscribe"} /\ calls[i].at = "unsubscribe"
    BY <1>14 DEF Push!unsubscribeFromPush, Push!At
  <2>2. CASE calls[i].op = "unregister"
    <3>1. Push!Step(i, "delete")
      BY <1>14, <2>2 DEF Push!unsubscribeFromPush
    <3> QED BY <1>10, <2>1, <3>1
  <2>3. CASE calls[i].op = "unsubscribe"
    <3>1. Push!Settle(i, "done")
      BY <1>14, <2>3 DEF Push!unsubscribeFromPush
    <3> QED BY <1>3, <1>8, <2>3, <3>1
  <2> QED BY <2>1, <2>2, <2>3
<1> QED BY <1>12, <1>13, <1>14

\* The server adds a row, or deletes one.
LEMMA ServerLinks ==
  ASSUME PushInv, NEW i, NEW answered, Push!PostSubscription(i, answered) \/ Push!DeleteSubscription(i, answered)
  PROVE  PushInv'
<1>1. i \in DOMAIN calls /\ calls[i].at \in {"post", "delete"}
  BY DEF Push!PostSubscription, Push!DeleteSubscription, Push!At
<1>2. calls[i].at \notin Over
  BY <1>1 DEF Over
<1>3. /\ i \in 1..Len(calls) /\ calls[i] \in PushCall
      /\ ~overlapped /\ ~undeleted => \A e \in rows : e = browserSub \/ (calls[i].at = "delete" /\ e = calls[i].endpoint)
      /\ calls[i].at = "post" => calls[i].endpoint # 0
      /\ ~overlapped /\ calls[i].at = "post" /\ (~meddled \/ ~undeleted) => browserSub = calls[i].endpoint
      /\ calls[i].op \in {"subscribe", "unsubscribe"} <=> control = "hookBrowser"
  BY <1>1, <1>2, WhileRunning
<1>4. /\ calls \in Seq(PushCall) /\ calls[i].endpoint \in Nat /\ browserSub \in Nat /\ endpoints \in Nat /\ 0 \notin rows
      /\ control = "hookBrowser" => rows = {}
  BY <1>3 DEF PushInv, PushTypes, PushCall
<1>5. UNCHANGED <<control, vapidKey, overlapped, browserSub, endpoints, meddled, undeleted>>
  BY DEF Push!PostSubscription, Push!DeleteSubscription, Push!page, Push!ghosts
<1>6. PICK how \in {"done", "failed"} : Push!Settle(i, how)
  BY DEF Push!PostSubscription, Push!DeleteSubscription
<1>7. how \in Over /\ how \in Links
  BY <1>6 DEF Over, Links
<1>8. Moved(i, how, calls[i].endpoint) /\ last' = i
  BY <1>3, <1>4, <1>6, <1>7, Moves DEF Push!Settle
<1>9. CASE Push!PostSubscription(i, answered)
  <2>1. calls[i].op = "register" /\ calls[i].at = "post" /\ rows' = rows \cup {calls[i].endpoint}
    BY <1>9 DEF Push!PostSubscription, Push!At
  <2>2. SameCalls
    BY <1>3, <1>4, <1>5, <2>1 DEF SameCalls
  <2>3. ~overlapped /\ ~undeleted' => rows' \subseteq {browserSub'}
    BY <1>3, <1>5, <2>1
  <2>4. ~overlapped /\ ~meddled => browserSub' # 0 /\ browserSub' \in rows'
    BY <1>3, <1>5, <2>1
  <2> QED BY <1>2, <1>3, <1>5, <1>7, <1>8, <2>2, <2>3, <2>4, SettleStep
<1>10. CASE Push!DeleteSubscription(i, answered)
  <2>1. calls[i].op = "unregister" /\ calls[i].at = "delete" /\ rows' = rows \ {calls[i].endpoint}
    BY <1>10 DEF Push!DeleteSubscription, Push!At
  <2>2. SameCalls
    BY <1>4, <1>5, <2>1 DEF SameCalls
  <2>3. ~overlapped /\ ~undeleted' => rows' \subseteq {browserSub'}
    BY <1>3, <1>5, <2>1
  <2> QED BY <1>2, <1>3, <1>5, <1>7, <1>8, <2>1, <2>2, <2>3, SettleStep
<1> QED BY <1>9, <1>10

\* A device is revoked elsewhere, or the user blocks notifications.
LEMMA MeddleStep ==
  ASSUME PushInv, NEW e, Push!doRevokeDevice(e) \/ Push!Block
  PROVE  PushInv'
<1>1. /\ UNCHANGED <<control, vapidKey, endpoints, calls, last, overlapped>> /\ meddled' = TRUE
      /\ rows' \subseteq rows /\ (undeleted => undeleted')
      /\ browserSub' = browserSub \/ (browserSub' = 0 /\ undeleted')
  BY DEF Push!doRevokeDevice, Push!Block, Push!page, Push!ghosts
<1>2. PushTypes'
  BY <1>1 DEF PushInv, PushTypes
<1>3. OneAtATime'
  BY <1>1 DEF PushInv, OneAtATime
<1> QED BY <1>1, <1>2, <1>3 DEF PushInv, Push!RegisteredIsReachable


\* A call is started by a control: the hook of the browser's half starts that half only,
\* the others register and unregister.
LEMMA CallsStart ==
  ASSUME PushInv,
         \/ Push!SdkConfirm \/ Push!ScriptConfirm \/ Push!ReactConfirm
         \/ Push!autoInit \/ Push!ScriptUnsubscribe \/ Push!AppCalls
         \/ Push!PushPermissionButton \/ Push!usePushSubscription
         \/ Push!handleEnable \/ Push!handleDisable
  PROVE  PushInv'
<1>1. UNCHANGED <<control, vapidKey, browserSub, endpoints, rows, last, undeleted>>
  BY DEF Push!SdkConfirm, Push!ScriptConfirm, Push!ReactConfirm, Push!Confirm, Push!autoInit, Push!ScriptUnsubscribe,
         Push!AppCalls, Push!PushPermissionButton, Push!usePushSubscription, Push!handleEnable, Push!handleDisable,
         Push!page
<1>2. "permission" \in Links /\ "worker" \in Links /\ {"permission", "worker"} \cap (Over \cup {"post", "unsubscribe", "delete"}) = {}
  BY DEF Links, Over
<1>3. ASSUME NEW op, NEW at, Push!Start(op, at), at \in {"permission", "worker"},
             \/ control # "hookBrowser" /\ op \in {"register", "unregister"}
             \/ control = "hookBrowser" /\ op \in {"subscribe", "unsubscribe"}
      PROVE  PushInv'
  <2>1. at \in Links /\ at \notin Over \cup {"post", "unsubscribe", "delete"}
    BY <1>2, <1>3
  <2>2. /\ op \in {"register", "unregister", "subscribe", "unsubscribe"}
        /\ op \in {"subscribe", "unsubscribe"} <=> control = "hookBrowser"
    BY <1>3
  <2> QED BY <1>1, <1>3, <2>1, <2>2, StartStep
<1>4. CASE Push!usePushSubscription
  <2>1. control = "hookBrowser" /\ (Push!Start("subscribe", "permission") \/ Push!Start("unsubscribe", "worker"))
    BY <1>4 DEF Push!usePushSubscription
  <2> QED BY <1>3, <2>1
<1>5. CASE ~Push!usePushSubscription
  <2>1. control # "hookBrowser" /\ (Push!Start("register", "permission") \/ Push!Start("unregister", "worker"))
    BY <1>5 DEF Push!SdkConfirm, Push!ScriptConfirm, Push!ReactConfirm, Push!Confirm, Push!autoInit, Push!ScriptUnsubscribe,
         Push!AppCalls, Push!PushPermissionButton, Push!handleEnable, Push!handleDisable,
         Push!useWebPushRegistration, Push!registerWebPushSubscription, Push!unregisterWebPushSubscription, Push!subscribe,
         Push!unsubscribe, Push!registerPortalPushAction, Push!unregisterPortalPushAction
  <2> QED BY <1>3, <2>1
<1> QED BY <1>4, <1>5

\* The toggle starts a call, or reads the permission.
LEMMA ToggleStep == ASSUME PushInv, Push!ToggleClick PROVE PushInv'
<1>1. UNCHANGED <<control, vapidKey, browserSub, endpoints, rows, last, undeleted>> /\ control = "toggle"
  BY DEF Push!ToggleClick, Push!page
<1>2. \/ Push!Start("unregister", "worker") \/ Push!Start("register", "toggle")
      \/ UNCHANGED <<calls, overlapped, meddled>>
  BY DEF Push!ToggleClick, Push!unregisterPushSubscriptionAction
<1>3. "toggle" \in Links /\ "worker" \in Links /\ {"toggle", "worker"} \cap (Over \cup {"post", "unsubscribe", "delete"}) = {}
  BY DEF Links, Over
<1>4. CASE UNCHANGED <<calls, overlapped, meddled>>
  BY <1>1, <1>4, SamePush DEF PushSame
<1>5. CASE Push!Start("unregister", "worker")
  BY <1>1, <1>3, <1>5, StartStep
<1>6. CASE Push!Start("register", "toggle")
  BY <1>1, <1>3, <1>6, StartStep
<1> QED BY <1>2, <1>4, <1>5, <1>6

\* Every step of WebPush keeps the invariant.
LEMMA PushStep == PushInv /\ Push!Next => PushInv'
<1> SUFFICES ASSUME PushInv, Push!Next PROVE PushInv'
  OBVIOUS
<1>1. CASE \/ Push!showPushPermissionPopup \/ Push!showPopup \/ Push!PushPermissionPopup
           \/ Push!dismiss \/ Push!handleDismiss \/ Push!remove \/ Push!Remount \/ Push!NextDay
  <2>1. PushSame
    BY <1>1 DEF Push!showPushPermissionPopup, Push!showPopup, Push!PushPermissionPopup, Push!ShowCard, Push!dismiss,
         Push!handleDismiss, Push!remove, Push!Remount, Push!NextDay, Push!page, PushSame
  <2> QED BY <2>1, SamePush
<1>2. CASE \/ Push!SdkConfirm \/ Push!ScriptConfirm \/ Push!ReactConfirm
           \/ Push!autoInit \/ Push!ScriptUnsubscribe \/ Push!AppCalls
           \/ Push!PushPermissionButton \/ Push!usePushSubscription
           \/ Push!handleEnable \/ Push!handleDisable
  BY <1>2, CallsStart
<1>3. CASE Push!ToggleClick
  BY <1>3, ToggleStep
<1>4. CASE \E e \in 1..MaxEndpoints : Push!doRevokeDevice(e)
  BY <1>4, MeddleStep
<1>5. CASE Push!Block
  BY <1>5, MeddleStep
<1>6. ASSUME NEW i \in 1..MaxCalls, NEW answer, Push!ToggleAsks(i, answer) \/ Push!requestNotificationPermission(i, answer)
      PROVE  PushInv'
  BY <1>6, PlainLinks
<1>7. ASSUME NEW i \in 1..MaxCalls, Push!registerPushServiceWorker(i) \/ Push!LinkFails(i) PROVE PushInv'
  BY <1>7, PlainLinks
<1>8. ASSUME NEW i \in 1..MaxCalls, Push!subscribeToPush(i) \/ Push!LookUpSubscription(i) \/ Push!unsubscribeFromPush(i)
      PROVE  PushInv'
  BY <1>8, BrowserLinks
<1>9. ASSUME NEW i \in 1..MaxCalls, NEW answered, Push!PostSubscription(i, answered) \/ Push!DeleteSubscription(i, answered)
      PROVE  PushInv'
  BY <1>9, ServerLinks
<1> QED BY <1>1, <1>2, <1>3, <1>4, <1>5, <1>6, <1>7, <1>8, <1>9 DEF Push!Next

\* After calls made one at a time, a control that says the browser is registered is right,
\* and the server keeps no row for a dead endpoint it was not kept from deleting, for any
\* number of calls, endpoints and days (registerWebPushSubscription and
\* unregisterWebPushSubscription of notifications.ts and the controls that call them).
THEOREM PushRowsStayTrue == Spec => []PushRowsAgree
<1> DEFINE Inv == program = "push" => PushInv
<1>1. Init => Inv
  BY PushStart DEF Init
<1>2. Inv /\ [Next]_vars => Inv'
  <2>1. ASSUME Inv, [Next]_vars, program = "push" PROVE PushInv'
    <3>1. CASE Push!Next
      BY <2>1, <3>1, PushStep
    <3>2. CASE UNCHANGED vars
      BY <2>1, <3>2, SamePush DEF vars, PushSame
    <3> QED BY <2>1, <3>1, <3>2 DEF Next
  <2> QED BY <2>1, SameProgram
<1>3. Inv => PushRowsAgree
  BY PushImplies DEF PushRowsAgree
<1> QED BY <1>1, <1>2, <1>3, PTL DEF Spec

-----------------------------------------------------------------------------
(* Sequences without repetition                                            *)

Distinct(s)       == \A i, j \in 1..Len(s) : s[i] = s[j] => i = j
Has(s, x)         == \E i \in 1..Len(s) : s[i] = x
HasAfter(s, n, x) == \E i \in 1..Len(s) : i > n /\ s[i] = x

\* Two sequences one after the other.
LEMMA Joined ==
  ASSUME NEW S, NEW a \in Seq(S), NEW b \in Seq(S)
  PROVE  /\ a \o b \in Seq(S) /\ Len(a \o b) = Len(a) + Len(b)
         /\ \A i \in 1..Len(a) : (a \o b)[i] = a[i]
         /\ \A i \in 1..Len(b) : (a \o b)[Len(a) + i] = b[i]
OBVIOUS

\* What comes before a place.
LEMMA Front ==
  ASSUME NEW S, NEW s \in Seq(S), NEW p \in 1..Len(s)
  PROVE  /\ SubSeq(s, 1, p - 1) \in Seq(S) /\ Len(SubSeq(s, 1, p - 1)) = p - 1
         /\ \A i \in 1..p - 1 : SubSeq(s, 1, p - 1)[i] = s[i]
<1>1. SubSeq(s, 1, p - 1) \in Seq(S)
  OBVIOUS
<1>2. Len(SubSeq(s, 1, p - 1)) = p - 1
  OBVIOUS
<1>3. \A i \in 1..p - 1 : SubSeq(s, 1, p - 1)[i] = s[i]
  OBVIOUS
<1> QED BY <1>1, <1>2, <1>3

\* ... and after it.
LEMMA Back ==
  ASSUME NEW S, NEW s \in Seq(S), NEW p \in 1..Len(s)
  PROVE  /\ SubSeq(s, p + 1, Len(s)) \in Seq(S) /\ Len(SubSeq(s, p + 1, Len(s))) = Len(s) - p
         /\ \A i \in 1..Len(s) - p : SubSeq(s, p + 1, Len(s))[i] = s[p + i]
<1>1. SubSeq(s, p + 1, Len(s)) \in Seq(S)
  OBVIOUS
<1>2. Len(SubSeq(s, p + 1, Len(s))) = Len(s) - p
  OBVIOUS
<1>3. \A i \in 1..Len(s) - p : SubSeq(s, p + 1, Len(s))[i] = s[p + i]
  OBVIOUS
<1> QED BY <1>1, <1>2, <1>3

\* Where an element is.
LEMMA IndexIs ==
  ASSUME NEW S, NEW s \in Seq(S), NEW x, Has(s, x)
  PROVE  /\ SdkDispatch!Index(s, x) \in 1..Len(s) /\ s[SdkDispatch!Index(s, x)] = x
         /\ LightDispatch!Index(s, x) = SdkDispatch!Index(s, x)
<1>1. DOMAIN s = 1..Len(s)
  OBVIOUS
<1>2. \E i \in DOMAIN s : s[i] = x
  BY <1>1 DEF Has
<1> QED BY <1>1, <1>2 DEF SdkDispatch!Index, LightDispatch!Index

\* What RemoveAt leaves.
LEMMA RemoveAtIs ==
  ASSUME NEW S, NEW s \in Seq(S), NEW p \in 1..Len(s)
  PROVE  /\ SdkDispatch!RemoveAt(s, p) \in Seq(S) /\ Len(SdkDispatch!RemoveAt(s, p)) = Len(s) - 1
         /\ \A i \in 1..p - 1 : SdkDispatch!RemoveAt(s, p)[i] = s[i]
         /\ \A i \in p..Len(s) - 1 : SdkDispatch!RemoveAt(s, p)[i] = s[i + 1]
         /\ LightDispatch!RemoveAt(s, p) = SdkDispatch!RemoveAt(s, p)
<1>1. PICK l \in Nat : l = Len(s) /\ p \in 1..l
  OBVIOUS
<1>2. PICK a \in Seq(S) : a = SubSeq(s, 1, p - 1) /\ Len(a) = p - 1 /\ \A i \in 1..p - 1 : a[i] = s[i]
  BY Front
<1>3. PICK b \in Seq(S) : b = SubSeq(s, p + 1, Len(s)) /\ Len(b) = l - p /\ \A i \in 1..l - p : b[i] = s[p + i]
  <2>1. PICK b : b = SubSeq(s, p + 1, Len(s))
    OBVIOUS
  <2>2. b \in Seq(S) /\ Len(b) = Len(s) - p /\ \A i \in 1..Len(s) - p : b[i] = s[p + i]
    BY <2>1, Back
  <2>3. b \in Seq(S) /\ b = SubSeq(s, p + 1, Len(s)) /\ Len(b) = l - p /\ \A i \in 1..l - p : b[i] = s[p + i]
    BY <1>1, <2>1, <2>2
  <2> QED BY <2>3
<1>4. PICK c \in Seq(S) : /\ c = a \o b /\ Len(c) = (p - 1) + (l - p)
                          /\ \A i \in 1..p - 1 : c[i] = a[i]
                          /\ \A i \in 1..l - p : c[(p - 1) + i] = b[i]
  <2>1. PICK c : c = a \o b
    OBVIOUS
  <2>2. /\ c \in Seq(S) /\ Len(c) = Len(a) + Len(b)
        /\ \A i \in 1..Len(a) : c[i] = a[i]
        /\ \A i \in 1..Len(b) : c[Len(a) + i] = b[i]
    BY <2>1, Joined
  <2>3. Len(a) = p - 1 /\ Len(b) = l - p
    BY <1>2, <1>3
  <2>4. /\ c \in Seq(S) /\ c = a \o b /\ Len(c) = (p - 1) + (l - p)
        /\ \A i \in 1..p - 1 : c[i] = a[i]
        /\ \A i \in 1..l - p : c[(p - 1) + i] = b[i]
    BY <2>1, <2>2, <2>3
  <2> QED BY <2>4
<1>5. SdkDispatch!RemoveAt(s, p) = c /\ LightDispatch!RemoveAt(s, p) = c
  BY <1>2, <1>3, <1>4 DEF SdkDispatch!RemoveAt, LightDispatch!RemoveAt
<1>6. Len(c) = l - 1 /\ \A i \in 1..p - 1 : c[i] = s[i]
  <2>1. Len(c) = l - 1
    BY <1>1, <1>4
  <2> QED BY <1>2, <1>4, <2>1
<1>7. ASSUME NEW i \in p..l - 1 PROVE c[i] = s[i + 1]
  <2>1. PICK j \in 1..l - p : j = i - (p - 1) /\ (p - 1) + j = i /\ p + j = i + 1
    BY <1>1
  <2>2. c[(p - 1) + j] = b[j]
    BY <1>4
  <2>3. b[j] = s[p + j]
    BY <1>3
  <2> QED BY <2>1, <2>2, <2>3
<1> QED BY <1>1, <1>5, <1>6, <1>7

\* An element goes, and those after it move up; so does a position behind it.
LEMMA Removed ==
  ASSUME NEW S, NEW s \in Seq(S), Distinct(s), NEW x, Has(s, x), NEW n \in 0..Len(s),
         NEW t, t = SdkDispatch!Without(s, x) \/ t = LightDispatch!Without(s, x),
         NEW m, m = IF SdkDispatch!Index(s, x) <= n THEN n - 1 ELSE n
  PROVE  /\ t \in Seq(S) /\ Distinct(t) /\ Len(t) = Len(s) - 1 /\ m \in 0..Len(t)
         /\ \A y : Has(t, y) <=> Has(s, y) /\ y # x
         /\ \A y : HasAfter(t, m, y) <=> HasAfter(s, n, y) /\ y # x
<1>1. PICK p \in 1..Len(s) : p = SdkDispatch!Index(s, x) /\ p = LightDispatch!Index(s, x) /\ s[p] = x
  BY IndexIs
<1>2. t = SdkDispatch!RemoveAt(s, p)
  BY <1>1, RemoveAtIs DEF SdkDispatch!Without, LightDispatch!Without
<1>3. PICK l \in Nat : l = Len(s) /\ p \in 1..l /\ n \in 0..l
  BY <1>1
<1>4. /\ t \in Seq(S) /\ Len(t) = l - 1
      /\ \A i \in 1..p - 1 : t[i] = s[i]
      /\ \A i \in p..l - 1 : t[i] = s[i + 1]
  BY <1>2, <1>3, RemoveAtIs
<1>5. \A i \in 1..l : s[i] = x => i = p
  BY <1>1, <1>3 DEF Distinct
<1>6. m \in 0..l - 1 /\ m = IF p <= n THEN n - 1 ELSE n
  BY <1>1, <1>3
<1>7. ASSUME NEW i \in 1..l - 1
      PROVE  \E a \in 1..l : s[a] = t[i] /\ a # p /\ (i > m <=> a > n) /\ a = IF i < p THEN i ELSE i + 1
  <2>1. CASE i < p
    <3>1. i \in 1..l /\ i \in 1..p - 1 /\ i # p /\ (i > m <=> i > n)
      BY <1>3, <1>6, <2>1
    <3> QED BY <1>4, <2>1, <3>1
  <2>2. CASE ~(i < p)
    <3>1. i + 1 \in 1..l /\ i \in p..l - 1 /\ i + 1 # p /\ (i > m <=> i + 1 > n)
      BY <1>3, <1>6, <2>2
    <3>2. t[i] = s[i + 1]
      BY <1>4, <3>1
    <3> QED BY <2>2, <3>1, <3>2
  <2> QED BY <2>1, <2>2
<1>8. Distinct(t)
  <2> SUFFICES ASSUME NEW i \in 1..l - 1, NEW j \in 1..l - 1, t[i] = t[j] PROVE i = j
    BY <1>4 DEF Distinct
  <2>1. PICK a \in 1..l : s[a] = t[i] /\ a = IF i < p THEN i ELSE i + 1
    BY <1>7
  <2>2. PICK b \in 1..l : s[b] = t[j] /\ b = IF j < p THEN j ELSE j + 1
    BY <1>7
  <2>3. a = b
    BY <1>3, <2>1, <2>2 DEF Distinct
  <2> QED BY <1>3, <2>1, <2>2, <2>3
<1>9. ASSUME NEW a \in 1..l, a # p
      PROVE  \E i \in 1..l - 1 : t[i] = s[a] /\ (i > m <=> a > n)
  <2>1. CASE a < p
    <3>1. a \in 1..l - 1 /\ a \in 1..p - 1 /\ (a > m <=> a > n)
      BY <1>3, <1>6, <2>1
    <3> QED BY <1>4, <3>1
  <2>2. CASE a > p
    <3>1. PICK i \in 1..l - 1 : i + 1 = a /\ i \in p..l - 1 /\ (i > m <=> a > n)
      BY <1>3, <1>6, <2>2
    <3> QED BY <1>4, <3>1
  <2> QED BY <1>3, <1>9, <2>1, <2>2
<1>10. ASSUME NEW y PROVE (Has(t, y) <=> Has(s, y) /\ y # x) /\ (HasAfter(t, m, y) <=> HasAfter(s, n, y) /\ y # x)
  <2>1. ASSUME NEW i \in 1..Len(t), t[i] = y PROVE y # x /\ Has(s, y) /\ (i > m => HasAfter(s, n, y))
    <3>1. PICK a \in 1..l : s[a] = t[i] /\ a # p /\ (i > m <=> a > n)
      BY <1>4, <1>7
    <3>2. y # x
      BY <1>5, <2>1, <3>1
    <3> QED BY <1>3, <2>1, <3>1, <3>2 DEF Has, HasAfter
  <2>2. ASSUME NEW a \in 1..Len(s), s[a] = y, y # x PROVE Has(t, y) /\ (a > n => HasAfter(t, m, y))
    <3>1. PICK i \in 1..l - 1 : t[i] = s[a] /\ (i > m <=> a > n)
      BY <1>1, <1>3, <1>9, <2>2
    <3> QED BY <1>4, <2>2, <3>1 DEF Has, HasAfter
  <2> QED BY <2>1, <2>2 DEF Has, HasAfter
<1> QED BY <1>3, <1>4, <1>6, <1>8, <1>10

\* An element is added.
LEMMA Appended ==
  ASSUME NEW S, NEW s \in Seq(S), Distinct(s), NEW x \in S, ~Has(s, x), NEW n \in 0..Len(s)
  PROVE  /\ Append(s, x) \in Seq(S) /\ Distinct(Append(s, x)) /\ Append(s, x) # << >>
         /\ n \in 0..Len(Append(s, x))
         /\ \A y : Has(Append(s, x), y) <=> Has(s, y) \/ y = x
         /\ \A y : HasAfter(Append(s, x), n, y) <=> HasAfter(s, n, y) \/ y = x
<1>1. PICK l \in Nat, t \in Seq(S) : /\ l = Len(s) /\ t = Append(s, x) /\ Len(t) = l + 1 /\ t[l + 1] = x
                                     /\ \A i \in 1..l : t[i] = s[i]
  <2>1. Append(s, x) \in Seq(S) /\ Len(Append(s, x)) = Len(s) + 1 /\ Append(s, x)[Len(s) + 1] = x
    OBVIOUS
  <2>2. \A i \in 1..Len(s) : Append(s, x)[i] = s[i]
    OBVIOUS
  <2>3. Len(s) \in Nat
    OBVIOUS
  <2> QED BY <2>1, <2>2, <2>3
<1>2. Distinct(t)
  BY <1>1 DEF Distinct, Has
<1>3. \A y : Has(t, y) <=> Has(s, y) \/ y = x
  BY <1>1 DEF Has
<1>4. \A y : HasAfter(t, n, y) <=> HasAfter(s, n, y) \/ y = x
  BY <1>1 DEF HasAfter
<1>5. t # << >> /\ n \in 0..Len(t)
  BY <1>1
<1> QED BY <1>1, <1>2, <1>3, <1>4, <1>5

\* The first element is taken.
LEMMA Tailed ==
  ASSUME NEW S, NEW s \in Seq(S), Distinct(s), s # << >>
  PROVE  /\ Tail(s) \in Seq(S) /\ Distinct(Tail(s)) /\ Head(s) \in S /\ Has(s, Head(s))
         /\ \A y : Has(Tail(s), y) <=> Has(s, y) /\ y # Head(s)
<1>1. PICK l \in Nat, t \in Seq(S) : /\ l = Len(s) /\ t = Tail(s) /\ Len(t) = l - 1 /\ l >= 1
                                     /\ \A i \in 1..l - 1 : t[i] = s[i + 1]
  <2>1. Tail(s) \in Seq(S) /\ Len(Tail(s)) = Len(s) - 1
    OBVIOUS
  <2>2. \A i \in 1..Len(s) - 1 : Tail(s)[i] = s[i + 1]
    OBVIOUS
  <2>3. Len(s) \in Nat /\ Len(s) >= 1
    OBVIOUS
  <2> QED BY <2>1, <2>2, <2>3
<1>2. Head(s) = s[1] /\ s[1] \in S
  BY <1>1
<1>3. Distinct(t)
  <2> SUFFICES ASSUME NEW i \in 1..l - 1, NEW j \in 1..l - 1, t[i] = t[j] PROVE i = j
    BY <1>1 DEF Distinct
  <2>1. i + 1 \in 1..l /\ j + 1 \in 1..l /\ s[i + 1] = s[j + 1]
    BY <1>1
  <2>2. i + 1 = j + 1
    BY <1>1, <2>1 DEF Distinct
  <2> QED BY <1>1, <2>2
<1>4. ASSUME NEW y PROVE Has(t, y) <=> Has(s, y) /\ y # Head(s)
  <2>1. ASSUME NEW i \in 1..l - 1, t[i] = y PROVE Has(s, y) /\ y # s[1]
    <3>1. i + 1 \in 1..l /\ s[i + 1] = y /\ i + 1 # 1 /\ 1 \in 1..l
      BY <1>1, <2>1
    <3> QED BY <1>1, <3>1 DEF Distinct, Has
  <2>2. ASSUME NEW a \in 1..l, s[a] = y, y # s[1] PROVE Has(t, y)
    <3>1. PICK i \in 1..l - 1 : i + 1 = a
      BY <1>1, <2>2
    <3> QED BY <1>1, <2>2, <3>1 DEF Has
  <2> QED BY <1>1, <1>2, <2>1, <2>2 DEF Has
<1> QED BY <1>1, <1>2, <1>3, <1>4 DEF Has

\* A position moves on by one.
LEMMA Advanced ==
  ASSUME NEW S, NEW s \in Seq(S), Distinct(s)
  PROVE  /\ \A y : HasAfter(s, 0, y) <=> Has(s, y)
         /\ \A y : ~HasAfter(s, Len(s), y)
         /\ \A n \in 0..Len(s) : n < Len(s) =>
              /\ n + 1 \in 1..Len(s) /\ s[n + 1] \in S /\ HasAfter(s, n, s[n + 1])
              /\ \A y : HasAfter(s, n + 1, y) <=> HasAfter(s, n, y) /\ y # s[n + 1]
BY DEF HasAfter, Has, Distinct

-----------------------------------------------------------------------------
(* EventDispatch                                                           *)

order    == s1
handlers == s2
phase    == s4
event    == s5
keysLeft == s6
current  == s7
left     == s8
kept     == s11
called   == s12
failed   == s13

USE DEF order, handlers, phase, event, keysLeft, current, left, kept, called, failed

HandlerKey == {Exact} \cup Pattern

\* No handler is twice under a key and no key twice in the Map, which has the keys that
\* have handlers.
Registry ==
  /\ handlers \in [HandlerKey -> Seq(Handler)] /\ \A k \in HandlerKey : Distinct(handlers[k])
  /\ order \in Seq(HandlerKey) /\ Distinct(order)
  /\ \A k \in HandlerKey : Has(order, k) <=> handlers[k] # << >>

\* The registration r has yet to be served by the dispatch under way, which has the keys K
\* and, under the current key, the handlers H before it.
Waits(r, K, H) ==
  \/ phase = "listeners"
  \/ phase = "exact" /\ r[1] # Exact
  \/ r[1] = current /\ r[2] \in H
  \/ phase = "patterns" /\ r[1] \in Pattern /\ r[1] \in K

\* What was called adds up: nothing for who waits, one call for who does not.
Tally(K, H) ==
  /\ phase \in {"idle", "listeners", "exact", "patterns"}
  /\ phase \in {"idle", "listeners"} => current = "none"
  /\ phase = "exact" => current \in {Exact, "none"}
  /\ phase = "patterns" => current \in Pattern \cup {"none"} /\ current \notin K
  /\ called \in [HandlerKey \X Handler -> Nat] /\ kept \subseteq SdkDispatch!Registered
  /\ phase = "idle" => kept = {} /\ \A r \in HandlerKey \X Handler : called[r] = 0
  /\ \A r \in kept : called[r] = IF Waits(r, K, H) THEN 0 ELSE IF SdkDispatch!Runs(r[2]) THEN 1 ELSE 0

\* The positions of the live iterators, and what is before them.
SdkPlace ==
  /\ phase = "patterns" => keysLeft \in 0..Len(order)
  /\ current # "none" => handlers[current] # << >> /\ left \in 0..Len(handlers[current])
SdkKeys == IF phase = "patterns" THEN {k \in HandlerKey : HasAfter(order, keysLeft, k)} ELSE {}
SdkRest == IF current = "none" THEN {} ELSE {h \in Handler : HasAfter(handlers[current], left, h)}

\* The copies of the light client.
LightPlace ==
  /\ phase = "patterns" => keysLeft \in Seq(HandlerKey) /\ Distinct(keysLeft)
  /\ current # "none" => left \in Seq(Handler) /\ Distinct(left)
LightKeys == IF phase = "patterns" THEN {k \in HandlerKey : Has(keysLeft, k)} ELSE {}
LightRest == IF current = "none" THEN {} ELSE {h \in Handler : Has(left, h)}

SdkDispatchInv   == Registry /\ SdkPlace /\ Tally(SdkKeys, SdkRest)
LightDispatchInv == Registry /\ LightPlace /\ Tally(LightKeys, LightRest)

\* Both clients have the same notions of what is registered and who runs.
LEMMA SameRegistered ==
  /\ SdkDispatch!Registered = {r \in HandlerKey \X Handler : Has(handlers[r[1]], r[2])}
  /\ SdkDispatch!Registered' = {r \in HandlerKey \X Handler : Has(handlers'[r[1]], r[2])}
  /\ LightDispatch!Registered = SdkDispatch!Registered
  /\ SdkDispatch!Key = HandlerKey /\ LightDispatch!Key = HandlerKey
BY DEF SdkDispatch!Registered, LightDispatch!Registered, SdkDispatch!Contains, LightDispatch!Contains,
       SdkDispatch!Key, LightDispatch!Key, HandlerKey, Has

\* Handlers come and go while one is called: the tally stands when who stays registered
\* waits as before.
LEMMA TallyTouch ==
  ASSUME NEW K, NEW H, NEW K2, NEW H2, Tally(K, H), phase' = phase, event' = event, called' = called,
         kept' \subseteq kept, kept' \subseteq SdkDispatch!Registered',
         current' \in {current, "none"}, phase = "patterns" => current' \notin K2,
         \A r \in kept' : /\ (r[1] = current' /\ r[2] \in H2) <=> (r[1] = current /\ r[2] \in H)
                          /\ phase = "patterns" => (r[1] \in K2 <=> r[1] \in K)
  PROVE  Tally(K2, H2)'
<1>1. \A r \in kept' : Waits(r, K2, H2)' <=> Waits(r, K, H)
  BY DEF Waits
<1>2. \A h : SdkDispatch!Runs(h)' <=> SdkDispatch!Runs(h)
  BY DEF SdkDispatch!Runs
<1>3. \A r \in kept' : called'[r] = IF Waits(r, K2, H2)' THEN 0 ELSE IF SdkDispatch!Runs(r[2])' THEN 1 ELSE 0
  <2> SUFFICES ASSUME NEW r \in kept' PROVE called'[r] = IF Waits(r, K2, H2)' THEN 0 ELSE IF SdkDispatch!Runs(r[2])' THEN 1 ELSE 0
    OBVIOUS
  <2>1. called[r] = IF Waits(r, K, H) THEN 0 ELSE IF SdkDispatch!Runs(r[2]) THEN 1 ELSE 0
    BY DEF Tally
  <2> QED BY <1>1, <1>2, <2>1
<1>4. /\ phase' \in {"idle", "listeners", "exact", "patterns"}
      /\ phase' \in {"idle", "listeners"} => current' = "none"
      /\ phase' = "exact" => current' \in {Exact, "none"}
      /\ phase' = "patterns" => current' \in Pattern \cup {"none"} /\ current' \notin K2
  BY DEF Tally
<1>5. /\ called' \in [HandlerKey \X Handler -> Nat]
      /\ phase' = "idle" => kept' = {} /\ \A r \in HandlerKey \X Handler : called'[r] = 0
  BY DEF Tally
<1> QED BY <1>3, <1>4, <1>5 DEF Tally

\* A message arrives.
LEMMA TallyArrives ==
  ASSUME NEW K, NEW H, Tally(K, H), phase = "idle", phase' = "listeners", current' = current,
         handlers' = handlers, called' = called, kept' = SdkDispatch!Registered
  PROVE  Tally(K, H)'
<1>1. SdkDispatch!Registered' = SdkDispatch!Registered /\ SdkDispatch!Registered \subseteq HandlerKey \X Handler
  BY SameRegistered DEF SdkDispatch!Registered
<1>2. \A r \in kept' : called'[r] = 0 /\ Waits(r, K, H)'
  BY <1>1 DEF Waits, Tally
<1> QED BY <1>1, <1>2 DEF Tally

\* The next handler is called.
LEMMA TallyCall ==
  ASSUME NEW K, NEW H, NEW H2, Tally(K, H), current # "none", NEW h \in Handler, h \in H, H2 = H \ {h},
         called' = [called EXCEPT ![<<current, h>>] = IF SdkDispatch!Runs(h) THEN @ + 1 ELSE @],
         phase' = phase, event' = event, kept' = kept, handlers' = handlers, current' = current
  PROVE  Tally(K, H2)'
<1>1. phase \in {"exact", "patterns"} /\ <<current, h>> \in HandlerKey \X Handler
  BY DEF Tally, HandlerKey
<1>2. called' \in [HandlerKey \X Handler -> Nat] /\ called \in [HandlerKey \X Handler -> Nat]
  BY <1>1 DEF Tally
<1>3. SdkDispatch!Registered' = SdkDispatch!Registered
  BY DEF SdkDispatch!Registered
<1>4. ASSUME NEW r \in kept'
      PROVE  called'[r] = IF Waits(r, K, H2)' THEN 0 ELSE IF SdkDispatch!Runs(r[2])' THEN 1 ELSE 0
  <2>1. r \in HandlerKey \X Handler /\ r = <<r[1], r[2]>>
    BY SameRegistered DEF Tally
  <2>2. called[r] = IF Waits(r, K, H) THEN 0 ELSE IF SdkDispatch!Runs(r[2]) THEN 1 ELSE 0
    BY DEF Tally
  <2>3. SdkDispatch!Runs(r[2])' <=> SdkDispatch!Runs(r[2])
    BY DEF SdkDispatch!Runs
  <2>4. CASE r = <<current, h>>
    <3>1. r[1] = current /\ r[2] = h
      BY <2>4
    <3>2. Waits(r, K, H)
      BY <3>1 DEF Waits
    <3>3. ~Waits(r, K, H2)'
      BY <1>1, <3>1, ClientSideAssumption DEF Waits, Tally
    <3>4. called'[r] = IF SdkDispatch!Runs(h) THEN 0 + 1 ELSE 0
      BY <1>1, <1>2, <2>2, <2>4, <3>2
    <3> QED BY <2>3, <3>1, <3>3, <3>4
  <2>5. CASE r # <<current, h>>
    <3>1. ~(r[1] = current /\ r[2] = h)
      BY <2>1, <2>5
    <3>2. Waits(r, K, H2)' <=> Waits(r, K, H)
      BY <3>1 DEF Waits
    <3>3. called'[r] = called[r]
      BY <1>1, <1>2, <2>1, <2>5
    <3> QED BY <2>2, <2>3, <3>2, <3>3
  <2> QED BY <2>4, <2>5
<1>5. /\ phase' \in {"idle", "listeners", "exact", "patterns"} /\ phase' # "idle"
      /\ phase' \in {"idle", "listeners"} => current' = "none"
      /\ phase' = "exact" => current' \in {Exact, "none"}
      /\ phase' = "patterns" => current' \in Pattern \cup {"none"} /\ current' \notin K
      /\ kept' \subseteq SdkDispatch!Registered'
  BY <1>1, <1>3 DEF Tally
<1> QED BY <1>2, <1>4, <1>5 DEF Tally

\* The listeners are done; the handlers of the channel follow.
LEMMA TallyEmitted ==
  ASSUME NEW K, NEW H, NEW K2, NEW H2, Registry, Tally(K, H), phase = "listeners", phase' = "exact",
         event' = event, kept' = kept, called' = called, handlers' = handlers,
         current' = (IF handlers[Exact] # << >> THEN Exact ELSE "none"),
         \A h \in Handler : Has(handlers[Exact], h) => h \in H2
  PROVE  Tally(K2, H2)'
<1>1. SdkDispatch!Registered' = SdkDispatch!Registered
  BY DEF SdkDispatch!Registered
<1>2. ASSUME NEW r \in kept'
      PROVE  Waits(r, K, H) /\ Waits(r, K2, H2)'
  <2>1. r[1] \in HandlerKey /\ r[2] \in Handler /\ Has(handlers[r[1]], r[2])
    BY SameRegistered DEF Tally
  <2>2. CASE r[1] # Exact
    BY <2>2 DEF Waits
  <2>3. CASE r[1] = Exact
    <3>1. handlers[Exact] # << >>
      BY <2>1, <2>3 DEF Has
    <3> QED BY <2>1, <2>3, <3>1 DEF Waits
  <2> QED BY <2>2, <2>3 DEF Waits
<1>3. \A r \in kept' : called'[r] = 0
  BY <1>2 DEF Tally
<1> QED BY <1>1, <1>2, <1>3 DEF Tally

\* The handlers of the channel are done; the patterns follow.
LEMMA TallyExactDone ==
  ASSUME NEW K, NEW H, NEW K2, NEW H2, Registry, Tally(K, H), phase = "exact", phase' = "patterns",
         event' = event, kept' = kept, called' = called, handlers' = handlers,
         current' = "none", current = "none" \/ H = {}, K2 \subseteq HandlerKey,
         \A k \in HandlerKey : Has(order, k) => k \in K2
  PROVE  Tally(K2, H2)'
<1>1. SdkDispatch!Registered' = SdkDispatch!Registered
  BY DEF SdkDispatch!Registered
<1>2. "none" \notin HandlerKey /\ Exact \notin Pattern
  BY ClientSideAssumption DEF HandlerKey
<1>3. ASSUME NEW r \in kept'
      PROVE  called'[r] = IF Waits(r, K2, H2)' THEN 0 ELSE IF SdkDispatch!Runs(r[2])' THEN 1 ELSE 0
  <2>1. r[1] \in HandlerKey /\ r[2] \in Handler /\ Has(handlers[r[1]], r[2])
    BY SameRegistered DEF Tally
  <2>2. Waits(r, K, H) <=> r[1] # Exact
    BY <1>2, <2>1 DEF Waits
  <2>3. handlers[r[1]] # << >>
    BY <2>1 DEF Has
  <2>4. r[1] \in K2
    BY <2>1, <2>3 DEF Registry
  <2>5. Waits(r, K2, H2)' <=> r[1] # Exact
    BY <1>2, <2>1, <2>4 DEF Waits, HandlerKey
  <2>6. SdkDispatch!Runs(r[2])' <=> SdkDispatch!Runs(r[2])
    BY DEF SdkDispatch!Runs
  <2>7. called[r] = IF Waits(r, K, H) THEN 0 ELSE IF SdkDispatch!Runs(r[2]) THEN 1 ELSE 0
    BY DEF Tally
  <2> QED BY <2>2, <2>5, <2>6, <2>7
<1> QED BY <1>1, <1>2, <1>3 DEF Tally

\* The handlers of a key are done; the key k is next.
LEMMA TallyNextKey ==
  ASSUME NEW K, NEW H, NEW K2, NEW H2, Registry, Tally(K, H), phase = "patterns", phase' = "patterns",
         event' = event, kept' = kept, called' = called, handlers' = handlers,
         current = "none" \/ H = {}, K \subseteq HandlerKey, NEW k \in K, K2 = K \ {k},
         current' = (IF k \in Pattern THEN k ELSE "none"),
         k \in Pattern => \A h \in Handler : Has(handlers[k], h) => h \in H2
  PROVE  Tally(K2, H2)'
<1>1. SdkDispatch!Registered' = SdkDispatch!Registered
  BY DEF SdkDispatch!Registered
<1>2. "none" \notin HandlerKey /\ Exact \notin Pattern
  BY ClientSideAssumption DEF HandlerKey
<1>3. ASSUME NEW r \in kept'
      PROVE  called'[r] = IF Waits(r, K2, H2)' THEN 0 ELSE IF SdkDispatch!Runs(r[2])' THEN 1 ELSE 0
  <2>1. r[1] \in HandlerKey /\ r[2] \in Handler /\ Has(handlers[r[1]], r[2])
    BY SameRegistered DEF Tally
  <2>2. Waits(r, K, H) <=> r[1] \in Pattern /\ r[1] \in K
    BY <1>2, <2>1 DEF Waits
  <2>3. Waits(r, K2, H2)' <=> r[1] \in Pattern /\ r[1] \in K
    BY <1>2, <2>1 DEF Waits
  <2>4. SdkDispatch!Runs(r[2])' <=> SdkDispatch!Runs(r[2])
    BY DEF SdkDispatch!Runs
  <2>5. called[r] = IF Waits(r, K, H) THEN 0 ELSE IF SdkDispatch!Runs(r[2]) THEN 1 ELSE 0
    BY DEF Tally
  <2> QED BY <2>2, <2>3, <2>4, <2>5
<1> QED BY <1>1, <1>2, <1>3 DEF Tally

\* dispatch ends.
LEMMA TallyEnded ==
  ASSUME NEW K, NEW H, SdkDispatch!Ended \/ LightDispatch!Ended
  PROVE  Tally(K, H)'
<1>1. called' = [r \in HandlerKey \X Handler |-> 0]
  BY SameRegistered DEF SdkDispatch!Ended, LightDispatch!Ended
<1>2. phase' = "idle" /\ current' = "none" /\ kept' = {}
  BY DEF SdkDispatch!Ended, LightDispatch!Ended
<1> QED BY <1>1, <1>2 DEF Tally

\* When no key and no handler is left, everyone who stayed has been served.
LEMMA TallyComplete ==
  ASSUME NEW K, NEW H, Tally(K, H), phase = "patterns", K = {}, current = "none" \/ H = {}
  PROVE  \A r \in kept : called[r] = IF SdkDispatch!Runs(r[2]) THEN 1 ELSE 0
<1>1. "none" \notin HandlerKey
  BY ClientSideAssumption DEF HandlerKey
<1>2. \A r \in kept : r[1] \in HandlerKey
  BY SameRegistered DEF Tally
<1> QED BY <1>1, <1>2 DEF Tally, Waits

\* subscribe: what it does to the handlers and the keys.
LEMMA RegistrySubscribed ==
  ASSUME Registry, NEW k \in HandlerKey, NEW h \in Handler, SdkDispatch!Subscribed(k, h) \/ LightDispatch!Subscribed(k, h)
  PROVE  /\ Registry'
         /\ SdkDispatch!Registered \subseteq SdkDispatch!Registered'
         /\ order' = order \/ (handlers[k] = << >> /\ order' = Append(order, k))
         /\ \A j \in HandlerKey :
              \/ handlers'[j] = handlers[j]
              \/ j = k /\ ~Has(handlers[k], h) /\ handlers'[j] = Append(handlers[j], h)
<1> DEFINE new == IF Has(handlers[k], h) THEN handlers[k] ELSE Append(handlers[k], h)
<1>1. /\ handlers' = [handlers EXCEPT ![k] = new]
      /\ order' = IF handlers[k] = << >> THEN Append(order, k) ELSE order
  BY DEF SdkDispatch!Subscribed, LightDispatch!Subscribed, SdkDispatch!Contains, LightDispatch!Contains, Has
<1>2. handlers \in [HandlerKey -> Seq(Handler)] /\ handlers[k] \in Seq(Handler) /\ Distinct(handlers[k])
  BY DEF Registry
<1>3. /\ new \in Seq(Handler) /\ Distinct(new) /\ new # << >>
      /\ \A y : Has(handlers[k], y) => Has(new, y)
  <2>1. CASE Has(handlers[k], h)
    <3>1. handlers[k] # << >>
      BY <2>1 DEF Has
    <3> QED BY <1>2, <2>1, <3>1
  <2>2. CASE ~Has(handlers[k], h)
    <3>1. 0 \in 0..Len(handlers[k])
      BY <1>2
    <3> QED BY <1>2, <2>2, <3>1, Appended
  <2> QED BY <2>1, <2>2
<1>4. PICK n : n = new
  OBVIOUS
<1>5. handlers' \in [HandlerKey -> Seq(Handler)] /\ \A j \in HandlerKey : handlers'[j] = IF j = k THEN n ELSE handlers[j]
  <2> HIDE DEF new
  <2> QED BY <1>1, <1>2, <1>3, <1>4
<1>6. \A j \in HandlerKey : Distinct(handlers'[j]) /\ \A y : Has(handlers[j], y) => Has(handlers'[j], y)
  <2> HIDE DEF new
  <2> QED BY <1>3, <1>4, <1>5 DEF Registry
<1>7. SdkDispatch!Registered \subseteq SdkDispatch!Registered'
  <2>1. SdkDispatch!Registered' = {r \in HandlerKey \X Handler : Has(handlers'[r[1]], r[2])}
    BY SameRegistered
  <2> QED BY <1>6, <2>1, SameRegistered
<1>8. order' \in Seq(HandlerKey) /\ Distinct(order') /\ \A j \in HandlerKey : Has(order', j) <=> handlers'[j] # << >>
  <2>1. order \in Seq(HandlerKey) /\ Distinct(order) /\ \A j \in HandlerKey : Has(order, j) <=> handlers[j] # << >>
    BY DEF Registry
  <2>2. CASE handlers[k] = << >>
    <3>1. ~Has(order, k) /\ order' = Append(order, k) /\ 0 \in 0..Len(order)
      BY <1>1, <2>1, <2>2
    <3>2. order' \in Seq(HandlerKey) /\ Distinct(order') /\ \A y : Has(order', y) <=> Has(order, y) \/ y = k
      BY <2>1, <3>1, Appended
    <3> HIDE DEF new
    <3> QED BY <1>3, <1>4, <1>5, <2>1, <3>2
  <2>3. CASE handlers[k] # << >>
    <3> HIDE DEF new
    <3> QED BY <1>1, <1>3, <1>4, <1>5, <2>1, <2>3
  <2> QED BY <2>2, <2>3
<1>9. Registry'
  BY <1>5, <1>6, <1>8 DEF Registry
<1> QED BY <1>1, <1>4, <1>5, <1>7, <1>9

\* The function that subscribe returns.
LEMMA RegistryUnsubscribed ==
  ASSUME Registry, NEW k \in HandlerKey, NEW h \in Handler, SdkDispatch!Unsubscribed(k, h) \/ LightDispatch!Unsubscribed(k, h)
  PROVE  /\ Registry' /\ Has(handlers[k], h) /\ kept' = kept \ {<<k, h>>}
         /\ SdkDispatch!Registered \ {<<k, h>>} \subseteq SdkDispatch!Registered'
         /\ handlers'[k] = SdkDispatch!Without(handlers[k], h) \/ handlers'[k] = LightDispatch!Without(handlers[k], h)
         /\ \A j \in HandlerKey \ {k} : handlers'[j] = handlers[j]
         /\ Len(handlers[k]) # 1 => order' = order /\ handlers'[k] # << >>
         /\ Len(handlers[k]) = 1 =>
              /\ order' = SdkDispatch!Without(order, k) \/ order' = LightDispatch!Without(order, k)
              /\ Has(order, k) /\ handlers'[k] = << >> /\ \A y : Has(handlers[k], y) => y = h
<1>1. PICK n, o : /\ n = SdkDispatch!Without(handlers[k], h) \/ n = LightDispatch!Without(handlers[k], h)
                  /\ o = SdkDispatch!Without(order, k) \/ o = LightDispatch!Without(order, k)
                  /\ handlers' = [handlers EXCEPT ![k] = n]
                  /\ order' = IF Len(handlers[k]) = 1 THEN o ELSE order
                  /\ kept' = kept \ {<<k, h>>}
  <2>1. CASE SdkDispatch!Unsubscribed(k, h)
    BY <2>1 DEF SdkDispatch!Unsubscribed
  <2>2. CASE LightDispatch!Unsubscribed(k, h)
    BY <2>2 DEF LightDispatch!Unsubscribed
  <2> QED BY <2>1, <2>2
<1>2. Has(handlers[k], h)
  <2>1. <<k, h>> \in SdkDispatch!Registered
    BY SameRegistered DEF SdkDispatch!Unsubscribed, LightDispatch!Unsubscribed
  <2> QED BY <2>1, SameRegistered
<1>3. handlers \in [HandlerKey -> Seq(Handler)] /\ handlers[k] \in Seq(Handler) /\ Distinct(handlers[k])
  BY DEF Registry
<1>4. /\ n \in Seq(Handler) /\ Distinct(n) /\ Len(n) = Len(handlers[k]) - 1
      /\ \A y : Has(n, y) <=> Has(handlers[k], y) /\ y # h
  <2>1. PICK s \in Seq(Handler) : s = handlers[k]
    BY <1>3
  <2>2. Distinct(s) /\ Has(s, h) /\ 0 \in 0..Len(s) /\ (n = SdkDispatch!Without(s, h) \/ n = LightDispatch!Without(s, h))
    BY <1>1, <1>2, <1>3, <2>1
  <2>3. PICK m : m = IF SdkDispatch!Index(s, h) <= 0 THEN 0 - 1 ELSE 0
    OBVIOUS
  <2>4. /\ n \in Seq(Handler) /\ Distinct(n) /\ Len(n) = Len(s) - 1
        /\ \A y : Has(n, y) <=> Has(s, y) /\ y # h
    BY <2>2, <2>3, Removed
  <2> QED BY <2>1, <2>4
<1>5. n = << >> <=> Len(handlers[k]) = 1
  <2>1. n \in Seq(Handler) => (Len(n) = 0 <=> n = << >>)
    OBVIOUS
  <2>2. Len(handlers[k]) \in Nat
    BY <1>3
  <2> QED BY <1>4, <2>1, <2>2
<1>6. handlers' \in [HandlerKey -> Seq(Handler)] /\ \A j \in HandlerKey : handlers'[j] = IF j = k THEN n ELSE handlers[j]
  BY <1>1, <1>3, <1>4
<1>7. SdkDispatch!Registered \ {<<k, h>>} \subseteq SdkDispatch!Registered'
  <2>1. SdkDispatch!Registered' = {r \in HandlerKey \X Handler : Has(handlers'[r[1]], r[2])}
    BY SameRegistered
  <2>2. ASSUME NEW r \in SdkDispatch!Registered, r # <<k, h>> PROVE Has(handlers'[r[1]], r[2])
    <3>1. r \in HandlerKey \X Handler /\ r = <<r[1], r[2]>> /\ Has(handlers[r[1]], r[2])
      BY SameRegistered
    <3> QED BY <1>4, <1>6, <2>2, <3>1
  <2>3. \A r \in SdkDispatch!Registered : r \in HandlerKey \X Handler
    BY SameRegistered
  <2> QED BY <2>1, <2>2, <2>3
<1>8. order \in Seq(HandlerKey) /\ Distinct(order) /\ \A j \in HandlerKey : Has(order, j) <=> handlers[j] # << >>
  BY DEF Registry
<1>9. handlers[k] # << >> /\ Has(order, k)
  BY <1>2, <1>8 DEF Has
<1>10. order' \in Seq(HandlerKey) /\ Distinct(order') /\ \A j \in HandlerKey : Has(order', j) <=> handlers'[j] # << >>
  <2>1. CASE Len(handlers[k]) = 1
    <3>1. o \in Seq(HandlerKey) /\ Distinct(o) /\ \A y : Has(o, y) <=> Has(order, y) /\ y # k
      <4>1. 0 \in 0..Len(order)
        BY <1>8
      <4>2. PICK m : m = IF SdkDispatch!Index(order, k) <= 0 THEN 0 - 1 ELSE 0
        OBVIOUS
      <4> QED BY <1>1, <1>8, <1>9, <4>1, <4>2, Removed
    <3> QED BY <1>1, <1>5, <1>6, <1>8, <2>1, <3>1
  <2>2. CASE Len(handlers[k]) # 1
    BY <1>1, <1>5, <1>6, <1>8, <1>9, <2>2
  <2> QED BY <2>1, <2>2
<1>11. \A j \in HandlerKey : Distinct(handlers'[j])
  BY <1>4, <1>6 DEF Registry
<1>12. Registry'
  BY <1>6, <1>10, <1>11 DEF Registry
<1>13. Len(handlers[k]) = 1 => \A y : Has(handlers[k], y) => y = h
  <2>1. Len(handlers[k]) = 1 => \A y : ~Has(n, y)
    BY <1>5 DEF Has
  <2> QED BY <1>4, <2>1
<1> QED BY <1>1, <1>2, <1>5, <1>6, <1>7, <1>9, <1>12, <1>13

\* The current key is a key.
LEMMA CurrentKey ==
  ASSUME NEW K, NEW H, Tally(K, H)
  PROVE  /\ current # "none" => current \in HandlerKey /\ phase \in {"exact", "patterns"}
         /\ phase = "patterns" => current \notin K
         /\ "none" \notin HandlerKey
         /\ \A r \in kept : r \in HandlerKey \X Handler /\ r = <<r[1], r[2]>> /\ Has(handlers[r[1]], r[2]) /\ handlers[r[1]] # << >>
<1>1. \A r \in kept : r \in HandlerKey \X Handler /\ r = <<r[1], r[2]>> /\ Has(handlers[r[1]], r[2])
  BY SameRegistered DEF Tally
<1>2. \A r \in kept : handlers[r[1]] # << >>
  BY <1>1 DEF Has
<1> QED BY <1>1, <1>2, ClientSideAssumption DEF Tally, HandlerKey

-----------------------------------------------------------------------------
(* dispatch of client.ts                                                   *)

\* subscribe during a dispatch: the live iterators come to what was added.
LEMMA SdkSubscribes ==
  ASSUME SdkDispatchInv, NEW k \in HandlerKey, NEW h \in Handler, SdkDispatch!Subscribed(k, h),
         phase' = phase, event' = event, called' = called
  PROVE  SdkDispatchInv'
<1>1. Registry /\ SdkPlace /\ Tally(SdkKeys, SdkRest)
  BY DEF SdkDispatchInv
<1>2. keysLeft' = keysLeft /\ current' = current /\ left' = left /\ kept' = kept
  BY DEF SdkDispatch!Subscribed
<1>3. /\ Registry'
      /\ SdkDispatch!Registered \subseteq SdkDispatch!Registered'
      /\ order' = order \/ (handlers[k] = << >> /\ order' = Append(order, k))
      /\ \A j \in HandlerKey :
           \/ handlers'[j] = handlers[j]
           \/ j = k /\ ~Has(handlers[k], h) /\ handlers'[j] = Append(handlers[j], h)
  BY <1>1, RegistrySubscribed
<1>4. PICK K, H : K = SdkKeys /\ H = SdkRest /\ Tally(K, H)
  BY <1>1
<1>5. PICK K2, H2 : K2 = SdkKeys' /\ H2 = SdkRest'
  OBVIOUS
<1>6. order \in Seq(HandlerKey) /\ Distinct(order) /\ \A j \in HandlerKey : Has(order, j) <=> handlers[j] # << >>
  BY <1>1 DEF Registry
<1>7. phase = "patterns" => /\ keysLeft \in 0..Len(order')
                            /\ \A y : HasAfter(order', keysLeft, y) <=> HasAfter(order, keysLeft, y) \/ (y = k /\ order' # order)
  <2> SUFFICES ASSUME phase = "patterns"
               PROVE  /\ keysLeft \in 0..Len(order')
                      /\ \A y : HasAfter(order', keysLeft, y) <=> HasAfter(order, keysLeft, y) \/ (y = k /\ order' # order)
    OBVIOUS
  <2>1. keysLeft \in 0..Len(order)
    BY <1>1 DEF SdkPlace
  <2>2. CASE order' = order
    BY <2>1, <2>2
  <2>3. CASE handlers[k] = << >> /\ order' = Append(order, k)
    <3>1. ~Has(order, k)
      BY <1>6, <2>3
    <3>2. /\ keysLeft \in 0..Len(Append(order, k))
          /\ \A y : Has(Append(order, k), y) <=> Has(order, y) \/ y = k
          /\ \A y : HasAfter(Append(order, k), keysLeft, y) <=> HasAfter(order, keysLeft, y) \/ y = k
      BY <1>6, <2>1, <3>1, Appended
    <3>3. order' # order
      BY <2>3, <3>1, <3>2
    <3> QED BY <2>3, <3>2, <3>3
  <2> QED BY <1>3, <2>2, <2>3
<1>8. order' # order => handlers[k] = << >>
  BY <1>3
<1>9. current # "none" =>
        /\ current \in HandlerKey /\ handlers'[current] # << >> /\ left \in 0..Len(handlers'[current])
        /\ \A y : HasAfter(handlers'[current], left, y) <=>
                    HasAfter(handlers[current], left, y) \/ (handlers'[current] # handlers[current] /\ y = h /\ current = k /\ ~Has(handlers[k], h))
  <2> SUFFICES ASSUME current # "none"
               PROVE  /\ current \in HandlerKey /\ handlers'[current] # << >> /\ left \in 0..Len(handlers'[current])
                      /\ \A y : HasAfter(handlers'[current], left, y) <=>
                                  HasAfter(handlers[current], left, y) \/ (handlers'[current] # handlers[current] /\ y = h /\ current = k /\ ~Has(handlers[k], h))
    OBVIOUS
  <2>1. current \in HandlerKey /\ handlers[current] # << >> /\ left \in 0..Len(handlers[current])
    BY <1>1, <1>4, CurrentKey DEF SdkPlace
  <2>2. PICK s \in Seq(Handler) : s = handlers[current] /\ Distinct(s)
    BY <1>1, <2>1 DEF Registry
  <2>3. CASE handlers'[current] = handlers[current]
    BY <2>1, <2>3
  <2>4. CASE current = k /\ ~Has(handlers[k], h) /\ handlers'[current] = Append(handlers[current], h)
    <3>1. ~Has(s, h) /\ left \in 0..Len(s) /\ handlers'[current] = Append(s, h)
      BY <2>1, <2>2, <2>4
    <3>2. /\ Append(s, h) # << >> /\ left \in 0..Len(Append(s, h))
          /\ \A y : Has(Append(s, h), y) <=> Has(s, y) \/ y = h
          /\ \A y : HasAfter(Append(s, h), left, y) <=> HasAfter(s, left, y) \/ y = h
      BY <2>2, <3>1, Appended
    <3>3. Append(s, h) # s
      BY <3>1, <3>2
    <3> QED BY <2>1, <2>2, <2>4, <3>1, <3>2, <3>3
  <2> QED BY <1>3, <2>1, <2>3, <2>4
<1>10. SdkPlace'
  BY <1>2, <1>7, <1>9 DEF SdkPlace
<1>11. /\ K = (IF phase = "patterns" THEN {y \in HandlerKey : HasAfter(order, keysLeft, y)} ELSE {})
       /\ K2 = (IF phase = "patterns" THEN {y \in HandlerKey : HasAfter(order', keysLeft, y)} ELSE {})
       /\ H = (IF current = "none" THEN {} ELSE {y \in Handler : HasAfter(handlers[current], left, y)})
       /\ H2 = (IF current = "none" THEN {} ELSE {y \in Handler : HasAfter(handlers'[current], left, y)})
  BY <1>2, <1>4, <1>5 DEF SdkKeys, SdkRest
<1>12. ASSUME phase = "patterns" PROVE current' \notin K2
  <2>1. CASE current = "none"
    BY <1>2, <1>4, <1>11, <1>12, <2>1, CurrentKey
  <2>2. CASE current # "none"
    <3>1. current \in HandlerKey /\ current \notin K /\ handlers[current] # << >>
      BY <1>1, <1>4, <1>12, <2>2, CurrentKey DEF SdkPlace
    <3>2. ~HasAfter(order, keysLeft, current)
      BY <1>11, <1>12, <3>1
    <3>3. ~(current = k /\ order' # order)
      BY <1>8, <3>1
    <3> QED BY <1>2, <1>7, <1>11, <1>12, <3>2, <3>3
  <2> QED BY <2>1, <2>2
<1>13. ASSUME NEW r \in kept'
       PROVE  /\ (r[1] = current' /\ r[2] \in H2) <=> (r[1] = current /\ r[2] \in H)
              /\ phase = "patterns" => (r[1] \in K2 <=> r[1] \in K)
  <2>1. r[1] \in HandlerKey /\ r[2] \in Handler /\ Has(handlers[r[1]], r[2]) /\ handlers[r[1]] # << >>
    BY <1>2, <1>4, CurrentKey
  <2>2. phase = "patterns" => (r[1] \in K2 <=> r[1] \in K)
    BY <1>7, <1>8, <1>11, <2>1
  <2>3. (r[1] = current /\ r[2] \in H2) <=> (r[1] = current /\ r[2] \in H)
    BY <1>9, <1>11, <2>1
  <2> QED BY <1>2, <2>2, <2>3
<1>14. kept' \subseteq SdkDispatch!Registered' /\ kept' \subseteq kept /\ current' \in {current, "none"}
  BY <1>1, <1>2, <1>3 DEF Tally
<1>15. Tally(K2, H2)'
  BY <1>4, <1>12, <1>13, <1>14, TallyTouch
<1> QED BY <1>3, <1>5, <1>10, <1>15 DEF SdkDispatchInv

\* unsubscribe during a dispatch: an iterator goes on behind the last element it gave.
LEMMA SdkUnsubscribes ==
  ASSUME SdkDispatchInv, NEW k \in HandlerKey, NEW h \in Handler, SdkDispatch!Unsubscribed(k, h),
         phase' = phase, event' = event, called' = called
  PROVE  SdkDispatchInv'
<1>1. Registry /\ SdkPlace /\ Tally(SdkKeys, SdkRest)
  BY DEF SdkDispatchInv
<1>2. PICK only \in BOOLEAN : only <=> Len(handlers[k]) = 1
  OBVIOUS
<1>3. /\ current' = IF current = k /\ only THEN "none" ELSE current
      /\ left' = IF current = k
                 THEN IF only THEN 0 ELSE IF SdkDispatch!Index(handlers[k], h) <= left THEN left - 1 ELSE left
                 ELSE left
      /\ keysLeft' = IF phase = "patterns" /\ only /\ SdkDispatch!Index(order, k) <= keysLeft
                     THEN keysLeft - 1 ELSE keysLeft
  BY <1>2 DEF SdkDispatch!Unsubscribed
<1>4. /\ Registry' /\ Has(handlers[k], h) /\ kept' = kept \ {<<k, h>>}
      /\ SdkDispatch!Registered \ {<<k, h>>} \subseteq SdkDispatch!Registered'
      /\ handlers'[k] = SdkDispatch!Without(handlers[k], h) \/ handlers'[k] = LightDispatch!Without(handlers[k], h)
      /\ \A j \in HandlerKey \ {k} : handlers'[j] = handlers[j]
      /\ ~only => order' = order /\ handlers'[k] # << >>
      /\ only =>
           /\ order' = SdkDispatch!Without(order, k) \/ order' = LightDispatch!Without(order, k)
           /\ Has(order, k) /\ handlers'[k] = << >> /\ \A y : Has(handlers[k], y) => y = h
  BY <1>1, <1>2, RegistryUnsubscribed
<1>5. PICK K, H : K = SdkKeys /\ H = SdkRest /\ Tally(K, H)
  BY <1>1
<1>6. PICK K2, H2 : K2 = SdkKeys' /\ H2 = SdkRest'
  OBVIOUS
<1>7. order \in Seq(HandlerKey) /\ Distinct(order)
  BY <1>1 DEF Registry
<1>8. phase = "patterns" => /\ keysLeft' \in 0..Len(order')
                            /\ \A y : HasAfter(order', keysLeft', y) <=> HasAfter(order, keysLeft, y) /\ ~(only /\ y = k)
  <2> SUFFICES ASSUME phase = "patterns"
               PROVE  /\ keysLeft' \in 0..Len(order')
                      /\ \A y : HasAfter(order', keysLeft', y) <=> HasAfter(order, keysLeft, y) /\ ~(only /\ y = k)
    OBVIOUS
  <2>1. keysLeft \in 0..Len(order)
    BY <1>1 DEF SdkPlace
  <2>2. CASE ~only
    BY <1>3, <1>4, <2>1, <2>2
  <2>3. CASE only
    <3>1. PICK t, m : t = order' /\ m = keysLeft'
      OBVIOUS
    <3>2. /\ t = SdkDispatch!Without(order, k) \/ t = LightDispatch!Without(order, k)
          /\ m = (IF SdkDispatch!Index(order, k) <= keysLeft THEN keysLeft - 1 ELSE keysLeft)
          /\ Has(order, k)
      BY <1>3, <1>4, <2>3, <3>1
    <3>3. PICK s \in Seq(HandlerKey), n \in 0..Len(order) : s = order /\ n = keysLeft
      BY <1>7, <2>1
    <3>4. m \in 0..Len(t) /\ \A y : HasAfter(t, m, y) <=> HasAfter(s, n, y) /\ y # k
      <4>1. /\ Distinct(s) /\ Has(s, k) /\ (t = SdkDispatch!Without(s, k) \/ t = LightDispatch!Without(s, k))
            /\ n \in 0..Len(s) /\ m = IF SdkDispatch!Index(s, k) <= n THEN n - 1 ELSE n
        BY <1>7, <3>2, <3>3
      <4> QED BY <4>1, Removed
    <3> QED BY <2>3, <3>1, <3>3, <3>4
  <2> QED BY <2>2, <2>3
<1>9. current' # "none" =>
        /\ current' = current /\ current \in HandlerKey /\ handlers'[current] # << >> /\ left' \in 0..Len(handlers'[current])
        /\ \A y : HasAfter(handlers'[current], left', y) <=>
                    HasAfter(handlers[current], left, y) /\ ~(y = h /\ current = k)
  <2> SUFFICES ASSUME current' # "none"
               PROVE  /\ current' = current /\ current \in HandlerKey /\ handlers'[current] # << >> /\ left' \in 0..Len(handlers'[current])
                      /\ \A y : HasAfter(handlers'[current], left', y) <=>
                                  HasAfter(handlers[current], left, y) /\ ~(y = h /\ current = k)
    OBVIOUS
  <2>1. current' = current /\ current # "none" /\ ~(current = k /\ only)
    BY <1>3
  <2>2. current \in HandlerKey /\ handlers[current] # << >> /\ left \in 0..Len(handlers[current])
    BY <1>1, <1>5, <2>1, CurrentKey DEF SdkPlace
  <2>3. PICK s \in Seq(Handler) : s = handlers[current] /\ Distinct(s)
    BY <1>1, <2>2 DEF Registry
  <2>4. CASE current # k
    BY <1>3, <1>4, <2>1, <2>2, <2>4
  <2>5. CASE current = k
    <3>1. PICK t, m : t = handlers'[current] /\ m = left'
      OBVIOUS
    <3>2. /\ t = SdkDispatch!Without(s, h) \/ t = LightDispatch!Without(s, h)
          /\ m = (IF SdkDispatch!Index(s, h) <= left THEN left - 1 ELSE left)
          /\ Has(s, h) /\ left \in 0..Len(s) /\ t # << >>
      BY <1>3, <1>4, <2>1, <2>2, <2>3, <2>5, <3>1
    <3>3. PICK n \in 0..Len(s) : n = left
      BY <3>2
    <3>4. m \in 0..Len(t) /\ \A y : HasAfter(t, m, y) <=> HasAfter(s, n, y) /\ y # h
      <4>1. /\ Distinct(s) /\ Has(s, h) /\ (t = SdkDispatch!Without(s, h) \/ t = LightDispatch!Without(s, h))
            /\ m = IF SdkDispatch!Index(s, h) <= n THEN n - 1 ELSE n
        BY <2>3, <3>2, <3>3
      <4> QED BY <4>1, Removed
    <3> QED BY <2>1, <2>2, <2>3, <2>5, <3>1, <3>2, <3>3, <3>4
  <2> QED BY <2>4, <2>5
<1>10. SdkPlace'
  BY <1>8, <1>9 DEF SdkPlace
<1>11. /\ K = (IF phase = "patterns" THEN {y \in HandlerKey : HasAfter(order, keysLeft, y)} ELSE {})
       /\ K2 = (IF phase = "patterns" THEN {y \in HandlerKey : HasAfter(order', keysLeft', y)} ELSE {})
       /\ H = (IF current = "none" THEN {} ELSE {y \in Handler : HasAfter(handlers[current], left, y)})
       /\ H2 = (IF current' = "none" THEN {} ELSE {y \in Handler : HasAfter(handlers'[current'], left', y)})
  BY <1>5, <1>6 DEF SdkKeys, SdkRest
<1>12. ASSUME phase = "patterns" PROVE current' \notin K2
  <2>1. CASE current' = "none"
    BY <1>5, <1>11, <1>12, <2>1, CurrentKey
  <2>2. CASE current' # "none"
    <3>1. current' = current /\ current \in HandlerKey /\ current \notin K
      BY <1>5, <1>9, <1>12, <2>2, CurrentKey
    <3>2. ~HasAfter(order, keysLeft, current)
      BY <1>11, <1>12, <3>1
    <3> QED BY <1>8, <1>11, <1>12, <3>1, <3>2
  <2> QED BY <2>1, <2>2
<1>13. ASSUME NEW r \in kept'
       PROVE  /\ (r[1] = current' /\ r[2] \in H2) <=> (r[1] = current /\ r[2] \in H)
              /\ phase = "patterns" => (r[1] \in K2 <=> r[1] \in K)
  <2>1. r \in kept /\ r # <<k, h>>
    BY <1>4
  <2>2. r[1] \in HandlerKey /\ r[2] \in Handler /\ Has(handlers[r[1]], r[2]) /\ ~(r[1] = k /\ r[2] = h) /\ "none" \notin HandlerKey
    BY <1>5, <2>1, CurrentKey
  <2>3. ~(only /\ r[1] = k)
    BY <1>4, <2>2
  <2>4. phase = "patterns" => (r[1] \in K2 <=> r[1] \in K)
    BY <1>8, <1>11, <2>2, <2>3
  <2>5. (r[1] = current' /\ r[2] \in H2) <=> (r[1] = current /\ r[2] \in H)
    <3>1. r[1] = current' <=> r[1] = current
      BY <1>3, <2>2, <2>3
    <3>2. CASE r[1] = current
      <4>1. current' # "none" /\ current # "none" /\ current' = current
        BY <2>2, <3>1, <3>2
      <4> QED BY <1>9, <1>11, <2>2, <3>2, <4>1
    <3> QED BY <3>1, <3>2
  <2> QED BY <2>4, <2>5
<1>14. kept' \subseteq SdkDispatch!Registered' /\ kept' \subseteq kept /\ current' \in {current, "none"}
  BY <1>1, <1>3, <1>4 DEF Tally
<1>15. Tally(K2, H2)'
  BY <1>5, <1>12, <1>13, <1>14, TallyTouch
<1> QED BY <1>4, <1>6, <1>10, <1>15 DEF SdkDispatchInv

\* What the invariants do not mention may change.
LEMMA SdkSame ==
  ASSUME SdkDispatchInv, UNCHANGED <<order, handlers, phase, event, keysLeft, current, left, kept, called>>
  PROVE  SdkDispatchInv'
BY DEF SdkDispatchInv, Registry, SdkPlace, SdkKeys, SdkRest, Tally, Waits, SdkDispatch!Registered, SdkDispatch!Runs

\* A message arrives.
LEMMA SdkArrives ==
  ASSUME SdkDispatchInv, NEW e, SdkDispatch!Arrives(e)
  PROVE  SdkDispatchInv'
<1>1. Registry /\ SdkPlace /\ Tally(SdkKeys, SdkRest)
  BY DEF SdkDispatchInv
<1>2. /\ phase = "idle" /\ phase' = "listeners" /\ kept' = SdkDispatch!Registered
      /\ order' = order /\ handlers' = handlers /\ current' = current /\ called' = called
  BY DEF SdkDispatch!Arrives
<1>3. Registry'
  BY <1>1, <1>2 DEF Registry
<1>4. current = "none"
  BY <1>1, <1>2 DEF Tally
<1>5. SdkPlace' /\ SdkKeys' = {} /\ SdkKeys = {} /\ SdkRest' = {} /\ SdkRest = {}
  BY <1>2, <1>4 DEF SdkPlace, SdkKeys, SdkRest
<1>6. PICK K, H : K = SdkKeys /\ H = SdkRest /\ Tally(K, H)
  BY <1>1
<1>7. Tally(K, H)'
  BY <1>2, <1>6, TallyArrives
<1> QED BY <1>3, <1>5, <1>6, <1>7 DEF SdkDispatchInv

\* The handlers of the channel follow the listeners.
LEMMA SdkEmitted ==
  ASSUME SdkDispatchInv, SdkDispatch!Emitted
  PROVE  SdkDispatchInv'
<1>1. Registry /\ Tally(SdkKeys, SdkRest)
  BY DEF SdkDispatchInv
<1>2. /\ phase = "listeners" /\ phase' = "exact" /\ event' = event /\ kept' = kept /\ called' = called
      /\ order' = order /\ handlers' = handlers /\ left' = 0
      /\ current' = (IF handlers[Exact] # << >> THEN Exact ELSE "none")
  BY DEF SdkDispatch!Emitted
<1>3. Registry'
  BY <1>1, <1>2 DEF Registry
<1>4. PICK s \in Seq(Handler) : s = handlers[Exact] /\ Distinct(s)
  BY <1>1 DEF Registry, HandlerKey
<1>5. 0 \in 0..Len(s) /\ \A y : HasAfter(s, 0, y) <=> Has(s, y)
  BY <1>4, Advanced
<1>6. SdkPlace'
  BY <1>2, <1>4, <1>5 DEF SdkPlace
<1>7. PICK K, H, K2, H2 : K = SdkKeys /\ H = SdkRest /\ K2 = SdkKeys' /\ H2 = SdkRest' /\ Tally(K, H)
  BY <1>1
<1>8. ASSUME NEW h \in Handler, Has(handlers[Exact], h) PROVE h \in H2
  <2>1. handlers[Exact] # << >>
    BY <1>8 DEF Has
  <2>2. current' = Exact /\ Exact # "none"
    BY <1>2, <2>1, ClientSideAssumption
  <2> QED BY <1>2, <1>4, <1>5, <1>7, <1>8, <2>2 DEF SdkRest
<1>9. Tally(K2, H2)'
  BY <1>1, <1>2, <1>7, <1>8, TallyEmitted
<1> QED BY <1>3, <1>6, <1>7, <1>9 DEF SdkDispatchInv

\* The next element of the live Set.
LEMMA SdkCalls ==
  ASSUME SdkDispatchInv, SdkDispatch!Call
  PROVE  SdkDispatchInv'
<1>1. Registry /\ SdkPlace /\ Tally(SdkKeys, SdkRest)
  BY DEF SdkDispatchInv
<1>2. PICK h : h = handlers[current][left + 1]
  OBVIOUS
<1>3. /\ current # "none" /\ left < Len(handlers[current])
      /\ called' = [called EXCEPT ![<<current, h>>] = IF SdkDispatch!Runs(h) THEN @ + 1 ELSE @]
      /\ left' = left + 1
      /\ order' = order /\ handlers' = handlers /\ phase' = phase /\ event' = event
      /\ keysLeft' = keysLeft /\ current' = current /\ kept' = kept
  BY <1>2 DEF SdkDispatch!Call
<1>4. Registry'
  BY <1>1, <1>3 DEF Registry
<1>5. PICK K, H, H2 : K = SdkKeys /\ H = SdkRest /\ H2 = SdkRest' /\ Tally(K, H)
  BY <1>1
<1>6. current \in HandlerKey
  BY <1>3, <1>5, CurrentKey
<1>7. PICK s \in Seq(Handler) : s = handlers[current] /\ Distinct(s)
  BY <1>1, <1>6 DEF Registry
<1>8. PICK n \in 0..Len(s) : n = left
  BY <1>1, <1>3, <1>7 DEF SdkPlace
<1>9. /\ n + 1 \in 1..Len(s) /\ s[n + 1] \in Handler /\ HasAfter(s, n, s[n + 1])
      /\ \A y : HasAfter(s, n + 1, y) <=> HasAfter(s, n, y) /\ y # s[n + 1]
  BY <1>3, <1>7, <1>8, Advanced
<1>10. h = s[n + 1]
  BY <1>2, <1>7, <1>8
<1>11. h \in Handler /\ h \in H /\ H2 = H \ {h}
  BY <1>3, <1>5, <1>7, <1>8, <1>9, <1>10 DEF SdkRest
<1>12. SdkPlace'
  BY <1>1, <1>3, <1>7, <1>8, <1>9 DEF SdkPlace
<1>13. SdkKeys' = K
  BY <1>3, <1>5 DEF SdkKeys
<1>14. Tally(K, H2)'
  BY <1>3, <1>5, <1>11, TallyCall
<1> QED BY <1>4, <1>5, <1>12, <1>13, <1>14 DEF SdkDispatchInv

\* No handler of the current key is left.
LEMMA SdkKeyDone ==
  ASSUME SdkDispatchInv, SdkDispatch!KeyDone
  PROVE  current = "none" \/ SdkRest = {}
<1>1. Registry /\ Tally(SdkKeys, SdkRest)
  BY DEF SdkDispatchInv
<1>2. PICK K, H : Tally(K, H)
  BY <1>1
<1> SUFFICES ASSUME current # "none" PROVE SdkRest = {}
  OBVIOUS
<1>3. PICK s \in Seq(Handler) : s = handlers[current] /\ Distinct(s)
  BY <1>1, <1>2, CurrentKey DEF Registry
<1>4. left = Len(s)
  BY <1>3 DEF SdkDispatch!KeyDone
<1>5. \A y : ~HasAfter(s, Len(s), y)
  BY <1>3, Advanced
<1> QED BY <1>3, <1>4, <1>5 DEF SdkRest

\* The patterns follow.
LEMMA SdkExactDone ==
  ASSUME SdkDispatchInv, SdkDispatch!ExactDone
  PROVE  SdkDispatchInv'
<1>1. Registry /\ Tally(SdkKeys, SdkRest)
  BY DEF SdkDispatchInv
<1>2. /\ phase = "exact" /\ phase' = "patterns" /\ event' = event /\ kept' = kept /\ called' = called
      /\ order' = order /\ handlers' = handlers /\ keysLeft' = 0 /\ current' = "none"
  BY DEF SdkDispatch!ExactDone
<1>3. Registry'
  BY <1>1, <1>2 DEF Registry
<1>4. PICK s \in Seq(HandlerKey) : s = order /\ Distinct(s)
  BY <1>1 DEF Registry
<1>5. 0 \in 0..Len(s) /\ \A y : HasAfter(s, 0, y) <=> Has(s, y)
  BY <1>4, Advanced
<1>6. SdkPlace'
  BY <1>2, <1>4, <1>5 DEF SdkPlace
<1>7. PICK K, H, K2, H2 : K = SdkKeys /\ H = SdkRest /\ K2 = SdkKeys' /\ H2 = SdkRest' /\ Tally(K, H)
  BY <1>1
<1>8. K2 = {k \in HandlerKey : HasAfter(s, 0, k)}
  BY <1>2, <1>4, <1>7 DEF SdkKeys
<1>9. K2 \subseteq HandlerKey /\ \A k \in HandlerKey : Has(order, k) => k \in K2
  BY <1>4, <1>5, <1>8
<1>10. current = "none" \/ H = {}
  BY <1>7, SdkKeyDone DEF SdkDispatch!ExactDone
<1>11. Tally(K2, H2)'
  BY <1>1, <1>2, <1>7, <1>9, <1>10, TallyExactDone
<1> QED BY <1>3, <1>6, <1>7, <1>11 DEF SdkDispatchInv

\* The next entry of the live Map.
LEMMA SdkNextKey ==
  ASSUME SdkDispatchInv, SdkDispatch!NextKey
  PROVE  SdkDispatchInv'
<1>1. Registry /\ SdkPlace /\ Tally(SdkKeys, SdkRest)
  BY DEF SdkDispatchInv
<1>2. PICK k : k = order[keysLeft + 1]
  OBVIOUS
<1>3. /\ phase = "patterns" /\ phase' = phase /\ event' = event /\ kept' = kept /\ called' = called
      /\ order' = order /\ handlers' = handlers /\ keysLeft < Len(order) /\ keysLeft' = keysLeft + 1 /\ left' = 0
      /\ current' = IF k \in Pattern THEN k ELSE "none"
  BY <1>2 DEF SdkDispatch!NextKey, SdkDispatch!Nothing
<1>4. Registry'
  BY <1>1, <1>3 DEF Registry
<1>5. PICK s \in Seq(HandlerKey) : s = order /\ Distinct(s)
  BY <1>1 DEF Registry
<1>6. PICK n \in 0..Len(s) : n = keysLeft
  BY <1>1, <1>3, <1>5 DEF SdkPlace
<1>7. /\ n + 1 \in 1..Len(s) /\ s[n + 1] \in HandlerKey /\ HasAfter(s, n, s[n + 1])
      /\ \A y : HasAfter(s, n + 1, y) <=> HasAfter(s, n, y) /\ y # s[n + 1]
  BY <1>3, <1>5, <1>6, Advanced
<1>8. k = s[n + 1]
  BY <1>2, <1>5, <1>6
<1>9. PICK K, H, K2, H2 : K = SdkKeys /\ H = SdkRest /\ K2 = SdkKeys' /\ H2 = SdkRest' /\ Tally(K, H)
  BY <1>1
<1>10. K = {y \in HandlerKey : HasAfter(s, n, y)} /\ K2 = {y \in HandlerKey : HasAfter(s, n + 1, y)}
  BY <1>3, <1>5, <1>6, <1>9 DEF SdkKeys
<1>11. K \subseteq HandlerKey /\ k \in K /\ K2 = K \ {k}
  BY <1>7, <1>8, <1>10
<1>12. current = "none" \/ H = {}
  BY <1>9, SdkKeyDone DEF SdkDispatch!NextKey
<1>13. k \in HandlerKey /\ handlers[k] # << >>
  <2>1. Has(s, k)
    BY <1>7, <1>8 DEF Has
  <2> QED BY <1>1, <1>5, <1>7, <1>8, <2>1 DEF Registry
<1>14. PICK t \in Seq(Handler) : t = handlers[k] /\ Distinct(t)
  BY <1>1, <1>13 DEF Registry
<1>15. 0 \in 0..Len(t) /\ \A y : HasAfter(t, 0, y) <=> Has(t, y)
  BY <1>14, Advanced
<1>16. SdkPlace'
  BY <1>3, <1>5, <1>6, <1>7, <1>13, <1>14, <1>15 DEF SdkPlace
<1>17. ASSUME k \in Pattern, NEW h \in Handler, Has(handlers[k], h) PROVE h \in H2
  <2>1. current' = k /\ k # "none"
    BY <1>3, <1>17, ClientSideAssumption
  <2> QED BY <1>3, <1>9, <1>14, <1>15, <1>17, <2>1 DEF SdkRest
<1>18. Tally(K2, H2)'
  BY <1>1, <1>3, <1>9, <1>11, <1>12, <1>17, TallyNextKey
<1> QED BY <1>4, <1>9, <1>16, <1>18 DEF SdkDispatchInv

\* dispatch ends.
LEMMA SdkEnded ==
  ASSUME SdkDispatchInv, SdkDispatch!Ended, order' = order, handlers' = handlers
  PROVE  SdkDispatchInv'
<1>1. Registry'
  BY DEF SdkDispatchInv, Registry
<1>2. PICK K2, H2 : K2 = SdkKeys' /\ H2 = SdkRest'
  OBVIOUS
<1>3. Tally(K2, H2)'
  BY TallyEnded
<1>4. SdkPlace'
  BY DEF SdkDispatch!Ended, SdkPlace
<1> QED BY <1>1, <1>2, <1>3, <1>4 DEF SdkDispatchInv

\* Every step of the SDK's dispatch keeps the tally, and serves everyone before it ends.
LEMMA SdkDispatchStep ==
  ASSUME SdkDispatchInv, SdkDispatch!Next
  PROVE  SdkDispatchInv' /\ SdkDispatch!HeardOnceStep
<1>1. CASE SdkDispatch!Touch
  <2>1. PICK k \in HandlerKey, h \in Handler : SdkDispatch!Subscribed(k, h) \/ SdkDispatch!Unsubscribed(k, h)
    BY <1>1, SameRegistered DEF SdkDispatch!Touch
  <2>2. phase' = phase /\ event' = event /\ called' = called
    BY <1>1 DEF SdkDispatch!Touch
  <2> QED BY <2>1, <2>2, SdkSubscribes, SdkUnsubscribes DEF SdkDispatch!HeardOnceStep
<1>2. CASE SdkDispatch!FocusChanges
  BY <1>2, SdkSame DEF SdkDispatch!FocusChanges, SdkDispatch!HeardOnceStep
<1>3. ASSUME NEW e \in Events, SdkDispatch!Arrives(e) PROVE SdkDispatchInv' /\ SdkDispatch!HeardOnceStep
  <2>1. SdkDispatchInv'
    BY <1>3, SdkArrives
  <2> QED BY <1>3, <2>1 DEF SdkDispatch!Arrives, SdkDispatch!HeardOnceStep
<1>4. CASE SdkDispatch!Emitted
  <2>1. SdkDispatchInv'
    BY <1>4, SdkEmitted
  <2> QED BY <1>4, <2>1 DEF SdkDispatch!Emitted, SdkDispatch!HeardOnceStep
<1>5. CASE SdkDispatch!Call
  <2>1. SdkDispatchInv'
    BY <1>5, SdkCalls
  <2> QED BY <1>5, <2>1 DEF SdkDispatch!Call, SdkDispatch!HeardOnceStep
<1>6. CASE SdkDispatch!Throw
  BY <1>6, SdkEnded DEF SdkDispatch!Throw, SdkDispatch!HeardOnceStep
<1>7. CASE SdkDispatch!ExactDone
  <2>1. SdkDispatchInv'
    BY <1>7, SdkExactDone
  <2> QED BY <1>7, <2>1 DEF SdkDispatch!ExactDone, SdkDispatch!HeardOnceStep
<1>8. CASE SdkDispatch!NextKey
  <2>1. SdkDispatchInv'
    BY <1>8, SdkNextKey
  <2>2. phase' = phase
    BY <1>8 DEF SdkDispatch!NextKey
  <2> QED BY <2>1, <2>2 DEF SdkDispatch!HeardOnceStep
<1>9. CASE SdkDispatch!Dispatched
  <2>1. SdkDispatchInv'
    BY <1>9, SdkEnded DEF SdkDispatch!Dispatched
  <2>2. PICK K, H : K = SdkKeys /\ H = SdkRest /\ Tally(K, H)
    BY DEF SdkDispatchInv
  <2>3. phase = "patterns" /\ keysLeft = Len(order) /\ (current = "none" \/ H = {})
    BY <1>9, <2>2, SdkKeyDone DEF SdkDispatch!Dispatched
  <2>4. PICK s \in Seq(HandlerKey) : s = order /\ Distinct(s)
    BY DEF SdkDispatchInv, Registry
  <2>5. \A y : ~HasAfter(s, Len(s), y)
    BY <2>4, Advanced
  <2>6. K = {}
    BY <2>2, <2>3, <2>4, <2>5 DEF SdkKeys
  <2>7. \A r \in kept : called[r] = IF SdkDispatch!Runs(r[2]) THEN 1 ELSE 0
    BY <2>2, <2>3, <2>6, TallyComplete
  <2> QED BY <2>1, <2>7 DEF SdkDispatch!HeardOnceStep
<1> QED BY <1>1, <1>2, <1>3, <1>4, <1>5, <1>6, <1>7, <1>8, <1>9 DEF SdkDispatch!Next

-----------------------------------------------------------------------------
(* _dispatch of mio-client.js                                              *)

\* subscribe and unsubscribe during a dispatch leave the copies alone.
LEMMA LightTouches ==
  ASSUME LightDispatchInv, NEW k \in HandlerKey, NEW h \in Handler,
         LightDispatch!Subscribed(k, h) \/ LightDispatch!Unsubscribed(k, h),
         phase' = phase, event' = event, called' = called
  PROVE  LightDispatchInv'
<1>1. Registry /\ LightPlace /\ Tally(LightKeys, LightRest)
  BY DEF LightDispatchInv
<1>2. keysLeft' = keysLeft /\ current' = current /\ left' = left
  BY DEF LightDispatch!Subscribed, LightDispatch!Unsubscribed
<1>3. Registry' /\ kept' \subseteq kept /\ kept' \subseteq SdkDispatch!Registered'
  <2>1. kept \subseteq SdkDispatch!Registered
    BY <1>1 DEF Tally
  <2>2. CASE LightDispatch!Subscribed(k, h)
    <3>1. kept' = kept
      BY <2>2 DEF LightDispatch!Subscribed
    <3> QED BY <1>1, <2>1, <2>2, <3>1, RegistrySubscribed
  <2>3. CASE LightDispatch!Unsubscribed(k, h)
    BY <1>1, <2>1, <2>3, RegistryUnsubscribed
  <2> QED BY <2>2, <2>3
<1>4. LightPlace' /\ LightKeys' = LightKeys /\ LightRest' = LightRest
  BY <1>1, <1>2 DEF LightPlace, LightKeys, LightRest
<1>5. PICK K, H : K = LightKeys /\ H = LightRest /\ Tally(K, H)
  BY <1>1
<1>6. phase = "patterns" => current' \notin K
  BY <1>2, <1>5 DEF Tally
<1>7. Tally(K, H)'
  BY <1>2, <1>3, <1>5, <1>6, TallyTouch
<1> QED BY <1>3, <1>4, <1>5, <1>7 DEF LightDispatchInv

\* What the invariants do not mention may change.
LEMMA LightSame ==
  ASSUME LightDispatchInv, UNCHANGED <<order, handlers, phase, event, keysLeft, current, left, kept, called>>
  PROVE  LightDispatchInv'
BY DEF LightDispatchInv, Registry, LightPlace, LightKeys, LightRest, Tally, Waits, SdkDispatch!Registered, SdkDispatch!Runs

\* A message arrives.
LEMMA LightArrives ==
  ASSUME LightDispatchInv, NEW e, LightDispatch!Arrives(e)
  PROVE  LightDispatchInv'
<1>1. Registry /\ LightPlace /\ Tally(LightKeys, LightRest)
  BY DEF LightDispatchInv
<1>2. /\ phase = "idle" /\ phase' = "listeners" /\ kept' = SdkDispatch!Registered
      /\ order' = order /\ handlers' = handlers /\ current' = current /\ called' = called
  BY SameRegistered DEF LightDispatch!Arrives
<1>3. Registry'
  BY <1>1, <1>2 DEF Registry
<1>4. current = "none"
  BY <1>1, <1>2 DEF Tally
<1>5. LightPlace' /\ LightKeys' = {} /\ LightKeys = {} /\ LightRest' = {} /\ LightRest = {}
  BY <1>2, <1>4 DEF LightPlace, LightKeys, LightRest
<1>6. PICK K, H : K = LightKeys /\ H = LightRest /\ Tally(K, H)
  BY <1>1
<1>7. Tally(K, H)'
  BY <1>2, <1>6, TallyArrives
<1> QED BY <1>3, <1>5, <1>6, <1>7 DEF LightDispatchInv

\* A copy of the handlers of the channel.
LEMMA LightEmitted ==
  ASSUME LightDispatchInv, LightDispatch!Emitted
  PROVE  LightDispatchInv'
<1>1. Registry /\ Tally(LightKeys, LightRest)
  BY DEF LightDispatchInv
<1>2. /\ phase = "listeners" /\ phase' = "exact" /\ event' = event /\ kept' = kept /\ called' = called
      /\ order' = order /\ handlers' = handlers /\ left' = handlers[Exact]
      /\ current' = (IF handlers[Exact] # << >> THEN Exact ELSE "none")
  BY DEF LightDispatch!Emitted
<1>3. Registry'
  BY <1>1, <1>2 DEF Registry
<1>4. LightPlace'
  BY <1>1, <1>2 DEF LightPlace, Registry, HandlerKey
<1>5. PICK K, H, K2, H2 : K = LightKeys /\ H = LightRest /\ K2 = LightKeys' /\ H2 = LightRest' /\ Tally(K, H)
  BY <1>1
<1>6. ASSUME NEW h \in Handler, Has(handlers[Exact], h) PROVE h \in H2
  <2>1. handlers[Exact] # << >>
    BY <1>6 DEF Has
  <2>2. current' = Exact /\ Exact # "none"
    BY <1>2, <2>1, ClientSideAssumption
  <2> QED BY <1>2, <1>5, <1>6, <2>2 DEF LightRest
<1>7. Tally(K2, H2)'
  BY <1>1, <1>2, <1>5, <1>6, TallyEmitted
<1> QED BY <1>3, <1>4, <1>5, <1>7 DEF LightDispatchInv

\* The next handler of the copy.
LEMMA LightCalls ==
  ASSUME LightDispatchInv, LightDispatch!Call
  PROVE  LightDispatchInv'
<1>1. Registry /\ LightPlace /\ Tally(LightKeys, LightRest)
  BY DEF LightDispatchInv
<1>2. PICK h : h = Head(left)
  OBVIOUS
<1>3. /\ current # "none" /\ left # << >>
      /\ called' = [called EXCEPT ![<<current, h>>] = IF SdkDispatch!Runs(h) THEN @ + 1 ELSE @]
      /\ left' = Tail(left)
      /\ order' = order /\ handlers' = handlers /\ phase' = phase /\ event' = event
      /\ keysLeft' = keysLeft /\ current' = current /\ kept' = kept
  BY <1>2 DEF LightDispatch!Call, LightDispatch!Runs, SdkDispatch!Runs
<1>4. Registry'
  BY <1>1, <1>3 DEF Registry
<1>5. PICK K, H, H2 : K = LightKeys /\ H = LightRest /\ H2 = LightRest' /\ Tally(K, H)
  BY <1>1
<1>6. PICK s \in Seq(Handler) : s = left /\ Distinct(s) /\ s # << >>
  BY <1>1, <1>3 DEF LightPlace
<1>7. /\ Tail(s) \in Seq(Handler) /\ Distinct(Tail(s)) /\ Head(s) \in Handler /\ Has(s, Head(s))
      /\ \A y : Has(Tail(s), y) <=> Has(s, y) /\ y # Head(s)
  BY <1>6, Tailed
<1>8. h = Head(s) /\ left' = Tail(s)
  BY <1>2, <1>3, <1>6
<1>9. H = {y \in Handler : Has(s, y)} /\ H2 = {y \in Handler : Has(Tail(s), y)}
  BY <1>3, <1>5, <1>6, <1>8 DEF LightRest
<1>10. h \in Handler /\ h \in H /\ H2 = H \ {h}
  BY <1>7, <1>8, <1>9
<1>11. LightPlace'
  BY <1>1, <1>3, <1>7, <1>8 DEF LightPlace
<1>12. LightKeys' = K
  BY <1>3, <1>5 DEF LightKeys
<1>13. Tally(K, H2)'
  BY <1>3, <1>5, <1>10, TallyCall
<1> QED BY <1>4, <1>5, <1>11, <1>12, <1>13 DEF LightDispatchInv

\* No handler of the copy is left.
LEMMA LightKeyDone ==
  ASSUME LightDispatch!KeyDone
  PROVE  current = "none" \/ LightRest = {}
<1>1. current # "none" => \A h : ~Has(left, h)
  BY DEF LightDispatch!KeyDone, Has
<1> QED BY <1>1 DEF LightRest

\* A copy of the keys.
LEMMA LightExactDone ==
  ASSUME LightDispatchInv, LightDispatch!ExactDone
  PROVE  LightDispatchInv'
<1>1. Registry /\ Tally(LightKeys, LightRest)
  BY DEF LightDispatchInv
<1>2. /\ phase = "exact" /\ phase' = "patterns" /\ event' = event /\ kept' = kept /\ called' = called
      /\ order' = order /\ handlers' = handlers /\ keysLeft' = order /\ current' = "none"
  BY DEF LightDispatch!ExactDone
<1>3. Registry'
  BY <1>1, <1>2 DEF Registry
<1>4. LightPlace'
  BY <1>1, <1>2 DEF LightPlace, Registry
<1>5. PICK K, H, K2, H2 : K = LightKeys /\ H = LightRest /\ K2 = LightKeys' /\ H2 = LightRest' /\ Tally(K, H)
  BY <1>1
<1>6. K2 \subseteq HandlerKey /\ \A k \in HandlerKey : Has(order, k) => k \in K2
  BY <1>2, <1>5 DEF LightKeys
<1>7. current = "none" \/ H = {}
  BY <1>5, LightKeyDone DEF LightDispatch!ExactDone
<1>8. Tally(K2, H2)'
  BY <1>1, <1>2, <1>5, <1>6, <1>7, TallyExactDone
<1> QED BY <1>3, <1>4, <1>5, <1>8 DEF LightDispatchInv

\* dispatch ends.
LEMMA LightEnded ==
  ASSUME LightDispatchInv, LightDispatch!Ended, order' = order, handlers' = handlers
  PROVE  LightDispatchInv'
<1>1. Registry'
  BY DEF LightDispatchInv, Registry
<1>2. PICK K2, H2 : K2 = LightKeys' /\ H2 = LightRest'
  OBVIOUS
<1>3. Tally(K2, H2)'
  BY TallyEnded
<1>4. LightPlace'
  BY DEF LightDispatch!Ended, LightPlace
<1> QED BY <1>1, <1>2, <1>3, <1>4 DEF LightDispatchInv

\* The next key of the copy, and a copy of its handlers, or the end when it has none.
LEMMA LightNextKey ==
  ASSUME LightDispatchInv, LightDispatch!NextKey
  PROVE  LightDispatchInv' /\ (phase' = phase \/ failed' = "client")
<1>1. Registry /\ LightPlace /\ Tally(LightKeys, LightRest)
  BY DEF LightDispatchInv
<1>2. PICK k : k = Head(keysLeft)
  OBVIOUS
<1>3. phase = "patterns" /\ order' = order /\ handlers' = handlers /\ keysLeft # << >>
  BY DEF LightDispatch!NextKey
<1>4. CASE k \in Pattern /\ handlers[k] = << >>
  <2>1. failed' = "client" /\ LightDispatch!Ended
    BY <1>2, <1>4 DEF LightDispatch!NextKey
  <2> QED BY <1>3, <2>1, LightEnded
<1>5. CASE ~(k \in Pattern /\ handlers[k] = << >>)
  <2>1. /\ phase' = phase /\ event' = event /\ kept' = kept /\ called' = called
        /\ keysLeft' = Tail(keysLeft)
        /\ current' = (IF k \in Pattern THEN k ELSE "none")
        /\ k \in Pattern => left' = handlers[k]
    BY <1>2, <1>5 DEF LightDispatch!NextKey
  <2>2. Registry'
    BY <1>1, <1>3 DEF Registry
  <2>3. PICK s \in Seq(HandlerKey) : s = keysLeft /\ Distinct(s) /\ s # << >>
    BY <1>1, <1>3 DEF LightPlace
  <2>4. /\ Tail(s) \in Seq(HandlerKey) /\ Distinct(Tail(s)) /\ Head(s) \in HandlerKey /\ Has(s, Head(s))
        /\ \A y : Has(Tail(s), y) <=> Has(s, y) /\ y # Head(s)
    BY <2>3, Tailed
  <2>5. k = Head(s) /\ keysLeft' = Tail(s)
    BY <1>2, <2>1, <2>3
  <2>6. PICK K, H, K2, H2 : K = LightKeys /\ H = LightRest /\ K2 = LightKeys' /\ H2 = LightRest' /\ Tally(K, H)
    BY <1>1
  <2>7. K = {y \in HandlerKey : Has(s, y)} /\ K2 = {y \in HandlerKey : Has(Tail(s), y)}
    BY <1>3, <2>1, <2>3, <2>5, <2>6 DEF LightKeys
  <2>8. K \subseteq HandlerKey /\ k \in K /\ K2 = K \ {k}
    BY <2>4, <2>5, <2>7
  <2>9. current = "none" \/ H = {}
    BY <2>6, LightKeyDone DEF LightDispatch!NextKey
  <2>10. LightPlace'
    <3>1. k \in Pattern => handlers[k] \in Seq(Handler) /\ Distinct(handlers[k])
      BY <1>1 DEF Registry, HandlerKey
    <3> QED BY <2>1, <2>4, <2>5, <3>1 DEF LightPlace
  <2>11. ASSUME k \in Pattern, NEW h \in Handler, Has(handlers[k], h) PROVE h \in H2
    <3>1. current' = k /\ k # "none"
      BY <2>1, <2>11, ClientSideAssumption
    <3> QED BY <2>1, <2>6, <2>11, <3>1 DEF LightRest
  <2>12. Tally(K2, H2)'
    BY <1>1, <1>3, <2>1, <2>6, <2>8, <2>9, <2>11, TallyNextKey
  <2> QED BY <2>1, <2>2, <2>6, <2>10, <2>12 DEF LightDispatchInv
<1> QED BY <1>4, <1>5

\* Every step of the light client's dispatch keeps the tally, and serves everyone before it ends.
LEMMA LightDispatchStep ==
  ASSUME LightDispatchInv, LightDispatch!Next
  PROVE  LightDispatchInv' /\ LightDispatch!HeardOnceStep
<1>1. CASE LightDispatch!Touch
  <2>1. PICK k \in HandlerKey, h \in Handler : LightDispatch!Subscribed(k, h) \/ LightDispatch!Unsubscribed(k, h)
    BY <1>1, SameRegistered DEF LightDispatch!Touch
  <2>2. phase' = phase /\ event' = event /\ called' = called
    BY <1>1 DEF LightDispatch!Touch
  <2> QED BY <2>1, <2>2, LightTouches DEF LightDispatch!HeardOnceStep
<1>2. CASE LightDispatch!FocusChanges
  BY <1>2, LightSame DEF LightDispatch!FocusChanges, LightDispatch!HeardOnceStep
<1>3. ASSUME NEW e \in Events, LightDispatch!Arrives(e) PROVE LightDispatchInv' /\ LightDispatch!HeardOnceStep
  <2>1. LightDispatchInv'
    BY <1>3, LightArrives
  <2> QED BY <1>3, <2>1 DEF LightDispatch!Arrives, LightDispatch!HeardOnceStep
<1>4. CASE LightDispatch!Emitted
  <2>1. LightDispatchInv'
    BY <1>4, LightEmitted
  <2> QED BY <1>4, <2>1 DEF LightDispatch!Emitted, LightDispatch!HeardOnceStep
<1>5. CASE LightDispatch!Call
  <2>1. LightDispatchInv'
    BY <1>5, LightCalls
  <2> QED BY <1>5, <2>1 DEF LightDispatch!Call, LightDispatch!HeardOnceStep
<1>6. CASE LightDispatch!Throw
  BY <1>6, LightEnded DEF LightDispatch!Throw, LightDispatch!HeardOnceStep
<1>7. CASE LightDispatch!ExactDone
  <2>1. LightDispatchInv'
    BY <1>7, LightExactDone
  <2> QED BY <1>7, <2>1 DEF LightDispatch!ExactDone, LightDispatch!HeardOnceStep
<1>8. CASE LightDispatch!NextKey
  BY <1>8, LightNextKey DEF LightDispatch!HeardOnceStep
<1>9. CASE LightDispatch!Dispatched
  <2>1. LightDispatchInv'
    BY <1>9, LightEnded DEF LightDispatch!Dispatched
  <2>2. PICK K, H : K = LightKeys /\ H = LightRest /\ Tally(K, H)
    BY DEF LightDispatchInv
  <2>3. phase = "patterns" /\ keysLeft = << >> /\ (current = "none" \/ H = {})
    BY <1>9, <2>2, LightKeyDone DEF LightDispatch!Dispatched
  <2>4. \A k : ~Has(keysLeft, k)
    BY <2>3 DEF Has
  <2>5. K = {}
    BY <2>2, <2>4 DEF LightKeys
  <2>6. \A r \in kept : called[r] = IF LightDispatch!Runs(r[2]) THEN 1 ELSE 0
    BY <2>2, <2>3, <2>5, TallyComplete DEF LightDispatch!Runs, SdkDispatch!Runs
  <2> QED BY <2>1, <2>6 DEF LightDispatch!HeardOnceStep
<1> QED BY <1>1, <1>2, <1>3, <1>4, <1>5, <1>6, <1>7, <1>8, <1>9 DEF LightDispatch!Next

\* Nothing is registered at first.
LEMMA DispatchStart ==
  /\ SdkDispatch!Init => SdkDispatchInv
  /\ LightDispatch!Init => LightDispatchInv
<1> SUFFICES ASSUME SdkDispatch!Init \/ LightDispatch!Init PROVE SdkDispatchInv /\ LightDispatchInv
  OBVIOUS
<1>1. /\ order = << >> /\ handlers = [k \in HandlerKey |-> << >>] /\ phase = "idle" /\ current = "none"
      /\ kept = {} /\ called = [r \in HandlerKey \X Handler |-> 0]
  BY SameRegistered DEF SdkDispatch!Init, LightDispatch!Init
<1>2. << >> \in Seq(Handler) /\ << >> \in Seq(HandlerKey) /\ Distinct(<< >>) /\ \A x : ~Has(<< >>, x)
  BY DEF Distinct, Has
<1>3. Registry
  BY <1>1, <1>2 DEF Registry
<1>4. \A K, H : Tally(K, H)
  BY <1>1 DEF Tally
<1>5. SdkPlace /\ LightPlace
  BY <1>1 DEF SdkPlace, LightPlace
<1> QED BY <1>3, <1>4, <1>5 DEF SdkDispatchInv, LightDispatchInv

\* However handlers subscribe and unsubscribe while they are called, one that stays
\* registered while a message is dispatched runs exactly once for it, or not at all when it
\* was wrapped for another event, for any number of handlers, patterns and touches
\* (dispatch of client.ts, which walks live Maps and Sets, and _dispatch of mio-client.js
\* and mio-embed.js, which walks copies).
THEOREM EveryHandlerRunsOnce == Spec => HeardOnce
<1> DEFINE Inv == /\ program = "sdk-dispatch" => SdkDispatchInv
                  /\ program = "light-dispatch" => LightDispatchInv
           Step == /\ program = "sdk-dispatch" => SdkDispatch!HeardOnceStep
                   /\ program = "light-dispatch" => LightDispatch!HeardOnceStep
<1>1. Init => Inv
  BY DispatchStart DEF Init
<1>2. Inv /\ [Next]_vars => Inv' /\ [Step]_vars
  <2> SUFFICES ASSUME Inv, [Next]_vars PROVE Inv' /\ [Step]_vars
    OBVIOUS
  <2>1. ASSUME program = "sdk-dispatch" PROVE Inv' /\ [Step]_vars
    <3>1. program' = "sdk-dispatch"
      BY <2>1, SameProgram
    <3>2. CASE SdkDispatch!Next
      BY <2>1, <3>1, <3>2, SdkDispatchStep
    <3>3. CASE UNCHANGED vars
      BY <2>1, <3>1, <3>3, SdkSame DEF vars
    <3> QED BY <2>1, <3>2, <3>3 DEF Next
  <2>2. ASSUME program = "light-dispatch" PROVE Inv' /\ [Step]_vars
    <3>1. program' = "light-dispatch"
      BY <2>2, SameProgram
    <3>2. CASE LightDispatch!Next
      BY <2>2, <3>1, <3>2, LightDispatchStep
    <3>3. CASE UNCHANGED vars
      BY <2>2, <3>1, <3>3, LightSame DEF vars
    <3> QED BY <2>2, <3>2, <3>3 DEF Next
  <2> QED BY <2>1, <2>2, SameProgram
<1> QED BY <1>1, <1>2, PTL DEF Spec, HeardOnce
=============================================================================
