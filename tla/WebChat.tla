------------------------------- MODULE WebChat -------------------------------
(***************************************************************************)
(* The chat application (web-client): connection.store, chat.store and      *)
(* notifications.store with the pages around them.                          *)
(*                                                                         *)
(* connect() makes a new SDK client every time and leaves the listeners of  *)
(* the old one in place.  useConnection, mounted on both pages, subscribes  *)
(* every joined channel again each time the status becomes "open".          *)
(***************************************************************************)
EXTENDS Naturals, Sequences, FiniteSets

CONSTANTS
  ChatChannel,         \* channels one may join
  NoChannel,           \* null
  MaxClients,          \* bound: clients made by connect()
  MaxUnread,           \* bound: messages counted as unread
  MaxNotifications     \* MAX_NOTIFICATIONS

VARIABLES
  connStatus,          \* status of connection.store
  activeClient,        \* the client in use, 0 for null
  hasCredentials,      \* credentials, kept in localStorage
  conn,                \* conn[k]: the socket of client k
  handlers,            \* handlers[k]: channels that have handleIncoming on client k
  live,                \* liveSubscriptions: channel to the client its Unsubscribe is of, 0 for a no-op
  channelIds,          \* joined channels, kept in localStorage
  activeChannelId,
  unreadByChannel,
  bubbles,             \* messagesByChannel: which kinds of bubble a channel shows
  bell,                \* notifications.store: for each kept item whether it was read, newest first
  bellCount,           \* its unreadCount
  route                \* the page shown

vars == <<connStatus, activeClient, hasCredentials, conn, handlers, live, channelIds,
          activeChannelId, unreadByChannel, bubbles, bell, bellCount, route>>

chat   == <<channelIds, activeChannelId, unreadByChannel, bubbles>>
notice == <<bell, bellCount>>

Clients == 1..MaxClients

Init ==
  /\ connStatus = "idle" /\ activeClient = 0 /\ hasCredentials = FALSE
  /\ conn = [k \in Clients |-> "none"]
  /\ handlers = [k \in Clients |-> {}]
  /\ live = << >>
  /\ channelIds = {} /\ activeChannelId = NoChannel
  /\ unreadByChannel = [c \in ChatChannel |-> 0] /\ bubbles = [c \in ChatChannel |-> {}]
  /\ bell = << >> /\ bellCount = 0
  /\ route = "/"

-----------------------------------------------------------------------------
(* Subscriptions                                                            *)

\* The channels of cs that have no entry are subscribed on the active client;
\* without one, subscribeChannel returns a function that does nothing.
subscribeToChannels(cs, entries) ==
  LET missing == cs \ DOMAIN entries
  IN  /\ live' = [c \in missing \cup DOMAIN entries |->
                    IF c \in missing THEN activeClient ELSE entries[c]]
      /\ handlers' = [k \in Clients |->
                        IF k = activeClient THEN handlers[k] \cup missing ELSE handlers[k]]

FaultyRehydrate == subscribeToChannels(channelIds, live)

\* The new client starts with no subscription.
rehydrateSubscriptions == subscribeToChannels(channelIds, << >>)

\* set({ status }) with the effect of useConnection.
SetStatus(s) ==
  /\ connStatus' = s
  /\ IF connStatus # "open" /\ s = "open" THEN rehydrateSubscriptions
                                          ELSE UNCHANGED <<live, handlers>>

\* ConnectedRoute sends an idle visitor to the connect page.
Guarded(r, s) == IF s = "idle" THEN "/" ELSE r

-----------------------------------------------------------------------------
(* The connection                                                           *)

Ended(s) == IF s \in {"connecting", "open"} THEN "closing" ELSE "dead"

\* disconnect() of the SDK: its close event comes later, if it had a socket.
Dropped == [k \in Clients |-> IF k = activeClient THEN Ended(conn[k]) ELSE conn[k]]

\* connect of the store: a new client, whose listeners stay for good.
connect ==
  /\ \E k \in Clients :
       /\ conn[k] = "none" /\ \A j \in 1..(k - 1) : conn[j] # "none"
       /\ activeClient' = k
       /\ conn' = [Dropped EXCEPT ![k] = "connecting"]
  /\ hasCredentials' = TRUE
  /\ connStatus' = "connecting"
  /\ UNCHANGED <<handlers, live, chat, notice>>

\* handleSubmit of the connect page, with all fields filled in.
ConnectPage == route = "/" /\ connStatus # "connecting" /\ connect /\ route' = "/chat"

\* The button in the list of channels.
disconnect ==
  /\ route = "/chat"
  /\ conn' = Dropped
  /\ activeClient' = 0 /\ hasCredentials' = FALSE
  /\ connStatus' = "idle"
  /\ route' = Guarded(route, "idle")
  /\ UNCHANGED <<handlers, live, chat, notice>>

OnOpen(k) ==
  /\ conn[k] = "connecting"
  /\ conn' = [conn EXCEPT ![k] = "open"]
  /\ SetStatus("open")
  /\ UNCHANGED <<activeClient, hasCredentials, chat, notice, route>>

\* Of any client, the one in use or not: its listeners were never taken off.
OnClose(k) ==
  /\ conn[k] \in {"connecting", "open", "closing"}
  /\ conn' = [conn EXCEPT ![k] = IF @ = "closing" THEN "dead" ELSE "retry"]
  /\ SetStatus(IF connStatus = "error" THEN "error" ELSE "closed")
  /\ UNCHANGED <<activeClient, hasCredentials, chat, notice, route>>

OnError(k) ==
  /\ conn[k] \in {"connecting", "open", "closing"}
  /\ SetStatus("error")
  /\ UNCHANGED <<activeClient, hasCredentials, conn, chat, notice, route>>

\* The SDK tries again by itself.
Reconnect(k) ==
  /\ conn[k] = "retry"
  /\ conn' = [conn EXCEPT ![k] = "connecting"]
  /\ UNCHANGED <<connStatus, activeClient, hasCredentials, handlers, live, chat, notice, route>>

\* The page is loaded again: only the credentials and the list of channels last.
Reload ==
  /\ connStatus' = "idle" /\ activeClient' = 0
  /\ conn' = [k \in Clients |-> IF conn[k] = "none" THEN "none" ELSE "dead"]
  /\ handlers' = [k \in Clients |-> {}] /\ live' = << >>
  /\ activeChannelId' = NoChannel /\ unreadByChannel' = [c \in ChatChannel |-> 0]
  /\ bubbles' = [c \in ChatChannel |-> {}]
  /\ bell' = << >> /\ bellCount' = 0
  /\ route' = Guarded(route, "idle")
  /\ UNCHANGED <<hasCredentials, channelIds>>

\* The visitor uses the browser's buttons.
Navigate(r) ==
  /\ route' = Guarded(r, connStatus)
  /\ UNCHANGED <<connStatus, activeClient, hasCredentials, conn, handlers, live, chat, notice>>

-----------------------------------------------------------------------------
(* Channels and messages                                                    *)

\* A channel that was joined before is only made the active one.
joinChannel(c) ==
  /\ activeChannelId' = c
  /\ IF c \in channelIds THEN UNCHANGED <<channelIds, bubbles, live, handlers>>
     ELSE /\ channelIds' = channelIds \cup {c}
          /\ bubbles' = [bubbles EXCEPT ![c] = {}]
          /\ subscribeToChannels({c}, live)
  /\ UNCHANGED <<connStatus, activeClient, hasCredentials, conn, unreadByChannel, notice, route>>

\* The entry's Unsubscribe is called, whichever client it is of.
leaveChannel(c) ==
  /\ handlers' = [k \in Clients |->
                    IF c \in DOMAIN live /\ k = live[c] THEN handlers[k] \ {c} ELSE handlers[k]]
  /\ live' = [d \in DOMAIN live \ {c} |-> live[d]]
  /\ channelIds' = channelIds \ {c}
  /\ activeChannelId' = IF activeChannelId = c THEN NoChannel ELSE activeChannelId
  /\ unreadByChannel' = [unreadByChannel EXCEPT ![c] = 0]
  /\ bubbles' = [bubbles EXCEPT ![c] = {}]
  /\ UNCHANGED <<connStatus, activeClient, hasCredentials, conn, notice, route>>

setActiveChannel(c) ==
  /\ activeChannelId' = c
  /\ unreadByChannel' = [unreadByChannel EXCEPT ![c] = 0]
  /\ UNCHANGED <<connStatus, activeClient, hasCredentials, conn, handlers, live, channelIds, bubbles,
                 notice, route>>

\* The list of channels: the form that joins one, and a row for each joined one.
JoinForm(c)   == route = "/chat" /\ joinChannel(c)
ChannelRow(c) == route = "/chat" /\ c \in channelIds /\ (setActiveChannel(c) \/ leaveChannel(c))

\* The bubble is shown at once; without a client there is nobody to publish it.
sendMessage(c) ==
  /\ bubbles' = [bubbles EXCEPT ![c] = @ \cup {IF activeClient = 0 THEN "unsent" ELSE "out"}]
  /\ UNCHANGED <<connStatus, activeClient, hasCredentials, conn, handlers, live, channelIds,
                 activeChannelId, unreadByChannel, notice, route>>

\* A text that is not blank and fits the frame.
MessageInput == route = "/chat" /\ activeChannelId # NoChannel /\ sendMessage(activeChannelId)

\* push of notifications.store.
push ==
  /\ bellCount' = bellCount + 1
  /\ bell' = SubSeq(<<FALSE>> \o bell, 1, IF Len(bell) < MaxNotifications THEN Len(bell) + 1
                                                                          ELSE MaxNotifications)

\* handleIncoming, for a message of somebody else; one with the visitor's own
\* display name is passed over.
handleIncoming(k, c) ==
  /\ conn[k] = "open" /\ c \in handlers[k] /\ bellCount < MaxUnread /\ unreadByChannel[c] < MaxUnread
  /\ bubbles' = [bubbles EXCEPT ![c] = @ \cup {"in"}]
  /\ IF c = activeChannelId THEN UNCHANGED <<unreadByChannel, notice>>
     ELSE unreadByChannel' = [unreadByChannel EXCEPT ![c] = @ + 1] /\ push
  /\ UNCHANGED <<connStatus, activeClient, hasCredentials, conn, handlers, live, channelIds,
                 activeChannelId, route>>

markAllRead ==
  /\ bell' = [i \in DOMAIN bell |-> TRUE] /\ bellCount' = 0
  /\ UNCHANGED <<connStatus, activeClient, hasCredentials, conn, handlers, live, chat, route>>

\* The bell is opened.
NotificationBell == route = "/chat" /\ markAllRead

Next ==
  \/ ConnectPage \/ disconnect \/ Reload \/ NotificationBell \/ MessageInput
  \/ \E k \in Clients : OnOpen(k) \/ OnClose(k) \/ OnError(k) \/ Reconnect(k)
  \/ \E r \in {"/", "/chat"} : Navigate(r)
  \/ \E c \in ChatChannel : JoinForm(c) \/ ChannelRow(c)
  \/ \E k \in Clients, c \in ChatChannel : handleIncoming(k, c)

Spec == Init /\ [][Next]_vars

-----------------------------------------------------------------------------
(* Properties                                                               *)

\* A client that is open hears exactly the joined channels, each through one
\* handler, after any sequence of joining, leaving, reconnecting, connecting anew
\* and reloading (useConnection.ts:4-7).
SubscribedToJoined ==
  activeClient # 0 /\ conn[activeClient] = "open" => handlers[activeClient] = channelIds

\* A message that is shown as sent was given to a client.
\* The code breaks it (README, Findings).
ShownIsPublished == \A c \in ChatChannel : "unsent" \notin bubbles[c]

\* The badge of the bell counts the items in it that are unread.
\* The code breaks it (README, Findings).
BellCountsItsItems == bellCount = Len(SelectSeq(bell, LAMBDA read : ~read))
=============================================================================
