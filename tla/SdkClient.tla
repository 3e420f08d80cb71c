----------------------------- MODULE SdkClient -----------------------------
(***************************************************************************)
(* RealtimeClient of the TypeScript SDK: one object of the application,    *)
(* the sockets it has opened so far and what the server knows of them.     *)
(*                                                                         *)
(* JavaScript runs one callback at a time; a step is a call of the         *)
(* application, the resumption of openSocket after one of its two awaits,  *)
(* a timer, or an event of a socket.  The callbacks of a socket act on     *)
(* this.ws, which may be another socket or none by then.                   *)
(*                                                                         *)
(* Operators whose name starts with Faulty are not part of the model: each *)
(* is a plausible slip in the definition that follows it, there to show    *)
(* that a property would notice.                                           *)
(***************************************************************************)
EXTENDS Naturals, FiniteSets, SequencesExt

CONSTANTS
  Channels,      \* channel ids and patterns the application subscribes to
  Handlers,      \* its message handlers
  MaxSockets,    \* bound: sockets ever opened
  MaxSends,      \* bound: calls of publish, unicast and replay
  MaxConnects    \* bound: calls of connect

ASSUME ClientAssumption == {MaxSockets, MaxSends, MaxConnects} \subseteq Nat

VARIABLES
  config,          \* whether getToken is configured, and reconnect
  closedByUser,
  opening,         \* opening[a]: runs of openSocket that wait at await a
  sockets,         \* readyState of every socket, in the order they were created
  ws,              \* this.ws: the number of a socket, or 0
  timers,          \* reconnect timers that have yet to fire
  reconnectTimer,  \* whether the handle in this.reconnectTimer is one of them
  heartbeat,       \* whether the heartbeat timer runs
  subscriptions,   \* subscriptions[c]: the handlers of c
  pendingSends,    \* calls made while the socket was not open, oldest first
  sends,           \* number of calls of publish, unicast and replay
  sent,            \* those that were put on a socket, in that order
  authed,          \* sockets on which the server was sent AUTH
  serverSubs,      \* serverSubs[i]: what the server relays on socket i
  connects,        \* number of calls of connect
  gaveUp,          \* the client has stopped trying for a reason the docs give
  overlapped       \* connect was called while something of an earlier one was left

attempt == <<opening, timers, reconnectTimer, gaveUp>>
sending == <<pendingSends, sends, sent>>
server  == <<authed, serverSubs>>
app     == <<config, connects, overlapped>>
vars    == <<app, closedByUser, attempt, sockets, ws, heartbeat, subscriptions, sending, server>>

Socket == 1..MaxSockets
Active(c) == subscriptions[c] # {}

TypeOK ==
  /\ config \in [getToken : BOOLEAN, reconnect : BOOLEAN]
  /\ closedByUser \in BOOLEAN
  /\ opening \in [{"token", "impl"} -> Nat]
  /\ sockets \in Seq({"connecting", "open", "closing", "closed"})
  /\ Len(sockets) <= MaxSockets
  /\ ws \in 0..Len(sockets)
  /\ timers \in Nat
  /\ reconnectTimer \in BOOLEAN
  /\ reconnectTimer => timers > 0
  /\ heartbeat \in BOOLEAN
  /\ subscriptions \in [Channels -> SUBSET Handlers]
  /\ pendingSends \in Seq(1..MaxSends)
  /\ sends \in 0..MaxSends
  /\ sent \in Seq(1..MaxSends)
  /\ authed \in SUBSET Socket
  /\ serverSubs \in [Socket -> SUBSET Channels]
  /\ connects \in 0..MaxConnects
  /\ gaveUp \in BOOLEAN
  /\ overlapped \in BOOLEAN

Init ==
  /\ config \in [getToken : BOOLEAN, reconnect : BOOLEAN]
  /\ closedByUser = TRUE
  /\ opening = [a \in {"token", "impl"} |-> 0]
  /\ sockets = << >>
  /\ ws = 0
  /\ timers = 0
  /\ reconnectTimer = FALSE
  /\ heartbeat = FALSE
  /\ subscriptions = [c \in Channels |-> {}]
  /\ pendingSends = << >>
  /\ sends = 0
  /\ sent = << >>
  /\ authed = {}
  /\ serverSubs = [i \in Socket |-> {}]
  /\ connects = 0
  /\ gaveUp = FALSE
  /\ overlapped = FALSE

-----------------------------------------------------------------------------
(* Helpers                                                                 *)

\* this.ws?.readyState === WS_OPEN
IsOpen == ws # 0 /\ sockets[ws] = "open"

Live(i) == i \in DOMAIN sockets /\ sockets[i] \in {"connecting", "open"}

\* Nothing is left of earlier connections.
AtRest ==
  /\ \A a \in DOMAIN opening : opening[a] = 0
  /\ timers = 0
  /\ \A i \in DOMAIN sockets : sockets[i] = "closed"

\* openSocket runs up to its first await.
OpenSocket(from) ==
  opening' = [from EXCEPT ![IF config.getToken THEN "token" ELSE "impl"] = @ + 1]

\* A run of openSocket leaves the await a.
Resume(a) == [opening EXCEPT ![a] = @ - 1]

\* scheduleReconnect; the delay and its backoff do not matter here.
ScheduleReconnect ==
  IF ~closedByUser /\ config.reconnect
    THEN timers' = timers + 1 /\ reconnectTimer' = TRUE
    ELSE UNCHANGED <<timers, reconnectTimer>>

-----------------------------------------------------------------------------
(* Calls of the application                                                *)

Connect ==
  /\ connects < MaxConnects
  /\ connects' = connects + 1
  /\ closedByUser' = FALSE
  /\ OpenSocket(opening)
  /\ gaveUp' = FALSE
  /\ overlapped' = (overlapped \/ ~AtRest)
  /\ UNCHANGED <<config, timers, reconnectTimer, sockets, ws, heartbeat, subscriptions,
                 sending, server>>

\* Clears the timer whose handle is on file and closes the socket on file.
Disconnect ==
  /\ closedByUser' = TRUE
  /\ timers' = IF reconnectTimer THEN timers - 1 ELSE timers
  /\ reconnectTimer' = FALSE
  /\ heartbeat' = FALSE
  /\ sockets' = IF ws # 0 /\ Live(ws) THEN [sockets EXCEPT ![ws] = "closing"] ELSE sockets
  /\ ws' = 0
  /\ UNCHANGED <<app, opening, gaveUp, subscriptions, sending, server>>

\* A call without an open socket is lost.
FaultySend ==
  /\ sends < MaxSends
  /\ sends' = sends + 1
  /\ sent' = IF IsOpen THEN Append(sent, sends + 1) ELSE sent
  /\ UNCHANGED <<app, closedByUser, attempt, sockets, ws, heartbeat, subscriptions,
                 pendingSends, server>>

\* publish, unicast and replay: sendOrQueue.  The server drops what comes on a
\* socket that sent no AUTH.
SendOrQueue ==
  /\ sends < MaxSends
  /\ sends' = sends + 1
  /\ IF IsOpen
       THEN /\ sent' = IF ws \in authed THEN Append(sent, sends + 1) ELSE sent
            /\ UNCHANGED pendingSends
       ELSE /\ pendingSends' = Append(pendingSends, sends + 1)
            /\ UNCHANGED sent
  /\ UNCHANGED <<app, closedByUser, attempt, sockets, ws, heartbeat, subscriptions, server>>

\* SUB goes out for the first handler of a channel, if the socket is open.
Subscribe(c, h) ==
  /\ h \notin subscriptions[c]
  /\ subscriptions' = [subscriptions EXCEPT ![c] = @ \cup {h}]
  /\ serverSubs' = IF IsOpen /\ ~Active(c) /\ ws \in authed
                     THEN [serverSubs EXCEPT ![ws] = @ \cup {c}] ELSE serverSubs
  /\ UNCHANGED <<app, closedByUser, attempt, sockets, ws, heartbeat, sending, authed>>

\* UNSUB goes out with every handler that leaves.
FaultyUnsubscribe(c, h) ==
  /\ h \in subscriptions[c]
  /\ subscriptions' = [subscriptions EXCEPT ![c] = @ \ {h}]
  /\ serverSubs' = IF IsOpen THEN [serverSubs EXCEPT ![ws] = @ \ {c}] ELSE serverSubs
  /\ UNCHANGED <<app, closedByUser, attempt, sockets, ws, heartbeat, sending, authed>>

\* unsubscribeHandler: UNSUB goes out when the last handler leaves.
UnsubscribeHandler(c, h) ==
  /\ h \in subscriptions[c]
  /\ subscriptions' = [subscriptions EXCEPT ![c] = @ \ {h}]
  /\ serverSubs' = IF IsOpen /\ subscriptions[c] = {h}
                     THEN [serverSubs EXCEPT ![ws] = @ \ {c}] ELSE serverSubs
  /\ UNCHANGED <<app, closedByUser, attempt, sockets, ws, heartbeat, sending, authed>>

-----------------------------------------------------------------------------
(* openSocket                                                              *)

TokenResolved ==
  /\ opening["token"] > 0
  /\ opening' = IF closedByUser THEN Resume("token")
                                ELSE [Resume("token") EXCEPT !["impl"] = @ + 1]
  /\ UNCHANGED <<app, closedByUser, timers, reconnectTimer, gaveUp, sockets, ws, heartbeat,
                 subscriptions, sending, server>>

\* The rejection is reported, and that is all.
FaultyTokenRejected ==
  /\ opening["token"] > 0
  /\ opening' = Resume("token")
  /\ UNCHANGED <<app, closedByUser, timers, reconnectTimer, gaveUp, sockets, ws, heartbeat,
                 subscriptions, sending, server>>

\* getToken rejects: like any failure to connect.  (Without reconnect the
\* client is expected to stop.)
TokenRejected ==
  /\ opening["token"] > 0
  /\ opening' = Resume("token")
  /\ ScheduleReconnect
  /\ gaveUp' = (gaveUp \/ ~config.reconnect)
  /\ UNCHANGED <<app, closedByUser, sockets, ws, heartbeat, subscriptions, sending, server>>

\* The second look at closedByUser is left out.
FaultyImplResolved ==
  /\ opening["impl"] > 0
  /\ opening' = Resume("impl")
  /\ Len(sockets) < MaxSockets
  /\ sockets' = Append(sockets, "connecting")
  /\ ws' = Len(sockets) + 1
  /\ UNCHANGED <<app, closedByUser, timers, reconnectTimer, gaveUp, heartbeat, subscriptions,
                 sending, server>>

\* The WebSocket implementation is there: a socket, unless disconnect was called
\* meanwhile.
ImplResolved ==
  /\ opening["impl"] > 0
  /\ opening' = Resume("impl")
  /\ IF closedByUser
       THEN UNCHANGED <<sockets, ws>>
       ELSE /\ Len(sockets) < MaxSockets
            /\ sockets' = Append(sockets, "connecting")
            /\ ws' = Len(sockets) + 1
  /\ UNCHANGED <<app, closedByUser, timers, reconnectTimer, gaveUp, heartbeat, subscriptions,
                 sending, server>>

\* There is no WebSocket implementation: an error, and no further attempt.
ImplMissing ==
  /\ opening["impl"] > 0
  /\ sockets = << >>
  /\ opening' = Resume("impl")
  /\ gaveUp' = TRUE
  /\ UNCHANGED <<app, closedByUser, timers, reconnectTimer, sockets, ws, heartbeat,
                 subscriptions, sending, server>>

\* The client has no token, or getToken gave it an empty one: likewise.
NoToken ==
  /\ opening["impl"] > 0
  /\ ~closedByUser
  /\ config.getToken \/ sockets = << >>
  /\ opening' = Resume("impl")
  /\ gaveUp' = TRUE
  /\ UNCHANGED <<app, closedByUser, timers, reconnectTimer, sockets, ws, heartbeat,
                 subscriptions, sending, server>>

\* The timer on file fires, or one whose handle was overwritten.
TimerFires ==
  /\ timers > 0
  /\ timers' = timers - 1
  /\ \/ reconnectTimer /\ reconnectTimer' = FALSE
     \/ timers > (IF reconnectTimer THEN 1 ELSE 0) /\ UNCHANGED reconnectTimer
  /\ IF closedByUser THEN UNCHANGED opening ELSE OpenSocket(opening)
  /\ UNCHANGED <<app, closedByUser, gaveUp, sockets, ws, heartbeat, subscriptions, sending, server>>

-----------------------------------------------------------------------------
(* Events of a socket                                                      *)

\* onopen of socket i: AUTH, every subscription, every pending send, heartbeat,
\* all of it on this.ws; when that is not open, the first send throws.
SocketOpens(i) ==
  LET on == IF ws # 0 /\ (ws = i \/ sockets[ws] = "open") THEN ws ELSE 0 IN
  /\ i \in DOMAIN sockets /\ sockets[i] = "connecting"
  /\ sockets' = [sockets EXCEPT ![i] = "open"]
  /\ IF on = 0
       THEN UNCHANGED <<server, sent, pendingSends, heartbeat>>
       ELSE /\ authed' = authed \cup {on}
            /\ serverSubs' = [serverSubs EXCEPT ![on] = @ \cup {c \in Channels : Active(c)}]
            /\ sent' = sent \o pendingSends
            /\ pendingSends' = << >>
            /\ heartbeat' = TRUE
  /\ UNCHANGED <<app, closedByUser, attempt, ws, subscriptions, sends>>

\* A failure to connect schedules one attempt from onerror and one from onclose.
FaultySocketCloses(i, rejected) ==
  /\ i \in DOMAIN sockets /\ sockets[i] # "closed"
  /\ rejected => sockets[i] = "open" /\ i \in authed
  /\ sockets' = [sockets EXCEPT ![i] = "closed"]
  /\ heartbeat' = FALSE
  /\ ws' = 0
  /\ IF closedByUser \/ ~config.reconnect
       THEN UNCHANGED <<timers, reconnectTimer>>
       ELSE timers' = timers + 2 /\ reconnectTimer' = TRUE
  /\ gaveUp' = (gaveUp \/ ~config.reconnect)
  /\ UNCHANGED <<app, closedByUser, opening, subscriptions, sending, server>>

\* onclose of socket i, after a failure, a close() of ours or of the server.
\* "rejected" is close code 4001: without getToken there is no new attempt.
SocketCloses(i, rejected) ==
  /\ i \in DOMAIN sockets /\ sockets[i] # "closed"
  /\ rejected => sockets[i] = "open" /\ i \in authed
  /\ sockets' = [sockets EXCEPT ![i] = "closed"]
  /\ heartbeat' = FALSE
  /\ ws' = 0
  /\ IF rejected /\ ~config.getToken
       THEN gaveUp' = TRUE /\ UNCHANGED <<timers, reconnectTimer>>
       ELSE gaveUp' = (gaveUp \/ ~config.reconnect) /\ ScheduleReconnect
  /\ UNCHANGED <<app, closedByUser, opening, subscriptions, sending, server>>

Next ==
  \/ Connect
  \/ Disconnect
  \/ SendOrQueue
  \/ \E c \in Channels, h \in Handlers : Subscribe(c, h)
  \/ \E c \in Channels, h \in Handlers : UnsubscribeHandler(c, h)
  \/ TokenResolved
  \/ TokenRejected
  \/ ImplResolved
  \/ ImplMissing
  \/ NoToken
  \/ TimerFires
  \/ \E i \in Socket : SocketOpens(i)
  \/ \E i \in Socket, rejected \in BOOLEAN : SocketCloses(i, rejected)

Spec == Init /\ [][Next]_vars

-----------------------------------------------------------------------------
(* Properties                                                              *)

\* Every publish, unicast and replay the application ever called was put on an
\* authenticated socket once, or still waits for one, in the order of the calls,
\* whatever connections came and went in between.
NothingForgotten == sent \o pendingSends = [n \in 1..sends |-> n]

\* Over any number of reconnections the server relays on the client's open
\* socket the very channels that have handlers.
ServerFollowsSubscriptions ==
  IsOpen => serverSubs[ws] = {c \in Channels : Active(c)}

\* A client that was not told to stop and has no reason to give up is always
\* connected, connecting, or about to.
KeepsTrying ==
  ~closedByUser /\ ~gaveUp =>
    \/ \E a \in DOMAIN opening : opening[a] > 0
    \/ timers > 0
    \/ ws # 0 /\ Live(ws)

\* An application that waits for the end of one connection before it asks for
\* the next has one live socket at a time, the one its calls go to, however
\* often the client reconnects.
OneLiveSocket ==
  ~overlapped => \A i \in DOMAIN sockets : Live(i) => i = ws

\* After disconnect() such an application has no live socket, whichever await
\* disconnect() came in.
NoSocketAfterDisconnect ==
  closedByUser /\ ~overlapped => \A i \in DOMAIN sockets : ~Live(i)

\* The application's calls and the live socket go together (connect, disconnect and
\* openSocket of client.ts).
SocketsUnderControl == OneLiveSocket /\ NoSocketAfterDisconnect
=============================================================================
