----------------------------- MODULE FeedClient -----------------------------
(***************************************************************************)
(* The live feed a web page shows with one script tag: MioRealtimeClient   *)
(* of mio-client.js with the page code around it, which is either          *)
(* mio-shortcode.js (fetches a token first) or the autoInit of             *)
(* mio-embed.js (has one in its attributes).  The list on the page is to   *)
(* show the messages of one channel.                                       *)
(*                                                                         *)
(* Operators whose name starts with Faulty are not part of the model: each *)
(* is a plausible slip in the definition that follows it, there to show    *)
(* that a property would notice.                                           *)
(***************************************************************************)
EXTENDS Naturals, Sequences, FiniteSets

CONSTANTS
  MaxMessages,   \* bound: messages published on the channel
  MaxOpens,      \* bound: sockets opened
  Limit          \* data-limit: how many messages the list holds

VARIABLES
  script,        \* which script the page has
  replay,        \* data-replay
  stage,         \* how far the page code has come
  status,        \* the status line
  list,          \* the messages on the page, oldest first
  ws,            \* readyState of this._ws, "none" for null
  timer,         \* the reconnect timer runs
  attempt,       \* _reconnectAttempt
  pendingSends,  \* sends made before the socket was open
  toServer,      \* frames on the socket that the server has yet to take
  joined,        \* the server relays the channel on this socket
  toClient,      \* frames the client has yet to receive
  log,           \* number of messages published so far, all in the history
  opens,         \* sockets opened so far
  focused,       \* the page is visible and has the focus
  notified,      \* messages for which a notification was shown
  refusal        \* the server's of the token: "none", "decided", or the client was "told"

vars == <<script, replay, stage, status, list, ws, timer, attempt, pendingSends, toServer, joined,
          toClient, log, opens, focused, notified, refusal>>

page   == <<script, replay, stage, list, focused, notified>>
server == <<toServer, joined, toClient, log>>

Init ==
  /\ script \in {"shortcode", "embed"}
  /\ replay \in BOOLEAN
  /\ stage = "loading"
  /\ status = "none"
  /\ list = << >>
  /\ ws = "none"
  /\ timer = FALSE
  /\ attempt = 0
  /\ pendingSends = << >>
  /\ toServer = << >>
  /\ joined = FALSE
  /\ toClient = << >>
  /\ log = 0
  /\ opens = 0
  /\ focused = TRUE
  /\ notified = {}
  /\ refusal = "none"

-----------------------------------------------------------------------------
(* The page code                                                           *)

\* _openSocket.
OpenSocket == opens < MaxOpens /\ opens' = opens + 1 /\ ws' = "connecting"

\* The client is made, the handlers are attached, and connect() and, if asked
\* for, replay() are called: the socket is not open yet, so REPLAY waits.
Wire ==
  /\ stage' = "wired"
  /\ OpenSocket
  /\ pendingSends' = IF replay THEN <<"REPLAY">> ELSE << >>
  /\ UNCHANGED <<script, replay, list, focused, notified, timer, attempt, server, refusal>>

\* init of mio-shortcode.js, once the document is there.
WireFeed ==
  /\ script = "shortcode" /\ stage = "loading"
  /\ stage' = "fetching"
  /\ status' = "Connecting"
  /\ UNCHANGED <<script, replay, list, ws, timer, attempt, pendingSends, server, opens, focused,
                 notified, refusal>>

TokenFetched ==
  /\ stage = "fetching"
  /\ Wire
  /\ UNCHANGED status

\* The token cannot be had: the page says so and tries no more.
TokenFails ==
  /\ stage = "fetching"
  /\ stage' = "failed"
  /\ status' = "Failed"
  /\ UNCHANGED <<script, replay, list, ws, timer, attempt, pendingSends, server, opens, focused,
                 notified, refusal>>

\* autoInit of mio-embed.js, with all its attributes.
AutoInit ==
  /\ script = "embed" /\ stage = "loading"
  /\ Wire
  /\ status' = "Connecting"

-----------------------------------------------------------------------------
(* MioRealtimeClient                                                       *)

\* The pending sends go out before the subscriptions.
FaultySocketOpens ==
  /\ ws = "connecting"
  /\ ws' = "open"
  /\ attempt' = 0
  /\ toServer' = <<"AUTH">> \o pendingSends \o <<"SUB">>
  /\ pendingSends' = << >>
  /\ status' = "Live"
  /\ UNCHANGED <<page, timer, joined, toClient, log, opens, refusal>>

\* onopen: AUTH, the subscriptions, the pending sends.
SocketOpens ==
  /\ ws = "connecting"
  /\ ws' = "open"
  /\ attempt' = 0
  /\ toServer' = <<"AUTH", "SUB">> \o pendingSends
  /\ pendingSends' = << >>
  /\ status' = "Live"
  /\ UNCHANGED <<page, timer, joined, toClient, log, opens, refusal>>

\* onerror; onclose follows.
SocketErrors ==
  /\ ws \in {"connecting", "open"}
  /\ ws' = "closing"
  /\ status' = "Connection error"
  /\ UNCHANGED <<page, timer, attempt, pendingSends, server, opens, refusal>>

\* The first attempt that fails is the last.
FaultySocketCloses(code) ==
  /\ ws \in {"connecting", "open", "closing"}
  /\ code = 4001 => ws = "open" /\ refusal = "decided"
  /\ ws' = "none"
  /\ status' = "Reconnecting"
  /\ timer' = (code # 4001 /\ attempt = 0)
  /\ attempt' = IF code # 4001 THEN 1 ELSE attempt
  /\ toServer' = << >> /\ toClient' = << >> /\ joined' = FALSE
  /\ refusal' = IF code = 4001 THEN "told" ELSE refusal
  /\ UNCHANGED <<page, pendingSends, log, opens>>

\* onclose: a new attempt is scheduled, unless the server refused the token.  The
\* status line says "Reconnecting" either way.  What was on its way is lost; that may be
\* the frame with the code 4001.
SocketCloses(code) ==
  /\ ws \in {"connecting", "open", "closing"}
  /\ code = 4001 => ws = "open" /\ refusal = "decided"
  /\ ws' = "none"
  /\ status' = "Reconnecting"
  /\ timer' = (code # 4001)
  /\ attempt' = IF code # 4001 THEN 1 ELSE attempt
  /\ toServer' = << >> /\ toClient' = << >> /\ joined' = FALSE
  /\ refusal' = IF code = 4001 THEN "told" ELSE refusal
  /\ UNCHANGED <<page, pendingSends, log, opens>>

\* The callback of _scheduleReconnect.
TimerFires ==
  /\ timer
  /\ timer' = FALSE
  /\ OpenSocket
  /\ UNCHANGED <<page, status, attempt, pendingSends, server, refusal>>

\* The oldest message is dropped first.
Trimmed(s) == IF Len(s) > Limit THEN Tail(s) ELSE s

\* onmessage and _dispatch, with the page's handler (appendMessage) and the one
\* of attachBackgroundNotifications.
Receive ==
  /\ ws = "open"
  /\ toClient # << >>
  /\ toClient' = Tail(toClient)
  /\ list' = Trimmed(Append(list, Head(toClient)))
  /\ notified' = IF focused THEN notified ELSE notified \cup {Head(toClient)}
  /\ UNCHANGED <<script, replay, stage, status, ws, timer, attempt, pendingSends, toServer, joined,
                 log, opens, focused, refusal>>

-----------------------------------------------------------------------------
(* The server and the visitor                                              *)

\* The server takes the frames of the socket in order: SUB attaches the channel,
\* REPLAY queues its history (external).
ServerTakes ==
  /\ toServer # << >> /\ refusal = "none"
  /\ toServer' = Tail(toServer)
  /\ CASE Head(toServer) = "AUTH" -> refusal' \in {"none", "decided"} /\ UNCHANGED <<joined, toClient>>
       [] Head(toServer) = "SUB" -> joined' = TRUE /\ UNCHANGED <<refusal, toClient>>
       [] Head(toServer) = "REPLAY" ->
            toClient' = toClient \o [n \in 1..log |-> n] /\ UNCHANGED <<refusal, joined>>
  /\ UNCHANGED <<page, status, ws, timer, attempt, pendingSends, log, opens>>

\* Somebody publishes on the channel (external).
Publish ==
  /\ log < MaxMessages
  /\ log' = log + 1
  /\ toClient' = IF joined THEN Append(toClient, log + 1) ELSE toClient
  /\ UNCHANGED <<page, status, ws, timer, attempt, pendingSends, toServer, joined, opens, refusal>>

\* The visitor turns to another window, and back.
FocusChanges ==
  /\ focused' = ~focused
  /\ UNCHANGED <<script, replay, stage, status, list, ws, timer, attempt, pendingSends, server,
                 opens, notified, refusal>>

Next ==
  \/ WireFeed \/ TokenFetched \/ TokenFails \/ AutoInit
  \/ SocketOpens \/ SocketErrors \/ (\E code \in {1006, 4001} : SocketCloses(code))
  \/ TimerFires \/ Receive
  \/ ServerTakes \/ Publish \/ FocusChanges

Spec == Init /\ [][Next]_vars

-----------------------------------------------------------------------------
(* Properties                                                              *)

Listed == {list[i] : i \in DOMAIN list}

\* A page that asked for the history and was never cut off misses nothing: once
\* the server has taken its frames, each of the last Limit messages is on the
\* page or on its way, whatever was published between SUB and REPLAY.
NothingMissed ==
  replay /\ stage = "wired" /\ opens = 1 /\ ws = "open" /\ refusal = "none" /\ toServer = << >>
    => \A n \in 1..log :
         \/ n \in Listed
         \/ \E i \in DOMAIN toClient : toClient[i] = n
         \/ \E m \in n..log : m # n /\ Len(list) = Limit

\* The status line says "Reconnecting" while the client tries again, whatever errors and
\* closes have crossed, and there is one client that does not: the one that was told that
\* its token is refused.  That one has given up for good ("never auto-reconnect here",
\* mio-client.js:203-205): no timer that was set before opens another socket.
ReconnectingIsTrue ==
  /\ status = "Reconnecting" => timer \/ ws = "connecting" \/ refusal = "told"
  /\ refusal = "told" => ws = "none" /\ ~timer

\* "Reconnecting" means that the client is reconnecting, whoever it is.
\* The code breaks it (README, Findings).
ReconnectingMeansTrying == status = "Reconnecting" => timer \/ ws = "connecting"
=============================================================================
