-------------------------- MODULE SdkClientProofs --------------------------
(***************************************************************************)
(* Calls, subscriptions, attempts and sockets of RealtimeClient, for every *)
(* number of channels, handlers, calls and sockets.                        *)
(***************************************************************************)
EXTENDS SdkClient, SequenceTheorems, TLAPS

\* The channels that have handlers.
ActiveChannels == {c \in Channels : Active(c)}

\* The server knows of a socket once it has opened, and this.ws is never an older
\* socket than the last; an open one has had AUTH, the subscriptions and the backlog.
ServerInv ==
  /\ ws \in {0, Len(sockets)}
  /\ \A i \in authed : i \in DOMAIN sockets /\ sockets[i] # "connecting"
  /\ \A i \in Socket : i \notin authed => serverSubs[i] = {}
  /\ IsOpen => ws \in authed /\ pendingSends = << >> /\ serverSubs[ws] = ActiveChannels

\* Runs of openSocket and timers, all of them attempts to get a socket.
Attempts == opening["token"] + opening["impl"] + timers

\* Without overlapping calls of connect there is one attempt or one live socket, and a
\* socket of ours still closes only after disconnect.
ControlInv ==
  ~overlapped =>
    /\ Attempts <= 1
    /\ \A i \in DOMAIN sockets : Live(i) => i = ws /\ ~closedByUser /\ Attempts = 0
    /\ \A i \in DOMAIN sockets : sockets[i] = "closing" => closedByUser

ClientInv == TypeOK /\ ServerInv /\ NothingForgotten /\ KeepsTrying /\ ControlInv

-----------------------------------------------------------------------------
(* Attempts                                                                *)

\* The runs of openSocket: one more, one that goes on, one less.
LEMMA Openings ==
  ASSUME TypeOK
  PROVE  /\ opening["token"] \in Nat /\ opening["impl"] \in Nat
         /\ OpenSocket(opening) =>
              /\ opening' \in [{"token", "impl"} -> Nat]
              /\ opening'["token"] + opening'["impl"] = opening["token"] + opening["impl"] + 1
         /\ \A a \in {"token", "impl"} : opening[a] > 0 =>
              /\ Resume(a) \in [{"token", "impl"} -> Nat]
              /\ Resume(a)["token"] + Resume(a)["impl"] = opening["token"] + opening["impl"] - 1
         /\ opening["token"] > 0 =>
              LET o == [Resume("token") EXCEPT !["impl"] = @ + 1] IN
              o \in [{"token", "impl"} -> Nat] /\ o["token"] + o["impl"] = opening["token"] + opening["impl"]
<1>1. opening \in [{"token", "impl"} -> Nat]
  BY DEF TypeOK
<1>2. opening["token"] \in Nat /\ opening["impl"] \in Nat
  BY <1>1
<1>3. ASSUME OpenSocket(opening)
      PROVE  /\ opening' \in [{"token", "impl"} -> Nat]
             /\ opening'["token"] + opening'["impl"] = opening["token"] + opening["impl"] + 1
  <2>1. CASE config.getToken
    <3>1. opening' = [opening EXCEPT !["token"] = opening["token"] + 1]
      BY <1>3, <2>1 DEF OpenSocket
    <3> QED BY <1>1, <1>2, <3>1
  <2>2. CASE ~config.getToken
    <3>1. opening' = [opening EXCEPT !["impl"] = opening["impl"] + 1]
      BY <1>3, <2>2 DEF OpenSocket
    <3> QED BY <1>1, <1>2, <3>1
  <2> QED BY <2>1, <2>2
<1>4. ASSUME NEW a \in {"token", "impl"}, opening[a] > 0
      PROVE  /\ Resume(a) \in [{"token", "impl"} -> Nat]
             /\ Resume(a)["token"] + Resume(a)["impl"] = opening["token"] + opening["impl"] - 1
  BY <1>1, <1>2, <1>4 DEF Resume
<1>5. ASSUME opening["token"] > 0
      PROVE  LET o == [Resume("token") EXCEPT !["impl"] = @ + 1] IN
             o \in [{"token", "impl"} -> Nat] /\ o["token"] + o["impl"] = opening["token"] + opening["impl"]
  BY <1>1, <1>2, <1>5 DEF Resume
<1> QED BY <1>2, <1>3, <1>4, <1>5

\* scheduleReconnect keeps the types.
LEMMA Schedules ==
  ASSUME TypeOK, ScheduleReconnect
  PROVE  /\ timers' \in Nat /\ reconnectTimer' \in BOOLEAN /\ (reconnectTimer' => timers' > 0)
         /\ timers' = timers \/ timers' = timers + 1
         /\ closedByUser => timers' = timers
         /\ ~closedByUser /\ config.reconnect => timers' = timers + 1
<1>1. timers \in Nat /\ reconnectTimer \in BOOLEAN /\ (reconnectTimer => timers > 0)
  BY DEF TypeOK
<1>2. CASE ~closedByUser /\ config.reconnect
  <2>1. timers' = timers + 1 /\ reconnectTimer' = TRUE
    BY <1>2 DEF ScheduleReconnect
  <2>2. timers' \in Nat /\ timers' > 0
    BY <1>1, <2>1
  <2> QED BY <1>2, <2>1, <2>2
<1>3. CASE ~(~closedByUser /\ config.reconnect)
  <2>1. timers' = timers /\ reconnectTimer' = reconnectTimer
    BY <1>3 DEF ScheduleReconnect
  <2> QED BY <1>1, <1>3, <2>1
<1> QED BY <1>2, <1>3

-----------------------------------------------------------------------------
(* Types                                                                   *)

\* The readyStates of a socket.
States == {"connecting", "open", "closing", "closed"}

\* A socket changes its state.
LEMMA SocketChanges ==
  ASSUME TypeOK, NEW i \in DOMAIN sockets, NEW st \in States, sockets' = [sockets EXCEPT ![i] = st]
  PROVE  /\ sockets' \in Seq(States) /\ Len(sockets') = Len(sockets) /\ DOMAIN sockets' = DOMAIN sockets
         /\ sockets'[i] = st /\ \A j \in DOMAIN sockets : j # i => sockets'[j] = sockets[j]
<1>1. sockets \in Seq(States) /\ DOMAIN sockets = 1..Len(sockets) /\ Len(sockets) \in Nat
  BY DEF TypeOK, States
<1>2. /\ sockets' \in Seq(States) /\ Len(sockets') = Len(sockets)
      /\ \A j \in 1..Len(sockets) : sockets'[j] = IF j = i THEN st ELSE sockets[j]
  BY <1>1, ExceptSeq
<1>3. DOMAIN sockets' = 1..Len(sockets')
  BY <1>2
<1> QED BY <1>1, <1>2, <1>3

\* A socket is created.
LEMMA SocketCreated ==
  ASSUME TypeOK, sockets' = Append(sockets, "connecting")
  PROVE  /\ sockets' \in Seq(States) /\ Len(sockets') = Len(sockets) + 1
         /\ DOMAIN sockets' = 1..(Len(sockets) + 1) /\ DOMAIN sockets = 1..Len(sockets) /\ Len(sockets) \in Nat
         /\ sockets'[Len(sockets) + 1] = "connecting"
         /\ \A j \in DOMAIN sockets : sockets'[j] = sockets[j]
<1>1. sockets \in Seq(States) /\ DOMAIN sockets = 1..Len(sockets) /\ Len(sockets) \in Nat
  BY DEF TypeOK, States
<1>2. "connecting" \in States
  BY DEF States
<1> QED BY <1>1, <1>2, AppendProperties

\* The state of a socket on file.
LEMMA OnFile ==
  ASSUME TypeOK
  PROVE  /\ sockets \in Seq(States) /\ DOMAIN sockets = 1..Len(sockets) /\ Len(sockets) \in Nat
         /\ Len(sockets) <= MaxSockets /\ MaxSockets \in Nat /\ MaxSends \in Nat
         /\ ws # 0 => ws \in DOMAIN sockets /\ ws \in Socket
         /\ \A i \in DOMAIN sockets : i \in Socket /\ sockets[i] \in States
<1>1. /\ sockets \in Seq(States) /\ DOMAIN sockets = 1..Len(sockets) /\ Len(sockets) \in Nat
      /\ Len(sockets) <= MaxSockets /\ MaxSockets \in Nat /\ MaxSends \in Nat
  BY ClientAssumption DEF TypeOK, States
<1>2. ws \in 0..Len(sockets)
  BY DEF TypeOK
<1>3. \A i \in DOMAIN sockets : i \in Socket /\ sockets[i] \in States
  BY <1>1, ElementOfSeq DEF Socket
<1> QED BY <1>1, <1>2, <1>3

\* The types hold at the start.
LEMMA TypeInit == Init => TypeOK
<1> SUFFICES ASSUME Init PROVE TypeOK
  OBVIOUS
<1>1. MaxSockets \in Nat /\ MaxSends \in Nat /\ MaxConnects \in Nat
  BY ClientAssumption
<1>2. reconnectTimer \in BOOLEAN /\ (reconnectTimer => timers > 0)
  BY DEF Init
<1>3. sockets = << >> /\ Len(sockets) = 0 /\ ws = 0 /\ pendingSends = << >> /\ sent = << >>
  BY EmptySeq DEF Init
<1>4. /\ sockets \in Seq({"connecting", "open", "closing", "closed"}) /\ Len(sockets) <= MaxSockets
      /\ ws \in 0..Len(sockets)
      /\ pendingSends \in Seq(1..MaxSends) /\ sent \in Seq(1..MaxSends)
  BY <1>1, <1>3, EmptySeq
<1>5. opening \in [{"token", "impl"} -> Nat] /\ timers \in Nat
  BY DEF Init
<1>6. subscriptions \in [Channels -> SUBSET Handlers] /\ serverSubs \in [Socket -> SUBSET Channels]
  BY DEF Init
<1>7. sends \in 0..MaxSends /\ connects \in 0..MaxConnects /\ authed \in SUBSET Socket
  BY <1>1 DEF Init
<1>8. /\ config \in [getToken : BOOLEAN, reconnect : BOOLEAN]
      /\ closedByUser = TRUE /\ heartbeat = FALSE /\ gaveUp = FALSE /\ overlapped = FALSE
  BY DEF Init
<1> QED BY <1>2, <1>4, <1>5, <1>6, <1>7, <1>8 DEF TypeOK

\* Every call, resumption, timer and event keeps the types.
LEMMA TypeStep == TypeOK /\ [Next]_vars => TypeOK'
<1> SUFFICES ASSUME TypeOK, [Next]_vars PROVE TypeOK'
  OBVIOUS
<1> USE DEF app, attempt, sending, server
<1>1. MaxSockets \in Nat /\ MaxSends \in Nat /\ MaxConnects \in Nat
  BY ClientAssumption
<1>2. CASE Connect
  <2>1. opening' \in [{"token", "impl"} -> Nat]
    BY <1>2, Openings DEF Connect
  <2>2. connects' \in 0..MaxConnects
    BY <1>1, <1>2 DEF Connect, TypeOK
  <2>3. overlapped' \in BOOLEAN
    BY <1>2 DEF Connect
  <2> QED BY <1>2, <2>1, <2>2, <2>3 DEF Connect, TypeOK
<1>3. CASE Disconnect
  <2>1. timers' \in Nat
    BY <1>3 DEF Disconnect, TypeOK
  <2>2. sockets' \in Seq(States) /\ Len(sockets') = Len(sockets)
    <3>1. CASE ws # 0 /\ Live(ws)
      <4>1. ws \in DOMAIN sockets /\ sockets' = [sockets EXCEPT ![ws] = "closing"] /\ "closing" \in States
        BY <1>3, <3>1, OnFile DEF Disconnect, States
      <4> QED BY <4>1, SocketChanges
    <3>2. CASE ~(ws # 0 /\ Live(ws))
      BY <1>3, <3>2, OnFile DEF Disconnect
    <3> QED BY <3>1, <3>2
  <2>3. 0 \in 0..Len(sockets')
    BY <2>2, OnFile
  <2> QED BY <1>3, <2>1, <2>2, <2>3 DEF Disconnect, TypeOK, States
<1>4. CASE SendOrQueue
  <2>1. sends + 1 \in 1..MaxSends /\ sends' = sends + 1
    BY <1>1, <1>4 DEF SendOrQueue, TypeOK
  <2>2. Append(sent, sends + 1) \in Seq(1..MaxSends) /\ Append(pendingSends, sends + 1) \in Seq(1..MaxSends)
    BY <2>1, AppendProperties DEF TypeOK
  <2>3. sent' \in Seq(1..MaxSends) /\ pendingSends' \in Seq(1..MaxSends)
    BY <1>4, <2>2 DEF SendOrQueue, TypeOK
  <2>4. sends' \in 0..MaxSends
    BY <1>1, <2>1
  <2> QED BY <1>4, <2>3, <2>4 DEF SendOrQueue, TypeOK
<1>5. ASSUME NEW c \in Channels, NEW h \in Handlers, Subscribe(c, h) PROVE TypeOK'
  <2>1. subscriptions' \in [Channels -> SUBSET Handlers]
    BY <1>5 DEF Subscribe, TypeOK
  <2>2. serverSubs' \in [Socket -> SUBSET Channels]
    BY <1>5, OnFile DEF Subscribe, TypeOK, IsOpen
  <2> QED BY <1>5, <2>1, <2>2 DEF Subscribe, TypeOK
<1>6. ASSUME NEW c \in Channels, NEW h \in Handlers, UnsubscribeHandler(c, h) PROVE TypeOK'
  <2>1. subscriptions' \in [Channels -> SUBSET Handlers]
    BY <1>6 DEF UnsubscribeHandler, TypeOK
  <2>2. serverSubs' \in [Socket -> SUBSET Channels]
    BY <1>6, OnFile DEF UnsubscribeHandler, TypeOK, IsOpen
  <2> QED BY <1>6, <2>1, <2>2 DEF UnsubscribeHandler, TypeOK
<1>7. CASE TokenResolved
  <2>1. opening' \in [{"token", "impl"} -> Nat]
    BY <1>7, Openings DEF TokenResolved
  <2> QED BY <1>7, <2>1 DEF TokenResolved, TypeOK
<1>8. CASE TokenRejected
  <2>1. opening' \in [{"token", "impl"} -> Nat]
    BY <1>8, Openings DEF TokenRejected
  <2>2. timers' \in Nat /\ reconnectTimer' \in BOOLEAN /\ (reconnectTimer' => timers' > 0)
    BY <1>8, Schedules DEF TokenRejected
  <2> QED BY <1>8, <2>1, <2>2 DEF TokenRejected, TypeOK
<1>9. CASE ImplResolved
  <2>1. opening' \in [{"token", "impl"} -> Nat]
    BY <1>9, Openings DEF ImplResolved
  <2>2. CASE closedByUser
    BY <1>9, <2>1, <2>2 DEF ImplResolved, TypeOK
  <2>3. CASE ~closedByUser
    <3>1. /\ sockets' \in Seq(States) /\ Len(sockets') = Len(sockets) + 1 /\ Len(sockets) \in Nat
          /\ Len(sockets) < MaxSockets /\ ws' = Len(sockets) + 1
      BY <1>9, <2>3, SocketCreated DEF ImplResolved
    <3>2. Len(sockets') <= MaxSockets /\ ws' \in 0..Len(sockets')
      BY <1>1, <3>1
    <3> QED BY <1>9, <2>1, <3>1, <3>2 DEF ImplResolved, TypeOK, States
  <2> QED BY <2>2, <2>3
<1>10. CASE ImplMissing \/ NoToken
  <2>1. opening' \in [{"token", "impl"} -> Nat]
    BY <1>10, Openings DEF ImplMissing, NoToken
  <2>2. gaveUp' \in BOOLEAN
    BY <1>10 DEF ImplMissing, NoToken
  <2>3. UNCHANGED <<app, closedByUser, timers, reconnectTimer, sockets, ws, heartbeat,
                    subscriptions, sending, server>>
    BY <1>10 DEF ImplMissing, NoToken
  <2> QED BY <2>1, <2>2, <2>3 DEF TypeOK
<1>11. CASE TimerFires
  <2>1. opening' \in [{"token", "impl"} -> Nat]
    BY <1>11, Openings DEF TimerFires, TypeOK
  <2>2. timers' \in Nat /\ reconnectTimer' \in BOOLEAN /\ (reconnectTimer' => timers' > 0)
    <3>1. timers > 0 /\ timers' = timers - 1 /\ timers \in Nat /\ reconnectTimer \in BOOLEAN
      BY <1>11 DEF TimerFires, TypeOK
    <3>2. CASE reconnectTimer /\ reconnectTimer' = FALSE
      <4>1. timers' \in Nat
        BY <3>1
      <4> QED BY <3>2, <4>1
    <3>3. CASE timers > (IF reconnectTimer THEN 1 ELSE 0) /\ UNCHANGED reconnectTimer
      <4>1. CASE reconnectTimer = TRUE
        BY <3>1, <3>3, <4>1
      <4>2. CASE reconnectTimer = FALSE
        BY <3>1, <3>3, <4>2
      <4> QED BY <3>1, <4>1, <4>2
    <3> QED BY <1>11, <3>2, <3>3 DEF TimerFires
  <2> QED BY <1>11, <2>1, <2>2 DEF TimerFires, TypeOK
<1>12. ASSUME NEW i \in Socket, SocketOpens(i) PROVE TypeOK'
  <2> DEFINE on == IF ws # 0 /\ (ws = i \/ sockets[ws] = "open") THEN ws ELSE 0
  <2>1. i \in DOMAIN sockets /\ sockets' = [sockets EXCEPT ![i] = "open"] /\ "open" \in States
    BY <1>12 DEF SocketOpens, States
  <2>2. sockets' \in Seq(States) /\ Len(sockets') = Len(sockets)
    BY <2>1, SocketChanges
  <2>3. on # 0 => on \in Socket
    BY OnFile
  <2>4. CASE on = 0
    BY <1>12, <2>2, <2>4 DEF SocketOpens, TypeOK, States
  <2>5. CASE on # 0
    <3>1. /\ authed' = authed \cup {on} /\ sent' = sent \o pendingSends /\ pendingSends' = << >>
          /\ serverSubs' = [serverSubs EXCEPT ![on] = @ \cup {c \in Channels : Active(c)}]
          /\ heartbeat' = TRUE
      BY <1>12, <2>5 DEF SocketOpens
    <3> HIDE DEF on
    <3>2. sent' \in Seq(1..MaxSends) /\ pendingSends' \in Seq(1..MaxSends)
      BY <3>1, ConcatProperties, EmptySeq DEF TypeOK
    <3>3. authed' \in SUBSET Socket /\ serverSubs' \in [Socket -> SUBSET Channels]
      BY <2>3, <2>5, <3>1 DEF TypeOK
    <3>4. UNCHANGED <<app, closedByUser, attempt, ws, subscriptions, sends>>
      BY <1>12 DEF SocketOpens
    <3> QED BY <2>2, <3>1, <3>2, <3>3, <3>4 DEF TypeOK, States
  <2> QED BY <2>4, <2>5
<1>13. ASSUME NEW i \in Socket, NEW rejected \in BOOLEAN, SocketCloses(i, rejected) PROVE TypeOK'
  <2>1. i \in DOMAIN sockets /\ sockets' = [sockets EXCEPT ![i] = "closed"] /\ "closed" \in States
    BY <1>13 DEF SocketCloses, States
  <2>2. sockets' \in Seq(States) /\ Len(sockets') = Len(sockets)
    BY <2>1, SocketChanges
  <2>3. timers' \in Nat /\ reconnectTimer' \in BOOLEAN /\ (reconnectTimer' => timers' > 0)
    <3>1. CASE rejected /\ ~config.getToken
      BY <1>13, <3>1 DEF SocketCloses, TypeOK
    <3>2. CASE ~(rejected /\ ~config.getToken)
      BY <1>13, <3>2, Schedules DEF SocketCloses
    <3> QED BY <3>1, <3>2
  <2>4. gaveUp' \in BOOLEAN /\ heartbeat' = FALSE /\ ws' = 0
    BY <1>13 DEF SocketCloses
  <2>5. 0 \in 0..Len(sockets')
    BY <2>2, OnFile
  <2>6. UNCHANGED <<app, closedByUser, opening, subscriptions, sending, server>>
    BY <1>13 DEF SocketCloses
  <2> QED BY <2>2, <2>3, <2>4, <2>5, <2>6 DEF TypeOK, States
<1>14. CASE UNCHANGED vars
  BY <1>14 DEF vars, TypeOK
<1> QED BY <1>2, <1>3, <1>4, <1>5, <1>6, <1>7, <1>8, <1>9, <1>10, <1>11, <1>12, <1>13, <1>14 DEF Next

-----------------------------------------------------------------------------
(* What the server knows                                                   *)

\* A socket changes its state, to open only when the client has told the server
\* everything on this.ws.
LEMMA ServerStep == ClientInv /\ [Next]_vars => ServerInv'
<1> SUFFICES ASSUME ClientInv, [Next]_vars PROVE ServerInv'
  OBVIOUS
<1> USE DEF app, attempt, sending, server
<1>1. TypeOK /\ ServerInv
  BY DEF ClientInv
<1>2. /\ sockets \in Seq(States) /\ DOMAIN sockets = 1..Len(sockets) /\ Len(sockets) \in Nat
      /\ ws # 0 => ws \in DOMAIN sockets /\ ws \in Socket
      /\ \A i \in DOMAIN sockets : i \in Socket
  BY <1>1, OnFile
<1>3. ASSUME UNCHANGED <<sockets, ws, authed, serverSubs, pendingSends, subscriptions>> PROVE ServerInv'
  BY <1>1, <1>3 DEF ServerInv, IsOpen, ActiveChannels, Active
<1>4. CASE Disconnect
  <2>1. ws' = 0 /\ UNCHANGED <<authed, serverSubs>>
    BY <1>4 DEF Disconnect
  <2>2. \A i \in authed : i \in DOMAIN sockets' /\ sockets'[i] # "connecting"
    <3>1. CASE ws # 0 /\ Live(ws)
      <4>1. ws \in DOMAIN sockets /\ sockets' = [sockets EXCEPT ![ws] = "closing"] /\ "closing" \in States
        BY <1>2, <1>4, <3>1 DEF Disconnect, States
      <4> QED BY <1>1, <4>1, SocketChanges DEF ServerInv
    <3>2. CASE ~(ws # 0 /\ Live(ws))
      BY <1>1, <1>4, <3>2 DEF Disconnect, ServerInv
    <3> QED BY <3>1, <3>2
  <2> QED BY <1>1, <2>1, <2>2 DEF ServerInv, IsOpen
<1>5. CASE SendOrQueue
  <2>1. UNCHANGED <<sockets, ws, authed, serverSubs, subscriptions>> /\ (IsOpen => pendingSends' = pendingSends)
    BY <1>5 DEF SendOrQueue
  <2> QED BY <1>1, <2>1 DEF ServerInv, IsOpen, ActiveChannels, Active
<1>6. ASSUME NEW c \in Channels, NEW h \in Handlers, Subscribe(c, h) PROVE ServerInv'
  <2>1. /\ subscriptions' = [subscriptions EXCEPT ![c] = @ \cup {h}]
        /\ UNCHANGED <<sockets, ws, authed, pendingSends>>
    BY <1>6 DEF Subscribe
  <2>2. ActiveChannels' = ActiveChannels \cup {c}
    <3>1. subscriptions \in [Channels -> SUBSET Handlers]
      BY <1>1 DEF TypeOK
    <3>2. /\ subscriptions'[c] # {}
          /\ \A d \in Channels : d # c => subscriptions'[d] = subscriptions[d]
      BY <2>1, <3>1
    <3> QED BY <3>2 DEF ActiveChannels, Active
  <2>3. CASE IsOpen
    <3>1. ws \in authed /\ pendingSends = << >> /\ serverSubs[ws] = ActiveChannels /\ ws \in Socket
      BY <1>1, <1>2, <2>3 DEF ServerInv, IsOpen
    <3>2. CASE Active(c)
      <4>1. serverSubs' = serverSubs /\ ActiveChannels' = ActiveChannels
        BY <1>6, <2>2, <3>2 DEF Subscribe, ActiveChannels
      <4> QED BY <1>1, <2>1, <3>1, <4>1 DEF ServerInv, IsOpen
    <3>3. CASE ~Active(c)
      <4>1. serverSubs' = [serverSubs EXCEPT ![ws] = @ \cup {c}]
        BY <1>6, <2>3, <3>1, <3>3 DEF Subscribe
      <4>2. serverSubs'[ws] = ActiveChannels' /\ \A i \in Socket : i # ws => serverSubs'[i] = serverSubs[i]
        BY <1>1, <2>2, <3>1, <4>1 DEF TypeOK
      <4> QED BY <1>1, <2>1, <3>1, <4>2 DEF ServerInv, IsOpen
    <3> QED BY <3>2, <3>3
  <2>4. CASE ~IsOpen
    <3>1. serverSubs' = serverSubs /\ ~IsOpen'
      BY <1>6, <2>1, <2>4 DEF Subscribe, IsOpen
    <3> QED BY <1>1, <2>1, <3>1 DEF ServerInv
  <2> QED BY <2>3, <2>4
<1>7. ASSUME NEW c \in Channels, NEW h \in Handlers, UnsubscribeHandler(c, h) PROVE ServerInv'
  <2>1. /\ subscriptions' = [subscriptions EXCEPT ![c] = @ \ {h}] /\ h \in subscriptions[c]
        /\ UNCHANGED <<sockets, ws, authed, pendingSends>>
    BY <1>7 DEF UnsubscribeHandler
  <2>2. CASE IsOpen
    <3>1. ws \in authed /\ pendingSends = << >> /\ serverSubs[ws] = ActiveChannels /\ ws \in Socket
      BY <1>1, <1>2, <2>2 DEF ServerInv, IsOpen
    <3>2. CASE subscriptions[c] = {h}
      <4>1. serverSubs' = [serverSubs EXCEPT ![ws] = @ \ {c}]
        BY <1>7, <2>2, <3>2 DEF UnsubscribeHandler
      <4>2. ActiveChannels' = ActiveChannels \ {c}
        BY <1>1, <2>1, <3>2 DEF ActiveChannels, Active, TypeOK
      <4>3. serverSubs'[ws] = ActiveChannels' /\ \A i \in Socket : i # ws => serverSubs'[i] = serverSubs[i]
        BY <1>1, <3>1, <4>1, <4>2 DEF TypeOK
      <4> QED BY <1>1, <2>1, <3>1, <4>3 DEF ServerInv, IsOpen
    <3>3. CASE subscriptions[c] # {h}
      <4>1. serverSubs' = serverSubs
        BY <1>7, <3>3 DEF UnsubscribeHandler
      <4>2. ActiveChannels' = ActiveChannels
        BY <1>1, <2>1, <3>3 DEF ActiveChannels, Active, TypeOK
      <4> QED BY <1>1, <2>1, <3>1, <4>1, <4>2 DEF ServerInv, IsOpen
    <3> QED BY <3>2, <3>3
  <2>3. CASE ~IsOpen
    <3>1. serverSubs' = serverSubs /\ ~IsOpen'
      BY <1>7, <2>1, <2>3 DEF UnsubscribeHandler, IsOpen
    <3> QED BY <1>1, <2>1, <3>1 DEF ServerInv
  <2> QED BY <2>2, <2>3
<1>8. CASE ImplResolved
  <2>1. UNCHANGED <<authed, serverSubs, pendingSends, subscriptions>>
    BY <1>8 DEF ImplResolved
  <2>2. CASE closedByUser
    BY <1>3, <1>8, <2>1, <2>2 DEF ImplResolved
  <2>3. CASE ~closedByUser
    <3>1. sockets' = Append(sockets, "connecting") /\ ws' = Len(sockets) + 1
      BY <1>8, <2>3 DEF ImplResolved
    <3>2. /\ Len(sockets') = Len(sockets) + 1 /\ DOMAIN sockets' = 1..(Len(sockets) + 1)
          /\ sockets'[Len(sockets) + 1] = "connecting"
          /\ \A j \in DOMAIN sockets : sockets'[j] = sockets[j]
      BY <1>1, <3>1, SocketCreated
    <3>3. ~IsOpen'
      BY <3>1, <3>2 DEF IsOpen
    <3>4. DOMAIN sockets \subseteq DOMAIN sockets'
      BY <1>2, <3>2
    <3>5. \A i \in authed : i \in DOMAIN sockets' /\ sockets'[i] # "connecting"
      BY <1>1, <3>2, <3>4 DEF ServerInv
    <3> QED BY <1>1, <2>1, <3>1, <3>2, <3>3, <3>5 DEF ServerInv
  <2> QED BY <2>2, <2>3
<1>9. ASSUME NEW i \in Socket, SocketOpens(i) PROVE ServerInv'
  <2> DEFINE on == IF ws # 0 /\ (ws = i \/ sockets[ws] = "open") THEN ws ELSE 0
  <2>1. /\ i \in DOMAIN sockets /\ sockets' = [sockets EXCEPT ![i] = "open"] /\ "open" \in States
        /\ sockets[i] = "connecting" /\ UNCHANGED <<ws, subscriptions>>
    BY <1>9 DEF SocketOpens, States
  <2>2. /\ Len(sockets') = Len(sockets) /\ DOMAIN sockets' = DOMAIN sockets
        /\ sockets'[i] = "open" /\ \A j \in DOMAIN sockets : j # i => sockets'[j] = sockets[j]
    BY <1>1, <2>1, SocketChanges
  <2>3. \A j \in authed : j \in DOMAIN sockets' /\ sockets'[j] # "connecting"
    BY <1>1, <2>1, <2>2 DEF ServerInv
  <2>4. CASE on = 0
    <3>1. UNCHANGED <<authed, serverSubs, pendingSends>>
      BY <1>9, <2>4 DEF SocketOpens
    <3>2. ~IsOpen'
      BY <1>2, <2>1, <2>2, <2>4 DEF IsOpen
    <3> QED BY <1>1, <2>1, <2>2, <2>3, <3>1, <3>2 DEF ServerInv
  <2>5. CASE on # 0
    <3>1. /\ authed' = authed \cup {ws} /\ pendingSends' = << >> /\ ws \in Socket /\ ws \in DOMAIN sockets
          /\ serverSubs' = [serverSubs EXCEPT ![ws] = @ \cup ActiveChannels]
          /\ ws = i \/ sockets[ws] = "open"
      BY <1>2, <1>9, <2>5 DEF SocketOpens, ActiveChannels
    <3>2. serverSubs[ws] \subseteq ActiveChannels
      <4>1. CASE sockets[ws] = "open"
        BY <1>1, <3>1, <4>1, <1>2 DEF ServerInv, IsOpen
      <4>2. CASE ws = i
        BY <1>1, <2>1, <3>1, <4>2 DEF ServerInv
      <4> QED BY <3>1, <4>1, <4>2
    <3>3. serverSubs'[ws] = ActiveChannels /\ \A j \in Socket : j # ws => serverSubs'[j] = serverSubs[j]
      BY <1>1, <3>1, <3>2 DEF TypeOK
    <3>4. ActiveChannels' = ActiveChannels
      BY <2>1 DEF ActiveChannels, Active
    <3>5. sockets'[ws] # "connecting" /\ ws \in DOMAIN sockets'
      BY <2>2, <3>1
    <3> QED BY <1>1, <2>1, <2>2, <2>3, <3>1, <3>3, <3>4, <3>5 DEF ServerInv
  <2> QED BY <2>4, <2>5
<1>10. ASSUME NEW i \in Socket, NEW rejected \in BOOLEAN, SocketCloses(i, rejected) PROVE ServerInv'
  <2>1. /\ i \in DOMAIN sockets /\ sockets' = [sockets EXCEPT ![i] = "closed"] /\ "closed" \in States
        /\ ws' = 0 /\ UNCHANGED <<authed, serverSubs>>
    BY <1>10 DEF SocketCloses, States
  <2>2. \A j \in authed : j \in DOMAIN sockets' /\ sockets'[j] # "connecting"
    BY <1>1, <2>1, SocketChanges DEF ServerInv
  <2> QED BY <1>1, <2>1, <2>2 DEF ServerInv, IsOpen
<1>11. CASE Connect \/ TokenResolved \/ TokenRejected \/ ImplMissing \/ NoToken \/ TimerFires
  BY <1>3, <1>11 DEF Connect, TokenResolved, TokenRejected, ImplMissing, NoToken, TimerFires
<1>12. CASE UNCHANGED vars
  BY <1>3, <1>12 DEF vars
<1> QED BY <1>4, <1>5, <1>6, <1>7, <1>8, <1>9, <1>10, <1>11, <1>12 DEF Next

-----------------------------------------------------------------------------
(* Calls                                                                   *)

\* The first n numbers and the next one.
LEMMA OneMore ==
  ASSUME NEW M \in Nat, NEW n \in Nat, n < M, NEW s \in Seq(1..M), s = [k \in 1..n |-> k]
  PROVE  Append(s, n + 1) = [k \in 1..(n + 1) |-> k]
<1> DEFINE t == [k \in 1..(n + 1) |-> k]
<1>1. Len(s) = n
  BY LenProperties
<1>2. n + 1 \in 1..M
  OBVIOUS
<1>3. t \in Seq(1..M) /\ Len(t) = n + 1
  <2>1. \A k \in 1..(n + 1) : k \in 1..M
    OBVIOUS
  <2>2. t \in [1..(n + 1) -> 1..M]
    BY <2>1
  <2>3. t \in Seq(1..M)
    BY <2>2
  <2> QED BY <2>3, LenProperties
<1>4. /\ Append(s, n + 1) \in Seq(1..M) /\ Len(Append(s, n + 1)) = n + 1
      /\ \A k \in 1..n : Append(s, n + 1)[k] = s[k]
      /\ Append(s, n + 1)[n + 1] = n + 1
  BY <1>1, <1>2, AppendProperties
<1>5. ASSUME NEW k \in 1..(n + 1) PROVE Append(s, n + 1)[k] = t[k]
  <2>1. CASE k = n + 1
    BY <1>4, <2>1
  <2>2. CASE k # n + 1
    <3>1. k \in 1..n
      BY <2>2
    <3> QED BY <1>4, <3>1
  <2> QED BY <2>1, <2>2
<1> HIDE DEF t
<1>6. Append(s, n + 1) = t
  BY <1>3, <1>4, <1>5, SeqEqual
<1> QED BY <1>6 DEF t

\* A call goes to the end of what was put on a socket when nothing waits, and to the
\* end of what waits otherwise; an opening socket takes all that waits.
LEMMA SendsStep == ClientInv /\ [Next]_vars => NothingForgotten'
<1> SUFFICES ASSUME ClientInv, [Next]_vars PROVE NothingForgotten'
  OBVIOUS
<1> USE DEF app, attempt, sending, server
<1>1. TypeOK /\ ServerInv /\ NothingForgotten
  BY DEF ClientInv
<1>2. /\ MaxSends \in Nat /\ sends \in Nat /\ sends <= MaxSends
      /\ sent \in Seq(1..MaxSends) /\ pendingSends \in Seq(1..MaxSends)
  BY <1>1, ClientAssumption DEF TypeOK
<1>3. ASSUME UNCHANGED sending PROVE NothingForgotten'
  BY <1>1, <1>3 DEF NothingForgotten
<1>4. CASE SendOrQueue
  <2>1. sends < MaxSends /\ sends' = sends + 1 /\ sends + 1 \in 1..MaxSends
    BY <1>2, <1>4 DEF SendOrQueue
  <2>2. sent \o pendingSends \in Seq(1..MaxSends) /\ sent \o pendingSends = [k \in 1..sends |-> k]
    BY <1>1, <1>2, ConcatProperties DEF NothingForgotten
  <2>3. Append(sent \o pendingSends, sends + 1) = [k \in 1..(sends + 1) |-> k]
    BY <1>2, <2>1, <2>2, OneMore
  <2>4. sent' \o pendingSends' = Append(sent \o pendingSends, sends + 1)
    <3>1. CASE IsOpen
      <4>1. sent' = Append(sent, sends + 1) /\ pendingSends' = << >> /\ pendingSends = << >>
        BY <1>1, <1>4, <3>1 DEF SendOrQueue, ServerInv
      <4>2. Append(sent, sends + 1) \in Seq(1..MaxSends)
        BY <1>2, <2>1, AppendProperties
      <4> QED BY <1>2, <4>1, <4>2, ConcatEmptySeq
    <3>2. CASE ~IsOpen
      <4>1. sent' = sent /\ pendingSends' = Append(pendingSends, sends + 1)
        BY <1>4, <3>2 DEF SendOrQueue
      <4>2. /\ Append(pendingSends, sends + 1) = pendingSends \o <<sends + 1>>
            /\ Append(sent \o pendingSends, sends + 1) = (sent \o pendingSends) \o <<sends + 1>>
        BY <1>2, <2>1, <2>2, AppendIsConcat
      <4>3. <<sends + 1>> \in Seq(1..MaxSends)
        BY <2>1
      <4>4. (sent \o pendingSends) \o <<sends + 1>> = sent \o (pendingSends \o <<sends + 1>>)
        BY <1>2, <4>3, ConcatAssociative
      <4> QED BY <4>1, <4>2, <4>4
    <3> QED BY <3>1, <3>2
  <2> QED BY <2>1, <2>3, <2>4 DEF NothingForgotten
<1>5. ASSUME NEW i \in Socket, SocketOpens(i) PROVE NothingForgotten'
  <2>1. sends' = sends
    BY <1>5 DEF SocketOpens
  <2>2. \/ sent' = sent /\ pendingSends' = pendingSends
        \/ sent' = sent \o pendingSends /\ pendingSends' = << >>
    BY <1>5 DEF SocketOpens
  <2>3. sent \o pendingSends \in Seq(1..MaxSends)
    BY <1>2, ConcatProperties
  <2>4. sent' \o pendingSends' = sent \o pendingSends
    BY <2>2, <2>3, ConcatEmptySeq
  <2> QED BY <1>1, <2>1, <2>4 DEF NothingForgotten
<1>6. CASE \/ Connect \/ Disconnect \/ TokenResolved \/ TokenRejected \/ ImplResolved
           \/ ImplMissing \/ NoToken \/ TimerFires
  BY <1>3, <1>6 DEF Connect, Disconnect, TokenResolved, TokenRejected, ImplResolved, ImplMissing,
                    NoToken, TimerFires
<1>7. ASSUME NEW c \in Channels, NEW h \in Handlers, Subscribe(c, h) \/ UnsubscribeHandler(c, h)
      PROVE  NothingForgotten'
  BY <1>3, <1>7 DEF Subscribe, UnsubscribeHandler
<1>8. ASSUME NEW i \in Socket, NEW rejected \in BOOLEAN, SocketCloses(i, rejected) PROVE NothingForgotten'
  BY <1>3, <1>8 DEF SocketCloses
<1>9. CASE UNCHANGED vars
  BY <1>3, <1>9 DEF vars
<1> QED BY <1>4, <1>5, <1>6, <1>7, <1>8, <1>9 DEF Next

-----------------------------------------------------------------------------
(* Attempts and sockets                                                    *)

\* Something is under way when the number of attempts is positive.
LEMMA UnderWay ==
  ASSUME NEW o \in [{"token", "impl"} -> Nat], NEW t \in Nat
  PROVE  /\ (\E a \in DOMAIN o : o[a] > 0) \/ t > 0 <=> o["token"] + o["impl"] + t > 0
         /\ o["token"] + o["impl"] + t \in Nat
<1>1. o["token"] \in Nat /\ o["impl"] \in Nat /\ DOMAIN o = {"token", "impl"}
  OBVIOUS
<1> QED BY <1>1

\* What each step does to the number of attempts.
LEMMA AttemptsStep ==
  ASSUME TypeOK, TypeOK', [Next]_vars
  PROVE  /\ Attempts \in Nat /\ Attempts' \in Nat
         /\ Connect => Attempts' = Attempts + 1
         /\ Disconnect => Attempts' <= Attempts
         /\ TokenResolved => /\ Attempts > 0 /\ Attempts' <= Attempts
                             /\ ~closedByUser => Attempts' = Attempts
         /\ TokenRejected => /\ Attempts > 0 /\ Attempts' <= Attempts
                             /\ ~closedByUser /\ config.reconnect => Attempts' = Attempts
         /\ ImplResolved \/ ImplMissing \/ NoToken => Attempts > 0 /\ Attempts' = Attempts - 1
         /\ TimerFires => /\ Attempts > 0 /\ Attempts' <= Attempts
                          /\ ~closedByUser => Attempts' = Attempts
<1> USE DEF app, attempt, sending, server
<1>1. /\ opening["token"] \in Nat /\ opening["impl"] \in Nat /\ timers \in Nat
      /\ opening'["token"] \in Nat /\ opening'["impl"] \in Nat /\ timers' \in Nat
  BY DEF TypeOK
<1>2. Attempts \in Nat /\ Attempts' \in Nat
  BY <1>1 DEF Attempts
<1>3. ASSUME Connect PROVE Attempts' = Attempts + 1
  <2>1. opening'["token"] + opening'["impl"] = opening["token"] + opening["impl"] + 1 /\ timers' = timers
    BY <1>3, Openings DEF Connect
  <2> QED BY <1>1, <2>1 DEF Attempts
<1>4. ASSUME Disconnect PROVE Attempts' <= Attempts
  <2>1. opening' = opening /\ (timers' = timers \/ timers' = timers - 1)
    BY <1>4 DEF Disconnect
  <2> QED BY <1>1, <2>1 DEF Attempts
<1>5. ASSUME TokenResolved
      PROVE  Attempts > 0 /\ Attempts' <= Attempts /\ (~closedByUser => Attempts' = Attempts)
  <2>1. opening["token"] > 0 /\ timers' = timers
    BY <1>5 DEF TokenResolved
  <2>2. CASE closedByUser
    <3>1. opening'["token"] + opening'["impl"] = opening["token"] + opening["impl"] - 1
      BY <1>5, <2>1, <2>2, Openings DEF TokenResolved
    <3>2. Attempts > 0 /\ Attempts' <= Attempts
      BY <1>1, <2>1, <3>1 DEF Attempts
    <3> QED BY <2>2, <3>2
  <2>3. CASE ~closedByUser
    <3>1. opening'["token"] + opening'["impl"] = opening["token"] + opening["impl"]
      BY <1>5, <2>1, <2>3, Openings DEF TokenResolved
    <3>2. Attempts > 0 /\ Attempts' = Attempts
      BY <1>1, <2>1, <3>1 DEF Attempts
    <3> QED BY <1>2, <3>2
  <2> QED BY <2>2, <2>3
<1>6. ASSUME TokenRejected
      PROVE  /\ Attempts > 0 /\ Attempts' <= Attempts
             /\ ~closedByUser /\ config.reconnect => Attempts' = Attempts
  <2>1. opening["token"] > 0 /\ opening' = Resume("token") /\ ScheduleReconnect
    BY <1>6 DEF TokenRejected
  <2>2. opening'["token"] + opening'["impl"] = opening["token"] + opening["impl"] - 1
    BY <2>1, Openings
  <2>3. /\ timers' = timers \/ timers' = timers + 1
        /\ ~closedByUser /\ config.reconnect => timers' = timers + 1
    BY <2>1, Schedules
  <2>4. Attempts > 0 /\ Attempts' <= Attempts
    BY <1>1, <2>1, <2>2, <2>3 DEF Attempts
  <2>5. timers' = timers + 1 => Attempts' = Attempts
    BY <1>1, <2>1, <2>2 DEF Attempts
  <2> QED BY <2>3, <2>4, <2>5
<1>7. ASSUME ImplResolved \/ ImplMissing \/ NoToken PROVE Attempts > 0 /\ Attempts' = Attempts - 1
  <2>1. opening["impl"] > 0 /\ opening' = Resume("impl") /\ timers' = timers
    BY <1>7 DEF ImplResolved, ImplMissing, NoToken
  <2>2. opening'["token"] + opening'["impl"] = opening["token"] + opening["impl"] - 1
    BY <2>1, Openings
  <2> QED BY <1>1, <2>1, <2>2 DEF Attempts
<1>8. ASSUME TimerFires
      PROVE  Attempts > 0 /\ Attempts' <= Attempts /\ (~closedByUser => Attempts' = Attempts)
  <2>1. timers > 0 /\ timers' = timers - 1
    BY <1>8 DEF TimerFires
  <2>2. CASE closedByUser
    <3>1. opening' = opening
      BY <1>8, <2>2 DEF TimerFires
    <3>2. Attempts > 0 /\ Attempts' <= Attempts
      BY <1>1, <2>1, <3>1 DEF Attempts
    <3> QED BY <2>2, <3>2
  <2>3. CASE ~closedByUser
    <3>1. opening'["token"] + opening'["impl"] = opening["token"] + opening["impl"] + 1
      BY <1>8, <2>3, Openings DEF TimerFires
    <3>2. Attempts > 0 /\ Attempts' = Attempts
      BY <1>1, <2>1, <3>1 DEF Attempts
    <3> QED BY <1>2, <3>2
  <2> QED BY <2>2, <2>3
<1> QED BY <1>2, <1>3, <1>4, <1>5, <1>6, <1>7, <1>8

\* What the closing of a socket does to the number of attempts.
LEMMA ClosingSchedules ==
  ASSUME TypeOK, NEW i \in Socket, NEW rejected \in BOOLEAN, SocketCloses(i, rejected)
  PROVE  /\ Attempts' = Attempts \/ Attempts' = Attempts + 1
         /\ closedByUser => Attempts' = Attempts
         /\ ~closedByUser => gaveUp' \/ Attempts' = Attempts + 1
<1>1. opening["token"] \in Nat /\ opening["impl"] \in Nat /\ timers \in Nat
  BY DEF TypeOK
<1>2. opening' = opening
  BY DEF SocketCloses
<1>3. CASE rejected /\ ~config.getToken
  <2>1. gaveUp' = TRUE /\ timers' = timers
    BY <1>3 DEF SocketCloses
  <2>2. Attempts' = Attempts
    BY <1>2, <2>1 DEF Attempts
  <2> QED BY <2>1, <2>2
<1>4. CASE ~(rejected /\ ~config.getToken)
  <2>1. gaveUp' = (gaveUp \/ ~config.reconnect) /\ ScheduleReconnect
    BY <1>4 DEF SocketCloses
  <2>2. /\ timers' = timers \/ timers' = timers + 1
        /\ closedByUser => timers' = timers
        /\ ~closedByUser /\ config.reconnect => timers' = timers + 1
    BY <2>1, Schedules
  <2>3. timers' = timers => Attempts' = Attempts
    BY <1>2 DEF Attempts
  <2>4. timers' = timers + 1 => Attempts' = Attempts + 1
    BY <1>1, <1>2 DEF Attempts
  <2> QED BY <2>1, <2>2, <2>3, <2>4
<1> QED BY <1>3, <1>4

\* Whoever ends an attempt or a live socket starts the next one, or gives up.
LEMMA TryingStep == ClientInv /\ [Next]_vars => KeepsTrying'
<1> SUFFICES ASSUME ClientInv, [Next]_vars PROVE KeepsTrying'
  OBVIOUS
<1> SUFFICES ASSUME ~closedByUser', ~gaveUp' PROVE Attempts' > 0 \/ (ws' # 0 /\ Live(ws)')
  <2>1. TypeOK'
    BY TypeStep DEF ClientInv
  <2>2. opening' \in [{"token", "impl"} -> Nat] /\ timers' \in Nat
    BY <2>1 DEF TypeOK
  <2>3. Attempts' > 0 => (\E a \in DOMAIN opening' : opening'[a] > 0) \/ timers' > 0
    BY <2>2, UnderWay DEF Attempts
  <2> QED BY <2>3 DEF KeepsTrying
<1> USE DEF app, attempt, sending, server
<1>1. TypeOK /\ TypeOK' /\ KeepsTrying
  BY TypeStep DEF ClientInv
<1>2. ~closedByUser /\ ~gaveUp => Attempts > 0 \/ (ws # 0 /\ Live(ws))
  <2>1. opening \in [{"token", "impl"} -> Nat] /\ timers \in Nat
    BY <1>1 DEF TypeOK
  <2>2. (\E a \in DOMAIN opening : opening[a] > 0) \/ timers > 0 => Attempts > 0
    BY <2>1, UnderWay DEF Attempts
  <2> QED BY <1>1, <2>2 DEF KeepsTrying
<1>3. ASSUME UNCHANGED <<closedByUser, gaveUp, opening, timers, sockets, ws>>
      PROVE  Attempts' > 0 \/ (ws' # 0 /\ Live(ws)')
  BY <1>2, <1>3 DEF Attempts, Live
<1>4. CASE Connect
  <2>1. Attempts \in Nat /\ Attempts' = Attempts + 1
    BY <1>1, <1>4, AttemptsStep
  <2> QED BY <2>1
<1>5. CASE Disconnect
  BY <1>5 DEF Disconnect
<1>6. CASE TokenResolved
  <2>1. Attempts > 0 /\ Attempts' = Attempts
    BY <1>1, <1>6, AttemptsStep DEF TokenResolved
  <2> QED BY <2>1
<1>7. CASE TokenRejected
  <2>1. ~closedByUser /\ config.reconnect
    BY <1>7 DEF TokenRejected
  <2>2. Attempts > 0 /\ Attempts' = Attempts
    BY <1>1, <1>7, <2>1, AttemptsStep
  <2> QED BY <2>2
<1>8. CASE ImplResolved
  <2>1. ~closedByUser /\ sockets' = Append(sockets, "connecting") /\ ws' = Len(sockets) + 1
    BY <1>8 DEF ImplResolved
  <2>2. ws' # 0 /\ Live(ws)'
    BY <1>1, <2>1, SocketCreated DEF Live
  <2> QED BY <2>2
<1>9. CASE ImplMissing \/ NoToken
  BY <1>9 DEF ImplMissing, NoToken
<1>10. CASE TimerFires
  <2>1. Attempts > 0 /\ Attempts' = Attempts
    BY <1>1, <1>10, AttemptsStep DEF TimerFires
  <2> QED BY <2>1
<1>11. ASSUME NEW i \in Socket, SocketOpens(i) PROVE Attempts' > 0 \/ (ws' # 0 /\ Live(ws)')
  <2>1. /\ UNCHANGED <<closedByUser, gaveUp, opening, timers, ws>>
        /\ i \in DOMAIN sockets /\ sockets' = [sockets EXCEPT ![i] = "open"] /\ "open" \in States
    BY <1>11 DEF SocketOpens, States
  <2>2. Attempts' = Attempts
    BY <2>1 DEF Attempts
  <2>3. ws # 0 /\ Live(ws) => Live(ws)'
    BY <1>1, <2>1, SocketChanges DEF Live
  <2> QED BY <1>2, <2>1, <2>2, <2>3
<1>12. ASSUME NEW i \in Socket, NEW rejected \in BOOLEAN, SocketCloses(i, rejected)
       PROVE  Attempts' > 0 \/ (ws' # 0 /\ Live(ws)')
  <2>1. ~closedByUser
    BY <1>12 DEF SocketCloses
  <2>2. Attempts' = Attempts + 1 /\ Attempts \in Nat
    BY <1>1, <1>12, <2>1, ClosingSchedules, AttemptsStep
  <2> QED BY <2>2
<1>13. CASE SendOrQueue
  BY <1>3, <1>13 DEF SendOrQueue
<1>14. ASSUME NEW c \in Channels, NEW h \in Handlers, Subscribe(c, h) \/ UnsubscribeHandler(c, h)
       PROVE  Attempts' > 0 \/ (ws' # 0 /\ Live(ws)')
  BY <1>3, <1>14 DEF Subscribe, UnsubscribeHandler
<1>15. CASE UNCHANGED vars
  BY <1>3, <1>15 DEF vars
<1> QED BY <1>4, <1>5, <1>6, <1>7, <1>8, <1>9, <1>10, <1>11, <1>12, <1>13, <1>14, <1>15 DEF Next

\* An attempt turns into another or into a socket, a live socket into an attempt.
LEMMA ControlStep == ClientInv /\ [Next]_vars => ControlInv'
<1> SUFFICES ASSUME ClientInv, [Next]_vars, ~overlapped' PROVE ControlInv'
  BY DEF ControlInv
<1> USE DEF app, attempt, sending, server
<1>1. TypeOK /\ TypeOK' /\ Attempts \in Nat /\ Attempts' \in Nat
  BY TypeStep, AttemptsStep DEF ClientInv
<1>2. ~overlapped
  <2>1. CASE Connect
    BY <2>1 DEF Connect
  <2>2. CASE ~Connect
    <3>1. overlapped' = overlapped
      BY <2>2 DEF Next, vars, Disconnect, SendOrQueue, Subscribe, UnsubscribeHandler, TokenResolved,
         TokenRejected, ImplResolved, ImplMissing, NoToken, TimerFires, SocketOpens, SocketCloses
    <3> QED BY <3>1
  <2> QED BY <2>1, <2>2
<1>3. /\ Attempts <= 1
      /\ \A i \in DOMAIN sockets : Live(i) => i = ws /\ ~closedByUser /\ Attempts = 0
      /\ \A i \in DOMAIN sockets : sockets[i] = "closing" => closedByUser
  BY <1>2 DEF ClientInv, ControlInv
<1>4. ASSUME UNCHANGED <<closedByUser, opening, timers, sockets, ws>> PROVE ControlInv'
  BY <1>3, <1>4 DEF ControlInv, Attempts, Live
<1>5. ASSUME Attempts > 0, Attempts' <= Attempts, UNCHANGED <<closedByUser, sockets>> PROVE ControlInv'
  <2>1. Attempts' <= 1
    BY <1>1, <1>3, <1>5
  <2>2. \A i \in DOMAIN sockets : ~Live(i)
    BY <1>1, <1>3, <1>5
  <2> QED BY <1>3, <1>5, <2>1, <2>2 DEF ControlInv, Live
<1>6. CASE Connect
  <2>1. AtRest /\ sockets' = sockets
    BY <1>6 DEF Connect
  <2>2. Attempts = 0
    BY <1>1, <2>1 DEF AtRest, Attempts, TypeOK
  <2>3. Attempts' = 1
    BY <1>1, <1>6, <2>2, AttemptsStep
  <2>4. \A i \in DOMAIN sockets' : sockets'[i] = "closed"
    BY <2>1 DEF AtRest
  <2>5. \A i \in DOMAIN sockets' : ~Live(i)' /\ sockets'[i] # "closing"
    BY <2>4 DEF Live
  <2> QED BY <2>3, <2>5 DEF ControlInv
<1>7. CASE Disconnect
  <2>1. closedByUser' = TRUE
    BY <1>7 DEF Disconnect
  <2>2. Attempts' <= 1
    BY <1>1, <1>3, <1>7, AttemptsStep
  <2>3. \A i \in DOMAIN sockets' : ~Live(i)'
    <3>1. CASE ws # 0 /\ Live(ws)
      <4>1. ws \in DOMAIN sockets /\ sockets' = [sockets EXCEPT ![ws] = "closing"] /\ "closing" \in States
        BY <1>7, <3>1 DEF Disconnect, Live, States
      <4>2. /\ DOMAIN sockets' = DOMAIN sockets /\ sockets'[ws] = "closing"
            /\ \A j \in DOMAIN sockets : j # ws => sockets'[j] = sockets[j]
        BY <1>1, <4>1, SocketChanges
      <4> QED BY <1>3, <4>2 DEF Live
    <3>2. CASE ~(ws # 0 /\ Live(ws))
      <4>1. sockets' = sockets
        BY <1>7, <3>2 DEF Disconnect
      <4>2. \A i \in DOMAIN sockets : ~Live(i)
        BY <1>1, <1>3, <3>2, OnFile
      <4> QED BY <4>1, <4>2 DEF Live
    <3> QED BY <3>1, <3>2
  <2> QED BY <2>1, <2>2, <2>3 DEF ControlInv
<1>8. CASE TokenResolved \/ TokenRejected \/ ImplMissing \/ NoToken \/ TimerFires
  <2>1. UNCHANGED <<closedByUser, sockets>>
    BY <1>8 DEF TokenResolved, TokenRejected, ImplMissing, NoToken, TimerFires
  <2>2. Attempts > 0 /\ (Attempts' <= Attempts \/ Attempts' = Attempts - 1)
    BY <1>1, <1>8, AttemptsStep
  <2>3. Attempts' <= Attempts
    BY <1>1, <2>2
  <2> QED BY <1>5, <2>1, <2>2, <2>3
<1>9. CASE ImplResolved
  <2>1. Attempts > 0 /\ Attempts' = Attempts - 1
    BY <1>1, <1>9, AttemptsStep
  <2>2. Attempts' = 0 /\ Attempts' <= Attempts /\ closedByUser' = closedByUser
    BY <1>1, <1>3, <1>9, <2>1 DEF ImplResolved
  <2>3. CASE closedByUser
    BY <1>5, <1>9, <2>1, <2>2, <2>3 DEF ImplResolved
  <2>4. CASE ~closedByUser
    <3>1. sockets' = Append(sockets, "connecting") /\ ws' = Len(sockets) + 1
      BY <1>9, <2>4 DEF ImplResolved
    <3>2. /\ DOMAIN sockets' = 1..(Len(sockets) + 1) /\ DOMAIN sockets = 1..Len(sockets)
          /\ Len(sockets) \in Nat /\ sockets'[Len(sockets) + 1] = "connecting"
          /\ \A j \in DOMAIN sockets : sockets'[j] = sockets[j]
      BY <1>1, <3>1, SocketCreated
    <3>3. \A i \in DOMAIN sockets' : i = ws' \/ i \in DOMAIN sockets
      BY <3>1, <3>2
    <3>4. \A i \in DOMAIN sockets : ~Live(i) /\ sockets[i] # "closing"
      BY <1>1, <1>3, <2>1, <2>4
    <3>5. \A i \in DOMAIN sockets' : i # ws' => ~Live(i)' /\ sockets'[i] # "closing"
      BY <3>2, <3>3, <3>4 DEF Live
    <3>6. 0 <= 1 /\ sockets'[ws'] # "closing"
      BY <3>1, <3>2
    <3> QED BY <2>2, <2>4, <3>5, <3>6 DEF ControlInv
  <2> QED BY <2>3, <2>4
<1>10. ASSUME NEW i \in Socket, SocketOpens(i) PROVE ControlInv'
  <2>1. /\ UNCHANGED <<closedByUser, opening, timers, ws>> /\ sockets[i] = "connecting"
        /\ i \in DOMAIN sockets /\ sockets' = [sockets EXCEPT ![i] = "open"] /\ "open" \in States
    BY <1>10 DEF SocketOpens, States
  <2>2. Attempts' = Attempts
    BY <2>1 DEF Attempts
  <2>3. /\ DOMAIN sockets' = DOMAIN sockets /\ sockets'[i] = "open"
        /\ \A j \in DOMAIN sockets : j # i => sockets'[j] = sockets[j]
    BY <1>1, <2>1, SocketChanges
  <2>4. Live(i)
    BY <2>1 DEF Live
  <2> QED BY <1>3, <2>1, <2>2, <2>3, <2>4 DEF ControlInv, Live
<1>11. ASSUME NEW i \in Socket, NEW rejected \in BOOLEAN, SocketCloses(i, rejected) PROVE ControlInv'
  <2>1. /\ closedByUser' = closedByUser /\ sockets[i] # "closed"
        /\ i \in DOMAIN sockets /\ sockets' = [sockets EXCEPT ![i] = "closed"] /\ "closed" \in States
    BY <1>11 DEF SocketCloses, States
  <2>2. /\ DOMAIN sockets' = DOMAIN sockets /\ sockets'[i] = "closed"
        /\ \A j \in DOMAIN sockets : j # i => sockets'[j] = sockets[j]
    BY <1>1, <2>1, SocketChanges
  <2>3. /\ Attempts' = Attempts \/ Attempts' = Attempts + 1
        /\ closedByUser => Attempts' = Attempts
    BY <1>1, <1>11, ClosingSchedules
  <2>4. sockets[i] \in States
    BY <1>1, <2>1, OnFile
  <2>5. Live(i) \/ closedByUser
    BY <1>3, <2>1, <2>4 DEF Live, States
  <2>6. Attempts' <= 1
    BY <1>1, <1>3, <2>1, <2>3, <2>5
  <2>7. \A j \in DOMAIN sockets : j # i => ~Live(j)
    BY <1>3, <2>1, <2>5
  <2>8. \A j \in DOMAIN sockets' : ~Live(j)'
    BY <2>2, <2>7 DEF Live
  <2>9. \A j \in DOMAIN sockets' : sockets'[j] = "closing" => closedByUser'
    BY <1>3, <2>1, <2>2
  <2> QED BY <2>6, <2>8, <2>9 DEF ControlInv
<1>12. CASE SendOrQueue
  BY <1>4, <1>12 DEF SendOrQueue
<1>13. ASSUME NEW c \in Channels, NEW h \in Handlers, Subscribe(c, h) \/ UnsubscribeHandler(c, h)
       PROVE  ControlInv'
  BY <1>4, <1>13 DEF Subscribe, UnsubscribeHandler
<1>14. CASE UNCHANGED vars
  BY <1>4, <1>14 DEF vars
<1> QED BY <1>6, <1>7, <1>8, <1>9, <1>10, <1>11, <1>12, <1>13, <1>14 DEF Next

-----------------------------------------------------------------------------
(* Theorems                                                                *)

\* The client starts with nothing: no socket, no call, no subscription.
LEMMA ClientStart == Init => ClientInv
<1> SUFFICES ASSUME Init PROVE ClientInv
  OBVIOUS
<1>1. TypeOK
  BY TypeInit
<1>2. sockets = << >> /\ DOMAIN sockets = {} /\ Len(sockets) = 0 /\ ws = 0 /\ authed = {}
  BY EmptySeq DEF Init
<1>3. ServerInv
  BY <1>2 DEF Init, ServerInv, IsOpen
<1>4. NothingForgotten
  <2>1. sent = << >> /\ pendingSends = << >> /\ sends = 0
    BY DEF Init
  <2>2. << >> \o << >> = << >>
    BY EmptySeq, ConcatEmptySeq
  <2>3. [n \in 1..0 |-> n] = << >>
    OBVIOUS
  <2> QED BY <2>1, <2>2, <2>3 DEF NothingForgotten
<1>5. KeepsTrying
  BY DEF Init, KeepsTrying
<1>6. ControlInv
  <2>1. Attempts = 0
    BY DEF Init, Attempts
  <2> QED BY <1>2, <2>1 DEF ControlInv
<1> QED BY <1>1, <1>3, <1>4, <1>5, <1>6 DEF ClientInv

\* Types, what the server knows, the calls, the attempts and the sockets of
\* RealtimeClient agree after any sequence of calls, timers and socket events.
THEOREM ClientInvariant == Spec => []ClientInv
<1>1. ClientInv /\ [Next]_vars => ClientInv'
  BY TypeStep, ServerStep, SendsStep, TryingStep, ControlStep DEF ClientInv
<1> QED BY <1>1, ClientStart, PTL DEF Spec

\* Every publish, unicast and replay was put on an authenticated socket once or still
\* waits, in the order of the calls (sendOrQueue and the onopen callback).
THEOREM NoCallForgotten == Spec => []NothingForgotten
<1>1. ClientInv => NothingForgotten
  BY DEF ClientInv
<1> QED BY <1>1, ClientInvariant, PTL

\* On the open socket the server relays the very channels that have handlers
\* (subscribe, unsubscribeHandler and the onopen callback).
THEOREM ServerFollowsTheClient == Spec => []ServerFollowsSubscriptions
<1>1. ClientInv => ServerFollowsSubscriptions
  BY DEF ClientInv, ServerInv, ServerFollowsSubscriptions, ActiveChannels
<1> QED BY <1>1, ClientInvariant, PTL

\* A client that was not told to stop and has not given up is connected, connecting or
\* about to (scheduleReconnect at every failure).
THEOREM ClientKeepsTrying == Spec => []KeepsTrying
<1>1. ClientInv => KeepsTrying
  BY DEF ClientInv
<1> QED BY <1>1, ClientInvariant, PTL

\* One live socket at a time and none after disconnect(), whichever await of openSocket
\* disconnect() came in.
THEOREM SocketsStayUnderControl == Spec => []SocketsUnderControl
<1>1. ClientInv => SocketsUnderControl
  BY DEF ClientInv, ControlInv, SocketsUnderControl, OneLiveSocket, NoSocketAfterDisconnect
<1> QED BY <1>1, ClientInvariant, PTL
=============================================================================
