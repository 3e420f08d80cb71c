----------------------------- MODULE Connection -----------------------------
(***************************************************************************)
(* One connection: the command loop of WsController or TcpController, the  *)
(* relay tasks it spawns, one per subscription, and the queue between      *)
(* them.                                                                   *)
(*                                                                         *)
(* The loop is a select over two sources: inbound bytes and the out queue. *)
(* While it handles a command it polls neither.  A relay task moves frames *)
(* from its broadcast receiver to the out queue and waits when that queue  *)
(* is full; an abort reaches it at its next suspension, so an aborted task *)
(* may still move a frame.                                                 *)
(*                                                                         *)
(* Operators whose name starts with Faulty are not part of the model: each *)
(* is a plausible slip in the definition that follows it, there to show    *)
(* that a property would notice.                                           *)
(***************************************************************************)
EXTENDS Integers, FiniteSets, SequencesExt

CONSTANTS
  Keys,             \* channels and patterns this client subscribes to
  Chunks,           \* reads it takes to receive one inbound frame
  CancelSafe,       \* TRUE for a WebSocket stream, FALSE for read_exact on TCP
  RelayBuffer,      \* RELAY_BUFFER
  BusCapacity,      \* CHANNEL_CAPACITY of a broadcast bus
  HistoryCapacity,  \* frames REPLAY can return
  MaxFrames,        \* bound: frames published on one key
  MaxTasks          \* bound: relay tasks ever spawned

ASSUME ConnectionAssumption ==
  /\ CancelSafe \in BOOLEAN
  /\ {Chunks, RelayBuffer, BusCapacity, HistoryCapacity, MaxFrames, MaxTasks} \subseteq Nat \ {0}

VARIABLES
  main,           \* what the command loop is doing
  have,           \* chunks of the next inbound frame that were read
  skew,           \* how far the reader is off the frame boundary, in chunks
  published,      \* published[k]: frames published on k so far
  tasks,          \* relay tasks, in the order they were spawned
  relay_tasks,    \* relay_tasks[k]: the task the loop has on file for k, or 0
  out,            \* the out queue
  replay,         \* frames the REPLAY being handled has yet to enqueue
  heard           \* heard[t]: what relay task t got through to the client, in order

inbound == <<have, skew>>
vars == <<main, inbound, published, tasks, relay_tasks, out, replay, heard>>

Tasks == 1..MaxTasks

\* A frame on its way to the client: the n-th of its key, put into the queue by
\* relay task "from", or by REPLAY when that is 0.
Frame == [key : Keys, n : 1..MaxFrames, from : 0..MaxTasks]

\* A relay task: its receiver will read frame "next"; "first" was the first it
\* could see; a frame in "holding" waits for room in the queue.
Task == [key : Keys, first : 1..(MaxFrames + 1), next : 1..(MaxFrames + 1), holding : 0..MaxFrames,
         status : {"running", "aborted", "ended"}]

TypeOK ==
  /\ main \in {"select", "replaying", "closed"}
  /\ have \in 0..Chunks
  /\ skew \in 0..(Chunks - 1)
  /\ published \in [Keys -> 0..MaxFrames]
  /\ tasks \in Seq(Task) /\ Len(tasks) <= MaxTasks
  /\ relay_tasks \in [Keys -> 0..MaxTasks]
  /\ out \in Seq(Frame) /\ Len(out) <= RelayBuffer
  /\ replay \in Seq(Frame)
  /\ heard \in [Tasks -> Seq(1..MaxFrames)]

Init ==
  /\ main = "select"
  /\ have = 0
  /\ skew = 0
  /\ published = [k \in Keys |-> 0]
  /\ tasks = << >>
  /\ relay_tasks = [k \in Keys |-> 0]
  /\ out = << >>
  /\ replay = << >>
  /\ heard = [t \in Tasks |-> << >>]

-----------------------------------------------------------------------------
(* Publishers and relay tasks                                              *)

\* Another session publishes on k.
Publish(k) ==
  /\ published[k] < MaxFrames
  /\ published' = [published EXCEPT ![k] = @ + 1]
  /\ UNCHANGED <<main, inbound, tasks, relay_tasks, out, replay, heard>>

Alive(t) == t \in DOMAIN tasks /\ tasks[t].status # "ended"

\* The receiver has missed frames: the ring holds the last BusCapacity only.
Lagged(t) == published[tasks[t].key] - tasks[t].next + 1 > BusCapacity

\* rx.recv() yields the next frame.
RelayRecv(t) ==
  /\ Alive(t)
  /\ tasks[t].holding = 0
  /\ tasks[t].next <= published[tasks[t].key]
  /\ ~Lagged(t)
  /\ tasks' = [tasks EXCEPT ![t].holding = tasks[t].next, ![t].next = @ + 1]
  /\ UNCHANGED <<main, inbound, published, relay_tasks, out, replay, heard>>

\* The task goes on with the oldest frame that is left.
FaultyLaggedSkips(t) ==
  /\ Alive(t)
  /\ tasks[t].holding = 0
  /\ Lagged(t)
  /\ tasks' = [tasks EXCEPT ![t].next = published[tasks[t].key] - BusCapacity + 1]
  /\ UNCHANGED <<main, inbound, published, relay_tasks, out, replay, heard>>

\* rx.recv() yields RecvError::Lagged, which ends the "while let Ok".
RelayLagged(t) ==
  /\ Alive(t)
  /\ tasks[t].holding = 0
  /\ Lagged(t)
  /\ tasks' = [tasks EXCEPT ![t].status = "ended"]
  /\ UNCHANGED <<main, inbound, published, relay_tasks, out, replay, heard>>

\* try_send: a frame for which there is no room is dropped.
FaultySendDrops(t) ==
  /\ Alive(t)
  /\ tasks[t].holding # 0
  /\ main # "closed"
  /\ out' = IF Len(out) < RelayBuffer
              THEN Append(out, [key |-> tasks[t].key, n |-> tasks[t].holding, from |-> t])
              ELSE out
  /\ tasks' = [tasks EXCEPT ![t].holding = 0]
  /\ UNCHANGED <<main, inbound, published, relay_tasks, replay, heard>>

\* out_tx.send(relayed) completes; it waits while the queue is full.
RelaySend(t) ==
  /\ Alive(t)
  /\ tasks[t].holding # 0
  /\ main # "closed"
  /\ Len(out) < RelayBuffer
  /\ out' = Append(out, [key |-> tasks[t].key, n |-> tasks[t].holding, from |-> t])
  /\ tasks' = [tasks EXCEPT ![t].holding = 0]
  /\ UNCHANGED <<main, inbound, published, relay_tasks, replay, heard>>

\* out_tx.send(relayed) fails: the loop is gone, and out_rx with it.
RelaySendFails(t) ==
  /\ Alive(t)
  /\ tasks[t].holding # 0
  /\ main = "closed"
  /\ tasks' = [tasks EXCEPT ![t].status = "ended"]
  /\ UNCHANGED <<main, inbound, published, relay_tasks, out, replay, heard>>

\* The runtime drops an aborted task, and whatever it was holding.
RelayDropped(t) ==
  /\ Alive(t)
  /\ tasks[t].status = "aborted"
  /\ tasks' = [tasks EXCEPT ![t].status = "ended"]
  /\ UNCHANGED <<main, inbound, published, relay_tasks, out, replay, heard>>

\* JoinHandle::abort on a set of tasks.
Abort(ts, S) ==
  [t \in DOMAIN ts |->
     IF t \in S /\ ts[t].status = "running" THEN [ts[t] EXCEPT !.status = "aborted"] ELSE ts[t]]

-----------------------------------------------------------------------------
(* The command loop                                                        *)

\* Some bytes of the next inbound frame arrive.
ReadChunk ==
  /\ main = "select"
  /\ have < Chunks
  /\ have' = have + 1
  /\ UNCHANGED <<main, skew, published, tasks, relay_tasks, out, replay, heard>>

\* A whole frame's worth of bytes is there, and it starts where a frame starts.
Received == main = "select" /\ have = Chunks /\ skew = 0

\* The task that a re-SUB replaces runs on.
FaultyResubscribe(k) ==
  /\ Received
  /\ Len(tasks) < MaxTasks
  /\ have' = 0
  /\ tasks' = Append(tasks, [key |-> k, first |-> published[k] + 1, next |-> published[k] + 1,
                             holding |-> 0, status |-> "running"])
  /\ relay_tasks' = [relay_tasks EXCEPT ![k] = Len(tasks) + 1]
  /\ UNCHANGED <<main, skew, published, out, replay, heard>>

\* SUB: the new receiver sees what is published from now on.  A re-SUB replaces
\* the task on file and aborts it.
HandleSubscribed(k) ==
  /\ Received
  /\ Len(tasks) < MaxTasks
  /\ have' = 0
  /\ tasks' = Append(Abort(tasks, {relay_tasks[k]}),
                     [key |-> k, first |-> published[k] + 1, next |-> published[k] + 1,
                      holding |-> 0, status |-> "running"])
  /\ relay_tasks' = [relay_tasks EXCEPT ![k] = Len(tasks) + 1]
  /\ UNCHANGED <<main, skew, published, out, replay, heard>>

\* UNSUB aborts the task on file, if there is one.
HandleUnsubscribed(k) ==
  /\ Received
  /\ have' = 0
  /\ tasks' = Abort(tasks, {relay_tasks[k]})
  /\ relay_tasks' = [relay_tasks EXCEPT ![k] = 0]
  /\ UNCHANGED <<main, skew, published, out, replay, heard>>

\* REPLAY: the history from some point on, to be enqueued by the loop itself (an
\* empty history is a frame without effect).
HandleReplayed(k) ==
  /\ Received
  /\ have' = 0
  /\ \E from \in 1..published[k] :
       /\ from > published[k] - HistoryCapacity
       /\ replay' = [i \in 1..(published[k] - from + 1) |->
                       [key |-> k, n |-> from + i - 1, from |-> 0]]
  /\ main' = "replaying"
  /\ UNCHANGED <<skew, published, tasks, relay_tasks, out, heard>>

\* out_tx.send(f).await inside the handler; it waits while the queue is full,
\* and the loop that would empty the queue is this one.
ReplaySend ==
  /\ main = "replaying"
  /\ replay # << >>
  /\ Len(out) < RelayBuffer
  /\ out' = Append(out, Head(replay))
  /\ replay' = Tail(replay)
  /\ UNCHANGED <<main, inbound, published, tasks, relay_tasks, heard>>

ReplayDone ==
  /\ main = "replaying"
  /\ replay = << >>
  /\ main' = "select"
  /\ UNCHANGED <<inbound, published, tasks, relay_tasks, out, replay, heard>>

\* A frame without effect on the transport: PING, PUB, UNICAST, one that does
\* not parse, is over the rate limit, or is out of step with the boundary.
HandleNone ==
  /\ main = "select" /\ have = Chunks
  /\ have' = 0
  /\ UNCHANGED <<main, skew, published, tasks, relay_tasks, out, replay, heard>>

\* The other branch of the select wins: the read in progress is cancelled, and
\* a read that is not cancel safe forgets the chunks it has.
WriteOut ==
  /\ main = "select"
  /\ out # << >>
  /\ have < Chunks
  /\ heard' = IF Head(out).from = 0 THEN heard
              ELSE [heard EXCEPT ![Head(out).from] = Append(@, Head(out).n)]
  /\ out' = Tail(out)
  /\ IF CancelSafe THEN UNCHANGED inbound
                   ELSE have' = 0 /\ skew' = (skew + have) % Chunks
  /\ UNCHANGED <<main, published, tasks, relay_tasks, replay>>

\* The relay tasks are left to themselves.
FaultyDisconnect ==
  /\ main = "select"
  /\ main' = "closed"
  /\ out' = << >>
  /\ UNCHANGED <<inbound, published, tasks, relay_tasks, replay, heard>>

\* The socket closes or fails, or AUTH is rejected: the loop ends, aborts every
\* task on file and drops the queue.
Disconnect ==
  /\ main = "select"
  /\ main' = "closed"
  /\ tasks' = Abort(tasks, {relay_tasks[k] : k \in Keys})
  /\ out' = << >>
  /\ UNCHANGED <<inbound, published, relay_tasks, replay, heard>>

Relay(t) == RelayRecv(t) \/ RelayLagged(t) \/ RelaySend(t) \/ RelaySendFails(t) \/ RelayDropped(t)

Next ==
  \/ \E k \in Keys : Publish(k)
  \/ \E t \in Tasks : RelayRecv(t)
  \/ \E t \in Tasks : RelayLagged(t)
  \/ \E t \in Tasks : RelaySend(t)
  \/ \E t \in Tasks : RelaySendFails(t)
  \/ \E t \in Tasks : RelayDropped(t)
  \/ ReadChunk
  \/ \E k \in Keys : HandleSubscribed(k)
  \/ \E k \in Keys : HandleUnsubscribed(k)
  \/ \E k \in Keys : HandleReplayed(k)
  \/ ReplaySend
  \/ ReplayDone
  \/ HandleNone
  \/ WriteOut
  \/ Disconnect

Spec == Init /\ [][Next]_vars

\* The runtime polls every task and the loop; select! picks a ready branch at
\* random, so a queue that is non-empty again and again is served; a client that
\* stays connected keeps reading; a frame that was read is handled.
Fairness ==
  /\ \A t \in Tasks : WF_vars(Relay(t)) /\ WF_vars(RelayDropped(t))
  /\ WF_vars(ReplaySend \/ ReplayDone)
  /\ WF_vars(HandleNone)
  /\ SF_vars(WriteOut)

FairSpec == Spec /\ Fairness

-----------------------------------------------------------------------------
(* Properties                                                              *)

\* What the client gets from one subscription has no gap and no repetition: it
\* starts with the first frame after the SUB and misses nothing up to the last.
FeedHasNoGaps ==
  \A t \in DOMAIN tasks :
    \A i \in DOMAIN heard[t] : heard[t][i] = tasks[t].first + i - 1

\* "A re-SUB on an already-active key replaces the previous task": one key has
\* at most one relay that nobody has aborted, and it is the one on file.
OneRelayPerKey ==
  \A t \in DOMAIN tasks :
    tasks[t].status = "running" /\ main # "closed" => relay_tasks[tasks[t].key] = t

\* Every relay task ends once the connection is gone: no receiver leaks.
RelaysEndAfterClose ==
  (main = "closed") ~> (\A t \in DOMAIN tasks : tasks[t].status = "ended")

\* A frame that a relay has taken from its bus reaches the client, unless the
\* relay is aborted, the connection ends, or the loop sits in a REPLAY.
RelayedFramesArrive ==
  \A t \in Tasks, n \in 1..MaxFrames :
    (t \in DOMAIN tasks /\ tasks[t].holding = n)
      ~> \/ n \in ToSet(heard[t])
         \/ t \in DOMAIN tasks /\ tasks[t].status # "running"
         \/ main \in {"closed", "replaying"}

\* Relays neither leak nor sit on a frame (the task that handle_subscribed spawns).
RelaysComeToAnEnd == RelaysEndAfterClose /\ RelayedFramesArrive

\* The reader never loses the frame boundary.
InboundAligned == skew = 0

\* The comment on the out queue: messages are "relayed without blocking the
\* inbound command loop on the same socket".
CommandLoopResumes == (main = "replaying") ~> (main # "replaying")
=============================================================================
