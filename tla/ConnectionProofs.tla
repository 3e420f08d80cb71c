-------------------------- MODULE ConnectionProofs --------------------------
(***************************************************************************)
(* Feeds without gaps and one relay per key, for every set of keys, every  *)
(* capacity of the queue and of the bus, and both transports.              *)
(***************************************************************************)
EXTENDS Connection, SequenceTheorems, TLAPS

\* The next frame of relay task t to enter the out queue.
Pending(t) == IF tasks[t].holding = 0 THEN tasks[t].next ELSE tasks[t].holding

\* The first frame of relay task t that the client has not heard.
Awaited(t) == tasks[t].first + Len(heard[t])

\* Where frames of relay task t stand in the out queue.
Queued(t) == {p \in DOMAIN out : out[p].from = t}

\* The frames of t between the client and the bus stand in the queue, all of them
\* and in order.
QueueInv(t) ==
  /\ Awaited(t) <= Pending(t)
  /\ \A p \in Queued(t) : Awaited(t) <= out[p].n /\ out[p].n < Pending(t)
  /\ \A p, q \in Queued(t) : p < q => out[p].n < out[q].n
  /\ \A n \in Awaited(t)..(Pending(t) - 1) : \E p \in Queued(t) : out[p].n = n

\* One relay task: it holds the frame before the one it will read, or none; what it
\* got through has no gap; while the loop runs, neither has the queue.
FeedInv(t) ==
  /\ tasks[t].holding \in {0, tasks[t].next - 1}
  /\ \A i \in DOMAIN heard[t] : heard[t][i] = tasks[t].first + i - 1
  /\ main # "closed" => QueueInv(t)

\* Frames come from tasks that were spawned, or from REPLAY.
OriginInv ==
  /\ \A t \in Tasks : t > Len(tasks) => heard[t] = << >>
  /\ \A p \in DOMAIN out : out[p].from <= Len(tasks)
  /\ \A p \in DOMAIN replay : replay[p].from = 0

ConnectionInv ==
  /\ TypeOK
  /\ OriginInv
  /\ \A t \in DOMAIN tasks : FeedInv(t)
  /\ OneRelayPerKey

-----------------------------------------------------------------------------
(* Types                                                                   *)

\* abort touches the status of the tasks, and nothing else.
LEMMA AbortTasks ==
  ASSUME TypeOK, NEW S
  PROVE  /\ Abort(tasks, S) \in Seq(Task)
         /\ Len(Abort(tasks, S)) = Len(tasks)
         /\ \A t \in 1..Len(tasks) :
              /\ Abort(tasks, S)[t].key = tasks[t].key
              /\ Abort(tasks, S)[t].first = tasks[t].first
              /\ Abort(tasks, S)[t].next = tasks[t].next
              /\ Abort(tasks, S)[t].holding = tasks[t].holding
              /\ Abort(tasks, S)[t].status = "running" => tasks[t].status = "running" /\ t \notin S
<1>1. tasks \in Seq(Task) /\ Len(tasks) \in Nat /\ DOMAIN tasks = 1..Len(tasks)
  BY DEF TypeOK
<1>2. \A t \in 1..Len(tasks) : tasks[t] \in Task
  BY <1>1
<1>3. \A t \in 1..Len(tasks) : Abort(tasks, S)[t] \in Task
  BY <1>1, <1>2 DEF Abort, Task
<1>4. Abort(tasks, S) = [t \in 1..Len(tasks) |-> Abort(tasks, S)[t]]
  BY <1>1 DEF Abort
<1>5. Abort(tasks, S) \in Seq(Task) /\ Len(Abort(tasks, S)) = Len(tasks)
  BY <1>1, <1>3, <1>4, IsASeq
<1> QED BY <1>1, <1>2, <1>5 DEF Abort, Task

\* What stands in the table of tasks, and what in the queue.
LEMMA Entries ==
  ASSUME TypeOK
  PROVE  /\ \A t \in DOMAIN tasks :
              /\ t \in Tasks /\ t # 0 /\ tasks[t] \in Task
              /\ tasks[t].first \in Nat /\ tasks[t].next \in Nat \ {0} /\ tasks[t].holding \in Nat
              /\ heard[t] \in Seq(1..MaxFrames) /\ Len(heard[t]) \in Nat
              /\ Awaited(t) \in Nat /\ Pending(t) \in Nat
         /\ \A p \in DOMAIN out : p \in Nat \ {0} /\ out[p] \in Frame /\ out[p].n \in Nat
<1>1. /\ tasks \in Seq(Task) /\ Len(tasks) \in Nat /\ DOMAIN tasks = 1..Len(tasks)
      /\ Len(tasks) <= MaxTasks /\ MaxTasks \in Nat /\ MaxFrames \in Nat
  BY ConnectionAssumption DEF TypeOK
<1>2. ASSUME NEW t \in DOMAIN tasks
      PROVE  /\ t \in Tasks /\ t # 0 /\ tasks[t] \in Task
             /\ tasks[t].first \in Nat /\ tasks[t].next \in Nat \ {0} /\ tasks[t].holding \in Nat
             /\ heard[t] \in Seq(1..MaxFrames) /\ Len(heard[t]) \in Nat
             /\ Awaited(t) \in Nat /\ Pending(t) \in Nat
  <2>1. t \in Tasks /\ t # 0 /\ tasks[t] \in Task
    BY <1>1 DEF Tasks
  <2>2. tasks[t].first \in Nat /\ tasks[t].next \in Nat \ {0} /\ tasks[t].holding \in Nat
    BY <1>1, <2>1 DEF Task
  <2>3. heard[t] \in Seq(1..MaxFrames) /\ Len(heard[t]) \in Nat
    BY <2>1 DEF TypeOK
  <2> QED BY <2>1, <2>2, <2>3 DEF Awaited, Pending
<1>3. ASSUME NEW p \in DOMAIN out PROVE p \in Nat \ {0} /\ out[p] \in Frame /\ out[p].n \in Nat
  <2>1. out \in Seq(Frame) /\ DOMAIN out = 1..Len(out) /\ Len(out) \in Nat
    BY DEF TypeOK
  <2>2. p \in Nat \ {0} /\ out[p] \in Frame
    BY <2>1
  <2> QED BY <1>1, <2>2 DEF Frame
<1> QED BY <1>2, <1>3

\* One entry of the table of tasks is replaced.
LEMMA UpdateTask ==
  ASSUME TypeOK, NEW t \in DOMAIN tasks, NEW r \in Task, tasks' = [tasks EXCEPT ![t] = r]
  PROVE  /\ tasks' \in Seq(Task) /\ Len(tasks') = Len(tasks)
         /\ tasks'[t] = r /\ \A u \in DOMAIN tasks : u # t => tasks'[u] = tasks[u]
<1>1. tasks \in Seq(Task) /\ Len(tasks) \in Nat /\ DOMAIN tasks = 1..Len(tasks)
  BY DEF TypeOK
<1> QED BY <1>1, ExceptSeq

\* The step of a relay task, as a change of its entry.
LEMMA RelayEntry ==
  ASSUME TypeOK, NEW t \in Tasks
  PROVE  /\ Alive(t) => t \in DOMAIN tasks /\ tasks[t] \in Task
         /\ RelayRecv(t) => tasks' = [tasks EXCEPT ![t] = [tasks[t] EXCEPT !.holding = tasks[t].next,
                                                                          !.next = tasks[t].next + 1]]
         /\ RelayLagged(t) \/ RelaySendFails(t) \/ RelayDropped(t) =>
              tasks' = [tasks EXCEPT ![t] = [tasks[t] EXCEPT !.status = "ended"]]
         /\ RelaySend(t) => tasks' = [tasks EXCEPT ![t] = [tasks[t] EXCEPT !.holding = 0]]
<1>1. tasks \in Seq(Task) /\ Len(tasks) \in Nat /\ DOMAIN tasks = 1..Len(tasks)
  BY DEF TypeOK
<1>2. Alive(t) => t \in DOMAIN tasks /\ tasks[t] \in Task
  BY <1>1 DEF Alive
<1>3. ASSUME RelayRecv(t)
      PROVE  tasks' = [tasks EXCEPT ![t] = [tasks[t] EXCEPT !.holding = tasks[t].next,
                                                           !.next = tasks[t].next + 1]]
  <2>1. t \in DOMAIN tasks /\ tasks[t] \in Task
    BY <1>2, <1>3 DEF RelayRecv
  <2>2. tasks' = [tasks EXCEPT ![t].holding = tasks[t].next, ![t].next = @ + 1]
    BY <1>3 DEF RelayRecv
  <2> QED BY <2>1, <2>2 DEF Task
<1>4. RelayLagged(t) \/ RelaySendFails(t) \/ RelayDropped(t) =>
        tasks' = [tasks EXCEPT ![t] = [tasks[t] EXCEPT !.status = "ended"]]
  BY DEF RelayLagged, RelaySendFails, RelayDropped
<1>5. RelaySend(t) => tasks' = [tasks EXCEPT ![t] = [tasks[t] EXCEPT !.holding = 0]]
  BY DEF RelaySend
<1> QED BY <1>2, <1>3, <1>4, <1>5

\* The relay task that SUB spawns.
Spawned(k) == [key |-> k, first |-> published[k] + 1, next |-> published[k] + 1,
               holding |-> 0, status |-> "running"]

\* A relay task starts behind what was published.
LEMMA SpawnedTask ==
  ASSUME TypeOK, NEW k \in Keys
  PROVE  Spawned(k) \in Task
<1>1. published[k] \in 0..MaxFrames /\ MaxFrames \in Nat
  BY ConnectionAssumption DEF TypeOK
<1>2. published[k] + 1 \in 1..(MaxFrames + 1) /\ 0 \in 0..MaxFrames
  BY <1>1
<1> QED BY <1>2 DEF Task, Spawned

\* The types hold at the start.
LEMMA TypeInit == Init => TypeOK
  BY ConnectionAssumption DEF Init, TypeOK

\* Every step of the loop and of the relay tasks keeps the types.
LEMMA TypeStep == TypeOK /\ [Next]_vars => TypeOK'
<1> SUFFICES ASSUME TypeOK, [Next]_vars PROVE TypeOK'
  OBVIOUS
<1> USE ConnectionAssumption DEF inbound
<1>1. ASSUME NEW k \in Keys, Publish(k) PROVE TypeOK'
  <2>1. published[k] + 1 \in 0..MaxFrames /\ published \in [Keys -> 0..MaxFrames]
    <3>1. published \in [Keys -> 0..MaxFrames]
      BY DEF TypeOK
    <3>2. published[k] < MaxFrames
      BY <1>1 DEF Publish
    <3> QED BY <3>1, <3>2
  <2>2. published' \in [Keys -> 0..MaxFrames]
    BY <1>1, <2>1 DEF Publish
  <2>3. UNCHANGED <<main, have, skew, tasks, relay_tasks, out, replay, heard>>
    BY <1>1 DEF Publish
  <2> QED BY <2>2, <2>3 DEF TypeOK
<1>2. ASSUME NEW t \in Tasks, RelayRecv(t) PROVE TypeOK'
  <2>1. t \in DOMAIN tasks /\ tasks[t] \in Task /\ tasks[t].next <= published[tasks[t].key]
    BY <1>2, RelayEntry DEF RelayRecv
  <2>a. published[tasks[t].key] \in 0..MaxFrames /\ tasks[t].next \in 1..(MaxFrames + 1)
    BY <2>1 DEF TypeOK, Task
  <2>b. tasks[t].next \in 0..MaxFrames /\ tasks[t].next + 1 \in 1..(MaxFrames + 1)
    BY <2>1, <2>a
  <2>2. [tasks[t] EXCEPT !.holding = tasks[t].next, !.next = tasks[t].next + 1] \in Task
    BY <2>1, <2>b DEF Task
  <2>3. tasks' \in Seq(Task) /\ Len(tasks') = Len(tasks)
    BY <1>2, <2>1, <2>2, RelayEntry, UpdateTask
  <2> QED BY <1>2, <2>3 DEF RelayRecv, TypeOK
<1>3. ASSUME NEW t \in Tasks, RelayLagged(t) \/ RelaySendFails(t) \/ RelayDropped(t) PROVE TypeOK'
  <2>1. t \in DOMAIN tasks /\ tasks[t] \in Task
    BY <1>3, RelayEntry DEF RelayLagged, RelaySendFails, RelayDropped
  <2>2. [tasks[t] EXCEPT !.status = "ended"] \in Task
    BY <2>1 DEF Task
  <2>3. tasks' \in Seq(Task) /\ Len(tasks') = Len(tasks)
    BY <1>3, <2>1, <2>2, RelayEntry, UpdateTask
  <2> QED BY <1>3, <2>3 DEF RelayLagged, RelaySendFails, RelayDropped, TypeOK
<1>4. ASSUME NEW t \in Tasks, RelaySend(t) PROVE TypeOK'
  <2>1. t \in DOMAIN tasks /\ tasks[t] \in Task
    BY <1>4, RelayEntry DEF RelaySend
  <2>2. [tasks[t] EXCEPT !.holding = 0] \in Task
    BY <2>1 DEF Task
  <2>3. tasks' \in Seq(Task) /\ Len(tasks') = Len(tasks)
    BY <1>4, <2>1, <2>2, RelayEntry, UpdateTask
  <2>4. [key |-> tasks[t].key, n |-> tasks[t].holding, from |-> t] \in Frame
    BY <1>4, <2>1 DEF RelaySend, Task, Frame, Tasks
  <2>5. out' \in Seq(Frame) /\ Len(out') <= RelayBuffer
    BY <1>4, <2>4 DEF RelaySend, TypeOK
  <2> QED BY <1>4, <2>3, <2>5 DEF RelaySend, TypeOK
<1>7. CASE ReadChunk
  BY <1>7 DEF ReadChunk, TypeOK
<1>8. ASSUME NEW k \in Keys, HandleSubscribed(k) PROVE TypeOK'
  <2>1. Spawned(k) \in Task
    BY SpawnedTask
  <2>2. tasks' = Append(Abort(tasks, {relay_tasks[k]}), Spawned(k)) /\ Len(tasks) < MaxTasks
    BY <1>8 DEF HandleSubscribed, Spawned
  <2>3. tasks' \in Seq(Task) /\ Len(tasks') = Len(tasks) + 1
    BY <2>1, <2>2, AbortTasks, AppendProperties
  <2>4. Len(tasks) \in Nat
    BY DEF TypeOK
  <2>5. Len(tasks') <= MaxTasks /\ Len(tasks) + 1 \in 0..MaxTasks
    BY <2>2, <2>3, <2>4
  <2>6. relay_tasks' \in [Keys -> 0..MaxTasks]
    BY <1>8, <2>5 DEF HandleSubscribed, TypeOK
  <2>7. have' = 0 /\ 0 \in 0..Chunks /\ UNCHANGED <<main, skew, published, out, replay, heard>>
    BY <1>8 DEF HandleSubscribed
  <2> QED BY <2>3, <2>5, <2>6, <2>7 DEF TypeOK
<1>9. ASSUME NEW k \in Keys, HandleUnsubscribed(k) PROVE TypeOK'
  BY <1>9, AbortTasks DEF HandleUnsubscribed, TypeOK, Received
<1>10. ASSUME NEW k \in Keys, HandleReplayed(k) PROVE TypeOK'
  <2>1. PICK from \in 1..published[k] :
          replay' = [i \in 1..(published[k] - from + 1) |-> [key |-> k, n |-> from + i - 1, from |-> 0]]
    BY <1>10 DEF HandleReplayed
  <2>2. published[k] \in 0..MaxFrames
    BY DEF TypeOK
  <2>3. published[k] - from + 1 \in Nat
    BY <2>1, <2>2
  <2>4. \A i \in 1..(published[k] - from + 1) : [key |-> k, n |-> from + i - 1, from |-> 0] \in Frame
    BY <2>1, <2>2 DEF Frame
  <2>5. replay' \in Seq(Frame)
    BY <2>1, <2>3, <2>4
  <2>6. /\ have' = 0 /\ main' = "replaying"
        /\ UNCHANGED <<skew, published, tasks, relay_tasks, out, heard>>
    BY <1>10 DEF HandleReplayed
  <2>7. 0 \in 0..Chunks
    OBVIOUS
  <2> QED BY <2>5, <2>6, <2>7 DEF TypeOK
<1>11. CASE ReplaySend
  <2>1. replay \in Seq(Frame) /\ replay # << >> /\ out \in Seq(Frame) /\ Len(out) < RelayBuffer
    BY <1>11 DEF ReplaySend, TypeOK
  <2>2. Head(replay) \in Frame /\ Tail(replay) \in Seq(Frame)
    BY <2>1, HeadTailProperties
  <2>3. Append(out, Head(replay)) \in Seq(Frame) /\ Len(Append(out, Head(replay))) = Len(out) + 1 /\ Len(out) \in Nat
    BY <2>1, <2>2, AppendProperties
  <2>4. /\ out' = Append(out, Head(replay)) /\ replay' = Tail(replay)
        /\ UNCHANGED <<main, have, skew, published, tasks, relay_tasks, heard>>
    BY <1>11 DEF ReplaySend
  <2>5. Len(out') <= RelayBuffer
    BY <2>1, <2>3, <2>4
  <2> QED BY <2>2, <2>3, <2>4, <2>5 DEF TypeOK
<1>12. CASE ReplayDone
  BY <1>12 DEF ReplayDone, TypeOK
<1>13. CASE HandleNone
  BY <1>13 DEF HandleNone, TypeOK
<1>14. CASE WriteOut
  <2>1. out \in Seq(Frame) /\ Len(out) <= RelayBuffer /\ out # << >> /\ Len(out) \in Nat
    BY <1>14 DEF WriteOut, TypeOK
  <2>2. Head(out) \in Frame /\ Tail(out) \in Seq(Frame) /\ Len(Tail(out)) = Len(out) - 1
    BY <2>1, HeadTailProperties
  <2>3. heard' \in [Tasks -> Seq(1..MaxFrames)]
    <3>1. CASE Head(out).from = 0
      BY <1>14, <3>1 DEF WriteOut, TypeOK
    <3>2. CASE Head(out).from # 0
      <4>1. Head(out).from \in Tasks /\ Head(out).n \in 1..MaxFrames
        BY <2>2, <3>2 DEF Frame, Tasks
      <4>2. Append(heard[Head(out).from], Head(out).n) \in Seq(1..MaxFrames)
        BY <4>1 DEF TypeOK
      <4>3. heard' = [heard EXCEPT ![Head(out).from] = Append(heard[Head(out).from], Head(out).n)]
        BY <1>14, <3>2 DEF WriteOut
      <4> QED BY <4>1, <4>2, <4>3 DEF TypeOK
    <3> QED BY <3>1, <3>2
  <2>4. have' \in 0..Chunks /\ skew' \in 0..(Chunks - 1)
    <3>1. have \in 0..Chunks /\ skew \in 0..(Chunks - 1) /\ Chunks \in Nat \ {0}
      BY DEF TypeOK
    <3>2. (skew + have) % Chunks \in 0..(Chunks - 1)
      BY <3>1
    <3> QED BY <1>14, <3>1, <3>2 DEF WriteOut
  <2>5. out' \in Seq(Frame) /\ Len(out') <= RelayBuffer
    BY <1>14, <2>1, <2>2 DEF WriteOut
  <2>6. UNCHANGED <<main, published, tasks, relay_tasks, replay>>
    BY <1>14 DEF WriteOut
  <2> QED BY <2>3, <2>4, <2>5, <2>6 DEF TypeOK
<1>15. CASE Disconnect
  BY <1>15, AbortTasks DEF Disconnect, TypeOK
<1>16. CASE UNCHANGED vars
  BY <1>16 DEF vars, TypeOK
<1> QED BY <1>1, <1>2, <1>3, <1>4, <1>7, <1>8, <1>9, <1>10, <1>11, <1>12, <1>13,
          <1>14, <1>15, <1>16 DEF Next

-----------------------------------------------------------------------------
(* Feeds without gaps                                                      *)

\* A task whose next frame for the queue is the same, over the same queue.
LEMMA SameFeed ==
  ASSUME NEW t, FeedInv(t),
         tasks'[t].first = tasks[t].first, Pending(t)' = Pending(t),
         tasks'[t].holding \in {0, tasks'[t].next - 1}, heard'[t] = heard[t],
         main' # "closed" => main # "closed" /\ out' = out
  PROVE  FeedInv(t)'
<1>1. Awaited(t)' = Awaited(t)
  BY DEF Awaited
<1>2. main' # "closed" => QueueInv(t)'
  BY <1>1 DEF FeedInv, QueueInv, Queued
<1> QED BY <1>2 DEF FeedInv

\* The same for a step that leaves the entry of the task alone but for its status.
LEMMA UntouchedFeed ==
  ASSUME NEW t, FeedInv(t),
         tasks'[t].first = tasks[t].first, tasks'[t].next = tasks[t].next,
         tasks'[t].holding = tasks[t].holding, heard'[t] = heard[t],
         main' # "closed" => main # "closed" /\ out' = out
  PROVE  FeedInv(t)'
<1>1. Pending(t)' = Pending(t)
  BY DEF Pending
<1>2. tasks'[t].holding \in {0, tasks'[t].next - 1}
  BY DEF FeedInv
<1> QED BY <1>1, <1>2, SameFeed

\* What stands in the queue after a send.
LEMMA JoinQueue ==
  ASSUME TypeOK, NEW f \in Frame, out' = Append(out, f)
  PROVE  \A q \in DOMAIN out' : out'[q] = f \/ (q \in DOMAIN out /\ out'[q] = out[q])
<1>1. out \in Seq(Frame) /\ Len(out) \in Nat /\ DOMAIN out = 1..Len(out)
  BY DEF TypeOK
<1>2. /\ DOMAIN out' = 1..(Len(out) + 1)
      /\ \A p \in 1..Len(out) : out'[p] = out[p]
      /\ \A p \in DOMAIN out' : p = Len(out) + 1 => out'[p] = f
  BY <1>1, AppendProperties
<1> SUFFICES ASSUME NEW q \in DOMAIN out' PROVE out'[q] = f \/ (q \in DOMAIN out /\ out'[q] = out[q])
  OBVIOUS
<1>3. q = Len(out) + 1 \/ q \in 1..Len(out)
  BY <1>1, <1>2
<1>4. CASE q = Len(out) + 1
  BY <1>2, <1>4
<1>5. CASE q \in 1..Len(out)
  BY <1>1, <1>2, <1>5
<1> QED BY <1>3, <1>4, <1>5

\* A frame of somebody else joins the queue.
LEMMA OtherFrameJoins ==
  ASSUME TypeOK, NEW t, FeedInv(t), NEW f \in Frame, f.from # t,
         out' = Append(out, f), main # "closed", tasks'[t] = tasks[t], heard'[t] = heard[t]
  PROVE  FeedInv(t)'
<1>1. out \in Seq(Frame) /\ Len(out) \in Nat /\ DOMAIN out = 1..Len(out)
  BY DEF TypeOK
<1>2. /\ Len(out') = Len(out) + 1 /\ DOMAIN out' = 1..(Len(out) + 1)
      /\ \A p \in DOMAIN out : out'[p] = out[p]
      /\ out'[Len(out) + 1] = f
  BY <1>1, AppendProperties
<1>3. Queued(t)' = Queued(t) /\ \A p \in Queued(t) : out'[p] = out[p]
  BY <1>1, <1>2 DEF Queued
<1>4. Awaited(t)' = Awaited(t) /\ Pending(t)' = Pending(t)
  BY DEF Awaited, Pending
<1>5. QueueInv(t) => QueueInv(t)'
  <2> SUFFICES ASSUME QueueInv(t) PROVE QueueInv(t)'
    OBVIOUS
  <2>1. Awaited(t)' <= Pending(t)'
    BY <1>4 DEF QueueInv
  <2>2. \A p \in Queued(t)' : Awaited(t)' <= out'[p].n /\ out'[p].n < Pending(t)'
    <3> SUFFICES ASSUME NEW p \in Queued(t)' PROVE Awaited(t)' <= out'[p].n /\ out'[p].n < Pending(t)'
      OBVIOUS
    <3>1. p \in Queued(t) /\ out'[p] = out[p]
      BY <1>3
    <3>2. Awaited(t) <= out[p].n /\ out[p].n < Pending(t)
      BY <3>1 DEF QueueInv
    <3> QED BY <1>4, <3>1, <3>2
  <2>3. \A p, q \in Queued(t)' : p < q => out'[p].n < out'[q].n
    BY <1>3 DEF QueueInv
  <2>4. \A n \in Awaited(t)'..(Pending(t)' - 1) : \E p \in Queued(t)' : out'[p].n = n
    <3> SUFFICES ASSUME NEW n \in Awaited(t)'..(Pending(t)' - 1)
                 PROVE  \E p \in Queued(t)' : out'[p].n = n
      OBVIOUS
    <3>1. n \in Awaited(t)..(Pending(t) - 1)
      BY <1>4
    <3>2. PICK p \in Queued(t) : out[p].n = n
      BY <3>1 DEF QueueInv
    <3> QED BY <1>3, <3>2
  <2> QED BY <2>1, <2>2, <2>3, <2>4 DEF QueueInv
<1> QED BY <1>5 DEF FeedInv

\* The frame that a task holds joins the queue behind the task's others.
LEMMA OwnFrameJoins ==
  ASSUME ConnectionInv, NEW t \in DOMAIN tasks, RelaySend(t) PROVE FeedInv(t)'
<1>1. /\ tasks \in Seq(Task) /\ tasks[t] \in Task /\ FeedInv(t) /\ t \in Tasks
      /\ out \in Seq(Frame) /\ Len(out) \in Nat /\ DOMAIN out = 1..Len(out)
  BY Entries DEF ConnectionInv, TypeOK
<1>2. tasks'[t] = [tasks[t] EXCEPT !.holding = 0]
  <2>1. tasks' = [tasks EXCEPT ![t] = [tasks[t] EXCEPT !.holding = 0]]
    BY <1>1, RelayEntry DEF ConnectionInv
  <2> QED BY <1>1, <2>1
<1>3. /\ tasks[t].holding \in Nat \ {0} /\ tasks[t].next \in Nat /\ tasks[t].holding = tasks[t].next - 1
      /\ tasks[t].first \in Nat /\ main # "closed"
  BY <1>1 DEF RelaySend, FeedInv, Task
<1>4. Pending(t) = tasks[t].holding /\ Pending(t)' = tasks[t].holding + 1
  BY <1>1, <1>2, <1>3 DEF Pending, Task
<1>5. Awaited(t)' = Awaited(t) /\ tasks'[t].first = tasks[t].first /\ heard' = heard
  BY <1>1, <1>2 DEF Awaited, Task, RelaySend
<1>6. Len(heard[t]) \in Nat /\ Awaited(t) \in Nat
  BY <1>1, <1>3 DEF Awaited, ConnectionInv, TypeOK
<1> DEFINE f == [key |-> tasks[t].key, n |-> tasks[t].holding, from |-> t]
           e == Len(out) + 1
<1>7. /\ out' = Append(out, f) /\ e \in Nat
      /\ DOMAIN out' = 1..e
      /\ \A p \in DOMAIN out : out'[p] = out[p]
      /\ out'[e] = f
  BY <1>1, AppendProperties DEF RelaySend
<1>8. Queued(t)' = Queued(t) \cup {e} /\ out'[e].n = tasks[t].holding
      /\ \A p \in Queued(t) : out'[p] = out[p] /\ p \in Nat /\ p < e
  BY <1>1, <1>7 DEF Queued
<1>9. \A p \in Queued(t) : out[p].n \in Nat
  BY Entries DEF Queued, ConnectionInv
<1>10. QueueInv(t)
  BY <1>1, <1>3 DEF FeedInv
<1>11. QueueInv(t)'
  <2>1. Awaited(t)' <= Pending(t)'
    BY <1>3, <1>4, <1>5, <1>6, <1>10 DEF QueueInv
  <2>2. \A p \in Queued(t)' : Awaited(t)' <= out'[p].n /\ out'[p].n < Pending(t)'
    <3>1. ASSUME NEW p \in Queued(t)
          PROVE  Awaited(t)' <= out'[p].n /\ out'[p].n < Pending(t)'
      <4>1. Awaited(t) <= out[p].n /\ out[p].n < Pending(t) /\ out[p].n \in Nat /\ out'[p] = out[p]
        BY <1>8, <1>9, <1>10 DEF QueueInv
      <4> QED BY <1>3, <1>4, <1>5, <1>6, <4>1
    <3>2. Awaited(t)' <= out'[e].n /\ out'[e].n < Pending(t)'
      BY <1>3, <1>4, <1>5, <1>6, <1>8, <1>10 DEF QueueInv
    <3> QED BY <1>8, <3>1, <3>2
  <2>3. \A p, q \in Queued(t)' : p < q => out'[p].n < out'[q].n
    <3>1. ASSUME NEW p \in Queued(t), NEW q \in Queued(t), p < q PROVE out'[p].n < out'[q].n
      BY <1>8, <1>10, <3>1 DEF QueueInv
    <3>2. ASSUME NEW p \in Queued(t) PROVE out'[p].n < out'[e].n /\ ~(e < p)
      <4>1. p \in Nat /\ p < e /\ out'[p] = out[p] /\ out'[e].n = Pending(t)
        BY <1>4, <1>8
      <4>2. out[p].n < Pending(t)
        BY <1>10 DEF QueueInv
      <4>3. ~(e < p)
        BY <1>7, <4>1
      <4>4. out'[p].n < out'[e].n
        BY <4>1, <4>2
      <4> QED BY <4>3, <4>4
    <3>3. ~(e < e)
      BY <1>7
    <3> HIDE DEF e
    <3> QED BY <1>8, <3>1, <3>2, <3>3
  <2>4. \A n \in Awaited(t)'..(Pending(t)' - 1) : \E p \in Queued(t)' : out'[p].n = n
    <3> SUFFICES ASSUME NEW n \in Awaited(t)'..(Pending(t)' - 1)
                 PROVE  \E p \in Queued(t)' : out'[p].n = n
      OBVIOUS
    <3>1. CASE n = tasks[t].holding
      BY <1>8, <3>1
    <3>2. CASE n # tasks[t].holding
      <4>1. n \in Awaited(t)..(Pending(t) - 1)
        BY <1>3, <1>4, <1>5, <1>6, <3>2
      <4>2. PICK p \in Queued(t) : out[p].n = n
        BY <1>10, <4>1 DEF QueueInv
      <4> QED BY <1>8, <4>2
    <3> QED BY <3>1, <3>2
  <2> QED BY <2>1, <2>2, <2>3, <2>4 DEF QueueInv
<1>12. tasks'[t].holding = 0
  BY <1>1, <1>2 DEF Task
<1> QED BY <1>1, <1>5, <1>11, <1>12 DEF FeedInv

\* A frame of somebody else, or of REPLAY, leaves the queue.
LEMMA OtherFrameLeaves ==
  ASSUME TypeOK, NEW t, FeedInv(t), WriteOut, Head(out).from # t, heard'[t] = heard[t]
  PROVE  FeedInv(t)'
<1>1. out \in Seq(Frame) /\ Len(out) \in Nat \ {0} /\ DOMAIN out = 1..Len(out) /\ out' = Tail(out)
  BY DEF TypeOK, WriteOut
<1>2. /\ Len(out') = Len(out) - 1 /\ DOMAIN out' = 1..(Len(out) - 1) /\ Head(out) = out[1]
      /\ \A p \in 1..(Len(out) - 1) : out'[p] = out[p + 1]
  BY <1>1, HeadTailProperties
<1>3. \A p \in Queued(t) : p \in Nat /\ p - 1 \in Queued(t)' /\ out'[p - 1] = out[p]
  BY <1>1, <1>2 DEF Queued
<1>4. \A p \in Queued(t)' : p \in Nat /\ p + 1 \in Queued(t) /\ out'[p] = out[p + 1]
  BY <1>1, <1>2 DEF Queued
<1>5. Awaited(t)' = Awaited(t) /\ Pending(t)' = Pending(t) /\ tasks' = tasks /\ main' = main
  BY DEF Awaited, Pending, WriteOut
<1>6. QueueInv(t) => QueueInv(t)'
  <2> SUFFICES ASSUME QueueInv(t) PROVE QueueInv(t)'
    OBVIOUS
  <2>1. \A p \in Queued(t)' : Awaited(t)' <= out'[p].n /\ out'[p].n < Pending(t)'
    BY <1>4, <1>5 DEF QueueInv
  <2>2. \A p, q \in Queued(t)' : p < q => out'[p].n < out'[q].n
    BY <1>4 DEF QueueInv
  <2>3. \A n \in Awaited(t)'..(Pending(t)' - 1) : \E p \in Queued(t)' : out'[p].n = n
    BY <1>3, <1>5 DEF QueueInv
  <2> QED BY <1>5, <2>1, <2>2, <2>3 DEF QueueInv
<1> QED BY <1>5, <1>6 DEF FeedInv

\* A frame of task t leaves the queue: it is the one the client waits for.
LEMMA OwnFrameLeaves ==
  ASSUME ConnectionInv, NEW t \in DOMAIN tasks, WriteOut, Head(out).from = t
  PROVE  FeedInv(t)'
<1>1. out \in Seq(Frame) /\ Len(out) \in Nat \ {0} /\ DOMAIN out = 1..Len(out) /\ out' = Tail(out)
  BY DEF ConnectionInv, TypeOK, WriteOut
<1>2. /\ Len(out') = Len(out) - 1 /\ DOMAIN out' = 1..(Len(out) - 1) /\ Head(out) = out[1]
      /\ \A p \in 1..(Len(out) - 1) : out'[p] = out[p + 1]
  BY <1>1, HeadTailProperties
<1>3. /\ tasks \in Seq(Task) /\ tasks[t] \in Task /\ FeedInv(t) /\ t \in Tasks /\ t # 0
      /\ tasks' = tasks /\ main = "select" /\ main' = main
  BY Entries DEF ConnectionInv, TypeOK, WriteOut
<1>4. heard[t] \in Seq(1..MaxFrames) /\ Len(heard[t]) \in Nat /\ heard'[t] = Append(heard[t], out[1].n)
  BY <1>2, <1>3 DEF ConnectionInv, TypeOK, WriteOut
<1>5. \A p \in Queued(t) : p \in Nat \ {0} /\ out[p].n \in Nat
  BY Entries DEF Queued, ConnectionInv
<1>6. /\ tasks[t].first \in Nat /\ Awaited(t) \in Nat /\ Pending(t) \in Nat
      /\ QueueInv(t) /\ 1 \in Queued(t)
  BY <1>1, <1>2, <1>3, Entries DEF FeedInv, Queued, ConnectionInv
<1>7. out[1].n = Awaited(t)
  <2>1. Awaited(t) <= out[1].n /\ out[1].n < Pending(t) /\ out[1].n \in Nat
    BY <1>5, <1>6 DEF QueueInv
  <2>2. PICK p \in Queued(t) : out[p].n = Awaited(t)
    BY <1>6, <2>1 DEF QueueInv
  <2>3. p # 1 => out[1].n < out[p].n
    BY <1>5, <1>6 DEF QueueInv
  <2> QED BY <1>6, <2>1, <2>2, <2>3
<1>8. /\ Len(heard'[t]) = Len(heard[t]) + 1 /\ DOMAIN heard'[t] = 1..(Len(heard[t]) + 1)
      /\ \A i \in 1..Len(heard[t]) : heard'[t][i] = heard[t][i]
      /\ heard'[t][Len(heard[t]) + 1] = Awaited(t)
  BY <1>3, <1>4, <1>5, <1>6, <1>7, AppendProperties
<1>9. Awaited(t)' = Awaited(t) + 1 /\ Pending(t)' = Pending(t)
  <2>1. Pending(t)' = Pending(t)
    BY <1>3 DEF Pending
  <2>2. Awaited(t)' = tasks[t].first + (Len(heard[t]) + 1)
    BY <1>3, <1>8 DEF Awaited
  <2> QED BY <1>4, <1>6, <2>1, <2>2 DEF Awaited
<1>10. \A p \in Queued(t) : p # 1 => p - 1 \in Queued(t)' /\ out'[p - 1] = out[p]
  BY <1>1, <1>2 DEF Queued
<1>11. \A p \in Queued(t)' : p \in Nat \ {0} /\ p + 1 \in Queued(t) /\ out'[p] = out[p + 1]
  BY <1>1, <1>2 DEF Queued
<1>12. QueueInv(t)'
  <2>1. \A p \in Queued(t)' : Awaited(t)' <= out'[p].n /\ out'[p].n < Pending(t)'
    <3> SUFFICES ASSUME NEW p \in Queued(t)' PROVE Awaited(t)' <= out'[p].n /\ out'[p].n < Pending(t)'
      OBVIOUS
    <3>1. p + 1 \in Queued(t) /\ 1 < p + 1 /\ out'[p] = out[p + 1]
      BY <1>11
    <3>2. out[1].n < out[p + 1].n /\ out[p + 1].n < Pending(t)
      BY <1>6, <3>1 DEF QueueInv
    <3> QED BY <1>5, <1>6, <1>7, <1>9, <3>1, <3>2
  <2>2. \A p, q \in Queued(t)' : p < q => out'[p].n < out'[q].n
    BY <1>6, <1>11 DEF QueueInv
  <2>3. \A n \in Awaited(t)'..(Pending(t)' - 1) : \E p \in Queued(t)' : out'[p].n = n
    <3> SUFFICES ASSUME NEW n \in Awaited(t)'..(Pending(t)' - 1)
                 PROVE  \E p \in Queued(t)' : out'[p].n = n
      OBVIOUS
    <3>1. n \in Awaited(t)..(Pending(t) - 1) /\ n # Awaited(t)
      BY <1>6, <1>9
    <3>2. PICK p \in Queued(t) : out[p].n = n
      BY <1>6, <3>1 DEF QueueInv
    <3> QED BY <1>7, <1>10, <3>1, <3>2
  <2>4. Awaited(t)' <= Pending(t)'
    <3>1. Awaited(t) < Pending(t)
      BY <1>6, <1>7 DEF QueueInv
    <3> QED BY <1>6, <1>9, <3>1
  <2> QED BY <2>1, <2>2, <2>3, <2>4 DEF QueueInv
<1>13. \A i \in DOMAIN heard'[t] : heard'[t][i] = tasks'[t].first + i - 1
  <2>1. \A i \in 1..Len(heard[t]) : heard[t][i] = tasks[t].first + i - 1
    BY <1>3, <1>4 DEF FeedInv
  <2>2. Awaited(t) = tasks[t].first + (Len(heard[t]) + 1) - 1
    BY <1>4, <1>6 DEF Awaited
  <2> QED BY <1>3, <1>4, <1>8, <2>1, <2>2
<1> QED BY <1>3, <1>12, <1>13 DEF FeedInv

\* A SUB spawns a task that has nothing in the queue, and changes the others' status only.
LEMMA SubscribeFeed ==
  ASSUME ConnectionInv, NEW k \in Keys, HandleSubscribed(k), NEW t \in DOMAIN tasks'
  PROVE  FeedInv(t)'
<1> DEFINE a == Abort(tasks, {relay_tasks[k]})
<1>1. /\ a \in Seq(Task) /\ Len(a) = Len(tasks) /\ Len(tasks) \in Nat /\ DOMAIN tasks = 1..Len(tasks)
      /\ Len(tasks) < MaxTasks /\ MaxTasks \in Nat
  <2>1. a \in Seq(Task) /\ Len(a) = Len(tasks)
    BY AbortTasks DEF ConnectionInv
  <2>2. Len(tasks) \in Nat /\ DOMAIN tasks = 1..Len(tasks)
    BY DEF ConnectionInv, TypeOK
  <2>3. Len(tasks) < MaxTasks /\ MaxTasks \in Nat
    BY ConnectionAssumption DEF HandleSubscribed
  <2> QED BY <2>1, <2>2, <2>3
<1>2. Spawned(k) \in Task
  BY SpawnedTask DEF ConnectionInv
<1>3. tasks' = Append(a, Spawned(k)) /\ main' = main /\ main = "select" /\ out' = out /\ heard' = heard
  BY DEF HandleSubscribed, Spawned, Received
<1> HIDE DEF a
<1>4. /\ DOMAIN tasks' = 1..(Len(tasks) + 1) /\ tasks'[Len(tasks) + 1] = Spawned(k)
      /\ \A u \in 1..Len(tasks) : tasks'[u] = a[u]
  BY <1>1, <1>2, <1>3, AppendProperties
<1>5. CASE t \in DOMAIN tasks
  <2>1. /\ tasks'[t].first = tasks[t].first /\ tasks'[t].next = tasks[t].next
        /\ tasks'[t].holding = tasks[t].holding
    BY <1>1, <1>4, <1>5, AbortTasks DEF ConnectionInv, a
  <2>2. FeedInv(t)
    BY <1>5 DEF ConnectionInv
  <2> QED BY <1>3, <2>1, <2>2, UntouchedFeed
<1>6. CASE t \notin DOMAIN tasks
  <2>1. t = Len(tasks) + 1 /\ t \in Tasks /\ t > Len(tasks) /\ tasks'[t] = Spawned(k)
    BY <1>1, <1>4, <1>6 DEF Tasks
  <2>2. heard'[t] = << >>
    BY <1>3, <2>1 DEF ConnectionInv, OriginInv
  <2>3. Queued(t)' = {}
    <3>1. \A q \in DOMAIN out : out[q].from <= Len(tasks) /\ out[q].from \in Nat
      BY Entries, ConnectionAssumption DEF ConnectionInv, OriginInv, Frame
    <3> QED BY <1>1, <1>3, <2>1, <3>1 DEF Queued
  <2>4. published[k] \in Nat
    BY ConnectionAssumption DEF ConnectionInv, TypeOK
  <2>5. /\ tasks'[t].holding = 0 /\ tasks'[t].first = published[k] + 1
        /\ tasks'[t].next = published[k] + 1
    BY <2>1 DEF Spawned
  <2>6. Awaited(t)' = published[k] + 1 /\ Pending(t)' = published[k] + 1
    BY <2>2, <2>4, <2>5 DEF Awaited, Pending
  <2>7. QueueInv(t)'
    BY <2>3, <2>4, <2>6 DEF QueueInv
  <2> QED BY <2>2, <2>5, <2>7 DEF FeedInv
<1> QED BY <1>5, <1>6

\* No step opens a gap in a feed.
LEMMA FeedStep ==
  ASSUME ConnectionInv, [Next]_vars, NEW t \in DOMAIN tasks' PROVE FeedInv(t)'
<1> USE DEF inbound
<1>1. TypeOK /\ \A u \in DOMAIN tasks : FeedInv(u)
  BY DEF ConnectionInv
<1>2. tasks \in Seq(Task) /\ DOMAIN tasks = 1..Len(tasks) /\ Len(tasks) \in Nat
  BY DEF ConnectionInv, TypeOK
<1>3. CASE UNCHANGED <<tasks, heard, out, main>>
  BY <1>1, <1>3, UntouchedFeed
<1>4. ASSUME NEW u \in Tasks, RelayRecv(u) PROVE FeedInv(t)'
  <2>1. u \in DOMAIN tasks /\ tasks[u] \in Task /\ tasks[u].holding = 0 /\ tasks[u].next \in Nat \ {0}
    BY <1>1, <1>4, Entries, RelayEntry DEF RelayRecv
  <2>2. tasks' = [tasks EXCEPT ![u] = [tasks[u] EXCEPT !.holding = tasks[u].next, !.next = tasks[u].next + 1]]
    BY <1>1, <1>4, RelayEntry
  <2>3. t \in DOMAIN tasks /\ FeedInv(t) /\ heard' = heard /\ out' = out /\ main' = main
    BY <1>1, <1>4, <2>2 DEF RelayRecv
  <2>4. CASE t # u
    <3>1. tasks'[t] = tasks[t]
      BY <2>2, <2>3, <2>4
    <3> QED BY <2>3, <3>1, UntouchedFeed
  <2>5. CASE t = u
    <3>1. /\ tasks'[t].holding = tasks[t].next /\ tasks'[t].next = tasks[t].next + 1
          /\ tasks'[t].first = tasks[t].first
      BY <2>1, <2>2, <2>5 DEF Task
    <3>2. Pending(t)' = Pending(t)
      BY <2>1, <2>5, <3>1 DEF Pending
    <3>3. tasks'[t].holding = tasks'[t].next - 1
      BY <2>1, <2>5, <3>1
    <3> QED BY <2>3, <3>1, <3>2, <3>3, SameFeed
  <2> QED BY <2>4, <2>5
<1>5. ASSUME NEW u \in Tasks, RelayLagged(u) \/ RelaySendFails(u) \/ RelayDropped(u) PROVE FeedInv(t)'
  <2>1. u \in DOMAIN tasks /\ tasks[u] \in Task
    BY <1>1, <1>5, RelayEntry DEF RelayLagged, RelaySendFails, RelayDropped
  <2>2. tasks' = [tasks EXCEPT ![u] = [tasks[u] EXCEPT !.status = "ended"]]
    BY <1>1, <1>5, RelayEntry
  <2>3. t \in DOMAIN tasks /\ FeedInv(t) /\ heard' = heard /\ out' = out /\ main' = main
    BY <1>1, <1>5, <2>2 DEF RelayLagged, RelaySendFails, RelayDropped
  <2>4. /\ tasks'[t].holding = tasks[t].holding /\ tasks'[t].next = tasks[t].next
        /\ tasks'[t].first = tasks[t].first
    BY <2>1, <2>2, <2>3 DEF Task
  <2> QED BY <2>3, <2>4, UntouchedFeed
<1>6. ASSUME NEW u \in Tasks, RelaySend(u) PROVE FeedInv(t)'
  <2>1. u \in DOMAIN tasks /\ tasks[u] \in Task
    BY <1>1, <1>6, RelayEntry DEF RelaySend
  <2>2. tasks' = [tasks EXCEPT ![u] = [tasks[u] EXCEPT !.holding = 0]]
    BY <1>1, <1>6, RelayEntry
  <2> DEFINE f == [key |-> tasks[u].key, n |-> tasks[u].holding, from |-> u]
  <2>3. t \in DOMAIN tasks /\ FeedInv(t) /\ heard' = heard /\ out' = Append(out, f) /\ main # "closed"
    BY <1>1, <1>6, <2>2 DEF RelaySend
  <2>4. CASE t = u
    BY <1>6, <2>1, <2>4, OwnFrameJoins
  <2>5. CASE t # u
    <3>1. tasks'[t] = tasks[t]
      BY <2>2, <2>3, <2>5
    <3>2. f \in Frame
      BY <1>6, <2>1, ConnectionAssumption DEF RelaySend, Task, Frame, Tasks
    <3>3. f.from # t
      BY <2>5
    <3> HIDE DEF f
    <3> QED BY <1>1, <2>3, <3>1, <3>2, <3>3, OtherFrameJoins
  <2> QED BY <2>4, <2>5
<1>7. ASSUME NEW k \in Keys, HandleSubscribed(k) PROVE FeedInv(t)'
  BY <1>7, SubscribeFeed
<1>8. ASSUME NEW S, tasks' = Abort(tasks, S), heard' = heard,
             main' # "closed" => main # "closed" /\ out' = out
      PROVE  FeedInv(t)'
  <2>1. t \in DOMAIN tasks /\ FeedInv(t)
    BY <1>1, <1>8 DEF Abort
  <2>2. /\ tasks'[t].holding = tasks[t].holding /\ tasks'[t].next = tasks[t].next
        /\ tasks'[t].first = tasks[t].first
    BY <1>1, <1>2, <1>8, <2>1, AbortTasks
  <2> QED BY <1>8, <2>1, <2>2, UntouchedFeed
<1>9. ASSUME NEW k \in Keys, HandleUnsubscribed(k) PROVE FeedInv(t)'
  BY <1>8, <1>9 DEF HandleUnsubscribed
<1>10. ASSUME NEW k \in Keys, HandleReplayed(k) PROVE FeedInv(t)'
  <2>1. UNCHANGED <<tasks, heard, out>> /\ main = "select" /\ t \in DOMAIN tasks
    BY <1>10 DEF HandleReplayed, Received
  <2>2. FeedInv(t)
    BY <1>1, <2>1
  <2> QED BY <2>1, <2>2, UntouchedFeed
<1>11. CASE ReplaySend
  <2>1. /\ UNCHANGED <<tasks, heard, main>> /\ out' = Append(out, Head(replay)) /\ main # "closed"
        /\ replay \in Seq(Frame) /\ replay # << >>
    BY <1>1, <1>11 DEF ReplaySend, TypeOK
  <2>2. Head(replay) \in Frame /\ Head(replay) = replay[1] /\ 1 \in DOMAIN replay
    BY <2>1, HeadTailProperties
  <2>3. Head(replay).from = 0
    BY <2>2 DEF ConnectionInv, OriginInv
  <2>4. t \in DOMAIN tasks /\ FeedInv(t) /\ t # 0
    BY <1>1, <1>2, <2>1
  <2> QED BY <1>1, <2>1, <2>2, <2>3, <2>4, OtherFrameJoins
<1>12. CASE ReplayDone
  <2>1. UNCHANGED <<tasks, heard, out>> /\ main = "replaying" /\ t \in DOMAIN tasks
    BY <1>12 DEF ReplayDone
  <2>2. FeedInv(t)
    BY <1>1, <2>1
  <2> QED BY <2>1, <2>2, UntouchedFeed
<1>13. CASE WriteOut
  <2>1. t \in DOMAIN tasks /\ FeedInv(t) /\ t \in Tasks
    BY <1>1, <1>13, Entries DEF WriteOut
  <2>2. CASE Head(out).from = t
    BY <1>13, <2>1, <2>2, OwnFrameLeaves
  <2>3. CASE Head(out).from # t
    <3>1. heard'[t] = heard[t]
      BY <1>1, <1>13, <2>1, <2>3 DEF WriteOut, TypeOK
    <3> QED BY <1>1, <1>13, <2>1, <2>3, <3>1, OtherFrameLeaves
  <2> QED BY <2>2, <2>3
<1>14. CASE Disconnect
  BY <1>8, <1>14 DEF Disconnect
<1>15. ASSUME NEW k \in Keys, Publish(k) PROVE FeedInv(t)'
  BY <1>3, <1>15 DEF Publish
<1>16. CASE ReadChunk \/ HandleNone \/ UNCHANGED vars
  BY <1>3, <1>16 DEF ReadChunk, HandleNone, vars
<1> QED BY <1>4, <1>5, <1>6, <1>7, <1>9, <1>10, <1>11, <1>12, <1>13, <1>14, <1>15, <1>16 DEF Next

-----------------------------------------------------------------------------
(* Where frames come from                                                  *)

\* Every frame on its way was put there by a task that was spawned, or by REPLAY.
LEMMA OriginStep == ConnectionInv /\ [Next]_vars => OriginInv'
<1> SUFFICES ASSUME ConnectionInv, [Next]_vars PROVE OriginInv'
  OBVIOUS
<1> USE DEF inbound
<1>1. TypeOK /\ OriginInv /\ TypeOK'
  BY TypeStep DEF ConnectionInv
<1>2. /\ tasks \in Seq(Task) /\ DOMAIN tasks = 1..Len(tasks) /\ Len(tasks) \in Nat
      /\ out \in Seq(Frame) /\ DOMAIN out = 1..Len(out) /\ Len(out) \in Nat
      /\ replay \in Seq(Frame) /\ DOMAIN replay = 1..Len(replay) /\ Len(replay) \in Nat
  BY <1>1 DEF TypeOK
<1>3. CASE /\ Len(tasks') = Len(tasks) /\ heard' = heard
           /\ out' = out \/ out' = << >>
           /\ replay' = replay
  BY <1>1, <1>3 DEF OriginInv
<1>4. ASSUME NEW u \in Tasks, RelayRecv(u) \/ RelayLagged(u) \/ RelaySendFails(u) \/ RelayDropped(u)
      PROVE  OriginInv'
  <2>1. Len(tasks') = Len(tasks)
    BY <1>2, <1>4 DEF RelayRecv, RelayLagged, RelaySendFails, RelayDropped
  <2> QED BY <1>3, <1>4, <2>1 DEF RelayRecv, RelayLagged, RelaySendFails, RelayDropped
<1>5. ASSUME NEW u \in Tasks, RelaySend(u) PROVE OriginInv'
  <2>1. Len(tasks') = Len(tasks) /\ u <= Len(tasks) /\ UNCHANGED <<heard, replay>>
    BY <1>2, <1>5 DEF RelaySend, Alive
  <2> DEFINE f == [key |-> tasks[u].key, n |-> tasks[u].holding, from |-> u]
  <2>2. out' = Append(out, f)
    BY <1>5 DEF RelaySend
  <2>3. \A q \in DOMAIN out' : out'[q] = f \/ (q \in DOMAIN out /\ out'[q] = out[q])
    <3>1. tasks[u] \in Task
      BY <1>1, <1>5, RelayEntry DEF RelaySend
    <3>2. f \in Frame
      <4>1. tasks[u].key \in Keys /\ tasks[u].holding \in 0..MaxFrames /\ tasks[u].holding # 0
        BY <1>5, <3>1 DEF RelaySend, Task
      <4>2. tasks[u].holding \in 1..MaxFrames /\ u \in 0..MaxTasks
        BY <4>1, ConnectionAssumption DEF Tasks
      <4> QED BY <4>1, <4>2 DEF Frame
    <3> HIDE DEF f
    <3> QED BY <1>1, <2>2, <3>2, JoinQueue
  <2>4. \A q \in DOMAIN out' : out'[q].from <= Len(tasks')
    BY <1>1, <2>1, <2>3 DEF OriginInv
  <2> QED BY <1>1, <2>1, <2>4 DEF OriginInv
<1>6. ASSUME NEW k \in Keys, HandleSubscribed(k) PROVE OriginInv'
  <2>1. Len(tasks') = Len(tasks) + 1 /\ UNCHANGED <<heard, replay, out>>
    BY <1>1, <1>2, <1>6, AbortTasks DEF HandleSubscribed
  <2>2. \A q \in DOMAIN out : out[q].from \in Nat /\ out[q].from <= Len(tasks)
    BY <1>1, Entries, ConnectionAssumption DEF OriginInv, Frame
  <2> QED BY <1>1, <1>2, <2>1, <2>2 DEF OriginInv, Tasks
<1>7. ASSUME NEW k \in Keys, HandleUnsubscribed(k) PROVE OriginInv'
  BY <1>1, <1>3, <1>7, AbortTasks DEF HandleUnsubscribed
<1>8. ASSUME NEW k \in Keys, HandleReplayed(k) PROVE OriginInv'
  <2>1. UNCHANGED <<tasks, out, heard>>
    BY <1>8 DEF HandleReplayed
  <2>2. \A q \in DOMAIN replay' : replay'[q].from = 0
    BY <1>8 DEF HandleReplayed
  <2> QED BY <1>1, <2>1, <2>2 DEF OriginInv
<1>9. CASE ReplaySend
  <2>1. /\ UNCHANGED <<tasks, heard>> /\ out' = Append(out, Head(replay)) /\ replay' = Tail(replay)
        /\ replay # << >>
    BY <1>9 DEF ReplaySend
  <2>2. Head(replay) \in Frame /\ Head(replay) = replay[1] /\ 1 \in DOMAIN replay
    BY <1>2, <2>1, HeadTailProperties
  <2>3. Head(replay).from = 0
    BY <1>1, <2>2 DEF OriginInv
  <2>4. \A q \in DOMAIN out' : out'[q] = Head(replay) \/ (q \in DOMAIN out /\ out'[q] = out[q])
    BY <1>1, <2>1, <2>2, JoinQueue
  <2>5. \A q \in DOMAIN out' : out'[q].from <= Len(tasks')
    BY <1>1, <1>2, <2>1, <2>3, <2>4 DEF OriginInv
  <2>6. \A q \in DOMAIN replay' : q + 1 \in DOMAIN replay /\ replay'[q] = replay[q + 1]
    BY <1>2, <2>1, HeadTailProperties
  <2>7. \A q \in DOMAIN replay' : replay'[q].from = 0
    BY <1>1, <2>6 DEF OriginInv
  <2> QED BY <1>1, <2>1, <2>5, <2>7 DEF OriginInv
<1>10. CASE WriteOut
  <2>1. UNCHANGED <<tasks, replay>> /\ out' = Tail(out) /\ out # << >>
    BY <1>10 DEF WriteOut
  <2>2. \A q \in DOMAIN out' : q + 1 \in DOMAIN out /\ out'[q] = out[q + 1]
    BY <1>2, <2>1, HeadTailProperties
  <2>3. \A q \in DOMAIN out' : out'[q].from <= Len(tasks')
    BY <1>1, <2>1, <2>2 DEF OriginInv
  <2>4. Head(out) = out[1] /\ 1 \in DOMAIN out
    BY <1>2, <2>1, HeadTailProperties
  <2>5. Head(out).from <= Len(tasks) /\ Head(out).from \in Nat
    BY <1>1, <2>4, Entries, ConnectionAssumption DEF OriginInv, Frame
  <2>6. \A t \in Tasks : t > Len(tasks) => heard'[t] = heard[t]
    BY <1>1, <1>2, <1>10, <2>5 DEF WriteOut, TypeOK, Tasks
  <2> QED BY <1>1, <2>1, <2>3, <2>6 DEF OriginInv
<1>11. CASE Disconnect
  BY <1>1, <1>3, <1>11, AbortTasks DEF Disconnect
<1>12. ASSUME NEW k \in Keys, Publish(k) PROVE OriginInv'
  BY <1>3, <1>12 DEF Publish
<1>13. CASE ReadChunk \/ HandleNone \/ ReplayDone \/ UNCHANGED vars
  BY <1>3, <1>13 DEF ReadChunk, HandleNone, ReplayDone, vars
<1> QED BY <1>4, <1>5, <1>6, <1>7, <1>8, <1>9, <1>10, <1>11, <1>12, <1>13 DEF Next

-----------------------------------------------------------------------------
(* One relay per key                                                       *)

\* A step leaves a key with at most one relay that nobody has aborted.
LEMMA RelayStep == ConnectionInv /\ [Next]_vars => OneRelayPerKey'
<1> SUFFICES ASSUME ConnectionInv, [Next]_vars PROVE OneRelayPerKey'
  OBVIOUS
<1> USE DEF inbound
<1>1. /\ TypeOK /\ OneRelayPerKey
      /\ tasks \in Seq(Task) /\ DOMAIN tasks = 1..Len(tasks) /\ Len(tasks) \in Nat
  BY DEF ConnectionInv, TypeOK
<1>2. ASSUME relay_tasks' = relay_tasks, main' # "closed" => main # "closed",
             \A t \in DOMAIN tasks' : /\ t \in DOMAIN tasks /\ tasks'[t].key = tasks[t].key
                                      /\ tasks'[t].status = "running" => tasks[t].status = "running"
      PROVE  OneRelayPerKey'
  BY <1>1, <1>2 DEF OneRelayPerKey
<1>3. ASSUME NEW u \in Tasks,
             RelayRecv(u) \/ RelayLagged(u) \/ RelaySendFails(u) \/ RelayDropped(u) \/ RelaySend(u)
      PROVE  OneRelayPerKey'
  <2>1. u \in DOMAIN tasks /\ tasks[u] \in Task
    BY <1>1, <1>3, RelayEntry DEF RelayRecv, RelayLagged, RelaySendFails, RelayDropped, RelaySend
  <2>2. \/ tasks' = [tasks EXCEPT ![u] = [tasks[u] EXCEPT !.holding = tasks[u].next, !.next = tasks[u].next + 1]]
        \/ tasks' = [tasks EXCEPT ![u] = [tasks[u] EXCEPT !.status = "ended"]]
        \/ tasks' = [tasks EXCEPT ![u] = [tasks[u] EXCEPT !.holding = 0]]
    BY <1>1, <1>3, RelayEntry
  <2>3. \A t \in DOMAIN tasks' : /\ t \in DOMAIN tasks /\ tasks'[t].key = tasks[t].key
                                 /\ tasks'[t].status = "running" => tasks[t].status = "running"
    <3> SUFFICES ASSUME NEW t \in DOMAIN tasks'
                 PROVE  /\ t \in DOMAIN tasks /\ tasks'[t].key = tasks[t].key
                        /\ tasks'[t].status = "running" => tasks[t].status = "running"
      OBVIOUS
    <3>1. t \in DOMAIN tasks
      BY <2>2
    <3>2. CASE t # u
      <4>1. tasks'[t] = tasks[t]
        BY <2>2, <3>1, <3>2
      <4> QED BY <3>1, <4>1
    <3>3. CASE t = u
      BY <2>1, <2>2, <3>3 DEF Task
    <3> QED BY <3>2, <3>3
  <2>4. relay_tasks' = relay_tasks /\ main' = main
    BY <1>3 DEF RelayRecv, RelayLagged, RelaySendFails, RelayDropped, RelaySend
  <2> QED BY <1>2, <2>3, <2>4
<1>4. ASSUME NEW k \in Keys, HandleSubscribed(k) PROVE OneRelayPerKey'
  <2> DEFINE a == Abort(tasks, {relay_tasks[k]})
  <2>1. /\ a \in Seq(Task) /\ Len(a) = Len(tasks)
        /\ \A t \in DOMAIN tasks :
             /\ a[t].key = tasks[t].key
             /\ a[t].status = "running" => tasks[t].status = "running" /\ t # relay_tasks[k]
    BY <1>1, AbortTasks
  <2>2. Spawned(k) \in Task /\ Spawned(k).key = k
    <3>1. Spawned(k) \in Task
      BY <1>1, SpawnedTask
    <3> QED BY <3>1 DEF Spawned
  <2>3. /\ tasks' = Append(a, Spawned(k)) /\ main = "select"
        /\ relay_tasks' = [relay_tasks EXCEPT ![k] = Len(tasks) + 1]
    BY <1>4 DEF HandleSubscribed, Spawned, Received
  <2> HIDE DEF a
  <2>4. /\ DOMAIN tasks' = 1..(Len(tasks) + 1) /\ tasks'[Len(tasks) + 1] = Spawned(k)
        /\ \A u \in 1..Len(tasks) : tasks'[u] = a[u]
    BY <1>1, <2>1, <2>2, <2>3, AppendProperties
  <2>5. ASSUME NEW t \in DOMAIN tasks', tasks'[t].status = "running" PROVE relay_tasks'[tasks'[t].key] = t
    <3>1. CASE t \in DOMAIN tasks
      <4>1. /\ tasks[t].status = "running" /\ t # relay_tasks[k] /\ tasks'[t].key = tasks[t].key
            /\ tasks[t].key \in Keys
        BY <1>1, <2>1, <2>4, <2>5, <3>1, Entries DEF Task
      <4>2. relay_tasks[tasks[t].key] = t
        BY <1>1, <2>3, <3>1, <4>1 DEF OneRelayPerKey
      <4> QED BY <1>1, <2>3, <4>1, <4>2 DEF TypeOK
    <3>2. CASE t \notin DOMAIN tasks
      <4>1. t = Len(tasks) + 1
        BY <1>1, <2>4, <2>5, <3>2
      <4> QED BY <1>1, <2>2, <2>3, <2>4, <4>1 DEF TypeOK
    <3> QED BY <3>1, <3>2
  <2> QED BY <2>5 DEF OneRelayPerKey
<1>5. ASSUME NEW k \in Keys, HandleUnsubscribed(k) PROVE OneRelayPerKey'
  <2>1. tasks' = Abort(tasks, {relay_tasks[k]}) /\ relay_tasks' = [relay_tasks EXCEPT ![k] = 0]
        /\ main = "select"
    BY <1>5 DEF HandleUnsubscribed, Received
  <2>2. /\ DOMAIN tasks' = DOMAIN tasks
        /\ \A t \in DOMAIN tasks :
             /\ tasks'[t].key = tasks[t].key
             /\ tasks'[t].status = "running" => tasks[t].status = "running" /\ t # relay_tasks[k]
    BY <1>1, <2>1, AbortTasks DEF Abort
  <2>3. ASSUME NEW t \in DOMAIN tasks, tasks'[t].status = "running" PROVE relay_tasks'[tasks'[t].key] = t
    <3>1. /\ tasks[t].status = "running" /\ t # relay_tasks[k] /\ tasks'[t].key = tasks[t].key
          /\ tasks[t].key \in Keys
      BY <1>1, <2>2, <2>3, Entries DEF Task
    <3>2. relay_tasks[tasks[t].key] = t
      BY <1>1, <2>1, <3>1 DEF OneRelayPerKey
    <3> QED BY <1>1, <2>1, <3>1, <3>2 DEF TypeOK
  <2> QED BY <2>2, <2>3 DEF OneRelayPerKey
<1>6. CASE Disconnect
  BY <1>6 DEF Disconnect, OneRelayPerKey
<1>7. ASSUME NEW k \in Keys, Publish(k) \/ HandleReplayed(k) PROVE OneRelayPerKey'
  BY <1>1, <1>7 DEF Publish, HandleReplayed, Received, OneRelayPerKey
<1>8. CASE ReadChunk \/ HandleNone \/ ReplaySend \/ ReplayDone \/ WriteOut \/ UNCHANGED vars
  BY <1>1, <1>8 DEF ReadChunk, HandleNone, ReplaySend, ReplayDone, WriteOut, vars, OneRelayPerKey
<1> QED BY <1>3, <1>4, <1>5, <1>6, <1>7, <1>8 DEF Next

-----------------------------------------------------------------------------

\* The strengthened invariant holds in every state of a connection.
THEOREM ConnectionInvariant == Spec => []ConnectionInv
<1>1. Init => ConnectionInv
  BY TypeInit DEF Init, ConnectionInv, OriginInv, OneRelayPerKey
<1>2. ConnectionInv /\ [Next]_vars => ConnectionInv'
  <2> SUFFICES ASSUME ConnectionInv, [Next]_vars PROVE ConnectionInv'
    OBVIOUS
  <2>1. TypeOK'
    BY TypeStep DEF ConnectionInv
  <2>2. \A t \in DOMAIN tasks' : FeedInv(t)'
    BY FeedStep
  <2> QED BY <2>1, <2>2, OriginStep, RelayStep DEF ConnectionInv
<1> QED BY <1>1, <1>2, PTL DEF Spec

\* What the client hears of one subscription, relayed through handle_subscribed's task
\* and the out queue, starts with the first frame after the SUB and has no gap and no
\* repetition, however full the queue and however fast the bus.
THEOREM FeedsHaveNoGaps == Spec => []FeedHasNoGaps
<1>1. ConnectionInv => FeedHasNoGaps
  BY DEF ConnectionInv, FeedInv, FeedHasNoGaps
<1> QED BY <1>1, ConnectionInvariant, PTL

\* Over any sequence of SUB, re-SUB and UNSUB no key is left with a relay that nobody
\* has on file and nobody has aborted.
THEOREM OneRelayForEachKey == Spec => []OneRelayPerKey
<1>1. ConnectionInv => OneRelayPerKey
  BY DEF ConnectionInv
<1> QED BY <1>1, ConnectionInvariant, PTL
=============================================================================
