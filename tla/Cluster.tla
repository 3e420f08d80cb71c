------------------------------ MODULE Cluster ------------------------------
(***************************************************************************)
(* Several instances of the server behind one Redis: what                  *)
(* PushFallbackService::publish_and_fanout, RedisClusterAdapter and        *)
(* RedisStreamsHistoryAdapter do with one PUB or UNICAST frame.            *)
(*                                                                         *)
(* publish_and_fanout publishes on the local router, then puts the raw     *)
(* frame on the outbound queue of the cluster bus; one task per instance   *)
(* moves that queue to Redis, another re-injects what other instances      *)
(* sent.  Every publication on a router, local or re-injected, also goes   *)
(* to the durable history.  Both queues drop what they have no room for.   *)
(* Redis PUB/SUB keeps nothing: an instance whose subscription has ended   *)
(* stays deaf, for nothing subscribes again.                               *)
(*                                                                         *)
(* Operators whose name starts with Faulty are not part of the model: each *)
(* is a plausible slip in the definition that follows it, there to show    *)
(* that a property would notice.                                           *)
(***************************************************************************)
EXTENDS Naturals, FiniteSets, SequencesExt

CONSTANTS
  Instances,         \* server processes
  Sessions,          \* sessions that publish
  Home,              \* Home[s]: the instance session s is connected to
  Names,             \* channel ids on the wire: a channel, or a user id for UNICAST
  OutboundCapacity,  \* OUTBOUND_QUEUE_CAPACITY of the bus and of the history
  Subscribed,        \* Subscribed[i]: the keys instance i has subscribers of
  Script             \* bound: Script[s] is the sequence of frames session s sends

ASSUME ClusterAssumption ==
  /\ IsFiniteSet(Instances)
  /\ Home \in [Sessions -> Instances]
  /\ OutboundCapacity \in Nat \ {0}
  /\ Script \in [Sessions -> Seq([opcode : {"pub", "unicast"}, name : Names])]
  /\ Subscribed \in [Instances -> SUBSET [inbox : BOOLEAN, name : Names]]

VARIABLES
  sent,        \* sent[s]: frames session s has sent
  handling,    \* handling[s]: the frame published locally and not yet fanned out
  outbound,    \* outbound[i]: queue of the task that PUBLISHes
  bus,         \* bus[i]: envelopes on their way from Redis to instance i
  deaf,        \* instances whose SUBSCRIBE stream has ended
  lost,        \* frames that were dropped before Redis had them
  delivered,   \* delivered[i]: what the router of i has published, in order
  durable,     \* durable[i]: queue of the task that XADDs
  stream,      \* stream[k]: the Redis stream of key k
  pushes       \* <<instance, frame>> pairs for which a push job was submitted

queues == <<outbound, bus, deaf, lost>>
vars == <<sent, handling, queues, delivered, durable, stream, pushes>>

Frame == [session : Sessions, n : Nat \ {0}, opcode : {"pub", "unicast"}, name : Names]

\* ChannelKey: an explicit channel, or the private inbox of a user.
Key == [inbox : BOOLEAN, name : Names]

Delivery == [key : Key, frame : Frame]
Envelope == [origin : Instances, frame : Frame]
None     == [n |-> 0]

TypeOK ==
  /\ sent \in [Sessions -> Nat] /\ \A s \in Sessions : sent[s] <= Len(Script[s])
  /\ handling \in [Sessions -> Frame \cup {None}]
  /\ outbound \in [Instances -> Seq(Frame)]
  /\ bus \in [Instances -> Seq(Envelope)]
  /\ deaf \in SUBSET Instances
  /\ lost \in SUBSET Frame
  /\ delivered \in [Instances -> Seq(Delivery)]
  /\ durable \in [Instances -> Seq(Delivery)]
  /\ stream \in [Key -> Seq(Frame)]
  /\ pushes \in SUBSET (Instances \X Frame)
  /\ \A i \in Instances : Len(outbound[i]) <= OutboundCapacity /\ Len(durable[i]) <= OutboundCapacity

Init ==
  /\ sent = [s \in Sessions |-> 0]
  /\ handling = [s \in Sessions |-> None]
  /\ outbound = [i \in Instances |-> << >>]
  /\ bus = [i \in Instances |-> << >>]
  /\ deaf = {}
  /\ lost = {}
  /\ delivered = [i \in Instances |-> << >>]
  /\ durable = [i \in Instances |-> << >>]
  /\ stream = [k \in Key |-> << >>]
  /\ pushes = {}

-----------------------------------------------------------------------------

\* The key a frame is addressed to: UNICAST resolves the user's inbox.
Addressed(f) == [inbox |-> f.opcode = "unicast", name |-> f.name]

\* try_send on a bounded queue.
TrySend(q, x) == IF Len(q) < OutboundCapacity THEN Append(q, x) ELSE q

\* ChannelRouterService::publish on instance i, seen from outside: subscribers
\* of k get the frame, and the durable history is asked to keep it.
RouterPublish(i, k, f) ==
  /\ delivered' = [delivered EXCEPT ![i] = Append(@, [key |-> k, frame |-> f])]
  /\ durable' = [durable EXCEPT ![i] = TrySend(@, [key |-> k, frame |-> f])]

\* The session sends its next frame, which is published on its own instance.
Publish(s) ==
  LET n == sent[s] + 1
      f == [session |-> s, n |-> n, opcode |-> Script[s][n].opcode, name |-> Script[s][n].name]
  IN
  /\ handling[s] = None
  /\ sent[s] < Len(Script[s])
  /\ sent' = [sent EXCEPT ![s] = @ + 1]
  /\ handling' = [handling EXCEPT ![s] = f]
  /\ RouterPublish(Home[s], Addressed(f), f)
  /\ UNCHANGED <<queues, stream, pushes>>

\* The push fallback: a job, unless the router of i had a subscriber of k.
PushFallback(i, k, f) ==
  pushes' = IF k \in Subscribed[i] THEN pushes ELSE pushes \cup {<<i, f>>}

\* The rest of publish_and_fanout.  broadcast: the raw frame joins the outbound
\* queue, or is dropped.  Then the push fallback.
Fanout(s) ==
  LET i == Home[s] IN
  /\ handling[s] # None
  /\ handling' = [handling EXCEPT ![s] = None]
  /\ outbound' = [outbound EXCEPT ![i] = TrySend(@, handling[s])]
  /\ lost' = IF Len(outbound[i]) < OutboundCapacity THEN lost ELSE lost \cup {handling[s]}
  /\ PushFallback(i, Addressed(handling[s]), handling[s])
  /\ UNCHANGED <<sent, bus, deaf, delivered, durable, stream>>

\* The frame is sent to the instances one at a time and the second send forgotten.
FaultyRedisPublishOnce(i) ==
  /\ outbound[i] # << >>
  /\ outbound' = [outbound EXCEPT ![i] = Tail(@)]
  /\ bus' = IF i \in deaf THEN bus
            ELSE [bus EXCEPT ![i] = Append(@, [origin |-> i, frame |-> Head(outbound[i])])]
  /\ UNCHANGED <<sent, handling, deaf, lost, delivered, durable, stream, pushes>>

\* PUBLISH: every instance with a live subscription is sent the envelope, the
\* publisher included.
RedisPublish(i) ==
  LET f == Head(outbound[i]) IN
  /\ outbound[i] # << >>
  /\ outbound' = [outbound EXCEPT ![i] = Tail(@)]
  /\ bus' = [j \in Instances |->
               IF j \in deaf THEN bus[j] ELSE Append(bus[j], [origin |-> i, frame |-> f])]
  /\ UNCHANGED <<sent, handling, deaf, lost, delivered, durable, stream, pushes>>

\* PUBLISH fails: a warning, and the frame is gone.
RedisPublishFails(i) ==
  /\ outbound[i] # << >>
  /\ outbound' = [outbound EXCEPT ![i] = Tail(@)]
  /\ lost' = lost \cup {Head(outbound[i])}
  /\ UNCHANGED <<sent, handling, bus, deaf, delivered, durable, stream, pushes>>

\* The instance does not recognise its own envelopes.
FaultyReinjectOwn(i) ==
  LET f == Head(bus[i]).frame IN
  /\ bus[i] # << >>
  /\ bus' = [bus EXCEPT ![i] = Tail(@)]
  /\ RouterPublish(i, [inbox |-> FALSE, name |-> f.name], f)
  /\ UNCHANGED <<sent, handling, outbound, deaf, lost, stream, pushes>>

\* The frame goes through the push fallback once more.
FaultyReinjectPushes(i) ==
  LET f == Head(bus[i]).frame IN
  /\ bus[i] # << >>
  /\ bus' = [bus EXCEPT ![i] = Tail(@)]
  /\ IF Head(bus[i]).origin = i
       THEN UNCHANGED <<delivered, durable, pushes>>
       ELSE /\ RouterPublish(i, [inbox |-> FALSE, name |-> f.name], f)
            /\ PushFallback(i, [inbox |-> FALSE, name |-> f.name], f)
  /\ UNCHANGED <<sent, handling, outbound, deaf, lost, stream>>

\* Envelopes are handled by tasks of their own, which finish in any order.
FaultyReinjectSpawned(i) ==
  \E p \in DOMAIN bus[i] :
    LET f == bus[i][p].frame IN
    /\ bus' = [bus EXCEPT ![i] = RemoveAt(@, p)]
    /\ IF bus[i][p].origin = i
         THEN UNCHANGED <<delivered, durable>>
         ELSE RouterPublish(i, [inbox |-> FALSE, name |-> f.name], f)
    /\ UNCHANGED <<sent, handling, outbound, deaf, lost, stream, pushes>>

\* The subscriber task: its own envelopes are skipped, the others published on
\* the channel id the frame carries.
Reinject(i) ==
  LET f == Head(bus[i]).frame IN
  /\ bus[i] # << >>
  /\ bus' = [bus EXCEPT ![i] = Tail(@)]
  /\ IF Head(bus[i]).origin = i
       THEN UNCHANGED <<delivered, durable>>
       ELSE RouterPublish(i, [inbox |-> FALSE, name |-> f.name], f)
  /\ UNCHANGED <<sent, handling, outbound, deaf, lost, stream, pushes>>

\* The connection to Redis breaks: the stream ends, and the task with it.
SubscriptionEnds(i) ==
  /\ i \notin deaf
  /\ deaf' = deaf \cup {i}
  /\ bus' = [bus EXCEPT ![i] = << >>]
  /\ UNCHANGED <<sent, handling, outbound, lost, delivered, durable, stream, pushes>>

\* Everything goes to one stream.
FaultyPersistAnyKey(i) ==
  LET d == Head(durable[i]) IN
  /\ durable[i] # << >>
  /\ durable' = [durable EXCEPT ![i] = Tail(@)]
  /\ stream' = [stream EXCEPT ![[inbox |-> FALSE, name |-> d.frame.name]] = Append(@, d.frame)]
  /\ UNCHANGED <<sent, handling, queues, delivered, pushes>>

\* XADD.  (The cap is approximate and far above what is modelled.)
Persist(i) ==
  LET d == Head(durable[i]) IN
  /\ durable[i] # << >>
  /\ durable' = [durable EXCEPT ![i] = Tail(@)]
  /\ stream' = [stream EXCEPT ![d.key] = Append(@, d.frame)]
  /\ UNCHANGED <<sent, handling, queues, delivered, pushes>>

\* XADD fails: a warning, and the frame is not kept.
PersistFails(i) ==
  /\ durable[i] # << >>
  /\ durable' = [durable EXCEPT ![i] = Tail(@)]
  /\ UNCHANGED <<sent, handling, queues, delivered, stream, pushes>>

Next ==
  \/ \E s \in Sessions : Publish(s)
  \/ \E s \in Sessions : Fanout(s)
  \/ \E i \in Instances : RedisPublish(i)
  \/ \E i \in Instances : RedisPublishFails(i)
  \/ \E i \in Instances : Reinject(i)
  \/ \E i \in Instances : SubscriptionEnds(i)
  \/ \E i \in Instances : Persist(i)
  \/ \E i \in Instances : PersistFails(i)

Spec == Init /\ [][Next]_vars

\* The runtime polls the connection tasks and the two bus tasks.
Fairness ==
  /\ \A s \in Sessions : WF_vars(Fanout(s))
  /\ \A i \in Instances : WF_vars(RedisPublish(i)) /\ WF_vars(Reinject(i))

FairSpec == Spec /\ Fairness

-----------------------------------------------------------------------------
(* Properties                                                              *)

\* Where frame f stands in what instance i has delivered.
Places(i, f) == {p \in DOMAIN delivered[i] : delivered[i][p].frame = f}

\* No echo: whatever travels over the bus, the router of an instance publishes
\* one and the same frame at most once.
DeliveredOncePerInstance ==
  \A i \in Instances : \A p, q \in DOMAIN delivered[i] :
    delivered[i][p].frame = delivered[i][q].frame => p = q

\* Two frames of one session that reach an instance reach it in the order the
\* session sent them.
SessionOrderKept ==
  \A i \in Instances : \A p, q \in DOMAIN delivered[i] :
    LET f == delivered[i][p].frame
        g == delivered[i][q].frame
    IN  f.session = g.session /\ f.n < g.n => p < q

\* A frame makes at most one push job in the whole cluster, though every
\* instance publishes it and may find no subscriber.
PushedAtMostOnce == \A x, y \in pushes : x[2] = y[2] => x = y

\* REPLAY from the durable history of a key returns what some instance has
\* delivered on that key, each frame at most once per instance.
StreamHoldsDeliveries ==
  \A k \in Key : \A p \in DOMAIN stream[k] :
    LET f == stream[k][p]
        at == {i \in Instances : \E q \in Places(i, f) : delivered[i][q].key = k}
    IN  Cardinality({q \in DOMAIN stream[k] : stream[k][q] = f}) <= Cardinality(at)

\* A frame that was not dropped on its way to Redis is delivered by every
\* instance that still listens.
ReachesEveryInstance ==
  \A s \in Sessions, i \in Instances : \A n \in 1..Len(Script[s]) :
    (sent[s] >= n) ~>
      \/ \E p \in DOMAIN delivered[i] :
           delivered[i][p].frame.session = s /\ delivered[i][p].frame.n = n
      \/ i \in deaf
      \/ \E f \in lost : f.session = s /\ f.n = n

\* The module doc of PushFallbackService: PUB and UNICAST alike are published on
\* the "resolved private inbox for UNICAST" and fanned out to other instances.
\* The code breaks it (README, Findings).
DeliveredWhereAddressed ==
  \A i \in Instances : \A p \in DOMAIN delivered[i] :
    delivered[i][p].key = Addressed(delivered[i][p].frame)
=============================================================================
