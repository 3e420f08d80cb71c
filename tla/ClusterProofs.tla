--------------------------- MODULE ClusterProofs ---------------------------
(***************************************************************************)
(* What the cluster delivers, pushes and keeps, for every number of        *)
(* instances, sessions and frames and every capacity of the queues.        *)
(***************************************************************************)
EXTENDS Cluster, SequenceTheorems, FunctionTheorems, FiniteSetTheorems, TLAPS

\* f was sent before g, if one session sent both.
Older(f, g) == f.session = g.session => f.n < g.n

\* A frame is on the instance of its session until Redis has it, and its envelope
\* names that instance; nothing is ahead of what the session has sent.
OriginInv ==
  /\ \A s \in Sessions :
       handling[s] # None => handling[s].session = s /\ handling[s].n = sent[s]
  /\ \A i \in Instances : \A p \in DOMAIN outbound[i] :
       Home[outbound[i][p].session] = i /\ outbound[i][p].n <= sent[outbound[i][p].session]
  /\ \A i \in Instances : \A p \in DOMAIN bus[i] :
       /\ bus[i][p].origin = Home[bus[i][p].frame.session]
       /\ bus[i][p].frame.n <= sent[bus[i][p].frame.session]
  /\ \A i \in Instances : \A p \in DOMAIN delivered[i] :
       delivered[i][p].frame.n <= sent[delivered[i][p].frame.session]
  /\ \A x \in pushes : x[1] = Home[x[2].session]

\* Each queue holds the frames of a session in the order they were sent.
QueuesInOrder ==
  /\ \A i \in Instances : \A p, q \in DOMAIN outbound[i] : p < q => Older(outbound[i][p], outbound[i][q])
  /\ \A i \in Instances : \A p, q \in DOMAIN bus[i] : p < q => Older(bus[i][p].frame, bus[i][q].frame)
  /\ \A i \in Instances : \A p, q \in DOMAIN delivered[i] :
       p < q => Older(delivered[i][p].frame, delivered[i][q].frame)

\* And the later queues hold older frames than the earlier ones: the routers of other
\* instances, Redis, the outbound queue, the handler.
StagesInOrder ==
  /\ \A i \in Instances : \A p \in DOMAIN delivered[i], q \in DOMAIN bus[i] :
       bus[i][q].origin # i => Older(delivered[i][p].frame, bus[i][q].frame)
  /\ \A i, j \in Instances : \A p \in DOMAIN delivered[i], q \in DOMAIN outbound[j] :
       i # j => Older(delivered[i][p].frame, outbound[j][q])
  /\ \A i, j \in Instances : \A p \in DOMAIN bus[i], q \in DOMAIN outbound[j] :
       Older(bus[i][p].frame, outbound[j][q])
  /\ \A s \in Sessions, i \in Instances : handling[s] # None =>
       /\ i # Home[s] => \A p \in DOMAIN delivered[i] : Older(delivered[i][p].frame, handling[s])
       /\ \A p \in DOMAIN bus[i] : Older(bus[i][p].frame, handling[s])
       /\ \A p \in DOMAIN outbound[i] : Older(outbound[i][p], handling[s])

\* What waits to be kept was delivered, and waits once.
DurableInv ==
  \A i \in Instances :
    /\ \A p \in DOMAIN durable[i] : \E q \in DOMAIN delivered[i] : delivered[i][q] = durable[i][p]
    /\ \A p, q \in DOMAIN durable[i] : durable[i][p] = durable[i][q] => p = q

\* Where frame f stands in the stream of k, and the instances that may have put it there.
Kept(k, f) == {p \in DOMAIN stream[k] : stream[k][p] = f}
Has(i, k, f) == \E q \in DOMAIN delivered[i] : delivered[i][q] = [key |-> k, frame |-> f]
Waits(i, k, f) == \E q \in DOMAIN durable[i] : durable[i][q] = [key |-> k, frame |-> f]
Keepers(k, f) == {i \in Instances : Has(i, k, f) /\ ~Waits(i, k, f)}

\* Every copy of a frame in a stream is the work of an instance of its own.
StreamInv == \A k \in Key, f \in Frame : ExistsInjection(Kept(k, f), Keepers(k, f))

ClusterInv ==
  TypeOK /\ OriginInv /\ QueuesInOrder /\ StagesInOrder /\ DurableInv /\ StreamInv

-----------------------------------------------------------------------------
(* Queues                                                                  *)

\* A queue and its positions.
LEMMA Positions ==
  ASSUME NEW S, NEW q \in Seq(S)
  PROVE  /\ Len(q) \in Nat /\ DOMAIN q = 1..Len(q)
         /\ \A p \in DOMAIN q : p \in Nat /\ 1 <= p /\ p <= Len(q) /\ q[p] \in S
<1>1. Len(q) \in Nat /\ DOMAIN q = 1..Len(q)
  BY LenProperties
<1>2. \A p \in DOMAIN q : q[p] \in S
  BY <1>1, ElementOfSeq
<1> QED BY <1>1, <1>2

\* A queue that something joins: the new element is behind all others.
LEMMA Joined ==
  ASSUME NEW S, NEW q \in Seq(S), NEW x \in S
  PROVE  /\ Append(q, x) \in Seq(S) /\ Len(Append(q, x)) = Len(q) + 1
         /\ DOMAIN Append(q, x) = 1..(Len(q) + 1)
         /\ \A p \in DOMAIN q : p \in DOMAIN Append(q, x) /\ Append(q, x)[p] = q[p]
         /\ \A p \in DOMAIN Append(q, x) :
              \/ p \in DOMAIN q /\ Append(q, x)[p] = q[p]
              \/ p \notin DOMAIN q /\ p = Len(q) + 1 /\ Append(q, x)[p] = x
<1>1. Len(q) \in Nat /\ DOMAIN q = 1..Len(q)
  BY LenProperties
<1>2. /\ Append(q, x) \in Seq(S) /\ Len(Append(q, x)) = Len(q) + 1
      /\ DOMAIN Append(q, x) = 1..(Len(q) + 1)
      /\ \A p \in 1..Len(q) : Append(q, x)[p] = q[p]
      /\ \A p \in DOMAIN Append(q, x) : p = Len(q) + 1 => Append(q, x)[p] = x
  BY <1>1, AppendProperties
<1>3. \A p \in DOMAIN q : p \in DOMAIN Append(q, x) /\ Append(q, x)[p] = q[p]
  BY <1>1, <1>2
<1>4. ASSUME NEW p \in DOMAIN Append(q, x)
      PROVE  \/ p \in DOMAIN q /\ Append(q, x)[p] = q[p]
             \/ p \notin DOMAIN q /\ p = Len(q) + 1 /\ Append(q, x)[p] = x
  <2>1. p \in DOMAIN q \/ (p \notin DOMAIN q /\ p = Len(q) + 1)
    BY <1>1, <1>2
  <2> QED BY <1>2, <1>3, <2>1
<1> QED BY <1>2, <1>3, <1>4

\* A queue that its head leaves: the others move up, and were behind it.
LEMMA Left ==
  ASSUME NEW S, NEW q \in Seq(S), q # << >>
  PROVE  /\ Tail(q) \in Seq(S) /\ Head(q) \in S /\ Head(q) = q[1] /\ 1 \in DOMAIN q
         /\ Len(Tail(q)) = Len(q) - 1
         /\ \A p \in DOMAIN Tail(q) :
              p \in Nat /\ p + 1 \in DOMAIN q /\ 1 < p + 1 /\ Tail(q)[p] = q[p + 1]
         /\ \A p \in DOMAIN q : p # 1 => p - 1 \in DOMAIN Tail(q) /\ Tail(q)[p - 1] = q[p]
<1>1. Len(q) \in Nat \ {0} /\ DOMAIN q = 1..Len(q)
  BY LenProperties, EmptySeq
<1>2. /\ Tail(q) \in Seq(S) /\ Head(q) \in S /\ Head(q) = q[1] /\ 1 \in DOMAIN q
      /\ Len(Tail(q)) = Len(q) - 1 /\ DOMAIN Tail(q) = 1..(Len(q) - 1)
      /\ \A p \in 1..(Len(q) - 1) : Tail(q)[p] = q[p + 1]
  BY <1>1, HeadTailProperties
<1>3. \A p \in DOMAIN Tail(q) : p \in Nat /\ p + 1 \in DOMAIN q /\ 1 < p + 1 /\ Tail(q)[p] = q[p + 1]
  BY <1>1, <1>2
<1>4. \A p \in DOMAIN q : p # 1 => p - 1 \in DOMAIN Tail(q) /\ Tail(q)[p - 1] = q[p]
  BY <1>1, <1>2
<1> QED BY <1>2, <1>3, <1>4

\* try_send: the element joins, or the queue is as it was.
LEMMA Tried ==
  ASSUME NEW S, NEW q \in Seq(S), NEW x \in S, Len(q) <= OutboundCapacity
  PROVE  /\ TrySend(q, x) \in Seq(S) /\ Len(TrySend(q, x)) <= OutboundCapacity
         /\ TrySend(q, x) = q \/ TrySend(q, x) = Append(q, x)
  BY Joined, LenProperties, ClusterAssumption DEF TrySend

-----------------------------------------------------------------------------
(* Types                                                                   *)

\* What the queues hold.
LEMMA Contents ==
  ASSUME TypeOK
  PROVE  /\ \A i \in Instances :
              /\ outbound[i] \in Seq(Frame) /\ bus[i] \in Seq(Envelope)
              /\ delivered[i] \in Seq(Delivery) /\ durable[i] \in Seq(Delivery)
              /\ \A p \in DOMAIN outbound[i] : p \in Nat /\ outbound[i][p] \in Frame
              /\ \A p \in DOMAIN bus[i] : p \in Nat /\ bus[i][p] \in Envelope /\ bus[i][p].frame \in Frame
              /\ \A p \in DOMAIN delivered[i] :
                   p \in Nat /\ delivered[i][p] \in Delivery /\ delivered[i][p].frame \in Frame
              /\ \A p \in DOMAIN durable[i] : p \in Nat /\ durable[i][p] \in Delivery
         /\ \A s \in Sessions : Home[s] \in Instances /\ sent[s] \in Nat
         /\ \A s \in Sessions : handling[s] # None => handling[s] \in Frame
         /\ \A f \in Frame : f.session \in Sessions /\ f.n \in Nat /\ Addressed(f) \in Key
<1>1. ASSUME NEW i \in Instances
      PROVE  /\ outbound[i] \in Seq(Frame) /\ bus[i] \in Seq(Envelope)
             /\ delivered[i] \in Seq(Delivery) /\ durable[i] \in Seq(Delivery)
  BY DEF TypeOK
<1>2. ASSUME NEW i \in Instances
      PROVE  /\ \A p \in DOMAIN outbound[i] : p \in Nat /\ outbound[i][p] \in Frame
             /\ \A p \in DOMAIN bus[i] : p \in Nat /\ bus[i][p] \in Envelope
             /\ \A p \in DOMAIN delivered[i] : p \in Nat /\ delivered[i][p] \in Delivery
             /\ \A p \in DOMAIN durable[i] : p \in Nat /\ durable[i][p] \in Delivery
  BY <1>1, Positions
<1>3. (\A e \in Envelope : e.frame \in Frame) /\ (\A d \in Delivery : d.frame \in Frame)
  BY DEF Envelope, Delivery
<1>4. \A s \in Sessions : Home[s] \in Instances /\ sent[s] \in Nat
  BY ClusterAssumption DEF TypeOK
<1>5. \A s \in Sessions : handling[s] # None => handling[s] \in Frame
  BY DEF TypeOK
<1>6. \A f \in Frame : f.session \in Sessions /\ f.n \in Nat /\ Addressed(f) \in Key
  BY DEF Frame, Addressed, Key
<1> QED BY <1>1, <1>2, <1>3, <1>4, <1>5, <1>6

\* The frame a session sends next.
NextFrame(s) ==
  [session |-> s, n |-> sent[s] + 1,
   opcode |-> Script[s][sent[s] + 1].opcode, name |-> Script[s][sent[s] + 1].name]

\* Publish, with its local definitions unfolded.
LEMMA PublishStep ==
  ASSUME TypeOK, NEW s \in Sessions, Publish(s)
  PROVE  /\ NextFrame(s) \in Frame /\ NextFrame(s).session = s /\ NextFrame(s).n = sent[s] + 1
         /\ NextFrame(s) # None
         /\ sent[s] + 1 <= Len(Script[s])
         /\ handling[s] = None
         /\ sent' = [sent EXCEPT ![s] = sent[s] + 1]
         /\ handling' = [handling EXCEPT ![s] = NextFrame(s)]
         /\ RouterPublish(Home[s], Addressed(NextFrame(s)), NextFrame(s))
         /\ UNCHANGED <<outbound, bus, deaf, lost, stream, pushes>>
<1>1. sent[s] \in Nat /\ Script[s] \in Seq([opcode : {"pub", "unicast"}, name : Names]) /\ Len(Script[s]) \in Nat
  <2>1. sent[s] \in Nat
    BY DEF TypeOK
  <2>2. Script[s] \in Seq([opcode : {"pub", "unicast"}, name : Names])
    BY ClusterAssumption
  <2> QED BY <2>1, <2>2, LenProperties
<1>2. sent[s] < Len(Script[s])
  BY DEF Publish
<1>3. sent[s] + 1 \in 1..Len(Script[s])
  BY <1>1, <1>2
<1>4. Script[s][sent[s] + 1] \in [opcode : {"pub", "unicast"}, name : Names]
  BY <1>1, <1>3, ElementOfSeq
<1>5. /\ NextFrame(s) \in Frame /\ NextFrame(s).session = s /\ NextFrame(s).n = sent[s] + 1
  BY <1>1, <1>4 DEF NextFrame, Frame
<1>6. NextFrame(s) # None
  BY <1>1, <1>5 DEF None
<1> QED BY <1>1, <1>2, <1>5, <1>6 DEF Publish, NextFrame, queues

\* What a router publishes keeps the types of its queues.
LEMMA RouterTypes ==
  ASSUME TypeOK, NEW i \in Instances, NEW k \in Key, NEW f \in Frame, RouterPublish(i, k, f)
  PROVE  /\ delivered' \in [Instances -> Seq(Delivery)] /\ durable' \in [Instances -> Seq(Delivery)]
         /\ \A j \in Instances : Len(durable'[j]) <= OutboundCapacity
<1> DEFINE d == [key |-> k, frame |-> f]
<1>1. d \in Delivery
  BY DEF Delivery
<1>2. /\ delivered[i] \in Seq(Delivery) /\ durable[i] \in Seq(Delivery)
      /\ Len(durable[i]) <= OutboundCapacity
  BY DEF TypeOK
<1>3. Append(delivered[i], d) \in Seq(Delivery)
  BY <1>1, <1>2, Joined
<1>4. TrySend(durable[i], d) \in Seq(Delivery) /\ Len(TrySend(durable[i], d)) <= OutboundCapacity
  BY <1>1, <1>2, Tried
<1>5. /\ delivered' = [delivered EXCEPT ![i] = Append(delivered[i], d)]
      /\ durable' = [durable EXCEPT ![i] = TrySend(durable[i], d)]
  BY DEF RouterPublish
<1> HIDE DEF d
<1> QED BY <1>3, <1>4, <1>5 DEF TypeOK

\* The types hold at the start.
LEMMA TypeInit == Init => TypeOK
<1> SUFFICES ASSUME Init PROVE TypeOK
  OBVIOUS
<1>1. \A s \in Sessions : Len(Script[s]) \in Nat
  BY ClusterAssumption, LenProperties
<1> QED BY <1>1, ClusterAssumption, EmptySeq DEF Init, TypeOK

\* Every step of a session, of the bus and of the history keeps the types.
LEMMA TypeStep == TypeOK /\ [Next]_vars => TypeOK'
<1> SUFFICES ASSUME TypeOK, [Next]_vars PROVE TypeOK'
  OBVIOUS
<1> USE ClusterAssumption DEF queues
<1>1. ASSUME NEW s \in Sessions, Publish(s) PROVE TypeOK'
  <2>1. /\ NextFrame(s) \in Frame /\ Home[s] \in Instances /\ Addressed(NextFrame(s)) \in Key
        /\ sent[s] + 1 <= Len(Script[s]) /\ sent' = [sent EXCEPT ![s] = sent[s] + 1] /\ sent[s] \in Nat
        /\ handling' = [handling EXCEPT ![s] = NextFrame(s)]
        /\ RouterPublish(Home[s], Addressed(NextFrame(s)), NextFrame(s))
        /\ UNCHANGED <<outbound, bus, deaf, lost, stream, pushes>>
    BY <1>1, PublishStep, Contents
  <2>2. /\ delivered' \in [Instances -> Seq(Delivery)] /\ durable' \in [Instances -> Seq(Delivery)]
        /\ \A j \in Instances : Len(durable'[j]) <= OutboundCapacity
    BY <2>1, RouterTypes
  <2>3. sent' \in [Sessions -> Nat] /\ \A r \in Sessions : sent'[r] <= Len(Script[r])
    BY <2>1 DEF TypeOK
  <2>4. handling' \in [Sessions -> Frame \cup {None}]
    BY <2>1 DEF TypeOK
  <2> QED BY <2>1, <2>2, <2>3, <2>4 DEF TypeOK
<1>2. ASSUME NEW s \in Sessions, Fanout(s) PROVE TypeOK'
  <2>1. handling[s] \in Frame /\ Home[s] \in Instances
    BY <1>2, Contents DEF Fanout
  <2>2. outbound[Home[s]] \in Seq(Frame) /\ Len(outbound[Home[s]]) <= OutboundCapacity
    BY <2>1 DEF TypeOK
  <2>3. /\ TrySend(outbound[Home[s]], handling[s]) \in Seq(Frame)
        /\ Len(TrySend(outbound[Home[s]], handling[s])) <= OutboundCapacity
    BY <2>1, <2>2, Tried
  <2>4. outbound' = [outbound EXCEPT ![Home[s]] = TrySend(outbound[Home[s]], handling[s])]
    BY <1>2 DEF Fanout
  <2>5. outbound' \in [Instances -> Seq(Frame)] /\ \A j \in Instances : Len(outbound'[j]) <= OutboundCapacity
    BY <2>1, <2>3, <2>4 DEF TypeOK
  <2>6. pushes' \in SUBSET (Instances \X Frame) /\ lost' \in SUBSET Frame
    BY <1>2, <2>1 DEF Fanout, PushFallback, TypeOK
  <2>7. handling' \in [Sessions -> Frame \cup {None}]
    BY <1>2 DEF Fanout, TypeOK
  <2> QED BY <1>2, <2>5, <2>6, <2>7 DEF Fanout, TypeOK
<1>3. ASSUME NEW i \in Instances, RedisPublish(i) \/ RedisPublishFails(i) PROVE TypeOK'
  <2>1. outbound[i] \in Seq(Frame) /\ outbound[i] # << >> /\ Len(outbound[i]) <= OutboundCapacity
        /\ Len(outbound[i]) \in Nat
    BY <1>3 DEF RedisPublish, RedisPublishFails, TypeOK
  <2>2. /\ Tail(outbound[i]) \in Seq(Frame) /\ Len(Tail(outbound[i])) <= OutboundCapacity
        /\ Head(outbound[i]) \in Frame
    BY <2>1, Left
  <2>3. outbound' = [outbound EXCEPT ![i] = Tail(outbound[i])]
    BY <1>3 DEF RedisPublish, RedisPublishFails
  <2>4. outbound' \in [Instances -> Seq(Frame)] /\ \A j \in Instances : Len(outbound'[j]) <= OutboundCapacity
    BY <2>2, <2>3 DEF TypeOK
  <2>5. CASE RedisPublish(i)
    <3>1. [origin |-> i, frame |-> Head(outbound[i])] \in Envelope
      BY <2>2 DEF Envelope
    <3>2. \A j \in Instances : bus[j] \in Seq(Envelope)
                               /\ Append(bus[j], [origin |-> i, frame |-> Head(outbound[i])]) \in Seq(Envelope)
      BY <3>1, Joined, Contents
    <3>3. bus' \in [Instances -> Seq(Envelope)]
      BY <2>5, <3>2 DEF RedisPublish
    <3> QED BY <2>4, <2>5, <3>3 DEF RedisPublish, TypeOK
  <2>6. CASE RedisPublishFails(i)
    BY <2>2, <2>4, <2>6 DEF RedisPublishFails, TypeOK
  <2> QED BY <1>3, <2>5, <2>6
<1>4. ASSUME NEW i \in Instances, Reinject(i) PROVE TypeOK'
  <2>1. bus[i] \in Seq(Envelope) /\ bus[i] # << >>
    BY <1>4 DEF Reinject, TypeOK
  <2>2. Tail(bus[i]) \in Seq(Envelope) /\ Head(bus[i]).frame \in Frame
    <3>1. Tail(bus[i]) \in Seq(Envelope) /\ Head(bus[i]) \in Envelope
      BY <2>1, Left
    <3> QED BY <3>1 DEF Envelope
  <2>3. bus' \in [Instances -> Seq(Envelope)]
    BY <1>4, <2>2 DEF Reinject, TypeOK
  <2>4. /\ delivered' \in [Instances -> Seq(Delivery)] /\ durable' \in [Instances -> Seq(Delivery)]
        /\ \A j \in Instances : Len(durable'[j]) <= OutboundCapacity
    <3>1. CASE Head(bus[i]).origin = i
      BY <1>4, <3>1 DEF Reinject, TypeOK
    <3>2. CASE Head(bus[i]).origin # i
      <4>1. [inbox |-> FALSE, name |-> Head(bus[i]).frame.name] \in Key
        BY <2>2 DEF Frame, Key
      <4>2. RouterPublish(i, [inbox |-> FALSE, name |-> Head(bus[i]).frame.name], Head(bus[i]).frame)
        BY <1>4, <3>2 DEF Reinject
      <4> QED BY <2>2, <4>1, <4>2, RouterTypes
    <3> QED BY <3>1, <3>2
  <2> QED BY <1>4, <2>3, <2>4 DEF Reinject, TypeOK
<1>5. ASSUME NEW i \in Instances, SubscriptionEnds(i) PROVE TypeOK'
  <2>1. << >> \in Seq(Envelope)
    BY EmptySeq
  <2> QED BY <1>5, <2>1 DEF SubscriptionEnds, TypeOK
<1>6. ASSUME NEW i \in Instances, Persist(i) \/ PersistFails(i) PROVE TypeOK'
  <2>1. durable[i] \in Seq(Delivery) /\ durable[i] # << >> /\ Len(durable[i]) <= OutboundCapacity
        /\ Len(durable[i]) \in Nat
    BY <1>6 DEF Persist, PersistFails, TypeOK
  <2>2. /\ Tail(durable[i]) \in Seq(Delivery) /\ Len(Tail(durable[i])) <= OutboundCapacity
        /\ Head(durable[i]) \in Delivery
    BY <2>1, Left
  <2>3. durable' = [durable EXCEPT ![i] = Tail(durable[i])]
    BY <1>6 DEF Persist, PersistFails
  <2>4. durable' \in [Instances -> Seq(Delivery)] /\ \A j \in Instances : Len(durable'[j]) <= OutboundCapacity
    BY <2>2, <2>3 DEF TypeOK
  <2>5. stream' \in [Key -> Seq(Frame)]
    <3>1. CASE Persist(i)
      <4>1. Head(durable[i]).key \in Key /\ Head(durable[i]).frame \in Frame
        BY <2>2 DEF Delivery
      <4>2. Append(stream[Head(durable[i]).key], Head(durable[i]).frame) \in Seq(Frame)
        BY <4>1, Joined DEF TypeOK
      <4>3. stream' = [stream EXCEPT ![Head(durable[i]).key] =
                         Append(stream[Head(durable[i]).key], Head(durable[i]).frame)]
        BY <3>1 DEF Persist
      <4> QED BY <4>1, <4>2, <4>3 DEF TypeOK
    <3>2. CASE PersistFails(i)
      BY <3>2 DEF PersistFails, TypeOK
    <3> QED BY <1>6, <3>1, <3>2
  <2> QED BY <1>6, <2>4, <2>5 DEF Persist, PersistFails, TypeOK
<1>7. CASE UNCHANGED vars
  BY <1>7 DEF vars, TypeOK
<1> QED BY <1>1, <1>2, <1>3, <1>4, <1>5, <1>6, <1>7 DEF Next

-----------------------------------------------------------------------------
(* The steps, seen from the queues                                         *)

\* A router publishes: one delivery joins its own list.
LEMMA RouterStep ==
  ASSUME TypeOK, NEW i \in Instances, NEW k \in Key, NEW f \in Frame, RouterPublish(i, k, f)
  PROVE  /\ \A j \in Instances : j # i => delivered'[j] = delivered[j] /\ durable'[j] = durable[j]
         /\ \A j \in Instances : \A p \in DOMAIN delivered[j] :
              p \in DOMAIN delivered'[j] /\ delivered'[j][p] = delivered[j][p]
         /\ \A j \in Instances : \A p \in DOMAIN delivered'[j] :
              \/ p \in DOMAIN delivered[j] /\ delivered'[j][p] = delivered[j][p]
              \/ j = i /\ p = Len(delivered[i]) + 1 /\ p \notin DOMAIN delivered[i]
                 /\ delivered'[j][p] = [key |-> k, frame |-> f]
         /\ \E p \in DOMAIN delivered'[i] : delivered'[i][p] = [key |-> k, frame |-> f]
         /\ durable'[i] = durable[i] \/ durable'[i] = Append(durable[i], [key |-> k, frame |-> f])
<1> DEFINE d == [key |-> k, frame |-> f]
<1>1. d \in Delivery /\ delivered[i] \in Seq(Delivery) /\ durable[i] \in Seq(Delivery)
      /\ Len(durable[i]) <= OutboundCapacity
  BY DEF Delivery, TypeOK
<1>2. /\ delivered' = [delivered EXCEPT ![i] = Append(delivered[i], d)]
      /\ durable' = [durable EXCEPT ![i] = TrySend(durable[i], d)]
  BY DEF RouterPublish
<1> HIDE DEF d
<1>3. \A j \in Instances : j # i => delivered'[j] = delivered[j] /\ durable'[j] = durable[j]
  BY <1>2 DEF TypeOK
<1>4. delivered'[i] = Append(delivered[i], d) /\ durable'[i] = TrySend(durable[i], d)
  BY <1>2 DEF TypeOK
<1>5. \A p \in DOMAIN delivered[i] : p \in DOMAIN delivered'[i] /\ delivered'[i][p] = delivered[i][p]
  BY <1>1, <1>4, Joined
<1>6. \A p \in DOMAIN delivered'[i] :
        \/ p \in DOMAIN delivered[i] /\ delivered'[i][p] = delivered[i][p]
        \/ p = Len(delivered[i]) + 1 /\ p \notin DOMAIN delivered[i] /\ delivered'[i][p] = d
  BY <1>1, <1>4, Joined
<1>7. durable'[i] = durable[i] \/ durable'[i] = Append(durable[i], d)
  BY <1>1, <1>4, Tried
<1>8. \E p \in DOMAIN delivered'[i] : delivered'[i][p] = d
  <2>1. Len(delivered[i]) \in Nat /\ DOMAIN delivered[i] = 1..Len(delivered[i])
    BY <1>1, LenProperties
  <2>2. Len(delivered[i]) + 1 \in DOMAIN delivered'[i] /\ Len(delivered[i]) + 1 \notin DOMAIN delivered[i]
    BY <1>1, <1>4, <2>1, Joined
  <2> QED BY <1>6, <2>2
<1> QED BY <1>3, <1>5, <1>6, <1>7, <1>8 DEF d

\* broadcast: the frame joins the outbound queue of its instance, or is dropped.
LEMMA FanoutStep ==
  ASSUME TypeOK, NEW s \in Sessions, Fanout(s)
  PROVE  /\ handling[s] # None /\ handling[s] \in Frame /\ Home[s] \in Instances
         /\ handling'[s] = None
         /\ \A r \in Sessions : r # s => handling'[r] = handling[r]
         /\ UNCHANGED <<sent, bus, delivered, durable, stream>>
         /\ \A j \in Instances : \A p \in DOMAIN outbound'[j] :
              \/ p \in DOMAIN outbound[j] /\ outbound'[j][p] = outbound[j][p]
              \/ j = Home[s] /\ p = Len(outbound[j]) + 1 /\ p \notin DOMAIN outbound[j]
                 /\ outbound'[j][p] = handling[s]
<1>1. handling[s] # None /\ handling[s] \in Frame /\ Home[s] \in Instances
  BY Contents DEF Fanout
<1>2. /\ handling' = [handling EXCEPT ![s] = None]
      /\ outbound' = [outbound EXCEPT ![Home[s]] = TrySend(outbound[Home[s]], handling[s])]
      /\ UNCHANGED <<sent, bus, delivered, durable, stream>>
  BY DEF Fanout
<1>3. /\ handling'[s] = None
      /\ \A r \in Sessions : r # s => handling'[r] = handling[r]
  BY <1>2 DEF TypeOK
<1>4. outbound[Home[s]] \in Seq(Frame) /\ Len(outbound[Home[s]]) <= OutboundCapacity
  BY <1>1 DEF TypeOK
<1>5. outbound'[Home[s]] = outbound[Home[s]] \/ outbound'[Home[s]] = Append(outbound[Home[s]], handling[s])
  <2>1. outbound'[Home[s]] = TrySend(outbound[Home[s]], handling[s])
    BY <1>1, <1>2 DEF TypeOK
  <2>2. \/ TrySend(outbound[Home[s]], handling[s]) = outbound[Home[s]]
        \/ TrySend(outbound[Home[s]], handling[s]) = Append(outbound[Home[s]], handling[s])
    BY DEF TrySend
  <2> QED BY <2>1, <2>2
<1>6. \A p \in DOMAIN outbound'[Home[s]] :
        \/ p \in DOMAIN outbound[Home[s]] /\ outbound'[Home[s]][p] = outbound[Home[s]][p]
        \/ p = Len(outbound[Home[s]]) + 1 /\ p \notin DOMAIN outbound[Home[s]]
           /\ outbound'[Home[s]][p] = handling[s]
  BY <1>1, <1>4, <1>5, Joined
<1>7. \A j \in Instances : j # Home[s] => outbound'[j] = outbound[j]
  BY <1>2 DEF TypeOK
<1> QED BY <1>1, <1>2, <1>3, <1>6, <1>7

\* The head of an outbound queue leaves it.
LEMMA OutboundLeaves ==
  ASSUME TypeOK, NEW i \in Instances, RedisPublish(i) \/ RedisPublishFails(i)
  PROVE  /\ \A j \in Instances : j # i => outbound'[j] = outbound[j]
         /\ 1 \in DOMAIN outbound[i] /\ Head(outbound[i]) = outbound[i][1] /\ outbound[i][1] \in Frame
         /\ \A p \in DOMAIN outbound'[i] :
              p \in Nat /\ p + 1 \in DOMAIN outbound[i] /\ 1 < p + 1 /\ outbound'[i][p] = outbound[i][p + 1]
<1>1. /\ outbound[i] # << >> /\ outbound' = [outbound EXCEPT ![i] = Tail(outbound[i])]
      /\ outbound[i] \in Seq(Frame)
  BY DEF RedisPublish, RedisPublishFails, TypeOK
<1>2. outbound'[i] = Tail(outbound[i]) /\ \A j \in Instances : j # i => outbound'[j] = outbound[j]
  BY <1>1 DEF TypeOK
<1>3. /\ 1 \in DOMAIN outbound[i] /\ Head(outbound[i]) = outbound[i][1] /\ outbound[i][1] \in Frame
      /\ \A p \in DOMAIN Tail(outbound[i]) :
           p \in Nat /\ p + 1 \in DOMAIN outbound[i] /\ 1 < p + 1 /\ Tail(outbound[i])[p] = outbound[i][p + 1]
  BY <1>1, Left
<1> QED BY <1>2, <1>3

\* PUBLISH: the envelope joins the ones on their way to each listening instance.
LEMMA BusJoins ==
  ASSUME TypeOK, NEW i \in Instances, RedisPublish(i), NEW j \in Instances
  PROVE  \A p \in DOMAIN bus'[j] :
           \/ p \in DOMAIN bus[j] /\ bus'[j][p] = bus[j][p]
           \/ p = Len(bus[j]) + 1 /\ p \notin DOMAIN bus[j]
              /\ bus'[j][p].origin = i /\ bus'[j][p].frame = outbound[i][1]
<1> DEFINE e == [origin |-> i, frame |-> Head(outbound[i])]
<1>1. Head(outbound[i]) = outbound[i][1] /\ outbound[i][1] \in Frame
  BY OutboundLeaves
<1>2. e \in Envelope /\ e.origin = i /\ e.frame = outbound[i][1]
  BY <1>1 DEF Envelope
<1>3. bus'[j] = bus[j] \/ bus'[j] = Append(bus[j], e)
  BY DEF RedisPublish
<1> HIDE DEF e
<1>4. bus[j] \in Seq(Envelope)
  BY DEF TypeOK
<1> QED BY <1>2, <1>3, <1>4, Joined

\* The head of the envelopes for an instance leaves.
LEMMA BusLeaves ==
  ASSUME TypeOK, NEW i \in Instances, Reinject(i)
  PROVE  /\ \A j \in Instances : j # i => bus'[j] = bus[j]
         /\ 1 \in DOMAIN bus[i] /\ Head(bus[i]) = bus[i][1] /\ bus[i][1] \in Envelope
         /\ bus[i][1].frame \in Frame /\ bus[i][1].origin \in Instances
         /\ \A p \in DOMAIN bus'[i] :
              p \in Nat /\ p + 1 \in DOMAIN bus[i] /\ 1 < p + 1 /\ bus'[i][p] = bus[i][p + 1]
<1>1. bus[i] # << >> /\ bus' = [bus EXCEPT ![i] = Tail(bus[i])] /\ bus[i] \in Seq(Envelope)
  BY DEF Reinject, TypeOK
<1>2. bus'[i] = Tail(bus[i]) /\ \A j \in Instances : j # i => bus'[j] = bus[j]
  BY <1>1 DEF TypeOK
<1>3. /\ 1 \in DOMAIN bus[i] /\ Head(bus[i]) = bus[i][1] /\ bus[i][1] \in Envelope
      /\ \A p \in DOMAIN bus'[i] :
           p \in Nat /\ p + 1 \in DOMAIN bus[i] /\ 1 < p + 1 /\ bus'[i][p] = bus[i][p + 1]
  <2>1. /\ 1 \in DOMAIN bus[i] /\ Head(bus[i]) = bus[i][1] /\ bus[i][1] \in Envelope
        /\ \A p \in DOMAIN Tail(bus[i]) :
             p \in Nat /\ p + 1 \in DOMAIN bus[i] /\ 1 < p + 1 /\ Tail(bus[i])[p] = bus[i][p + 1]
    BY <1>1, Left
  <2> QED BY <1>2, <2>1
<1> QED BY <1>2, <1>3 DEF Envelope

\* An envelope of another instance is published on the channel id that it carries.
Reinjected(i) == [inbox |-> FALSE, name |-> bus[i][1].frame.name]

\* Reinject, with its local definitions unfolded.
LEMMA ReinjectStep ==
  ASSUME TypeOK, NEW i \in Instances, Reinject(i)
  PROVE  /\ UNCHANGED <<sent, handling, outbound, stream, pushes>>
         /\ bus[i][1].origin = i => UNCHANGED <<delivered, durable>>
         /\ bus[i][1].origin # i =>
              Reinjected(i) \in Key /\ RouterPublish(i, Reinjected(i), bus[i][1].frame)
<1>1. Head(bus[i]) = bus[i][1] /\ bus[i][1].frame \in Frame
  BY BusLeaves
<1>2. Reinjected(i) \in Key
  BY <1>1 DEF Reinjected, Frame, Key
<1> QED BY <1>1, <1>2 DEF Reinject, Reinjected

\* The head of the durable queue leaves it.
LEMMA DurableLeaves ==
  ASSUME TypeOK, NEW i \in Instances, Persist(i) \/ PersistFails(i)
  PROVE  /\ \A j \in Instances : j # i => durable'[j] = durable[j]
         /\ 1 \in DOMAIN durable[i] /\ Head(durable[i]) = durable[i][1] /\ durable[i][1] \in Delivery
         /\ \A p \in DOMAIN durable'[i] :
              p \in Nat /\ p + 1 \in DOMAIN durable[i] /\ 1 < p + 1 /\ durable'[i][p] = durable[i][p + 1]
<1>1. durable[i] # << >> /\ durable' = [durable EXCEPT ![i] = Tail(durable[i])] /\ durable[i] \in Seq(Delivery)
  BY DEF Persist, PersistFails, TypeOK
<1>2. durable'[i] = Tail(durable[i]) /\ \A j \in Instances : j # i => durable'[j] = durable[j]
  BY <1>1 DEF TypeOK
<1>3. /\ 1 \in DOMAIN durable[i] /\ Head(durable[i]) = durable[i][1] /\ durable[i][1] \in Delivery
      /\ \A p \in DOMAIN Tail(durable[i]) :
           p \in Nat /\ p + 1 \in DOMAIN durable[i] /\ 1 < p + 1 /\ Tail(durable[i])[p] = durable[i][p + 1]
  BY <1>1, Left
<1> QED BY <1>2, <1>3

-----------------------------------------------------------------------------
(* Where frames are, and in which order                                    *)

\* A frame stays with its instance until Redis has it.
LEMMA OriginStep == ClusterInv /\ [Next]_vars => OriginInv'
<1> SUFFICES ASSUME ClusterInv, [Next]_vars PROVE OriginInv'
  OBVIOUS
<1> USE DEF queues
<1>1. TypeOK /\ OriginInv
  BY DEF ClusterInv
<1>2. ASSUME NEW s \in Sessions, Publish(s) PROVE OriginInv'
  <2> DEFINE f == NextFrame(s)
  <2>1. /\ f \in Frame /\ f.session = s /\ f.n = sent[s] + 1 /\ Home[s] \in Instances
        /\ Addressed(f) \in Key /\ sent[s] \in Nat
        /\ sent' = [sent EXCEPT ![s] = sent[s] + 1] /\ handling' = [handling EXCEPT ![s] = f]
        /\ RouterPublish(Home[s], Addressed(f), f)
        /\ UNCHANGED <<outbound, bus, pushes>>
    BY <1>1, <1>2, PublishStep, Contents
  <2> HIDE DEF f
  <2>2. \A r \in Sessions : sent[r] \in Nat /\ sent'[r] \in Nat /\ sent[r] <= sent'[r]
    BY <1>1, <2>1 DEF TypeOK
  <2>3. sent'[s] = sent[s] + 1 /\ \A r \in Sessions : r # s => sent'[r] = sent[r] /\ handling'[r] = handling[r]
    BY <1>1, <2>1 DEF TypeOK
  <2>4. handling'[s] = f
    BY <1>1, <2>1 DEF TypeOK
  <2>5. \A r \in Sessions : handling'[r] # None => handling'[r].session = r /\ handling'[r].n = sent'[r]
    BY <1>1, <2>1, <2>3, <2>4 DEF OriginInv
  <2>6. ASSUME NEW g \in Frame, g.n <= sent[g.session] PROVE g.n <= sent'[g.session]
    <3>1. g.session \in Sessions /\ g.n \in Nat
      BY <1>1, Contents
    <3> QED BY <2>2, <2>6, <3>1
  <2>7. \A i \in Instances : \A p \in DOMAIN outbound'[i] :
          Home[outbound'[i][p].session] = i /\ outbound'[i][p].n <= sent'[outbound'[i][p].session]
    BY <1>1, <2>1, <2>6, Contents DEF OriginInv
  <2>8. \A i \in Instances : \A p \in DOMAIN bus'[i] :
          /\ bus'[i][p].origin = Home[bus'[i][p].frame.session]
          /\ bus'[i][p].frame.n <= sent'[bus'[i][p].frame.session]
    BY <1>1, <2>1, <2>6, Contents DEF OriginInv
  <2>9. \A i \in Instances : \A p \in DOMAIN delivered'[i] :
          delivered'[i][p].frame.n <= sent'[delivered'[i][p].frame.session]
    <3> SUFFICES ASSUME NEW i \in Instances, NEW p \in DOMAIN delivered'[i]
                 PROVE  delivered'[i][p].frame.n <= sent'[delivered'[i][p].frame.session]
      OBVIOUS
    <3>1. \/ p \in DOMAIN delivered[i] /\ delivered'[i][p] = delivered[i][p]
          \/ delivered'[i][p] = [key |-> Addressed(f), frame |-> f]
      BY <1>1, <2>1, RouterStep
    <3>2. CASE p \in DOMAIN delivered[i] /\ delivered'[i][p] = delivered[i][p]
      <4>1. delivered[i][p].frame \in Frame /\ delivered[i][p].frame.n <= sent[delivered[i][p].frame.session]
        BY <1>1, <3>2, Contents DEF OriginInv
      <4> QED BY <2>6, <3>2, <4>1
    <3>3. CASE delivered'[i][p] = [key |-> Addressed(f), frame |-> f]
      <4>1. delivered'[i][p].frame = f
        BY <3>3
      <4> QED BY <2>1, <2>3, <4>1
    <3> QED BY <3>1, <3>2, <3>3
  <2> QED BY <1>1, <2>1, <2>5, <2>7, <2>8, <2>9 DEF OriginInv
<1>3. ASSUME NEW s \in Sessions, Fanout(s) PROVE OriginInv'
  <2>1. handling[s].session = s /\ handling[s].n = sent[s] /\ handling[s] \in Frame /\ sent[s] \in Nat
        /\ Home[s] \in Instances
    BY <1>1, <1>3, FanoutStep, Contents DEF OriginInv
  <2>2. \A i \in Instances : \A p \in DOMAIN outbound'[i] :
          Home[outbound'[i][p].session] = i /\ outbound'[i][p].n <= sent[outbound'[i][p].session]
    BY <1>1, <1>3, <2>1, FanoutStep DEF OriginInv
  <2>3. \A x \in pushes' : x \in pushes \/ x = <<Home[s], handling[s]>>
    BY <1>3 DEF Fanout, PushFallback
  <2>4. \A x \in pushes' : x[1] = Home[x[2].session]
    BY <1>1, <2>1, <2>3 DEF OriginInv
  <2>5. \A r \in Sessions : handling'[r] # None => handling'[r].session = r /\ handling'[r].n = sent[r]
    BY <1>1, <1>3, FanoutStep DEF OriginInv
  <2>6. UNCHANGED <<sent, bus, delivered>>
    BY <1>3 DEF Fanout
  <2> QED BY <1>1, <2>2, <2>4, <2>5, <2>6 DEF OriginInv
<1>4. ASSUME NEW i \in Instances, RedisPublish(i) \/ RedisPublishFails(i) PROVE OriginInv'
  <2>1. \A j \in Instances : \A p \in DOMAIN outbound'[j] :
          Home[outbound'[j][p].session] = j /\ outbound'[j][p].n <= sent[outbound'[j][p].session]
    BY <1>1, <1>4, OutboundLeaves DEF OriginInv
  <2>2. /\ 1 \in DOMAIN outbound[i] /\ Home[outbound[i][1].session] = i
        /\ outbound[i][1].n <= sent[outbound[i][1].session]
    BY <1>1, <1>4, OutboundLeaves DEF OriginInv
  <2>3. \A j \in Instances : \A p \in DOMAIN bus'[j] :
          /\ bus'[j][p].origin = Home[bus'[j][p].frame.session]
          /\ bus'[j][p].frame.n <= sent[bus'[j][p].frame.session]
    <3>1. CASE RedisPublish(i)
      <4> SUFFICES ASSUME NEW j \in Instances, NEW p \in DOMAIN bus'[j]
                   PROVE  /\ bus'[j][p].origin = Home[bus'[j][p].frame.session]
                          /\ bus'[j][p].frame.n <= sent[bus'[j][p].frame.session]
        OBVIOUS
      <4>1. \/ p \in DOMAIN bus[j] /\ bus'[j][p] = bus[j][p]
            \/ bus'[j][p].origin = i /\ bus'[j][p].frame = outbound[i][1]
        BY <1>1, <3>1, BusJoins
      <4>2. CASE p \in DOMAIN bus[j] /\ bus'[j][p] = bus[j][p]
        BY <1>1, <4>2 DEF OriginInv
      <4>3. CASE bus'[j][p].origin = i /\ bus'[j][p].frame = outbound[i][1]
        BY <2>2, <4>3
      <4> QED BY <4>1, <4>2, <4>3
    <3>2. CASE RedisPublishFails(i)
      BY <1>1, <3>2 DEF RedisPublishFails, OriginInv
    <3> QED BY <1>4, <3>1, <3>2
  <2>4. UNCHANGED <<sent, handling, delivered, pushes>>
    BY <1>4 DEF RedisPublish, RedisPublishFails
  <2> QED BY <1>1, <2>1, <2>3, <2>4 DEF OriginInv
<1>5. ASSUME NEW i \in Instances, Reinject(i) PROVE OriginInv'
  <2>1. \A j \in Instances : \A p \in DOMAIN bus'[j] :
          /\ bus'[j][p].origin = Home[bus'[j][p].frame.session]
          /\ bus'[j][p].frame.n <= sent[bus'[j][p].frame.session]
    BY <1>1, <1>5, BusLeaves DEF OriginInv
  <2>2. 1 \in DOMAIN bus[i] /\ bus[i][1].frame \in Frame /\ bus[i][1].frame.n <= sent[bus[i][1].frame.session]
    BY <1>1, <1>5, BusLeaves DEF OriginInv
  <2>3. \A j \in Instances : \A p \in DOMAIN delivered'[j] :
          delivered'[j][p].frame.n <= sent[delivered'[j][p].frame.session]
    <3>1. CASE bus[i][1].origin = i
      BY <1>1, <1>5, <3>1, ReinjectStep DEF OriginInv
    <3>2. CASE bus[i][1].origin # i
      <4> SUFFICES ASSUME NEW j \in Instances, NEW p \in DOMAIN delivered'[j]
                   PROVE  delivered'[j][p].frame.n <= sent[delivered'[j][p].frame.session]
        OBVIOUS
      <4>1. Reinjected(i) \in Key /\ RouterPublish(i, Reinjected(i), bus[i][1].frame)
        BY <1>1, <1>5, <3>2, ReinjectStep
      <4>2. \/ p \in DOMAIN delivered[j] /\ delivered'[j][p] = delivered[j][p]
            \/ delivered'[j][p] = [key |-> Reinjected(i), frame |-> bus[i][1].frame]
        BY <1>1, <2>2, <4>1, RouterStep
      <4>3. CASE p \in DOMAIN delivered[j] /\ delivered'[j][p] = delivered[j][p]
        BY <1>1, <4>3 DEF OriginInv
      <4>4. CASE delivered'[j][p] = [key |-> Reinjected(i), frame |-> bus[i][1].frame]
        BY <2>2, <4>4
      <4> QED BY <4>2, <4>3, <4>4
    <3> QED BY <3>1, <3>2
  <2>4. UNCHANGED <<sent, handling, outbound, pushes>>
    BY <1>5 DEF Reinject
  <2> QED BY <1>1, <2>1, <2>3, <2>4 DEF OriginInv
<1>6. ASSUME NEW i \in Instances, SubscriptionEnds(i) PROVE OriginInv'
  <2>1. /\ bus' = [bus EXCEPT ![i] = << >>] /\ UNCHANGED <<sent, handling, outbound, delivered, pushes>>
    BY <1>6 DEF SubscriptionEnds
  <2>2. \A j \in Instances : \A p \in DOMAIN bus'[j] : p \in DOMAIN bus[j] /\ bus'[j][p] = bus[j][p]
    BY <1>1, <2>1 DEF TypeOK
  <2>3. \A j \in Instances : \A p \in DOMAIN bus'[j] :
          /\ bus'[j][p].origin = Home[bus'[j][p].frame.session]
          /\ bus'[j][p].frame.n <= sent[bus'[j][p].frame.session]
    BY <1>1, <2>2 DEF OriginInv
  <2> QED BY <1>1, <2>1, <2>3 DEF OriginInv
<1>7. ASSUME NEW i \in Instances, Persist(i) \/ PersistFails(i) PROVE OriginInv'
  <2>1. UNCHANGED <<sent, handling, outbound, bus, delivered, pushes>>
    BY <1>7 DEF Persist, PersistFails, queues
  <2> QED BY <1>1, <2>1 DEF OriginInv
<1>8. CASE UNCHANGED vars
  BY <1>1, <1>8 DEF vars, OriginInv
<1> QED BY <1>2, <1>3, <1>4, <1>5, <1>6, <1>7, <1>8 DEF Next

\* Of two positions in a queue that one element has joined, the first is an old one.
LEMMA EarlierIsOld ==
  ASSUME NEW S, NEW a \in Seq(S), NEW b, \A p \in DOMAIN b : p \in DOMAIN a \/ p = Len(a) + 1,
         NEW p \in DOMAIN b, NEW q \in DOMAIN b, p < q
  PROVE  p \in DOMAIN a
<1>1. Len(a) \in Nat /\ DOMAIN a = 1..Len(a)
  BY LenProperties
<1> QED BY <1>1

\* A frame that a session sends now is younger than everything it has sent before.
LEMMA NewIsYounger ==
  ASSUME ClusterInv, NEW s \in Sessions, NEW f \in Frame, f.session = s, f.n = sent[s] + 1
  PROVE  /\ \A i \in Instances : \A p \in DOMAIN delivered[i] : Older(delivered[i][p].frame, f)
         /\ \A i \in Instances : \A p \in DOMAIN bus[i] : Older(bus[i][p].frame, f)
         /\ \A i \in Instances : \A p \in DOMAIN outbound[i] : Older(outbound[i][p], f)
<1>1. ASSUME NEW g \in Frame, g.n <= sent[g.session] PROVE Older(g, f)
  <2>1. g.session \in Sessions /\ g.n \in Nat /\ sent[s] \in Nat
    BY Contents DEF ClusterInv
  <2> QED BY <1>1, <2>1 DEF Older
<1>2. TypeOK /\ OriginInv
  BY DEF ClusterInv
<1> QED BY <1>1, <1>2, Contents DEF OriginInv

\* A session's frame is delivered at once on its own instance.
LEMMA PublishKeepsOrder ==
  ASSUME ClusterInv, NEW s \in Sessions, Publish(s) PROVE QueuesInOrder' /\ StagesInOrder'
<1> DEFINE f == NextFrame(s)
<1>1. TypeOK /\ OriginInv /\ QueuesInOrder /\ StagesInOrder
  BY DEF ClusterInv
<1>2. /\ f \in Frame /\ f.session = s /\ f.n = sent[s] + 1 /\ Home[s] \in Instances
      /\ Addressed(f) \in Key /\ handling' = [handling EXCEPT ![s] = f]
      /\ RouterPublish(Home[s], Addressed(f), f)
      /\ UNCHANGED <<outbound, bus>>
  BY <1>1, PublishStep, Contents
<1> HIDE DEF f
<1>3. ASSUME NEW i \in Instances, NEW p \in DOMAIN delivered'[i]
      PROVE  \/ p \in DOMAIN delivered[i] /\ delivered'[i][p] = delivered[i][p]
             \/ /\ i = Home[s] /\ p = Len(delivered[i]) + 1 /\ p \notin DOMAIN delivered[i]
                /\ delivered'[i][p].frame = f
  <2>1. \/ p \in DOMAIN delivered[i] /\ delivered'[i][p] = delivered[i][p]
        \/ /\ i = Home[s] /\ p = Len(delivered[Home[s]]) + 1 /\ p \notin DOMAIN delivered[Home[s]]
           /\ delivered'[i][p] = [key |-> Addressed(f), frame |-> f]
    BY <1>1, <1>2, RouterStep
  <2> QED BY <2>1
<1>4. handling'[s] = f /\ \A r \in Sessions : r # s => handling'[r] = handling[r]
  BY <1>1, <1>2 DEF TypeOK
<1>5. /\ \A i \in Instances : \A p \in DOMAIN delivered[i] : Older(delivered[i][p].frame, f)
      /\ \A i \in Instances : \A p \in DOMAIN bus[i] : Older(bus[i][p].frame, f)
      /\ \A i \in Instances : \A p \in DOMAIN outbound[i] : Older(outbound[i][p], f)
  BY <1>2, NewIsYounger
<1>6. ASSUME NEW i \in Instances, NEW p \in DOMAIN delivered'[i], NEW q \in DOMAIN delivered'[i], p < q
      PROVE  Older(delivered'[i][p].frame, delivered'[i][q].frame)
  <2>1. delivered[i] \in Seq(Delivery)
    BY <1>1, Contents
  <2>2. p \in DOMAIN delivered[i]
    BY <1>3, <1>6, <2>1, EarlierIsOld
  <2>3. delivered'[i][p] = delivered[i][p]
    BY <1>3, <2>2
  <2>4. CASE q \in DOMAIN delivered[i] /\ delivered'[i][q] = delivered[i][q]
    BY <1>1, <1>6, <2>2, <2>3, <2>4 DEF QueuesInOrder
  <2>5. CASE delivered'[i][q].frame = f
    BY <1>5, <2>2, <2>3, <2>5
  <2> QED BY <1>3, <2>4, <2>5
<1>7. ASSUME NEW i \in Instances, NEW p \in DOMAIN delivered'[i], NEW g \in Frame,
             p \in DOMAIN delivered[i] => Older(delivered[i][p].frame, g), Home[g.session] # i
      PROVE  Older(delivered'[i][p].frame, g)
  <2>1. CASE p \in DOMAIN delivered[i] /\ delivered'[i][p] = delivered[i][p]
    BY <1>7, <2>1
  <2>2. CASE i = Home[s] /\ delivered'[i][p].frame = f
    BY <1>2, <1>7, <2>2 DEF Older
  <2> QED BY <1>3, <2>1, <2>2
<1>8. \A i \in Instances : \A p \in DOMAIN delivered'[i], q \in DOMAIN bus'[i] :
        bus'[i][q].origin # i => Older(delivered'[i][p].frame, bus'[i][q].frame)
  <2> SUFFICES ASSUME NEW i \in Instances, NEW p \in DOMAIN delivered'[i], NEW q \in DOMAIN bus[i],
                      bus[i][q].origin # i
               PROVE  Older(delivered'[i][p].frame, bus[i][q].frame)
    BY <1>2
  <2>1. bus[i][q].frame \in Frame /\ Home[bus[i][q].frame.session] # i
    BY <1>1, Contents DEF OriginInv
  <2>2. p \in DOMAIN delivered[i] => Older(delivered[i][p].frame, bus[i][q].frame)
    BY <1>1 DEF StagesInOrder
  <2> QED BY <1>7, <2>1, <2>2
<1>9. \A i, j \in Instances : \A p \in DOMAIN delivered'[i], q \in DOMAIN outbound'[j] :
        i # j => Older(delivered'[i][p].frame, outbound'[j][q])
  <2> SUFFICES ASSUME NEW i \in Instances, NEW j \in Instances, NEW p \in DOMAIN delivered'[i],
                      NEW q \in DOMAIN outbound[j], i # j
               PROVE  Older(delivered'[i][p].frame, outbound[j][q])
    BY <1>2
  <2>1. outbound[j][q] \in Frame /\ Home[outbound[j][q].session] # i
    BY <1>1, Contents DEF OriginInv
  <2>2. p \in DOMAIN delivered[i] => Older(delivered[i][p].frame, outbound[j][q])
    BY <1>1 DEF StagesInOrder
  <2> QED BY <1>7, <2>1, <2>2
<1>10. ASSUME NEW r \in Sessions, NEW i \in Instances, handling'[r] # None
       PROVE  /\ i # Home[r] => \A p \in DOMAIN delivered'[i] : Older(delivered'[i][p].frame, handling'[r])
              /\ \A p \in DOMAIN bus[i] : Older(bus[i][p].frame, handling'[r])
              /\ \A p \in DOMAIN outbound[i] : Older(outbound[i][p], handling'[r])
  <2>1. CASE r = s
    <3>1. \A p \in DOMAIN bus[i] : Older(bus[i][p].frame, handling'[r])
      BY <1>4, <1>5, <2>1
    <3>2. \A p \in DOMAIN outbound[i] : Older(outbound[i][p], handling'[r])
      BY <1>4, <1>5, <2>1
    <3>3. i # Home[r] => \A p \in DOMAIN delivered'[i] : Older(delivered'[i][p].frame, handling'[r])
      BY <1>3, <1>4, <1>5, <2>1
    <3> QED BY <3>1, <3>2, <3>3
  <2>2. CASE r # s
    <3>1. handling'[r] = handling[r] /\ handling[r] \in Frame /\ handling[r].session = r
      BY <1>1, <1>4, <1>10, <2>2, Contents DEF OriginInv
    <3>2. \A p \in DOMAIN bus[i] : Older(bus[i][p].frame, handling'[r])
      BY <1>1, <1>10, <3>1 DEF StagesInOrder
    <3>3. \A p \in DOMAIN outbound[i] : Older(outbound[i][p], handling'[r])
      BY <1>1, <1>10, <3>1 DEF StagesInOrder
    <3>4. ASSUME i # Home[r], NEW p \in DOMAIN delivered'[i] PROVE Older(delivered'[i][p].frame, handling'[r])
      <4>1. p \in DOMAIN delivered[i] => Older(delivered[i][p].frame, handling[r])
        BY <1>1, <1>10, <3>1, <3>4 DEF StagesInOrder
      <4> QED BY <1>7, <3>1, <3>4, <4>1
    <3> QED BY <3>2, <3>3, <3>4
  <2> QED BY <2>1, <2>2
<1>11. QueuesInOrder'
  BY <1>1, <1>2, <1>6 DEF QueuesInOrder
<1>12. \A i, j \in Instances : \A p \in DOMAIN bus'[i], q \in DOMAIN outbound'[j] :
         Older(bus'[i][p].frame, outbound'[j][q])
  BY <1>1, <1>2 DEF StagesInOrder
<1>13. StagesInOrder'
  BY <1>2, <1>8, <1>9, <1>10, <1>12 DEF StagesInOrder
<1> QED BY <1>11, <1>13

\* The frame moves from the handler to the outbound queue.
LEMMA FanoutKeepsOrder ==
  ASSUME ClusterInv, NEW s \in Sessions, Fanout(s) PROVE QueuesInOrder' /\ StagesInOrder'
<1> DEFINE h == handling[s]
<1>1. TypeOK /\ OriginInv /\ QueuesInOrder /\ StagesInOrder
  BY DEF ClusterInv
<1>2. /\ h # None /\ h \in Frame /\ Home[s] \in Instances
      /\ handling'[s] = None
      /\ \A r \in Sessions : r # s => handling'[r] = handling[r]
      /\ UNCHANGED <<sent, bus, delivered, durable, stream>>
      /\ \A j \in Instances : \A p \in DOMAIN outbound'[j] :
           \/ p \in DOMAIN outbound[j] /\ outbound'[j][p] = outbound[j][p]
           \/ j = Home[s] /\ p = Len(outbound[j]) + 1 /\ p \notin DOMAIN outbound[j]
              /\ outbound'[j][p] = h
  BY <1>1, FanoutStep
<1>3. h.session = s
  BY <1>1, <1>2 DEF OriginInv
<1>4. \A i \in Instances :
        /\ i # Home[s] => \A p \in DOMAIN delivered[i] : Older(delivered[i][p].frame, h)
        /\ \A p \in DOMAIN bus[i] : Older(bus[i][p].frame, h)
        /\ \A p \in DOMAIN outbound[i] : Older(outbound[i][p], h)
  BY <1>1, <1>2 DEF StagesInOrder
<1> HIDE DEF h
<1>5. ASSUME NEW i \in Instances, NEW p \in DOMAIN outbound'[i], NEW q \in DOMAIN outbound'[i], p < q
      PROVE  Older(outbound'[i][p], outbound'[i][q])
  <2>1. outbound[i] \in Seq(Frame)
    BY <1>1, Contents
  <2>2. p \in DOMAIN outbound[i]
    BY <1>2, <1>5, <2>1, EarlierIsOld
  <2>3. outbound'[i][p] = outbound[i][p]
    BY <1>2, <2>2
  <2>4. CASE q \in DOMAIN outbound[i] /\ outbound'[i][q] = outbound[i][q]
    BY <1>1, <1>5, <2>2, <2>3, <2>4 DEF QueuesInOrder
  <2>5. CASE outbound'[i][q] = h
    BY <1>4, <2>2, <2>3, <2>5
  <2> QED BY <1>2, <2>4, <2>5
<1>6. \A i \in Instances : \A p \in DOMAIN delivered'[i], q \in DOMAIN bus'[i] :
        bus'[i][q].origin # i => Older(delivered'[i][p].frame, bus'[i][q].frame)
  BY <1>1, <1>2 DEF StagesInOrder
<1>7. ASSUME NEW i \in Instances, NEW j \in Instances, NEW p \in DOMAIN delivered[i],
             NEW q \in DOMAIN outbound'[j], i # j
      PROVE  Older(delivered[i][p].frame, outbound'[j][q])
  <2>1. CASE q \in DOMAIN outbound[j] /\ outbound'[j][q] = outbound[j][q]
    BY <1>1, <1>7, <2>1 DEF StagesInOrder
  <2>2. CASE j = Home[s] /\ outbound'[j][q] = h
    BY <1>4, <1>7, <2>2
  <2> QED BY <1>2, <2>1, <2>2
<1>8. ASSUME NEW i \in Instances, NEW j \in Instances, NEW p \in DOMAIN bus[i],
             NEW q \in DOMAIN outbound'[j]
      PROVE  Older(bus[i][p].frame, outbound'[j][q])
  <2>1. CASE q \in DOMAIN outbound[j] /\ outbound'[j][q] = outbound[j][q]
    BY <1>1, <2>1 DEF StagesInOrder
  <2>2. CASE outbound'[j][q] = h
    BY <1>4, <2>2
  <2> QED BY <1>2, <2>1, <2>2
<1>9. ASSUME NEW r \in Sessions, NEW i \in Instances, handling'[r] # None
      PROVE  /\ i # Home[r] => \A p \in DOMAIN delivered[i] : Older(delivered[i][p].frame, handling'[r])
             /\ \A p \in DOMAIN bus[i] : Older(bus[i][p].frame, handling'[r])
             /\ \A p \in DOMAIN outbound'[i] : Older(outbound'[i][p], handling'[r])
  <2>1. r # s /\ handling'[r] = handling[r]
    BY <1>2, <1>9
  <2>2. /\ i # Home[r] => \A p \in DOMAIN delivered[i] : Older(delivered[i][p].frame, handling[r])
        /\ \A p \in DOMAIN bus[i] : Older(bus[i][p].frame, handling[r])
        /\ \A p \in DOMAIN outbound[i] : Older(outbound[i][p], handling[r])
    BY <1>1, <1>9, <2>1 DEF StagesInOrder
  <2>3. handling[r].session = r
    BY <1>1, <1>9, <2>1 DEF OriginInv
  <2>4. Older(h, handling[r])
    BY <1>3, <2>1, <2>3 DEF Older
  <2>5. \A p \in DOMAIN outbound'[i] : Older(outbound'[i][p], handling[r])
    BY <1>2, <2>2, <2>4
  <2> QED BY <2>1, <2>2, <2>5
<1>10. QueuesInOrder'
  BY <1>1, <1>2, <1>5 DEF QueuesInOrder
<1>11. StagesInOrder'
  BY <1>2, <1>6, <1>7, <1>8, <1>9 DEF StagesInOrder
<1> QED BY <1>10, <1>11

\* A shorter outbound queue is in order as well.
LEMMA OutboundKeepsOrder ==
  ASSUME ClusterInv, NEW i \in Instances, RedisPublish(i) \/ RedisPublishFails(i)
  PROVE  /\ \A j \in Instances : \A q \in DOMAIN outbound'[j] :
              \E r \in DOMAIN outbound[j] : /\ outbound'[j][q] = outbound[j][r]
                                            /\ j = i => Older(outbound[i][1], outbound'[j][q])
         /\ \A j \in Instances : \A p, q \in DOMAIN outbound'[j] :
              p < q => Older(outbound'[j][p], outbound'[j][q])
<1>1. TypeOK /\ QueuesInOrder
  BY DEF ClusterInv
<1>2. ASSUME NEW q \in DOMAIN outbound'[i]
      PROVE  /\ q \in Nat /\ q + 1 \in DOMAIN outbound[i] /\ outbound'[i][q] = outbound[i][q + 1]
             /\ Older(outbound[i][1], outbound'[i][q])
  <2>1. /\ q \in Nat /\ q + 1 \in DOMAIN outbound[i] /\ outbound'[i][q] = outbound[i][q + 1]
        /\ 1 < q + 1 /\ 1 \in DOMAIN outbound[i]
    BY <1>1, OutboundLeaves
  <2> QED BY <1>1, <2>1 DEF QueuesInOrder
<1>3. \A j \in Instances : j # i => outbound'[j] = outbound[j]
  BY <1>1, OutboundLeaves
<1>4. ASSUME NEW p \in DOMAIN outbound'[i], NEW q \in DOMAIN outbound'[i], p < q
      PROVE  Older(outbound'[i][p], outbound'[i][q])
  <2>1. p + 1 < q + 1
    BY <1>2, <1>4
  <2> QED BY <1>1, <1>2, <2>1 DEF QueuesInOrder
<1>5. \A j \in Instances : \A p, q \in DOMAIN outbound'[j] : p < q => Older(outbound'[j][p], outbound'[j][q])
  BY <1>1, <1>3, <1>4 DEF QueuesInOrder
<1> QED BY <1>2, <1>3, <1>5

\* PUBLISH fails: nothing but the outbound queue changes.
LEMMA FailureKeepsOrder ==
  ASSUME ClusterInv, NEW i \in Instances, RedisPublishFails(i) PROVE QueuesInOrder' /\ StagesInOrder'
<1>1. QueuesInOrder /\ StagesInOrder
  BY DEF ClusterInv
<1>2. UNCHANGED <<handling, bus, delivered>>
  BY DEF RedisPublishFails
<1>3. \A j \in Instances : \A q \in DOMAIN outbound'[j] : \E r \in DOMAIN outbound[j] : outbound'[j][q] = outbound[j][r]
  BY OutboundKeepsOrder
<1>4. QueuesInOrder'
  BY <1>1, <1>2, OutboundKeepsOrder DEF QueuesInOrder
<1>5. StagesInOrder'
  BY <1>1, <1>2, <1>3 DEF StagesInOrder
<1> QED BY <1>4, <1>5

\* PUBLISH: the frame moves from the outbound queue to the bus.
LEMMA RedisKeepsOrder ==
  ASSUME ClusterInv, NEW i \in Instances, RedisPublish(i) PROVE QueuesInOrder' /\ StagesInOrder'
<1> DEFINE f == outbound[i][1]
<1>1. TypeOK /\ OriginInv /\ QueuesInOrder /\ StagesInOrder
  BY DEF ClusterInv
<1>2. UNCHANGED <<handling, delivered>> /\ 1 \in DOMAIN outbound[i]
  BY <1>1, OutboundLeaves DEF RedisPublish
<1>3. /\ \A j \in Instances : \A q \in DOMAIN outbound'[j] :
           \E r \in DOMAIN outbound[j] : /\ outbound'[j][q] = outbound[j][r]
                                         /\ j = i => Older(f, outbound'[j][q])
      /\ \A j \in Instances : \A p, q \in DOMAIN outbound'[j] : p < q => Older(outbound'[j][p], outbound'[j][q])
  BY OutboundKeepsOrder
<1>4. /\ \A j \in Instances : j # i => \A p \in DOMAIN delivered[j] : Older(delivered[j][p].frame, f)
      /\ \A j \in Instances : \A p \in DOMAIN bus[j] : Older(bus[j][p].frame, f)
      /\ \A s \in Sessions : handling[s] # None => Older(f, handling[s])
  BY <1>1, <1>2 DEF StagesInOrder
<1>5. Home[f.session] = i
  BY <1>1, <1>2 DEF OriginInv
<1>6. ASSUME NEW j \in Instances, NEW p \in DOMAIN bus'[j]
      PROVE  \/ p \in DOMAIN bus[j] /\ bus'[j][p] = bus[j][p]
             \/ p = Len(bus[j]) + 1 /\ p \notin DOMAIN bus[j] /\ bus'[j][p].origin = i /\ bus'[j][p].frame = f
  BY <1>1, BusJoins
<1> HIDE DEF f
<1>7. ASSUME NEW j \in Instances, NEW p \in DOMAIN bus'[j], NEW q \in DOMAIN bus'[j], p < q
      PROVE  Older(bus'[j][p].frame, bus'[j][q].frame)
  <2>1. bus[j] \in Seq(Envelope)
    BY <1>1, Contents
  <2>2. p \in DOMAIN bus[j]
    BY <1>6, <1>7, <2>1, EarlierIsOld
  <2>3. bus'[j][p] = bus[j][p]
    BY <1>6, <2>2
  <2>4. CASE q \in DOMAIN bus[j] /\ bus'[j][q] = bus[j][q]
    BY <1>1, <1>7, <2>2, <2>3, <2>4 DEF QueuesInOrder
  <2>5. CASE bus'[j][q].frame = f
    BY <1>4, <2>2, <2>3, <2>5
  <2> QED BY <1>6, <2>4, <2>5
<1>8. ASSUME NEW j \in Instances, NEW p \in DOMAIN delivered[j], NEW q \in DOMAIN bus'[j],
             bus'[j][q].origin # j
      PROVE  Older(delivered[j][p].frame, bus'[j][q].frame)
  <2>1. CASE q \in DOMAIN bus[j] /\ bus'[j][q] = bus[j][q]
    BY <1>1, <1>8, <2>1 DEF StagesInOrder
  <2>2. CASE bus'[j][q].origin = i /\ bus'[j][q].frame = f
    BY <1>4, <1>8, <2>2
  <2> QED BY <1>6, <2>1, <2>2
<1>9. \A j, l \in Instances : \A p \in DOMAIN delivered[j], q \in DOMAIN outbound'[l] :
        j # l => Older(delivered[j][p].frame, outbound'[l][q])
  BY <1>1, <1>3 DEF StagesInOrder
<1>10. ASSUME NEW j \in Instances, NEW l \in Instances, NEW p \in DOMAIN bus'[j], NEW q \in DOMAIN outbound'[l]
       PROVE  Older(bus'[j][p].frame, outbound'[l][q])
  <2>1. PICK r \in DOMAIN outbound[l] : outbound'[l][q] = outbound[l][r] /\ (l = i => Older(f, outbound'[l][q]))
    BY <1>3
  <2>2. CASE p \in DOMAIN bus[j] /\ bus'[j][p] = bus[j][p]
    BY <1>1, <2>1, <2>2 DEF StagesInOrder
  <2>3. CASE bus'[j][p].frame = f
    <3>1. CASE l = i
      BY <2>1, <2>3, <3>1
    <3>2. CASE l # i
      <4>1. Home[outbound[l][r].session] = l
        BY <1>1 DEF OriginInv
      <4> QED BY <1>5, <2>1, <2>3, <3>2, <4>1 DEF Older
    <3> QED BY <3>1, <3>2
  <2> QED BY <1>6, <2>2, <2>3
<1>11. ASSUME NEW s \in Sessions, NEW j \in Instances, handling[s] # None
       PROVE  /\ j # Home[s] => \A p \in DOMAIN delivered[j] : Older(delivered[j][p].frame, handling[s])
              /\ \A p \in DOMAIN bus'[j] : Older(bus'[j][p].frame, handling[s])
              /\ \A p \in DOMAIN outbound'[j] : Older(outbound'[j][p], handling[s])
  <2>1. j # Home[s] => \A p \in DOMAIN delivered[j] : Older(delivered[j][p].frame, handling[s])
    BY <1>1, <1>11 DEF StagesInOrder
  <2>2. \A p \in DOMAIN outbound'[j] : Older(outbound'[j][p], handling[s])
    BY <1>1, <1>3, <1>11 DEF StagesInOrder
  <2>3. \A p \in DOMAIN bus[j] : Older(bus[j][p].frame, handling[s])
    BY <1>1, <1>11 DEF StagesInOrder
  <2>4. \A p \in DOMAIN bus'[j] : Older(bus'[j][p].frame, handling[s])
    BY <1>4, <1>6, <1>11, <2>3
  <2> QED BY <2>1, <2>2, <2>4
<1>12. QueuesInOrder'
  BY <1>1, <1>2, <1>3, <1>7 DEF QueuesInOrder
<1>13. StagesInOrder'
  BY <1>2, <1>8, <1>9, <1>10, <1>11 DEF StagesInOrder
<1> QED BY <1>12, <1>13

\* The frame of an envelope moves from the bus to the router, unless it came from there.
LEMMA ReinjectKeepsOrder ==
  ASSUME ClusterInv, NEW i \in Instances, Reinject(i) PROVE QueuesInOrder' /\ StagesInOrder'
<1> DEFINE f == bus[i][1].frame
<1>1. TypeOK /\ OriginInv /\ QueuesInOrder /\ StagesInOrder
  BY DEF ClusterInv
<1>2. UNCHANGED <<handling, outbound>> /\ 1 \in DOMAIN bus[i] /\ f \in Frame
  BY <1>1, BusLeaves, ReinjectStep
<1>3. \A j \in Instances : j # i => bus'[j] = bus[j]
  BY <1>1, BusLeaves
<1>4. ASSUME NEW q \in DOMAIN bus'[i]
      PROVE  /\ q \in Nat /\ q + 1 \in DOMAIN bus[i] /\ bus'[i][q] = bus[i][q + 1]
             /\ Older(f, bus'[i][q].frame)
  <2>1. /\ q \in Nat /\ q + 1 \in DOMAIN bus[i] /\ bus'[i][q] = bus[i][q + 1] /\ 1 < q + 1
    BY <1>1, BusLeaves
  <2> QED BY <1>1, <1>2, <2>1 DEF QueuesInOrder
<1>5. \A j \in Instances : \A q \in DOMAIN bus'[j] :
        \E r \in DOMAIN bus[j] : bus'[j][q] = bus[j][r] /\ (j = i => Older(f, bus'[j][q].frame))
  BY <1>3, <1>4
<1>6. ASSUME NEW p \in DOMAIN bus'[i], NEW q \in DOMAIN bus'[i], p < q
      PROVE  Older(bus'[i][p].frame, bus'[i][q].frame)
  <2>1. p + 1 < q + 1
    BY <1>4, <1>6
  <2> QED BY <1>1, <1>4, <2>1 DEF QueuesInOrder
<1>7. \A j \in Instances : \A p, q \in DOMAIN bus'[j] : p < q => Older(bus'[j][p].frame, bus'[j][q].frame)
  BY <1>1, <1>3, <1>6 DEF QueuesInOrder
<1>8. /\ \A j \in Instances : \A q \in DOMAIN outbound[j] : Older(f, outbound[j][q])
      /\ \A s \in Sessions : handling[s] # None => Older(f, handling[s])
      /\ bus[i][1].origin # i => \A p \in DOMAIN delivered[i] : Older(delivered[i][p].frame, f)
  BY <1>1, <1>2 DEF StagesInOrder
<1>9. ASSUME NEW j \in Instances, NEW p \in DOMAIN delivered'[j]
      PROVE  \/ p \in DOMAIN delivered[j] /\ delivered'[j][p] = delivered[j][p]
             \/ /\ j = i /\ bus[i][1].origin # i /\ p = Len(delivered[j]) + 1 /\ p \notin DOMAIN delivered[j]
                /\ delivered'[j][p].frame = f
  <2>1. CASE bus[i][1].origin = i
    BY <1>1, <2>1, ReinjectStep
  <2>2. CASE bus[i][1].origin # i
    <3>1. Reinjected(i) \in Key /\ RouterPublish(i, Reinjected(i), f)
      BY <1>1, <2>2, ReinjectStep
    <3>2. \/ p \in DOMAIN delivered[j] /\ delivered'[j][p] = delivered[j][p]
          \/ /\ j = i /\ p = Len(delivered[i]) + 1 /\ p \notin DOMAIN delivered[i]
             /\ delivered'[j][p] = [key |-> Reinjected(i), frame |-> f]
      BY <1>1, <1>2, <3>1, RouterStep
    <3> QED BY <2>2, <3>2
  <2> QED BY <2>1, <2>2
<1> HIDE DEF f
<1>10. ASSUME NEW j \in Instances, NEW p \in DOMAIN delivered'[j], NEW q \in DOMAIN delivered'[j], p < q
       PROVE  Older(delivered'[j][p].frame, delivered'[j][q].frame)
  <2>1. delivered[j] \in Seq(Delivery)
    BY <1>1, Contents
  <2>2. p \in DOMAIN delivered[j]
    BY <1>9, <1>10, <2>1, EarlierIsOld
  <2>3. delivered'[j][p] = delivered[j][p]
    BY <1>9, <2>2
  <2>4. CASE q \in DOMAIN delivered[j] /\ delivered'[j][q] = delivered[j][q]
    BY <1>1, <1>10, <2>2, <2>3, <2>4 DEF QueuesInOrder
  <2>5. CASE j = i /\ bus[i][1].origin # i /\ delivered'[j][q].frame = f
    BY <1>8, <2>2, <2>3, <2>5
  <2> QED BY <1>9, <2>4, <2>5
<1>11. ASSUME NEW j \in Instances, NEW p \in DOMAIN delivered'[j], NEW q \in DOMAIN bus'[j],
              bus'[j][q].origin # j
       PROVE  Older(delivered'[j][p].frame, bus'[j][q].frame)
  <2>1. PICK r \in DOMAIN bus[j] : bus'[j][q] = bus[j][r] /\ (j = i => Older(f, bus'[j][q].frame))
    BY <1>5
  <2>2. CASE p \in DOMAIN delivered[j] /\ delivered'[j][p] = delivered[j][p]
    BY <1>1, <1>11, <2>1, <2>2 DEF StagesInOrder
  <2>3. CASE j = i /\ delivered'[j][p].frame = f
    BY <2>1, <2>3
  <2> QED BY <1>9, <2>2, <2>3
<1>12. ASSUME NEW j \in Instances, NEW l \in Instances, NEW p \in DOMAIN delivered'[j],
              NEW q \in DOMAIN outbound[l], j # l
       PROVE  Older(delivered'[j][p].frame, outbound[l][q])
  <2>1. CASE p \in DOMAIN delivered[j] /\ delivered'[j][p] = delivered[j][p]
    BY <1>1, <1>12, <2>1 DEF StagesInOrder
  <2>2. CASE delivered'[j][p].frame = f
    BY <1>8, <2>2
  <2> QED BY <1>9, <2>1, <2>2
<1>13. \A j, l \in Instances : \A p \in DOMAIN bus'[j], q \in DOMAIN outbound[l] :
         Older(bus'[j][p].frame, outbound[l][q])
  BY <1>1, <1>5 DEF StagesInOrder
<1>14. ASSUME NEW s \in Sessions, NEW j \in Instances, handling[s] # None
       PROVE  /\ j # Home[s] => \A p \in DOMAIN delivered'[j] : Older(delivered'[j][p].frame, handling[s])
              /\ \A p \in DOMAIN bus'[j] : Older(bus'[j][p].frame, handling[s])
              /\ \A p \in DOMAIN outbound[j] : Older(outbound[j][p], handling[s])
  <2>1. /\ j # Home[s] => \A p \in DOMAIN delivered[j] : Older(delivered[j][p].frame, handling[s])
        /\ \A p \in DOMAIN bus[j] : Older(bus[j][p].frame, handling[s])
        /\ \A p \in DOMAIN outbound[j] : Older(outbound[j][p], handling[s])
    BY <1>1, <1>14 DEF StagesInOrder
  <2>2. j # Home[s] => \A p \in DOMAIN delivered'[j] : Older(delivered'[j][p].frame, handling[s])
    BY <1>8, <1>9, <1>14, <2>1
  <2>3. \A p \in DOMAIN bus'[j] : Older(bus'[j][p].frame, handling[s])
    BY <1>5, <2>1
  <2> QED BY <2>1, <2>2, <2>3
<1>15. QueuesInOrder'
  BY <1>1, <1>2, <1>7, <1>10 DEF QueuesInOrder
<1>16. StagesInOrder'
  BY <1>2, <1>11, <1>12, <1>13, <1>14 DEF StagesInOrder
<1> QED BY <1>15, <1>16

\* No step puts frames of one session out of order.
LEMMA OrderStep == ClusterInv /\ [Next]_vars => QueuesInOrder' /\ StagesInOrder'
<1> SUFFICES ASSUME ClusterInv, [Next]_vars PROVE QueuesInOrder' /\ StagesInOrder'
  OBVIOUS
<1> USE DEF queues
<1>1. TypeOK /\ QueuesInOrder /\ StagesInOrder
  BY DEF ClusterInv
<1>2. ASSUME NEW s \in Sessions, Publish(s) \/ Fanout(s) PROVE QueuesInOrder' /\ StagesInOrder'
  BY <1>2, PublishKeepsOrder, FanoutKeepsOrder
<1>3. ASSUME NEW i \in Instances, RedisPublish(i) \/ RedisPublishFails(i) \/ Reinject(i)
      PROVE  QueuesInOrder' /\ StagesInOrder'
  BY <1>3, RedisKeepsOrder, FailureKeepsOrder, ReinjectKeepsOrder
<1>4. ASSUME NEW i \in Instances, SubscriptionEnds(i) PROVE QueuesInOrder' /\ StagesInOrder'
  <2>1. /\ bus' = [bus EXCEPT ![i] = << >>] /\ UNCHANGED <<handling, outbound, delivered>>
    BY <1>4 DEF SubscriptionEnds
  <2>2. \A j \in Instances : \A p \in DOMAIN bus'[j] : p \in DOMAIN bus[j] /\ bus'[j][p] = bus[j][p]
    BY <1>1, <2>1 DEF TypeOK
  <2>3. QueuesInOrder'
    BY <1>1, <2>1, <2>2 DEF QueuesInOrder
  <2>4. StagesInOrder'
    BY <1>1, <2>1, <2>2 DEF StagesInOrder
  <2> QED BY <2>3, <2>4
<1>5. ASSUME UNCHANGED <<handling, outbound, bus, delivered>> PROVE QueuesInOrder' /\ StagesInOrder'
  BY <1>1, <1>5 DEF QueuesInOrder, StagesInOrder
<1>6. ASSUME NEW i \in Instances, Persist(i) \/ PersistFails(i) PROVE QueuesInOrder' /\ StagesInOrder'
  BY <1>5, <1>6 DEF Persist, PersistFails
<1>7. CASE UNCHANGED vars
  BY <1>5, <1>7 DEF vars
<1> QED BY <1>2, <1>3, <1>4, <1>6, <1>7 DEF Next

-----------------------------------------------------------------------------
(* The durable history                                                     *)

\* More instances that may have kept a frame, the same copies.
LEMMA MoreKeepers ==
  ASSUME NEW S, NEW T, NEW U, ExistsInjection(S, T), T \subseteq U
  PROVE  ExistsInjection(S, U)
<1>1. PICK F \in Injection(S, T) : TRUE
  BY Fun_ExistsInj
<1>2. F \in [S -> T] /\ \A a, b \in S : F[a] = F[b] => a = b
  BY <1>1, Fun_InjectionProperties
<1>3. F \in [S -> U]
  BY <1>2
<1>4. F \in Injection(S, U)
  BY <1>2, <1>3, Fun_IsInj
<1> QED BY <1>4, Fun_ExistsInj

\* One copy more, and one instance more that may have kept it.
LEMMA OneMoreKeeper ==
  ASSUME NEW S, NEW T, NEW U, NEW x, NEW y, ExistsInjection(S, T),
         T \cup {y} \subseteq U, x \notin S, y \notin T
  PROVE  ExistsInjection(S \cup {x}, U)
<1>1. PICK F \in Injection(S, T) : TRUE
  BY Fun_ExistsInj
<1>2. F \in [S -> T] /\ \A a, b \in S : F[a] = F[b] => a = b
  BY <1>1, Fun_InjectionProperties
<1> DEFINE G == [a \in S \cup {x} |-> IF a = x THEN y ELSE F[a]]
<1>3. G \in [S \cup {x} -> U]
  BY <1>2
<1>4. \A a, b \in S \cup {x} : G[a] = G[b] => a = b
  BY <1>2
<1> HIDE DEF G
<1>5. G \in Injection(S \cup {x}, U)
  BY <1>3, <1>4, Fun_IsInj
<1> QED BY <1>5, Fun_ExistsInj

\* A router publishes a frame that is new to it.
LEMMA RouterKeepsHistory ==
  ASSUME ClusterInv, NEW i \in Instances, NEW k \in Key, NEW f \in Frame, RouterPublish(i, k, f),
         \A p \in DOMAIN delivered[i] : Older(delivered[i][p].frame, f), stream' = stream
  PROVE  DurableInv' /\ StreamInv'
<1> DEFINE d == [key |-> k, frame |-> f]
<1>1. TypeOK /\ DurableInv /\ StreamInv
  BY DEF ClusterInv
<1>2. /\ \A j \in Instances : j # i => delivered'[j] = delivered[j] /\ durable'[j] = durable[j]
      /\ \A j \in Instances : \A p \in DOMAIN delivered[j] :
           p \in DOMAIN delivered'[j] /\ delivered'[j][p] = delivered[j][p]
      /\ \E p \in DOMAIN delivered'[i] : delivered'[i][p] = d
      /\ durable'[i] = durable[i] \/ durable'[i] = Append(durable[i], d)
  BY <1>1, RouterStep
<1>3. d \in Delivery /\ d.frame = f
  BY DEF Delivery
<1>4. \A p \in DOMAIN delivered[i] : delivered[i][p] # d
  <2>1. f.n \in Nat
    BY <1>1, Contents
  <2>2. ~Older(f, f)
    BY <2>1 DEF Older
  <2> QED BY <1>3, <2>2
<1>5. \A p \in DOMAIN durable[i] : durable[i][p] # d
  BY <1>1, <1>4 DEF DurableInv
<1> HIDE DEF d
<1>6. ASSUME NEW p \in DOMAIN durable'[i]
      PROVE  \/ p \in DOMAIN durable[i] /\ durable'[i][p] = durable[i][p]
             \/ p = Len(durable[i]) + 1 /\ durable'[i][p] = d
  <2>1. durable[i] \in Seq(Delivery)
    BY <1>1, Contents
  <2> QED BY <1>2, <1>3, <2>1, Joined
<1>7. \A p \in DOMAIN durable'[i] : \E q \in DOMAIN delivered'[i] : delivered'[i][q] = durable'[i][p]
  <2> SUFFICES ASSUME NEW p \in DOMAIN durable'[i]
               PROVE  \E q \in DOMAIN delivered'[i] : delivered'[i][q] = durable'[i][p]
    OBVIOUS
  <2>1. CASE p \in DOMAIN durable[i] /\ durable'[i][p] = durable[i][p]
    <3>1. PICK q \in DOMAIN delivered[i] : delivered[i][q] = durable[i][p]
      BY <1>1, <2>1 DEF DurableInv
    <3> QED BY <1>2, <2>1, <3>1
  <2>2. CASE durable'[i][p] = d
    BY <1>2, <2>2
  <2> QED BY <1>6, <2>1, <2>2
<1>8. \A p, q \in DOMAIN durable'[i] : durable'[i][p] = durable'[i][q] => p = q
  BY <1>1, <1>5, <1>6 DEF DurableInv
<1>9. DurableInv'
  BY <1>1, <1>2, <1>7, <1>8 DEF DurableInv
<1>10. ASSUME NEW k2 \in Key, NEW f2 \in Frame PROVE Keepers(k2, f2) \subseteq Keepers(k2, f2)'
  <2> SUFFICES ASSUME NEW j \in Instances, Has(j, k2, f2), ~Waits(j, k2, f2)
               PROVE  Has(j, k2, f2)' /\ ~Waits(j, k2, f2)'
    BY DEF Keepers
  <2>1. Has(j, k2, f2)'
    BY <1>2 DEF Has
  <2>2. CASE j # i
    BY <1>2, <2>1, <2>2 DEF Waits
  <2>3. CASE j = i
    <3>1. [key |-> k2, frame |-> f2] # d
      BY <1>4, <2>3 DEF Has
    <3>2. ~Waits(j, k2, f2)'
      BY <1>6, <2>3, <3>1 DEF Waits
    <3> QED BY <2>1, <3>2
  <2> QED BY <2>2, <2>3
<1>11. \A k2 \in Key, f2 \in Frame : Kept(k2, f2)' = Kept(k2, f2)
  BY DEF Kept
<1>12. StreamInv'
  BY <1>1, <1>10, <1>11, MoreKeepers DEF StreamInv
<1> QED BY <1>9, <1>12

\* The task that XADDs takes one delivery off its queue and keeps it, or fails to.
LEMMA PersistKeepsHistory ==
  ASSUME ClusterInv, NEW i \in Instances, Persist(i) \/ PersistFails(i)
  PROVE  DurableInv' /\ StreamInv'
<1> DEFINE d == durable[i][1]
<1>1. TypeOK /\ DurableInv /\ StreamInv
  BY DEF ClusterInv
<1>2. /\ \A j \in Instances : j # i => durable'[j] = durable[j]
      /\ 1 \in DOMAIN durable[i] /\ Head(durable[i]) = d /\ d \in Delivery
      /\ \A p \in DOMAIN durable'[i] :
           p \in Nat /\ p + 1 \in DOMAIN durable[i] /\ 1 < p + 1 /\ durable'[i][p] = durable[i][p + 1]
  BY <1>1, DurableLeaves
<1>3. delivered' = delivered
  BY DEF Persist, PersistFails
<1>4. \A p \in DOMAIN durable'[i] : durable'[i][p] # d
  BY <1>1, <1>2 DEF DurableInv
<1>5. \A p, q \in DOMAIN durable'[i] : durable'[i][p] = durable'[i][q] => p = q
  <2> SUFFICES ASSUME NEW p \in DOMAIN durable'[i], NEW q \in DOMAIN durable'[i],
                      durable'[i][p] = durable'[i][q]
               PROVE  p = q
    OBVIOUS
  <2>1. p + 1 = q + 1
    BY <1>1, <1>2 DEF DurableInv
  <2> QED BY <1>2, <2>1
<1>6. \A p \in DOMAIN durable'[i] : \E q \in DOMAIN delivered[i] : delivered[i][q] = durable'[i][p]
  BY <1>1, <1>2 DEF DurableInv
<1>7. DurableInv'
  BY <1>1, <1>2, <1>3, <1>5, <1>6 DEF DurableInv
<1>8. ASSUME NEW k \in Key, NEW f \in Frame PROVE Keepers(k, f) \subseteq Keepers(k, f)'
  <2> SUFFICES ASSUME NEW j \in Instances, Has(j, k, f), ~Waits(j, k, f)
               PROVE  Has(j, k, f)' /\ ~Waits(j, k, f)'
    BY DEF Keepers
  <2>1. Has(j, k, f)'
    BY <1>3 DEF Has
  <2>2. ~Waits(j, k, f)'
    <3>1. CASE j # i
      BY <1>2, <3>1 DEF Waits
    <3>2. CASE j = i
      BY <1>2, <3>2 DEF Waits
    <3> QED BY <3>1, <3>2
  <2> QED BY <2>1, <2>2
<1>9. CASE PersistFails(i)
  <2>1. \A k \in Key, f \in Frame : Kept(k, f)' = Kept(k, f)
    BY <1>9 DEF PersistFails, Kept
  <2>2. StreamInv'
    BY <1>1, <1>8, <2>1, MoreKeepers DEF StreamInv
  <2> QED BY <1>7, <2>2
<1>10. CASE Persist(i)
  <2>1. PICK k0 \in Key, f0 \in Frame : d = [key |-> k0, frame |-> f0]
    BY <1>2 DEF Delivery
  <2>2. stream' = [stream EXCEPT ![k0] = Append(stream[k0], f0)]
    <3>1. Head(durable[i]).key = k0 /\ Head(durable[i]).frame = f0
      BY <1>2, <2>1
    <3> QED BY <1>10, <3>1 DEF Persist
  <2> DEFINE last == Len(stream[k0]) + 1
  <2>3. /\ \A k \in Key : k # k0 => stream'[k] = stream[k]
        /\ stream'[k0] = Append(stream[k0], f0) /\ stream[k0] \in Seq(Frame)
    BY <1>1, <2>1, <2>2 DEF TypeOK
  <2>4. /\ \A p \in DOMAIN stream[k0] : p \in DOMAIN stream'[k0] /\ stream'[k0][p] = stream[k0][p]
        /\ \A p \in DOMAIN stream'[k0] :
             \/ p \in DOMAIN stream[k0] /\ stream'[k0][p] = stream[k0][p]
             \/ p \notin DOMAIN stream[k0] /\ p = last /\ stream'[k0][p] = f0
        /\ last \in DOMAIN stream'[k0] /\ last \notin DOMAIN stream[k0]
    <3>1. Len(stream[k0]) \in Nat /\ DOMAIN stream[k0] = 1..Len(stream[k0])
      BY <2>3, LenProperties
    <3> QED BY <2>1, <2>3, <3>1, Joined
  <2> HIDE DEF last
  <2>5. ASSUME NEW k \in Key, NEW f \in Frame, k # k0 \/ f # f0
        PROVE  ExistsInjection(Kept(k, f), Keepers(k, f))'
    <3>1. Kept(k, f)' = Kept(k, f)
      <4>1. CASE k # k0
        BY <2>3, <4>1 DEF Kept
      <4>2. CASE k = k0
        BY <2>4, <2>5, <4>2 DEF Kept
      <4> QED BY <4>1, <4>2
    <3>2. ExistsInjection(Kept(k, f), Keepers(k, f))
      BY <1>1 DEF StreamInv
    <3>3. ExistsInjection(Kept(k, f), Keepers(k, f)')
      BY <1>8, <3>2, MoreKeepers
    <3> QED BY <3>1, <3>3
  <2>6. ExistsInjection(Kept(k0, f0), Keepers(k0, f0))'
    <3>1. Kept(k0, f0)' = Kept(k0, f0) \cup {last} /\ last \notin Kept(k0, f0)
      BY <2>4 DEF Kept
    <3>2. i \notin Keepers(k0, f0)
      BY <1>2, <2>1 DEF Keepers, Waits
    <3>3. i \in Keepers(k0, f0)'
      <4>1. Has(i, k0, f0)'
        BY <1>1, <1>2, <1>3, <2>1 DEF Has, DurableInv
      <4>2. ~Waits(i, k0, f0)'
        BY <1>4, <2>1 DEF Waits
      <4> QED BY <4>1, <4>2 DEF Keepers
    <3>4. ExistsInjection(Kept(k0, f0), Keepers(k0, f0))
      BY <1>1, <2>1 DEF StreamInv
    <3>5. Keepers(k0, f0) \cup {i} \subseteq Keepers(k0, f0)'
      BY <1>8, <2>1, <3>3
    <3>6. ExistsInjection(Kept(k0, f0) \cup {last}, Keepers(k0, f0)')
      BY <3>1, <3>2, <3>4, <3>5, OneMoreKeeper
    <3> QED BY <3>1, <3>6
  <2>7. StreamInv'
    BY <2>5, <2>6 DEF StreamInv
  <2> QED BY <1>7, <2>7
<1> QED BY <1>9, <1>10

\* No step puts a frame into a stream more often than it was delivered on that key.
LEMMA HistoryStep == ClusterInv /\ [Next]_vars => DurableInv' /\ StreamInv'
<1> SUFFICES ASSUME ClusterInv, [Next]_vars PROVE DurableInv' /\ StreamInv'
  OBVIOUS
<1> USE DEF queues
<1>1. TypeOK /\ DurableInv /\ StreamInv /\ StagesInOrder
  BY DEF ClusterInv
<1>2. ASSUME UNCHANGED <<delivered, durable, stream>> PROVE DurableInv' /\ StreamInv'
  BY <1>1, <1>2 DEF DurableInv, StreamInv, Kept, Keepers, Has, Waits
<1>3. ASSUME NEW s \in Sessions, Publish(s) PROVE DurableInv' /\ StreamInv'
  <2>1. /\ NextFrame(s) \in Frame /\ NextFrame(s).session = s /\ NextFrame(s).n = sent[s] + 1
        /\ Home[s] \in Instances /\ Addressed(NextFrame(s)) \in Key
        /\ RouterPublish(Home[s], Addressed(NextFrame(s)), NextFrame(s)) /\ stream' = stream
    BY <1>1, <1>3, PublishStep, Contents
  <2>2. \A p \in DOMAIN delivered[Home[s]] : Older(delivered[Home[s]][p].frame, NextFrame(s))
    BY <2>1, NewIsYounger
  <2> QED BY <2>1, <2>2, RouterKeepsHistory
<1>4. ASSUME NEW i \in Instances, Reinject(i) PROVE DurableInv' /\ StreamInv'
  <2>1. 1 \in DOMAIN bus[i] /\ bus[i][1].frame \in Frame /\ stream' = stream
    BY <1>1, <1>4, BusLeaves, ReinjectStep
  <2>2. CASE bus[i][1].origin = i
    BY <1>1, <1>2, <1>4, <2>1, <2>2, ReinjectStep
  <2>3. CASE bus[i][1].origin # i
    <3>1. Reinjected(i) \in Key /\ RouterPublish(i, Reinjected(i), bus[i][1].frame)
      BY <1>1, <1>4, <2>3, ReinjectStep
    <3>2. \A p \in DOMAIN delivered[i] : Older(delivered[i][p].frame, bus[i][1].frame)
      BY <1>1, <2>1, <2>3 DEF StagesInOrder
    <3> QED BY <2>1, <3>1, <3>2, RouterKeepsHistory
  <2> QED BY <2>2, <2>3
<1>5. ASSUME NEW s \in Sessions, Fanout(s) PROVE DurableInv' /\ StreamInv'
  BY <1>2, <1>5 DEF Fanout
<1>6. ASSUME NEW i \in Instances, RedisPublish(i) \/ RedisPublishFails(i) \/ SubscriptionEnds(i)
      PROVE  DurableInv' /\ StreamInv'
  BY <1>2, <1>6 DEF RedisPublish, RedisPublishFails, SubscriptionEnds
<1>7. ASSUME NEW i \in Instances, Persist(i) \/ PersistFails(i) PROVE DurableInv' /\ StreamInv'
  BY <1>7, PersistKeepsHistory
<1>8. CASE UNCHANGED vars
  BY <1>2, <1>8 DEF vars
<1> QED BY <1>3, <1>4, <1>5, <1>6, <1>7, <1>8 DEF Next

-----------------------------------------------------------------------------

\* Nothing has been sent: the invariant holds at the start.
LEMMA InitInv == Init => ClusterInv
<1> SUFFICES ASSUME Init PROVE ClusterInv
  OBVIOUS
<1>1. TypeOK
  BY TypeInit
<1>2. /\ \A i \in Instances : outbound[i] = << >> /\ bus[i] = << >> /\ delivered[i] = << >> /\ durable[i] = << >>
      /\ \A s \in Sessions : handling[s] = None
      /\ pushes = {} /\ \A k \in Key : stream[k] = << >>
  BY DEF Init
<1>3. OriginInv /\ QueuesInOrder /\ StagesInOrder /\ DurableInv
  BY <1>2 DEF OriginInv, QueuesInOrder, StagesInOrder, DurableInv
<1>4. ASSUME NEW k \in Key, NEW f \in Frame PROVE ExistsInjection(Kept(k, f), Keepers(k, f))
  <2>1. Kept(k, f) = {}
    BY <1>2 DEF Kept
  <2>2. ExistsInjection({}, {})
    BY Fun_ExistsInjReflexive
  <2> QED BY <2>1, <2>2, MoreKeepers
<1> QED BY <1>1, <1>3, <1>4 DEF ClusterInv, StreamInv

\* The strengthened invariant holds in every state of the cluster.
THEOREM ClusterInvariant == Spec => []ClusterInv
<1>1. ClusterInv /\ [Next]_vars => ClusterInv'
  BY TypeStep, OriginStep, OrderStep, HistoryStep DEF ClusterInv
<1> QED BY <1>1, InitInv, PTL DEF Spec

\* No echo: RedisClusterAdapter never makes a router publish one frame twice, whatever
\* Redis loses and whichever subscription ends.
THEOREM DeliveredOnce == Spec => []DeliveredOncePerInstance
<1>1. ClusterInv => DeliveredOncePerInstance
  <2> SUFFICES ASSUME ClusterInv, NEW i \in Instances, NEW p \in DOMAIN delivered[i],
                      NEW q \in DOMAIN delivered[i], delivered[i][p].frame = delivered[i][q].frame
               PROVE  p = q
    BY DEF DeliveredOncePerInstance
  <2>1. p \in Nat /\ q \in Nat /\ delivered[i][p].frame.n \in Nat
    BY Contents DEF ClusterInv
  <2>2. ~Older(delivered[i][p].frame, delivered[i][q].frame) /\ ~Older(delivered[i][q].frame, delivered[i][p].frame)
    BY <2>1 DEF Older
  <2>3. ~(p < q) /\ ~(q < p)
    BY <2>2 DEF ClusterInv, QueuesInOrder
  <2> QED BY <2>1, <2>3
<1> QED BY <1>1, ClusterInvariant, PTL

\* The frames of a session reach every instance in the order the session sent them,
\* those that reach it at all.
THEOREM OrderOfASessionKept == Spec => []SessionOrderKept
<1>1. ClusterInv => SessionOrderKept
  <2> SUFFICES ASSUME ClusterInv, NEW i \in Instances, NEW p \in DOMAIN delivered[i],
                      NEW q \in DOMAIN delivered[i],
                      delivered[i][p].frame.session = delivered[i][q].frame.session,
                      delivered[i][p].frame.n < delivered[i][q].frame.n
               PROVE  p < q
    BY DEF SessionOrderKept
  <2>1. p \in Nat /\ q \in Nat /\ delivered[i][p].frame.n \in Nat /\ delivered[i][q].frame.n \in Nat
    BY Contents DEF ClusterInv
  <2>2. ~Older(delivered[i][q].frame, delivered[i][p].frame)
    BY <2>1 DEF Older
  <2>3. ~(q < p)
    BY <2>2 DEF ClusterInv, QueuesInOrder
  <2>4. p # q
    BY <2>1
  <2> QED BY <2>1, <2>3, <2>4
<1> QED BY <1>1, ClusterInvariant, PTL

\* One push job per frame in the whole cluster: only publish_and_fanout submits it, on
\* the instance of the sender.
THEOREM OnePushPerFrame == Spec => []PushedAtMostOnce
<1>1. ClusterInv => PushedAtMostOnce
  <2> SUFFICES ASSUME ClusterInv, NEW x \in pushes, NEW y \in pushes, x[2] = y[2] PROVE x = y
    BY DEF PushedAtMostOnce
  <2>1. x \in Instances \X Frame /\ y \in Instances \X Frame
    BY DEF ClusterInv, TypeOK
  <2>2. x[1] = y[1]
    BY DEF ClusterInv, OriginInv
  <2> QED BY <2>1, <2>2
<1> QED BY <1>1, ClusterInvariant, PTL

\* The durable stream of a key holds a frame no more often than instances have
\* delivered it on that key, over failures of XADD and full queues.
THEOREM StreamsHoldDeliveries == Spec => []StreamHoldsDeliveries
<1>1. ClusterInv => StreamHoldsDeliveries
  <2> SUFFICES ASSUME ClusterInv, NEW k \in Key, NEW p \in DOMAIN stream[k]
               PROVE  LET f == stream[k][p]
                          at == {i \in Instances : \E q \in Places(i, f) : delivered[i][q].key = k}
                      IN  Cardinality({q \in DOMAIN stream[k] : stream[k][q] = f}) <= Cardinality(at)
    BY DEF StreamHoldsDeliveries
  <2> DEFINE f == stream[k][p]
             at == {i \in Instances : \E q \in Places(i, f) : delivered[i][q].key = k}
  <2>1. f \in Frame
    BY Positions DEF ClusterInv, TypeOK
  <2>2. Keepers(k, f) \subseteq at
    <3> SUFFICES ASSUME NEW i \in Instances, Has(i, k, f) PROVE i \in at
      BY DEF Keepers
    <3>1. PICK q \in DOMAIN delivered[i] : delivered[i][q] = [key |-> k, frame |-> f]
      BY DEF Has
    <3>2. delivered[i][q].key = k /\ q \in Places(i, f)
      BY <3>1 DEF Places
    <3> QED BY <3>2
  <2>3. ExistsInjection(Kept(k, f), Keepers(k, f))
    BY <2>1 DEF ClusterInv, StreamInv
  <2>4. IsFiniteSet(at)
    BY ClusterAssumption, FS_Subset
  <2> HIDE DEF f, at
  <2>5. PICK F \in Injection(Kept(k, f), at) : TRUE
    BY <2>2, <2>3, MoreKeepers, Fun_ExistsInj
  <2>6. Cardinality(Kept(k, f)) <= Cardinality(at)
    BY <2>4, <2>5, FS_Injection
  <2> QED BY <2>6 DEF Kept, f, at
<1> QED BY <1>1, ClusterInvariant, PTL
=============================================================================
