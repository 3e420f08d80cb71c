---------------------------- MODULE ChannelRouter ----------------------------
(***************************************************************************)
(* ChannelRouterService over ChannelStateRepository: the in-memory router  *)
(* that every PUB, UNICAST, SUB, presence event and cluster frame goes     *)
(* through.                                                                *)
(*                                                                         *)
(* Every bus (tokio broadcast::Sender) is an object with an identity: the  *)
(* bus of a pattern can leave the map and be created anew while another    *)
(* thread still holds a clone of the old one.  A step is a span during     *)
(* which the code holds one DashMap shard lock:                            *)
(*   - subscribe on a channel: lookup, creation and subscribe() together;  *)
(*   - subscribe on a pattern: the clone of the sender leaves the lock     *)
(*     before subscribe() is called on it;                                 *)
(*   - publish: history and exact bus together, then a scan of the pattern *)
(*     map entry by entry, then one send per sender the scan has cloned;   *)
(*   - prune_dead_wildcards: entry by entry.                               *)
(*                                                                         *)
(* Operators whose name starts with Faulty are not part of the model: each *)
(* is a plausible slip in the definition that follows it, there to show    *)
(* that a property would notice.                                           *)
(***************************************************************************)
EXTENDS Addressing, FiniteSets, SequencesExt

CONSTANTS
  Receivers,         \* broadcast::Receiver objects, one per subscription
  Publishers,        \* threads inside ChannelRouterService::publish
  HistoryCapacity,   \* history_capacity of every HistoryBuffer
  MaxSenders         \* bound: broadcast buses ever created

ASSUME RouterAssumption ==
  /\ IsFiniteSet(Receivers)
  /\ HistoryCapacity \in Nat \ {0}
  /\ MaxSenders \in Nat

VARIABLES
  channels,     \* channels[k]: the bus of channel k, NoSender when k has no entry
  history,      \* history[k]: the HistoryBuffer of k, oldest first
  wildcards,    \* wildcards[w]: the bus of pattern w, NoSender when w has no entry
  nextSender,   \* identity of the next bus to be created
  target,       \* target[r]: what receiver r was made for
  bus,          \* bus[r]: the sender r is attached to, or whose clone it holds
  stage,        \* stage[r]: where the life of receiver r stands
  inbox,        \* inbox[r]: everything its bus has handed to r
  pub,          \* pub[p]: the local variables of publisher p
  published,    \* messages whose publication has begun
  pruning       \* patterns the running prune_dead_wildcards has yet to visit

NoSender == 0
Senders  == 1..MaxSenders

vars == <<channels, history, wildcards, nextSender, target, bus, stage, inbox,
          pub, published, pruning>>

\* A publisher between calls, and inside one.  "audience" is an observation:
\* the receivers attached, when publish was called, to what covers the channel.
Idle == [phase |-> "idle"]
Call == [phase : {"exact", "fanout"}, msg : Message,
         unseen : SUBSET WildcardKey, senders : SUBSET Senders,
         delivered : Nat, audience : SUBSET Receivers]

TypeOK ==
  /\ channels \in [ChannelKey -> Senders \cup {NoSender}]
  /\ history \in [ChannelKey -> Seq(Message)]
  /\ wildcards \in [WildcardKey -> Senders \cup {NoSender}]
  /\ nextSender \in 1..(MaxSenders + 1)
  /\ target \in [Receivers -> Target \cup {NoTarget}]
  /\ bus \in [Receivers -> Senders \cup {NoSender}]
  /\ stage \in [Receivers -> {"free", "cloned", "attached", "dropped"}]
  /\ inbox \in [Receivers -> Seq(Message)]
  /\ pub \in [Publishers -> {Idle} \cup Call]
  /\ published \in SUBSET Message
  /\ pruning \in SUBSET WildcardKey

Init ==
  /\ channels = [k \in ChannelKey |-> NoSender]
  /\ history = [k \in ChannelKey |-> << >>]
  /\ wildcards = [w \in WildcardKey |-> NoSender]
  /\ nextSender = 1
  /\ target = [r \in Receivers |-> NoTarget]
  /\ bus = [r \in Receivers |-> NoSender]
  /\ stage = [r \in Receivers |-> "free"]
  /\ inbox = [r \in Receivers |-> << >>]
  /\ pub = [p \in Publishers |-> Idle]
  /\ published = {}
  /\ pruning = {}

-----------------------------------------------------------------------------
(* Storage                                                                 *)

\* The receivers attached to bus s; receiver_count() is their number.
Attached(s) == {r \in Receivers : stage[r] = "attached" /\ bus[r] = s}

\* entry(..).or_insert_with(..) on one of the two maps: the bus of k, created
\* on first use.
GetOrCreate(map, k) ==
  IF map[k] = NoSender THEN [map EXCEPT ![k] = nextSender] ELSE map

\* The identity that creation uses up.
TakeSender(map, k) ==
  IF map[k] = NoSender
    THEN nextSender \in Senders /\ nextSender' = nextSender + 1
    ELSE UNCHANGED nextSender

FaultyPushKeepsOldest(h, m) ==
  IF Len(h) = HistoryCapacity THEN h ELSE Append(h, m)

\* HistoryBuffer::push: at capacity the oldest entry makes room.
Push(h, m) ==
  IF Len(h) = HistoryCapacity THEN Append(Tail(h), m) ELSE Append(h, m)

\* broadcast::Sender::send: every attached receiver, or nobody at all.
Send(s, m) ==
  inbox' = [r \in Receivers |->
              IF r \in Attached(s) THEN Append(inbox[r], m) ELSE inbox[r]]

-----------------------------------------------------------------------------
(* Subscriptions                                                           *)

\* subscribe, for a session of tenant t; a name with a '*' never gets here.
Subscribe(r, t, k) ==
  /\ t = k.tenant
  /\ k.name \notin Patterns
  /\ stage[r] = "free"
  /\ channels' = GetOrCreate(channels, k)
  /\ TakeSender(channels, k)
  /\ target' = [target EXCEPT ![r] = k]
  /\ bus' = [bus EXCEPT ![r] = channels'[k]]
  /\ stage' = [stage EXCEPT ![r] = "attached"]
  /\ UNCHANGED <<history, wildcards, inbox, pub, published, pruning>>

\* subscribe_wildcard, first half: get_or_create_wildcard_sender hands out a
\* clone, and the lock on the entry ends with it.
CloneWildcardSender(r, w) ==
  /\ stage[r] = "free"
  /\ wildcards' = GetOrCreate(wildcards, w)
  /\ TakeSender(wildcards, w)
  /\ target' = [target EXCEPT ![r] = w]
  /\ bus' = [bus EXCEPT ![r] = wildcards'[w]]
  /\ stage' = [stage EXCEPT ![r] = "cloned"]
  /\ UNCHANGED <<channels, history, inbox, pub, published, pruning>>

\* subscribe_wildcard, second half: subscribe() on the clone.
AttachToClone(r) ==
  /\ stage[r] = "cloned"
  /\ stage' = [stage EXCEPT ![r] = "attached"]
  /\ UNCHANGED <<channels, history, wildcards, nextSender, target, bus, inbox,
                 pub, published, pruning>>

\* The relay task that owns the receiver ends and drops it.
DropReceiver(r) ==
  /\ stage[r] = "attached"
  /\ stage' = [stage EXCEPT ![r] = "dropped"]
  /\ bus' = [bus EXCEPT ![r] = NoSender]
  /\ target' = [target EXCEPT ![r] = NoTarget]
  /\ UNCHANGED <<channels, history, wildcards, nextSender, inbox, pub, published,
                 pruning>>

-----------------------------------------------------------------------------
(* Publication                                                             *)

\* publish is called by a session of tenant t; the mismatch returns an error
\* and touches nothing.
PublishBegin(p, t, m) ==
  /\ t = m.key.tenant
  /\ pub[p] = Idle
  /\ \A n \in published : n.id # m.id
  /\ published' = published \cup {m}
  /\ pub' = [pub EXCEPT ![p] =
       [phase |-> "exact", msg |-> m, unseen |-> {}, senders |-> {}, delivered |-> 0,
        audience |-> {r \in Receivers : stage[r] = "attached" /\ Covers(target[r], m.key)}]]
  /\ UNCHANGED <<channels, history, wildcards, nextSender, target, bus, stage,
                 inbox, pruning>>

\* Patterns are visited only when the channel itself has no subscriber.
FaultyExactOnly(p) ==
  LET m == pub[p].msg IN
  /\ pub[p].phase = "exact"
  /\ channels' = GetOrCreate(channels, m.key)
  /\ TakeSender(channels, m.key)
  /\ history' = [history EXCEPT ![m.key] = Push(@, m)]
  /\ Send(channels'[m.key], m)
  /\ pub' = [pub EXCEPT ![p].phase = "fanout",
                        ![p].unseen = IF Attached(channels'[m.key]) = {} THEN WildcardKey ELSE {},
                        ![p].delivered = Cardinality(Attached(channels'[m.key]))]
  /\ UNCHANGED <<wildcards, target, bus, stage, published, pruning>>

\* Under the entry lock: history, then the exact bus.
PublishExact(p) ==
  LET m == pub[p].msg IN
  /\ pub[p].phase = "exact"
  /\ channels' = GetOrCreate(channels, m.key)
  /\ TakeSender(channels, m.key)
  /\ history' = [history EXCEPT ![m.key] = Push(@, m)]
  /\ Send(channels'[m.key], m)
  /\ pub' = [pub EXCEPT ![p].phase = "fanout", ![p].unseen = WildcardKey,
                        ![p].delivered = Cardinality(Attached(channels'[m.key]))]
  /\ UNCHANGED <<wildcards, target, bus, stage, published, pruning>>

\* The tenant of the pattern is not compared.
FaultyScanAnyTenant(p, w) ==
  /\ pub[p].phase = "fanout"
  /\ w \in pub[p].unseen
  /\ pub' = [pub EXCEPT
       ![p].unseen = @ \ {w},
       ![p].senders = IF wildcards[w] # NoSender /\ <<w.name, pub[p].msg.key.name>> \in Match
                        THEN @ \cup {wildcards[w]} ELSE @]
  /\ UNCHANGED <<channels, history, wildcards, nextSender, target, bus, stage,
                 inbox, published, pruning>>

\* snapshot_wildcards visits one entry; only a matching pattern of the same
\* tenant will be sent to.
PublishScan(p, w) ==
  /\ pub[p].phase = "fanout"
  /\ w \in pub[p].unseen
  /\ pub' = [pub EXCEPT
       ![p].unseen = @ \ {w},
       ![p].senders = IF wildcards[w] # NoSender /\ Covers(w, pub[p].msg.key)
                        THEN @ \cup {wildcards[w]} ELSE @]
  /\ UNCHANGED <<channels, history, wildcards, nextSender, target, bus, stage,
                 inbox, published, pruning>>

\* The count of the fan-out is not added up.
FaultyFanoutUncounted(p, s) ==
  /\ pub[p].phase = "fanout"
  /\ pub[p].unseen = {}
  /\ s \in pub[p].senders
  /\ Send(s, pub[p].msg)
  /\ pub' = [pub EXCEPT ![p].senders = @ \ {s}]
  /\ UNCHANGED <<channels, history, wildcards, nextSender, target, bus, stage,
                 published, pruning>>

\* One send of the fan-out loop.
PublishFanout(p, s) ==
  /\ pub[p].phase = "fanout"
  /\ pub[p].unseen = {}
  /\ s \in pub[p].senders
  /\ Send(s, pub[p].msg)
  /\ pub' = [pub EXCEPT ![p].senders = @ \ {s},
                        ![p].delivered = @ + Cardinality(Attached(s))]
  /\ UNCHANGED <<channels, history, wildcards, nextSender, target, bus, stage,
                 published, pruning>>

\* Every pattern was visited and every clone sent to.
Spent(p) == pub[p].phase = "fanout" /\ pub[p].unseen = {} /\ pub[p].senders = {}

\* publish returns the number of receivers it has reached.
PublishReturn(p) ==
  /\ Spent(p)
  /\ pub' = [pub EXCEPT ![p] = Idle]
  /\ UNCHANGED <<channels, history, wildcards, nextSender, target, bus, stage,
                 inbox, published, pruning>>

-----------------------------------------------------------------------------
(* REPLAY and housekeeping                                                 *)

\* replay from the ring buffer creates the channel it reads.
Replay(t, k) ==
  /\ t = k.tenant
  /\ channels[k] = NoSender
  /\ channels' = GetOrCreate(channels, k)
  /\ TakeSender(channels, k)
  /\ UNCHANGED <<history, wildcards, target, bus, stage, inbox, pub, published, pruning>>

\* A channel without history goes, subscribers or not.
FaultyPruneSubscribed(k) ==
  /\ channels[k] # NoSender
  /\ history[k] = << >>
  /\ channels' = [channels EXCEPT ![k] = NoSender]
  /\ UNCHANGED <<history, wildcards, nextSender, target, bus, stage, inbox, pub,
                 published, pruning>>

\* prune_empty: no receiver and nothing to replay, tested under the entry lock.
PruneEmpty(k) ==
  /\ channels[k] # NoSender
  /\ Attached(channels[k]) = {}
  /\ history[k] = << >>
  /\ channels' = [channels EXCEPT ![k] = NoSender]
  /\ UNCHANGED <<history, wildcards, nextSender, target, bus, stage, inbox, pub,
                 published, pruning>>

\* A tick of the heartbeat loop starts prune_dead_wildcards (an entry that is
\* inserted behind retain()'s back is as good as left to the next tick) ...
PruneWildcardsBegin ==
  /\ pruning = {}
  /\ pruning' = {w \in WildcardKey : wildcards[w] # NoSender}
  /\ UNCHANGED <<channels, history, wildcards, nextSender, target, bus, stage,
                 inbox, pub, published>>

\* ... whose retain() visits one entry after the other.
PruneWildcard(w) ==
  /\ w \in pruning
  /\ pruning' = pruning \ {w}
  /\ wildcards' = IF Attached(wildcards[w]) = {}
                    THEN [wildcards EXCEPT ![w] = NoSender] ELSE wildcards
  /\ UNCHANGED <<channels, history, nextSender, target, bus, stage, inbox, pub, published>>

Next ==
  \/ \E r \in Receivers, t \in Tenants, k \in ChannelKey : Subscribe(r, t, k)
  \/ \E r \in Receivers, w \in WildcardKey : CloneWildcardSender(r, w)
  \/ \E r \in Receivers : AttachToClone(r)
  \/ \E r \in Receivers : DropReceiver(r)
  \/ \E p \in Publishers, t \in Tenants, m \in Message : PublishBegin(p, t, m)
  \/ \E p \in Publishers : PublishExact(p)
  \/ \E p \in Publishers, w \in WildcardKey : PublishScan(p, w)
  \/ \E p \in Publishers, s \in Senders : PublishFanout(p, s)
  \/ \E p \in Publishers : PublishReturn(p)
  \/ \E t \in Tenants, k \in ChannelKey : Replay(t, k)
  \/ \E k \in ChannelKey : PruneEmpty(k)
  \/ PruneWildcardsBegin
  \/ \E w \in WildcardKey : PruneWildcard(w)

Spec == Init /\ [][Next]_vars

-----------------------------------------------------------------------------
(* Properties                                                              *)

\* Who is attached to what, as the holder of the receiver sees it.
Subscribed == [r \in Receivers |-> IF stage[r] = "attached" THEN target[r] ELSE NoTarget]

Promise == INSTANCE PubSub WITH sub <- Subscribed

\* Whatever the interleaving of publishers, subscribers and sweeps, a receiver
\* only gets messages of its own tenant and target, while it is attached, and
\* no message twice: the scan and the fan-out of publish implement PubSub.
KeepsPromise == Promise!Spec

Holds(r, m) == m \in ToSet(inbox[r])

\* The map of r's kind of target leads to the bus r is attached to.
Mapped(r) ==
  IF target[r].name \in Patterns THEN wildcards[target[r]] = bus[r]
                                 ELSE channels[target[r]] = bus[r]

\* A live subscriber of a channel is on the bus the next publish will look up:
\* neither prune_empty nor a concurrent creation ever strands it.
ExactSubscribersMapped ==
  \A r \in Receivers :
    stage[r] = "attached" /\ target[r].name \notin Patterns => Mapped(r)

\* The count publish is about to return is the number of receivers that hold
\* the message; 0 is what triggers the push fallback.
DeliveredCountExact ==
  \A p \in Publishers :
    pub[p] # Idle =>
      pub[p].delivered = Cardinality({r \in Receivers : Holds(r, pub[p].msg)})

\* When publish returns, every receiver that was attached when it was called,
\* still is, and that the maps lead to, holds the message.
AudienceReached ==
  \A p \in Publishers :
    pub[p] # Idle /\ Spent(p) =>
      \A r \in pub[p].audience :
        stage[r] = "attached" /\ Mapped(r) => Holds(r, pub[p].msg)

\* What REPLAY would return for a channel and what its live subscribers have
\* seen agree, message by message, back to the older end of the shorter one.
HistoryAgreesWithFeed ==
  \A r \in Receivers :
    stage[r] = "attached" /\ target[r].name \notin Patterns =>
      LET h == history[target[r]] IN
      IsSuffix(h, inbox[r]) \/ IsSuffix(inbox[r], h)

\* What publish and REPLAY report is what the subscribers got (publish and replay of
\* ChannelRouterService).
ReportsAgreeWithFeed == HistoryAgreesWithFeed /\ DeliveredCountExact

\* The doc comment of publish: the frame goes "to already-connected subscribers
\* (exact channel and matching wildcard patterns)", whatever the maps lead to.
PublishReachesSubscribers ==
  \A p \in Publishers :
    pub[p] # Idle /\ Spent(p) =>
      \A r \in pub[p].audience : stage[r] = "attached" => Holds(r, pub[p].msg)
=============================================================================
