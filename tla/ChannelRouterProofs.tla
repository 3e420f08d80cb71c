------------------------ MODULE ChannelRouterProofs ------------------------
(***************************************************************************)
(* The router keeps its promise for every set of tenants, names, receivers *)
(* and publishers.                                                         *)
(***************************************************************************)
EXTENDS ChannelRouter, FiniteSetTheorems, TLAPS

\* A set kept as a sequence gains exactly the element that is appended.
LEMMA AppendSet ==
  ASSUME NEW S, NEW s \in Seq(S), NEW e \in S
  PROVE  /\ Append(s, e) \in Seq(S)
         /\ ToSet(Append(s, e)) = ToSet(s) \cup {e}
<1> DEFINE a == Append(s, e)
<1>1. /\ a \in Seq(S)
      /\ DOMAIN a = 1..(Len(s) + 1)
      /\ DOMAIN s = 1..Len(s)
      /\ Len(s) \in Nat
      /\ \A i \in 1..Len(s) : a[i] = s[i]
      /\ a[Len(s) + 1] = e
  OBVIOUS
<1> HIDE DEF a
<1>2. \A i \in DOMAIN a : a[i] \in {s[j] : j \in DOMAIN s} \cup {e}
  <2> SUFFICES ASSUME NEW i \in DOMAIN a
               PROVE  a[i] \in {s[j] : j \in DOMAIN s} \cup {e}
    OBVIOUS
  <2>1. i \in 1..Len(s) \/ i = Len(s) + 1
    BY <1>1
  <2> QED BY <2>1, <1>1
<1>3. \A j \in DOMAIN s : s[j] \in {a[i] : i \in DOMAIN a}
  <2> SUFFICES ASSUME NEW j \in DOMAIN s
               PROVE  s[j] \in {a[i] : i \in DOMAIN a}
    OBVIOUS
  <2>1. j \in DOMAIN a /\ a[j] = s[j]
    BY <1>1
  <2> QED BY <2>1
<1>4. e \in {a[i] : i \in DOMAIN a}
  <2>1. Len(s) + 1 \in DOMAIN a
    BY <1>1
  <2> QED BY <2>1, <1>1
<1>5. {a[i] : i \in DOMAIN a} = {s[j] : j \in DOMAIN s} \cup {e}
  BY <1>2, <1>3, <1>4
<1> QED BY <1>1, <1>5 DEF ToSet, a

\* The empty sequence holds nothing.
LEMMA EmptySet == ASSUME NEW S PROVE << >> \in Seq(S) /\ ToSet(<< >>) = {}
  BY DEF ToSet

-----------------------------------------------------------------------------
(* The inductive invariant behind KeepsPromise, ExactSubscribersMapped and    *)
(* AudienceReached                                                            *)

\* r has a bus, attached to it or about to be.
Active(r) == stage[r] \in {"cloned", "attached"}

\* A receiver hears nothing before it is attached, and only what was published.
ReceiverInv ==
  \A r \in Receivers :
    /\ stage[r] \in {"free", "cloned"} => inbox[r] = << >>
    /\ ToSet(inbox[r]) \subseteq published
    /\ stage[r] = "cloned" => target[r] \in WildcardKey
    /\ Active(r) =>
         /\ bus[r] \in Senders
         /\ bus[r] < nextSender
         /\ target[r] \in WildcardKey \/ (target[r] \in ChannelKey /\ target[r].name \notin Patterns)

\* A bus serves one key, and its receivers were made for that key.
BusInv ==
  /\ \A k \in ChannelKey : channels[k] < nextSender
  /\ \A w \in WildcardKey : wildcards[w] < nextSender
  /\ \A k, l \in ChannelKey : channels[k] # NoSender /\ channels[k] = channels[l] => k = l
  /\ \A w, x \in WildcardKey : wildcards[w] # NoSender /\ wildcards[w] = wildcards[x] => w = x
  /\ \A k \in ChannelKey, w \in WildcardKey :
       channels[k] # NoSender => channels[k] # wildcards[w]
  /\ \A r \in Receivers : Active(r) =>
       /\ \A k \in ChannelKey : channels[k] = bus[r] => target[r] = k /\ k.name \notin Patterns
       /\ \A w \in WildcardKey : wildcards[w] = bus[r] => target[r] = w

\* A sender cloned for a fan-out serves a pattern that covers the message, and
\* none of its receivers has the message yet.
FanoutOf(p) ==
  \A s \in pub[p].senders :
    /\ s < nextSender
    /\ \A k \in ChannelKey : channels[k] # s
    /\ \A w \in WildcardKey : wildcards[w] = s => Covers(w, pub[p].msg.key)
    /\ \A r \in Receivers : Active(r) /\ bus[r] = s =>
         Covers(target[r], pub[p].msg.key) /\ ~Holds(r, pub[p].msg)

FanoutInv == \A p \in Publishers : pub[p] # Idle => FanoutOf(p)

\* No two calls carry the same message; before the exact send nobody has it,
\* and while patterns are still to be visited only exact subscribers have it.
CallOf(p) ==
  /\ pub[p].msg \in published
  /\ \A q \in Publishers : q # p /\ pub[q] # Idle => pub[q].msg # pub[p].msg
  /\ pub[p].phase = "exact" =>
       /\ pub[p].unseen = {}
       /\ pub[p].senders = {}
       /\ \A r \in Receivers : ~Holds(r, pub[p].msg)
  /\ pub[p].unseen # {} =>
       \A r \in Receivers : Active(r) /\ Holds(r, pub[p].msg) => target[r].name \notin Patterns

CallInv == \A p \in Publishers : pub[p] # Idle => CallOf(p)

\* A member of the audience has the message, or the rest of the call still
\* leads to it.
AudienceOf(p) ==
  \A r \in pub[p].audience :
    /\ stage[r] \in {"attached", "dropped"}
    /\ stage[r] = "attached" =>
         /\ Covers(target[r], pub[p].msg.key)
         /\ Mapped(r) => \/ Holds(r, pub[p].msg)
                         \/ pub[p].phase = "exact"
                         \/ target[r] \in pub[p].unseen
                         \/ bus[r] \in pub[p].senders

AudienceInv == \A p \in Publishers : pub[p] # Idle => AudienceOf(p)

RouterInv ==
  /\ TypeOK
  /\ ReceiverInv
  /\ BusInv
  /\ FanoutInv
  /\ CallInv
  /\ ExactSubscribersMapped
  /\ AudienceInv

-----------------------------------------------------------------------------
(* Type correctness                                                        *)

\* receiver_count is a natural number.
LEMMA CardinalityNat == ASSUME NEW s PROVE Cardinality(Attached(s)) \in Nat
  BY RouterAssumption, FS_Subset, FS_CardinalityType DEF Attached

\* A new entry takes the next identity, which is one of Senders.
LEMMA GetOrCreateType ==
  ASSUME NEW K, NEW map \in [K -> Senders \cup {NoSender}], NEW k \in K,
         nextSender \in 1..(MaxSenders + 1), TakeSender(map, k)
  PROVE  /\ GetOrCreate(map, k) \in [K -> Senders \cup {NoSender}]
         /\ GetOrCreate(map, k)[k] \in Senders
         /\ nextSender' \in 1..(MaxSenders + 1)
  BY RouterAssumption DEF GetOrCreate, TakeSender, Senders, NoSender

\* A bus that is sent a message is still a bus.
LEMMA SendType ==
  ASSUME inbox \in [Receivers -> Seq(Message)], NEW s, NEW m \in Message, Send(s, m)
  PROVE  inbox' \in [Receivers -> Seq(Message)]
  BY AppendSet DEF Send

\* A ring buffer that is pushed a message is still a ring buffer.
LEMMA PushType ==
  ASSUME NEW h \in Seq(Message), NEW m \in Message PROVE Push(h, m) \in Seq(Message)
<1>1. CASE Len(h) = HistoryCapacity
  <2>1. h # << >>
    BY <1>1, RouterAssumption
  <2>2. Tail(h) \in Seq(Message)
    BY <2>1
  <2> QED BY <2>2, <1>1, AppendSet DEF Push
<1>2. CASE Len(h) # HistoryCapacity
  BY <1>2, AppendSet DEF Push
<1> QED BY <1>1, <1>2

\* The empty router is well typed.
LEMMA TypeInit == Init => TypeOK
  BY RouterAssumption, EmptySet DEF Init, TypeOK, Senders, NoSender, Idle

\* Every step of a router method keeps the types.
LEMMA TypeStep == TypeOK /\ [Next]_vars => TypeOK'
<1> SUFFICES ASSUME TypeOK, [Next]_vars PROVE TypeOK'
  OBVIOUS
<1> USE DEF TypeOK
<1>1. ASSUME NEW r \in Receivers, NEW t \in Tenants, NEW k \in ChannelKey, Subscribe(r, t, k)
      PROVE  TypeOK'
  <2>1. GetOrCreate(channels, k)[k] \in Senders
    BY <1>1, GetOrCreateType DEF Subscribe
  <2> QED BY <1>1, <2>1, GetOrCreateType DEF Subscribe, Target
<1>2. ASSUME NEW r \in Receivers, NEW w \in WildcardKey, CloneWildcardSender(r, w)
      PROVE  TypeOK'
  <2>1. GetOrCreate(wildcards, w)[w] \in Senders
    BY <1>2, GetOrCreateType DEF CloneWildcardSender
  <2> QED BY <1>2, <2>1, GetOrCreateType DEF CloneWildcardSender, Target
<1>3. ASSUME NEW r \in Receivers, AttachToClone(r) \/ DropReceiver(r)
      PROVE  TypeOK'
  BY <1>3 DEF AttachToClone, DropReceiver
<1>4. ASSUME NEW p \in Publishers, NEW t \in Tenants, NEW m \in Message, PublishBegin(p, t, m)
      PROVE  TypeOK'
  BY <1>4 DEF PublishBegin, Call
<1>5. ASSUME NEW p \in Publishers, PublishExact(p)
      PROVE  TypeOK'
  <2> DEFINE m == pub[p].msg
             s == channels'[m.key]
  <2>1. pub[p] \in Call
    BY <1>5 DEF PublishExact, Idle
  <2>2. m \in Message /\ m.key \in ChannelKey
    BY <2>1 DEF Call, Message
  <2>3. /\ channels' \in [ChannelKey -> Senders \cup {NoSender}]
        /\ nextSender' \in 1..(MaxSenders + 1)
    BY <1>5, <2>2, GetOrCreateType DEF PublishExact
  <2>4. inbox' \in [Receivers -> Seq(Message)]
    BY <1>5, <2>2, SendType DEF PublishExact
  <2>5. history' \in [ChannelKey -> Seq(Message)]
    BY <1>5, <2>2, PushType DEF PublishExact
  <2>6. pub' \in [Publishers -> {Idle} \cup Call]
    <3>1. Cardinality(Attached(s)) \in Nat
      BY CardinalityNat
    <3>2. pub' = [pub EXCEPT ![p] = [pub[p] EXCEPT !.phase = "fanout", !.unseen = WildcardKey,
                                        !.delivered = Cardinality(Attached(s))]]
      BY <1>5, <2>1 DEF PublishExact, Call
    <3> QED BY <2>1, <3>1, <3>2 DEF Call
  <2> QED BY <1>5, <2>3, <2>4, <2>5, <2>6 DEF PublishExact
<1>6. ASSUME NEW p \in Publishers, NEW w \in WildcardKey, PublishScan(p, w)
      PROVE  TypeOK'
  <2>1. pub[p] \in Call
    BY <1>6 DEF PublishScan, Idle
  <2> DEFINE found == IF wildcards[w] # NoSender /\ Covers(w, pub[p].msg.key)
                        THEN pub[p].senders \cup {wildcards[w]} ELSE pub[p].senders
             c == [pub[p] EXCEPT !.unseen = @ \ {w}, !.senders = found]
  <2>2. pub' = [pub EXCEPT ![p] = c]
    BY <1>6, <2>1 DEF PublishScan, Call
  <2>3. found \in SUBSET Senders
    BY <2>1 DEF Call
  <2>4. c \in Call
    BY <2>1, <2>3 DEF Call
  <2>5. pub' \in [Publishers -> {Idle} \cup Call]
    BY <2>2, <2>4
  <2> QED BY <1>6, <2>5 DEF PublishScan
<1>7. ASSUME NEW p \in Publishers, NEW s \in Senders, PublishFanout(p, s)
      PROVE  TypeOK'
  <2>1. pub[p] \in Call
    BY <1>7 DEF PublishFanout, Idle
  <2>2. inbox' \in [Receivers -> Seq(Message)]
    BY <1>7, <2>1, SendType DEF PublishFanout, Call
  <2>3. Cardinality(Attached(s)) \in Nat
    BY CardinalityNat
  <2>4. pub' \in [Publishers -> {Idle} \cup Call]
    <3> DEFINE c == [pub[p] EXCEPT !.senders = @ \ {s},
                                   !.delivered = @ + Cardinality(Attached(s))]
    <3>1. pub' = [pub EXCEPT ![p] = c]
      BY <1>7, <2>1 DEF PublishFanout, Call
    <3>2. pub[p].delivered + Cardinality(Attached(s)) \in Nat
      BY <2>1, <2>3 DEF Call
    <3>3. c \in Call
      BY <2>1, <3>2 DEF Call
    <3> QED BY <3>1, <3>3
  <2> QED BY <1>7, <2>2, <2>4 DEF PublishFanout
<1>8. ASSUME NEW p \in Publishers, PublishReturn(p)
      PROVE  TypeOK'
  BY <1>8 DEF PublishReturn
<1>9. ASSUME NEW t \in Tenants, NEW k \in ChannelKey, Replay(t, k)
      PROVE  TypeOK'
  BY <1>9, GetOrCreateType DEF Replay
<1>10. ASSUME NEW k \in ChannelKey, PruneEmpty(k)
       PROVE  TypeOK'
  BY <1>10 DEF PruneEmpty
<1>11. CASE PruneWildcardsBegin
  BY <1>11 DEF PruneWildcardsBegin
<1>12. ASSUME NEW w \in WildcardKey, PruneWildcard(w)
       PROVE  TypeOK'
  BY <1>12 DEF PruneWildcard
<1>13. CASE UNCHANGED vars
  BY <1>13 DEF vars
<1> QED
  BY <1>1, <1>2, <1>3, <1>4, <1>5, <1>6, <1>7, <1>8, <1>9, <1>10, <1>11, <1>12, <1>13 DEF Next

\* Type correctness of the router.
THEOREM TypeCorrect == Spec => []TypeOK
  BY TypeInit, TypeStep, PTL DEF Spec

-----------------------------------------------------------------------------
(* The inductive invariant                                                 *)

\* The empty router satisfies the inductive invariant.
LEMMA InvInit == Init => RouterInv
  BY TypeInit, EmptySet DEF Init, RouterInv, ReceiverInv, BusInv, FanoutInv, FanoutOf, CallInv, CallOf,
     ExactSubscribersMapped, AudienceInv, AudienceOf, Active, NoSender, Senders, Idle

\* What the type invariant says of the fields of one call.
LEMMA CallFields ==
  ASSUME TypeOK, NEW p \in Publishers, pub[p] # Idle
  PROVE  /\ pub[p] \in Call
         /\ pub[p].msg \in Message
         /\ pub[p].msg.key \in ChannelKey
         /\ pub[p].senders \subseteq Senders
         /\ pub[p].unseen \subseteq WildcardKey
         /\ pub[p].audience \subseteq Receivers
<1>1. pub[p] \in Call
  BY DEF TypeOK
<1> QED BY <1>1 DEF Call, Message

\* Exact keys and patterns that occur in the state are members of their sets.
LEMMA Names ==
  /\ \A k \in ChannelKey : k.name \in Channels /\ k.tenant \in Tenants
  /\ \A w \in WildcardKey : w.name \in Patterns /\ w.tenant \in Tenants
  BY DEF ChannelKey, WildcardKey

\* subscribe on a cloned wildcard sender keeps the invariant.
LEMMA AttachToCloneInv ==
  ASSUME RouterInv, NEW x \in Receivers, AttachToClone(x), TypeOK'
  PROVE  RouterInv'
<1> USE DEF RouterInv, AttachToClone
<1>1. ReceiverInv'
  BY DEF TypeOK, ReceiverInv, Active, Holds, Mapped, Senders, NoSender
<1>2. BusInv'
  BY DEF TypeOK, BusInv, Active, Holds, Mapped, Senders, NoSender
<1>3. FanoutInv'
  BY DEF TypeOK, FanoutInv, FanoutOf, Active, Holds, Mapped, Senders, NoSender
<1>4. CallInv'
  BY DEF TypeOK, CallInv, CallOf, Active, Holds, Mapped, Senders, NoSender
<1>5. ExactSubscribersMapped'
  <2> SUFFICES ASSUME NEW r \in Receivers, stage'[r] = "attached", target'[r].name \notin Patterns
               PROVE  channels'[target'[r]] = bus'[r]
    BY DEF ExactSubscribersMapped, Mapped
  <2>1. r # x
    BY Names DEF ReceiverInv, TypeOK
  <2> QED BY <2>1 DEF ExactSubscribersMapped, Mapped, TypeOK
<1>6. AudienceInv'
  <2> SUFFICES ASSUME NEW p \in Publishers, pub[p] # Idle, NEW r \in pub[p].audience
               PROVE  /\ stage'[r] \in {"attached", "dropped"}
                      /\ stage'[r] = "attached" =>
                           /\ Covers(target'[r], pub[p].msg.key)
                           /\ Mapped(r)' => \/ Holds(r, pub[p].msg)
                                            \/ pub[p].phase = "exact"
                                            \/ target'[r] \in pub[p].unseen
                                            \/ bus'[r] \in pub[p].senders
    BY DEF AudienceInv, AudienceOf, Holds
  <2>1. /\ r \in Receivers
        /\ stage[r] \in {"attached", "dropped"}
        /\ stage[r] = "attached" =>
             /\ Covers(target[r], pub[p].msg.key)
             /\ Mapped(r) => \/ Holds(r, pub[p].msg)
                             \/ pub[p].phase = "exact"
                             \/ target[r] \in pub[p].unseen
                             \/ bus[r] \in pub[p].senders
    BY CallFields DEF AudienceInv, AudienceOf
  <2>2. r # x
    BY <2>1
  <2> QED BY <2>1, <2>2 DEF Mapped, TypeOK
<1> QED BY <1>1, <1>2, <1>3, <1>4, <1>5, <1>6

\* Dropping a receiver keeps the invariant.
LEMMA DropReceiverInv ==
  ASSUME RouterInv, NEW x \in Receivers, DropReceiver(x), TypeOK'
  PROVE  RouterInv'
<1> USE DEF RouterInv, DropReceiver
<1>1. ReceiverInv'
  BY DEF TypeOK, ReceiverInv, Active, Holds, Mapped, Senders, NoSender
<1>2. BusInv'
  BY DEF TypeOK, BusInv, Active, Holds, Mapped, Senders, NoSender
<1>3. FanoutInv'
  BY DEF TypeOK, FanoutInv, FanoutOf, Active, Holds, Mapped, Senders, NoSender
<1>4. CallInv'
  BY DEF TypeOK, CallInv, CallOf, Active, Holds, Mapped, Senders, NoSender
<1>5. ExactSubscribersMapped'
  BY DEF TypeOK, ExactSubscribersMapped, Active, Holds, Mapped, Senders, NoSender
<1>6. AudienceInv'
  <2> SUFFICES ASSUME NEW p \in Publishers, pub[p] # Idle, NEW r \in pub[p].audience
               PROVE  /\ stage'[r] \in {"attached", "dropped"}
                      /\ stage'[r] = "attached" =>
                           /\ Covers(target'[r], pub[p].msg.key)
                           /\ Mapped(r)' => \/ Holds(r, pub[p].msg)
                                            \/ pub[p].phase = "exact"
                                            \/ target'[r] \in pub[p].unseen
                                            \/ bus'[r] \in pub[p].senders
    BY DEF AudienceInv, AudienceOf, Holds
  <2>1. /\ r \in Receivers
        /\ stage[r] \in {"attached", "dropped"}
        /\ stage[r] = "attached" =>
             /\ Covers(target[r], pub[p].msg.key)
             /\ Mapped(r) => \/ Holds(r, pub[p].msg)
                             \/ pub[p].phase = "exact"
                             \/ target[r] \in pub[p].unseen
                             \/ bus[r] \in pub[p].senders
    BY CallFields DEF AudienceInv, AudienceOf
  <2>2. CASE r = x
    BY <2>1, <2>2 DEF TypeOK
  <2>3. CASE r # x
    BY <2>1, <2>3 DEF Mapped, TypeOK
  <2> QED BY <2>2, <2>3
<1> QED BY <1>1, <1>2, <1>3, <1>4, <1>5, <1>6

\* The start of the wildcard retain keeps the invariant.
LEMMA PruneWildcardsBeginInv ==
  ASSUME RouterInv, PruneWildcardsBegin, TypeOK'
  PROVE  RouterInv'
<1> USE DEF RouterInv, PruneWildcardsBegin
<1>1. ReceiverInv'
  BY DEF TypeOK, ReceiverInv, Active, Holds, Mapped, Senders, NoSender
<1>2. BusInv'
  BY DEF TypeOK, BusInv, Active, Holds, Mapped, Senders, NoSender
<1>3. FanoutInv'
  BY DEF TypeOK, FanoutInv, FanoutOf, Active, Holds, Mapped, Senders, NoSender
<1>4. CallInv'
  BY DEF TypeOK, CallInv, CallOf, Active, Holds, Mapped, Senders, NoSender
<1>5. ExactSubscribersMapped'
  BY DEF TypeOK, ExactSubscribersMapped, Active, Holds, Mapped, Senders, NoSender
<1>6. AudienceInv'
  BY DEF TypeOK, AudienceInv, AudienceOf, Active, Holds, Mapped, Senders, NoSender
<1> QED BY <1>1, <1>2, <1>3, <1>4, <1>5, <1>6

\* Removing one spent wildcard sender keeps the invariant.
LEMMA PruneWildcardInv ==
  ASSUME RouterInv, NEW v \in WildcardKey, PruneWildcard(v), TypeOK'
  PROVE  RouterInv'
<1> USE DEF RouterInv, PruneWildcard
<1>a. /\ nextSender \in Nat /\ nextSender > 0
      /\ \A w \in WildcardKey : wildcards'[w] = wildcards[w] \/ wildcards'[w] = NoSender
  BY RouterAssumption DEF TypeOK
<1>1. ReceiverInv'
  BY DEF TypeOK, ReceiverInv, Active, Holds, Mapped, Senders, NoSender
<1>2. BusInv'
  <2>1. \A r \in Receivers : Active(r) => bus[r] \in Senders
    BY DEF ReceiverInv
  <2> QED BY <1>a, <2>1 DEF BusInv, Active, Senders, NoSender, TypeOK
<1>3. FanoutInv'
  BY <1>a, CallFields DEF FanoutInv, FanoutOf, Active, Holds, Senders, NoSender
<1>4. CallInv'
  BY DEF TypeOK, CallInv, CallOf, Active, Holds, Mapped, Senders, NoSender
<1>5. ExactSubscribersMapped'
  BY DEF TypeOK, ExactSubscribersMapped, Active, Holds, Mapped, Senders, NoSender
<1>6. AudienceInv'
  <2> SUFFICES ASSUME NEW p \in Publishers, pub[p] # Idle, NEW r \in pub[p].audience
               PROVE  /\ stage'[r] \in {"attached", "dropped"}
                      /\ stage'[r] = "attached" =>
                           /\ Covers(target'[r], pub[p].msg.key)
                           /\ Mapped(r)' => \/ Holds(r, pub[p].msg)
                                            \/ pub[p].phase = "exact"
                                            \/ target'[r] \in pub[p].unseen
                                            \/ bus'[r] \in pub[p].senders
    BY DEF AudienceInv, AudienceOf, Holds
  <2>1. /\ r \in Receivers
        /\ stage[r] \in {"attached", "dropped"}
        /\ stage[r] = "attached" =>
             /\ Covers(target[r], pub[p].msg.key)
             /\ Mapped(r) => \/ Holds(r, pub[p].msg)
                             \/ pub[p].phase = "exact"
                             \/ target[r] \in pub[p].unseen
                             \/ bus[r] \in pub[p].senders
    BY CallFields DEF AudienceInv, AudienceOf
  <2>2. stage[r] = "attached" => bus[r] \in Senders /\ target[r] \in Target
    BY <2>1 DEF ReceiverInv, Active, Target
  <2>3. stage[r] = "attached" /\ Mapped(r)' => Mapped(r)
    <3> SUFFICES ASSUME stage[r] = "attached", Mapped(r)' PROVE Mapped(r)
      OBVIOUS
    <3>1. CASE target[r] \in WildcardKey
      BY <1>a, <2>1, <2>2, <3>1, Names DEF Mapped, Senders, NoSender
    <3>2. CASE target[r].name \notin Patterns
      BY <3>2 DEF Mapped
    <3> QED BY <2>1, <3>1, <3>2 DEF ReceiverInv, Active
  <2> QED BY <2>1, <2>3
<1> QED BY <1>1, <1>2, <1>3, <1>4, <1>5, <1>6

\* remove_if on an empty channel keeps the invariant.
LEMMA PruneEmptyInv ==
  ASSUME RouterInv, NEW c \in ChannelKey, PruneEmpty(c), TypeOK'
  PROVE  RouterInv'
<1> USE DEF RouterInv, PruneEmpty
<1>a. /\ nextSender \in Nat /\ nextSender > 0
      /\ \A k \in ChannelKey : channels'[k] = channels[k] \/ channels'[k] = NoSender
  BY RouterAssumption DEF TypeOK
<1>1. ReceiverInv'
  BY DEF TypeOK, ReceiverInv, Active, Holds, Mapped, Senders, NoSender
<1>2. BusInv'
  <2>1. \A r \in Receivers : Active(r) => bus[r] \in Senders
    BY DEF ReceiverInv
  <2> QED BY <1>a, <2>1 DEF BusInv, Active, Senders, NoSender, TypeOK
<1>3. FanoutInv'
  BY <1>a, CallFields DEF FanoutInv, FanoutOf, Active, Holds, Senders, NoSender
<1>4. CallInv'
  BY DEF TypeOK, CallInv, CallOf, Active, Holds, Mapped, Senders, NoSender
<1>5. ExactSubscribersMapped'
  <2> SUFFICES ASSUME NEW r \in Receivers, stage'[r] = "attached", target'[r].name \notin Patterns
               PROVE  channels'[target'[r]] = bus'[r]
    BY DEF ExactSubscribersMapped, Mapped
  <2>1. target[r] \in ChannelKey
    BY Names DEF ReceiverInv, Active
  <2>2. channels[target[r]] = bus[r]
    BY DEF ExactSubscribersMapped, Mapped
  <2>3. target[r] # c
    BY <2>2 DEF Attached
  <2> QED BY <2>1, <2>2, <2>3 DEF TypeOK
<1>6. AudienceInv'
  <2> SUFFICES ASSUME NEW p \in Publishers, pub[p] # Idle, NEW r \in pub[p].audience
               PROVE  /\ stage'[r] \in {"attached", "dropped"}
                      /\ stage'[r] = "attached" =>
                           /\ Covers(target'[r], pub[p].msg.key)
                           /\ Mapped(r)' => \/ Holds(r, pub[p].msg)
                                            \/ pub[p].phase = "exact"
                                            \/ target'[r] \in pub[p].unseen
                                            \/ bus'[r] \in pub[p].senders
    BY DEF AudienceInv, AudienceOf, Holds
  <2>1. /\ r \in Receivers
        /\ stage[r] \in {"attached", "dropped"}
        /\ stage[r] = "attached" =>
             /\ Covers(target[r], pub[p].msg.key)
             /\ Mapped(r) => \/ Holds(r, pub[p].msg)
                             \/ pub[p].phase = "exact"
                             \/ target[r] \in pub[p].unseen
                             \/ bus[r] \in pub[p].senders
    BY CallFields DEF AudienceInv, AudienceOf
  <2>2. stage[r] = "attached" /\ Mapped(r)' => Mapped(r)
    <3> SUFFICES ASSUME stage[r] = "attached", Mapped(r)' PROVE Mapped(r)
      OBVIOUS
    <3>1. CASE target[r].name \in Patterns
      BY <3>1 DEF Mapped
    <3>2. CASE target[r].name \notin Patterns
      BY <2>1, <3>2 DEF ExactSubscribersMapped
    <3> QED BY <3>1, <3>2
  <2> QED BY <2>1, <2>2
<1> QED BY <1>1, <1>2, <1>3, <1>4, <1>5, <1>6

\* The return of publish keeps the invariant.
LEMMA PublishReturnInv ==
  ASSUME RouterInv, NEW u \in Publishers, PublishReturn(u), TypeOK'
  PROVE  RouterInv'
<1> USE DEF RouterInv, PublishReturn
<1>1. ReceiverInv'
  BY DEF TypeOK, ReceiverInv, Active, Holds, Mapped, Senders, NoSender
<1>2. BusInv'
  BY DEF TypeOK, BusInv, Active, Holds, Mapped, Senders, NoSender
<1>3. FanoutInv'
  BY DEF TypeOK, FanoutInv, FanoutOf, Active, Holds, Mapped, Senders, NoSender
<1>4. CallInv'
  BY DEF TypeOK, CallInv, CallOf, Active, Holds, Mapped, Senders, NoSender
<1>5. ExactSubscribersMapped'
  BY DEF TypeOK, ExactSubscribersMapped, Active, Holds, Mapped, Senders, NoSender
<1>6. AudienceInv'
  BY DEF TypeOK, AudienceInv, AudienceOf, Active, Holds, Mapped, Senders, NoSender
<1> QED BY <1>1, <1>2, <1>3, <1>4, <1>5, <1>6

-----------------------------------------------------------------------------
(* Steps that may create a bus                                             *)

\* A channel that gets its first bus gets one that nobody knows yet.
LEMMA NewChannelBus ==
  ASSUME RouterInv, NEW k \in ChannelKey, channels' = GetOrCreate(channels, k),
         TakeSender(channels, k)
  PROVE  /\ \A l \in ChannelKey : l # k => channels'[l] = channels[l]
         /\ \/ channels[k] \in Senders /\ channels'[k] = channels[k] /\ nextSender' = nextSender
            \/ /\ channels[k] = NoSender /\ channels'[k] = nextSender
               /\ nextSender' = nextSender + 1 /\ nextSender \in Senders
         /\ nextSender \in Nat \ {0}
  BY RouterAssumption DEF RouterInv, TypeOK, GetOrCreate, TakeSender, Senders, NoSender

\* What a bus created for a channel cannot be confused with.
FreshChannelBus ==
  /\ nextSender' \in Nat /\ nextSender \in Nat /\ nextSender <= nextSender'
  /\ \A l \in ChannelKey : channels'[l] < nextSender'
  /\ \A w \in WildcardKey : wildcards[w] < nextSender'
  /\ \A l, n \in ChannelKey : channels'[l] # NoSender /\ channels'[l] = channels'[n] => l = n
  /\ \A l \in ChannelKey, w \in WildcardKey :
       channels'[l] # NoSender => channels'[l] # wildcards[w]
  /\ \A r \in Receivers : Active(r) =>
       \A l \in ChannelKey : channels'[l] = bus[r] => target[r] = l /\ l.name \notin Patterns
  /\ \A p \in Publishers : pub[p] # Idle =>
       \A s \in pub[p].senders, l \in ChannelKey : channels'[l] # s
  /\ \A l \in ChannelKey : channels[l] # NoSender => channels'[l] = channels[l]

\* A channel bus that is created now is not one that anybody already holds.
LEMMA NewChannelBusFresh ==
  ASSUME RouterInv, NEW k \in ChannelKey, channels' = GetOrCreate(channels, k),
         TakeSender(channels, k)
  PROVE  FreshChannelBus
<1>1. /\ \A l \in ChannelKey : l # k => channels'[l] = channels[l]
      /\ \/ channels[k] \in Senders /\ channels'[k] = channels[k] /\ nextSender' = nextSender
         \/ /\ channels[k] = NoSender /\ channels'[k] = nextSender
            /\ nextSender' = nextSender + 1 /\ nextSender \in Senders
      /\ nextSender \in Nat \ {0}
  BY NewChannelBus
<1>2. /\ \A l \in ChannelKey : channels[l] \in Nat /\ channels[l] < nextSender
      /\ \A w \in WildcardKey : wildcards[w] \in Nat /\ wildcards[w] < nextSender
      /\ \A r \in Receivers : Active(r) => bus[r] \in Nat /\ bus[r] < nextSender
  BY RouterAssumption DEF RouterInv, BusInv, ReceiverInv, TypeOK, Senders, NoSender
<1>3. \A p \in Publishers : pub[p] # Idle => \A s \in pub[p].senders : s \in Nat /\ s < nextSender
  BY CallFields, RouterAssumption DEF RouterInv, FanoutInv, FanoutOf, Senders
<1>4. \A l \in ChannelKey : \/ channels'[l] = channels[l]
                            \/ l = k /\ channels[l] = NoSender /\ channels'[l] = nextSender
  BY <1>1
<1>5. nextSender' \in Nat /\ nextSender \in Nat /\ nextSender <= nextSender'
  BY <1>1
<1>6. /\ \A l \in ChannelKey : channels'[l] < nextSender'
      /\ \A w \in WildcardKey : wildcards[w] < nextSender'
  BY <1>1, <1>2, <1>5
<1>7. /\ \A l, n \in ChannelKey : channels'[l] # NoSender /\ channels'[l] = channels'[n] => l = n
      /\ \A l \in ChannelKey, w \in WildcardKey :
           channels'[l] # NoSender => channels'[l] # wildcards[w]
  BY <1>2, <1>4 DEF RouterInv, BusInv
<1>8. \A r \in Receivers : Active(r) =>
         \A l \in ChannelKey : channels'[l] = bus[r] => target[r] = l /\ l.name \notin Patterns
  BY <1>2, <1>4 DEF RouterInv, BusInv
<1>9. \A p \in Publishers : pub[p] # Idle =>
         \A s \in pub[p].senders, l \in ChannelKey : channels'[l] # s
  BY <1>3, <1>4 DEF RouterInv, FanoutInv, FanoutOf
<1>10. \A l \in ChannelKey : channels[l] # NoSender => channels'[l] = channels[l]
  BY <1>4
<1> QED BY <1>5, <1>6, <1>7, <1>8, <1>9, <1>10 DEF FreshChannelBus

\* replay, which creates the channel it reads, keeps the invariant.
LEMMA ReplayInv ==
  ASSUME RouterInv, NEW t \in Tenants, NEW k \in ChannelKey, Replay(t, k), TypeOK'
  PROVE  RouterInv'
<1> USE DEF Replay, FreshChannelBus
<1>a. FreshChannelBus
  BY NewChannelBusFresh
<1>b. \A r \in Receivers : stage[r] = "attached" => (Mapped(r)' <=> Mapped(r))
  <2> SUFFICES ASSUME NEW r \in Receivers, stage[r] = "attached"
               PROVE  Mapped(r)' <=> Mapped(r)
    OBVIOUS
  <2>1. CASE target[r].name \in Patterns
    BY <2>1 DEF Mapped
  <2>2. CASE target[r].name \notin Patterns
    <3>1. target[r] \in ChannelKey /\ bus[r] # NoSender
      BY <2>2, Names DEF RouterInv, ReceiverInv, Active, Senders, NoSender
    <3>2. channels[target[r]] = bus[r]
      BY <2>2 DEF RouterInv, ExactSubscribersMapped, Mapped
    <3> QED BY <1>a, <2>2, <3>1, <3>2 DEF Mapped
  <2> QED BY <2>1, <2>2
<1>1. ReceiverInv'
  <2>1. \A r \in Receivers : Active(r) => bus[r] \in Nat
    BY RouterAssumption DEF RouterInv, ReceiverInv, Senders
  <2> QED BY <1>a, <2>1 DEF RouterInv, ReceiverInv, Active
<1>2. BusInv'
  BY <1>a DEF RouterInv, BusInv, Active
<1>3. FanoutInv'
  <2>1. \A p \in Publishers : pub[p] # Idle => \A s \in pub[p].senders : s \in Nat
    BY CallFields, RouterAssumption DEF RouterInv, Senders
  <2> QED BY <1>a, <2>1 DEF RouterInv, FanoutInv, FanoutOf, Active, Holds
<1>4. CallInv'
  BY DEF RouterInv, CallInv, CallOf, Active, Holds
<1>5. ExactSubscribersMapped'
  BY <1>b DEF RouterInv, ExactSubscribersMapped
<1>6. AudienceInv'
  <2>1. \A p \in Publishers : pub[p] # Idle => pub[p].audience \subseteq Receivers
    BY CallFields DEF RouterInv
  <2> QED BY <1>b, <2>1 DEF RouterInv, AudienceInv, AudienceOf, Holds
<1> QED BY <1>1, <1>2, <1>3, <1>4, <1>5, <1>6 DEF RouterInv

\* subscribe keeps the invariant.
LEMMA SubscribeInv ==
  ASSUME RouterInv, NEW x \in Receivers, NEW t \in Tenants, NEW k \in ChannelKey,
         Subscribe(x, t, k), TypeOK'
  PROVE  RouterInv'
<1> USE DEF Subscribe, FreshChannelBus
<1>a. FreshChannelBus
  BY NewChannelBusFresh
<1>e. channels'[k] \in Senders /\ channels'[k] \in Nat /\ channels'[k] # NoSender
  BY NewChannelBus, RouterAssumption DEF Senders, NoSender
<1>b. /\ channels'[k] \in Senders /\ channels'[k] \in Nat /\ channels'[k] # NoSender
      /\ target'[x] = k /\ bus'[x] = channels'[k] /\ stage'[x] = "attached"
      /\ \A r \in Receivers : r # x =>
           target'[r] = target[r] /\ bus'[r] = bus[r] /\ stage'[r] = stage[r]
      /\ k.name \notin Patterns /\ stage[x] = "free" /\ inbox[x] = << >>
  BY <1>e DEF RouterInv, TypeOK, ReceiverInv
<1>c. \A r \in Receivers : r # x /\ stage[r] = "attached" => (Mapped(r)' <=> Mapped(r))
  <2> SUFFICES ASSUME NEW r \in Receivers, r # x, stage[r] = "attached"
               PROVE  Mapped(r)' <=> Mapped(r)
    OBVIOUS
  <2>1. CASE target[r].name \in Patterns
    BY <1>b, <2>1 DEF Mapped
  <2>2. CASE target[r].name \notin Patterns
    <3>1. target[r] \in ChannelKey /\ bus[r] # NoSender
      BY <2>2, Names DEF RouterInv, ReceiverInv, Active, Senders, NoSender
    <3>2. channels[target[r]] = bus[r]
      BY <2>2 DEF RouterInv, ExactSubscribersMapped, Mapped
    <3> QED BY <1>a, <1>b, <2>2, <3>1, <3>2 DEF Mapped
  <2> QED BY <2>1, <2>2
<1>d. \A m : ~Holds(x, m)
  BY <1>b, EmptySet DEF Holds
<1>1. ReceiverInv'
  <2>1. \A r \in Receivers : Active(r) => bus[r] \in Nat
    BY RouterAssumption DEF RouterInv, ReceiverInv, Senders
  <2> QED BY <1>a, <1>b, <2>1 DEF RouterInv, ReceiverInv, Active
<1>2. BusInv'
  <2>1. \A w \in WildcardKey : wildcards[w] # channels'[k]
    BY <1>a, <1>b
  <2> QED BY <1>a, <1>b, <2>1 DEF RouterInv, BusInv, Active
<1>3. FanoutInv'
  <2>1. \A p \in Publishers : pub[p] # Idle => \A s \in pub[p].senders : s \in Nat
    BY CallFields, RouterAssumption DEF RouterInv, Senders
  <2> QED BY <1>a, <1>b, <1>d, <2>1 DEF RouterInv, FanoutInv, FanoutOf, Active, Holds
<1>4. CallInv'
  BY <1>b, <1>d DEF RouterInv, CallInv, CallOf, Active, Holds
<1>5. ExactSubscribersMapped'
  BY <1>b, <1>c DEF RouterInv, ExactSubscribersMapped, Mapped
<1>6. AudienceInv'
  <2>1. \A p \in Publishers : pub[p] # Idle => \A r \in pub[p].audience : r \in Receivers /\ r # x
    BY CallFields, <1>b DEF RouterInv, AudienceInv, AudienceOf
  <2> QED BY <1>b, <1>c, <2>1 DEF RouterInv, AudienceInv, AudienceOf, Holds
<1> QED BY <1>1, <1>2, <1>3, <1>4, <1>5, <1>6 DEF RouterInv

\* What a bus created for a pattern cannot be confused with.
FreshWildcardBus ==
  /\ nextSender' \in Nat /\ nextSender \in Nat /\ nextSender <= nextSender'
  /\ \A w \in WildcardKey : wildcards'[w] < nextSender'
  /\ \A l \in ChannelKey : channels[l] < nextSender'
  /\ \A w, y \in WildcardKey : wildcards'[w] # NoSender /\ wildcards'[w] = wildcards'[y] => w = y
  /\ \A l \in ChannelKey, w \in WildcardKey :
       channels[l] # NoSender => channels[l] # wildcards'[w]
  /\ \A r \in Receivers : Active(r) =>
       \A w \in WildcardKey : wildcards'[w] = bus[r] => wildcards[w] = bus[r]
  /\ \A p \in Publishers : pub[p] # Idle =>
       \A s \in pub[p].senders, w \in WildcardKey : wildcards'[w] = s => wildcards[w] = s
  /\ \A w \in WildcardKey : wildcards[w] # NoSender => wildcards'[w] = wildcards[w]

\* A wildcard bus that is created now is not one that anybody already holds.
LEMMA NewWildcardBusFresh ==
  ASSUME RouterInv, NEW v \in WildcardKey, wildcards' = GetOrCreate(wildcards, v),
         TakeSender(wildcards, v)
  PROVE  /\ FreshWildcardBus
         /\ wildcards'[v] \in Senders
<1>1. /\ \A w \in WildcardKey : w # v => wildcards'[w] = wildcards[w]
      /\ \/ wildcards[v] \in Senders /\ wildcards'[v] = wildcards[v] /\ nextSender' = nextSender
         \/ /\ wildcards[v] = NoSender /\ wildcards'[v] = nextSender
            /\ nextSender' = nextSender + 1 /\ nextSender \in Senders
      /\ nextSender \in Nat \ {0}
  BY RouterAssumption DEF RouterInv, TypeOK, GetOrCreate, TakeSender, Senders, NoSender
<1>2. /\ \A l \in ChannelKey : channels[l] \in Nat /\ channels[l] < nextSender
      /\ \A w \in WildcardKey : wildcards[w] \in Nat /\ wildcards[w] < nextSender
      /\ \A r \in Receivers : Active(r) => bus[r] \in Nat /\ bus[r] < nextSender
  BY RouterAssumption DEF RouterInv, BusInv, ReceiverInv, TypeOK, Senders, NoSender
<1>3. \A p \in Publishers : pub[p] # Idle => \A s \in pub[p].senders : s \in Nat /\ s < nextSender
  BY CallFields, RouterAssumption DEF RouterInv, FanoutInv, FanoutOf, Senders
<1>4. \A w \in WildcardKey : \/ wildcards'[w] = wildcards[w]
                             \/ w = v /\ wildcards[w] = NoSender /\ wildcards'[w] = nextSender
  BY <1>1
<1>5. nextSender' \in Nat /\ nextSender \in Nat /\ nextSender <= nextSender'
  BY <1>1
<1>6. /\ \A l \in ChannelKey : channels[l] < nextSender'
      /\ \A w \in WildcardKey : wildcards'[w] < nextSender'
  BY <1>1, <1>2, <1>5
<1>7. /\ \A w, y \in WildcardKey : wildcards'[w] # NoSender /\ wildcards'[w] = wildcards'[y] => w = y
      /\ \A l \in ChannelKey, w \in WildcardKey :
           channels[l] # NoSender => channels[l] # wildcards'[w]
  BY <1>2, <1>4 DEF RouterInv, BusInv
<1>8. \A r \in Receivers : Active(r) =>
         \A w \in WildcardKey : wildcards'[w] = bus[r] => wildcards[w] = bus[r]
  BY <1>2, <1>4
<1>9. \A p \in Publishers : pub[p] # Idle =>
         \A s \in pub[p].senders, w \in WildcardKey : wildcards'[w] = s => wildcards[w] = s
  BY <1>3, <1>4
<1>10. \A w \in WildcardKey : wildcards[w] # NoSender => wildcards'[w] = wildcards[w]
  BY <1>4
<1> QED BY <1>1, <1>5, <1>6, <1>7, <1>8, <1>9, <1>10 DEF FreshWildcardBus

\* Taking a wildcard sender out of the map keeps the invariant.
LEMMA CloneWildcardSenderInv ==
  ASSUME RouterInv, NEW x \in Receivers, NEW v \in WildcardKey,
         CloneWildcardSender(x, v), TypeOK'
  PROVE  RouterInv'
<1> USE DEF CloneWildcardSender, FreshWildcardBus
<1>a. FreshWildcardBus
  BY NewWildcardBusFresh
<1>b. wildcards'[v] \in Senders /\ wildcards'[v] \in Nat /\ wildcards'[v] # NoSender
  BY NewWildcardBusFresh, RouterAssumption DEF Senders, NoSender
<1>c. /\ target'[x] = v /\ bus'[x] = wildcards'[v] /\ stage'[x] = "cloned"
      /\ \A r \in Receivers : r # x =>
           target'[r] = target[r] /\ bus'[r] = bus[r] /\ stage'[r] = stage[r]
      /\ stage[x] = "free" /\ inbox[x] = << >>
  BY <1>b DEF RouterInv, TypeOK, ReceiverInv
<1>d. \A m : ~Holds(x, m)
  BY <1>c, EmptySet DEF Holds
<1>e. \A r \in Receivers : r # x /\ stage[r] = "attached" => (Mapped(r)' => Mapped(r))
  <2> SUFFICES ASSUME NEW r \in Receivers, r # x, stage[r] = "attached", Mapped(r)'
               PROVE  Mapped(r)
    OBVIOUS
  <2>1. CASE target[r] \in WildcardKey
    BY <1>a, <1>c, <2>1, Names DEF Mapped, Active
  <2>2. CASE target[r].name \notin Patterns
    BY <1>c, <2>2 DEF Mapped
  <2> QED BY <2>1, <2>2 DEF RouterInv, ReceiverInv, Active
<1>1. ReceiverInv'
  <2>1. \A r \in Receivers : Active(r) => bus[r] \in Nat
    BY RouterAssumption DEF RouterInv, ReceiverInv, Senders
  <2> QED BY <1>a, <1>b, <1>c, <2>1 DEF RouterInv, ReceiverInv, Active
<1>2. BusInv'
  <2>1. \A l \in ChannelKey : channels[l] # wildcards'[v]
    BY <1>a, <1>b
  <2> QED BY <1>a, <1>b, <1>c, <2>1 DEF RouterInv, BusInv, Active
<1>3. FanoutInv'
  <2>1. \A p \in Publishers : pub[p] # Idle => \A s \in pub[p].senders : s \in Nat
    BY CallFields, RouterAssumption DEF RouterInv, Senders
  <2> QED BY <1>a, <1>c, <1>d, <2>1 DEF RouterInv, FanoutInv, FanoutOf, Active, Holds
<1>4. CallInv'
  BY <1>c, <1>d DEF RouterInv, CallInv, CallOf, Active, Holds
<1>5. ExactSubscribersMapped'
  BY <1>c DEF RouterInv, ExactSubscribersMapped, Mapped
<1>6. AudienceInv'
  <2>1. \A p \in Publishers : pub[p] # Idle => \A r \in pub[p].audience : r \in Receivers /\ r # x
    BY CallFields, <1>c DEF RouterInv, AudienceInv, AudienceOf
  <2> QED BY <1>c, <1>e, <2>1 DEF RouterInv, AudienceInv, AudienceOf, Holds
<1> QED BY <1>1, <1>2, <1>3, <1>4, <1>5, <1>6 DEF RouterInv

-----------------------------------------------------------------------------
(* Steps of publish                                                        *)

\* The start of publish keeps the invariant.
LEMMA PublishBeginInv ==
  ASSUME RouterInv, NEW u \in Publishers, NEW t \in Tenants, NEW m \in Message,
         PublishBegin(u, t, m), TypeOK'
  PROVE  RouterInv'
<1> USE DEF PublishBegin
<1> DEFINE aud == {r \in Receivers : stage[r] = "attached" /\ Covers(target[r], m.key)}
<1>a. /\ m \notin published
      /\ \A r \in Receivers : ~Holds(r, m)
      /\ \A p \in Publishers : pub[p] # Idle => pub[p].msg # m
  <2>1. m \notin published
    OBVIOUS
  <2> QED BY <2>1 DEF RouterInv, ReceiverInv, CallInv, CallOf, Holds
<1>b. /\ pub'[u] = [phase |-> "exact", msg |-> m, unseen |-> {}, senders |-> {}, delivered |-> 0,
                    audience |-> aud]
      /\ \A p \in Publishers : p # u => pub'[p] = pub[p]
  BY DEF RouterInv, TypeOK
<1>c. /\ pub'[u].phase = "exact" /\ pub'[u].msg = m /\ pub'[u].unseen = {}
      /\ pub'[u].senders = {} /\ pub'[u].audience = aud
  BY <1>b
<1> HIDE DEF aud
<1>1. ReceiverInv'
  BY DEF RouterInv, ReceiverInv, Active
<1>2. BusInv'
  BY DEF RouterInv, BusInv, Active
<1>3. FanoutInv'
  BY <1>b, <1>c DEF RouterInv, FanoutInv, FanoutOf, Active, Holds
<1>4. CallInv'
  BY <1>a, <1>b, <1>c DEF RouterInv, CallInv, CallOf, Active, Holds
<1>5. ExactSubscribersMapped'
  BY DEF RouterInv, ExactSubscribersMapped, Mapped
<1>6. AudienceInv'
  BY <1>b, <1>c DEF RouterInv, AudienceInv, AudienceOf, Holds, Mapped, aud
<1> QED BY <1>1, <1>2, <1>3, <1>4, <1>5, <1>6 DEF RouterInv

\* After a send exactly the attached receivers hold the message as well.
LEMMA SendHolds ==
  ASSUME TypeOK, NEW s, NEW m \in Message, Send(s, m), NEW r \in Receivers, NEW n
  PROVE  Holds(r, n)' <=> Holds(r, n) \/ (r \in Attached(s) /\ n = m)
<1>1. inbox[r] \in Seq(Message)
  BY DEF TypeOK
<1>2. CASE r \in Attached(s)
  <2>1. inbox'[r] = Append(inbox[r], m)
    BY <1>2 DEF Send
  <2>2. ToSet(inbox'[r]) = ToSet(inbox[r]) \cup {m}
    BY <1>1, <2>1, AppendSet
  <2> QED BY <1>2, <2>2 DEF Holds
<1>3. CASE r \notin Attached(s)
  BY <1>3 DEF Send, Holds
<1> QED BY <1>2, <1>3

\* Calls other than the stepping one keep their part of the invariant when the
\* step touches no map and no receiver.
LEMMA OtherCalls ==
  ASSUME RouterInv, NEW u \in Publishers,
         \A p \in Publishers : p # u => pub'[p] = pub[p],
         UNCHANGED <<channels, wildcards, nextSender, target, bus, stage, inbox, published>>,
         pub'[u].msg = pub[u].msg, pub[u] # Idle,
         NEW p \in Publishers, p # u, pub'[p] # Idle
  PROVE  FanoutOf(p)' /\ CallOf(p)' /\ AudienceOf(p)'
<1>1. pub[p] # Idle /\ pub'[p] = pub[p] /\ FanoutOf(p) /\ CallOf(p) /\ AudienceOf(p)
  BY DEF RouterInv, FanoutInv, CallInv, AudienceInv
<1>2. FanoutOf(p)'
  BY <1>1 DEF FanoutOf, Active, Holds
<1>3. CallOf(p)'
  <2>1. ASSUME NEW q \in Publishers, q # p, pub'[q] # Idle PROVE pub'[q].msg # pub[p].msg
    BY <1>1, <2>1 DEF CallOf
  <2> QED BY <1>1, <2>1 DEF CallOf, Active, Holds
<1>4. AudienceOf(p)'
  BY <1>1 DEF AudienceOf, Mapped, Holds
<1> QED BY <1>2, <1>3, <1>4

\* The snapshot of the matching wildcards keeps the invariant.
LEMMA PublishScanInv ==
  ASSUME RouterInv, NEW u \in Publishers, NEW v \in WildcardKey, PublishScan(u, v), TypeOK'
  PROVE  RouterInv'
<1> DEFINE found == IF wildcards[v] # NoSender /\ Covers(v, pub[u].msg.key)
                      THEN pub[u].senders \cup {wildcards[v]} ELSE pub[u].senders
           c == [pub[u] EXCEPT !.unseen = @ \ {v}, !.senders = found]
<1>1. /\ pub[u].phase = "fanout" /\ v \in pub[u].unseen
      /\ UNCHANGED <<channels, wildcards, nextSender, target, bus, stage, inbox, published>>
  BY DEF PublishScan
<1>2. pub[u] # Idle
  BY <1>1 DEF Idle
<1>3. pub[u] \in Call /\ pub[u].msg.key \in ChannelKey
  BY <1>2, CallFields DEF RouterInv
<1>4. pub'[u] = c /\ \A p \in Publishers : p # u => pub'[p] = pub[p]
  BY <1>3 DEF PublishScan, Call, RouterInv, TypeOK
<1>5. /\ c.phase = pub[u].phase /\ c.msg = pub[u].msg /\ c.audience = pub[u].audience
      /\ c.unseen = pub[u].unseen \ {v} /\ c.senders = found
  BY <1>3 DEF Call
<1>6. /\ \A s \in found : \/ s \in pub[u].senders
                          \/ s = wildcards[v] /\ s # NoSender /\ Covers(v, pub[u].msg.key)
      /\ wildcards[v] # NoSender /\ Covers(v, pub[u].msg.key) => wildcards[v] \in found
      /\ pub[u].senders \subseteq found
  OBVIOUS
<1> HIDE DEF found, c
<1>7. FanoutOf(u) /\ CallOf(u) /\ AudienceOf(u)
  BY <1>2 DEF RouterInv, FanoutInv, CallInv, AudienceInv
<1>8. FanoutOf(u)'
  <2> SUFFICES ASSUME NEW s \in found
               PROVE  /\ s < nextSender
                      /\ \A k \in ChannelKey : channels[k] # s
                      /\ \A w \in WildcardKey : wildcards[w] = s => Covers(w, pub[u].msg.key)
                      /\ \A r \in Receivers : Active(r) /\ bus[r] = s =>
                           Covers(target[r], pub[u].msg.key) /\ ~Holds(r, pub[u].msg)
    BY <1>1, <1>4, <1>5 DEF FanoutOf, Active, Holds
  <2>1. CASE s \in pub[u].senders
    BY <1>7, <2>1 DEF FanoutOf
  <2>2. CASE s = wildcards[v] /\ s # NoSender /\ Covers(v, pub[u].msg.key)
    <3>1. s < nextSender /\ \A k \in ChannelKey : channels[k] # s
      BY <2>2 DEF RouterInv, BusInv
    <3>2. \A w \in WildcardKey : wildcards[w] = s => w = v
      BY <2>2 DEF RouterInv, BusInv
    <3>3. \A r \in Receivers : Active(r) /\ bus[r] = s => target[r] = v
      BY <2>2 DEF RouterInv, BusInv
    <3>4. \A r \in Receivers : Active(r) /\ bus[r] = s => ~Holds(r, pub[u].msg)
      BY <1>1, <1>7, <3>3, Names DEF CallOf
    <3> QED BY <2>2, <3>1, <3>2, <3>3, <3>4
  <2> QED BY <1>6, <2>1, <2>2
<1>9. CallOf(u)'
  <2>1. pub[u].unseen # {} /\ pub[u].phase # "exact"
    BY <1>1
  <2> QED BY <1>1, <1>4, <1>5, <1>7, <2>1 DEF CallOf, Active, Holds
<1>10. AudienceOf(u)'
  <2> SUFFICES ASSUME NEW r \in pub[u].audience
               PROVE  /\ stage[r] \in {"attached", "dropped"}
                      /\ stage[r] = "attached" =>
                           /\ Covers(target[r], pub[u].msg.key)
                           /\ Mapped(r) => \/ Holds(r, pub[u].msg)
                                           \/ target[r] \in pub[u].unseen \ {v}
                                           \/ bus[r] \in found
    BY <1>1, <1>4, <1>5 DEF AudienceOf, Mapped, Holds
  <2>1. r \in Receivers
    BY <1>2, CallFields DEF RouterInv
  <2>2. /\ stage[r] \in {"attached", "dropped"}
        /\ stage[r] = "attached" =>
             /\ Covers(target[r], pub[u].msg.key)
             /\ Mapped(r) => \/ Holds(r, pub[u].msg)
                             \/ target[r] \in pub[u].unseen
                             \/ bus[r] \in pub[u].senders
    BY <1>1, <1>7 DEF AudienceOf
  <2>3. ASSUME stage[r] = "attached", Mapped(r), target[r] = v
        PROVE  bus[r] \in found
    <3>1. wildcards[v] = bus[r]
      BY <2>3, Names DEF Mapped
    <3>2. bus[r] # NoSender
      BY <2>1, <2>3, RouterAssumption DEF RouterInv, ReceiverInv, Active, Senders, NoSender
    <3> QED BY <1>6, <2>2, <2>3, <3>1, <3>2
  <2> QED BY <1>6, <2>2, <2>3
<1>11. ASSUME NEW p \in Publishers, pub'[p] # Idle
       PROVE  FanoutOf(p)' /\ CallOf(p)' /\ AudienceOf(p)'
  <2>1. CASE p = u
    BY <1>8, <1>9, <1>10, <2>1
  <2>2. CASE p # u
    <3>1. pub'[u].msg = pub[u].msg
      BY <1>4, <1>5
    <3> QED BY <1>1, <1>2, <1>4, <1>11, <2>2, <3>1, OtherCalls
  <2> QED BY <2>1, <2>2
<1>12. FanoutInv' /\ CallInv' /\ AudienceInv'
  BY <1>11 DEF FanoutInv, CallInv, AudienceInv
<1>13. ReceiverInv' /\ BusInv' /\ ExactSubscribersMapped'
  BY <1>1 DEF RouterInv, ReceiverInv, BusInv, ExactSubscribersMapped, Mapped, Active
<1> QED BY <1>12, <1>13 DEF RouterInv

\* A send disturbs no call but its own: the others carry other messages.
LEMMA SendOtherCalls ==
  ASSUME RouterInv, NEW u \in Publishers, pub[u] # Idle, NEW s, Send(s, pub[u].msg),
         \A p \in Publishers : p # u => pub'[p] = pub[p],
         UNCHANGED <<target, bus, stage, wildcards, published>>,
         nextSender \in Nat, nextSender' \in Nat, nextSender <= nextSender',
         \A p \in Publishers : pub[p] # Idle =>
           \A z \in pub[p].senders, l \in ChannelKey : channels'[l] # z,
         \A r \in Receivers : stage[r] = "attached" => (Mapped(r)' <=> Mapped(r)),
         pub'[u].msg = pub[u].msg,
         NEW p \in Publishers, p # u, pub'[p] # Idle
  PROVE  FanoutOf(p)' /\ CallOf(p)' /\ AudienceOf(p)'
<1>1. pub[p] # Idle /\ pub'[p] = pub[p] /\ FanoutOf(p) /\ CallOf(p) /\ AudienceOf(p)
  BY DEF RouterInv, FanoutInv, CallInv, AudienceInv
<1>2. pub[u].msg \in Message /\ pub[p].msg # pub[u].msg
  BY <1>1, CallFields DEF RouterInv, CallOf
<1>3. ASSUME NEW r \in Receivers
      PROVE  pub[p].msg \in ToSet(inbox'[r]) <=> pub[p].msg \in ToSet(inbox[r])
  BY <1>2, SendHolds DEF RouterInv, Holds
<1>4. FanoutOf(p)'
  <2>1. \A z \in pub[p].senders : z \in Nat
    BY <1>1, CallFields, RouterAssumption DEF RouterInv, Senders
  <2> QED BY <1>1, <1>3, <2>1 DEF FanoutOf, Active, Holds
<1>5. CallOf(p)'
  <2>1. ASSUME NEW q \in Publishers, q # p, pub'[q] # Idle PROVE pub'[q].msg # pub[p].msg
    BY <1>1, <2>1 DEF CallOf
  <2> QED BY <1>1, <1>3, <2>1 DEF CallOf, Active, Holds
<1>6. AudienceOf(p)'
  <2>1. pub[p].audience \subseteq Receivers
    BY <1>1, CallFields DEF RouterInv
  <2> QED BY <1>1, <1>3, <2>1 DEF AudienceOf, Holds
<1> QED BY <1>4, <1>5, <1>6

\* A send reaches attached receivers only, with a message that was published.
LEMMA SendReceivers ==
  ASSUME RouterInv, NEW u \in Publishers, pub[u] # Idle, NEW s, Send(s, pub[u].msg),
         UNCHANGED <<target, bus, stage, published>>,
         nextSender \in Nat, nextSender' \in Nat, nextSender <= nextSender'
  PROVE  ReceiverInv'
<1>1. pub[u].msg \in published /\ pub[u].msg \in Message
  BY CallFields DEF RouterInv, CallInv, CallOf
<1>2. ASSUME NEW r \in Receivers PROVE ToSet(inbox'[r]) \subseteq published
  BY <1>1, SendHolds DEF RouterInv, ReceiverInv, Holds
<1>3. ASSUME NEW r \in Receivers, stage[r] \in {"free", "cloned"} PROVE inbox'[r] = << >>
  BY <1>3 DEF RouterInv, ReceiverInv, Send, Attached
<1>4. \A r \in Receivers : Active(r) => bus[r] \in Nat
  BY RouterAssumption DEF RouterInv, ReceiverInv, Senders
<1> QED BY <1>2, <1>3, <1>4 DEF RouterInv, ReceiverInv, Active

\* One send of the wildcard fan-out keeps the invariant.
LEMMA PublishFanoutInv ==
  ASSUME RouterInv, NEW u \in Publishers, NEW z \in Senders, PublishFanout(u, z), TypeOK'
  PROVE  RouterInv'
<1> DEFINE m == pub[u].msg
           c == [pub[u] EXCEPT !.senders = @ \ {z},
                               !.delivered = @ + Cardinality(Attached(z))]
<1>1. /\ pub[u].phase = "fanout" /\ pub[u].unseen = {} /\ z \in pub[u].senders /\ Send(z, m)
      /\ UNCHANGED <<channels, wildcards, nextSender, target, bus, stage, published>>
  BY DEF PublishFanout
<1>2. pub[u] # Idle
  BY <1>1 DEF Idle
<1>3. pub[u] \in Call /\ m \in Message /\ m.key \in ChannelKey
  BY <1>2, CallFields DEF RouterInv
<1>4. pub'[u] = c /\ \A p \in Publishers : p # u => pub'[p] = pub[p]
  BY <1>3 DEF PublishFanout, Call, RouterInv, TypeOK
<1>5. /\ c.phase = pub[u].phase /\ c.msg = m /\ c.audience = pub[u].audience
      /\ c.unseen = pub[u].unseen /\ c.senders = pub[u].senders \ {z}
  BY <1>3 DEF Call
<1> HIDE DEF c
<1>6. FanoutOf(u) /\ CallOf(u) /\ AudienceOf(u)
  BY <1>2 DEF RouterInv, FanoutInv, CallInv, AudienceInv
<1>7. \A r \in Receivers : m \in ToSet(inbox'[r]) <=> Holds(r, m) \/ r \in Attached(z)
  BY <1>1, <1>3, SendHolds DEF RouterInv, Holds
<1>8. nextSender \in Nat
  BY DEF RouterInv, TypeOK
<1>9. FanoutOf(u)'
  <2>1. ASSUME NEW s \in pub[u].senders, s # z, NEW r \in Receivers, Active(r), bus[r] = s
        PROVE  m \notin ToSet(inbox'[r])
    BY <1>6, <1>7, <2>1 DEF FanoutOf, Attached
  <2> QED BY <1>1, <1>4, <1>5, <1>6, <2>1 DEF FanoutOf, Active, Holds
<1>10. CallOf(u)'
  BY <1>1, <1>4, <1>5, <1>6 DEF CallOf
<1>11. AudienceOf(u)'
  <2>1. pub[u].audience \subseteq Receivers
    BY <1>2, CallFields DEF RouterInv
  <2>2. \A r \in Receivers : stage[r] = "attached" /\ bus[r] = z => r \in Attached(z)
    BY DEF Attached
  <2> QED BY <1>1, <1>4, <1>5, <1>6, <1>7, <2>1, <2>2 DEF AudienceOf, Mapped, Holds
<1>12. ASSUME NEW p \in Publishers, pub'[p] # Idle
       PROVE  FanoutOf(p)' /\ CallOf(p)' /\ AudienceOf(p)'
  <2>1. CASE p = u
    BY <1>9, <1>10, <1>11, <2>1
  <2>2. CASE p # u
    <3>1. pub'[u].msg = pub[u].msg
      BY <1>4, <1>5
    <3>2. \A r \in Receivers : stage[r] = "attached" => (Mapped(r)' <=> Mapped(r))
      BY <1>1 DEF Mapped
    <3>3. \A q \in Publishers : pub[q] # Idle =>
            \A s \in pub[q].senders, l \in ChannelKey : channels'[l] # s
      BY <1>1 DEF RouterInv, FanoutInv, FanoutOf
    <3>4. nextSender' \in Nat /\ nextSender <= nextSender'
      BY <1>1, <1>8
    <3> QED BY <1>1, <1>2, <1>4, <1>8, <1>12, <2>2, <3>1, <3>2, <3>3, <3>4, SendOtherCalls
  <2> QED BY <2>1, <2>2
<1>13. FanoutInv' /\ CallInv' /\ AudienceInv'
  BY <1>12 DEF FanoutInv, CallInv, AudienceInv
<1>14. ReceiverInv'
  BY <1>1, <1>2, <1>8, SendReceivers
<1>15. BusInv' /\ ExactSubscribersMapped'
  BY <1>1 DEF RouterInv, BusInv, ExactSubscribersMapped, Mapped, Active
<1> QED BY <1>13, <1>14, <1>15 DEF RouterInv

\* The send on the exact channel keeps the invariant.
LEMMA PublishExactInv ==
  ASSUME RouterInv, NEW u \in Publishers, PublishExact(u), TypeOK'
  PROVE  RouterInv'
<1> DEFINE m == pub[u].msg
           z == channels'[m.key]
           c == [pub[u] EXCEPT !.phase = "fanout", !.unseen = WildcardKey,
                               !.delivered = Cardinality(Attached(z))]
<1>1. /\ pub[u].phase = "exact" /\ Send(z, m)
      /\ channels' = GetOrCreate(channels, m.key) /\ TakeSender(channels, m.key)
      /\ UNCHANGED <<wildcards, target, bus, stage, published>>
  BY DEF PublishExact
<1>2. pub[u] # Idle
  BY <1>1 DEF Idle
<1>3. pub[u] \in Call /\ m \in Message /\ m.key \in ChannelKey
  BY <1>2, CallFields DEF RouterInv
<1>4. pub'[u] = c /\ \A p \in Publishers : p # u => pub'[p] = pub[p]
  BY <1>3 DEF PublishExact, Call, RouterInv, TypeOK
<1>5. /\ c.phase = "fanout" /\ c.msg = m /\ c.audience = pub[u].audience
      /\ c.unseen = WildcardKey /\ c.senders = pub[u].senders
  BY <1>3 DEF Call
<1>6. FreshChannelBus /\ z # NoSender
  BY <1>1, <1>3, NewChannelBusFresh, NewChannelBus DEF Senders, NoSender
<1> HIDE DEF c, z
<1>7. FanoutOf(u) /\ CallOf(u) /\ AudienceOf(u)
  BY <1>2 DEF RouterInv, FanoutInv, CallInv, AudienceInv
<1>8. \A r \in Receivers : m \in ToSet(inbox'[r]) <=> Holds(r, m) \/ r \in Attached(z)
  BY <1>1, <1>3, SendHolds DEF RouterInv, Holds
<1>9. \A r \in Receivers : stage[r] = "attached" => (Mapped(r)' <=> Mapped(r))
  <2> SUFFICES ASSUME NEW r \in Receivers, stage[r] = "attached"
               PROVE  Mapped(r)' <=> Mapped(r)
    OBVIOUS
  <2>1. CASE target[r].name \in Patterns
    BY <1>1, <2>1 DEF Mapped
  <2>2. CASE target[r].name \notin Patterns
    <3>1. target[r] \in ChannelKey /\ bus[r] # NoSender
      BY <2>2, Names DEF RouterInv, ReceiverInv, Active, Senders, NoSender
    <3>2. channels[target[r]] = bus[r]
      BY <2>2 DEF RouterInv, ExactSubscribersMapped, Mapped
    <3> QED BY <1>1, <1>6, <2>2, <3>1, <3>2 DEF Mapped, FreshChannelBus
  <2> QED BY <2>1, <2>2
<1>10. FanoutOf(u)'
  BY <1>1, <1>4, <1>5, <1>7 DEF FanoutOf, CallOf
<1>11. CallOf(u)'
  <2>1. ASSUME NEW r \in Receivers, Active(r), m \in ToSet(inbox'[r])
        PROVE  target[r].name \notin Patterns
    <3>1. r \in Attached(z)
      BY <1>1, <1>7, <1>8, <2>1 DEF CallOf
    <3>2. channels'[m.key] = bus[r]
      BY <3>1 DEF Attached, z
    <3> QED BY <1>3, <1>6, <2>1, <3>2 DEF FreshChannelBus
  <2> QED BY <1>1, <1>4, <1>5, <1>7, <2>1 DEF CallOf, Active, Holds
<1>12. AudienceOf(u)'
  <2> SUFFICES ASSUME NEW r \in pub[u].audience
               PROVE  /\ stage[r] \in {"attached", "dropped"}
                      /\ stage[r] = "attached" =>
                           /\ Covers(target[r], m.key)
                           /\ m \in ToSet(inbox'[r]) \/ target[r] \in WildcardKey
    BY <1>1, <1>4, <1>5 DEF AudienceOf, Mapped, Holds
  <2>1. r \in Receivers
    BY <1>2, CallFields DEF RouterInv
  <2>2. ASSUME stage[r] = "attached", target[r] \notin WildcardKey
        PROVE  r \in Attached(z)
    <3>1. /\ target[r] \in ChannelKey /\ target[r].name \notin Patterns /\ bus[r] # NoSender
          /\ Covers(target[r], m.key)
      BY <1>7, <2>1, <2>2 DEF RouterInv, ReceiverInv, Active, AudienceOf, Senders, NoSender
    <3>2. target[r] = m.key
      <4>1. <<target[r].name, m.key.name>> \notin Match
        BY <3>1, NamesAssumption
      <4>2. target[r].name = m.key.name /\ target[r].tenant = m.key.tenant
        BY <3>1, <4>1 DEF Covers
      <4> QED BY <1>3, <3>1, <4>2 DEF ChannelKey
    <3>3. channels[m.key] = bus[r]
      BY <2>1, <2>2, <3>1, <3>2 DEF RouterInv, ExactSubscribersMapped, Mapped
    <3>4. z = bus[r]
      BY <1>3, <1>6, <3>1, <3>3 DEF FreshChannelBus, z
    <3> QED BY <2>1, <2>2, <3>4 DEF Attached
  <2> QED BY <1>7, <1>8, <2>1, <2>2 DEF AudienceOf
<1>13. ASSUME NEW p \in Publishers, pub'[p] # Idle
       PROVE  FanoutOf(p)' /\ CallOf(p)' /\ AudienceOf(p)'
  <2>1. CASE p = u
    BY <1>10, <1>11, <1>12, <2>1
  <2>2. CASE p # u
    <3>1. pub'[u].msg = pub[u].msg
      BY <1>4, <1>5
    <3>2. \A q \in Publishers : pub[q] # Idle =>
            \A s \in pub[q].senders, l \in ChannelKey : channels'[l] # s
      BY <1>6 DEF FreshChannelBus
    <3>3. nextSender \in Nat /\ nextSender' \in Nat /\ nextSender <= nextSender'
      BY <1>6 DEF FreshChannelBus
    <3> QED BY <1>1, <1>2, <1>4, <1>9, <1>13, <2>2, <3>1, <3>2, <3>3, SendOtherCalls
  <2> QED BY <2>1, <2>2
<1>14. FanoutInv' /\ CallInv' /\ AudienceInv'
  BY <1>13 DEF FanoutInv, CallInv, AudienceInv
<1>15. ReceiverInv'
  BY <1>1, <1>2, <1>6, SendReceivers DEF FreshChannelBus
<1>16. BusInv'
  BY <1>1, <1>6 DEF RouterInv, BusInv, Active, FreshChannelBus
<1>17. ExactSubscribersMapped'
  BY <1>1, <1>9 DEF RouterInv, ExactSubscribersMapped
<1> QED BY <1>14, <1>15, <1>16, <1>17 DEF RouterInv

-----------------------------------------------------------------------------
(* Results                                                                 *)

\* Every step of a router method keeps the inductive invariant.
LEMMA InvStep == RouterInv /\ [Next]_vars => RouterInv'
<1> SUFFICES ASSUME RouterInv, [Next]_vars PROVE RouterInv'
  OBVIOUS
<1>1. TypeOK'
  BY TypeStep DEF RouterInv
<1>2. CASE UNCHANGED vars
  BY <1>1, <1>2 DEF vars, RouterInv, ReceiverInv, BusInv, FanoutInv, FanoutOf, CallInv, CallOf,
     ExactSubscribersMapped, AudienceInv, AudienceOf, Active, Mapped, Holds
<1>3. CASE Next
  BY <1>1, <1>3, SubscribeInv, CloneWildcardSenderInv, AttachToCloneInv, DropReceiverInv,
     PublishBeginInv, PublishExactInv, PublishScanInv, PublishFanoutInv, PublishReturnInv,
     ReplayInv, PruneEmptyInv, PruneWildcardsBeginInv, PruneWildcardInv DEF Next
<1> QED BY <1>2, <1>3

\* The inductive invariant holds in every reachable state.
LEMMA Invariance == Spec => []RouterInv
  BY InvInit, InvStep, PTL DEF Spec

\* No interleaving of subscribe, replay, publish and prune_empty leaves a
\* subscriber of a channel on a bus that publish no longer looks up.
THEOREM ExactSubscribersStayMapped == Spec => []ExactSubscribersMapped
  BY Invariance, PTL DEF RouterInv

\* When publish returns, it has reached every subscriber that the maps lead to.
THEOREM PublishReachesAudience == Spec => []AudienceReached
<1>1. RouterInv => AudienceReached
  <2> SUFFICES ASSUME RouterInv, NEW u \in Publishers, pub[u] # Idle, Spent(u),
                      NEW r \in pub[u].audience, stage[r] = "attached", Mapped(r)
               PROVE  Holds(r, pub[u].msg)
    BY DEF AudienceReached
  <2>1. AudienceOf(u)
    BY DEF RouterInv, AudienceInv
  <2> QED BY <2>1 DEF AudienceOf, Spent
<1> QED BY <1>1, Invariance, PTL

\* PubSub and the router speak of the same targets and messages.
LEMMA PromiseNames ==
  /\ Promise!Target = Target
  /\ Promise!Message = Message
  /\ \A w, k : Promise!Covers(w, k) <=> Covers(w, k)
  /\ \A q : Promise!ToSet(q) = ToSet(q)
  BY DEF Promise!Target, Promise!ChannelKey, Promise!WildcardKey, Promise!Message, Promise!Covers,
     Promise!ToSet, Target, ChannelKey, WildcardKey, Message, Covers, ToSet

\* The empty router maps to the initial state of PubSub.
LEMMA PromiseInit == Init => Promise!Init
  BY DEF Init, Promise!Init, Subscribed

\* One send hands the message to receivers that the promise allows.
LEMMA SendKeepsPromise ==
  ASSUME RouterInv, NEW u \in Publishers, pub[u] # Idle, NEW s, Send(s, pub[u].msg),
         UNCHANGED <<target, stage>>,
         \A r \in Attached(s) : Covers(target[r], pub[u].msg.key) /\ ~Holds(r, pub[u].msg)
  PROVE  Promise!Next
<1> DEFINE m == pub[u].msg
           S == Attached(s)
<1>1. m \in Message /\ S \in SUBSET Receivers
  BY CallFields DEF RouterInv, Attached
<1>2. ASSUME NEW r \in S
      PROVE  Subscribed[r] # NoTarget /\ Covers(Subscribed[r], m.key) /\ m \notin ToSet(inbox[r])
  <2>1. r \in Receivers /\ stage[r] = "attached" /\ target[r] \in Target
    BY DEF Attached, RouterInv, ReceiverInv, Active, Target
  <2> QED BY <2>1, NamesAssumption DEF Subscribed, Holds
<1>3. UNCHANGED Subscribed
  BY DEF Subscribed
<1>4. Promise!Deliver(m, S)
  BY <1>2, <1>3, PromiseNames DEF Promise!Deliver, Send
<1> QED BY <1>1, <1>4, PromiseNames DEF Promise!Next

\* Every step of a router method is a step of PubSub or a stutter.
LEMMA PromiseStep == RouterInv /\ [Next]_vars => [Promise!Next]_(Promise!vars)
<1> SUFFICES ASSUME RouterInv, [Next]_vars
             PROVE  Promise!Next \/ UNCHANGED Promise!vars
  OBVIOUS
<1>1. ASSUME NEW r \in Receivers, NEW t \in Tenants, NEW k \in ChannelKey, Subscribe(r, t, k)
      PROVE  Promise!Next
  <2>1. Promise!Attach(r, k)
    BY <1>1 DEF Subscribe, Promise!Attach, Subscribed, RouterInv, TypeOK, ReceiverInv
  <2> QED BY <2>1, PromiseNames DEF Promise!Next, Target
<1>2. ASSUME NEW r \in Receivers, AttachToClone(r)
      PROVE  Promise!Next
  <2>1. target[r] \in Target
    BY <1>2 DEF AttachToClone, RouterInv, ReceiverInv, Target
  <2>2. Promise!Attach(r, target[r])
    BY <1>2 DEF AttachToClone, Promise!Attach, Subscribed, RouterInv, TypeOK, ReceiverInv
  <2> QED BY <2>1, <2>2, PromiseNames DEF Promise!Next
<1>3. ASSUME NEW r \in Receivers, DropReceiver(r)
      PROVE  Promise!Next
  <2>1. target[r] \in Target
    BY <1>3 DEF DropReceiver, RouterInv, ReceiverInv, Active, Target
  <2>2. Promise!Detach(r)
    BY <1>3, <2>1, NamesAssumption DEF DropReceiver, Promise!Detach, Subscribed, RouterInv, TypeOK
  <2> QED BY <2>2 DEF Promise!Next
<1>4. ASSUME NEW u \in Publishers, PublishExact(u)
      PROVE  Promise!Next
  <2> DEFINE m == pub[u].msg
             s == channels'[m.key]
  <2>1. /\ pub[u].phase = "exact" /\ Send(s, m) /\ UNCHANGED <<target, stage>>
        /\ channels' = GetOrCreate(channels, m.key) /\ TakeSender(channels, m.key)
    BY <1>4 DEF PublishExact
  <2>2. pub[u] # Idle
    BY <2>1 DEF Idle
  <2>3. m.key \in ChannelKey /\ CallOf(u)
    BY <2>2, CallFields DEF RouterInv, CallInv
  <2>4. FreshChannelBus
    BY <2>1, <2>3, NewChannelBusFresh
  <2>5. ASSUME NEW r \in Attached(s) PROVE Covers(target[r], m.key) /\ ~Holds(r, m)
    <3>1. r \in Receivers /\ Active(r) /\ bus[r] = channels'[m.key]
      BY DEF Attached, Active
    <3>2. target[r] = m.key
      BY <2>3, <2>4, <3>1 DEF FreshChannelBus
    <3> QED BY <2>1, <2>3, <3>1, <3>2 DEF Covers, CallOf
  <2> QED BY <2>1, <2>2, <2>5, SendKeepsPromise
<1>5. ASSUME NEW u \in Publishers, NEW s \in Senders, PublishFanout(u, s)
      PROVE  Promise!Next
  <2>1. /\ pub[u].phase = "fanout" /\ s \in pub[u].senders /\ Send(s, pub[u].msg)
        /\ UNCHANGED <<target, stage>>
    BY <1>5 DEF PublishFanout
  <2>2. pub[u] # Idle
    BY <2>1 DEF Idle
  <2>3. FanoutOf(u)
    BY <2>2 DEF RouterInv, FanoutInv
  <2>4. \A r \in Attached(s) : Covers(target[r], pub[u].msg.key) /\ ~Holds(r, pub[u].msg)
    BY <2>1, <2>3 DEF FanoutOf, Attached, Active
  <2> QED BY <2>1, <2>2, <2>4, SendKeepsPromise
<1>6. ASSUME NEW r \in Receivers, NEW w \in WildcardKey, CloneWildcardSender(r, w)
      PROVE  UNCHANGED Promise!vars
  <2>1. /\ stage[r] = "free" /\ stage'[r] = "cloned" /\ inbox' = inbox
        /\ \A q \in Receivers : q # r => stage'[q] = stage[q] /\ target'[q] = target[q]
    BY <1>6 DEF CloneWildcardSender, RouterInv, TypeOK
  <2>2. \A q \in Receivers : (IF stage'[q] = "attached" THEN target'[q] ELSE NoTarget)
                              = (IF stage[q] = "attached" THEN target[q] ELSE NoTarget)
    BY <2>1
  <2>3. Subscribed' = Subscribed
    BY <2>2 DEF Subscribed
  <2> QED BY <2>1, <2>3 DEF Promise!vars
<1>7. ASSUME UNCHANGED <<stage, target, inbox>> PROVE UNCHANGED Promise!vars
  BY <1>7 DEF Promise!vars, Subscribed
<1>8. ASSUME \/ \E p \in Publishers, t \in Tenants, m \in Message : PublishBegin(p, t, m)
             \/ \E p \in Publishers, w \in WildcardKey : PublishScan(p, w)
             \/ \E p \in Publishers : PublishReturn(p)
             \/ \E t \in Tenants, k \in ChannelKey : Replay(t, k)
             \/ \E k \in ChannelKey : PruneEmpty(k)
             \/ PruneWildcardsBegin
             \/ \E w \in WildcardKey : PruneWildcard(w)
             \/ UNCHANGED vars
      PROVE  UNCHANGED <<stage, target, inbox>>
  BY <1>8 DEF PublishBegin, PublishScan, PublishReturn, Replay, PruneEmpty, PruneWildcardsBegin,
     PruneWildcard, vars
<1> QED BY <1>1, <1>2, <1>3, <1>4, <1>5, <1>6, <1>7, <1>8 DEF Next

\* The router implements PubSub: tenant isolation, target matching and
\* at-most-once delivery to every receiver.
THEOREM RouterKeepsPromise == Spec => KeepsPromise
<1>1. Spec => [][Promise!Next]_(Promise!vars)
  BY Invariance, PromiseStep, PTL DEF Spec
<1>2. Spec => Promise!Init
  BY PromiseInit DEF Spec
<1> QED BY <1>1, <1>2 DEF KeepsPromise, Promise!Spec

-----------------------------------------------------------------------------
(* What publish and REPLAY report                                          *)

\* The receivers that hold m.
Holders(m) == {r \in Receivers : Holds(r, m)}

\* The count of p's call is the number of receivers that hold its message.
Counted(p) == pub[p].delivered = Cardinality(Holders(pub[p].msg))

\* A send adds the attached receivers to those that hold the message.
LEMMA SendCounts ==
  ASSUME TypeOK, NEW s, NEW m \in Message, Send(s, m), \A r \in Attached(s) : ~Holds(r, m)
  PROVE  /\ Cardinality(Holders(m)') = Cardinality(Holders(m)) + Cardinality(Attached(s))
         /\ \A n : n # m => Holders(n)' = Holders(n)
<1>1. \A r \in Receivers : \A n : Holds(r, n)' <=> Holds(r, n) \/ (r \in Attached(s) /\ n = m)
  BY SendHolds
<1>2. Attached(s) \subseteq Receivers
  BY DEF Attached
<1>3. Holders(m)' = Holders(m) \cup Attached(s)
  BY <1>1, <1>2 DEF Holders
<1>4. Holders(m) \cap Attached(s) = {}
  BY DEF Holders
<1>5. IsFiniteSet(Holders(m)) /\ IsFiniteSet(Attached(s))
  BY RouterAssumption, FS_Subset DEF Holders, Attached
<1>6. PICK H, A : H = Holders(m) /\ A = Attached(s)
  OBVIOUS
<1>7. Cardinality(H \cup A) = Cardinality(H) + Cardinality(A) - Cardinality(H \cap A)
  BY <1>5, <1>6, FS_Union
<1>8. Cardinality(H \cap A) = 0 /\ Cardinality(H) \in Nat /\ Cardinality(A) \in Nat
  BY <1>4, <1>5, <1>6, FS_EmptySet, FS_CardinalityType
<1>9. Cardinality(H \cup A) = Cardinality(H) + Cardinality(A)
  BY <1>7, <1>8
<1>10. \A n : n # m => Holders(n)' = Holders(n)
  BY <1>1 DEF Holders
<1> QED BY <1>3, <1>6, <1>9, <1>10

\* The count of a call moves with the receivers that hold its message.
LEMMA CountStep ==
  ASSUME RouterInv, DeliveredCountExact, [Next]_vars PROVE DeliveredCountExact'
<1>1. \A p \in Publishers : pub[p] # Idle => pub[p].delivered = Cardinality(Holders(pub[p].msg))
  BY DEF DeliveredCountExact, Holders
<1>2. SUFFICES ASSUME NEW p \in Publishers, pub'[p] # Idle
               PROVE  Counted(p)'
  BY DEF DeliveredCountExact, Counted, Holders
<1>3. TypeOK /\ pub \in [Publishers -> {Idle} \cup Call]
  BY DEF RouterInv, TypeOK
<1>4. ASSUME UNCHANGED inbox, pub'[p].delivered = pub[p].delivered, pub'[p].msg = pub[p].msg, pub[p] # Idle
      PROVE  Counted(p)'
  BY <1>1, <1>4 DEF Counted, Holders, Holds
<1>5. ASSUME NEW u \in Publishers, NEW t \in Tenants, NEW m \in Message, PublishBegin(u, t, m)
      PROVE  Counted(p)'
  <2>1. CASE p = u
    <3>1. pub'[p].delivered = 0 /\ pub'[p].msg = m /\ UNCHANGED inbox
      BY <1>3, <1>5, <2>1 DEF PublishBegin
    <3>2. m \notin published
      BY <1>5 DEF PublishBegin
    <3>3. Holders(m) = {}
      BY <3>2 DEF RouterInv, ReceiverInv, Holders, Holds
    <3>4. Holders(m)' = {}
      BY <3>1, <3>3 DEF Holders, Holds
    <3> QED BY <3>1, <3>4, FS_EmptySet DEF Counted
  <2>2. CASE p # u
    <3>1. pub'[p] = pub[p] /\ UNCHANGED inbox
      BY <1>3, <1>5, <2>2 DEF PublishBegin
    <3> QED BY <1>2, <1>4, <3>1
  <2> QED BY <2>1, <2>2
<1>6. ASSUME NEW u \in Publishers, NEW s, NEW c, pub[u] # Idle, Send(s, pub[u].msg),
             \A r \in Attached(s) : ~Holds(r, pub[u].msg),
             pub' = [pub EXCEPT ![u] = c], c.msg = pub[u].msg,
             c.delivered = Cardinality(Holders(pub[u].msg)) + Cardinality(Attached(s))
      PROVE  Counted(p)'
  <2>1. PICK m \in Message : m = pub[u].msg
    BY <1>3, <1>6, CallFields
  <2>2. /\ Cardinality(Holders(m)') = Cardinality(Holders(m)) + Cardinality(Attached(s))
        /\ \A n : n # m => Holders(n)' = Holders(n)
    BY <1>3, <1>6, <2>1, SendCounts
  <2>3. CASE p = u
    BY <1>3, <1>6, <2>1, <2>2, <2>3 DEF Counted
  <2>4. CASE p # u
    <3>1. pub'[p] = pub[p]
      BY <1>3, <1>6, <2>4
    <3>2. pub[p].msg # m
      BY <1>2, <1>6, <2>1, <2>4, <3>1 DEF RouterInv, CallInv, CallOf
    <3>3. PICK n : n = pub[p].msg
      OBVIOUS
    <3>4. Holders(n)' = Holders(n)
      BY <2>2, <3>2, <3>3
    <3> QED BY <1>1, <1>2, <3>1, <3>3, <3>4 DEF Counted
  <2> QED BY <2>3, <2>4
<1>7. ASSUME NEW u \in Publishers, PublishExact(u)
      PROVE  Counted(p)'
  <2>1. PICK z : z = channels'[pub[u].msg.key]
    OBVIOUS
  <2>2. pub[u].phase = "exact" /\ Send(z, pub[u].msg)
    BY <1>7, <2>1 DEF PublishExact
  <2>3. pub[u] # Idle
    BY <2>2 DEF Idle
  <2>4. \A r \in Receivers : ~Holds(r, pub[u].msg)
    BY <2>2, <2>3 DEF RouterInv, CallInv, CallOf
  <2>5. Holders(pub[u].msg) = {} /\ Attached(z) \subseteq Receivers
    BY <2>4 DEF Holders, Attached
  <2>6. pub[u] \in Call
    BY <1>3, <2>3
  <2>7. PICK c : c = [pub[u] EXCEPT !.phase = "fanout", !.unseen = WildcardKey,
                                    !.delivered = Cardinality(Attached(z))]
    OBVIOUS
  <2>8. pub' = [pub EXCEPT ![u] = c]
    BY <1>3, <1>7, <2>1, <2>7 DEF PublishExact
  <2>9. c.msg = pub[u].msg /\ c.delivered = Cardinality(Attached(z))
    BY <2>6, <2>7 DEF Call
  <2>10. Cardinality(Attached(z)) = Cardinality(Holders(pub[u].msg)) + Cardinality(Attached(z))
    BY <2>5, FS_EmptySet, CardinalityNat
  <2> QED BY <1>6, <2>2, <2>3, <2>4, <2>5, <2>8, <2>9, <2>10
<1>8. ASSUME NEW u \in Publishers, NEW s \in Senders, PublishFanout(u, s)
      PROVE  Counted(p)'
  <2>1. pub[u].phase = "fanout" /\ s \in pub[u].senders /\ Send(s, pub[u].msg)
    BY <1>8 DEF PublishFanout
  <2>2. pub[u] # Idle
    BY <2>1 DEF Idle
  <2>3. \A r \in Attached(s) : ~Holds(r, pub[u].msg)
    BY <2>1, <2>2 DEF RouterInv, FanoutInv, FanoutOf, Attached, Active
  <2>4. pub[u] \in Call
    BY <1>3, <2>2
  <2>5. PICK c : c = [pub[u] EXCEPT !.senders = @ \ {s}, !.delivered = @ + Cardinality(Attached(s))]
    OBVIOUS
  <2>6. pub' = [pub EXCEPT ![u] = c]
    BY <1>3, <1>8, <2>5 DEF PublishFanout
  <2>7. c.msg = pub[u].msg /\ c.delivered = pub[u].delivered + Cardinality(Attached(s))
    BY <2>4, <2>5 DEF Call
  <2> QED BY <1>1, <1>6, <2>1, <2>2, <2>3, <2>6, <2>7
<1>9. ASSUME NEW u \in Publishers, NEW w, PublishScan(u, w)
      PROVE  Counted(p)'
  <2>1. pub[u].phase = "fanout" /\ UNCHANGED inbox
    BY <1>9 DEF PublishScan
  <2>2. pub[u] # Idle /\ pub[u] \in Call
    BY <1>3, <2>1 DEF Idle
  <2>3. pub'[p].delivered = pub[p].delivered /\ pub'[p].msg = pub[p].msg
    BY <1>3, <1>9, <2>2 DEF PublishScan, Call
  <2>4. pub[p] # Idle
    BY <1>2, <1>3, <1>9, <2>2 DEF PublishScan
  <2> QED BY <1>4, <2>1, <2>3, <2>4
<1>10. ASSUME NEW u \in Publishers, PublishReturn(u)
       PROVE  Counted(p)'
  BY <1>2, <1>3, <1>4, <1>10 DEF PublishReturn
<1>11. ASSUME UNCHANGED <<inbox, pub>>
       PROVE  Counted(p)'
  BY <1>2, <1>4, <1>11
<1>12. CASE Next
  BY <1>5, <1>7, <1>8, <1>9, <1>10, <1>11, <1>12
     DEF Next, Subscribe, CloneWildcardSender, AttachToClone, DropReceiver, Replay, PruneEmpty,
         PruneWildcardsBegin, PruneWildcard
<1>13. CASE UNCHANGED vars
  BY <1>11, <1>13 DEF vars
<1> QED BY <1>12, <1>13

\* Two sequences agree from their ends, as far as the shorter one goes.
EndsAgree(a, b) ==
  \A i \in Nat : i < Len(a) /\ i < Len(b) => a[Len(a) - i] = b[Len(b) - i]

\* That is what it means that one of them is a suffix of the other.
LEMMA SuffixPointwise ==
  ASSUME NEW S, NEW a \in Seq(S), NEW b \in Seq(S)
  PROVE  (IsSuffix(a, b) \/ IsSuffix(b, a)) <=> EndsAgree(a, b)
<1>1. ASSUME NEW x \in Seq(S), NEW y \in Seq(S)
      PROVE  IsSuffix(x, y) <=> (Len(x) <= Len(y) /\ EndsAgree(x, y))
  <2>1. PICK rx, ry : rx = Reverse(x) /\ ry = Reverse(y)
    OBVIOUS
  <2>2. /\ rx \in Seq(S) /\ Len(rx) = Len(x) /\ \A i \in 1..Len(x) : rx[i] = x[(Len(x) - i) + 1]
        /\ ry \in Seq(S) /\ Len(ry) = Len(y) /\ \A i \in 1..Len(y) : ry[i] = y[(Len(y) - i) + 1]
        /\ Len(x) \in Nat /\ Len(y) \in Nat
    BY <2>1 DEF Reverse
  <2>3. IsSuffix(x, y) <=> (Len(x) <= Len(y) /\ SubSeq(rx, 1, Len(x)) = SubSeq(ry, 1, Len(x)))
    BY <2>1, <2>2 DEF IsSuffix, IsPrefix
  <2>4. ASSUME Len(x) <= Len(y)
        PROVE  SubSeq(rx, 1, Len(x)) = SubSeq(ry, 1, Len(x)) <=> \A i \in 1..Len(x) : rx[i] = ry[i]
    <3>1. /\ SubSeq(rx, 1, Len(x)) = [i \in 1..Len(x) |-> rx[i]]
          /\ SubSeq(ry, 1, Len(x)) = [i \in 1..Len(x) |-> ry[i]]
      BY <2>2, <2>4
    <3>2. ([i \in 1..Len(x) |-> rx[i]] = [i \in 1..Len(x) |-> ry[i]])
            <=> \A i \in 1..Len(x) : rx[i] = ry[i]
      <4>1. ASSUME [i \in 1..Len(x) |-> rx[i]] = [i \in 1..Len(x) |-> ry[i]], NEW j \in 1..Len(x)
            PROVE  rx[j] = ry[j]
        <5>1. [i \in 1..Len(x) |-> rx[i]][j] = rx[j] /\ [i \in 1..Len(x) |-> ry[i]][j] = ry[j]
          OBVIOUS
        <5> QED BY <4>1, <5>1
      <4> QED BY <4>1
    <3> QED BY <3>1, <3>2
  <2>5. ASSUME Len(x) <= Len(y)
        PROVE  (\A i \in 1..Len(x) : rx[i] = ry[i]) <=> EndsAgree(x, y)
    <3>1. ASSUME \A i \in 1..Len(x) : rx[i] = ry[i], NEW i \in Nat, i < Len(x)
          PROVE  x[Len(x) - i] = y[Len(y) - i]
      <4>1. i + 1 \in 1..Len(x) /\ i + 1 \in 1..Len(y)
        BY <2>2, <2>5, <3>1
      <4>2. (Len(x) - (i + 1)) + 1 = Len(x) - i /\ (Len(y) - (i + 1)) + 1 = Len(y) - i
        BY <2>2, <3>1
      <4> QED BY <2>2, <3>1, <4>1, <4>2
    <3>2. ASSUME EndsAgree(x, y), NEW i \in 1..Len(x) PROVE rx[i] = ry[i]
      <4>1. PICK j \in Nat : j = i - 1
        OBVIOUS
      <4>2. j < Len(x) /\ j < Len(y) /\ i \in 1..Len(y)
        BY <2>2, <2>5, <4>1
      <4>3. Len(x) - j = (Len(x) - i) + 1 /\ Len(y) - j = (Len(y) - i) + 1
        BY <2>2, <4>1
      <4>4. x[Len(x) - j] = y[Len(y) - j]
        BY <3>2, <4>2 DEF EndsAgree
      <4> QED BY <2>2, <4>2, <4>3, <4>4
    <3> QED BY <3>1, <3>2 DEF EndsAgree
  <2> QED BY <2>3, <2>4, <2>5
<1>2. EndsAgree(a, b) <=> EndsAgree(b, a)
  BY DEF EndsAgree
<1>3. Len(a) <= Len(b) \/ Len(b) <= Len(a)
  OBVIOUS
<1> QED BY <1>1, <1>2, <1>3

\* A message that goes to the end of both leaves the agreement as it was, also when the
\* history has to give up its oldest entry.
LEMMA PushAgrees ==
  ASSUME NEW h \in Seq(Message), NEW x \in Seq(Message), NEW m \in Message, EndsAgree(h, x)
  PROVE  EndsAgree(Push(h, m), Append(x, m))
<1>1. ASSUME NEW g \in Seq(Message), EndsAgree(g, x) PROVE EndsAgree(Append(g, m), Append(x, m))
  <2>1. PICK p, q : p = Append(g, m) /\ q = Append(x, m)
    OBVIOUS
  <2>2. /\ Len(p) = Len(g) + 1 /\ p[Len(g) + 1] = m /\ \A i \in 1..Len(g) : p[i] = g[i]
        /\ Len(q) = Len(x) + 1 /\ q[Len(x) + 1] = m /\ \A i \in 1..Len(x) : q[i] = x[i]
        /\ Len(g) \in Nat /\ Len(x) \in Nat
    BY <2>1
  <2>3. ASSUME NEW i \in Nat, i < Len(p), i < Len(q) PROVE p[Len(p) - i] = q[Len(q) - i]
    <3>1. CASE i = 0
      BY <2>2, <3>1
    <3>2. CASE i # 0
      <4>1. PICK j \in Nat : i = j + 1
        BY <3>2
      <4>2. j < Len(g) /\ j < Len(x) /\ Len(p) - i = Len(g) - j /\ Len(q) - i = Len(x) - j
        BY <2>2, <2>3, <4>1
      <4>3. Len(g) - j \in 1..Len(g) /\ Len(x) - j \in 1..Len(x)
        BY <2>2, <4>2
      <4>4. g[Len(g) - j] = x[Len(x) - j]
        BY <1>1, <4>2 DEF EndsAgree
      <4> QED BY <2>2, <4>2, <4>3, <4>4
    <3> QED BY <3>1, <3>2
  <2> QED BY <2>1, <2>3 DEF EndsAgree
<1>2. CASE Len(h) = HistoryCapacity
  <2>1. h # << >>
    BY <1>2, RouterAssumption
  <2>2. PICK g : g = Tail(h)
    OBVIOUS
  <2>3. /\ g \in Seq(Message) /\ Len(g) = Len(h) - 1 /\ Len(h) \in Nat
        /\ \A i \in 1..Len(g) : g[i] = h[i + 1]
    BY <2>1, <2>2
  <2>4. ASSUME NEW i \in Nat, i < Len(g), i < Len(x) PROVE g[Len(g) - i] = x[Len(x) - i]
    <3>1. Len(g) - i \in 1..Len(g) /\ (Len(g) - i) + 1 = Len(h) - i /\ i < Len(h)
      BY <2>3, <2>4
    <3>2. h[Len(h) - i] = x[Len(x) - i]
      BY <2>4, <3>1 DEF EndsAgree
    <3> QED BY <2>3, <3>1, <3>2
  <2>5. EndsAgree(g, x)
    BY <2>4 DEF EndsAgree
  <2> QED BY <1>1, <1>2, <2>2, <2>3, <2>5 DEF Push
<1>3. CASE Len(h) # HistoryCapacity
  BY <1>1, <1>3 DEF Push
<1> QED BY <1>2, <1>3

\* The subscribers of a channel, which REPLAY is compared with.
ExactSubscriber(r) == stage[r] = "attached" /\ target[r].name \notin Patterns

\* HistoryAgreesWithFeed, place by place.
FeedAgrees == \A r \in Receivers : ExactSubscriber(r) => EndsAgree(history[target[r]], inbox[r])

\* The two say the same.
LEMMA FeedPointwise == ASSUME RouterInv PROVE HistoryAgreesWithFeed <=> FeedAgrees
<1>1. ASSUME NEW r \in Receivers, ExactSubscriber(r)
      PROVE  target[r] \in ChannelKey /\ history[target[r]] \in Seq(Message) /\ inbox[r] \in Seq(Message)
  BY <1>1, Names DEF RouterInv, TypeOK, ReceiverInv, Active, ExactSubscriber
<1>2. ASSUME NEW r \in Receivers, ExactSubscriber(r)
      PROVE  (IsSuffix(history[target[r]], inbox[r]) \/ IsSuffix(inbox[r], history[target[r]]))
               <=> EndsAgree(history[target[r]], inbox[r])
  BY <1>1, <1>2, SuffixPointwise
<1> QED BY <1>2 DEF HistoryAgreesWithFeed, FeedAgrees, ExactSubscriber

\* History and bus move together: the lock on the entry is held over both.
LEMMA FeedStep ==
  ASSUME RouterInv, FeedAgrees, [Next]_vars PROVE FeedAgrees'
<1>1. TypeOK /\ \A r \in Receivers : ExactSubscriber(r) => target[r] \in ChannelKey
  BY Names DEF RouterInv, ReceiverInv, Active, ExactSubscriber
<1>2. ASSUME UNCHANGED <<inbox, history>>,
             \A r \in Receivers : ExactSubscriber(r)' => ExactSubscriber(r) /\ target'[r] = target[r]
      PROVE  FeedAgrees'
  BY <1>2 DEF FeedAgrees
<1>3. ASSUME NEW x \in Receivers, NEW t \in Tenants, NEW k \in ChannelKey, Subscribe(x, t, k)
      PROVE  FeedAgrees'
  <2>1. inbox[x] = << >> /\ UNCHANGED <<inbox, history>>
    BY <1>3 DEF Subscribe, RouterInv, ReceiverInv
  <2>2. EndsAgree(history[k], << >>)
    BY DEF EndsAgree
  <2>3. \A r \in Receivers : r # x => target'[r] = target[r] /\ stage'[r] = stage[r]
    BY <1>1, <1>3 DEF Subscribe, TypeOK
  <2>4. target'[x] = k
    BY <1>1, <1>3 DEF Subscribe, TypeOK
  <2> QED BY <2>1, <2>2, <2>3, <2>4 DEF FeedAgrees, ExactSubscriber
<1>4. ASSUME NEW x \in Receivers,
             AttachToClone(x) \/ DropReceiver(x) \/ (\E w \in WildcardKey : CloneWildcardSender(x, w))
      PROVE  FeedAgrees'
  <2>1. UNCHANGED <<inbox, history>>
    BY <1>4 DEF AttachToClone, DropReceiver, CloneWildcardSender
  <2>2. \A r \in Receivers : r # x => target'[r] = target[r] /\ stage'[r] = stage[r]
    BY <1>1, <1>4 DEF AttachToClone, DropReceiver, CloneWildcardSender, TypeOK
  <2>3. ~ExactSubscriber(x)'
    <3>1. CASE AttachToClone(x)
      <4>1. target[x].name \in Patterns /\ target'[x] = target[x]
        BY <3>1, Names DEF AttachToClone, RouterInv, ReceiverInv
      <4> QED BY <4>1 DEF ExactSubscriber
    <3>2. CASE DropReceiver(x)
      BY <1>1, <3>2 DEF DropReceiver, ExactSubscriber, TypeOK
    <3>3. CASE \E w \in WildcardKey : CloneWildcardSender(x, w)
      BY <1>1, <3>3 DEF CloneWildcardSender, ExactSubscriber, TypeOK
    <3> QED BY <1>4, <3>1, <3>2, <3>3
  <2> QED BY <1>2, <2>1, <2>2, <2>3 DEF ExactSubscriber
<1>5. ASSUME NEW u \in Publishers, NEW s \in Senders, PublishFanout(u, s) PROVE FeedAgrees'
  <2>1. /\ pub[u].phase = "fanout" /\ s \in pub[u].senders /\ Send(s, pub[u].msg)
        /\ UNCHANGED <<history, target, stage>>
    BY <1>5 DEF PublishFanout
  <2>2. \A k \in ChannelKey : channels[k] # s
    BY <2>1 DEF RouterInv, FanoutInv, FanoutOf, Idle
  <2>3. ASSUME NEW r \in Receivers, ExactSubscriber(r) PROVE inbox'[r] = inbox[r]
    <3>1. channels[target[r]] = bus[r]
      BY <2>3 DEF RouterInv, ExactSubscribersMapped, Mapped, ExactSubscriber
    <3>2. r \notin Attached(s)
      BY <1>1, <2>2, <2>3, <3>1 DEF Attached
    <3> QED BY <2>1, <3>2 DEF Send
  <2> QED BY <2>1, <2>3 DEF FeedAgrees, ExactSubscriber
<1>6. ASSUME NEW u \in Publishers, PublishExact(u) PROVE FeedAgrees'
  <2>1. PICK m : m = pub[u].msg
    OBVIOUS
  <2>2. PICK z : z = channels'[m.key]
    OBVIOUS
  <2>3. /\ pub[u].phase = "exact" /\ Send(z, m) /\ UNCHANGED <<target, bus, stage>>
        /\ channels' = GetOrCreate(channels, m.key) /\ TakeSender(channels, m.key)
        /\ history' = [history EXCEPT ![m.key] = Push(@, m)]
    BY <1>6, <2>1, <2>2 DEF PublishExact
  <2>4. m \in Message /\ m.key \in ChannelKey
    BY <1>1, <2>1, <2>3, CallFields DEF Idle
  <2>5. FreshChannelBus
    BY <2>3, <2>4, NewChannelBusFresh
  <2>6. ASSUME NEW r \in Receivers, ExactSubscriber(r)
        PROVE  EndsAgree(history'[target[r]], inbox'[r])
    <3>1. target[r] \in ChannelKey /\ bus[r] # NoSender /\ channels[target[r]] = bus[r]
      BY <1>1, <2>6 DEF RouterInv, ReceiverInv, Active, ExactSubscribersMapped, Mapped, ExactSubscriber,
                        Senders, NoSender
    <3>2. channels'[target[r]] = bus[r]
      BY <2>5, <3>1 DEF FreshChannelBus
    <3>3. /\ history[target[r]] \in Seq(Message) /\ inbox[r] \in Seq(Message)
          /\ EndsAgree(history[target[r]], inbox[r])
      BY <1>1, <2>6, <3>1 DEF TypeOK, FeedAgrees
    <3>4. CASE target[r] = m.key
      <4>1. r \in Attached(z)
        BY <2>2, <2>6, <3>2, <3>4 DEF Attached, ExactSubscriber
      <4>2. inbox'[r] = Append(inbox[r], m)
        BY <2>3, <4>1 DEF Send
      <4>3. history'[target[r]] = Push(history[target[r]], m)
        BY <1>1, <2>3, <2>4, <3>4 DEF TypeOK
      <4> QED BY <2>4, <3>3, <4>2, <4>3, PushAgrees
    <3>5. CASE target[r] # m.key
      <4>1. r \notin Attached(z)
        BY <2>2, <2>4, <2>5, <2>6, <3>5 DEF Attached, FreshChannelBus, Active, ExactSubscriber
      <4>2. inbox'[r] = inbox[r] /\ history'[target[r]] = history[target[r]]
        BY <1>1, <2>3, <3>1, <3>5, <4>1 DEF Send, TypeOK
      <4> QED BY <3>3, <4>2
    <3> QED BY <3>4, <3>5
  <2> QED BY <2>3, <2>6 DEF FeedAgrees, ExactSubscriber
<1>7. ASSUME UNCHANGED <<inbox, history, target, stage>> PROVE FeedAgrees'
  BY <1>2, <1>7 DEF ExactSubscriber
<1>8. CASE Next
  BY <1>3, <1>4, <1>5, <1>6, <1>7, <1>8
     DEF Next, PublishBegin, PublishScan, PublishReturn, Replay, PruneEmpty, PruneWildcardsBegin,
         PruneWildcard
<1>9. CASE UNCHANGED vars
  BY <1>7, <1>9 DEF vars
<1> QED BY <1>8, <1>9

\* The count publish returns, and with it the decision to fall back to push, is the
\* number of receivers that hold the message; and what REPLAY would return for a channel
\* agrees with what its live subscribers have seen (publish and replay of
\* ChannelRouterService).
THEOREM ReportsAreTrue == Spec => []ReportsAgreeWithFeed
<1> DEFINE Inv == RouterInv /\ DeliveredCountExact /\ FeedAgrees
<1>1. Init => Inv
  BY InvInit DEF Init, DeliveredCountExact, FeedAgrees, ExactSubscriber
<1>2. Inv /\ [Next]_vars => Inv'
  BY InvStep, CountStep, FeedStep
<1>3. Inv => ReportsAgreeWithFeed
  BY FeedPointwise DEF ReportsAgreeWithFeed
<1> QED BY <1>1, <1>2, <1>3, PTL DEF Spec
=============================================================================
