--------------------------- MODULE PresenceProofs ---------------------------
(***************************************************************************)
(* Presence accounting for every set of sessions and channels, every       *)
(* timeout and every number of SUB frames.                                 *)
(***************************************************************************)
EXTENDS Presence, TLAPS

\* What the fields of one session have to do with each other.
SessionInv(s) ==
  /\ s \in registered => conn[s] = "authenticated"
  /\ s \notin registered => tracked[s] = NoneOf
  /\ conn[s] # "leaving" => parting[s] = NoneOf
  /\ due[s] # Nothing => conn[s] = "authenticated"

\* Where the LEAVE of an undisturbed session's JOIN is still to come from.
CleanInv(s) ==
  /\ conn[s] = "authenticated" => s \in registered
  /\ swept[s] = NoneOf
  /\ \A c \in Channels :
       /\ due[s] = [event |-> "join", channel |-> c] => tracked[s][c] > 0
       /\ seen[s][c] = "join" =>
            \/ conn[s] = "authenticated" /\ tracked[s][c] > 0
            \/ conn[s] = "authenticated" /\ due[s] = [event |-> "leave", channel |-> c]
            \/ conn[s] = "leaving" /\ parting[s][c] > 0

PresenceInv ==
  /\ TypeOK
  /\ \A s \in Sessions : SessionInv(s)
  /\ \A s \in Sessions : s \notin disturbed => CleanInv(s)
  /\ DepartsAtMostOnce

-----------------------------------------------------------------------------

\* The initial state is well typed.
LEMMA TypeInit == Init => TypeOK
  BY PresenceAssumption DEF Init, TypeOK, Counts, NoneOf, Due

\* Every step of a connection task and of the heartbeat loop keeps the types.
LEMMA TypeStep == TypeOK /\ [Next]_vars => TypeOK'
<1> SUFFICES ASSUME TypeOK, [Next]_vars PROVE TypeOK'
  OBVIOUS
<1> USE DEF TypeOK, Counts, NoneOf, table, loop, told
<1>1. ASSUME NEW s \in Sessions, HandleJoin(s) PROVE TypeOK'
  BY <1>1, PresenceAssumption DEF HandleJoin
<1>2. ASSUME NEW s \in Sessions, Heartbeat(s) PROVE TypeOK'
  BY <1>2, PresenceAssumption DEF Heartbeat
<1>3. ASSUME NEW s \in Sessions, NEW c \in Channels, TrackChannel(s, c) PROVE TypeOK'
  BY <1>3 DEF TrackChannel, Due
<1>4. ASSUME NEW s \in Sessions, NEW c \in Channels, UntrackChannel(s, c) PROVE TypeOK'
  BY <1>4 DEF UntrackChannel, Due
<1>5. ASSUME NEW s \in Sessions, Announce(s) PROVE TypeOK'
  <2>1. due[s].channel \in Channels /\ due[s].event \in {"join", "leave"}
    BY <1>5 DEF Announce, Due
  <2>2. due' \in [Sessions -> Due]
    BY <1>5 DEF Announce, Due
  <2> QED BY <1>5, <2>1, <2>2 DEF Announce
<1>6. ASSUME NEW s \in Sessions, HandleLeave(s) PROVE TypeOK'
  BY <1>6 DEF HandleLeave, Remove
<1>7. ASSUME NEW s \in Sessions, NEW c \in Channels, AnnounceLeave(s, c) PROVE TypeOK'
  BY <1>7 DEF AnnounceLeave
<1>8. ASSUME NEW s \in Sessions, Close(s) PROVE TypeOK'
  BY <1>8 DEF Close
<1>9. CASE Tick
  BY <1>9, PresenceAssumption DEF Tick
<1>10. ASSUME NEW s \in Sessions, SweepRemove(s) PROVE TypeOK'
  <2>1. CASE s \in registered
    <3>1. tracked[s] \in [Channels -> Nat] /\ NoneOf \in [Channels -> Nat]
      OBVIOUS
    <3>2. /\ swept' = [swept EXCEPT ![s] = tracked[s]]
          /\ tracked' = [tracked EXCEPT ![s] = NoneOf]
          /\ registered' = registered \ {s} /\ disturbed' = disturbed \cup {s}
          /\ expired' = expired \ {s}
          /\ UNCHANGED <<conn, silence, due, parting, sweep, unvisited, told>>
      BY <1>10, <2>1 DEF SweepRemove, Remove
    <3> HIDE DEF NoneOf
    <3> QED BY <3>1, <3>2
  <2>2. CASE s \notin registered
    BY <1>10, <2>2 DEF SweepRemove
  <2> QED BY <2>1, <2>2
<1>11. ASSUME NEW s \in Sessions, NEW c \in Channels, AnnounceTimeout(s, c) PROVE TypeOK'
  BY <1>11 DEF AnnounceTimeout
<1>12. ASSUME NEW s \in Sessions, SweepVisit(s) PROVE TypeOK'
  BY <1>12 DEF SweepVisit
<1>13. CASE SweepBegin \/ SweepCollected \/ SweepRemoved \/ SweepEnd
  BY <1>13 DEF SweepBegin, SweepCollected, SweepRemoved, SweepEnd
<1>14. CASE UNCHANGED vars
  BY <1>14 DEF vars
<1> QED BY <1>1, <1>2, <1>3, <1>4, <1>5, <1>6, <1>7, <1>8, <1>9, <1>10, <1>11, <1>12, <1>13,
          <1>14 DEF Next, Sweeper

\* Type correctness of presence tracking.
THEOREM PresenceTypes == Spec => []TypeOK
  BY TypeInit, TypeStep, PTL DEF Spec

-----------------------------------------------------------------------------

\* What is owed and what was said about one session and one channel balances.
Balanced(s, c) ==
  departed[s][c] + parting[s][c] + swept[s][c] + tracked[s][c] <= joined[s][c] + JoinsDue(s, c)

\* The part of the state that is about session s.
Same(s) ==
  /\ conn'[s] = conn[s] /\ due'[s] = due[s] /\ (s \in registered' <=> s \in registered)
  /\ tracked'[s] = tracked[s] /\ parting'[s] = parting[s] /\ swept'[s] = swept[s]
  /\ seen'[s] = seen[s] /\ joined'[s] = joined[s] /\ departed'[s] = departed[s]
  /\ (s \in disturbed' <=> s \in disturbed)

\* The invariant of one session.
Sound(s) ==
  /\ SessionInv(s)
  /\ s \notin disturbed => CleanInv(s)
  /\ \A c \in Channels : Balanced(s, c)

\* The invariant, session by session.
LEMMA InvBySession ==
  /\ PresenceInv <=> TypeOK /\ \A s \in Sessions : Sound(s)
  /\ PresenceInv' <=> TypeOK' /\ \A s \in Sessions : Sound(s)'
  BY DEF PresenceInv, Sound, DepartsAtMostOnce, Balanced

\* A session the step does not touch keeps its part.
LEMMA SameSound ==
  ASSUME NEW s \in Sessions, Sound(s), Same(s) PROVE Sound(s)'
<1>1. SessionInv(s)'
  BY DEF Sound, Same, SessionInv
<1>2. s \notin disturbed' => CleanInv(s)'
  BY DEF Sound, Same, CleanInv
<1>3. \A c \in Channels : Balanced(s, c)'
  BY DEF Sound, Same, Balanced, JoinsDue
<1> QED BY <1>1, <1>2, <1>3 DEF Sound

\* The initial state satisfies the invariant.
LEMMA InvInit == Init => PresenceInv
<1> SUFFICES ASSUME Init, NEW s \in Sessions PROVE Sound(s)
  BY TypeInit, InvBySession
<1>1. SessionInv(s) /\ CleanInv(s)
  BY DEF Init, SessionInv, CleanInv, NoneOf, Nothing
<1>2. \A c \in Channels : Balanced(s, c)
  BY DEF Init, Balanced, JoinsDue, NoneOf, Nothing
<1> QED BY <1>1, <1>2 DEF Sound

\* Every count is a natural number.
LEMMA CountsNat ==
  ASSUME TypeOK, NEW s \in Sessions, NEW c \in Channels
  PROVE  /\ departed[s][c] \in Nat /\ parting[s][c] \in Nat /\ swept[s][c] \in Nat
         /\ tracked[s][c] \in Nat /\ joined[s][c] \in Nat /\ JoinsDue(s, c) \in Nat
  BY DEF TypeOK, Counts, JoinsDue

\* AUTH keeps what is known of its session.
LEMMA HandleJoinSound ==
  ASSUME TypeOK, \A s \in Sessions : Sound(s), NEW x \in Sessions, HandleJoin(x)
  PROVE  \A s \in Sessions : Sound(s)'
<1> USE DEF TypeOK, Counts, table, loop, told
<1>1. \A s \in Sessions : s # x => Same(s)
  BY DEF HandleJoin, Remove, Same
<1>2. SessionInv(x) /\ (x \notin disturbed => CleanInv(x)) /\ \A c \in Channels : Balanced(x, c)
  BY DEF Sound
<1>3. SessionInv(x)'
  BY <1>2 DEF HandleJoin, Remove, SessionInv, Ready, NoneOf, Nothing
<1>4. x \notin disturbed' => CleanInv(x)'
  BY <1>2 DEF HandleJoin, Remove, SessionInv, CleanInv, Ready, NoneOf, Nothing, Due
<1>5. \A c \in Channels : Balanced(x, c)'
  <2> SUFFICES ASSUME NEW c \in Channels PROVE Balanced(x, c)'
    OBVIOUS
  <2>1. Balanced(x, c)
    BY <1>2
  <2>2. /\ tracked'[x][c] = 0 /\ departed' = departed /\ parting' = parting /\ swept' = swept
        /\ joined' = joined /\ JoinsDue(x, c)' = JoinsDue(x, c)
    BY DEF HandleJoin, NoneOf, JoinsDue
  <2> QED BY <2>1, <2>2, CountsNat DEF Balanced
<1> QED BY <1>1, <1>3, <1>4, <1>5, SameSound DEF Sound

\* A heartbeat keeps what is known of its session.
LEMMA HeartbeatSound ==
  ASSUME TypeOK, \A s \in Sessions : Sound(s), NEW x \in Sessions, Heartbeat(x)
  PROVE  \A s \in Sessions : Sound(s)'
<1> USE DEF TypeOK, Counts, table, loop, told
<1>1. \A s \in Sessions : s # x => Same(s)
  BY DEF Heartbeat, Remove, Same
<1>2. SessionInv(x) /\ (x \notin disturbed => CleanInv(x)) /\ \A c \in Channels : Balanced(x, c)
  BY DEF Sound
<1>3. SessionInv(x)'
  BY <1>2 DEF Heartbeat, Remove, SessionInv, Ready, NoneOf, Nothing
<1>4. x \notin disturbed' => CleanInv(x)'
  BY <1>2 DEF Heartbeat, Remove, SessionInv, CleanInv, Ready, NoneOf, Nothing, Due
<1>5. \A c \in Channels : Balanced(x, c)'
  BY <1>2 DEF Heartbeat, Remove, SessionInv, Balanced, JoinsDue, Ready, NoneOf, Nothing, Due
<1> QED BY <1>1, <1>3, <1>4, <1>5, SameSound DEF Sound

\* SUB keeps what is known of its session.
LEMMA TrackChannelSound ==
  ASSUME TypeOK, \A s \in Sessions : Sound(s), NEW x \in Sessions, NEW d \in Channels, TrackChannel(x, d)
  PROVE  \A s \in Sessions : Sound(s)'
<1> USE DEF TypeOK, Counts, table, loop, told
<1>1. \A s \in Sessions : s # x => Same(s)
  BY DEF TrackChannel, Remove, Same
<1>2. SessionInv(x) /\ (x \notin disturbed => CleanInv(x)) /\ \A c \in Channels : Balanced(x, c)
  BY DEF Sound
<1>3. SessionInv(x)'
  BY <1>2 DEF TrackChannel, Remove, SessionInv, Ready, NoneOf, Nothing
<1>4. x \notin disturbed' => CleanInv(x)'
  BY <1>2 DEF TrackChannel, Remove, SessionInv, CleanInv, Ready, NoneOf, Nothing, Due
<1>5. \A c \in Channels : Balanced(x, c)'
  <2> SUFFICES ASSUME NEW c \in Channels PROVE Balanced(x, c)'
    OBVIOUS
  <2>1. Balanced(x, c)
    BY <1>2
  <2>2. /\ departed' = departed /\ parting' = parting /\ swept' = swept /\ joined' = joined
        /\ JoinsDue(x, c) = 0
        /\ \/ tracked'[x][c] = tracked[x][c] /\ JoinsDue(x, c)' \in {0, 1}
           \/ tracked'[x][c] = tracked[x][c] + 1 /\ JoinsDue(x, c)' = 1
    BY DEF TrackChannel, JoinsDue, Ready, Nothing
  <2> QED BY <2>1, <2>2, CountsNat DEF Balanced
<1> QED BY <1>1, <1>3, <1>4, <1>5, SameSound DEF Sound

\* UNSUB keeps what is known of its session.
LEMMA UntrackChannelSound ==
  ASSUME TypeOK, \A s \in Sessions : Sound(s), NEW x \in Sessions, NEW d \in Channels, UntrackChannel(x, d)
  PROVE  \A s \in Sessions : Sound(s)'
<1> USE DEF TypeOK, Counts, table, loop, told
<1>1. \A s \in Sessions : s # x => Same(s)
  BY DEF UntrackChannel, Remove, Same
<1>2. SessionInv(x) /\ (x \notin disturbed => CleanInv(x)) /\ \A c \in Channels : Balanced(x, c)
  BY DEF Sound
<1>3. SessionInv(x)'
  BY <1>2 DEF UntrackChannel, Remove, SessionInv, Ready, NoneOf, Nothing
<1>4. x \notin disturbed' => CleanInv(x)'
  BY <1>2 DEF UntrackChannel, Remove, SessionInv, CleanInv, Ready, NoneOf, Nothing, Due
<1>5. \A c \in Channels : Balanced(x, c)'
  <2> SUFFICES ASSUME NEW c \in Channels PROVE Balanced(x, c)'
    OBVIOUS
  <2>1. Balanced(x, c)
    BY <1>2
  <2>2. /\ tracked'[x][c] \in {0, tracked[x][c]} /\ departed' = departed /\ parting' = parting
        /\ swept' = swept /\ joined' = joined /\ JoinsDue(x, c) = 0 /\ JoinsDue(x, c)' = 0
    BY DEF UntrackChannel, JoinsDue, Ready, Nothing
  <2> QED BY <2>1, <2>2, CountsNat DEF Balanced
<1> QED BY <1>1, <1>3, <1>4, <1>5, SameSound DEF Sound

\* The JOIN or LEAVE event of SUB and UNSUB keeps what is known of its session.
LEMMA AnnounceSound ==
  ASSUME TypeOK, \A s \in Sessions : Sound(s), NEW x \in Sessions, Announce(x)
  PROVE  \A s \in Sessions : Sound(s)'
<1> USE DEF TypeOK, Counts, table, loop, told
<1>1. \A s \in Sessions : s # x => Same(s)
  BY DEF Announce, Remove, Same
<1>2. SessionInv(x) /\ (x \notin disturbed => CleanInv(x)) /\ \A c \in Channels : Balanced(x, c)
  BY DEF Sound
<1>3. SessionInv(x)'
  BY <1>2 DEF Announce, Remove, SessionInv, Ready, NoneOf, Nothing
<1>4. x \notin disturbed' => CleanInv(x)'
  BY <1>2 DEF Announce, Remove, SessionInv, CleanInv, Ready, NoneOf, Nothing, Due
<1>5. \A c \in Channels : Balanced(x, c)'
  BY <1>2 DEF Announce, Remove, SessionInv, Balanced, JoinsDue, Ready, NoneOf, Nothing, Due
<1> QED BY <1>1, <1>3, <1>4, <1>5, SameSound DEF Sound

\* handle_leave keeps what is known of its session.
LEMMA HandleLeaveSound ==
  ASSUME TypeOK, \A s \in Sessions : Sound(s), NEW x \in Sessions, HandleLeave(x)
  PROVE  \A s \in Sessions : Sound(s)'
<1> USE DEF TypeOK, Counts, table, loop, told
<1>1. \A s \in Sessions : s # x => Same(s)
  BY DEF HandleLeave, Remove, Same
<1>2. SessionInv(x) /\ (x \notin disturbed => CleanInv(x)) /\ \A c \in Channels : Balanced(x, c)
  BY DEF Sound
<1>3. SessionInv(x)'
  BY <1>2 DEF HandleLeave, Remove, SessionInv, Ready, NoneOf, Nothing
<1>4. x \notin disturbed' => CleanInv(x)'
  <2>1. /\ conn[x] = "authenticated" /\ conn'[x] = "leaving" /\ due[x] = Nothing /\ due'[x] = Nothing
        /\ parting'[x] = tracked[x] /\ swept' = swept /\ seen' = seen /\ disturbed' = disturbed
    BY DEF HandleLeave, Ready
  <2>2. \A c \in Channels, e \in {"join", "leave"} : Nothing # [event |-> e, channel |-> c]
    <3> SUFFICES ASSUME NEW c \in Channels, NEW e \in {"join", "leave"}
                 PROVE  Nothing # [event |-> e, channel |-> c]
      OBVIOUS
    <3>1. Nothing.event = "none" /\ [event |-> e, channel |-> c].event = e
      BY DEF Nothing
    <3> QED BY <3>1
  <2>3. \A c \in Channels : /\ due[x] # [event |-> "leave", channel |-> c]
                            /\ due'[x] # [event |-> "join", channel |-> c]
    BY <2>1, <2>2
  <2> QED BY <1>2, <2>1, <2>3 DEF CleanInv
<1>5. \A c \in Channels : Balanced(x, c)'
  <2> SUFFICES ASSUME NEW c \in Channels PROVE Balanced(x, c)'
    OBVIOUS
  <2>1. Balanced(x, c)
    BY <1>2
  <2>2. /\ departed' = departed /\ swept' = swept /\ joined' = joined
        /\ JoinsDue(x, c)' = JoinsDue(x, c) /\ parting[x][c] = 0
        /\ tracked'[x][c] = 0 /\ parting'[x][c] = tracked[x][c]
    BY <1>2 DEF HandleLeave, Remove, JoinsDue, SessionInv, NoneOf
  <2> QED BY <2>1, <2>2, CountsNat DEF Balanced
<1> QED BY <1>1, <1>3, <1>4, <1>5, SameSound DEF Sound

\* A LEAVE event of handle_leave keeps what is known of its session.
LEMMA AnnounceLeaveSound ==
  ASSUME TypeOK, \A s \in Sessions : Sound(s), NEW x \in Sessions, NEW d \in Channels, AnnounceLeave(x, d)
  PROVE  \A s \in Sessions : Sound(s)'
<1> USE DEF TypeOK, Counts, table, loop, told
<1>1. \A s \in Sessions : s # x => Same(s)
  BY DEF AnnounceLeave, Remove, Same
<1>2. SessionInv(x) /\ (x \notin disturbed => CleanInv(x)) /\ \A c \in Channels : Balanced(x, c)
  BY DEF Sound
<1>3. SessionInv(x)'
  BY <1>2 DEF AnnounceLeave, Remove, SessionInv, Ready, NoneOf, Nothing
<1>4. x \notin disturbed' => CleanInv(x)'
  BY <1>2 DEF AnnounceLeave, Remove, SessionInv, CleanInv, Ready, NoneOf, Nothing, Due
<1>5. \A c \in Channels : Balanced(x, c)'
  BY <1>2 DEF AnnounceLeave, Remove, SessionInv, Balanced, JoinsDue, Ready, NoneOf, Nothing, Due
<1> QED BY <1>1, <1>3, <1>4, <1>5, SameSound DEF Sound

\* The end of handle_leave keeps what is known of its session.
LEMMA CloseSound ==
  ASSUME TypeOK, \A s \in Sessions : Sound(s), NEW x \in Sessions, Close(x)
  PROVE  \A s \in Sessions : Sound(s)'
<1> USE DEF TypeOK, Counts, table, loop, told
<1>1. \A s \in Sessions : s # x => Same(s)
  BY DEF Close, Remove, Same
<1>2. SessionInv(x) /\ (x \notin disturbed => CleanInv(x)) /\ \A c \in Channels : Balanced(x, c)
  BY DEF Sound
<1>3. SessionInv(x)'
  BY <1>2 DEF Close, Remove, SessionInv, Ready, NoneOf, Nothing
<1>4. x \notin disturbed' => CleanInv(x)'
  BY <1>2 DEF Close, Remove, SessionInv, CleanInv, Ready, NoneOf, Nothing, Due
<1>5. \A c \in Channels : Balanced(x, c)'
  BY <1>2 DEF Close, Remove, SessionInv, Balanced, JoinsDue, Ready, NoneOf, Nothing, Due
<1> QED BY <1>1, <1>3, <1>4, <1>5, SameSound DEF Sound

\* Removal by the sweep keeps what is known of its session.
LEMMA SweepRemoveSound ==
  ASSUME TypeOK, \A s \in Sessions : Sound(s), NEW x \in Sessions, SweepRemove(x)
  PROVE  \A s \in Sessions : Sound(s)'
<1> USE DEF TypeOK, Counts, table, loop, told
<1>1. \A s \in Sessions : s # x => Same(s)
  BY DEF SweepRemove, Remove, Same
<1>2. SessionInv(x) /\ (x \notin disturbed => CleanInv(x)) /\ \A c \in Channels : Balanced(x, c)
  BY DEF Sound
<1>3. SessionInv(x)'
  BY <1>2 DEF SweepRemove, Remove, SessionInv, Ready, NoneOf, Nothing
<1>4. x \notin disturbed' => CleanInv(x)'
  BY <1>2 DEF SweepRemove, Remove, SessionInv, CleanInv, Ready, NoneOf, Nothing, Due
<1>5. \A c \in Channels : Balanced(x, c)'
  BY <1>2 DEF SweepRemove, Remove, SessionInv, Balanced, JoinsDue, Ready, NoneOf, Nothing, Due
<1> QED BY <1>1, <1>3, <1>4, <1>5, SameSound DEF Sound

\* A TIMEOUT event keeps what is known of its session.
LEMMA AnnounceTimeoutSound ==
  ASSUME TypeOK, \A s \in Sessions : Sound(s), NEW x \in Sessions, NEW d \in Channels, AnnounceTimeout(x, d)
  PROVE  \A s \in Sessions : Sound(s)'
<1> USE DEF TypeOK, Counts, table, loop, told
<1>1. \A s \in Sessions : s # x => Same(s)
  BY DEF AnnounceTimeout, Remove, Same
<1>2. SessionInv(x) /\ (x \notin disturbed => CleanInv(x)) /\ \A c \in Channels : Balanced(x, c)
  BY DEF Sound
<1>3. SessionInv(x)'
  BY <1>2 DEF AnnounceTimeout, Remove, SessionInv, Ready, NoneOf, Nothing
<1>4. x \notin disturbed' => CleanInv(x)'
  BY <1>2 DEF AnnounceTimeout, Remove, SessionInv, CleanInv, Ready, NoneOf, Nothing, Due
<1>5. \A c \in Channels : Balanced(x, c)'
  BY <1>2 DEF AnnounceTimeout, Remove, SessionInv, Balanced, JoinsDue, Ready, NoneOf, Nothing, Due
<1> QED BY <1>1, <1>3, <1>4, <1>5, SameSound DEF Sound

\* Every step keeps the invariant.
LEMMA InvStep == PresenceInv /\ [Next]_vars => PresenceInv'
<1> SUFFICES ASSUME PresenceInv, [Next]_vars PROVE PresenceInv'
  OBVIOUS
<1>1. TypeOK /\ TypeOK' /\ \A s \in Sessions : Sound(s)
  BY InvBySession, TypeStep
<1>2. CASE UNCHANGED vars
  <2>1. \A s \in Sessions : Same(s)
    BY <1>2 DEF vars, table, loop, told, Same
  <2> QED BY <1>1, <2>1, SameSound, InvBySession
<1>3. CASE Tick
  <2>1. \A s \in Sessions : Same(s)
    BY <1>3 DEF Tick, Same, loop, told
  <2> QED BY <1>1, <2>1, SameSound, InvBySession
<1>4. CASE \/ SweepBegin \/ SweepCollected \/ SweepRemoved \/ SweepEnd
           \/ \E s \in Sessions : SweepVisit(s)
  <2>1. \A s \in Sessions : Same(s)
    BY <1>4 DEF SweepBegin, SweepCollected, SweepRemoved, SweepEnd, SweepVisit, Same, table, told
  <2> QED BY <1>1, <2>1, SameSound, InvBySession
<1>5. CASE \/ \E x \in Sessions : HandleJoin(x) \/ Heartbeat(x) \/ Announce(x) \/ HandleLeave(x)
                                    \/ Close(x) \/ SweepRemove(x)
           \/ \E x \in Sessions, d \in Channels :
                TrackChannel(x, d) \/ UntrackChannel(x, d) \/ AnnounceLeave(x, d)
                  \/ AnnounceTimeout(x, d)
  <2>1. \A s \in Sessions : Sound(s)'
    BY <1>1, <1>5, HandleJoinSound, HeartbeatSound, AnnounceSound, HandleLeaveSound, CloseSound,
       SweepRemoveSound, TrackChannelSound, UntrackChannelSound, AnnounceLeaveSound,
       AnnounceTimeoutSound
  <2> QED BY <1>1, <2>1, InvBySession
<1> QED BY <1>2, <1>3, <1>4, <1>5 DEF Next, Sweeper

\* The inductive invariant holds throughout.
LEMMA Invariance == Spec => []PresenceInv
  BY InvInit, InvStep, PTL DEF Spec

\* handle_leave and the sweeper never announce the same departure twice.
THEOREM DeparturesNeverDoubled == Spec => []DepartsAtMostOnce
  BY Invariance, PTL DEF PresenceInv

\* Only running connections are listed as live sessions.
THEOREM RegisteredAreLive == Spec => []RegisteredIsConnected
<1>1. PresenceInv => RegisteredIsConnected
  BY DEF PresenceInv, RegisteredIsConnected, SessionInv, TypeOK
<1> QED BY <1>1, Invariance, PTL

\* A session that nothing disturbed leaves no JOIN behind as the last word.
THEOREM CleanExitLeavesNoGhost == Spec => []NoGhostAfterCleanExit
<1>1. PresenceInv => NoGhostAfterCleanExit
  BY DEF PresenceInv, NoGhostAfterCleanExit, CleanInv
<1> QED BY <1>1, Invariance, PTL
=============================================================================
