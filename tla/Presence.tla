------------------------------ MODULE Presence ------------------------------
(***************************************************************************)
(* PresenceService over PresenceSessionRepository: who is a member of      *)
(* which channel, and what the watchers of a channel's meta-channel are    *)
(* told about it.                                                          *)
(*                                                                         *)
(* Two kinds of task share the session table: the connection task of each  *)
(* session, which handles one frame after the other, and the heartbeat     *)
(* loop.  A step is one access to the table or one publication of a        *)
(* presence event.  The prune_empty that follows a LEAVE or a TIMEOUT and  *)
(* the prune_dead_wildcards that opens a sweep touch the router only: they *)
(* are PruneEmpty and PruneWildcardsBegin of ChannelRouter.                *)
(*                                                                         *)
(* Operators whose name starts with Faulty are not part of the model: each *)
(* is a plausible slip in the definition that follows it, there to show    *)
(* that a property would notice.                                           *)
(***************************************************************************)
EXTENDS Integers, FiniteSets

CONSTANTS
  Sessions,     \* one per connection: session ids are never reused
  Channels,     \* channels without a '*'; a pattern is not tracked
  Timeout,      \* heartbeat timeout, in ticks of the clock
  MaxSubs       \* bound: SUB frames one session sends

ASSUME PresenceAssumption == Timeout \in Nat /\ MaxSubs \in Nat

VARIABLES
  conn,         \* conn[s]: where the connection task of s stands
  registered,   \* sessions with an entry in the table
  tracked,      \* tracked[s][c]: how often c is in the entry's channel list
  silence,      \* silence[s]: ticks since last_seen, counted up to Timeout + 1
  due,          \* due[s]: the event the SUB or UNSUB being handled has yet to publish
  parting,      \* parting[s][c]: LEAVEs handle_leave has yet to publish
  sweep,        \* what the heartbeat loop is doing
  unvisited,    \* entries the scan of sweep_expired has yet to look at
  expired,      \* session ids the scan has collected
  swept,        \* swept[s][c]: TIMEOUTs the heartbeat loop has yet to publish
  seen,         \* seen[s][c]: the last event about s on the meta-channel of c
  joined,       \* joined[s][c]: JOINs published
  departed,     \* departed[s][c]: LEAVEs of handle_leave and TIMEOUTs published
  disturbed     \* sessions that sent a second AUTH or were swept while connected

table == <<registered, tracked, silence>>
loop  == <<sweep, unvisited, expired, swept>>
told  == <<seen, joined, departed>>
vars  == <<conn, table, due, parting, loop, told, disturbed>>

Nothing == [event |-> "none"]
Due     == {Nothing} \cup [event : {"join", "leave"}, channel : Channels]
NoneOf  == [c \in Channels |-> 0]
Counts  == [Sessions -> [Channels -> Nat]]

TypeOK ==
  /\ conn \in [Sessions -> {"anonymous", "authenticated", "leaving", "closed"}]
  /\ registered \in SUBSET Sessions
  /\ tracked \in Counts
  /\ silence \in [Sessions -> 0..(Timeout + 1)]
  /\ due \in [Sessions -> Due]
  /\ parting \in Counts
  /\ sweep \in {"asleep", "scanning", "removing", "announcing"}
  /\ unvisited \in SUBSET Sessions
  /\ expired \in SUBSET Sessions
  /\ swept \in Counts
  /\ seen \in [Sessions -> [Channels -> {"none", "join", "leave", "timeout"}]]
  /\ joined \in Counts
  /\ departed \in Counts
  /\ disturbed \in SUBSET Sessions

Init ==
  /\ conn = [s \in Sessions |-> "anonymous"]
  /\ registered = {}
  /\ tracked = [s \in Sessions |-> NoneOf]
  /\ silence = [s \in Sessions |-> 0]
  /\ due = [s \in Sessions |-> Nothing]
  /\ parting = [s \in Sessions |-> NoneOf]
  /\ sweep = "asleep"
  /\ unvisited = {}
  /\ expired = {}
  /\ swept = [s \in Sessions |-> NoneOf]
  /\ seen = [s \in Sessions |-> [c \in Channels |-> "none"]]
  /\ joined = [s \in Sessions |-> NoneOf]
  /\ departed = [s \in Sessions |-> NoneOf]
  /\ disturbed = {}

-----------------------------------------------------------------------------
(* The connection task                                                     *)

\* The task has no frame half handled.
Ready(s) == due[s] = Nothing

\* remove: the entry goes, with the channels it lists.
Remove(s) ==
  /\ registered' = registered \ {s}
  /\ tracked' = [tracked EXCEPT ![s] = NoneOf]
  /\ UNCHANGED silence

\* AUTH: handle_join.  The insert replaces whatever entry the session had.
HandleJoin(s) ==
  /\ conn[s] \in {"anonymous", "authenticated"} /\ Ready(s)
  /\ conn' = [conn EXCEPT ![s] = "authenticated"]
  /\ registered' = registered \cup {s}
  /\ tracked' = [tracked EXCEPT ![s] = NoneOf]
  /\ silence' = [silence EXCEPT ![s] = 0]
  /\ disturbed' = IF conn[s] = "authenticated" THEN disturbed \cup {s} ELSE disturbed
  /\ UNCHANGED <<due, parting, loop, told>>

\* PING: an entry that is gone stays gone.
Heartbeat(s) ==
  /\ conn[s] = "authenticated" /\ Ready(s)
  /\ s \in registered
  /\ silence' = [silence EXCEPT ![s] = 0]
  /\ UNCHANGED <<conn, registered, tracked, due, parting, loop, told, disturbed>>

\* SUB: handle_subscribe tracks the channel, if there is still an entry ...
TrackChannel(s, c) ==
  /\ conn[s] = "authenticated" /\ Ready(s)
  /\ joined[s][c] < MaxSubs
  /\ tracked' = IF s \in registered THEN [tracked EXCEPT ![s][c] = @ + 1] ELSE tracked
  /\ due' = [due EXCEPT ![s] = [event |-> "join", channel |-> c]]
  /\ UNCHANGED <<conn, registered, silence, parting, loop, told, disturbed>>

\* The LEAVE is not published.
FaultyUntrackSilently(s, c) ==
  /\ conn[s] = "authenticated" /\ Ready(s)
  /\ tracked' = [tracked EXCEPT ![s][c] = 0]
  /\ UNCHANGED <<conn, registered, silence, due, parting, loop, told, disturbed>>

\* UNSUB: handle_unsubscribe forgets every mention of the channel ...
UntrackChannel(s, c) ==
  /\ conn[s] = "authenticated" /\ Ready(s)
  /\ tracked' = [tracked EXCEPT ![s][c] = 0]
  /\ due' = [due EXCEPT ![s] = [event |-> "leave", channel |-> c]]
  /\ UNCHANGED <<conn, registered, silence, parting, loop, told, disturbed>>

\* ... and both publish on the meta-channel, entry or not.
Announce(s) ==
  LET c == due[s].channel IN
  /\ due[s] # Nothing
  /\ due' = [due EXCEPT ![s] = Nothing]
  /\ seen' = [seen EXCEPT ![s][c] = due[s].event]
  /\ joined' = IF due[s].event = "join" THEN [joined EXCEPT ![s][c] = @ + 1] ELSE joined
  /\ UNCHANGED <<conn, table, parting, loop, departed, disturbed>>

\* The entry is read, not removed.
FaultyLeaveByRead(s) ==
  /\ conn[s] = "authenticated" /\ Ready(s)
  /\ conn' = [conn EXCEPT ![s] = "leaving"]
  /\ parting' = [parting EXCEPT ![s] = tracked[s]]
  /\ UNCHANGED <<table, due, loop, told, disturbed>>

\* An error return skips the clean-up.
FaultyLeaveSkipped(s) ==
  /\ conn[s] = "authenticated" /\ Ready(s)
  /\ conn' = [conn EXCEPT ![s] = "closed"]
  /\ UNCHANGED <<table, due, parting, loop, told, disturbed>>

\* The socket ends: handle_leave takes the entry out of the table ...
HandleLeave(s) ==
  /\ conn[s] = "authenticated" /\ Ready(s)
  /\ conn' = [conn EXCEPT ![s] = "leaving"]
  /\ parting' = [parting EXCEPT ![s] = tracked[s]]
  /\ Remove(s)
  /\ UNCHANGED <<due, loop, told, disturbed>>

\* ... and publishes a LEAVE for every channel it lists.
AnnounceLeave(s, c) ==
  /\ conn[s] = "leaving"
  /\ parting[s][c] > 0
  /\ parting' = [parting EXCEPT ![s][c] = @ - 1]
  /\ seen' = [seen EXCEPT ![s][c] = "leave"]
  /\ departed' = [departed EXCEPT ![s][c] = @ + 1]
  /\ UNCHANGED <<conn, table, due, loop, joined, disturbed>>

\* The connection task ends; one that never authenticated does so at once.
Close(s) ==
  /\ conn[s] \in {"anonymous", "leaving"}
  /\ parting[s] = NoneOf
  /\ conn' = [conn EXCEPT ![s] = "closed"]
  /\ UNCHANGED <<table, due, parting, loop, told, disturbed>>

-----------------------------------------------------------------------------
(* The heartbeat loop                                                      *)

\* Time passes.  sweep_expired reads the clock once, before its scan, so the
\* clock stands still for the entries that the scan looks at.
Tick ==
  /\ sweep # "scanning"
  /\ silence' = [s \in Sessions |-> IF silence[s] > Timeout THEN silence[s] ELSE silence[s] + 1]
  /\ UNCHANGED <<conn, registered, tracked, due, parting, loop, told, disturbed>>

SweepBegin ==
  /\ sweep = "asleep"
  /\ sweep' = "scanning"
  /\ unvisited' = registered
  /\ expired' = {}
  /\ UNCHANGED <<conn, table, due, parting, swept, told, disturbed>>

\* A session that is a member of nothing is not worth sweeping.
FaultyVisitMembersOnly(s) ==
  /\ sweep = "scanning"
  /\ s \in unvisited
  /\ unvisited' = unvisited \ {s}
  /\ expired' = IF s \in registered /\ silence[s] > Timeout /\ tracked[s] # NoneOf
                  THEN expired \cup {s} ELSE expired
  /\ UNCHANGED <<conn, table, due, parting, sweep, swept, told, disturbed>>

\* The scan looks at one entry and collects the id of an expired one.
SweepVisit(s) ==
  /\ sweep = "scanning"
  /\ s \in unvisited
  /\ unvisited' = unvisited \ {s}
  /\ expired' = IF s \in registered /\ silence[s] > Timeout THEN expired \cup {s} ELSE expired
  /\ UNCHANGED <<conn, table, due, parting, sweep, swept, told, disturbed>>

SweepCollected ==
  /\ sweep = "scanning"
  /\ unvisited = {}
  /\ sweep' = "removing"
  /\ UNCHANGED <<conn, table, due, parting, unvisited, expired, swept, told, disturbed>>

\* Removal by id, whatever has become of the entry since the scan.
SweepRemove(s) ==
  /\ sweep = "removing"
  /\ s \in expired
  /\ expired' = expired \ {s}
  /\ IF s \in registered
       THEN /\ swept' = [swept EXCEPT ![s] = tracked[s]]
            /\ disturbed' = disturbed \cup {s}
            /\ Remove(s)
       ELSE UNCHANGED <<swept, disturbed, table>>
  /\ UNCHANGED <<conn, due, parting, sweep, unvisited, told>>

\* The loop goes back to sleep after the removal.
FaultyRemovedInSilence ==
  /\ sweep = "removing"
  /\ expired = {}
  /\ sweep' = "asleep"
  /\ UNCHANGED <<conn, table, due, parting, unvisited, expired, swept, told, disturbed>>

SweepRemoved ==
  /\ sweep = "removing"
  /\ expired = {}
  /\ sweep' = "announcing"
  /\ UNCHANGED <<conn, table, due, parting, unvisited, expired, swept, told, disturbed>>

\* One TIMEOUT event of the removed entries.
AnnounceTimeout(s, c) ==
  /\ sweep = "announcing"
  /\ swept[s][c] > 0
  /\ swept' = [swept EXCEPT ![s][c] = @ - 1]
  /\ seen' = [seen EXCEPT ![s][c] = "timeout"]
  /\ departed' = [departed EXCEPT ![s][c] = @ + 1]
  /\ UNCHANGED <<conn, table, due, parting, sweep, unvisited, expired, joined, disturbed>>

\* The loop waits for its next tick.
SweepEnd ==
  /\ sweep = "announcing"
  /\ \A s \in Sessions : swept[s] = NoneOf
  /\ sweep' = "asleep"
  /\ UNCHANGED <<conn, table, due, parting, unvisited, expired, swept, told, disturbed>>

Sweeper ==
  \/ SweepBegin
  \/ \E s \in Sessions : SweepVisit(s)
  \/ SweepCollected
  \/ \E s \in Sessions : SweepRemove(s)
  \/ SweepRemoved
  \/ \E s \in Sessions, c \in Channels : AnnounceTimeout(s, c)
  \/ SweepEnd

\* What the connection task does on its own account once it has begun.
Finish(s) ==
  \/ Announce(s)
  \/ \E c \in Channels : AnnounceLeave(s, c)
  \/ conn[s] = "leaving" /\ Close(s)

Next ==
  \/ \E s \in Sessions : HandleJoin(s)
  \/ \E s \in Sessions : Heartbeat(s)
  \/ \E s \in Sessions, c \in Channels : TrackChannel(s, c)
  \/ \E s \in Sessions, c \in Channels : UntrackChannel(s, c)
  \/ \E s \in Sessions : Announce(s)
  \/ \E s \in Sessions : HandleLeave(s)
  \/ \E s \in Sessions, c \in Channels : AnnounceLeave(s, c)
  \/ \E s \in Sessions : Close(s)
  \/ Tick
  \/ Sweeper

Spec == Init /\ [][Next]_vars

\* The runtime keeps polling the heartbeat loop and every connection task; what
\* clients send, and when they go, is up to them.
Fairness ==
  /\ WF_vars(Sweeper)
  /\ \A s \in Sessions : WF_vars(Finish(s))

FairSpec == Spec /\ Fairness

-----------------------------------------------------------------------------
(* Properties                                                              *)

JoinsDue(s, c) == IF due[s] = [event |-> "join", channel |-> c] THEN 1 ELSE 0

\* handle_leave and sweep_expired race for the same entry: a tracked SUB is
\* announced as departed by at most one of them, and once.
DepartsAtMostOnce ==
  \A s \in Sessions, c \in Channels :
    departed[s][c] + parting[s][c] + swept[s][c] + tracked[s][c]
      <= joined[s][c] + JoinsDue(s, c)

\* The devices view lists only sessions whose connection task is still running.
RegisteredIsConnected ==
  \A s \in registered : conn[s] = "authenticated"

\* A session that authenticated once and kept its heartbeat is never left
\* behind as a member: when its task has ended, the last word about it on
\* every meta-channel is not JOIN.
NoGhostAfterCleanExit ==
  \A s \in Sessions, c \in Channels :
    conn[s] = "closed" /\ s \notin disturbed => seen[s][c] # "join"

\* A session that stays silent past the timeout does not stay in the table.
SilentSessionsForgotten ==
  \A s \in Sessions :
    (s \in registered /\ silence[s] > Timeout) ~> (s \notin registered \/ silence[s] <= Timeout)

\* A TIMEOUT that is owed to the watchers is published.
TimeoutsAnnounced ==
  \A s \in Sessions, c \in Channels : swept[s][c] > 0 ~> swept[s][c] = 0

\* The heartbeat loop finishes what it starts: a silent session goes, and every
\* channel it was on is told (start_heartbeat_loop).
SilentSessionsEnd == SilentSessionsForgotten /\ TimeoutsAnnounced

\* The doc comment of handle_leave: it "broadcasts LEAVE on every channel the
\* session was subscribed to", whatever happened to the session before.
\* The code breaks it (README, Findings).
LeaveOnEveryChannel ==
  \A s \in Sessions, c \in Channels :
    conn[s] = "closed" /\ swept[s][c] = 0 => seen[s][c] # "join"
=============================================================================
