----------------------------- MODULE PortalViews -----------------------------
(***************************************************************************)
(* The views of the tenant portal that follow the server by asking again    *)
(* and again: the overview with its chart and its focus mode, the list of   *)
(* connected sessions, and the assistant that recommends what to do next.   *)
(*                                                                         *)
(* The interval does not wait for the answer: requests overlap, and their   *)
(* answers are applied in the order in which they come.                     *)
(***************************************************************************)
EXTENDS Naturals, Sequences, FiniteSets

CONSTANTS
  MaxEvents,       \* bound: how often what a page shows changes on the server
  SampleSize,      \* SAMPLE_HISTORY_SIZE
  MaxPolls,        \* bound: requests of a page on their way at once
  Facts            \* what the server would tell the assistant, see Snapshot

ASSUME ViewsAssumption ==
  MaxEvents \in Nat /\ SampleSize \in Nat \ {0} /\ MaxPolls \in Nat \ {0}

VARIABLES
  view,            \* the page that is mounted
  counter,         \* counter[v]: the server's figure for page v, which only grows
  shown,           \* the figure the mounted page shows
  chart,           \* the samples of the mounted overview
  polls,           \* requests of the mounted page: their answers, or 0 before there is one
  intervalMs,      \* metricsRefreshIntervalMs, one of two
  focusMode,
  blobPosition,    \* aiAssistantPosition
  snapshots,       \* requests of the assistant that are not settled
  advice           \* what the assistant recommends

pageVars == <<shown, chart, polls>>
blobVars == <<snapshots, advice>>
vars == <<view, counter, pageVars, intervalMs, focusMode, blobPosition, blobVars>>

Polled == {"overview", "sessions"}
Views  == Polled \cup {"preferences"}

Init ==
  /\ view = "overview"
  /\ counter = [v \in Polled |-> 1]
  /\ shown = 0 /\ chart = << >> /\ polls = << 0 >>
  /\ intervalMs = "default" /\ focusMode = FALSE /\ blobPosition = "corner"
  /\ snapshots = 1 /\ advice = "loading"

-----------------------------------------------------------------------------
(* The pages                                                                *)

\* The effect of a page: the first poll at once, the interval after that.  Its
\* cleanup cancels what is on its way.
Mounted(v) ==
  /\ polls' = IF v \in Polled THEN << 0 >> ELSE << >>
  /\ shown' = 0 /\ chart' = << >>

Visit(v) ==
  /\ ~focusMode /\ v # view
  /\ view' = v
  /\ Mounted(v)
  /\ UNCHANGED <<counter, intervalMs, focusMode, blobPosition, blobVars>>

FaultyTick ==
  /\ view \in Polled /\ Len(polls) < MaxPolls /\ ~focusMode
  /\ polls' = Append(polls, 0)
  /\ UNCHANGED <<view, counter, shown, chart, intervalMs, focusMode, blobPosition, blobVars>>

\* The interval of the overview, or of the list of sessions.
Tick ==
  /\ view \in Polled /\ Len(polls) < MaxPolls
  /\ polls' = Append(polls, 0)
  /\ UNCHANGED <<view, counter, shown, chart, intervalMs, focusMode, blobPosition, blobVars>>

\* The server's figures move on, and it answers a request (external).
Happens(v) ==
  /\ counter[v] < MaxEvents
  /\ counter' = [counter EXCEPT ![v] = @ + 1]
  /\ UNCHANGED <<view, pageVars, intervalMs, focusMode, blobPosition, blobVars>>

Answer(i) ==
  /\ i \in DOMAIN polls /\ polls[i] = 0
  /\ polls' = [polls EXCEPT ![i] = counter[view]]
  /\ UNCHANGED <<view, counter, shown, chart, intervalMs, focusMode, blobPosition, blobVars>>

\* useActivityHistory: a sample for every answer, the oldest dropped.
Sampled(n) == LET s == Append(chart, n) IN IF Len(s) > SampleSize THEN Tail(s) ELSE s

Without(i) == SubSeq(polls, 1, i - 1) \o SubSeq(polls, i + 1, Len(polls))

\* The rest of poll.  A request that fails is passed over; the next one will do.
PollSettles(i) ==
  /\ i \in DOMAIN polls /\ polls[i] # 0
  /\ polls' = Without(i)
  /\ shown' = polls[i]
  /\ chart' = IF view = "overview" THEN Sampled(polls[i]) ELSE chart
  /\ UNCHANGED <<view, counter, intervalMs, focusMode, blobPosition, blobVars>>

PollFails(i) ==
  /\ i \in DOMAIN polls
  /\ polls' = Without(i)
  /\ UNCHANGED <<view, counter, shown, chart, intervalMs, focusMode, blobPosition, blobVars>>

-----------------------------------------------------------------------------
(* Preferences, kept in localStorage except for the focus mode              *)

SetInterval ==
  /\ view = "preferences"
  /\ intervalMs' = IF intervalMs = "default" THEN "other" ELSE "default"
  /\ UNCHANGED <<view, counter, pageVars, focusMode, blobPosition, blobVars>>

\* The effect of the assistant asks anew whenever it comes back into sight; the
\* requests before are not cancelled.
AsksAgain(p, f) ==
  snapshots' = IF p # "hidden" /\ ~f THEN snapshots + 1 ELSE snapshots

SetPosition(p) ==
  /\ view = "preferences" /\ p # blobPosition /\ snapshots < MaxPolls
  /\ blobPosition' = p
  /\ AsksAgain(p, focusMode)
  /\ UNCHANGED <<view, counter, pageVars, intervalMs, focusMode, advice>>

toggleFocusMode ==
  /\ view = "overview" /\ snapshots < MaxPolls
  /\ focusMode' = ~focusMode
  /\ AsksAgain(blobPosition, ~focusMode)
  /\ UNCHANGED <<view, counter, pageVars, intervalMs, blobPosition, advice>>

\* The page is loaded again.
Reload ==
  /\ focusMode' = FALSE
  /\ Mounted(view)
  /\ snapshots' = (IF blobPosition = "hidden" THEN 0 ELSE 1) /\ advice' = "loading"
  /\ UNCHANGED <<view, counter, intervalMs, blobPosition>>

-----------------------------------------------------------------------------
(* The assistant                                                            *)

\* A request that fails counts as a zero, or as "not configured".
Snapshot(failed) == [f \in DOMAIN Facts |-> IF f \in failed THEN 0 ELSE Facts[f]]

\* The first of these that applies; "token" is 1 for one that has expired or soon will.
computeRecommendation(s) ==
  IF s.token = 1          THEN "mintToken"
  ELSE IF s.vapid = 0     THEN "webPush"
  ELSE IF s.devices = 0   THEN "devices"
  ELSE IF s.channels = 0  THEN "channels"
  ELSE IF s.templates = 0 THEN "templates"
  ELSE IF s.limited # 0   THEN "rateLimited"
  ELSE "allGood"

\* allSettled has come to an end.
SnapshotSettles(failed) ==
  /\ snapshots > 0
  /\ snapshots' = snapshots - 1
  /\ advice' = computeRecommendation(Snapshot(failed))
  /\ UNCHANGED <<view, counter, pageVars, intervalMs, focusMode, blobPosition>>

Next ==
  \/ \E v \in Views : Visit(v)
  \/ Tick \/ SetInterval \/ toggleFocusMode \/ Reload
  \/ \E v \in Polled : Happens(v)
  \/ \E i \in 1..MaxPolls : Answer(i) \/ PollSettles(i) \/ PollFails(i)
  \/ \E p \in {"corner", "hidden"} : SetPosition(p)
  \/ \E failed \in SUBSET {"vapid", "devices", "channels", "templates"} : SnapshotSettles(failed)

\* The browser runs the interval, a request ends (http.ts gives it 15 seconds), and
\* requests that are made again and again succeed again and again.
Fairness ==
  /\ WF_vars(Tick)
  /\ \A i \in 1..MaxPolls : SF_vars(Answer(i)) /\ SF_vars(PollSettles(i))

Spec == Init /\ [][Next]_vars /\ Fairness

-----------------------------------------------------------------------------
(* Properties                                                               *)

\* A page that stays open comes to show what the server has, with the metrics in
\* focus too ("the whole point is that this stays live", OverviewPage.tsx:275-276),
\* although answers overtake each other.
StaysLive ==
  \A v \in Polled : <>[](view = v) => []<>(shown = counter[v])

\* The assistant says that there is no channel only when there is none.
\* The code breaks it (README, Findings).
AdviceIsTrue == advice = "channels" => Facts.channels = 0
=============================================================================
