--------------------------- MODULE SandboxSession ---------------------------
(***************************************************************************)
(* The tab in which an operator joins a session's channels: its effect      *)
(* mints a token, makes a client of the SDK with it and replays the         *)
(* channels.  React runs the effect twice in StrictMode, and the operator   *)
(* may leave, or be logged out, while the token is being minted.            *)
(***************************************************************************)
EXTENDS Naturals, Sequences, FiniteSets

CONSTANTS
  MaxJoins,      \* bound: runs of the effect
  MaxPublished   \* bound: messages published to the channel

VARIABLES
  mounted,       \* the page is shown
  params,        \* its URL still has the session's parameters
  apiUrl,        \* the admin connection is there
  joins,         \* joins[k]: where the kth run of the effect is
  clientRef,     \* the client of clientRef, 0 for null
  sockets,       \* the clients whose socket is open
  agentStatus,   \* status
  published,     \* the messages of the channel: "you" for this tab's, "them"
  heard,         \* heard[k]: how many of them client k was given
  bubbles        \* the messages on the page: whose, and labelled "You" or not

vars == <<mounted, params, apiUrl, joins, clientRef, sockets, agentStatus, published, heard, bubbles>>

Runs == 1..MaxJoins

\* Run k of the effect; without parameters or connection it returns at once.
RunEffect(js) ==
  LET fresh == {k \in Runs : js[k] = "unused"}
      k     == CHOOSE i \in fresh : \A j \in fresh : i <= j
  IN  IF params /\ apiUrl THEN [js EXCEPT ![k] = "minting"] ELSE js

Fresh == \E k \in Runs : joins[k] = "unused"

\* The cleanup: the run that is going on is cancelled, its client disconnected.
Cancelled(js) ==
  [k \in Runs |-> CASE js[k] = "minting" -> "cancelled"
                    [] js[k] = "joined" /\ k = clientRef -> "left"
                    [] OTHER -> js[k]]

Init ==
  /\ mounted = TRUE /\ params = TRUE /\ apiUrl = TRUE
  /\ joins = [k \in Runs |-> IF k = 1 THEN "minting" ELSE "unused"]
  /\ clientRef = 0 /\ sockets = {} /\ agentStatus = "connecting"
  /\ published = <<>> /\ heard = [k \in Runs |-> 0] /\ bubbles = {}

\* StrictMode: cleanup and effect, the state of the page being kept.
StrictRemount ==
  /\ mounted /\ Fresh
  /\ joins' = RunEffect(Cancelled(joins))
  /\ clientRef' = 0
  /\ UNCHANGED <<mounted, params, apiUrl, sockets, agentStatus, published, heard, bubbles>>

\* With the component, nobody hears the clients of its runs any more.
Gone(js) == [k \in Runs |-> IF js[k] \in {"left", "joined"} THEN "gone" ELSE js[k]]

Unmount ==
  /\ mounted' = FALSE
  /\ joins' = Gone(Cancelled(joins))
  /\ clientRef' = 0
  /\ agentStatus' = "connecting" /\ bubbles' = {}

Leave ==
  /\ mounted
  /\ Unmount
  /\ UNCHANGED <<params, apiUrl, sockets, published, heard>>

\* Back in the tab's history.
ComeBack ==
  /\ ~mounted /\ apiUrl /\ Fresh
  /\ mounted' = TRUE
  /\ joins' = RunEffect(joins)
  /\ UNCHANGED <<params, apiUrl, clientRef, sockets, agentStatus, published, heard, bubbles>>

\* The login form leads back to the path it came from, without its parameters.
LoginForm ==
  /\ ~mounted /\ ~apiUrl
  /\ apiUrl' = TRUE /\ mounted' = TRUE /\ params' = FALSE
  /\ UNCHANGED <<joins, clientRef, sockets, agentStatus, published, heard, bubbles>>

-----------------------------------------------------------------------------
(* join: what follows the await                                             *)

\* A cancelled run stops here; another has its client, which connects.
Joined(k) ==
  /\ joins[k] \in {"minting", "cancelled"}
  /\ joins' = [joins EXCEPT ![k] = IF @ = "minting" THEN "joined" ELSE "gone"]
  /\ clientRef' = IF joins[k] = "minting" THEN k ELSE clientRef
  /\ UNCHANGED <<mounted, params, apiUrl, sockets, agentStatus, published, heard, bubbles>>

MintFails(k) ==
  /\ joins[k] \in {"minting", "cancelled"}
  /\ joins' = [joins EXCEPT ![k] = "gone"]
  /\ UNCHANGED <<mounted, params, apiUrl, clientRef, sockets, agentStatus, published, heard, bubbles>>

\* 401: logged out, and the protected page goes.
MintDenied(k) ==
  /\ joins[k] \in {"minting", "cancelled"}
  /\ apiUrl' = FALSE /\ mounted' = FALSE
  /\ joins' = [Gone(Cancelled(joins)) EXCEPT ![k] = "gone"]
  /\ clientRef' = 0 /\ agentStatus' = "connecting" /\ bubbles' = {}
  /\ UNCHANGED <<params, sockets, published, heard>>

\* A client is in use from connect() to disconnect().
InUse == {k \in Runs : joins[k] = "joined"}

\* The channels are replayed once, and no further back than they are kept: what was
\* published while a client was away it may have missed.
SocketOpens(k) ==
  /\ k \in InUse \ sockets
  /\ sockets' = sockets \cup {k}
  /\ agentStatus' = IF mounted THEN "connected" ELSE agentStatus
  /\ \E n \in heard[k]..Len(published) : heard' = [heard EXCEPT ![k] = n]
  /\ UNCHANGED <<mounted, params, apiUrl, joins, clientRef, published, bubbles>>

\* A connection that is lost, or the one of a client that was disconnected.
SocketCloses(k) ==
  /\ k \in sockets
  /\ sockets' = sockets \ {k}
  /\ agentStatus' = IF joins[k] # "gone" THEN "disconnected" ELSE agentStatus
  /\ UNCHANGED <<mounted, params, apiUrl, joins, clientRef, published, heard, bubbles>>

\* The replay gives a new client what was there before, the subscription the rest;
\* the engine echoes a publish to its publisher too.
Receive(k) ==
  /\ k \in sockets /\ k \in InUse /\ heard[k] < Len(published)
  /\ heard' = [heard EXCEPT ![k] = @ + 1]
  /\ bubbles' = IF mounted THEN bubbles \cup {[by |-> published[heard[k] + 1], you |-> FALSE]} ELSE bubbles
  /\ UNCHANGED <<mounted, params, apiUrl, joins, clientRef, sockets, agentStatus, published>>

\* The form is disabled unless connected.
handleSend ==
  /\ mounted /\ clientRef # 0 /\ agentStatus = "connected"
  /\ Len(published) < MaxPublished
  /\ published' = IF clientRef \in sockets THEN Append(published, "you") ELSE published
  /\ bubbles' = bubbles \cup {[by |-> "you", you |-> TRUE]}
  /\ UNCHANGED <<mounted, params, apiUrl, joins, clientRef, sockets, agentStatus, heard>>

TheySend ==
  /\ Len(published) < MaxPublished
  /\ published' = Append(published, "them")
  /\ UNCHANGED <<mounted, params, apiUrl, joins, clientRef, sockets, agentStatus, heard, bubbles>>

Next ==
  \/ StrictRemount \/ Leave \/ ComeBack \/ LoginForm \/ handleSend \/ TheySend
  \/ \E k \in Runs :
       Joined(k) \/ MintFails(k) \/ MintDenied(k) \/ SocketOpens(k) \/ SocketCloses(k) \/ Receive(k)

Spec == Init /\ [][Next]_vars

-----------------------------------------------------------------------------
(* Properties                                                               *)

\* The tab is on the channel as at most one agent, and as none once the page is left,
\* whichever of its runs gets its token last (SandboxSessionPage.tsx:65, 98-102).
OneAgent == InUse \subseteq {clientRef} /\ (~mounted => InUse = {})

\* "Messages this tab itself sends are labeled \"You\" from local state; everything else
\* is labeled generically as the target session's `sub` - accurate only when exactly two
\* parties [...] are on the channel" (SandboxSessionPage.tsx:12-16).
\* The code breaks it (README, Findings).
LabelledRight == \A b \in bubbles : b.you = (b.by = "you")
=============================================================================
