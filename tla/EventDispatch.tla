--------------------------- MODULE EventDispatch ---------------------------
(***************************************************************************)
(* One message and the handlers of one client: the listeners of 'message', *)
(* the handlers registered under the channel, those under each pattern that *)
(* covers it, and the handlers of named events that channel().on wraps.  A  *)
(* handler may subscribe and unsubscribe, itself or others, while it is     *)
(* called.  RealtimeClient walks its Sets and its Map as they change;       *)
(* mio-client.js walks copies.  The frames that SUB and UNSUB send are in   *)
(* SdkClient and FeedClient.                                                *)
(*                                                                          *)
(* Operators whose name starts with Faulty are not part of the model: each  *)
(* is a plausible slip in the definition that follows it.                   *)
(***************************************************************************)
EXTENDS Naturals, Sequences, SequencesExt

CONSTANTS
  Client,        \* "sdk" or "light" (mio-client.js)
  Handler,
  Wants,         \* Wants[h]: the event that on() wrapped h for, or "any" for a plain handler
  Exact,         \* the channel messages arrive on
  Pattern,       \* keys that hold a '*' and cover it
  Events,        \* what messages hold: events, or "raw" for a payload that is no envelope
  MaxTouches     \* bound: calls of subscribe and unsubscribe between two messages and during one

VARIABLES
  order,         \* the keys of this.subscriptions, in the order of the Map
  handlers,      \* handlers[k]: the handlers registered under k, in order; << >> for none
  focused,       \* the page is visible and has the focus
  phase,         \* of dispatch: "idle", "listeners", "exact", "patterns"
  event,         \* what the message holds
  keysLeft,      \* the keys still to visit, for copies; the number visited, for a live Map
  current,       \* the key whose handlers are being called, or "none"
  left,          \* the handlers still to call, for copies; the number called, for a live Set
  running,       \* code of the application is being called
  touches,       \* calls of subscribe and unsubscribe, for the bound
  kept,          \* registrations there since the message arrived
  called,        \* called[k, h]: how often the application's handler ran for this message
  failed,        \* "no", "handler" when a handler threw, "client" when dispatch itself did
  notified       \* a notification was shown for the message

vars == <<order, handlers, focused, phase, event, keysLeft, current, left, running, touches,
          kept, called, failed, notified>>

Key     == {Exact} \cup Pattern
Nothing == IF Client = "sdk" THEN 0 ELSE << >>
Registered == {r \in Key \X Handler : Contains(handlers[r[1]], r[2])}

Init ==
  /\ order = << >> /\ handlers = [k \in Key |-> << >>]
  /\ focused = TRUE
  /\ phase = "idle" /\ event = "raw" /\ keysLeft = Nothing /\ current = "none" /\ left = Nothing
  /\ running = FALSE /\ touches = 0 /\ kept = {} /\ called = [r \in Key \X Handler |-> 0] /\ failed = "no" /\ notified = FALSE

-----------------------------------------------------------------------------
(* subscribe and the function it returns                                    *)

\* A Set keeps one of each.  The Array of the light client would take another of the
\* same; an application that does that is left out.
Subscribed(k, h) ==
  /\ Client = "light" => ~Contains(handlers[k], h)
  /\ handlers' = [handlers EXCEPT ![k] = IF Contains(@, h) THEN @ ELSE Append(@, h)]
  /\ order' = IF handlers[k] = << >> THEN Append(order, k) ELSE order
  /\ UNCHANGED <<keysLeft, current, left, kept>>

Index(s, x)   == CHOOSE i \in DOMAIN s : s[i] = x
Without(s, x) == RemoveAt(s, Index(s, x))

\* An index into a list that others shorten.
FaultyUnsubscribed(k, h) ==
  /\ <<k, h>> \in Registered
  /\ handlers' = [handlers EXCEPT ![k] = Without(@, h)]
  /\ order' = IF Len(handlers[k]) = 1 THEN Without(order, k) ELSE order
  /\ kept' = kept \ {<<k, h>>}
  /\ UNCHANGED <<keysLeft, current, left>>

\* The last handler takes the key with it.  An iterator of a Set or a Map that is
\* under way goes on behind the last element it gave; one whose Set was dropped ends.
Unsubscribed(k, h) ==
  LET last == Len(handlers[k]) = 1 IN
  /\ <<k, h>> \in Registered
  /\ handlers' = [handlers EXCEPT ![k] = Without(@, h)]
  /\ order' = IF last THEN Without(order, k) ELSE order
  /\ kept' = kept \ {<<k, h>>}
  /\ current' = IF Client = "sdk" /\ current = k /\ last THEN "none" ELSE current
  /\ left' = IF Client = "sdk" /\ current = k
             THEN IF last THEN 0 ELSE IF Index(handlers[k], h) <= left THEN left - 1 ELSE left
             ELSE left
  /\ keysLeft' = IF Client = "sdk" /\ phase = "patterns" /\ last /\ Index(order, k) <= keysLeft
                 THEN keysLeft - 1 ELSE keysLeft

\* Between two messages, or by a handler that is being called.
Touch ==
  /\ phase = "idle" \/ running
  /\ touches < MaxTouches
  /\ touches' = touches + 1
  /\ \E k \in Key, h \in Handler : Subscribed(k, h) \/ Unsubscribed(k, h)
  /\ UNCHANGED <<focused, phase, event, running, called, failed, notified>>

-----------------------------------------------------------------------------
(* dispatch                                                                 *)

FocusChanges ==
  /\ phase = "idle"
  /\ focused' = ~focused
  /\ UNCHANGED <<order, handlers, phase, event, keysLeft, current, left, running, touches,
                 kept, called, failed, notified>>

\* A message arrives; emit("message") comes first, to listeners of the application too.
Arrives(e) ==
  /\ phase = "idle"
  /\ phase' = "listeners" /\ event' = e
  /\ running' = TRUE /\ touches' = 0 /\ kept' = Registered
  /\ failed' = "no"
  /\ UNCHANGED <<order, handlers, focused, keysLeft, current, left, called, notified>>

\* The listener of attachBackgroundNotifications, on a page that may show them; then
\* the handlers of the channel.
Emitted ==
  /\ phase = "listeners"
  /\ running' = FALSE
  /\ notified' = ~focused
  /\ phase' = "exact"
  /\ current' = IF handlers[Exact] # << >> THEN Exact ELSE "none"
  /\ left' = IF Client = "sdk" THEN 0 ELSE handlers[Exact]
  /\ UNCHANGED <<order, handlers, focused, event, keysLeft, touches, kept, called, failed>>

\* tryDecodeEnvelope: a wrapped handler runs for its own event only.
Runs(h) == Wants[h] \in {"any", event}

\* The next handler of the current key is called.
Call ==
  LET h == IF Client = "sdk" THEN handlers[current][left + 1] ELSE Head(left) IN
  /\ current # "none"
  /\ IF Client = "sdk" THEN left < Len(handlers[current]) ELSE left # << >>
  /\ called' = [called EXCEPT ![<<current, h>>] = IF Runs(h) THEN @ + 1 ELSE @]
  /\ left' = IF Client = "sdk" THEN left + 1 ELSE Tail(left)
  /\ running' = Runs(h)
  /\ UNCHANGED <<order, handlers, focused, phase, event, keysLeft, current, touches, kept,
                 failed, notified>>

Ended ==
  /\ phase' = "idle" /\ current' = "none" /\ left' = Nothing /\ keysLeft' = Nothing /\ running' = FALSE
  /\ event' = "raw" /\ notified' = FALSE /\ touches' = 0 /\ kept' = {} /\ called' = [r \in Key \X Handler |-> 0]

\* It throws, and dispatch with it.
Throw ==
  /\ running
  /\ failed' = "handler" /\ Ended
  /\ UNCHANGED <<order, handlers, focused>>

KeyDone ==
  IF current = "none" THEN TRUE
  ELSE IF Client = "sdk" THEN left = Len(handlers[current]) ELSE left = << >>

\* The handlers of the channel are done; the patterns follow.
ExactDone ==
  /\ phase = "exact" /\ KeyDone
  /\ phase' = "patterns" /\ current' = "none" /\ left' = Nothing /\ running' = FALSE
  /\ keysLeft' = IF Client = "sdk" THEN 0 ELSE order
  /\ UNCHANGED <<order, handlers, focused, event, touches, kept, called, failed, notified>>

\* The next key, when it is a pattern.  The light client has the key from a copy:
\* when its last handler has left meanwhile, there is no list to copy.
NextKey ==
  LET k == IF Client = "sdk" THEN order[keysLeft + 1] ELSE Head(keysLeft) IN
  /\ phase = "patterns" /\ KeyDone
  /\ IF Client = "sdk" THEN keysLeft < Len(order) ELSE keysLeft # << >>
  /\ IF Client = "light" /\ k \in Pattern /\ handlers[k] = << >>
     THEN failed' = "client" /\ Ended
     ELSE /\ keysLeft' = IF Client = "sdk" THEN keysLeft + 1 ELSE Tail(keysLeft)
          /\ current' = IF k \in Pattern THEN k ELSE "none"
          /\ left' = IF Client = "light" /\ k \in Pattern THEN handlers[k] ELSE Nothing
          /\ running' = FALSE
          /\ UNCHANGED <<phase, failed, event, touches, kept, called, notified>>
  /\ UNCHANGED <<order, handlers, focused>>

Dispatched ==
  /\ phase = "patterns" /\ KeyDone
  /\ IF Client = "sdk" THEN keysLeft = Len(order) ELSE keysLeft = << >>
  /\ Ended
  /\ UNCHANGED <<order, handlers, focused, failed>>

Next ==
  \/ Touch \/ FocusChanges \/ (\E e \in Events : Arrives(e))
  \/ Emitted \/ Call \/ Throw \/ ExactDone \/ NextKey \/ Dispatched

Spec == Init /\ [][Next]_vars

-----------------------------------------------------------------------------
(* Properties                                                               *)

\* Whatever the handlers subscribe and unsubscribe while they are called, a handler
\* that stays registered from the arrival of a message to the end of its dispatch runs
\* exactly once for it, or not at all when it was wrapped for another event.
HeardOnceStep ==
  phase = "patterns" /\ phase' = "idle" /\ failed' = "no"
     => \A r \in kept : called[r] = IF Runs(r[2]) THEN 1 ELSE 0

\* HeardOnceStep of every step.
HeardOnce == [][HeardOnceStep]_vars

\* dispatch gets through unless a handler throws.
\* The code breaks it (README, Findings).
DispatchCompletes == failed # "client"
=============================================================================
