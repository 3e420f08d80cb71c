------------------------------ MODULE WebPush ------------------------------
(***************************************************************************)
(* Registration of one browser for Web Push: what the browser holds        *)
(* (permission and push subscription), what the server holds (one row per  *)
(* endpoint) and the calls that try to keep the two together, from the     *)
(* controls that start them: the three popup cards (SDK, plain script,     *)
(* React), the button of the plain script and the one of React, the hook   *)
(* that leaves the server to the application, an application that calls    *)
(* the SDK itself, the toggle of the web client, the switch of the portal. *)
(* A page has one of them, and shows its card once at a time.              *)
(*                                                                         *)
(* A call is a chain of awaits; other calls, the user and the server act   *)
(* in between, and each link may fail and leave what the earlier ones did. *)
(*                                                                         *)
(* Operators whose name starts with Faulty are not part of the model: each *)
(* is a plausible slip in the definition that follows it, there to show    *)
(* that a property would notice.                                           *)
(***************************************************************************)
EXTENDS Naturals, FiniteSets, Sequences

CONSTANTS
  Controls,      \* which of the controls below are looked at
  MaxCalls,      \* bound: calls ever started
  MaxEndpoints,  \* bound: subscriptions the push service ever hands out
  MaxDays        \* bound: days that pass

VARIABLES
  control,       \* the control this page has
  vapidKey,      \* whether a VAPID public key is configured
  reprompt,      \* repromptIntervalDays of the card
  permission,    \* Notification.permission
  browserSub,    \* endpoint of the browser's push subscription, or 0
  endpoints,     \* number of endpoints handed out so far
  rows,          \* endpoints in push_subscriptions
  calls,         \* every call so far, in the order they were started
  card,          \* the popup card on the screen
  dismissedAt,   \* day on which a card was last dismissed, or None
  day,           \* Date.now(), in days
  seen,          \* what the control has in its state: the permission, or a status
  last,          \* number of the call that settled last, or 0
  overlapped,    \* two calls have been running at once
  meddled,       \* since the last call something else changed the registration
  undeleted      \* a row was to be deleted and is still there

vars == <<control, vapidKey, reprompt, permission, browserSub, endpoints, rows, calls, card,
          dismissedAt, day, seen, last, overlapped, meddled, undeleted>>

Cards   == {"sdkCard", "scriptCard", "reactCard"}
page    == <<control, vapidKey, reprompt>>
ghosts  == <<overlapped, undeleted>>
NoCard  == [state |-> "absent", call |-> 0]
None    == <<>>
Running == {i \in DOMAIN calls : calls[i].at \notin {"done", "failed"}}
Idle    == Running = {}

\* What the control has in its state when it is mounted: the hooks start from
\* "idle", whatever the browser holds.
FirstSeen(p) == IF control \in {"hookButton", "hookBrowser"} THEN "idle" ELSE p

Init ==
  /\ control \in Controls
  /\ vapidKey \in BOOLEAN
  /\ reprompt \in {0, 1}
  /\ control \notin Cards => reprompt = 0
  /\ control \notin {"toggle", "portal"} => vapidKey
  /\ permission = "default"
  /\ browserSub = 0
  /\ endpoints = 0
  /\ rows = {}
  /\ calls = << >>
  /\ card = NoCard
  /\ dismissedAt = None
  /\ day = 0
  /\ seen = FirstSeen("default")
  /\ last = 0
  /\ overlapped = FALSE
  /\ meddled = FALSE
  /\ undeleted = FALSE

-----------------------------------------------------------------------------
(* Starting and ending a call                                              *)

Start(op, at) ==
  /\ Len(calls) < MaxCalls
  /\ calls' = Append(calls, [op |-> op, at |-> at, endpoint |-> 0])
  /\ overlapped' = (overlapped \/ ~Idle)
  /\ meddled' = FALSE

At(i, op, at) == i \in DOMAIN calls /\ calls[i].op = op /\ calls[i].at = at

Step(i, at) == calls' = [calls EXCEPT ![i].at = at] /\ UNCHANGED <<card, last>>

\* The call settles: the card that waits for it goes away, or comes back to life
\* with the error.
Settle(i, how) ==
  /\ calls' = [calls EXCEPT ![i].at = how]
  /\ card' = IF card.call # i \/ card.state # "busy" THEN card
             ELSE IF how = "done" THEN NoCard ELSE [card EXCEPT !.state = "shown"]
  /\ last' = i

\* How the control's own state follows: the toggle reads the permission again
\* after it has unregistered, the switch after it has registered, and a hook has
\* its status.
SeenAfter(i, how) ==
  LET on == calls[i].op \in {"register", "subscribe"} IN
  seen' = CASE control = "toggle" /\ ~on /\ how = "done" -> permission
            [] control = "portal" /\ on /\ how = "done" -> permission
            [] control \in {"hookButton", "hookBrowser"} ->
                 IF how = "failed" THEN "error" ELSE IF on THEN "subscribed" ELSE "idle"
            [] OTHER -> seen

-----------------------------------------------------------------------------
(* The calls: each is the chain of links below                             *)

\* registerWebPushSubscription and unregisterWebPushSubscription of the SDK.
registerWebPushSubscription   == Start("register", "permission")
unregisterWebPushSubscription == Start("unregister", "worker")

\* subscribe and unsubscribe of mio-vapid-subscription.js.
subscribe   == Start("register", "permission")
unsubscribe == Start("unregister", "worker")

\* registerPushSubscriptionAction and its counterpart, of the web client.
registerPushSubscriptionAction(i) == Step(i, "permission")
unregisterPushSubscriptionAction  == Start("unregister", "worker")

\* registerPortalPushAction and its counterpart; each mints a token just before
\* it talks to the server.
registerPortalPushAction   == Start("register", "permission")
unregisterPortalPushAction == Start("unregister", "worker")

\* subscribe and unsubscribe of usePushSubscription: the browser's half only.
usePushSubscription ==
  /\ control = "hookBrowser"
  /\ \/ Start("subscribe", "permission") /\ seen' = "subscribing"
     \/ Start("unsubscribe", "worker") /\ seen' = "unsubscribing"
  /\ UNCHANGED <<page, permission, browserSub, endpoints, rows, card, dismissedAt, day, last,
                 undeleted>>

\* useWebPushRegistration: the status while the call is under way.
useWebPushRegistration ==
  \/ registerWebPushSubscription /\ seen' = "subscribing"
  \/ unregisterWebPushSubscription /\ seen' = "unsubscribing"

-----------------------------------------------------------------------------
(* The cards                                                               *)

\* readDismissedAt and the interval: dismissed once means dismissed until the
\* interval is over; with no interval, for good.
DismissalHolds ==
  dismissedAt # None /\ (reprompt = 0 \/ day - dismissedAt[1] < reprompt)

\* Nothing is shown once the browser has an answer, or while a dismissal holds.
isPopupEligible == permission = "default" /\ ~DismissalHolds

ShowCard ==
  /\ card = NoCard
  /\ card' = [state |-> "shown", call |-> 0]
  /\ UNCHANGED <<page, permission, browserSub, endpoints, rows, calls, dismissedAt, day, seen,
                 last, overlapped, meddled, undeleted>>

showPushPermissionPopup == control = "sdkCard" /\ isPopupEligible /\ ShowCard
showPopup               == control = "scriptCard" /\ isPopupEligible /\ ShowCard
PushPermissionPopup     == control = "reactCard" /\ isPopupEligible /\ ShowCard

\* The confirm button: one call, during which it is disabled.
Confirm(call) ==
  /\ card.state = "shown"
  /\ call
  /\ card' = [state |-> "busy", call |-> Len(calls) + 1]
  /\ UNCHANGED <<page, permission, browserSub, endpoints, rows, dismissedAt, day, seen, last,
                 undeleted>>

SdkConfirm    == control = "sdkCard" /\ Confirm(registerWebPushSubscription)
ScriptConfirm == control = "scriptCard" /\ Confirm(subscribe)
ReactConfirm  == control = "reactCard" /\ Confirm(registerWebPushSubscription)

writeDismissedAt == dismissedAt' = <<day>>

\* dismiss: the day is written down, and the card goes.  While the card is busy
\* the cross is hidden, but Escape works, and the call goes on without the card.
dismiss ==
  /\ control \in {"sdkCard", "scriptCard"}
  /\ card # NoCard
  /\ writeDismissedAt
  /\ card' = NoCard
  /\ UNCHANGED <<page, permission, browserSub, endpoints, rows, calls, day, seen, last, overlapped,
                 meddled, undeleted>>

\* handleDismiss of the React card: its cross is disabled while it is busy.
handleDismiss ==
  /\ control = "reactCard"
  /\ card.state = "shown"
  /\ writeDismissedAt
  /\ card' = NoCard
  /\ UNCHANGED <<page, permission, browserSub, endpoints, rows, calls, day, seen, last, overlapped,
                 meddled, undeleted>>

\* close() of the handle, or the React card is unmounted: not a dismissal.
remove ==
  /\ card # NoCard
  /\ card' = NoCard
  /\ UNCHANGED <<page, permission, browserSub, endpoints, rows, calls, dismissedAt, day, seen,
                 last, overlapped, meddled, undeleted>>

-----------------------------------------------------------------------------
(* Buttons and switches                                                    *)

\* autoInit of mio-vapid-subscription.js in button mode: every click starts a
\* call, also while an earlier one is under way.
autoInit ==
  /\ control = "scriptButton"
  /\ subscribe
  /\ UNCHANGED <<page, permission, browserSub, endpoints, rows, card, dismissedAt, day, seen, last,
                 undeleted>>

\* The page of that script, or an application, calls the two functions itself.
ScriptUnsubscribe ==
  /\ control = "scriptButton"
  /\ unsubscribe
  /\ UNCHANGED <<page, permission, browserSub, endpoints, rows, card, dismissedAt, day, seen, last,
                 undeleted>>

AppCalls ==
  /\ \/ control = "app" /\ (registerWebPushSubscription \/ unregisterWebPushSubscription)
     \/ control = "sdkCard" /\ unregisterWebPushSubscription
  /\ UNCHANGED <<page, permission, browserSub, endpoints, rows, card, dismissedAt, day, seen, last,
                 undeleted>>

\* handleClick of PushPermissionButton in its toggle mode, disabled while busy.
PushPermissionButton ==
  /\ control = "hookButton"
  /\ seen \notin {"subscribing", "unsubscribing"}
  /\ useWebPushRegistration
  /\ (seen' = "unsubscribing") <=> (seen = "subscribed")
  /\ UNCHANGED <<page, permission, browserSub, endpoints, rows, card, dismissedAt, day, last,
                 undeleted>>

\* handleClick of PushNotificationToggle: what it does depends on the permission
\* it has in its state.  Without a VAPID key it asks for the permission only.
ToggleClick ==
  /\ control = "toggle" /\ Idle
  /\ IF seen = "granted"
       THEN IF vapidKey THEN unregisterPushSubscriptionAction /\ UNCHANGED seen
            ELSE seen' = permission /\ UNCHANGED <<calls, overlapped, meddled>>
       ELSE Start("register", "toggle") /\ UNCHANGED seen
  /\ UNCHANGED <<page, permission, browserSub, endpoints, rows, card, dismissedAt, day, last,
                 undeleted>>

\* The toggle's own requestNotificationPermission, before the action's.
ToggleAsks(i, answer) ==
  /\ At(i, "register", "toggle")
  /\ answer = permission \/ permission = "default"
  /\ permission' = answer
  /\ seen' = answer
  /\ IF answer # "granted" THEN Settle(i, "failed")
     ELSE IF vapidKey THEN registerPushSubscriptionAction(i) ELSE Settle(i, "done")
  /\ UNCHANGED <<page, browserSub, endpoints, rows, dismissedAt, day, meddled, ghosts>>

\* The button of the portal's preferences, by the permission in its state.
SwitchShows(p) == vapidKey /\ seen = p

\* handleEnable of the portal's preferences.
handleEnable ==
  /\ control = "portal" /\ Idle
  /\ SwitchShows("default")
  /\ registerPortalPushAction
  /\ UNCHANGED <<page, permission, browserSub, endpoints, rows, card, dismissedAt, day, seen, last,
                 undeleted>>

\* handleDisable; the permission is not read again.
handleDisable ==
  /\ control = "portal" /\ Idle
  /\ SwitchShows("granted")
  /\ unregisterPortalPushAction
  /\ UNCHANGED <<page, permission, browserSub, endpoints, rows, card, dismissedAt, day, seen, last,
                 undeleted>>

\* The control is mounted again and reads the permission.
Remount ==
  /\ control \in {"toggle", "portal", "hookButton", "hookBrowser"} /\ Idle
  /\ seen' = FirstSeen(permission)
  /\ UNCHANGED <<page, permission, browserSub, endpoints, rows, calls, card, dismissedAt, day, last,
                 overlapped, meddled, undeleted>>

-----------------------------------------------------------------------------
(* The links of the chain                                                  *)

\* requestNotificationPermission: the browser asks once, and answers by itself
\* from then on.
requestNotificationPermission(i, answer) ==
  /\ At(i, "register", "permission") \/ At(i, "subscribe", "permission")
  /\ answer = permission \/ permission = "default"
  /\ permission' = answer
  /\ IF answer = "granted" THEN Step(i, "worker") /\ UNCHANGED seen
                           ELSE Settle(i, "failed") /\ SeenAfter(i, "failed")
  /\ UNCHANGED <<page, browserSub, endpoints, rows, dismissedAt, day, meddled, ghosts>>

\* registerPushServiceWorker.
registerPushServiceWorker(i) ==
  /\ i \in DOMAIN calls /\ calls[i].at = "worker"
  /\ Step(i, "lookup")
  /\ UNCHANGED <<page, permission, browserSub, endpoints, rows, dismissedAt, day, seen, meddled,
                 ghosts>>

\* The browser, or the server before it has done anything, refuses.
LinkFails(i) ==
  /\ i \in Running /\ calls[i].at \in {"worker", "subscribe", "post", "delete"}
  /\ Settle(i, "failed")
  /\ SeenAfter(i, "failed")
  /\ undeleted' = (undeleted \/ calls[i].at = "delete")
  /\ UNCHANGED <<page, permission, browserSub, endpoints, rows, dismissedAt, day, overlapped,
                 meddled>>

\* subscribeToPush: the subscription there is, whatever key it was made with, or
\* a new one.  (A subscription that another call has made since the lookup is
\* given back by the browser.)
subscribeToPush(i) ==
  LET got(e) == IF calls[i].op = "register"
                  THEN calls' = [calls EXCEPT ![i].at = "post", ![i].endpoint = e]
                       /\ UNCHANGED <<card, last, seen>>
                  ELSE Settle(i, "done") /\ SeenAfter(i, "done")
  IN
  /\ \E op \in {"register", "subscribe"} : At(i, op, "lookup") \/ At(i, op, "subscribe")
  /\ IF browserSub # 0
       THEN got(browserSub) /\ UNCHANGED <<browserSub, endpoints>>
       ELSE IF calls[i].at = "lookup"
         THEN Step(i, "subscribe") /\ UNCHANGED <<browserSub, endpoints, seen>>
         ELSE /\ permission = "granted"
              /\ endpoints < MaxEndpoints
              /\ endpoints' = endpoints + 1
              /\ browserSub' = endpoints + 1
              /\ got(endpoints + 1)
  /\ UNCHANGED <<page, permission, rows, dismissedAt, day, meddled, ghosts>>

\* The call is over before the server has been told.
FaultyPostSubscription(i, answered) ==
  /\ At(i, "register", "post")
  /\ Settle(i, "done") /\ SeenAfter(i, "done")
  /\ UNCHANGED <<page, permission, browserSub, endpoints, rows, dismissedAt, day, meddled, ghosts>>

\* POST /api/v1/push/subscriptions: one row per endpoint, new or replaced.  The
\* answer may get lost.
PostSubscription(i, answered) ==
  /\ At(i, "register", "post")
  /\ rows' = rows \cup {calls[i].endpoint}
  /\ IF answered THEN Settle(i, "done") /\ SeenAfter(i, "done")
                 ELSE Settle(i, "failed") /\ SeenAfter(i, "failed")
  /\ UNCHANGED <<page, permission, browserSub, endpoints, dismissedAt, day, meddled, ghosts>>

\* getSubscription of an unregistration: without one the call is done.
LookUpSubscription(i) ==
  /\ At(i, "unregister", "lookup") \/ At(i, "unsubscribe", "lookup")
  /\ IF browserSub = 0
       THEN Settle(i, "done") /\ SeenAfter(i, "done")
       ELSE /\ calls' = [calls EXCEPT ![i].at = "unsubscribe", ![i].endpoint = browserSub]
            /\ UNCHANGED <<card, last, seen>>
  /\ UNCHANGED <<page, permission, browserSub, endpoints, rows, dismissedAt, day, meddled, ghosts>>

\* existing.unsubscribe(): from here on the endpoint is dead.  unsubscribeFromPush
\* ends here.
unsubscribeFromPush(i) ==
  /\ At(i, "unregister", "unsubscribe") \/ At(i, "unsubscribe", "unsubscribe")
  /\ browserSub' = IF browserSub = calls[i].endpoint THEN 0 ELSE browserSub
  /\ IF calls[i].op = "unregister" THEN Step(i, "delete") /\ UNCHANGED seen
                                   ELSE Settle(i, "done") /\ SeenAfter(i, "done")
  /\ UNCHANGED <<page, permission, endpoints, rows, dismissedAt, day, meddled, ghosts>>

\* The row of the browser's present subscription is asked for, and there is none.
FaultyDeleteSubscription(i, answered) ==
  /\ At(i, "unregister", "delete")
  /\ rows' = rows \ {browserSub}
  /\ IF answered THEN Settle(i, "done") /\ SeenAfter(i, "done")
                 ELSE Settle(i, "failed") /\ SeenAfter(i, "failed")
  /\ UNCHANGED <<page, permission, browserSub, endpoints, dismissedAt, day, meddled, ghosts>>

\* DELETE /api/v1/push/subscriptions, for the endpoint read before it was given up.
DeleteSubscription(i, answered) ==
  /\ At(i, "unregister", "delete")
  /\ rows' = rows \ {calls[i].endpoint}
  /\ IF answered THEN Settle(i, "done") /\ SeenAfter(i, "done")
                 ELSE Settle(i, "failed") /\ SeenAfter(i, "failed")
  /\ UNCHANGED <<page, permission, browserSub, endpoints, dismissedAt, day, meddled, ghosts>>

-----------------------------------------------------------------------------
(* What else happens                                                       *)

\* doRevokeDevice, once it was confirmed, here and on the devices page: any row,
\* from any browser.
doRevokeDevice(e) ==
  /\ e \in rows
  /\ rows' = rows \ {e}
  /\ meddled' = TRUE
  /\ UNCHANGED <<page, permission, browserSub, endpoints, calls, card, dismissedAt, day, seen, last,
                 ghosts>>

\* The user blocks notifications in the browser, which drops its subscription
\* (external).
Block ==
  /\ permission = "granted"
  /\ permission' = "denied"
  /\ browserSub' = 0
  /\ meddled' = TRUE
  /\ undeleted' = TRUE
  /\ UNCHANGED <<page, endpoints, rows, calls, card, dismissedAt, day, seen, last, overlapped>>

NextDay ==
  /\ day < MaxDays
  /\ control \in Cards
  /\ day' = day + 1
  /\ UNCHANGED <<page, permission, browserSub, endpoints, rows, calls, card, dismissedAt, seen, last,
                 overlapped, meddled, undeleted>>

Next ==
  \/ showPushPermissionPopup \/ showPopup \/ PushPermissionPopup
  \/ SdkConfirm \/ ScriptConfirm \/ ReactConfirm
  \/ dismiss \/ handleDismiss \/ remove
  \/ autoInit \/ ScriptUnsubscribe \/ AppCalls
  \/ PushPermissionButton \/ usePushSubscription
  \/ ToggleClick \/ handleEnable \/ handleDisable \/ Remount
  \/ \E i \in 1..MaxCalls :
       \/ \E answer \in {"default", "granted", "denied"} : ToggleAsks(i, answer)
       \/ \E answer \in {"default", "granted", "denied"} : requestNotificationPermission(i, answer)
       \/ registerPushServiceWorker(i) \/ LinkFails(i) \/ subscribeToPush(i)
       \/ LookUpSubscription(i) \/ unsubscribeFromPush(i)
       \/ \E answered \in BOOLEAN : PostSubscription(i, answered)
       \/ \E answered \in BOOLEAN : DeleteSubscription(i, answered)
  \/ \E e \in 1..MaxEndpoints : doRevokeDevice(e)
  \/ Block
  \/ NextDay

Spec == Init /\ [][Next]_vars

-----------------------------------------------------------------------------
(* Properties                                                              *)

\* When calls came one at a time and the last of them reported that the browser
\* is registered, it is: the server has a row for the very subscription the
\* browser holds, whatever earlier calls left half done.
RegisteredIsReachable ==
  Idle /\ ~overlapped /\ ~meddled /\ last # 0
       /\ calls[last].op = "register" /\ calls[last].at = "done" /\ vapidKey
    => browserSub # 0 /\ browserSub \in rows

\* The server keeps no row for an endpoint that is dead, unless it refused to
\* delete it or the user blocked notifications behind the page's back.
NoDeadRows ==
  Idle /\ ~overlapped /\ ~undeleted => rows \subseteq {browserSub}

\* An on/off control that is off can be turned on, unless the browser refuses.
\* The code breaks it (README, Findings).
OffCanBeTurnedOn ==
  control \in {"toggle", "portal"} /\ vapidKey /\ Idle /\ permission # "denied" /\ browserSub = 0
    => seen # "granted"
=============================================================================
