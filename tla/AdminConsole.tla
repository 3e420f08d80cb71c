---------------------------- MODULE AdminConsole ----------------------------
(***************************************************************************)
(* The operator's console: one connection to the Admin API of an engine     *)
(* instance, the dashboard and the sandbox, which poll it, and the tenants  *)
(* page with its dialogs.  Requests outlive the page, the dialog and the    *)
(* connection they were made from.  Dialogs are mounted above the router;   *)
(* a dialog covers the page, so at most one form is open, with the secrets  *)
(* that were revealed meanwhile on top of it.                               *)
(***************************************************************************)
EXTENDS Naturals, Sequences, FiniteSets

CONSTANTS
  Instance,      \* engine instances, numbered from 1
  AdminTenant,   \* tenants, numbered from 1
  MaxRequests,   \* bound: requests that are not settled
  MaxReveals     \* bound: secrets revealed at once

VARIABLES
  apiUrl,        \* adminAuth.store: the instance, 0 for none
  page,          \* the route that is shown
  from,          \* location.state.from of the login page
  tracked,       \* tracked[t]: "no", or what tenants.store has for its limits
  form,          \* the form dialog that is open
  reveals,       \* the RevealSecretDialogs on top of it, oldest first
  requests,      \* requests that are not settled
  tenantId,      \* the tenant selected on the sandbox page, 0 for none
  shown          \* the metrics or sessions on the page: of which tenant, from which instance

vars == <<apiUrl, page, from, tracked, form, reveals, requests, tenantId, shown>>

Guarded  == {"dashboard", "tenants", "sandbox", "settings"}
NoForm   == [kind |-> "none", tenant |-> 0, busy |-> FALSE]
Nothing  == [of |-> 0, at |-> 0]
NoDialog == form = NoForm /\ reveals = <<>>

-----------------------------------------------------------------------------
(* Pages                                                                    *)

\* The interceptor adds the connection there is when the request leaves.
\* "live": the effect or the dialog it came from has not been cleaned up.
Request(kind, t, i) == [kind |-> kind, tenant |-> t, at |-> i, live |-> TRUE]

Cleaned(rs, kinds) == {IF r.kind \in kinds THEN [r EXCEPT !.live = FALSE] ELSE r : r \in rs}

First == IF \E t \in AdminTenant : tracked[t] # "no"
         THEN CHOOSE t \in AdminTenant : tracked[t] # "no" ELSE 0

\* Page p is mounted: the last page's effect is cleaned up, and this one's polls.
Mount(p, i, rs) ==
  /\ page' = p /\ shown' = Nothing
  /\ tenantId' = IF p = "sandbox" THEN First ELSE 0
  /\ LET gone == Cleaned(rs, {"metrics", "sessions"})
     IN  requests' = CASE p = "dashboard" -> gone \cup {Request("metrics", 0, i)}
                       [] p = "sandbox" /\ First # 0 -> gone \cup {Request("sessions", First, i)}
                       [] OTHER -> gone

Room == Cardinality(requests) < MaxRequests

Init ==
  /\ apiUrl = 0 /\ page = "login" /\ from = "dashboard"
  /\ tracked = [t \in AdminTenant |-> "no"]
  /\ form = NoForm /\ reveals = <<>> /\ requests = {} /\ tenantId = 0 /\ shown = Nothing

\* handleSubmit of the login form: nothing is verified.
LoginForm(i) ==
  /\ page = "login" /\ NoDialog /\ Room
  /\ apiUrl' = i
  /\ Mount(from, i, requests)
  /\ UNCHANGED <<from, tracked, form, reveals>>

\* handleSave of the settings page: another instance, on the same page.
handleSave(i) ==
  /\ page = "settings" /\ NoDialog
  /\ apiUrl' = i
  /\ UNCHANGED <<page, from, tracked, form, reveals, requests, tenantId, shown>>

\* The sidebar and the top bar's settings button.
NavItem(p) ==
  /\ apiUrl # 0 /\ page # p /\ NoDialog /\ Room
  /\ Mount(p, apiUrl, requests)
  /\ UNCHANGED <<apiUrl, from, tracked, form, reveals>>

\* A match of the top bar's search leads to the tenants page.
SearchMatch == (\E t \in AdminTenant : tracked[t] # "no") /\ NavItem("tenants")

\* logout: ProtectedRoute redirects and remembers where from.
logout(rs, f) ==
  /\ apiUrl' = 0 /\ from' = f
  /\ Mount("login", 0, rs)

ProtectedRoute == IF page = "login" THEN from ELSE page

Disconnect ==
  /\ apiUrl # 0 /\ NoDialog
  /\ logout(requests, ProtectedRoute)
  /\ UNCHANGED <<tracked, form, reveals>>

\* handleIdle navigates by itself, and remembers nothing.
useIdleLogout ==
  /\ apiUrl # 0
  /\ logout(requests, "dashboard")
  /\ UNCHANGED <<tracked, form, reveals>>

-----------------------------------------------------------------------------
(* The polls of the dashboard and of the sandbox                            *)

Poll ==
  /\ Room
  /\ \/ page = "dashboard" /\ requests' = requests \cup {Request("metrics", 0, apiUrl)}
     \/ page = "sandbox" /\ tenantId # 0
        /\ requests' = requests \cup {Request("sessions", tenantId, apiUrl)}
  /\ UNCHANGED <<apiUrl, page, from, tracked, form, reveals, tenantId, shown>>

\* setTenantId: the effect is cleaned up and runs again.
SelectTenant(t) ==
  /\ page = "sandbox" /\ NoDialog /\ tracked[t] # "no" /\ t # tenantId /\ Room
  /\ tenantId' = t /\ shown' = Nothing
  /\ requests' = Cleaned(requests, {"sessions"}) \cup {Request("sessions", t, apiUrl)}
  /\ UNCHANGED <<apiUrl, page, from, tracked, form, reveals>>

FaultyPollSettles(r, ok) ==
  /\ r.kind \in {"metrics", "sessions"}
  /\ requests' = requests \ {r}
  /\ shown' = IF ok /\ page \in {"dashboard", "sandbox"} THEN [of |-> r.tenant, at |-> r.at] ELSE shown
  /\ UNCHANGED <<apiUrl, page, from, tracked, form, reveals, tenantId>>

\* Cancelled polls are dropped; a failed one clears the dashboard, not the sessions.
PollSettles(r, ok) ==
  /\ r.kind \in {"metrics", "sessions"}
  /\ requests' = requests \ {r}
  /\ shown' = IF ~r.live THEN shown
              ELSE IF ok THEN [of |-> r.tenant, at |-> r.at]
              ELSE IF r.kind = "metrics" THEN Nothing ELSE shown
  /\ UNCHANGED <<apiUrl, page, from, tracked, form, reveals, tenantId>>

-----------------------------------------------------------------------------
(* Tenants and dialogs                                                      *)

\* openDialog, from the buttons and the row menu of the tenants page.
OpenForm(kind, t) ==
  /\ page = "tenants" /\ NoDialog
  /\ form' = [kind |-> kind, tenant |-> t, busy |-> FALSE]
  /\ UNCHANGED <<apiUrl, page, from, tracked, reveals, requests, tenantId, shown>>

RowAction(kind, t) == tracked[t] # "no" /\ OpenForm(kind, t)

\* Asked for from the row menu at once, without a dialog.
handleRotate(t) ==
  /\ page = "tenants" /\ NoDialog /\ tracked[t] # "no" /\ Room
  /\ requests' = requests \cup {Request("rotate", t, apiUrl)}
  /\ UNCHANGED <<apiUrl, page, from, tracked, form, reveals, tenantId, shown>>

FormKinds == {"create", "limits", "revoke"}

\* closeAll; what the form still awaits goes on without it.
closeAll == form' = NoForm /\ reveals' = <<>>

\* Escape or the cross: the dialog on top.
handleKeydown ==
  /\ ~NoDialog
  /\ IF reveals # <<>>
     THEN reveals' = SubSeq(reveals, 1, Len(reveals) - 1) /\ UNCHANGED <<form, requests>>
     ELSE form' = NoForm /\ requests' = Cleaned(requests, FormKinds) /\ UNCHANGED reveals
  /\ UNCHANGED <<apiUrl, page, from, tracked, tenantId, shown>>

Cancel ==
  /\ form # NoForm /\ reveals = <<>>
  /\ closeAll
  /\ requests' = Cleaned(requests, FormKinds)
  /\ UNCHANGED <<apiUrl, page, from, tracked, tenantId, shown>>

\* handleSubmit of the create and limits forms, and the confirmation of a revocation.
\* The form may be submitted after its session has ended.
Submit ==
  /\ form.kind \in FormKinds /\ reveals = <<>> /\ ~form.busy /\ Room
  /\ form' = [form EXCEPT !.busy = TRUE]
  /\ \E t \in IF form.kind = "create" THEN AdminTenant ELSE {form.tenant} :
       requests' = requests \cup {Request(form.kind, t, apiUrl)}
  /\ UNCHANGED <<apiUrl, page, from, tracked, reveals, tenantId, shown>>

add(t) == tracked' = [tracked EXCEPT ![t] = IF @ = "no" THEN "default" ELSE @]

\* The one form that asks nobody.
TrackTenantDialog(t) ==
  /\ form.kind = "track" /\ reveals = <<>>
  /\ add(t)
  /\ closeAll
  /\ UNCHANGED <<apiUrl, page, from, requests, tenantId, shown>>

openReveal(t, rs) ==
  /\ Len(rs) < MaxReveals
  /\ reveals' = Append(rs, [tenant |-> t, token |-> FALSE])

\* RevealSecretDialog can mint a token while the secret is there.
mint ==
  /\ reveals # <<>>
  /\ reveals' = [reveals EXCEPT ![Len(reveals)].token = TRUE]
  /\ UNCHANGED <<apiUrl, page, from, tracked, form, requests, tenantId, shown>>

RotateSettles(r) ==
  /\ r.kind = "rotate"
  /\ openReveal(r.tenant, reveals)
  /\ requests' = requests \ {r}
  /\ UNCHANGED <<apiUrl, page, from, tracked, form, tenantId, shown>>

CreateSettles(r) ==
  /\ r.kind = "create"
  /\ add(r.tenant)
  /\ form' = NoForm
  /\ openReveal(r.tenant, <<>>)
  /\ requests' = Cleaned(requests \ {r}, FormKinds)
  /\ UNCHANGED <<apiUrl, page, from, tenantId, shown>>

LimitsSettles(r) ==
  /\ r.kind = "limits"
  /\ tracked' = [tracked EXCEPT ![r.tenant] = IF @ = "no" THEN "no" ELSE "set"]
  /\ closeAll
  /\ requests' = Cleaned(requests \ {r}, FormKinds)
  /\ UNCHANGED <<apiUrl, page, from, tenantId, shown>>

RevokeSettles(r) ==
  /\ r.kind = "revoke"
  /\ tracked' = [tracked EXCEPT ![r.tenant] = "no"]
  /\ closeAll
  /\ requests' = Cleaned(requests \ {r}, FormKinds)
  /\ UNCHANGED <<apiUrl, page, from, tenantId, shown>>

\* The caller's catch and finally.
NotBusy(r) == IF r.live /\ r.kind \in FormKinds THEN [form EXCEPT !.busy = FALSE] ELSE form

Fails(r) ==
  /\ r.kind \in FormKinds \cup {"rotate"}
  /\ form' = NotBusy(r)
  /\ requests' = requests \ {r}
  /\ UNCHANGED <<apiUrl, page, from, tracked, reveals, tenantId, shown>>

\* 401 from an admin route: whoever is connected by now is logged out.
Denied(r) ==
  /\ r.kind # "metrics"
  /\ form' = NotBusy(r)
  /\ logout(requests \ {r}, ProtectedRoute)
  /\ UNCHANGED <<tracked, reveals>>

Next ==
  \/ \E i \in Instance : LoginForm(i) \/ handleSave(i)
  \/ \E p \in Guarded : NavItem(p)
  \/ SearchMatch \/ Disconnect \/ useIdleLogout \/ Poll
  \/ handleKeydown \/ Cancel \/ Submit \/ mint
  \/ OpenForm("create", 0) \/ OpenForm("track", 0)
  \/ \E t \in AdminTenant :
       SelectTenant(t) \/ RowAction("limits", t) \/ RowAction("revoke", t)
       \/ handleRotate(t) \/ TrackTenantDialog(t)
  \/ \E r \in requests :
       \/ PollSettles(r, TRUE) \/ PollSettles(r, FALSE)
       \/ r.at # 0 /\ (RotateSettles(r) \/ CreateSettles(r) \/ LimitsSettles(r) \/ RevokeSettles(r))
       \/ Fails(r) \/ Denied(r)

Spec == Init /\ [][Next]_vars

-----------------------------------------------------------------------------
(* Properties                                                               *)

\* What the dashboard and the sandbox show is of the selected tenant and from the
\* instance the console is connected to, although polls overlap and answers come
\* after the tenant, the page or the connection has changed (SandboxPage.tsx:37,
\* DashboardPage.tsx:57).
ShownIsOfThisPage == shown # Nothing => shown = [of |-> tenantId, at |-> apiUrl]

\* "The stored bearer token is the only credential this app holds; there's nothing
\* else to clear on idle" (useIdleLogout.ts:4-6).
\* The code breaks it (README, Findings).
IdleLeavesNoSecret == page = "login" => reveals = <<>>

\* A revealed secret goes when the operator closes it: "the raw secret is never shown
\* again after this dialog closes" (RevealSecretDialog.tsx:52).
\* The code breaks it (README, Findings).
RevealStaysUntilClosed ==
  [][reveals # <<>> => \/ Len(reveals') >= Len(reveals) \/ handleKeydown]_vars
=============================================================================
