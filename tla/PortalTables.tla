---------------------------- MODULE PortalTables ----------------------------
(***************************************************************************)
(* The resource pages of the tenant portal (templates, API keys, devices,  *)
(* channels): a table over a list the server keeps, the dialogs that       *)
(* change that list, and the session all of it runs in.  How a table       *)
(* searches, sorts and pages is module DataTable's.                        *)
(*                                                                         *)
(* JavaScript runs one callback at a time; a step is an act of the user,   *)
(* the server's handling of one request, or the callbacks of its answer.   *)
(* A page that is left is unmounted: what its callbacks write then is lost.*)
(* DialogProvider sits above the router, so a dialog outlives the page that *)
(* opened it.                                                              *)
(***************************************************************************)
EXTENDS Naturals, FiniteSets

CONSTANTS
  Tenants,     \* tenants that sign in on this browser, numbers from 1
  Row,         \* ids of the rows of the server's list, numbers from 1
  Owned,       \* Owned[r]: the tenant that owns r at first, 0 for an id not yet given
  MaxInFlight  \* bound: requests on their way at once

VARIABLES
  resource,   \* which of the four pages the user works on
  owner,      \* owner[r]: the tenant that owns row r on the server
  gone,       \* rows that were deleted or revoked on the server
  session,    \* the tenant that is signed in, or 0
  page,       \* "login", "overview" or "table"
  table,      \* the data, isLoading and error of the table that is mounted
  dialog,     \* the dialog that is open, or NoDialog
  requests,   \* requests that are not yet settled
  removed     \* rows whose removal this instance of the page was told of

pageVars == <<page, table, removed>>
vars == <<resource, owner, gone, session, pageVars, dialog, requests>>

Resources == {"templates", "keys", "devices", "channels"}
NoDialog  == [kind |-> "none", row |-> 0, mounted |-> FALSE, busy |-> FALSE]

\* A table that has just been mounted.
Fresh == [data |-> {}, loading |-> TRUE, error |-> FALSE]

-----------------------------------------------------------------------------
(* Requests                                                                *)

\* The interceptor adds the token of the session there is when it is sent.
\* "mounted": the page it comes from still is; "dialog": so is its dialog.
Request(kind, row, mounted, fromDialog) ==
  [kind |-> kind, session |-> session, row |-> row, rows |-> {}, mounted |-> mounted,
   cancelled |-> FALSE, dialog |-> fromDialog, answer |-> "none"]

Cancel(cs)  == {[c EXCEPT !.cancelled = (c.kind = "load")] : c \in cs}
Unmount(cs) == {[c EXCEPT !.mounted = FALSE] : c \in Cancel(cs)}
Detach(cs)  == {[c EXCEPT !.dialog = FALSE] : c \in cs}

\* The load effect of DataTable, on mount and on every refreshKey: it cancels the
\* load before it.  cs is what is on its way otherwise.
Reload(t, cs) ==
  /\ Cardinality(cs) < MaxInFlight
  /\ table' = [t EXCEPT !.loading = TRUE, !.error = FALSE]
  /\ requests' = Cancel(cs) \cup {Request("load", 0, TRUE, FALSE)}

\* setRefreshKey of a page instance: nothing happens once it is unmounted.
Refresh(mounted, cs) ==
  IF mounted THEN Reload(table, cs) ELSE requests' = cs /\ UNCHANGED table

-----------------------------------------------------------------------------
(* The session and the router                                              *)

Init ==
  /\ resource \in Resources
  /\ owner = Owned /\ gone = {}
  /\ session = 0 /\ page = "login" /\ table = Fresh /\ removed = {}
  /\ dialog = NoDialog /\ requests = {}

\* setSession, and the form moves on to the overview.
SignIn(t) ==
  /\ page = "login"
  /\ session' = t /\ page' = "overview"
  /\ UNCHANGED <<resource, owner, gone, table, removed, dialog, requests>>

\* The page and its dialogs' way back to it are gone.
LeaveTo(p, cs, d) ==
  /\ page' = p /\ table' = Fresh /\ removed' = {}
  /\ requests' = Unmount(cs)
  /\ dialog' = [d EXCEPT !.mounted = FALSE]

\* The guard looks at the session when the page is opened, and not again.
FaultyProtectedRoute(cs, d) ==
  UNCHANGED pageVars /\ requests' = cs /\ dialog' = d

\* ProtectedRoute: without a session every page gives way to the login form.
ProtectedRoute(cs, d) == LeaveTo("login", cs, d)

\* logout of the session store, from the menu.
SignOut ==
  /\ session # 0
  /\ session' = 0
  /\ ProtectedRoute(requests, dialog)
  /\ UNCHANGED <<resource, owner, gone>>

\* The page is opened: its table mounts and loads.
OpenPage ==
  /\ page = "overview"
  /\ page' = "table"
  /\ Reload(Fresh, requests)
  /\ UNCHANGED <<resource, owner, gone, session, removed, dialog>>

LeavePage ==
  /\ page = "table"
  /\ LeaveTo("overview", requests, dialog)
  /\ UNCHANGED <<resource, owner, gone, session>>

\* ChannelsPage reloads every 5 s, whether or not the last load has ended.
PollChannels ==
  /\ resource = "channels" /\ page = "table"
  /\ Reload(table, requests)
  /\ UNCHANGED <<resource, owner, gone, session, page, removed, dialog>>

-----------------------------------------------------------------------------
(* Dialogs                                                                 *)

\* openDialog of the provider; an open dialog covers the page.
OpenDialog(kind, row) ==
  /\ page = "table" /\ dialog = NoDialog
  /\ dialog' = [kind |-> kind, row |-> row, mounted |-> TRUE, busy |-> FALSE]
  /\ UNCHANGED <<resource, owner, gone, session, pageVars, requests>>

\* A row offers its actions once it is loaded; a revoked key offers none.
RowAction(r) == ~table.loading /\ <<r, "active">> \in table.data

\* "New template", and "edit" for a row.
OpenTemplateForm(row) ==
  /\ resource = "templates"
  /\ row # 0 => RowAction(row)
  /\ OpenDialog("form", row)

OpenGenerateDialog == resource = "keys" /\ OpenDialog("generate", 0)

\* Delete, revoke: a row action of every table but the channels'.
ConfirmRemove(row) == resource # "channels" /\ RowAction(row) /\ OpenDialog("confirm", row)

\* The cross, the overlay, a Cancel button, whether or not the dialog's request
\* is on its way: with one dialog closeDialog and closeAll come to the same.
CloseDialog ==
  /\ dialog # NoDialog
  /\ dialog' = NoDialog
  /\ requests' = Detach(requests)
  /\ UNCHANGED <<resource, owner, gone, session, pageVars>>

\* The dialog's button: a request, and the button is off until it settles.
Submit(kind, call) ==
  /\ dialog.kind = kind /\ ~dialog.busy
  /\ session # 0 /\ Cardinality(requests) < MaxInFlight
  /\ dialog' = [dialog EXCEPT !.busy = TRUE]
  /\ requests' = requests \cup {Request(call, dialog.row, dialog.mounted, TRUE)}
  /\ UNCHANGED <<resource, owner, gone, session, pageVars>>

SubmitTemplate == Submit("form", "save")
SubmitGenerate == Submit("generate", "generate")
SubmitRemove   == Submit("confirm", "remove")

\* "Done" under a new key: closeAll, and the page reloads.
GeneratedKeyDone ==
  /\ dialog.kind = "reveal"
  /\ dialog' = NoDialog
  /\ Refresh(dialog.mounted, Detach(requests))
  /\ UNCHANGED <<resource, owner, gone, session, page, removed>>

\* handleSendTest of the devices page, off while a test of that row is on.
SendTest(r) ==
  /\ resource = "devices" /\ page = "table" /\ dialog = NoDialog /\ RowAction(r)
  /\ ~ \E c \in requests : c.kind = "test" /\ c.row = r /\ c.mounted
  /\ Cardinality(requests) < MaxInFlight
  /\ requests' = requests \cup {Request("test", r, TRUE, FALSE)}
  /\ UNCHANGED <<resource, owner, gone, session, pageVars, dialog>>

-----------------------------------------------------------------------------
(* The server                                                              *)

Answer(c, new) == requests' = (requests \ {c}) \cup {new}

\* What the list of tenant a holds: rows that were deleted are not in it, but every key
\* pair a ever generated is, the revoked ones as such (list_for_tenant).
Listed(a) ==
  LET own == {r \in Row : owner[r] = a}
  IN  {<<r, "active">> : r \in own \ gone}
        \cup (IF resource = "keys" THEN {<<r, "revoked">> : r \in own \cap gone} ELSE {})

\* A list is read, or a test or an edit carried out.
ServeRead(c) ==
  /\ c.answer = "none"
  /\ c.kind \in {"load", "test"} \/ (c.kind = "save" /\ c.row # 0)
  /\ Answer(c, [c EXCEPT !.answer = "ok",
                         !.rows = IF c.kind = "load" THEN Listed(c.session) ELSE {}])
  /\ UNCHANGED <<resource, owner, gone, session, pageVars, dialog>>

\* A row is created or removed; the answer may still be lost on the way.
ServeWrite(c) ==
  /\ c.answer = "none"
  /\ \E answer \in {"ok", "failed"} :
       \/ /\ c.kind = "generate" \/ (c.kind = "save" /\ c.row = 0)
          /\ \E r \in Row :
               /\ owner[r] = 0
               /\ owner' = [owner EXCEPT ![r] = c.session]
               /\ Answer(c, [c EXCEPT !.answer = answer, !.row = r])
          /\ UNCHANGED gone
       \/ /\ c.kind = "remove"
          /\ gone' = gone \cup {c.row}
          /\ Answer(c, [c EXCEPT !.answer = answer])
          /\ UNCHANGED owner
  /\ UNCHANGED <<resource, session, pageVars, dialog>>

\* It is refused (401), or fails without effect: an error, or the 15 s timeout.
Refuse(c) ==
  /\ c.answer = "none"
  /\ \E answer \in {"failed", "denied"} : Answer(c, [c EXCEPT !.answer = answer])
  /\ UNCHANGED <<resource, owner, gone, session, pageVars, dialog>>

-----------------------------------------------------------------------------
(* Answers                                                                 *)

\* finally: the button of the request's dialog works again.
Idle(c) == IF c.dialog THEN [dialog EXCEPT !.busy = FALSE] ELSE dialog

Settled(c, kind) == c.kind = kind /\ c.answer \in {"ok", "failed"}

\* Nobody asks whether a later load has cancelled this one.
FaultyLoadSettles(c) ==
  /\ Settled(c, "load")
  /\ requests' = requests \ {c}
  /\ table' = IF ~c.mounted THEN table
              ELSE [data |-> IF c.answer = "ok" THEN c.rows ELSE table.data,
                    error |-> (c.answer = "failed"), loading |-> FALSE]
  /\ UNCHANGED <<resource, owner, gone, session, page, removed, dialog>>

\* The load's callbacks; each asks whether the load was cancelled.
LoadSettles(c) ==
  /\ Settled(c, "load")
  /\ requests' = requests \ {c}
  /\ table' = IF c.cancelled THEN table
              ELSE [data |-> IF c.answer = "ok" THEN c.rows ELSE table.data,
                    error |-> (c.answer = "failed"), loading |-> FALSE]
  /\ UNCHANGED <<resource, owner, gone, session, page, removed, dialog>>

\* TemplateForm: closeAll and a reload, or the form stays.
SaveSettles(c) ==
  /\ Settled(c, "save")
  /\ IF c.answer = "ok"
       THEN dialog' = NoDialog /\ Refresh(c.mounted, Detach(requests \ {c}))
       ELSE dialog' = Idle(c) /\ requests' = requests \ {c} /\ UNCHANGED table
  /\ UNCHANGED <<resource, owner, gone, session, page, removed>>

\* GenerateKeyForm: the new pair replaces the form, if the dialog is still open.
GenerateSettles(c) ==
  /\ Settled(c, "generate")
  /\ dialog' = IF c.dialog /\ c.answer = "ok" THEN [Idle(c) EXCEPT !.kind = "reveal", !.row = c.row]
                                              ELSE Idle(c)
  /\ requests' = requests \ {c}
  /\ UNCHANGED <<resource, owner, gone, session, pageVars>>

\* ConfirmDialog over confirmRevoke and confirmDelete: onConfirm handles its own
\* errors, so closeAll follows in either case, whatever is open by then.
RemoveSettles(c) ==
  /\ Settled(c, "remove")
  /\ dialog' = NoDialog
  /\ IF c.answer = "ok"
       THEN /\ Refresh(c.mounted, Detach(requests \ {c}))
            /\ removed' = IF c.mounted THEN removed \cup {c.row} ELSE removed
       ELSE requests' = Detach(requests \ {c}) /\ UNCHANGED <<table, removed>>
  /\ UNCHANGED <<resource, owner, gone, session, page>>

TestSettles(c) ==
  /\ Settled(c, "test")
  /\ requests' = requests \ {c}
  /\ UNCHANGED <<resource, owner, gone, session, pageVars, dialog>>

\* A 401 ends the session there is by now; then the caller handles an error.
DeniedSettles(c) ==
  LET left == IF c.kind = "remove" THEN Detach(requests \ {c}) ELSE requests \ {c}
      d    == IF c.kind = "remove" THEN NoDialog ELSE Idle(c)
  IN
  /\ c.answer = "denied"
  /\ session' = 0
  /\ IF session # 0 THEN ProtectedRoute(left, d)
                    ELSE requests' = left /\ dialog' = d /\ UNCHANGED pageVars
  /\ UNCHANGED <<resource, owner, gone>>

Next ==
  \/ \E t \in Tenants : SignIn(t)
  \/ SignOut \/ OpenPage \/ LeavePage \/ PollChannels
  \/ \E r \in Row \cup {0} : OpenTemplateForm(r)
  \/ \E r \in Row : ConfirmRemove(r) \/ SendTest(r)
  \/ OpenGenerateDialog \/ CloseDialog
  \/ SubmitTemplate \/ SubmitGenerate \/ SubmitRemove \/ GeneratedKeyDone
  \/ \E c \in requests : ServeRead(c) \/ ServeWrite(c) \/ Refuse(c)
  \/ \E c \in requests :
       \/ LoadSettles(c) \/ SaveSettles(c) \/ GenerateSettles(c)
       \/ RemoveSettles(c) \/ TestSettles(c) \/ DeniedSettles(c)

Spec == Init /\ [][Next]_vars

-----------------------------------------------------------------------------
(* Properties                                                              *)

\* A table that is not loading and reports no error never offers a row again whose
\* removal the page was told of, whatever loads, removals and answers cross on the way;
\* a key stays there as a revoked one ("revoked pairs stay visible (not silently
\* deleted)", ApiKeyRepository.rs:73-74), and no other row does.
Reflects(rows) ==
  \A r \in removed : <<r, "active">> \notin rows
                      /\ (<<r, "revoked">> \in rows <=> resource = "keys")

RemovedStaysRemoved == page = "table" /\ ~table.loading /\ ~table.error => Reflects(table.data)

\* The rows on the screen, those a row action or an export would use, belong to
\* the tenant that is signed in: no answer to an earlier session gets there.
OwnRowsOnly == \A d \in table.data : session # 0 /\ owner[d[1]] = session

\* The warning under a new key pair says that the secret is shown only once: it
\* stays on the screen until the user closes it.
\* The code breaks it (README, Findings).
SecretStaysUntilClosed ==
  [][dialog.kind = "reveal" /\ dialog'.kind # "reveal" => CloseDialog \/ GeneratedKeyDone]_vars
=============================================================================
