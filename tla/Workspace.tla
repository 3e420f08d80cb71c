------------------------------ MODULE Workspace ------------------------------
(***************************************************************************)
(* Signing in to the tenant portal and what one does with the workspace     *)
(* itself there: mint a client token, generate the push widget that holds   *)
(* it, see and rotate the secret key, edit the profile, change the password.*)
(*                                                                         *)
(* Each of these awaits an answer.  The page that asked may be gone by then *)
(* (what it sets is lost), and somebody else may be signed in; but the      *)
(* session and the minted token live in stores, and are set all the same.   *)
(* The dialog that confirms a rotation is mounted above the router, and     *)
(* outlives the page and the session it was opened in.                      *)
(*                                                                         *)
(* Minting asks for two things at once.  Each of the two requests takes the *)
(* session of the moment in which it leaves, a microtask after the click,   *)
(* and each is answered, or not, on its own.                                *)
(***************************************************************************)
EXTENDS Naturals, FiniteSets

CONSTANTS
  FilledFor,     \* FilledFor[f]: the tenant form f is filled in for
  FirstSecret,   \* FirstSecret[a]: which secret key of a is active at first, 0 for none
  MaxCalls,      \* bound: what is under way at once
  MaxSecrets     \* bound: secret keys a tenant is given

VARIABLES
  signedIn,      \* the tenant of portalAuth.store, 0 for none
  screen,        \* the form or page that is mounted
  calls,         \* requests that are not settled
  mints,         \* mints in progress: is the card mounted, and the two requests
  secret,        \* secret[a]: which secret key of a is active, 0 for none yet
  minted,        \* mintedToken.store, kept in localStorage: whose token, filed under which tenant
  busy,          \* isSubmitting, isRotating, saving of the mounted page
  keysTab,       \* the secret shown by the mounted KeysTab
  bench,         \* the secret shown by the workbench panel, or that it is closed
  tenantCard,    \* the tenant shown by the mounted PublicKeyCard or EmbedPage, 0 for none
  nameField,     \* the name field of the mounted ProfileTab and what it was loaded with
  confirming     \* the dialog that confirms a rotation is open

vars == <<signedIn, screen, calls, mints, secret, minted, busy, keysTab, bench, tenantCard,
          nameField, confirming>>

Forms   == {"login", "signup", "register"}
Pages   == {"overview", "embed", "profile", "security", "keys"}
NoToken == [token |-> 0, tenant |-> 0]
Legs    == {"token", "tenant"}
Blank(s) == [state |-> s, key |-> 0]
Shown(k) == [state |-> "shown", key |-> k]

mounted == <<busy, keysTab, tenantCard, nameField>>

-----------------------------------------------------------------------------
(* Requests                                                                 *)

\* The interceptor adds the token of the session there is when a request leaves.
\* "page": the component it comes from is still mounted.
Call(kind, arg) ==
  [kind |-> kind, by |-> signedIn, arg |-> arg, page |-> TRUE, answer |-> "none", value |-> 0]

Sent(kinds) == {Call(k, 0) : k \in kinds}

\* What the effects of a page ask for when it is mounted.  "other" is every request
\* whose answer is only put on the page: the VAPID key, the logo, the counts.
Loads(s) ==
  CASE s \in {"overview", "embed"} -> {"tenantId", "other"}
    [] s = "keys"     -> {"keys", "other"}
    [] s = "profile"  -> {"profile"}
    [] OTHER          -> {}

Saves == {"saveName", "website", "logo"}

\* A request whose component is gone: its answer matters only if it is a denial,
\* so the requests that change nothing are no longer told apart.
Orphan(c) ==
  IF c.kind \in Saves \cup {"tenantId", "keys", "profile", "bench", "password", "check"}
  THEN [c EXCEPT !.page = FALSE, !.kind = "other", !.arg = 0, !.value = 0]
  ELSE [c EXCEPT !.page = FALSE, !.value = 0]

\* The workbench and the toolbar belong to the layout, which stays.
Left(cs) == {IF c.kind \in {"bench", "check"} THEN c ELSE Orphan(c) : c \in cs}

\* A mint goes on without its card.
Unmounted(ms) == {[page |-> FALSE, leg |-> m.leg] : m \in ms}

\* One of the two requests of a mint: it waits for its interceptor, is "sent" by
\* somebody, has an answer on the way ("ok", "failed", "denied"), or has "arrived".
Queued == [state |-> "queued", by |-> 0]

\* m, its request "leg" being in state st now, and of session a.
With(m, leg, st, a) ==
  [page |-> m.page,
   leg  |-> [l \in Legs |-> IF l = leg THEN [state |-> st, by |-> a] ELSE m.leg[l]]]

\* As though getKeysAction were called when mintTokenAction has answered.
FaultyDeparting == {m \in mints : m.leg["token"].state = "queued"}

\* The second of two interceptors is still to run.  They are microtasks of one click:
\* the browser does nothing else before.
Departing == {m \in mints : m.leg["tenant"].state = "queued"}

Init ==
  /\ signedIn = 0 /\ screen = "login" /\ calls = {} /\ mints = {}
  /\ secret = FirstSecret
  /\ minted = NoToken /\ busy = {}
  /\ keysTab = Blank("loading") /\ bench = Blank("closed") /\ tenantCard = 0
  /\ nameField = [typed |-> FALSE, loaded |-> FALSE]
  /\ confirming = FALSE

\* s is mounted, a being signed in; the protected routes need a session, and a
\* signed-out browser has no layout, so no workbench either.
Mount(s, a, cs, ms) ==
  /\ screen' = s
  /\ calls' = Left(cs) \cup {[Call(k, 0) EXCEPT !.by = a] : k \in Loads(s)}
  /\ mints' = Unmounted(ms)
  /\ busy' = {} /\ keysTab' = Blank("loading") /\ tenantCard' = 0
  /\ nameField' = [typed |-> FALSE, loaded |-> FALSE]

logoutWith(cs, ms) ==
  /\ signedIn' = 0
  /\ Mount("login", 0, {Orphan(c) : c \in cs}, ms)
  /\ bench' = Blank("closed")

\* Requests, the two of a mint as one, the workbench and the dialog that confirms.
UnderWay ==
  Cardinality(calls) + Cardinality(mints)
    + (IF bench = Blank("closed") THEN 0 ELSE 1) + (IF confirming THEN 1 ELSE 0)

Room(n) == UnderWay + n <= MaxCalls

Visit(s) ==
  /\ (s \in Pages) = (signedIn # 0)
  /\ Room(Cardinality(Loads(s)))
  /\ Mount(s, signedIn, calls, mints)
  /\ UNCHANGED <<signedIn, secret, minted, bench, confirming>>

SignOut ==
  /\ signedIn # 0
  /\ logoutWith(calls, mints)
  /\ UNCHANGED <<secret, minted, confirming>>

-----------------------------------------------------------------------------
(* The forms and buttons                                                    *)

Ask(kind, arg) ==
  /\ Room(1) /\ kind \notin busy
  /\ calls' = calls \cup {Call(kind, arg)}
  /\ busy' = busy \cup {kind}
  /\ UNCHANGED <<signedIn, screen, mints, secret, minted, keysTab, bench, tenantCard,
                 nameField, confirming>>

\* handleSubmit of the three forms; signing up makes a tenant of its own.
LoginForm    == screen = "login" /\ Ask("login", FilledFor["login"])
SignupForm   == screen = "signup" /\ Ask("signup", FilledFor["signup"])
RegisterForm == screen = "register" /\ Ask("register", FilledFor["register"])

\* Promise.all of mintTokenAction and getKeysAction: both are called, neither has left.
mint ==
  /\ screen \in {"overview", "embed"} /\ Room(1) /\ "mint" \notin busy
  /\ mints' = mints \cup {[page |-> TRUE, leg |-> [l \in Legs |-> Queued]]}
  /\ busy' = busy \cup {"mint"}
  /\ UNCHANGED <<signedIn, screen, calls, secret, minted, keysTab, bench, tenantCard,
                 nameField, confirming>>

\* The interceptors run in the order of the calls, each with the session there is then.
MintLeaves(m, leg) ==
  /\ m.leg[leg].state = "queued"
  /\ leg = "tenant" => m.leg["token"].state # "queued"
  /\ mints' = (mints \ {m}) \cup {With(m, leg, "sent", signedIn)}
  /\ UNCHANGED <<signedIn, screen, calls, secret, minted, mounted, bench, confirming>>

handleChangePassword == screen = "security" /\ Ask("password", 0)

TypeName ==
  /\ screen = "profile"
  /\ nameField' = [nameField EXCEPT !.typed = ~@]
  /\ UNCHANGED <<signedIn, screen, calls, mints, secret, minted, busy, keysTab, bench, tenantCard, confirming>>

\* The button needs a name that differs from the one that was loaded.
handleSaveName ==
  /\ screen = "profile" /\ nameField.typed # nameField.loaded
  /\ Ask("saveName", IF nameField.typed THEN 1 ELSE 0)

\* The answers to these two bring the profile along.
handleSaveWebsite == screen = "profile" /\ Ask("website", 0)
handleFileChange  == screen = "profile" /\ Ask("logo", 0)

\* The same for the icon of the push widget.
handleLogoChange == screen = "embed" /\ Ask("logo", 0)

\* The toolbar's button, disabled while its request is out.
checkConnection ==
  /\ signedIn # 0 /\ Room(1) /\ \A c \in calls : c.kind # "check"
  /\ calls' = calls \cup Sent({"check"})
  /\ UNCHANGED <<signedIn, screen, mints, secret, minted, mounted, bench, confirming>>

OpenWorkbench ==
  /\ signedIn # 0 /\ bench = Blank("closed") /\ Room(2)
  /\ bench' = Blank("loading")
  /\ calls' = calls \cup Sent({"bench"})
  /\ UNCHANGED <<signedIn, screen, mints, secret, minted, mounted, confirming>>

CloseWorkbench ==
  /\ bench # Blank("closed")
  /\ bench' = Blank("closed")
  /\ calls' = {IF c.kind = "bench" THEN Orphan(c) ELSE c : c \in calls}
  /\ UNCHANGED <<signedIn, screen, mints, secret, minted, mounted, confirming>>

\* The dialog that confirms; without a key pair the button rotates at once.
confirmRotate ==
  /\ screen = "keys" /\ keysTab # Blank("notFound") /\ "rotate" \notin busy
  /\ confirming \/ Room(1)
  /\ confirming' = TRUE
  /\ UNCHANGED <<signedIn, screen, calls, mints, secret, minted, mounted, bench>>

closeDialog ==
  /\ confirming' = FALSE
  /\ UNCHANGED <<signedIn, screen, calls, mints, secret, minted, mounted, bench>>

doRotate ==
  /\ \/ confirming
     \/ screen = "keys" /\ keysTab = Blank("notFound") /\ "rotate" \notin busy /\ Room(1)
  /\ confirming' = FALSE
  /\ calls' = calls \cup {[Call("rotate", 0) EXCEPT !.page = (screen = "keys")]}
  /\ busy' = IF screen = "keys" THEN busy \cup {"rotate"} ELSE busy
  /\ UNCHANGED <<signedIn, screen, mints, secret, minted, keysTab, bench, tenantCard,
                 nameField>>

-----------------------------------------------------------------------------
(* The server (external) and the answers                                    *)

SignIn == {"login", "signup", "register"}

\* A request is denied for want of a session, for a password that is wrong, or when
\* its session was ended; otherwise it is carried out or fails.  The name of a
\* workspace may be edited from other browsers at any time.
Serve(c) ==
  /\ c.answer = "none"
  /\ \E r \in {"ok", "failed", "denied", "missing"} :
       /\ c.by = 0 /\ c.kind \notin SignIn => r \in {"denied", "failed"}
       /\ r = "missing" => c.page /\ c.kind = "keys" /\ secret[c.by] = 0
       /\ r = "ok" /\ c.kind \in {"keys", "bench"} => secret[c.by] # 0
       /\ r = "ok" /\ c.kind = "rotate" => secret[c.by] < MaxSecrets
       /\ secret' = IF r = "ok" /\ c.kind = "rotate" THEN [secret EXCEPT ![c.by] = @ + 1] ELSE secret
       /\ \E v \in IF r # "ok" THEN {0}
                 ELSE IF c.page /\ c.kind \in {"profile", "website", "logo"} THEN {0, 1}
                 ELSE IF c.kind = "saveName" THEN {c.arg}
                 ELSE IF c.kind \in {"keys", "bench", "rotate"} THEN {secret'[c.by]} ELSE {0} :
            calls' = (calls \ {c}) \cup {IF c.page THEN [c EXCEPT !.answer = r, !.value = v]
                                             ELSE [c EXCEPT !.answer = r]}
  /\ UNCHANGED <<signedIn, screen, mints, minted, mounted, bench, confirming>>

\* setSession and navigate, whether or not the form is still there.
SignInSettles(c) ==
  /\ c.answer = "ok" /\ c.kind \in SignIn
  /\ signedIn' = c.arg
  /\ Mount("overview", c.arg, calls \ {c}, mints)
  /\ UNCHANGED <<secret, minted, bench, confirming>>

\* The tenant id is the one of the key pair, which there may not be.
ServeMint(m, leg) ==
  /\ m.leg[leg].state = "sent"
  /\ \E r \in {"ok", "failed", "denied"} :
       /\ r = "ok" => m.leg[leg].by # 0 /\ (leg = "tenant" => secret[m.leg[leg].by] # 0)
       /\ mints' = (mints \ {m}) \cup {With(m, leg, r, m.leg[leg].by)}
  /\ UNCHANGED <<signedIn, screen, calls, secret, minted, mounted, bench, confirming>>

MintSettled(m) == busy' = IF m.page THEN busy \ {"mint"} ELSE busy

Other(leg) == IF leg = "token" THEN "tenant" ELSE "token"

\* The first of the two answers only arrives; with the second come setCredentials and
\* the finally.
MintArrives(m, leg) ==
  /\ m.leg[leg].state = "ok"
  /\ IF m.leg[Other(leg)].state = "arrived"
     THEN /\ mints' = mints \ {m}
          /\ minted' = [token |-> m.leg["token"].by, tenant |-> m.leg["tenant"].by]
          /\ MintSettled(m)
     ELSE /\ mints' = (mints \ {m}) \cup {With(m, leg, "arrived", m.leg[leg].by)}
          /\ UNCHANGED <<minted, busy>>
  /\ UNCHANGED <<signedIn, screen, calls, secret, keysTab, bench, tenantCard, nameField,
                 confirming>>

\* What is left of a mint that was rejected: a request whose answer nobody awaits.
Remains(m, leg) ==
  LET rest == m.leg[Other(leg)]
  IN  IF rest.state = "arrived" THEN {}
      ELSE {[kind |-> "other", by |-> rest.by, arg |-> 0, page |-> FALSE, value |-> 0,
             answer |-> IF rest.state = "sent" THEN "none" ELSE rest.state]}

\* Promise.all rejects with the first answer that is no success: the catch and the finally.
MintFails(m, leg) ==
  /\ m.leg[leg].state = "failed"
  /\ mints' = mints \ {m}
  /\ calls' = calls \cup Remains(m, leg)
  /\ MintSettled(m)
  /\ UNCHANGED <<signedIn, screen, secret, minted, keysTab, bench, tenantCard, nameField,
                 confirming>>

\* ... and before it, after a denial, the interceptor signs out whoever is signed in.
MintDenied(m, leg) ==
  /\ m.leg[leg].state = "denied"
  /\ logoutWith(calls \cup Remains(m, leg), mints \ {m})
  /\ UNCHANGED <<secret, minted, confirming>>

\* The interceptor signs out whoever is signed in by now, then the caller's catch.
DeniedSettles(c) ==
  /\ c.answer = "denied"
  /\ logoutWith(calls \ {c}, mints)
  /\ UNCHANGED <<secret, minted, confirming>>

\* The other answers concern the component that asked, if it is there.
PageSettles(c) ==
  /\ c.answer \in {"ok", "failed", "missing"}
  /\ c.answer = "ok" => c.kind \notin SignIn
  /\ calls' = calls \ {c}
  /\ LET for(kinds) == c.page /\ c.kind \in kinds
         ok         == c.answer = "ok"
     IN  /\ busy' = IF c.page THEN busy \ {c.kind} ELSE busy
         /\ keysTab' = IF for({"keys", "rotate"}) /\ ok THEN Shown(c.value)
                       ELSE IF for({"keys"}) /\ c.answer = "missing" THEN Blank("notFound") ELSE keysTab
         /\ bench' = IF for({"bench"}) THEN (IF ok THEN Shown(c.value) ELSE Blank("none")) ELSE bench
         /\ tenantCard' = IF for({"tenantId"}) THEN (IF ok THEN c.by ELSE 0) ELSE tenantCard
         /\ nameField' = IF for({"profile"}) /\ ok THEN [typed |-> (c.value = 1), loaded |-> (c.value = 1)]
                         ELSE IF for(Saves) /\ screen = "profile" /\ ok THEN [nameField EXCEPT !.loaded = (c.value = 1)]
                         ELSE nameField
  /\ UNCHANGED <<signedIn, screen, mints, secret, minted, confirming>>

\* isCredentialsExpired: from then on the pages below take the store for empty (the
\* assistant, in PortalViews, says that the token has expired).
TokenExpires ==
  /\ minted # NoToken
  /\ minted' = NoToken
  /\ UNCHANGED <<signedIn, screen, calls, mints, secret, mounted, bench, confirming>>

\* The code the embed page generates: for which tenant, with whose token.
Snippet == [tenant |-> tenantCard, token |-> minted.token]

\* What the tasks of the browser, and the world, do.
Tasks ==
  \/ \E s \in Forms \cup Pages : Visit(s)
  \/ SignOut \/ mint \/ handleChangePassword \/ TypeName \/ handleSaveName
  \/ handleSaveWebsite \/ handleFileChange \/ handleLogoChange \/ checkConnection \/ TokenExpires
  \/ OpenWorkbench \/ CloseWorkbench \/ confirmRotate \/ closeDialog \/ doRotate
  \/ LoginForm \/ SignupForm \/ RegisterForm
  \/ \E c \in calls : Serve(c) \/ SignInSettles(c) \/ DeniedSettles(c) \/ PageSettles(c)
  \/ \E m \in mints, leg \in Legs :
       ServeMint(m, leg) \/ MintArrives(m, leg) \/ MintFails(m, leg) \/ MintDenied(m, leg)

Next ==
  \/ \E m \in mints, leg \in Legs : MintLeaves(m, leg)
  \/ Departing = {} /\ Tasks

Spec == Init /\ [][Next]_vars

-----------------------------------------------------------------------------
(* Properties                                                               *)

\* The credentials file names the tenant its token is of, whoever has signed in and out
\* between the click, the two answers and the moment they are filed, and whichever of
\* the two requests took which session along (MintTokenCard.tsx:58-70, http.ts:19-24).
TokenBelongsToItsTenant == minted.token = minted.tenant

\* The embed page is "pre-filled with this tenant's real credentials (VAPID public key,
\* tenant ID, and the most recently minted token" (EmbedPage.tsx:6-8).
\* The code breaks it (README, Findings).
SnippetIsOfOneTenant ==
  screen = "embed" /\ 0 \notin {Snippet.tenant, Snippet.token} => Snippet.tenant = Snippet.token

\* "The secret key currently active for this workspace" (WorkbenchPanel.tsx:83).
\* The code breaks it (README, Findings).
BenchShowsActiveSecret == bench.state = "shown" => bench.key = secret[signedIn]
=============================================================================
