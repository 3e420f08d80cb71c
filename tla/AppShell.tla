------------------------------ MODULE AppShell ------------------------------
(***************************************************************************)
(* The service worker of the web client and of the portal, with the code    *)
(* that registers it: a worker that is installed waits until somebody       *)
(* clicks "Update" in some tab, then claims every tab, and every tab        *)
(* reloads.  The browser's part (when a worker is looked for, what waits,   *)
(* what controls a page) is external.                                       *)
(***************************************************************************)
EXTENDS Naturals

CONSTANTS
  Tab,           \* tabs of the application
  MaxVersion,    \* bound: versions that are deployed
  CacheName      \* CacheName[v]: CACHE_NAME of version v, a number

VARIABLES
  deployed,      \* the version on the server
  installing, waiting, active,   \* the workers of the registration, 0 for none
  skip,          \* the waiting worker was told to skip waiting
  caches,        \* caches[n]: the version of the shell in cache n, 0 for no such cache
  tabs,          \* the tabs
  notification   \* the notification of the last push is shown

vars == <<deployed, installing, waiting, active, skip, caches, tabs, notification>>

Version == 1..MaxVersion
Names   == {CacheName[v] : v \in Version}

\* page: the version that runs in the tab, 0 when it is closed; controller: its worker;
\* registered: register() has resolved; heard: the worker whose updatefound it was told;
\* toast: the worker promptUpdate offers.
Closed == [page |-> 0, controller |-> 0, registered |-> FALSE, heard |-> 0, toast |-> 0, reloading |-> FALSE]
Open   == {t \in Tab : tabs[t].page # 0}

Init ==
  /\ deployed = 1 /\ installing = 0 /\ waiting = 0 /\ active = 0 /\ skip = FALSE
  /\ caches = [n \in Names |-> 0]
  /\ tabs = [t \in Tab |-> Closed] /\ notification = FALSE

Deploy ==
  /\ deployed < MaxVersion
  /\ deployed' = deployed + 1
  /\ UNCHANGED <<installing, waiting, active, skip, caches, tabs, notification>>

\* caches.match: the oldest cache that has the shell.
Cached ==
  LET has == {n \in Names : caches[n] # 0}
  IN  IF has = {} THEN 0 ELSE caches[CHOOSE n \in has : \A m \in has : n <= m]

\* The fetch handler: the network, then the shell.  A page without worker has no shell.
Fetched(online) == IF online THEN deployed ELSE IF active # 0 THEN Cached ELSE 0

\* A tab is opened, or reloads; offline without a shell it shows the browser's error.
Navigate(t, online) ==
  /\ Fetched(online) # 0
  /\ tabs' = [tabs EXCEPT ![t] = [Closed EXCEPT !.page = Fetched(online), !.controller = active]]
  /\ UNCHANGED <<deployed, installing, waiting, active, skip, caches, notification>>

Close(t) ==
  /\ t \in Open
  /\ tabs' = [tabs EXCEPT ![t] = Closed]
  /\ UNCHANGED <<deployed, installing, waiting, active, skip, caches, notification>>

-----------------------------------------------------------------------------
(* Registration and update                                                  *)

\* promptUpdate, for a page that has a controller.
promptUpdate(tab, w) == IF tab.controller # 0 THEN [tab EXCEPT !.toast = w] ELSE tab

\* The load event: the waiting worker is offered; a version that is not known yet begins
\* to be installed, of which the registered pages are told.
Register(t) ==
  /\ t \in Open /\ ~tabs[t].registered
  /\ LET mine == [tabs EXCEPT ![t].registered = TRUE]
         seen == IF waiting # 0 THEN [mine EXCEPT ![t] = promptUpdate(@, waiting)] ELSE mine
         new  == installing = 0 /\ deployed \notin {active, waiting}
     IN  /\ installing' = IF new THEN deployed ELSE installing
         /\ tabs' = IF new THEN [u \in Tab |-> IF seen[u].registered THEN [seen[u] EXCEPT !.heard = deployed]
                                                                     ELSE seen[u]]
                    ELSE seen
  /\ UNCHANGED <<deployed, waiting, active, skip, caches, notification>>

\* The install event: the shell is precached; statechange tells the pages.
Installed ==
  /\ installing # 0
  /\ waiting' = installing /\ installing' = 0 /\ skip' = FALSE
  /\ caches' = [caches EXCEPT ![CacheName[installing]] = deployed]
  /\ tabs' = [t \in Tab |-> IF tabs[t].heard = installing THEN promptUpdate(tabs[t], installing) ELSE tabs[t]]
  /\ UNCHANGED <<deployed, active, notification>>

\* The precache fails: the worker is dropped.
InstallFails ==
  /\ installing # 0
  /\ installing' = 0
  /\ UNCHANGED <<deployed, waiting, active, skip, caches, tabs, notification>>

\* The toast's action; a worker that no longer waits takes no notice.
ClickUpdate(t) ==
  /\ tabs[t].toast # 0
  /\ skip' = (skip \/ tabs[t].toast = waiting)
  /\ tabs' = [tabs EXCEPT ![t].toast = 0]
  /\ UNCHANGED <<deployed, installing, waiting, active, caches, notification>>

FaultyControllerChange(tab, w) == [tab EXCEPT !.controller = w, !.reloading = (tab.heard = w)]

\* clients.claim, and the page's controllerchange listener.
controllerchange(tab, w) == [tab EXCEPT !.controller = w, !.reloading = TRUE]

FaultyKept(n, w) == n # CacheName[w]

\* The filter of the activate event.
Kept(n, w) == n = CacheName[w]

\* The waiting worker takes over: the first one at once, another when it is told to or
\* when nobody is controlled by the last.
Activate ==
  /\ waiting # 0
  /\ active = 0 \/ skip \/ \A t \in Open : tabs[t].controller = 0
  /\ active' = waiting /\ waiting' = 0 /\ skip' = FALSE
  /\ caches' = [n \in Names |-> IF Kept(n, waiting) THEN caches[n] ELSE 0]
  /\ tabs' = [t \in Tab |-> IF t \in Open THEN controllerchange(tabs[t], waiting) ELSE tabs[t]]
  /\ UNCHANGED <<deployed, installing, notification>>

-----------------------------------------------------------------------------
(* Notifications                                                            *)

\* One tag: a second notification takes the place of the first.
Push ==
  /\ active # 0
  /\ notification' = TRUE
  /\ UNCHANGED <<deployed, installing, waiting, active, skip, caches, tabs>>

\* Some window is focused, or one is opened.
notificationclick ==
  /\ notification
  /\ notification' = FALSE
  /\ IF Open # {} THEN UNCHANGED tabs
     ELSE \E t \in Tab, online \in BOOLEAN :
            /\ Fetched(online) # 0
            /\ tabs' = [tabs EXCEPT ![t] = [Closed EXCEPT !.page = Fetched(online), !.controller = active]]
  /\ UNCHANGED <<deployed, installing, waiting, active, skip, caches>>

Next ==
  \/ Deploy \/ Installed \/ InstallFails \/ Activate \/ Push \/ notificationclick
  \/ \E t \in Tab :
       Close(t) \/ Register(t) \/ ClickUpdate(t) \/ \E online \in BOOLEAN : Navigate(t, online)

Spec == Init /\ [][Next]_vars

-----------------------------------------------------------------------------
(* Properties                                                               *)

\* No tab keeps running a version that is older than its worker: "a deploy would silently
\* swap the worker under an already-open tab while that tab kept running its old,
\* already-loaded JS bundle" (sw.js:23-29), whichever tab updated, online or off.
NoTabIsLeftBehind ==
  \A t \in Open : tabs[t].reloading \/ tabs[t].page >= tabs[t].controller

\* The worker in charge has its shell: "a reload while offline doesn't hard-fail"
\* (sw.js:8-9), however many workers were installed, replaced and activated.
ShellIsCached == active # 0 => caches[CacheName[active]] >= active

\* "Reloads once, when the new worker actually takes over - triggered by
\* promptUpdate()'s postMessage, never on its own" (main.tsx:52-53).
\* The code breaks it (README, Findings).
ReloadsOnlyWhenAsked ==
  [][\A t \in Tab : ~tabs[t].reloading /\ tabs[t]'.reloading => skip]_vars
=============================================================================
