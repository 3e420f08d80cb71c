------------------------------ MODULE AppFrame ------------------------------
(***************************************************************************)
(* What surrounds the pages of the tenant portal: the sidebar and the       *)
(* drawer it becomes on a small screen, focus mode, the theme, and the      *)
(* stores that keep its state.  Two tabs share localStorage: each reads it  *)
(* when it loads and writes a whole store whenever it changes one.          *)
(***************************************************************************)
EXTENDS Naturals, FiniteSets

CONSTANTS
  Windows,       \* the tabs
  Small,         \* those whose window is too small for the sidebar
  Step,          \* the steps of the setup guide
  MaxClicks      \* bound: what users do

VARIABLES
  storage,       \* localStorage
  frames,        \* the tabs
  osDark,        \* prefers-color-scheme
  stepsDone,     \* the steps of the setup guide that the workspace has behind it
  clicks

vars == <<storage, frames, osDark, stepsDone, clicks>>

Ui          == [sidebarOpen |-> TRUE, pageSize |-> 10]
Preferences == [theme |-> "system", language |-> "en"]
Stored      == [ui |-> Ui, prefs |-> Preferences, dismissed |-> FALSE]

\* PreferencesProvider's effect, with the colour scheme of the moment.
HtmlClass(theme) == IF theme # "system" THEN theme ELSE IF osDark THEN "dark" ELSE "light"

\* isDark, as DevToolbar computes it when it renders.
IsDark(theme) == HtmlClass(theme) = "dark"

\* A store that persists all of itself.
FaultyRehydrated(f) == f.focusMode

\* partialize leaves focus mode out.
Rehydrated(f) == FALSE

\* A tab as it loads.  guide: the steps SetupGuideCard has loaded as done, or "none".
Loaded(path, focusMode) ==
  [path |-> path, focusMode |-> focusMode, mobileNavOpen |-> FALSE,
   ui |-> storage.ui, prefs |-> storage.prefs, dismissed |-> storage.dismissed,
   htmlClass |-> HtmlClass(storage.prefs.theme), lang |-> storage.prefs.language,
   isDark |-> IsDark(storage.prefs.theme), guide |-> {"none"}]

Init ==
  /\ storage = Stored /\ osDark = FALSE /\ stepsDone = {} /\ clicks = 0
  /\ frames = [t \in Windows |-> Loaded("overview", FALSE)]

Click == clicks < MaxClicks /\ clicks' = clicks + 1

\* What the browser and other pages do is not counted.
Set(t, f) == frames' = [frames EXCEPT ![t] = f]

InApp(t)   == frames[t].path \in {"overview", "settings"}
iconOnly(t) == ~frames[t].ui.sidebarOpen /\ ~frames[t].mobileNavOpen

\* The links of the sidebar can be reached: the rail is there, or the drawer, or the
\* button of MobileHeader that opens it.
NavReachable(t) ==
  /\ InApp(t)
  /\ IF t \in Small THEN frames[t].mobileNavOpen \/ ~frames[t].focusMode ELSE ~frames[t].focusMode

-----------------------------------------------------------------------------
(* Moving about                                                             *)

\* Another route: AppLayout stays between its pages, SetupGuideCard does not.
At(f, path) ==
  [f EXCEPT !.path = path, !.guide = {"none"},
            !.mobileNavOpen = IF path \in {"overview", "settings"} THEN @ ELSE FALSE]

\* onOpenMenu of MobileHeader.
OpenMenu(t) ==
  /\ Click /\ t \in Small /\ NavReachable(t) /\ ~frames[t].mobileNavOpen
  /\ Set(t, [frames[t] EXCEPT !.mobileNavOpen = TRUE])
  /\ UNCHANGED <<storage, osDark, stepsDone>>

\* onMobileClose: the backdrop, or the cross.
CloseMenu(t) ==
  /\ Click /\ frames[t].mobileNavOpen
  /\ Set(t, [frames[t] EXCEPT !.mobileNavOpen = FALSE])
  /\ UNCHANGED <<storage, osDark, stepsDone>>

\* A NavItem; its onClick closes the drawer.
Navigate(t, path) ==
  /\ Click /\ NavReachable(t) /\ (t \in Small => frames[t].mobileNavOpen)
  /\ Set(t, At([frames[t] EXCEPT !.mobileNavOpen = FALSE], path))
  /\ UNCHANGED <<storage, osDark, stepsDone>>

\* The link in the header of DocsLayout.
BackToApp(t) ==
  /\ Click /\ frames[t].path = "docs"
  /\ Set(t, At(frames[t], "overview"))
  /\ UNCHANGED <<storage, osDark, stepsDone>>

\* The browser's own buttons go from any page to any other, past the links.
History(t, path) ==
  /\ Click /\ frames[t].path # "login"
  /\ Set(t, At(frames[t], path))
  /\ UNCHANGED <<storage, osDark, stepsDone>>

\* The logout button; ProtectedRoute sends the tab to the login page, and back after.
Logout(t) ==
  /\ Click /\ NavReachable(t) /\ (t \in Small => frames[t].mobileNavOpen)
  /\ Set(t, At(frames[t], "login"))
  /\ UNCHANGED <<storage, osDark, stepsDone>>

Login(t) ==
  /\ frames[t].path = "login"
  /\ Set(t, At(frames[t], "overview"))
  /\ UNCHANGED <<storage, osDark, stepsDone, clicks>>

\* The tab reloads: the stores are read again.
Reload(t) ==
  /\ Click
  /\ Set(t, Loaded(frames[t].path, Rehydrated(frames[t])))
  /\ UNCHANGED <<storage, osDark, stepsDone>>

-----------------------------------------------------------------------------
(* What the stores keep                                                     *)

SetUi(t, ui) ==
  /\ Set(t, [frames[t] EXCEPT !.ui = ui])
  /\ storage' = [storage EXCEPT !.ui = ui]
  /\ UNCHANGED <<osDark, stepsDone>>

toggleSidebar(t) ==
  /\ Click /\ t \notin Small /\ NavReachable(t)
  /\ SetUi(t, [frames[t].ui EXCEPT !.sidebarOpen = ~@])

\* Settings, Preferences: rows per page.
setPageSize(t) ==
  /\ Click /\ frames[t].path = "settings"
  /\ SetUi(t, [frames[t].ui EXCEPT !.pageSize = 60 - @])

\* The only thing that flips it is on the overview page; it is in memory only.
toggleFocusMode(t) ==
  /\ Click /\ frames[t].path = "overview" /\ ~frames[t].mobileNavOpen
  /\ Set(t, [frames[t] EXCEPT !.focusMode = ~@, !.guide = {"none"}])
  /\ UNCHANGED <<storage, osDark, stepsDone>>

SetPreferences(t, prefs) ==
  /\ Set(t, [frames[t] EXCEPT !.prefs = prefs, !.lang = prefs.language,
                              !.htmlClass = IF prefs.theme # frames[t].prefs.theme THEN HtmlClass(prefs.theme) ELSE @,
                              !.isDark = IsDark(prefs.theme)])
  /\ storage' = [storage EXCEPT !.prefs = prefs]
  /\ UNCHANGED <<osDark, stepsDone>>

\* The theme button of DevToolbar.
ToggleTheme(t) ==
  /\ Click /\ InApp(t)
  /\ SetPreferences(t, [frames[t].prefs EXCEPT !.theme = IF frames[t].isDark THEN "light" ELSE "dark"])

setLanguage(t) ==
  /\ Click /\ frames[t].path = "settings"
  /\ SetPreferences(t, [frames[t].prefs EXCEPT !.language = IF @ = "en" THEN "fr" ELSE "en"])

\* DevToolbar renders again, for whatever reason.
Renders(t) ==
  /\ InApp(t) /\ frames[t].isDark # IsDark(frames[t].prefs.theme)
  /\ Set(t, [frames[t] EXCEPT !.isDark = IsDark(frames[t].prefs.theme)])
  /\ UNCHANGED <<storage, osDark, stepsDone, clicks>>

\* The desktop turns dark, or light (external); nobody listens.
ColorSchemeChanges ==
  /\ Click /\ osDark' = ~osDark
  /\ UNCHANGED <<storage, frames, stepsDone>>

-----------------------------------------------------------------------------
(* SetupGuideCard                                                           *)

\* Its three calls have settled; a call that fails counts as a step to do.
GuideLoads(t, failed) ==
  /\ frames[t].path = "overview" /\ ~frames[t].focusMode /\ frames[t].guide = {"none"}
  /\ Set(t, [frames[t] EXCEPT !.guide = stepsDone \ failed])
  /\ UNCHANGED <<storage, osDark, stepsDone, clicks>>

GuideShown(t) ==
  frames[t].path = "overview" /\ ~frames[t].dismissed /\ frames[t].guide \notin {{"none"}, Step}

dismissSetupGuide(t) ==
  /\ Click /\ GuideShown(t)
  /\ Set(t, [frames[t] EXCEPT !.dismissed = TRUE])
  /\ storage' = [storage EXCEPT !.dismissed = TRUE]
  /\ UNCHANGED <<osDark, stepsDone>>

\* A link of the card, for a step that is to do.
FollowStep(t) ==
  /\ Click /\ GuideShown(t)
  /\ Set(t, At(frames[t], "settings"))
  /\ UNCHANGED <<storage, osDark, stepsDone>>

\* Somebody takes a step on another page (external).
StepTaken(s) ==
  /\ Click /\ s \notin stepsDone
  /\ stepsDone' = stepsDone \cup {s}
  /\ UNCHANGED <<storage, frames, osDark>>

Next ==
  \/ ColorSchemeChanges
  \/ \E s \in Step : StepTaken(s)
  \/ \E t \in Windows :
       \/ OpenMenu(t) \/ CloseMenu(t) \/ BackToApp(t) \/ Logout(t) \/ Login(t) \/ Reload(t)
       \/ \E path \in {"overview", "settings", "docs"} : Navigate(t, path) \/ History(t, path)
       \/ toggleSidebar(t) \/ setPageSize(t) \/ toggleFocusMode(t)
       \/ ToggleTheme(t) \/ setLanguage(t) \/ Renders(t)
       \/ dismissSetupGuide(t) \/ FollowStep(t)
       \/ \E failed \in SUBSET Step : GuideLoads(t, failed)

Spec == Init /\ [][Next]_vars

-----------------------------------------------------------------------------
(* Properties                                                               *)

\* A reload brings the navigation back (ui.store.ts: "coming back to a reload with the
\* whole nav chrome silently gone would be confusing"), and a guide that was dismissed
\* in the tab stays away, whatever the tabs did to the stores they share.
ReloadBringsChromeBackStep ==
  \A t \in Windows : Reload(t) =>
     /\ InApp(t) => NavReachable(t)'
     /\ frames[t].dismissed => frames'[t].dismissed

\* ReloadBringsChromeBackStep of every step.
ReloadBringsChromeBack == [][ReloadBringsChromeBackStep]_vars

\* Focus mode is for the metrics: elsewhere the navigation can be reached.
\* The code breaks it (README, Findings).
ChromeOffOverview == \A t \in Windows : frames[t].path = "settings" => NavReachable(t)

\* The size of a page, chosen in settings, is remembered (ui.store.ts: "all editable in
\* Settings -> Preferences and remembered across reloads"): only settings changes it.
\* The code breaks it (README, Findings).
PageSizeIsRemembered ==
  [][storage'.ui.pageSize # storage.ui.pageSize => \E t \in Windows : setPageSize(t)]_vars

\* The theme button changes the theme one sees.
\* The code breaks it (README, Findings).
ToggleIsSeen ==
  [][\A t \in Windows : ToggleTheme(t) => frames'[t].htmlClass # frames[t].htmlClass]_vars
=============================================================================
