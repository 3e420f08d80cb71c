------------------------------ MODULE Consoles ------------------------------
(***************************************************************************)
(* The tenant portal and the admin application, the parts of them that     *)
(* share no state, each for itself, and the store of keys on the server    *)
(* that both write to.  Which one runs is chosen at the start, and they    *)
(* share the variables s1 ... without ever meeting.  The polled views of   *)
(* the portal have a run of their own, see PortalViews.                    *)
(***************************************************************************)
EXTENDS Naturals

CONSTANTS  \* of PortalTables
  Tenants, Row, Owned, MaxInFlight
CONSTANTS  \* of DataTable
  Id, Column, Rank, Query, Matches
CONSTANTS  \* of Broadcasting
  Channel, Device, Patterns, Template, Limit, MaxSize, MaxSends
CONSTANTS  \* of Workspace
  FilledFor, FirstSecret, MaxCalls, MaxSecrets
CONSTANTS  \* of PortalBell
  MaxNotices, ListLimit, MaxRefreshes
CONSTANTS  \* of AdminConsole
  Instance, AdminTenant, MaxRequests, MaxReveals
CONSTANTS  \* of SandboxSession
  MaxJoins, MaxPublished
CONSTANTS  \* of AppFrame
  Windows, Small, Step, MaxClicks
CONSTANTS  \* of KeyStore
  Key, MaxGenerated, MaxOps, MaxTokens

\* 0 stands for nobody; the limits are numbers.
ASSUME ConsolesAssumption ==
  /\ 0 \notin Tenants
  /\ Owned \in [Row -> Tenants \cup {0}]
  /\ {Limit, MaxSize, ListLimit} \subseteq Nat

VARIABLES
  program,       \* which of the programs runs
  s1, s2, s3, s4, s5, s6, s7, s8, s9, s10, s11, s12, s13

vars == <<program, s1, s2, s3, s4, s5, s6, s7, s8, s9, s10, s11, s12, s13>>

\* What a program with n variables leaves alone.
After12 == <<s13>>
After11 == <<s12, After12>>
After10 == <<s11, After11>>
After9 == <<s10, After10>>
After8 == <<s9, After9>>
After7 == <<s8, After8>>
After6 == <<s7, After7>>
After5 == <<s6, After6>>

\* ... and that these are not used.
Zero12 == s13 = 0
Zero11 == s12 = 0 /\ Zero12
Zero10 == s11 = 0 /\ Zero11
Zero9 == s10 = 0 /\ Zero10
Zero8 == s9 = 0 /\ Zero9
Zero7 == s8 = 0 /\ Zero8
Zero6 == s7 = 0 /\ Zero7
Zero5 == s6 = 0 /\ Zero6

-----------------------------------------------------------------------------
(* The programs                                                            *)

\* The resource pages of the portal and the session they are shown in.
Resources == INSTANCE PortalTables WITH
  resource <- s1, owner <- s2, gone <- s3, session <- s4, page <- s5, table <- s6,
  dialog <- s7, requests <- s8, removed <- s9

\* DataTable of the tenant portal.
PortalTable == INSTANCE DataTable WITH
  pageSize <- 1, data <- s1, isLoading <- s2, error <- s3, search <- s4,
  filterValue <- s5, sortKey <- s6, sortDir <- s7, pageNo <- s8, selectedIds <- s9,
  exported <- s10

\* The admin application's DataTable, with pages of another size.
AdminTable == INSTANCE DataTable WITH
  pageSize <- 2, data <- s1, isLoading <- s2, error <- s3, search <- s4,
  filterValue <- s5, sortKey <- s6, sortDir <- s7, pageNo <- s8, selectedIds <- s9,
  exported <- s10

\* The broadcasting page of the portal.
Composer == INSTANCE Broadcasting WITH
  channelId <- s1, payload <- s2, isSending <- s3, sends <- s4, templates <- s5,
  devices <- s6, lastReach <- s7, sentHistory <- s8, historyChannel <- s9,
  popover <- s10, attached <- s11, form <- s12

\* Sign-in, keys, tokens and profile of the portal.
Portal == INSTANCE Workspace WITH
  signedIn <- s1, screen <- s2, calls <- s3, secret <- s4, minted <- s5, busy <- s6,
  keysTab <- s7, bench <- s8, tenantCard <- s9, nameField <- s10, confirming <- s11, mints <- s12

\* The portal's notification bell.
Bell == INSTANCE PortalBell WITH
  noticeCount <- s1, readOnServer <- s2, items <- s3, itemsRead <- s4,
  unreadCount <- s5, bellCalls <- s6, between <- s7

\* The admin console.
Admin == INSTANCE AdminConsole WITH
  apiUrl <- s1, page <- s2, from <- s3, tracked <- s4, form <- s5, reveals <- s6,
  requests <- s7, tenantId <- s8, shown <- s9

\* The admin console's sandbox tab.
Sandbox == INSTANCE SandboxSession WITH
  mounted <- s1, params <- s2, apiUrl <- s3, joins <- s4, clientRef <- s5,
  sockets <- s6, agentStatus <- s7, published <- s8, heard <- s9, bubbles <- s10

\* The assistant blob that floats over the portal's pages.
Assistant == INSTANCE AssistantWidget WITH
  storageKey <- s1, storedDocked <- s2, panelOpen <- s3, docked <- s4, taskDraft <- s5,
  tasks <- s6, eyesFollow <- s7, frameRef <- s8

\* The frame around the portal's pages.
Chrome == INSTANCE AppFrame WITH
  storage <- s1, frames <- s2, osDark <- s3, stepsDone <- s4, clicks <- s5

\* The keys of a tenant, in the server's memory and in its tables.
Keys == INSTANCE KeyStore WITH
  MaxSecrets <- MaxGenerated, server <- s1, primary <- s2, extra <- s3, stored <- s4,
  rows <- s5, ops <- s6, issued <- s7, tokens <- s8, account <- s9,
  secretApart <- s10, keysForgotten <- s11, overtaken <- s12, demo <- s13

Init ==
  \/ program = "resources" /\ Resources!Init /\ Zero9
  \/ program = "portal-table" /\ PortalTable!Init /\ Zero10
  \/ program = "admin-table" /\ AdminTable!Init /\ Zero10
  \/ program = "composer" /\ Composer!Init /\ Zero12
  \/ program = "workspace" /\ Portal!Init /\ Zero12
  \/ program = "bell" /\ Bell!Init /\ Zero7
  \/ program = "admin" /\ Admin!Init /\ Zero9
  \/ program = "sandbox" /\ Sandbox!Init /\ Zero10
  \/ program = "assistant" /\ Assistant!Init /\ Zero8
  \/ program = "frame" /\ Chrome!Init /\ Zero5
  \/ program = "keys" /\ Keys!Init

Next ==
  \/ program = "resources" /\ Resources!Next /\ UNCHANGED <<program, After9>>
  \/ program = "portal-table" /\ PortalTable!Next /\ UNCHANGED <<program, After10>>
  \/ program = "admin-table" /\ AdminTable!Next /\ UNCHANGED <<program, After10>>
  \/ program = "composer" /\ Composer!Next /\ UNCHANGED <<program, After12>>
  \/ program = "workspace" /\ Portal!Next /\ UNCHANGED <<program, After12>>
  \/ program = "bell" /\ Bell!Next /\ UNCHANGED <<program, After7>>
  \/ program = "admin" /\ Admin!Next /\ UNCHANGED <<program, After9>>
  \/ program = "sandbox" /\ Sandbox!Next /\ UNCHANGED <<program, After10>>
  \/ program = "assistant" /\ Assistant!Next /\ UNCHANGED <<program, After8>>
  \/ program = "frame" /\ Chrome!Next /\ UNCHANGED <<program, After5>>
  \/ program = "keys" /\ Keys!Next /\ UNCHANGED program

Spec == Init /\ [][Next]_vars

-----------------------------------------------------------------------------
(* Properties, each of the programs that its module is about               *)

\* The rows on the screen belong to the tenant that is signed in: no answer to an
\* earlier session gets there (http.ts, ProtectedRoute.tsx).
OwnRowsOnly == program = "resources" => Resources!OwnRowsOnly

\* A row whose removal the page was told of does not come back, however loads,
\* removals and answers cross (DataTable.tsx and the pages' remove handlers).
RemovedStaysRemoved == program = "resources" => Resources!RemovedStaysRemoved

\* No typing, picking, sorting or paging leads to a page past the end of a table.
OnlyALoadEmptiesThePage ==
  [][/\ program = "portal-table" => PortalTable!OnlyALoadEmptiesThePageStep
     /\ program = "admin-table" => AdminTable!OnlyALoadEmptiesThePageStep]_vars

\* No broadcast is longer than a frame, and the line that says how many devices one
\* reached counts the devices of the channel it names (BroadcastingPage.tsx).
BroadcastIsHonest ==
  program = "composer" => Composer!FitsTheFrame /\ Composer!ReachIsOfItsChannel

\* The credentials file names the tenant its token is of, however sessions change around
\* the two requests of a mint (MintTokenCard.tsx).
TokenBelongsToItsTenant == program = "workspace" => Portal!TokenBelongsToItsTenant

\* Badge and list differ by no more than what happened between the two statements they
\* were read in (NotificationBell.tsx, ListNotificationsUseCase.rs).
BadgeCoversItems == program = "bell" => Bell!BadgeCoversItems

\* Metrics and sessions on a page are of the tenant selected there and from the
\* instance the console is connected to (SandboxPage.tsx, DashboardPage.tsx); the
\* sandbox tab is on its channel as one agent, and as none once it is left
\* (SandboxSessionPage.tsx).
AdminKeepsToItsPage ==
  /\ program = "admin" => Admin!ShownIsOfThisPage
  /\ program = "sandbox" => Sandbox!OneAgent

\* Memory and tables agree about a tenant's keys once the portal is served and no request
\* is between the two, but for what is recorded (the use cases of keys, main.rs).
MemoryFollowsRows == program = "keys" => Keys!MemoryFollowsRows

\* A reload gives back what it should: the navigation, a guide that stays dismissed
\* (ui.store.ts), and a blob that is still aside (AiAssistantBlob.tsx).
ReloadRestores ==
  [][/\ program = "frame" => Chrome!ReloadBringsChromeBackStep
     /\ program = "assistant" => Assistant!DockingIsKeptStep]_vars
=============================================================================
