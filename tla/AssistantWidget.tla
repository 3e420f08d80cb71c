--------------------------- MODULE AssistantWidget ---------------------------
(***************************************************************************)
(* The floating assistant of sdk-react (AiAssistantBlob): a panel that      *)
(* opens and closes, a blob that may be kept aside at the edge of the       *)
(* window, and eyes that follow the pointer, at most once per frame.        *)
(***************************************************************************)
EXTENDS Naturals

VARIABLES
  storageKey,      \* the host application gives a storageKey
  storedDocked,    \* what localStorage holds under it: "none", "0" or "1"
  panelOpen,       \* open
  docked,
  taskDraft,       \* the task field is not blank
  tasks,           \* a task was handed to onTaskSubmit
  eyesFollow,      \* eyeOffset is not zero
  frameRef         \* rafRef: "null", a "pending" frame, or one that was "cancelled"

vars == <<storageKey, storedDocked, panelOpen, docked, taskDraft, tasks, eyesFollow, frameRef>>

-----------------------------------------------------------------------------
(* Keeping aside                                                            *)

readDocked == storageKey /\ storedDocked = "1"

FaultyWriteDocked(d) == IF storageKey /\ d THEN "1" ELSE storedDocked

writeDocked(d) == IF storageKey THEN (IF d THEN "1" ELSE "0") ELSE storedDocked

\* The state of a new mount; its effect writes at once what was read.
Init ==
  /\ storageKey \in BOOLEAN
  /\ storedDocked = (IF storageKey THEN "0" ELSE "none")
  /\ panelOpen = FALSE /\ docked = FALSE /\ taskDraft = FALSE /\ tasks = FALSE
  /\ eyesFollow = FALSE /\ frameRef = "null"

\* The page is loaded again.
Remount ==
  /\ docked' = readDocked
  /\ storedDocked' = writeDocked(readDocked)
  /\ panelOpen' = FALSE /\ taskDraft' = FALSE /\ eyesFollow' = FALSE /\ frameRef' = "null"
  /\ UNCHANGED <<storageKey, tasks>>

\* setDocked with the two effects that depend on it: the new state is stored, and the
\* listener goes with its frame, whose number stays in rafRef.
SetDocked(d) ==
  /\ docked' = d
  /\ storedDocked' = writeDocked(d)
  /\ frameRef' = IF frameRef = "pending" THEN "cancelled" ELSE frameRef

handleBlobClick ==
  /\ IF docked THEN SetDocked(FALSE) /\ UNCHANGED panelOpen
     ELSE panelOpen' = ~panelOpen /\ UNCHANGED <<docked, storedDocked, frameRef>>
  /\ UNCHANGED <<storageKey, taskDraft, tasks, eyesFollow>>

PanelShown == panelOpen /\ ~docked

handleKeepAside ==
  /\ PanelShown
  /\ panelOpen' = FALSE
  /\ SetDocked(TRUE)
  /\ UNCHANGED <<storageKey, taskDraft, tasks, eyesFollow>>

-----------------------------------------------------------------------------
(* The panel                                                                *)

ClosePanel ==
  /\ panelOpen' = FALSE
  /\ UNCHANGED <<storageKey, storedDocked, docked, taskDraft, tasks, eyesFollow, frameRef>>

CloseButton        == PanelShown /\ ClosePanel
handleClickOutside == PanelShown /\ ClosePanel
handleEscape       == panelOpen /\ ClosePanel

\* The host's recommendation has a link.
FollowCta == PanelShown /\ ClosePanel

TypeTask ==
  /\ PanelShown
  /\ taskDraft' = ~taskDraft
  /\ UNCHANGED <<storageKey, storedDocked, panelOpen, docked, tasks, eyesFollow, frameRef>>

handleTaskSubmit ==
  /\ PanelShown /\ taskDraft
  /\ taskDraft' = FALSE /\ tasks' = TRUE
  /\ UNCHANGED <<storageKey, storedDocked, panelOpen, docked, eyesFollow, frameRef>>

-----------------------------------------------------------------------------
(* The eyes                                                                 *)

\* Docked, nobody listens; with a frame in rafRef nothing more is asked for.
handleMouseMove ==
  /\ ~docked /\ frameRef = "null"
  /\ frameRef' = "pending"
  /\ UNCHANGED <<storageKey, storedDocked, panelOpen, docked, taskDraft, tasks, eyesFollow>>

\* The pointer may be near the blob or far from it.
Frame ==
  /\ frameRef = "pending"
  /\ frameRef' = "null"
  /\ eyesFollow' \in BOOLEAN
  /\ UNCHANGED <<storageKey, storedDocked, panelOpen, docked, taskDraft, tasks>>

Next ==
  \/ Remount \/ handleBlobClick \/ handleKeepAside
  \/ CloseButton \/ handleClickOutside \/ handleEscape \/ FollowCta
  \/ TypeTask \/ handleTaskSubmit \/ handleMouseMove \/ Frame

Spec == Init /\ [][Next]_vars

-----------------------------------------------------------------------------
(* Properties                                                               *)

\* With a storageKey, the blob that comes back after a reload is where the visitor
\* left it: "the 'keep aside' docked state persists across reloads"
\* (AiAssistantBlob.tsx:59), however often it was put aside and fetched back.
DockingIsKeptStep ==
  Remount /\ storageKey => docked' = docked

\* DockingIsKeptStep of every step.
DockingIsKept == [][DockingIsKeptStep]_vars

\* A blob that is not docked listens for the pointer or has a frame coming.
\* The code breaks it (README, Findings).
EyesAreAlive == ~docked => frameRef # "cancelled"
=============================================================================
