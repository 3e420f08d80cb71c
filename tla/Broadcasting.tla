---------------------------- MODULE Broadcasting ----------------------------
(***************************************************************************)
(* The page of the tenant portal that composes a message and publishes it:  *)
(* the composer, the templates, the reach and the history of what was sent.  *)
(*                                                                         *)
(* A broadcast is awaited while the page goes on working.  The two small    *)
(* forms of the variable popover stand inside the composer's form, and      *)
(* neither stops its submit event: it bubbles to the composer, so that      *)
(* handleSubmit runs too, on the message as it was before.                  *)
(***************************************************************************)
EXTENDS Naturals, FiniteSets, SequencesExt

CONSTANTS
  Channel,     \* channel names, sequences of letters; <<>> is an empty field
  Device,      \* connected devices
  Patterns,    \* Patterns[d]: what d is subscribed to, names with or without a trailing *
  Template,    \* bodies of the tenant's templates, messages
  Limit,       \* MAX_PAYLOAD_BYTES
  MaxSize,     \* bound: the longest message that is typed
  MaxSends     \* bound: broadcasts on their way at once

VARIABLES
  channelId, payload,     \* the composer
  isSending, sends,       \* broadcasts that are awaited
  templates, devices,     \* what the page has loaded
  lastReach,              \* the green line: a channel and a count
  sentHistory,            \* what was sent, by where to
  historyChannel,         \* the channel the history is said to be of
  popover,                \* what is open: "none", "emoji" or "variable"
  attached,               \* a file name is shown
  form                    \* the dialog that fills in a template, or NoForm

vars == <<channelId, payload, isSending, sends, templates, devices, lastReach, sentHistory,
          historyChannel, popover, attached, form>>

\* A message: its bytes, and the {{variables}} in it, a byte each.
Message == [size : 0..MaxSize, vars : 0..1]
Empty   == [size |-> 0, vars |-> 0]
NoForm  == [body |-> Empty, mounted |-> FALSE]
NoReach == [channel |-> <<>>, count |-> 0]

-----------------------------------------------------------------------------
(* What the page works out                                                  *)

\* extractTemplateVariables
HasVariables(m) == m.vars > 0

\* fillTemplateVariables, for values of n bytes in all.
Fill(m, n) == [size |-> m.size - m.vars + n, vars |-> 0]
Filled(m)  == {Fill(m, n) : n \in 0..(MaxSize - m.size + m.vars)}

overLimit == payload.size > Limit

\* A trailing star on the device's side stands for anything.
deviceReceives(d, c) ==
  \E p \in Patterns[d] : p.name = c \/ (p.star /\ IsPrefix(p.name, c))

matchingDevices == IF channelId = <<>> THEN {} ELSE {d \in devices : deviceReceives(d, channelId)}

-----------------------------------------------------------------------------
(* The page                                                                 *)

\* The page as it is mounted, with the channel of its address if it has one.
Mounted(c) ==
  /\ channelId = c /\ historyChannel = c
  /\ payload = Empty /\ isSending = FALSE /\ sends = {}
  /\ templates = {} /\ devices = {} /\ lastReach = NoReach /\ sentHistory = {}
  /\ popover = "none" /\ attached = FALSE

Init == Mounted(<<>>) /\ form = NoForm

\* The user leaves and comes back, from the sidebar's list of channels.  What was
\* on its way no longer finds the page.
Remount(c) ==
  /\ channelId' = c /\ historyChannel' = c
  /\ payload' = Empty /\ isSending' = FALSE /\ sends' = {}
  /\ templates' = {} /\ devices' = {} /\ lastReach' = NoReach /\ sentHistory' = {}
  /\ popover' = "none" /\ attached' = FALSE
  /\ form' = [form EXCEPT !.mounted = FALSE]

\* The effects that load templates and devices, each when its answer comes.
TemplatesLoaded ==
  /\ templates' = Template
  /\ UNCHANGED <<channelId, payload, isSending, sends, devices, lastReach, sentHistory,
                 historyChannel, popover, attached, form>>

DevicesLoaded ==
  /\ devices' = Device
  /\ UNCHANGED <<channelId, payload, isSending, sends, templates, lastReach, sentHistory,
                 historyChannel, popover, attached, form>>

\* The effect on channelId.
ResetHistory(c) ==
  /\ historyChannel' = c
  /\ sentHistory' = IF c # historyChannel THEN {} ELSE sentHistory

\* Another channel is typed, or picked from the suggestions.
SetChannel(c) ==
  /\ channelId' = c
  /\ ResetHistory(c)
  /\ UNCHANGED <<payload, isSending, sends, templates, devices, lastReach, popover, attached, form>>

TypePayload(m) ==
  /\ payload' = m
  /\ UNCHANGED <<channelId, isSending, sends, templates, devices, lastReach, sentHistory,
                 historyChannel, popover, attached, form>>

\* The buttons that open a popover; a click outside closes it.
OpenPopover(p) ==
  /\ popover' = p
  /\ UNCHANGED <<channelId, payload, isSending, sends, templates, devices, lastReach, sentHistory,
                 historyChannel, attached, form>>

insertEmoji ==
  /\ payload' = [payload EXCEPT !.size = @ + 1]
  /\ popover' = "none"

\* The emoji picker.
PickEmoji ==
  /\ popover = "emoji" /\ payload.size < MaxSize
  /\ insertEmoji
  /\ UNCHANGED <<channelId, isSending, sends, templates, devices, lastReach, sentHistory,
                 historyChannel, attached, form>>

\* The name of a file is shown; the file goes nowhere.
handleFileSelected ==
  /\ attached' = TRUE
  /\ UNCHANGED <<channelId, payload, isSending, sends, templates, devices, lastReach, sentHistory,
                 historyChannel, popover, form>>

RemoveAttachment ==
  /\ attached' = FALSE
  /\ UNCHANGED <<channelId, payload, isSending, sends, templates, devices, lastReach, sentHistory,
                 historyChannel, popover, form>>

-----------------------------------------------------------------------------
(* Templates                                                                *)

\* A template goes into the composer, by way of a form if it has variables.
applyTemplate(m) ==
  IF HasVariables(m) THEN form' = [body |-> m, mounted |-> TRUE] /\ UNCHANGED payload
                     ELSE payload' = m /\ UNCHANGED form

\* The cards of templates.
ClickTemplate(m) ==
  /\ m \in templates
  /\ applyTemplate(m)
  /\ UNCHANGED <<channelId, isSending, sends, templates, devices, lastReach, sentHistory,
                 historyChannel, popover, attached>>

\* TemplateVariablesForm: submit, or close.
FillTemplate ==
  /\ form # NoForm
  /\ form' = NoForm
  /\ \/ UNCHANGED payload
     \/ form.mounted /\ payload' \in Filled(form.body)
  /\ UNCHANGED <<channelId, isSending, sends, templates, devices, lastReach, sentHistory,
                 historyChannel, popover, attached>>

-----------------------------------------------------------------------------
(* Sending                                                                  *)

FaultyHandleSubmit ==
  /\ Cardinality(sends) < MaxSends
  /\ isSending' = TRUE
  /\ sends' = sends \cup {[channel |-> channelId, payload |-> payload,
                           reach |-> Cardinality(matchingDevices)]}

\* handleSubmit up to its await.
handleSubmit ==
  IF overLimit THEN UNCHANGED <<isSending, sends>>
  ELSE /\ Cardinality(sends) < MaxSends
       /\ isSending' = TRUE
       /\ sends' = sends \cup {[channel |-> channelId, payload |-> payload,
                                reach |-> Cardinality(matchingDevices)]}

\* The send button of the composer.
Send ==
  /\ ~isSending /\ ~overLimit /\ channelId # <<>> /\ payload # Empty
  /\ handleSubmit
  /\ UNCHANGED <<channelId, payload, templates, devices, lastReach, sentHistory,
                 historyChannel, popover, attached, form>>

insertVariable ==
  /\ payload' = [size |-> payload.size + 1, vars |-> 1]
  /\ popover' = "none"

\* "Insert" in the popover: a placeholder is added, and the event goes on to the
\* composer.
InsertForm ==
  /\ popover = "variable" /\ payload.size < MaxSize /\ payload.vars = 0
  /\ insertVariable
  /\ handleSubmit
  /\ UNCHANGED <<channelId, templates, devices, lastReach, sentHistory, historyChannel, attached, form>>

applyVariableValues ==
  /\ payload' \in Filled(payload)
  /\ popover' = "none"

\* "Apply values" in the popover, likewise.
ValuesForm ==
  /\ popover = "variable" /\ HasVariables(payload)
  /\ applyVariableValues
  /\ handleSubmit
  /\ UNCHANGED <<channelId, templates, devices, lastReach, sentHistory, historyChannel, attached, form>>

\* The reach is worked out when the answer is there.
FaultySendSettles(s, ok) ==
  /\ sends' = sends \ {s} /\ isSending' = FALSE
  /\ ok => s.channel # <<>> /\ s.payload # Empty
  /\ IF ok THEN /\ lastReach' = [channel |-> s.channel, count |-> Cardinality(matchingDevices)]
                /\ sentHistory' = sentHistory \cup {s.channel}
                /\ payload' = Empty /\ attached' = FALSE
           ELSE UNCHANGED <<lastReach, sentHistory, payload, attached>>
  /\ UNCHANGED <<channelId, templates, devices, historyChannel, popover, form>>

\* The rest of handleSubmit, whatever the page shows by then.  The server turns
\* down an empty channel and an empty message.
SendSettles(s, ok) ==
  /\ sends' = sends \ {s} /\ isSending' = FALSE
  /\ ok => s.channel # <<>> /\ s.payload # Empty
  /\ IF ok THEN /\ lastReach' = [channel |-> s.channel, count |-> s.reach]
                /\ sentHistory' = sentHistory \cup {s.channel}
                /\ payload' = Empty /\ attached' = FALSE
           ELSE UNCHANGED <<lastReach, sentHistory, payload, attached>>
  /\ UNCHANGED <<channelId, templates, devices, historyChannel, popover, form>>

Next ==
  \/ \E c \in Channel \cup {<<>>} : Remount(c) \/ SetChannel(c)
  \/ TemplatesLoaded \/ DevicesLoaded
  \/ \E m \in Message : m.vars <= m.size /\ (TypePayload(m) \/ ClickTemplate(m))
  \/ \E p \in {"none", "emoji", "variable"} : OpenPopover(p)
  \/ PickEmoji \/ handleFileSelected \/ RemoveAttachment \/ FillTemplate
  \/ Send \/ InsertForm \/ ValuesForm
  \/ \E s \in sends, ok \in BOOLEAN : SendSettles(s, ok)

Spec == Init /\ [][Next]_vars

-----------------------------------------------------------------------------
(* Properties                                                               *)

\* No request carries more than the 211 bytes of a frame, neither from the button
\* nor through the popover, whatever was filled in since the last check.
FitsTheFrame == \A s \in sends : s.payload.size <= Limit

\* The line "last broadcast to <channel> reached <n>" counts the devices of the
\* channel it names (or none, when the list of devices had not come), whatever
\* channel was typed while the request was on its way.
ReachIsOfItsChannel ==
  lastReach.count \in {0, Cardinality({d \in Device : deviceReceives(d, lastReach.channel)})}

\* The composer publishes when its send button is used.
\* The code breaks it (README, Findings).
OnlySendPublishes == [][sends' \subseteq sends \/ Send]_vars

\* The history is of the channel that is typed.
\* The code breaks it (README, Findings).
HistoryIsOfItsChannel == sentHistory \subseteq {historyChannel}
=============================================================================
