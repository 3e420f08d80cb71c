------------------------------- MODULE PubSub -------------------------------
(***************************************************************************)
(* What the multi-tenant router promises to the holder of a subscription,  *)
(* stated without buses, locks, snapshots or sweeps.                       *)
(*                                                                         *)
(* A receiver attaches to one channel or to one pattern of one tenant and  *)
(* later detaches.  While it is attached it may be handed messages; a      *)
(* message reaches a receiver at most once, and only when the receiver's   *)
(* target covers the channel the message was published on.                 *)
(***************************************************************************)
EXTENDS Addressing, SequencesExt

CONSTANT
  Receivers    \* broadcast::Receiver objects

VARIABLES
  sub,      \* sub[r]: the target receiver r is attached to
  inbox     \* inbox[r]: the messages r was handed, oldest first

vars == <<sub, inbox>>

Init ==
  /\ sub = [r \in Receivers |-> NoTarget]
  /\ inbox = [r \in Receivers |-> << >>]

Attach(r, w) ==
  /\ sub[r] = NoTarget
  /\ inbox[r] = << >>
  /\ sub' = [sub EXCEPT ![r] = w]
  /\ UNCHANGED inbox

Detach(r) ==
  /\ sub[r] # NoTarget
  /\ sub' = [sub EXCEPT ![r] = NoTarget]
  /\ UNCHANGED inbox

\* One bus hands m to all of its receivers at once.
Deliver(m, S) ==
  /\ \A r \in S :
       /\ sub[r] # NoTarget
       /\ Covers(sub[r], m.key)
       /\ m \notin ToSet(inbox[r])
  /\ inbox' = [r \in Receivers |-> IF r \in S THEN Append(inbox[r], m) ELSE inbox[r]]
  /\ UNCHANGED sub

Next ==
  \/ \E r \in Receivers, w \in Target : Attach(r, w)
  \/ \E r \in Receivers : Detach(r)
  \/ \E m \in Message, S \in SUBSET Receivers : Deliver(m, S)

Spec == Init /\ [][Next]_vars
=============================================================================
