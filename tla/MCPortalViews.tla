---------------------------- MODULE MCPortalViews ----------------------------
(* A tenant that has everything the assistant asks for.                      *)
EXTENDS PortalViews

MCFacts == [token |-> 0, vapid |-> 1, devices |-> 1, channels |-> 1, templates |-> 1, limited |-> 0]
=============================================================================
