----------------------------- MODULE MCPresence -----------------------------
(* Presence on small instances: one session, whose connection task races the  *)
(* heartbeat loop.  Sessions share nothing but the loop.                      *)
EXTENDS Presence
=============================================================================
