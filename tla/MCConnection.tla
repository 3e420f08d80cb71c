---------------------------- MODULE MCConnection ----------------------------
(* Connection on small instances: one per transport and question.             *)
EXTENDS Connection
=============================================================================
