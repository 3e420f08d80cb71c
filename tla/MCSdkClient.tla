---------------------------- MODULE MCSdkClient ----------------------------
(* SdkClient on a small instance, with every configuration of the client.     *)
EXTENDS SdkClient

Symmetry == Permutations(Handlers)
=============================================================================
