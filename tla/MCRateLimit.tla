---------------------------- MODULE MCRateLimit ----------------------------
(* RateLimit on a small instance: two sockets and an HTTP client of a tenant, *)
(* and an administrator who tightens the quotas.                              *)
EXTENDS RateLimit, TLC

MCDefault == [session_capacity |-> 1, session_refill_per_sec |-> 1,
              tenant_capacity |-> 2, tenant_refill_per_sec |-> 1]
Tight     == [session_capacity |-> 1, session_refill_per_sec |-> 1,
              tenant_capacity |-> 1, tenant_refill_per_sec |-> 0]
MCConfigs == {Tight}
Symmetry == Permutations(Sessions)
=============================================================================
