--------------------------- MODULE MCChannelRouter ---------------------------
(* ChannelRouter on a small instance: two tenants, one channel, one pattern   *)
(* that matches it.                                                           *)
EXTENDS ChannelRouter

CONSTANTS c, p

MCMatch == {<<p, c>>}

Symmetry ==
  Permutations(Tenants) \cup Permutations(Receivers)
    \cup Permutations(Publishers) \cup Permutations(Ids)
=============================================================================
