----------------------------- MODULE MCCluster -----------------------------
(* Cluster on a small instance: two servers, a session on each.  The first    *)
(* server has subscribers of the channel, the second of the inbox.            *)
EXTENDS Cluster

CONSTANTS i1, i2, s1, s2, u

MCHome == s1 :> i1 @@ s2 :> i2
PubFrame == [opcode |-> "pub", name |-> u]
UnicastFrame == [opcode |-> "unicast", name |-> u]
MCScript == s1 :> <<PubFrame, UnicastFrame>> @@ s2 :> <<PubFrame>>
MCSubscribed == i1 :> {[inbox |-> FALSE, name |-> u]} @@ i2 :> {[inbox |-> TRUE, name |-> u]}
=============================================================================
