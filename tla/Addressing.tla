----------------------------- MODULE Addressing -----------------------------
(***************************************************************************)
(* Names of the routing domain: channel keys, wildcard keys, messages, and *)
(* which subscription concerns which channel.                              *)
(***************************************************************************)
EXTENDS Naturals, Sequences

CONSTANTS
  Tenants,     \* tenant identifiers (UUIDs in the code)
  Channels,    \* names that frames are published on
  Patterns,    \* names that hold a '*'
  Match,       \* the <<pattern, channel>> pairs that glob_match accepts
  Ids,         \* what tells one publication from another
  NoTarget     \* what a receiver that is attached to nothing is attached to

ChannelKey  == [tenant : Tenants, name : Channels]
WildcardKey == [tenant : Tenants, name : Patterns]
Target      == ChannelKey \cup WildcardKey

\* Nothing forbids a PUB on a name that holds a '*', so Channels and Patterns
\* may overlap.
ASSUME NamesAssumption ==
  /\ Match \subseteq Patterns \X Channels
  /\ NoTarget \notin Target

\* A frame and the key it was published under.  Two publications of the same
\* bytes are two messages.
Message == [id : Ids, key : ChannelKey]

\* The subscription w concerns what is published on channel key k.
Covers(w, k) ==
  /\ w.tenant = k.tenant
  /\ \/ w.name = k.name
     \/ <<w.name, k.name>> \in Match
=============================================================================
