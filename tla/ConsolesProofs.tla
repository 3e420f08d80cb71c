--------------------------- MODULE ConsolesProofs ---------------------------
(***************************************************************************)
(* The keys on the server, and the portal and the admin console that work  *)
(* with them, for every number of tenants, rows, keys, notifications and   *)
(* requests under way.  One section per program; each starts with the      *)
(* names its module gives to the variables it needs.                       *)
(***************************************************************************)
EXTENDS Consoles, FiniteSetTheorems, TLAPS

-----------------------------------------------------------------------------
(* Programs                                                                *)

\* The program that was chosen keeps running.
LEMMA SameProgram == [Next]_vars => program' = program
BY DEF Next, vars

-----------------------------------------------------------------------------
(* KeyStore                                                                *)

server        == s1
primary       == s2
extra         == s3
stored        == s4
keyRows       == s5
ops           == s6
issued        == s7
secretApart   == s10
keysForgotten == s11
overtaken     == s12

USE DEF server, primary, extra, stored, keyRows, ops, issued, secretApart, keysForgotten, overtaken

\* A request about key k that has come to "add" or to "drop".
Adding(k)   == [todo |-> "add", on |-> k]
Dropping(k) == [todo |-> "drop", on |-> k]

\* Requests are records of what is next and what is in hand; there are none, and no extra
\* keys in memory, before the portal is served, and before the first secret none writes one.
RequestsInv ==
  /\ server \in {"down", "load-secrets", "load-keys", "up"} /\ issued \in Nat
  /\ keyRows \in [Key -> {"none", "active", "revoked"}]
  /\ \A op \in ops : op = [todo |-> op.todo, on |-> op.on]
  /\ server # "up" => ops = {} /\ extra = {}
  /\ issued = 0 => Keys!Storing = {}

\* Unless memory has a secret without a row, or writers have crossed or failed: before the
\* table is read there is none in memory; afterwards, whoever is about to write the table
\* has the secret of the memory in hand, and when nobody is the two are equal.
SecretInv ==
  /\ server = "load-secrets" /\ ~secretApart => primary = 0
  /\ server \in {"load-keys", "up"} /\ ~secretApart =>
       /\ Keys!Storing = {} => primary = stored
       /\ \A op \in Keys!Storing : op.on = primary

\* An active row without its key in memory is one that is being added; a key without an
\* active row is being dropped, or was overtaken while it was added.
ExtraInv ==
  \A k \in Key :
    /\ server = "up" /\ keyRows[k] = "active" /\ ~keysForgotten => k \in extra \/ Adding(k) \in ops
    /\ server = "up" /\ k \in extra \ overtaken => keyRows[k] = "active" \/ Dropping(k) \in ops
    /\ Adding(k) \in ops /\ k \notin overtaken => keyRows[k] = "active"
    /\ Dropping(k) \in ops => keyRows[k] = "revoked"

KeysInv == RequestsInv /\ SecretInv /\ ExtraInv

\* The invariant gives the property.
LEMMA KeysImplies == KeysInv => Keys!MemoryFollowsRows
<1> SUFFICES ASSUME KeysInv PROVE Keys!MemoryFollowsRows
  OBVIOUS
<1>1. server = "up" /\ ~secretApart /\ Keys!Storing = {} => primary = stored
  BY DEF KeysInv, SecretInv
<1>2. ASSUME NEW k \in Key, ~Keys!Busy(k)
      PROVE  /\ server = "up" /\ keyRows[k] = "active" /\ ~keysForgotten => k \in extra
             /\ k \in extra \ overtaken => keyRows[k] = "active"
  <2>1. Adding(k) \notin ops /\ Dropping(k) \notin ops
    BY <1>2 DEF Keys!Busy, Adding, Dropping
  <2> QED BY <2>1 DEF KeysInv, RequestsInv, ExtraInv
<1> QED BY <1>1, <1>2 DEF Keys!MemoryFollowsRows

\* At first there are no keys, in memory or in the tables.
LEMMA KeysStart == Keys!Init => KeysInv
BY DEF Keys!Init, KeysInv, RequestsInv, SecretInv, ExtraInv, Keys!Storing

\* Steps that touch neither keys nor the requests that write them.
LEMMA KeysSame ==
  ASSUME KeysInv, UNCHANGED <<s1, s2, s3, s4, s5, s7, s10, s11, s12>>,
         Keys!Storing' = Keys!Storing,
         \A op \in ops' : op = [todo |-> op.todo, on |-> op.on],
         server # "up" => ops' = {},
         \A k \in Key : /\ Adding(k) \in ops' <=> Adding(k) \in ops
                        /\ Dropping(k) \in ops' <=> Dropping(k) \in ops
  PROVE  KeysInv'
BY DEF KeysInv, RequestsInv, SecretInv, ExtraInv, Adding, Dropping

\* Every request, restart and expiry keeps the invariant.
LEMMA KeysStep == KeysInv /\ Keys!Next => KeysInv'
<1> SUFFICES ASSUME KeysInv, Keys!Next PROVE KeysInv'
  OBVIOUS
<1>1. RequestsInv /\ SecretInv /\ ExtraInv
  BY DEF KeysInv
<1>2. issued \in Nat /\ issued + 1 # 0 /\ issued + 1 \in Nat
  BY <1>1 DEF RequestsInv
<1>3. ASSUME UNCHANGED <<s1, s2, s3, s4, s5, s6, s7, s10, s11, s12>> PROVE KeysInv'
  BY <1>3 DEF KeysInv, RequestsInv, SecretInv, ExtraInv, Adding, Dropping, Keys!Storing
<1>4. CASE Keys!Signup
  <2>1. PICK op : op = [todo |-> "store-signup", on |-> issued + 1]
    OBVIOUS
  <2>2. /\ issued = 0 /\ issued' = issued + 1 /\ primary' = issued + 1 /\ server = "up"
        /\ ops' = ops \cup {op} /\ UNCHANGED <<s1, s3, s4, s5, s10, s11, s12>>
    BY <1>4, <2>1 DEF Keys!Signup, Keys!Generate, Keys!Begin, Keys!register_tenant, Keys!Fresh
  <2>3. Keys!Storing' = {op}
    BY <1>1, <2>1, <2>2 DEF RequestsInv, Keys!Storing
  <2>4. RequestsInv' /\ SecretInv'
    BY <1>1, <1>2, <2>1, <2>2, <2>3 DEF RequestsInv, SecretInv
  <2>5. ExtraInv'
    BY <1>1, <2>1, <2>2 DEF ExtraInv, Adding, Dropping
  <2> QED BY <2>4, <2>5 DEF KeysInv
<1>5. CASE Keys!RotateMySecret
  <2>1. PICK op : op = [todo |-> "store", on |-> issued + 1]
    OBVIOUS
  <2>2. /\ issued' = issued + 1 /\ primary' = issued + 1 /\ server = "up"
        /\ ops' = ops \cup {op} /\ secretApart' = (Keys!Storing # {})
        /\ UNCHANGED <<s1, s3, s4, s5, s11, s12>>
    BY <1>5, <2>1 DEF Keys!RotateMySecret, Keys!Generate, Keys!Begin, Keys!register_tenant, Keys!Fresh
  <2>3. Keys!Storing' = Keys!Storing \cup {op}
    BY <2>1, <2>2 DEF Keys!Storing
  <2>4. RequestsInv'
    BY <1>1, <1>2, <2>1, <2>2, <2>3 DEF RequestsInv
  <2>5. ~secretApart' => Keys!Storing' = {op}
    BY <2>2, <2>3
  <2>6. SecretInv'
    BY <2>1, <2>2, <2>5 DEF SecretInv
  <2>7. ExtraInv'
    BY <1>1, <2>1, <2>2 DEF ExtraInv, Adding, Dropping
  <2> QED BY <2>4, <2>6, <2>7 DEF KeysInv
<1>6. ASSUME NEW op \in ops, Keys!Upsert(op) PROVE KeysInv'
  <2>1. PICK next : /\ ops' = (ops \ {op}) \cup next /\ server = "up"
                    /\ next = (IF op.todo = "store" THEN {} ELSE {[todo |-> "create-user", on |-> 0]})
    BY <1>6 DEF Keys!Upsert, Keys!Continue
  <2>2. /\ op.todo \in {"store", "store-signup"} /\ stored' = op.on
        /\ UNCHANGED <<s1, s2, s3, s5, s7, s10, s11, s12>>
    BY <1>6 DEF Keys!Upsert
  <2>3. op \in Keys!Storing /\ Keys!Storing' = Keys!Storing \ {op}
    BY <2>1, <2>2 DEF Keys!Storing
  <2>4. RequestsInv'
    BY <1>1, <2>1, <2>2, <2>3 DEF RequestsInv
  <2>5. SecretInv'
    BY <1>1, <2>2, <2>3 DEF SecretInv
  <2>6. \A k \in Key : /\ Adding(k) \in ops' <=> Adding(k) \in ops
                       /\ Dropping(k) \in ops' <=> Dropping(k) \in ops
    BY <2>1, <2>2 DEF Adding, Dropping
  <2>7. ExtraInv'
    BY <1>1, <2>2, <2>6 DEF ExtraInv, Adding, Dropping
  <2> QED BY <2>4, <2>5, <2>7 DEF KeysInv
<1>7. ASSUME NEW op \in ops, Keys!UpsertFails(op) PROVE KeysInv'
  <2>1. /\ op.todo \in {"store", "store-signup"} /\ secretApart' = TRUE /\ server = "up"
        /\ ops' = ops \ {op} /\ UNCHANGED <<s1, s2, s3, s4, s5, s7, s11, s12>>
    BY <1>7 DEF Keys!UpsertFails, Keys!Continue
  <2>2. Keys!Storing' = Keys!Storing \ {op}
    BY <2>1 DEF Keys!Storing
  <2>3. RequestsInv' /\ SecretInv'
    BY <1>1, <2>1, <2>2 DEF RequestsInv, SecretInv
  <2>4. \A k \in Key : /\ Adding(k) \in ops' <=> Adding(k) \in ops
                       /\ Dropping(k) \in ops' <=> Dropping(k) \in ops
    BY <2>1 DEF Adding, Dropping
  <2>5. ExtraInv'
    BY <1>1, <2>1, <2>4 DEF ExtraInv, Adding, Dropping
  <2> QED BY <2>3, <2>5 DEF KeysInv
<1>8. ASSUME NEW op \in ops, Keys!CreateUser(op) \/ Keys!MarkFails(op) PROVE KeysInv'
  <2>1. /\ op.todo \in {"create-user", "mark"} /\ server = "up" /\ ops' = ops \ {op}
        /\ UNCHANGED <<s1, s2, s3, s4, s5, s7, s10, s11, s12>>
    BY <1>8 DEF Keys!CreateUser, Keys!MarkFails, Keys!Continue
  <2>2. Keys!Storing' = Keys!Storing
    BY <2>1 DEF Keys!Storing
  <2>3. \A k \in Key : /\ Adding(k) \in ops' <=> Adding(k) \in ops
                       /\ Dropping(k) \in ops' <=> Dropping(k) \in ops
    BY <2>1 DEF Adding, Dropping
  <2> QED BY <1>1, <2>1, <2>2, <2>3, KeysSame DEF RequestsInv
<1>9. ASSUME NEW op \in ops, Keys!AddExtraKey(op) PROVE KeysInv'
  <2>1. /\ op.todo = "add" /\ server = "up" /\ ops' = ops \ {op} /\ extra' = extra \cup {op.on}
        /\ UNCHANGED <<s1, s2, s4, s5, s7, s10, s11, s12>>
    BY <1>9 DEF Keys!AddExtraKey, Keys!Continue
  <2>2. Keys!Storing' = Keys!Storing
    BY <2>1 DEF Keys!Storing
  <2>3. RequestsInv' /\ SecretInv'
    BY <1>1, <2>1, <2>2 DEF RequestsInv, SecretInv
  <2>4. op = Adding(op.on)
    BY <1>1, <2>1 DEF RequestsInv, Adding
  <2>5. \A k \in Key : /\ Adding(k) \in ops' <=> Adding(k) \in ops /\ k # op.on
                       /\ Dropping(k) \in ops' <=> Dropping(k) \in ops
    BY <2>1, <2>4 DEF Adding, Dropping
  <2>6. ExtraInv'
    BY <1>1, <2>1, <2>4, <2>5 DEF ExtraInv, Adding, Dropping
  <2> QED BY <2>3, <2>6 DEF KeysInv
<1>10. ASSUME NEW op \in ops, Keys!MarkRevoked(op) PROVE KeysInv'
  <2>1. /\ op.todo = "mark" /\ server = "up" /\ keyRows[op.on] = "active"
        /\ ops' = (ops \ {op}) \cup {Dropping(op.on)}
        /\ keyRows' = [keyRows EXCEPT ![op.on] = "revoked"]
        /\ overtaken' = overtaken \cup {k \in {op.on} : Adding(k) \in ops}
        /\ UNCHANGED <<s1, s2, s3, s4, s7, s10, s11>>
    BY <1>10 DEF Keys!MarkRevoked, Keys!Continue, Adding, Dropping
  <2>2. Keys!Storing' = Keys!Storing
    BY <2>1 DEF Keys!Storing, Dropping
  <2>3. keyRows' \in [Key -> {"none", "active", "revoked"}]
    BY <1>1, <2>1 DEF RequestsInv
  <2>4. RequestsInv' /\ SecretInv'
    BY <1>1, <2>1, <2>2, <2>3 DEF RequestsInv, SecretInv, Dropping
  <2>5. \A k \in Key : keyRows'[k] = IF k = op.on THEN "revoked" ELSE keyRows[k]
    BY <1>1, <2>1 DEF RequestsInv
  <2>6. \A k \in Key : /\ Adding(k) \in ops' <=> Adding(k) \in ops
                       /\ Dropping(k) \in ops' <=> Dropping(k) \in ops \/ k = op.on
    <3>1. \A k : Adding(k).todo = "add" /\ Dropping(k).todo = "drop" /\ Dropping(k).on = k
      BY DEF Adding, Dropping
    <3>2. \A k \in Key : op # Adding(k) /\ op # Dropping(k) /\ Adding(k) # Dropping(op.on)
      BY <2>1, <3>1
    <3>3. \A k \in Key : Dropping(k) = Dropping(op.on) <=> k = op.on
      BY <3>1
    <3> QED BY <2>1, <3>2, <3>3
  <2>7. ExtraInv'
    BY <1>1, <2>1, <2>5, <2>6 DEF ExtraInv, Adding, Dropping
  <2> QED BY <2>4, <2>7 DEF KeysInv
<1>11. ASSUME NEW op \in ops, Keys!DropExtraKey(op) PROVE KeysInv'
  <2>1. /\ op.todo = "drop" /\ server = "up" /\ ops' = ops \ {op} /\ extra' = extra \ {op.on}
        /\ UNCHANGED <<s1, s2, s4, s5, s7, s10, s11, s12>>
    BY <1>11 DEF Keys!DropExtraKey, Keys!Continue
  <2>2. Keys!Storing' = Keys!Storing
    BY <2>1 DEF Keys!Storing
  <2>3. RequestsInv' /\ SecretInv'
    BY <1>1, <2>1, <2>2 DEF RequestsInv, SecretInv
  <2>4. op = Dropping(op.on)
    BY <1>1, <2>1 DEF RequestsInv, Dropping
  <2>5. \A k \in Key : /\ Adding(k) \in ops' <=> Adding(k) \in ops
                       /\ Dropping(k) \in ops' <=> Dropping(k) \in ops /\ k # op.on
    BY <2>1, <2>4 DEF Adding, Dropping
  <2>6. ExtraInv'
    BY <1>1, <2>1, <2>4, <2>5 DEF ExtraInv, Adding, Dropping
  <2> QED BY <2>3, <2>6 DEF KeysInv
<1>12. ASSUME NEW k \in Key, Keys!GenerateApiKey(k) PROVE KeysInv'
  <2>1. /\ keyRows[k] = "none" /\ server = "up" /\ ops' = ops \cup {Adding(k)}
        /\ keyRows' = [keyRows EXCEPT ![k] = "active"]
        /\ UNCHANGED <<s1, s2, s3, s4, s7, s10, s11, s12>>
    BY <1>12 DEF Keys!GenerateApiKey, Keys!Begin, Adding
  <2>2. Keys!Storing' = Keys!Storing
    BY <2>1 DEF Keys!Storing, Adding
  <2>3. keyRows' \in [Key -> {"none", "active", "revoked"}]
    BY <1>1, <2>1 DEF RequestsInv
  <2>4. RequestsInv' /\ SecretInv'
    BY <1>1, <2>1, <2>2, <2>3 DEF RequestsInv, SecretInv, Adding
  <2>5. \A j \in Key : keyRows'[j] = IF j = k THEN "active" ELSE keyRows[j]
    BY <1>1, <2>1 DEF RequestsInv
  <2>6. \A j \in Key : /\ Adding(j) \in ops' <=> Adding(j) \in ops \/ j = k
                       /\ Dropping(j) \in ops' <=> Dropping(j) \in ops
    BY <2>1 DEF Adding, Dropping
  <2>7. ExtraInv'
    BY <1>1, <2>1, <2>5, <2>6 DEF ExtraInv, Adding, Dropping
  <2> QED BY <2>4, <2>7 DEF KeysInv
<1>13. ASSUME NEW k \in Key, Keys!RevokeApiKey(k) PROVE KeysInv'
  <2>1. /\ server = "up" /\ ops' = ops \cup {[todo |-> "mark", on |-> k]}
        /\ UNCHANGED <<s1, s2, s3, s4, s5, s7, s10, s11, s12>>
    BY <1>13 DEF Keys!RevokeApiKey, Keys!Begin
  <2>2. Keys!Storing' = Keys!Storing
    BY <2>1 DEF Keys!Storing
  <2>3. \A j \in Key : /\ Adding(j) \in ops' <=> Adding(j) \in ops
                       /\ Dropping(j) \in ops' <=> Dropping(j) \in ops
    BY <2>1 DEF Adding, Dropping
  <2> QED BY <1>1, <2>1, <2>2, <2>3, KeysSame DEF RequestsInv
<1>14. ASSUME NEW s, Keys!RegisterTenantUser(s) PROVE KeysInv'
  <2>1. /\ server = "up" /\ ops' = ops \cup {[todo |-> "create-user", on |-> 0]}
        /\ UNCHANGED <<s1, s2, s3, s4, s5, s7, s10, s11, s12>>
    BY <1>14 DEF Keys!RegisterTenantUser, Keys!Begin
  <2>2. Keys!Storing' = Keys!Storing
    BY <2>1 DEF Keys!Storing
  <2>3. \A j \in Key : /\ Adding(j) \in ops' <=> Adding(j) \in ops
                       /\ Dropping(j) \in ops' <=> Dropping(j) \in ops
    BY <2>1 DEF Adding, Dropping
  <2> QED BY <1>1, <2>1, <2>2, <2>3, KeysSame DEF RequestsInv
<1>15. CASE Keys!CreateTenant \/ Keys!RotateTenantSecret
  <2>1. /\ secretApart' = TRUE /\ (issued' = issued \/ issued' = issued + 1)
        /\ UNCHANGED <<s1, s3, s4, s5, s6, s11, s12>>
    BY <1>15 DEF Keys!CreateTenant, Keys!RotateTenantSecret, Keys!AdminRegisters, Keys!Generate, Keys!Fresh
  <2>2. Keys!Storing' = Keys!Storing
    BY <2>1 DEF Keys!Storing
  <2>3. RequestsInv' /\ SecretInv'
    BY <1>1, <1>2, <2>1, <2>2 DEF RequestsInv, SecretInv
  <2>4. ExtraInv'
    BY <1>1, <2>1 DEF ExtraInv, Adding, Dropping
  <2> QED BY <2>3, <2>4 DEF KeysInv
<1>16. CASE Keys!RevokeTenant
  <2>1. /\ extra' = {} /\ secretApart' = TRUE /\ keysForgotten' = TRUE
        /\ UNCHANGED <<s1, s4, s5, s6, s7, s12>>
    BY <1>16 DEF Keys!RevokeTenant
  <2>2. Keys!Storing' = Keys!Storing
    BY <2>1 DEF Keys!Storing
  <2>3. RequestsInv' /\ SecretInv'
    BY <1>1, <2>1, <2>2 DEF RequestsInv, SecretInv
  <2>4. ExtraInv'
    BY <1>1, <2>1 DEF ExtraInv, Adding, Dropping
  <2> QED BY <2>3, <2>4 DEF KeysInv
<1>17. CASE Keys!Stop
  <2>1. server' = "down" /\ ops' = {} /\ extra' = {} /\ UNCHANGED <<s4, s5, s7, s10, s11, s12>>
    BY <1>17 DEF Keys!Stop
  <2> QED BY <1>1, <2>1 DEF KeysInv, RequestsInv, SecretInv, ExtraInv, Keys!Storing
<1>18. CASE Keys!Start \/ Keys!LoadSecrets \/ Keys!LoadSecretsFails
  <2>1. /\ server # "up" /\ server' \in {"load-secrets", "load-keys"}
        /\ UNCHANGED <<s3, s4, s5, s6, s7, s11, s12>>
    BY <1>18 DEF Keys!Start, Keys!LoadSecrets, Keys!LoadSecretsFails
  <2>2. ops = {} /\ Keys!Storing' = {}
    BY <1>1, <2>1 DEF RequestsInv, Keys!Storing
  <2>3. SecretInv'
    <3>1. CASE Keys!Start
      <4>1. server' = "load-secrets" /\ primary' = s13 /\ secretApart' = (s13 # 0)
        BY <3>1 DEF Keys!Start
      <4> QED BY <4>1 DEF SecretInv
    <3>2. CASE Keys!LoadSecrets
      <4>1. /\ server = "load-secrets" /\ server' = "load-keys"
            /\ stored # 0 => primary' = stored
            /\ stored = 0 => UNCHANGED <<s2, s10>>
        BY <3>2 DEF Keys!LoadSecrets, Keys!register_tenant
      <4> QED BY <1>1, <2>1, <2>2, <4>1 DEF SecretInv
    <3>3. CASE Keys!LoadSecretsFails
      <4>1. /\ server = "load-secrets" /\ server' = "load-keys" /\ UNCHANGED s2
            /\ secretApart' = (secretApart \/ stored # 0)
        BY <3>3 DEF Keys!LoadSecretsFails
      <4> QED BY <1>1, <2>1, <2>2, <4>1 DEF SecretInv
    <3> QED BY <1>18, <3>1, <3>2, <3>3
  <2>4. RequestsInv' /\ ExtraInv'
    BY <1>1, <2>1, <2>2 DEF RequestsInv, ExtraInv
  <2> QED BY <2>3, <2>4 DEF KeysInv
<1>20. CASE Keys!LoadKeys \/ Keys!LoadKeysFails
  <2>1. /\ server = "load-keys" /\ server' = "up" /\ overtaken' = {}
        /\ UNCHANGED <<s2, s4, s5, s6, s7, s10>>
        /\ \/ extra' = extra \cup {k \in Key : keyRows[k] = "active"}
           \/ extra' = extra /\ keysForgotten' = TRUE
    BY <1>20 DEF Keys!LoadKeys, Keys!LoadKeysFails, Keys!ReadAtBoot
  <2>2. ops = {} /\ extra = {} /\ Keys!Storing = {} /\ Keys!Storing' = {}
    BY <1>1, <2>1 DEF RequestsInv, Keys!Storing
  <2>3. RequestsInv' /\ SecretInv'
    BY <1>1, <2>1, <2>2 DEF RequestsInv, SecretInv
  <2>4. ExtraInv'
    BY <2>1, <2>2 DEF ExtraInv
  <2> QED BY <2>3, <2>4 DEF KeysInv
<1>19. ASSUME Keys!MintClientToken \/ Keys!MintTenantToken \/ (\E s : Keys!IssueClientToken(s))
              \/ (\E t : Keys!Expire(t))
       PROVE  KeysInv'
  BY <1>3, <1>19 DEF Keys!MintClientToken, Keys!MintTenantToken, Keys!IssueClientToken, Keys!issue_token,
                     Keys!Expire
<1> QED BY <1>4, <1>5, <1>6, <1>7, <1>8, <1>9, <1>10, <1>11, <1>12, <1>13, <1>14, <1>15, <1>16, <1>17,
           <1>18, <1>20, <1>19 DEF Keys!Next

\* Memory and tables agree about a tenant's keys once the portal is served and no request
\* is between the two, through revocations, failures and restarts, unless the differences
\* have one of the recorded reasons (the use cases of keys, main.rs).
THEOREM MemoryAndTablesAgree == Spec => []MemoryFollowsRows
<1> DEFINE Inv == program = "keys" => KeysInv
<1>1. Init => Inv
  BY KeysStart DEF Init
<1>2. Inv /\ [Next]_vars => Inv'
  <2>1. ASSUME Inv, [Next]_vars, program = "keys" PROVE KeysInv'
    <3>1. CASE Keys!Next
      BY <2>1, <3>1, KeysStep
    <3>2. CASE UNCHANGED vars
      BY <2>1, <3>2 DEF vars, KeysInv, RequestsInv, SecretInv, ExtraInv, Adding, Dropping, Keys!Storing
    <3> QED BY <2>1, <3>1, <3>2 DEF Next
  <2> QED BY <2>1, SameProgram
<1>3. Inv => MemoryFollowsRows
  BY KeysImplies DEF MemoryFollowsRows
<1> QED BY <1>1, <1>2, <1>3, PTL DEF Spec

-----------------------------------------------------------------------------
(* Workspace                                                               *)

signedIn == s1
minted   == s5
mints    == s12

USE DEF signedIn, minted, mints

\* Both requests of m have left, in one session; or neither has; or the first has, and
\* its session is still the one of the browser.
Together(m) ==
  m.leg["token"].state # "queued" /\ m.leg["tenant"].state # "queued" /\ m.leg["token"].by = m.leg["tenant"].by
Waiting(m) == m.leg["token"].state = "queued" /\ m.leg["tenant"].state = "queued"
Halfway(m) ==
  m.leg["token"].state # "queued" /\ m.leg["tenant"].state = "queued" /\ m.leg["token"].by = signedIn

MintsInv ==
  /\ minted.token = minted.tenant
  /\ \A m \in mints : Together(m) \/ Waiting(m) \/ Halfway(m)

\* While a request waits for its interceptor the session does not change.
LEMMA LeavesTogether ==
  ASSUME MintsInv, NEW m \in mints, NEW leg \in Portal!Legs, Portal!MintLeaves(m, leg)
  PROVE  MintsInv'
<1> DEFINE left == Portal!With(m, leg, "sent", signedIn)
<1>1. mints' = (mints \ {m}) \cup {left} /\ UNCHANGED <<signedIn, minted>>
  BY DEF Portal!MintLeaves
<1>2. m.leg[leg].state = "queued" /\ (leg = "tenant" => m.leg["token"].state # "queued")
  BY DEF Portal!MintLeaves
<1>3. Together(m) \/ Waiting(m) \/ Halfway(m)
  BY DEF MintsInv
<1>4. Together(left) \/ Halfway(left)
  <2>1. CASE leg = "token"
    BY <1>2, <1>3, <2>1 DEF Portal!With, Portal!Legs, Together, Waiting, Halfway
  <2>2. CASE leg = "tenant"
    BY <1>2, <1>3, <2>2 DEF Portal!With, Portal!Legs, Together, Waiting, Halfway
  <2> QED BY <2>1, <2>2 DEF Portal!Legs
<1>5. \A x \in mints \cup {left} : Halfway(x) => Halfway(x)'
  BY <1>1 DEF Halfway
<1> QED BY <1>1, <1>4, <1>5 DEF MintsInv, Together, Waiting, Halfway

\* When nothing is departing, a mint has left or has not, and never in two sessions.
LEMMA TaskKeepsMints ==
  ASSUME MintsInv, Portal!Departing = {}, minted'.token = minted'.tenant,
         \A m \in mints' : Together(m) \/ Waiting(m)
  PROVE  MintsInv'
BY DEF MintsInv, Together, Waiting, Halfway

LEMMA NoneHalfway ==
  ASSUME MintsInv, Portal!Departing = {}
  PROVE  \A m \in mints : Together(m)
BY DEF MintsInv, Portal!Departing, Together, Waiting, Halfway

\* Without its card a mint goes on as it was.
LEMMA UnmountedTogether ==
  ASSUME MintsInv, Portal!Departing = {}, NEW ms, ms \subseteq mints,
         mints' = Portal!Unmounted(ms), UNCHANGED minted
  PROVE  MintsInv'
<1>1. \A m \in mints' : Together(m)
  BY NoneHalfway DEF Portal!Unmounted, Together
<1> QED BY <1>1, TaskKeepsMints DEF MintsInv

\* A request that is answered, or whose answer arrives, keeps the session it left in.
LEMMA AnsweredTogether ==
  ASSUME MintsInv, Portal!Departing = {}, NEW m \in mints, NEW leg \in Portal!Legs, NEW r,
         r # "queued", mints' = (mints \ {m}) \cup {Portal!With(m, leg, r, m.leg[leg].by)}, UNCHANGED minted
  PROVE  MintsInv'
<1>1. Together(m)
  BY NoneHalfway
<1>2. Together(Portal!With(m, leg, r, m.leg[leg].by))
  BY <1>1 DEF Portal!With, Portal!Legs, Together
<1>3. \A x \in mints' : Together(x)
  BY <1>2, NoneHalfway
<1> QED BY <1>3, TaskKeepsMints DEF MintsInv

\* A mint's steps: its answers may arrive in any session.
LEMMA MintTasks ==
  ASSUME MintsInv, Portal!Departing = {}, NEW m \in mints, NEW leg \in Portal!Legs,
         \/ Portal!ServeMint(m, leg) \/ Portal!MintArrives(m, leg)
         \/ Portal!MintFails(m, leg) \/ Portal!MintDenied(m, leg)
  PROVE  MintsInv'
<1>1. CASE Portal!ServeMint(m, leg)
  <2>1. PICK r \in {"ok", "failed", "denied"} :
          mints' = (mints \ {m}) \cup {Portal!With(m, leg, r, m.leg[leg].by)}
    BY <1>1 DEF Portal!ServeMint
  <2>2. UNCHANGED minted
    BY <1>1 DEF Portal!ServeMint
  <2> QED BY <2>1, <2>2, AnsweredTogether
<1>2. CASE Portal!MintArrives(m, leg) /\ m.leg[Portal!Other(leg)].state = "arrived"
  <2>1. mints' = mints \ {m} /\ minted' = [token |-> m.leg["token"].by, tenant |-> m.leg["tenant"].by]
    BY <1>2 DEF Portal!MintArrives
  <2>2. m.leg["token"].by = m.leg["tenant"].by /\ \A x \in mints' : Together(x)
    BY <2>1, NoneHalfway DEF Together
  <2> QED BY <2>1, <2>2, TaskKeepsMints
<1>3. CASE Portal!MintArrives(m, leg) /\ m.leg[Portal!Other(leg)].state # "arrived"
  <2>1. mints' = (mints \ {m}) \cup {Portal!With(m, leg, "arrived", m.leg[leg].by)} /\ UNCHANGED minted
    BY <1>3 DEF Portal!MintArrives
  <2> QED BY <2>1, AnsweredTogether
<1>4. CASE Portal!MintFails(m, leg)
  <2>1. mints' = mints \ {m} /\ UNCHANGED minted
    BY <1>4 DEF Portal!MintFails
  <2>2. \A x \in mints' : Together(x)
    BY <2>1, NoneHalfway
  <2> QED BY <2>1, <2>2, TaskKeepsMints DEF MintsInv
<1>5. CASE Portal!MintDenied(m, leg)
  <2>1. mints' = Portal!Unmounted(mints \ {m}) /\ UNCHANGED minted
    BY <1>5 DEF Portal!MintDenied, Portal!logoutWith, Portal!Mount
  <2> QED BY <2>1, UnmountedTogether
<1> QED BY <1>1, <1>2, <1>3, <1>4, <1>5

LEMMA PortalStep ==
  ASSUME MintsInv, Portal!Next
  PROVE  MintsInv'
<1>1. ASSUME NEW m \in mints, NEW leg \in Portal!Legs, Portal!MintLeaves(m, leg) PROVE MintsInv'
  BY <1>1, LeavesTogether
<1> SUFFICES ASSUME Portal!Departing = {}, Portal!Tasks PROVE MintsInv'
  BY <1>1 DEF Portal!Next
<1>2. ASSUME NEW m \in mints, NEW leg \in Portal!Legs,
             \/ Portal!ServeMint(m, leg) \/ Portal!MintArrives(m, leg)
             \/ Portal!MintFails(m, leg) \/ Portal!MintDenied(m, leg)
      PROVE  MintsInv'
  BY <1>2, MintTasks
<1>3. ASSUME UNCHANGED mints, minted'.token = minted'.tenant PROVE MintsInv'
  BY <1>3, NoneHalfway, TaskKeepsMints
<1>4. ASSUME UNCHANGED <<minted, mints>> PROVE MintsInv'
  BY <1>3, <1>4 DEF MintsInv
<1>5. CASE Portal!mint
  <2>1. /\ mints' = mints \cup {[page |-> TRUE, leg |-> [l \in Portal!Legs |-> Portal!Queued]]}
        /\ UNCHANGED minted
    BY <1>5 DEF Portal!mint
  <2>2. \A x \in mints' : Together(x) \/ Waiting(x)
    BY <2>1, NoneHalfway DEF Waiting, Portal!Queued, Portal!Legs
  <2> QED BY <2>1, <2>2, TaskKeepsMints DEF MintsInv
<1>6. CASE Portal!TokenExpires
  BY <1>3, <1>6 DEF Portal!TokenExpires, Portal!NoToken
<1>7. ASSUME NEW s, Portal!Visit(s) PROVE MintsInv'
  BY <1>7, UnmountedTogether DEF Portal!Visit, Portal!Mount
<1>8. CASE Portal!SignOut
  BY <1>8, UnmountedTogether DEF Portal!SignOut, Portal!logoutWith, Portal!Mount
<1>9. ASSUME \/ Portal!checkConnection \/ Portal!TypeName \/ Portal!OpenWorkbench
             \/ Portal!CloseWorkbench \/ Portal!confirmRotate \/ Portal!closeDialog
             \/ Portal!doRotate
      PROVE  UNCHANGED <<minted, mints>>
  BY <1>9 DEF Portal!checkConnection, Portal!TypeName, Portal!OpenWorkbench,
              Portal!CloseWorkbench, Portal!confirmRotate, Portal!closeDialog, Portal!doRotate
<1>10. ASSUME \/ Portal!LoginForm \/ Portal!SignupForm \/ Portal!RegisterForm
              \/ Portal!handleChangePassword \/ Portal!handleSaveName \/ Portal!handleSaveWebsite
              \/ Portal!handleFileChange \/ Portal!handleLogoChange
       PROVE  UNCHANGED <<minted, mints>>
  BY <1>10 DEF Portal!LoginForm, Portal!SignupForm, Portal!RegisterForm, Portal!Ask,
               Portal!handleChangePassword, Portal!handleSaveName, Portal!handleSaveWebsite,
               Portal!handleFileChange, Portal!handleLogoChange
<1>11. ASSUME NEW c, Portal!Serve(c) \/ Portal!PageSettles(c) PROVE UNCHANGED <<minted, mints>>
  BY <1>11 DEF Portal!Serve, Portal!PageSettles
<1>12. ASSUME NEW c, Portal!SignInSettles(c) PROVE MintsInv'
  BY <1>12, UnmountedTogether DEF Portal!SignInSettles, Portal!Mount
<1>13. ASSUME NEW c, Portal!DeniedSettles(c) PROVE MintsInv'
  BY <1>13, UnmountedTogether DEF Portal!DeniedSettles, Portal!logoutWith, Portal!Mount
<1> QED BY <1>2, <1>4, <1>5, <1>6, <1>7, <1>8, <1>9, <1>10, <1>11, <1>12, <1>13 DEF Portal!Tasks

\* The credentials file names the tenant its token is of, whoever has signed in and out
\* between the click, the answers to the two requests and the moment they are filed
\* (MintTokenCard.tsx, http.ts).
THEOREM TokensOfOneTenant == Spec => []TokenBelongsToItsTenant
<1> DEFINE Inv == program = "workspace" => MintsInv
<1>1. Init => Inv
  BY DEF Init, MintsInv, Portal!Init, Portal!NoToken
<1>2. Inv /\ [Next]_vars => Inv'
  <2>1. ASSUME Inv, [Next]_vars, program = "workspace" PROVE MintsInv'
    <3>1. CASE Portal!Next
      BY <2>1, <3>1, PortalStep
    <3>2. CASE UNCHANGED vars
      BY <2>1, <3>2 DEF vars, MintsInv, Together, Waiting, Halfway
    <3> QED BY <2>1, <3>1, <3>2 DEF Next
  <2> QED BY <2>1, SameProgram
<1>3. Inv => TokenBelongsToItsTenant
  BY DEF MintsInv, TokenBelongsToItsTenant, Portal!TokenBelongsToItsTenant
<1> QED BY <1>1, <1>2, <1>3, PTL DEF Spec

-----------------------------------------------------------------------------
(* Broadcasting                                                            *)

channelId == s1
payload   == s2
sends     == s4
devices   == s6
lastReach == s7
fillForm  == s12

USE DEF channelId, payload, sends, devices, lastReach, fillForm

\* Both modules count alike.
LEMMA ComposerCounts == \A S : Composer!Cardinality(S) = Cardinality(S)
BY Zenon DEF Cardinality, Composer!Cardinality

\* The devices that receive what is sent to channel c.
ReachOf(c) == Cardinality({d \in Device : Composer!deviceReceives(d, c)})

\* Messages have a size; a broadcast on its way fits the frame and carries the reach of
\* its own channel, counted when it left, or none if the devices had not come.
ComposerInv ==
  /\ payload.size \in Int /\ payload.vars \in Int
  /\ fillForm.body.size \in Int /\ fillForm.body.vars \in Int
  /\ devices \in {{}, Device}
  /\ \A s \in sends : s.payload.size <= Limit /\ s.reach \in {0, ReachOf(s.channel)}
  /\ lastReach.count \in {0, ReachOf(lastReach.channel)}

\* The composer starts empty.
LEMMA ComposerStart == Composer!Init => ComposerInv
BY DEF Composer!Init, Composer!Mounted, Composer!Empty, Composer!NoForm, Composer!NoReach, ComposerInv

\* handleSubmit checks the message and counts the devices before it awaits.
LEMMA SubmitStep ==
  ASSUME ComposerInv, Composer!handleSubmit
  PROVE  \A s \in sends' : s.payload.size <= Limit /\ s.reach \in {0, ReachOf(s.channel)}
<1>1. CASE Composer!overLimit
  BY <1>1 DEF Composer!handleSubmit, ComposerInv
<1>2. CASE ~Composer!overLimit
  <2>1. payload.size <= Limit
    BY <1>2, ConsolesAssumption DEF Composer!overLimit, ComposerInv
  <2>2. Cardinality(Composer!matchingDevices) \in {0, ReachOf(channelId)}
    BY FS_EmptySet DEF Composer!matchingDevices, ReachOf, ComposerInv
  <2>3. PICK n : n = Cardinality(Composer!matchingDevices)
    OBVIOUS
  <2>4. sends' = sends \cup {[channel |-> channelId, payload |-> payload, reach |-> n]}
    BY <1>2, <2>3, ComposerCounts DEF Composer!handleSubmit
  <2> QED BY <2>1, <2>2, <2>3, <2>4 DEF ComposerInv
<1> QED BY <1>1, <1>2

\* A template that is filled in has a size.
LEMMA FilledSize ==
  ASSUME NEW m, m.size \in Int, m.vars \in Int, NEW f \in Composer!Filled(m)
  PROVE  f.size \in Int /\ f.vars \in Int
<1>1. PICK n \in 0..(MaxSize - m.size + m.vars) : f = Composer!Fill(m, n)
  BY DEF Composer!Filled
<1>2. n \in Int
  BY <1>1, ConsolesAssumption
<1> QED BY <1>1, <1>2 DEF Composer!Fill

\* Typing, filling in, sending and settling keep the invariant.
LEMMA ComposerStep == ComposerInv /\ Composer!Next => ComposerInv'
<1> SUFFICES ASSUME ComposerInv, Composer!Next PROVE ComposerInv'
  OBVIOUS
<1>1. ASSUME UNCHANGED <<s4, s6, s7, s12>>, payload'.size \in Int, payload'.vars \in Int PROVE ComposerInv'
  BY <1>1 DEF ComposerInv, ReachOf, Composer!deviceReceives
<1>2. ASSUME NEW c, Composer!Remount(c) PROVE ComposerInv'
  <2>1. /\ payload' = Composer!Empty /\ sends' = {} /\ devices' = {} /\ lastReach' = Composer!NoReach
        /\ fillForm' = [fillForm EXCEPT !.mounted = FALSE]
    BY <1>2 DEF Composer!Remount
  <2>2. fillForm'.body = fillForm.body
    BY <2>1
  <2> QED BY <2>1, <2>2 DEF ComposerInv, Composer!Empty, Composer!NoReach
<1>3. ASSUME \/ Composer!TemplatesLoaded \/ Composer!handleFileSelected \/ Composer!RemoveAttachment
             \/ (\E c : Composer!SetChannel(c)) \/ (\E p : Composer!OpenPopover(p))
      PROVE  ComposerInv'
  <2>1. UNCHANGED <<s2, s4, s6, s7, s12>>
    BY <1>3 DEF Composer!TemplatesLoaded, Composer!handleFileSelected, Composer!RemoveAttachment,
                Composer!SetChannel, Composer!OpenPopover
  <2> QED BY <1>1, <2>1 DEF ComposerInv
<1>4. CASE Composer!DevicesLoaded
  <2>1. devices' = Device /\ UNCHANGED <<s2, s4, s7, s12>>
    BY <1>4 DEF Composer!DevicesLoaded
  <2> QED BY <2>1 DEF ComposerInv, ReachOf, Composer!deviceReceives
<1>5. ASSUME NEW m \in Composer!Message, Composer!TypePayload(m) \/ Composer!ClickTemplate(m) PROVE ComposerInv'
  <2>1. m.size \in Int /\ m.vars \in Int
    BY ConsolesAssumption DEF Composer!Message
  <2>2. UNCHANGED <<s4, s6, s7>>
    BY <1>5 DEF Composer!TypePayload, Composer!ClickTemplate
  <2>3. \/ payload' = m /\ fillForm' = fillForm
        \/ payload' = payload /\ fillForm' = [body |-> m, mounted |-> TRUE]
    BY <1>5 DEF Composer!TypePayload, Composer!ClickTemplate, Composer!applyTemplate
  <2>4. /\ payload'.size \in Int /\ payload'.vars \in Int
        /\ fillForm'.body.size \in Int /\ fillForm'.body.vars \in Int
    BY <2>1, <2>3 DEF ComposerInv
  <2> QED BY <2>2, <2>4 DEF ComposerInv, ReachOf, Composer!deviceReceives
<1>6. CASE Composer!PickEmoji
  <2>1. payload' = [payload EXCEPT !.size = payload.size + 1] /\ UNCHANGED <<s4, s6, s7, s12>>
    BY <1>6 DEF Composer!PickEmoji, Composer!insertEmoji
  <2>2. payload'.size \in Int /\ payload'.vars \in Int
    <3>1. payload.size + 1 \in Int /\ payload.size \in Int /\ payload.vars \in Int
      BY DEF ComposerInv
    <3>2. payload'.size = payload.size + 1 \/ payload'.size = payload.size
      BY <2>1
    <3>3. payload'.vars = payload.vars
      BY <2>1
    <3> QED BY <3>1, <3>2, <3>3
  <2> QED BY <1>1, <2>1, <2>2
<1>7. CASE Composer!FillTemplate
  <2>1. UNCHANGED <<s4, s6, s7>> /\ fillForm' = Composer!NoForm
    BY <1>7 DEF Composer!FillTemplate
  <2>2. payload' = payload \/ payload' \in Composer!Filled(fillForm.body)
    BY <1>7 DEF Composer!FillTemplate
  <2>3. payload'.size \in Int /\ payload'.vars \in Int
    BY <2>2, FilledSize DEF ComposerInv
  <2> QED BY <2>1, <2>3 DEF ComposerInv, Composer!NoForm, Composer!Empty, ReachOf, Composer!deviceReceives
<1>8. ASSUME Composer!handleSubmit, UNCHANGED <<s6, s7, s12>>, payload'.size \in Int, payload'.vars \in Int
      PROVE  ComposerInv'
  <2>1. \A s \in sends' : s.payload.size <= Limit /\ s.reach \in {0, ReachOf(s.channel)}
    BY <1>8, SubmitStep
  <2> QED BY <1>8, <2>1 DEF ComposerInv, ReachOf, Composer!deviceReceives
<1>9. CASE Composer!Send
  BY <1>8, <1>9 DEF Composer!Send, ComposerInv
<1>10. CASE Composer!InsertForm
  <2>1. payload'.size \in Int /\ payload'.vars \in Int
    BY <1>10 DEF Composer!InsertForm, Composer!insertVariable, ComposerInv
  <2> QED BY <1>8, <1>10, <2>1 DEF Composer!InsertForm
<1>11. CASE Composer!ValuesForm
  <2>1. payload'.size \in Int /\ payload'.vars \in Int
    BY <1>11, FilledSize DEF Composer!ValuesForm, Composer!applyVariableValues, ComposerInv
  <2> QED BY <1>8, <1>11, <2>1 DEF Composer!ValuesForm
<1>12. ASSUME NEW s \in sends, NEW ok \in BOOLEAN, Composer!SendSettles(s, ok) PROVE ComposerInv'
  <2>1. sends' = sends \ {s} /\ UNCHANGED <<s6, s12>>
    BY <1>12 DEF Composer!SendSettles
  <2>2. \/ lastReach' = [channel |-> s.channel, count |-> s.reach] /\ payload' = Composer!Empty
        \/ lastReach' = lastReach /\ payload' = payload
    BY <1>12 DEF Composer!SendSettles
  <2>3. lastReach'.count \in {0, ReachOf(lastReach'.channel)}
    BY <2>2 DEF ComposerInv
  <2>4. payload'.size \in Int /\ payload'.vars \in Int
    BY <2>2 DEF ComposerInv, Composer!Empty
  <2> QED BY <2>1, <2>3, <2>4 DEF ComposerInv, ReachOf, Composer!deviceReceives
<1> QED BY <1>2, <1>3, <1>4, <1>5, <1>6, <1>7, <1>9, <1>10, <1>11, <1>12 DEF Composer!Next

\* No broadcast is longer than a frame, and the line that says how many devices one
\* reached counts those of the channel it names (BroadcastingPage.tsx).
THEOREM BroadcastsAreHonest == Spec => []BroadcastIsHonest
<1> DEFINE Inv == program = "composer" => ComposerInv
<1>1. Init => Inv
  BY ComposerStart DEF Init
<1>2. Inv /\ [Next]_vars => Inv'
  <2>1. ASSUME Inv, [Next]_vars, program = "composer" PROVE ComposerInv'
    <3>1. CASE Composer!Next
      BY <2>1, <3>1, ComposerStep
    <3>2. CASE UNCHANGED vars
      BY <2>1, <3>2 DEF vars, ComposerInv, ReachOf, Composer!deviceReceives
    <3> QED BY <2>1, <3>1, <3>2 DEF Next
  <2> QED BY <2>1, SameProgram
<1>3. Inv => BroadcastIsHonest
  BY ComposerCounts DEF BroadcastIsHonest, ComposerInv, ReachOf, Composer!FitsTheFrame, Composer!ReachIsOfItsChannel
<1> QED BY <1>1, <1>2, <1>3, PTL DEF Spec

-----------------------------------------------------------------------------
(* PortalBell                                                              *)

noticeCount == s1
items       == s3
itemsRead   == s4
unreadCount == s5
bellCalls   == s6
between     == s7

USE DEF noticeCount, items, itemsRead, unreadCount, bellCalls, between

\* Both modules count alike.
LEMMA BellCounts == \A S : Bell!Cardinality(S) = Cardinality(S)
BY Zenon DEF Cardinality, Bell!Cardinality

\* A list, those of it that are read, a number of unread ones that goes with them, and
\* what happened between the two.
Covers(list, read, unread, gap) ==
  /\ IsFiniteSet(list) /\ unread \in Nat
  /\ IsFiniteSet(gap.marked) /\ gap.arrived \in Nat
  /\ unread + Cardinality(gap.marked) >= Cardinality(list \ read)
  /\ noticeCount <= ListLimit => unread <= Cardinality(list \ read) + gap.arrived

\* A list whose unread ones are still to be counted: the newest of a former time.
HalfRead(list) ==
  /\ list = [items |-> list.items, read |-> list.read, of |-> list.of,
             unread |-> list.unread, between |-> list.between]
  /\ list.of \in Nat /\ list.of <= noticeCount
  /\ list.items = {n \in 1..list.of : n + ListLimit > list.of}
  /\ list.read \subseteq s2

\* The badge covers the list on the page, and so do the number and the list of every
\* answer that is still to come in.
BellInv ==
  /\ noticeCount \in Nat
  /\ Covers(items, itemsRead, unreadCount, between)
  /\ \A c \in bellCalls :
       /\ c.answer = "listed" => HalfRead(c.list)
       /\ c.kind = "list" /\ c.answer = "ok" =>
            Covers(c.list.items, c.list.read, c.list.unread, c.list.between)

\* At first there is nothing.
LEMMA BellStart == Bell!Init => BellInv
<1> SUFFICES ASSUME Bell!Init PROVE BellInv
  OBVIOUS
<1>1. /\ items = {} /\ itemsRead = {} /\ unreadCount = 0 /\ bellCalls = {} /\ noticeCount = 0
      /\ between.marked = {} /\ between.arrived = 0
  BY DEF Bell!Init, Bell!Nothing
<1>2. IsFiniteSet({}) /\ Cardinality({}) = 0
  BY FS_EmptySet
<1> QED BY <1>1, <1>2 DEF BellInv, Covers

\* A set that two others cover has no more elements than they have together.
LEMMA Covered ==
  ASSUME NEW S, NEW T, NEW U, IsFiniteSet(T), IsFiniteSet(U), S \subseteq T \cup U
  PROVE  Cardinality(S) <= Cardinality(T) + Cardinality(U)
<1>1. /\ Cardinality(T \cup U) = Cardinality(T) + Cardinality(U) - Cardinality(T \cap U)
      /\ IsFiniteSet(T \cup U)
  BY FS_Union
<1>2. IsFiniteSet(S) /\ Cardinality(S) <= Cardinality(T \cup U) /\ IsFiniteSet(T \cap U)
  BY <1>1, FS_Subset
<1>3. /\ Cardinality(S) \in Nat /\ Cardinality(T) \in Nat /\ Cardinality(U) \in Nat
      /\ Cardinality(T \cap U) \in Nat
  BY <1>2, FS_CardinalityType
<1> QED BY <1>1, <1>2, <1>3

\* The number that is counted after the list was read, however much has happened since.
LEMMA AnswerCovers ==
  ASSUME noticeCount \in Nat, NEW list, HalfRead(list), NEW gap,
         gap = [marked |-> (list.items \cap s2) \ list.read, arrived |-> noticeCount - list.of]
  PROVE  Covers(list.items, list.read, Cardinality(1..noticeCount \ s2), gap)
<1> DEFINE unread == 1..noticeCount \ s2
           shown  == list.items \ list.read
           later  == (list.of + 1)..noticeCount
<1>1. /\ list.of \in Nat /\ list.of <= noticeCount /\ list.read \subseteq s2
      /\ list.items = {n \in 1..list.of : n + ListLimit > list.of}
  BY DEF HalfRead
<1>2. gap.marked = (list.items \cap s2) \ list.read /\ gap.arrived = noticeCount - list.of
  OBVIOUS
<1>3. list.items \subseteq 1..noticeCount
  BY <1>1
<1>4. IsFiniteSet(1..noticeCount)
  BY FS_Interval
<1>5. IsFiniteSet(list.items) /\ IsFiniteSet(unread)
  BY <1>3, <1>4, FS_Subset
<1>6. IsFiniteSet(shown) /\ IsFiniteSet(gap.marked)
  BY <1>2, <1>5, FS_Subset
<1>7. IsFiniteSet(later) /\ Cardinality(later) = noticeCount - list.of
  <2>1. list.of + 1 \in Int /\ noticeCount \in Int
    BY <1>1
  <2>2. IsFiniteSet(later) /\ Cardinality(later) = (IF list.of + 1 > noticeCount THEN 0 ELSE noticeCount - (list.of + 1) + 1)
    BY <2>1, FS_Interval
  <2> HIDE DEF later
  <2> QED BY <1>1, <2>2
<1>8. Cardinality(shown) <= Cardinality(unread) + Cardinality(gap.marked)
  <2>1. shown \subseteq unread \cup gap.marked
    BY <1>2, <1>3
  <2> HIDE DEF unread, shown
  <2> QED BY <1>5, <1>6, <2>1, Covered
<1>9. ASSUME noticeCount <= ListLimit PROVE Cardinality(unread) <= Cardinality(shown) + gap.arrived
  <2>1. list.items = 1..list.of
    BY <1>1, <1>9, ConsolesAssumption
  <2>2. unread \subseteq shown \cup later
    BY <1>1, <2>1
  <2> HIDE DEF unread, shown, later
  <2> QED BY <1>2, <1>6, <1>7, <2>2, Covered
<1>10. /\ Cardinality(unread) \in Nat /\ Cardinality(shown) \in Nat /\ Cardinality(gap.marked) \in Nat
       /\ gap.arrived \in Nat
  BY <1>1, <1>2, <1>5, <1>6, FS_CardinalityType
<1> HIDE DEF unread, shown, later
<1>11. Cardinality(unread) + Cardinality(gap.marked) >= Cardinality(shown)
  BY <1>8, <1>10
<1> QED BY <1>5, <1>6, <1>9, <1>10, <1>11 DEF Covers, unread, shown

\* An item that is marked is one less, on the page and on the badge.
LEMMA MarkCovers ==
  ASSUME noticeCount \in Nat, Covers(items, itemsRead, unreadCount, between), NEW n \in items \ itemsRead
  PROVE  Covers(items, itemsRead \cup {n}, IF unreadCount = 0 THEN 0 ELSE unreadCount - 1, between)
<1>1. IsFiniteSet(items \ itemsRead) /\ unreadCount \in Nat /\ IsFiniteSet(between.marked)
  BY FS_Subset DEF Covers
<1>2. PICK k \in Nat : k = Cardinality(items \ itemsRead)
  BY <1>1, FS_CardinalityType
<1>3. PICK m \in Nat : m = Cardinality(between.marked)
  BY <1>1, FS_CardinalityType
<1>4. Cardinality((items \ itemsRead) \ {n}) = k - 1
  BY <1>1, <1>2, FS_RemoveElement
<1>5. items \ (itemsRead \cup {n}) = (items \ itemsRead) \ {n}
  OBVIOUS
<1>6. k - 1 \in Nat
  <2>1. IsFiniteSet((items \ itemsRead) \ {n})
    BY <1>1, FS_Subset
  <2> QED BY <1>4, <2>1, FS_CardinalityType
<1>7. /\ unreadCount + m >= k /\ between.arrived \in Nat
      /\ noticeCount <= ListLimit => unreadCount <= k + between.arrived
  BY <1>2, <1>3 DEF Covers
<1>8. PICK u : u = (IF unreadCount = 0 THEN 0 ELSE unreadCount - 1)
  OBVIOUS
<1>9. u \in Nat /\ u + m >= k - 1
  BY <1>1, <1>6, <1>7, <1>8
<1>10. noticeCount <= ListLimit => u <= (k - 1) + between.arrived
  BY <1>1, <1>6, <1>7, <1>8
<1> QED BY <1>3, <1>4, <1>5, <1>8, <1>9, <1>10 DEF Covers

\* Recording, listing, marking and settling keep the invariant.
LEMMA BellStep == BellInv /\ Bell!Next => BellInv'
<1> SUFFICES ASSUME BellInv, Bell!Next PROVE BellInv'
  OBVIOUS
<1> DEFINE Good(c) == /\ c.answer = "listed" => HalfRead(c.list)
                      /\ c.kind = "list" /\ c.answer = "ok" =>
                           Covers(c.list.items, c.list.read, c.list.unread, c.list.between)
<1>1. /\ noticeCount \in Nat /\ Covers(items, itemsRead, unreadCount, between)
      /\ \A c \in bellCalls : Good(c)
  BY DEF BellInv
<1>2. CASE Bell!Record
  <2>1. noticeCount' = noticeCount + 1 /\ UNCHANGED <<s2, s3, s4, s5, s6, s7>>
    BY <1>2 DEF Bell!Record
  <2>2. noticeCount' <= ListLimit => noticeCount <= ListLimit
    BY <1>1, <2>1, ConsolesAssumption
  <2>3. noticeCount' \in Nat
    BY <1>1, <2>1
  <2>4. \A n \in Nat : n <= noticeCount => n <= noticeCount'
    BY <1>1, <2>1
  <2> QED BY <1>1, <2>1, <2>2, <2>3, <2>4 DEF BellInv, Covers, HalfRead
<1>3. ASSUME noticeCount' = noticeCount, s2 \subseteq s2', Covers(items', itemsRead', unreadCount', between'),
             \A c \in bellCalls' : c \in bellCalls \/ Good(c)
      PROVE  BellInv'
  BY <1>1, <1>3 DEF BellInv, Covers, HalfRead
<1>4. CASE Bell!refresh
  <2>1. /\ bellCalls' = bellCalls \cup {Bell!Call("list", 0)} /\ UNCHANGED <<s1, s2, s3, s4, s5, s7>>
        /\ Bell!Call("list", 0).answer = "none"
    BY <1>4 DEF Bell!refresh, Bell!Call
  <2> QED BY <1>1, <1>3, <2>1
<1>5. CASE Bell!handleMarkAllRead
  <2>1. /\ itemsRead' = items /\ unreadCount' = 0 /\ UNCHANGED <<s1, s2, s3, s7>>
        /\ bellCalls' = bellCalls \cup {Bell!Call("readAll", 0)}
        /\ Bell!Call("readAll", 0).kind = "readAll" /\ Bell!Call("readAll", 0).answer = "none"
    BY <1>5 DEF Bell!handleMarkAllRead, Bell!Call
  <2>2. items \ items = {} /\ Cardinality({}) = 0
    BY FS_EmptySet
  <2>3. Cardinality(between.marked) \in Nat
    BY <1>1, FS_CardinalityType DEF Covers
  <2>4. Covers(items, items, 0, between)
    BY <1>1, <2>2, <2>3 DEF Covers
  <2> QED BY <1>3, <2>1, <2>4
<1>6. ASSUME NEW n, Bell!handleMarkRead(n) PROVE BellInv'
  <2>1. /\ n \in items \ itemsRead /\ itemsRead' = itemsRead \cup {n} /\ UNCHANGED <<s1, s2, s3, s7>>
        /\ unreadCount' = (IF unreadCount = 0 THEN 0 ELSE unreadCount - 1)
        /\ bellCalls' = bellCalls \cup {Bell!Call("read", n)}
        /\ Bell!Call("read", n).kind = "read" /\ Bell!Call("read", n).answer = "none"
    BY <1>6 DEF Bell!handleMarkRead, Bell!Call
  <2>2. Covers(items', itemsRead', unreadCount', between')
    BY <1>1, <2>1, MarkCovers
  <2> QED BY <1>3, <2>1, <2>2
<1>7. ASSUME NEW c \in bellCalls, NEW answer, NEW list, Bell!Answer(c, answer, list), s2 \subseteq s2',
             answer = "listed" => HalfRead(list),
             c.kind = "list" /\ answer = "ok" => Covers(list.items, list.read, list.unread, list.between)
      PROVE  BellInv'
  <2>1. PICK d : d = [c EXCEPT !.answer = answer, !.list = list]
    OBVIOUS
  <2>2. bellCalls' = (bellCalls \ {c}) \cup {d} /\ UNCHANGED <<s1, s3, s4, s5, s7>>
    BY <1>7, <2>1 DEF Bell!Answer
  <2>3. d.kind = c.kind /\ (d = c \/ (d.answer = answer /\ d.list = list))
    BY <2>1
  <2>4. d = c \/ Good(d)
    BY <1>7, <2>3
  <2> QED BY <1>1, <1>3, <1>7, <2>2, <2>4
<1>8. ASSUME NEW c \in bellCalls, Bell!ListForTenant(c) PROVE BellInv'
  <2>1. PICK list : /\ list = [Bell!None EXCEPT
                           !.items = {n \in 1..noticeCount : n + ListLimit > noticeCount},
                           !.read = {n \in 1..noticeCount : n + ListLimit > noticeCount} \cap s2,
                           !.of = noticeCount]
                    /\ Bell!Answer(c, "listed", list) /\ s2' = s2
    BY <1>8 DEF Bell!ListForTenant
  <2>2. /\ list.items = {n \in 1..noticeCount : n + ListLimit > noticeCount}
        /\ list.read \subseteq s2 /\ list.of = noticeCount
        /\ list = [items |-> list.items, read |-> list.read, of |-> list.of,
                   unread |-> list.unread, between |-> list.between]
    BY <2>1 DEF Bell!None
  <2>3. HalfRead(list)
    BY <1>1, <2>2 DEF HalfRead
  <2> QED BY <1>7, <2>1, <2>3
<1>9. ASSUME NEW c \in bellCalls, Bell!CountUnread(c) PROVE BellInv'
  <2>1. PICK gap : gap = [marked |-> (c.list.items \cap s2) \ c.list.read, arrived |-> noticeCount - c.list.of]
    OBVIOUS
  <2>2. PICK list : /\ list = [c.list EXCEPT !.unread = Cardinality(1..noticeCount \ s2), !.between = gap]
                    /\ Bell!Answer(c, "ok", list) /\ s2' = s2
    BY <1>9, <2>1, BellCounts DEF Bell!CountUnread
  <2>3. HalfRead(c.list)
    BY <1>1, <1>9 DEF Bell!CountUnread
  <2>4. Covers(c.list.items, c.list.read, Cardinality(1..noticeCount \ s2), gap)
    BY <1>1, <2>1, <2>3, AnswerCovers
  <2>5. /\ list.items = c.list.items /\ list.read = c.list.read
        /\ list.unread = Cardinality(1..noticeCount \ s2) /\ list.between = gap
    BY <2>2, <2>3 DEF HalfRead
  <2> QED BY <1>7, <2>2, <2>4, <2>5
<1>10. ASSUME NEW c \in bellCalls, Bell!Mark(c) PROVE BellInv'
  <2>1. c.kind # "list" /\ Bell!Answer(c, "ok", Bell!None) /\ s2 \subseteq s2'
    BY <1>10 DEF Bell!Mark
  <2> QED BY <1>7, <2>1
<1>11. ASSUME NEW c \in bellCalls, Bell!Fail(c) PROVE BellInv'
  <2>1. Bell!Answer(c, "failed", Bell!None) /\ s2' = s2
    BY <1>11 DEF Bell!Fail
  <2> QED BY <1>7, <2>1
<1>12. ASSUME NEW n, Bell!MarkedElsewhere(n) PROVE BellInv'
  <2>1. s2 \subseteq s2' /\ UNCHANGED <<s1, s3, s4, s5, s6, s7>>
    BY <1>12 DEF Bell!MarkedElsewhere
  <2> QED BY <1>1, <1>3, <2>1
<1>13. ASSUME NEW c \in bellCalls, Bell!RefreshSettles(c) PROVE BellInv'
  <2>1. c.kind = "list" /\ bellCalls' = bellCalls \ {c} /\ UNCHANGED <<s1, s2>>
    BY <1>13 DEF Bell!RefreshSettles
  <2>2. \/ /\ c.answer = "ok" /\ items' = c.list.items /\ itemsRead' = c.list.read
           /\ unreadCount' = c.list.unread /\ between' = c.list.between
        \/ UNCHANGED <<s3, s4, s5, s7>>
    BY <1>13 DEF Bell!RefreshSettles
  <2>3. Covers(items', itemsRead', unreadCount', between')
    BY <1>1, <2>1, <2>2
  <2> QED BY <1>3, <2>1, <2>3
<1>14. ASSUME NEW c \in bellCalls, Bell!MarkSettles(c) PROVE BellInv'
  <2>1. /\ UNCHANGED <<s1, s2, s3, s4, s5, s7>> /\ Bell!Call("list", 0).answer = "none"
        /\ \A d \in bellCalls' : d \in bellCalls \/ d = Bell!Call("list", 0)
    BY <1>14 DEF Bell!MarkSettles, Bell!Call
  <2> QED BY <1>1, <1>3, <2>1
<1> QED BY <1>2, <1>4, <1>5, <1>6, <1>8, <1>9, <1>10, <1>11, <1>12, <1>13, <1>14 DEF Bell!Next

\* Badge and list differ by no more than what happened between the two statements they
\* were read in, through marking, failures and late answers (NotificationBell.tsx,
\* ListNotificationsUseCase.rs).
THEOREM BadgeCovers == Spec => []BadgeCoversItems
<1> DEFINE Inv == program = "bell" => BellInv
<1>1. Init => Inv
  BY BellStart DEF Init
<1>2. Inv /\ [Next]_vars => Inv'
  <2>1. ASSUME Inv, [Next]_vars, program = "bell" PROVE BellInv'
    <3>1. CASE Bell!Next
      BY <2>1, <3>1, BellStep
    <3>2. CASE UNCHANGED vars
      BY <2>1, <3>2 DEF vars, BellInv, Covers, HalfRead
    <3> QED BY <2>1, <3>1, <3>2 DEF Next
  <2> QED BY <2>1, SameProgram
<1>3. Inv => BadgeCoversItems
  BY BellCounts DEF BadgeCoversItems, BellInv, Covers, Bell!BadgeCoversItems
<1> QED BY <1>1, <1>2, <1>3, PTL DEF Spec

-----------------------------------------------------------------------------
(* AdminConsole                                                            *)

instance  == s1   \* apiUrl
adminPage == s2   \* page
asked     == s7   \* requests
tenantId  == s8
shown     == s9

USE DEF instance, adminPage, asked, tenantId, shown

\* A request of the console.
IsRequest(r) == r = [kind |-> r.kind, tenant |-> r.tenant, at |-> r.at, live |-> r.live]

\* The answer to r would be shown.
Polls(r) == r.kind \in {"metrics", "sessions"} /\ r.live

\* A poll that was not cleaned up is of the page, the tenant and the instance there are
\* now; metrics are nobody's, and the other pages show nothing.
AdminInv ==
  /\ \A r \in asked : IsRequest(r)
  /\ \A r \in asked : Polls(r) => /\ r.tenant = tenantId /\ r.at = instance
                                  /\ r.kind = "metrics" => adminPage = "dashboard"
                                  /\ r.kind = "sessions" => adminPage = "sandbox"
  /\ adminPage = "dashboard" => tenantId = 0
  /\ adminPage \notin {"dashboard", "sandbox"} => shown = Admin!Nothing
  /\ Admin!ShownIsOfThisPage

\* The cleanup of effects and dialogs leaves no live request of theirs.
LEMMA CleanedUp ==
  ASSUME NEW rs, \A r \in rs : IsRequest(r), NEW kinds, NEW q \in Admin!Cleaned(rs, kinds)
  PROVE  /\ IsRequest(q)
         /\ q.kind \in kinds => ~q.live
         /\ q.kind \notin kinds => q \in rs
<1>1. PICK r \in rs : q = IF r.kind \in kinds THEN [r EXCEPT !.live = FALSE] ELSE r
  BY DEF Admin!Cleaned
<1>2. CASE r.kind \in kinds
  <2>1. r = [kind |-> r.kind, tenant |-> r.tenant, at |-> r.at, live |-> r.live]
    BY DEF IsRequest
  <2>2. q = [kind |-> r.kind, tenant |-> r.tenant, at |-> r.at, live |-> FALSE]
    BY <1>1, <1>2, <2>1
  <2> QED BY <1>2, <2>2 DEF IsRequest
<1>3. CASE r.kind \notin kinds
  BY <1>1, <1>3
<1> QED BY <1>2, <1>3

\* A page is mounted, whichever way one came to it.
LEMMA MountStep ==
  ASSUME NEW rs, \A r \in rs : IsRequest(r), NEW p, NEW i, Admin!Mount(p, i, rs), instance' = i
  PROVE  AdminInv'
<1> DEFINE gone == Admin!Cleaned(rs, {"metrics", "sessions"})
<1>1. \A q \in gone : IsRequest(q) /\ ~Polls(q)
  BY CleanedUp DEF Polls
<1>2. adminPage' = p /\ shown' = Admin!Nothing /\ tenantId' = IF p = "sandbox" THEN Admin!First ELSE 0
  BY DEF Admin!Mount
<1>3. /\ p = "dashboard" => asked' = gone \cup {Admin!Request("metrics", 0, i)}
      /\ p = "sandbox" => asked' = gone \cup {Admin!Request("sessions", Admin!First, i)} \/ asked' = gone
      /\ p \notin {"dashboard", "sandbox"} => asked' = gone
  BY DEF Admin!Mount
<1> HIDE DEF gone
<1>4. \A k, t : /\ IsRequest(Admin!Request(k, t, i)) /\ Admin!Request(k, t, i).kind = k
                /\ Admin!Request(k, t, i).tenant = t /\ Admin!Request(k, t, i).at = i
  BY DEF IsRequest, Admin!Request
<1>5. \A r \in asked' : IsRequest(r)
  BY <1>1, <1>3, <1>4
<1>6. ASSUME NEW r \in asked', Polls(r)
      PROVE  /\ r.tenant = tenantId' /\ r.at = instance'
             /\ r.kind = "metrics" => adminPage' = "dashboard"
             /\ r.kind = "sessions" => adminPage' = "sandbox"
  <2>1. CASE p = "dashboard"
    BY <1>1, <1>2, <1>3, <1>4, <1>6, <2>1
  <2>2. CASE p = "sandbox"
    BY <1>1, <1>2, <1>3, <1>4, <1>6, <2>2
  <2>3. CASE p \notin {"dashboard", "sandbox"}
    BY <1>1, <1>3, <1>6, <2>3
  <2> QED BY <2>1, <2>2, <2>3
<1>7. Admin!ShownIsOfThisPage'
  BY <1>2 DEF Admin!ShownIsOfThisPage, Admin!Nothing
<1> QED BY <1>2, <1>5, <1>6, <1>7 DEF AdminInv, IsRequest, Polls, Admin!Nothing

\* Navigation, polls, dialogs and answers keep the invariant.
LEMMA AdminStep == AdminInv /\ Admin!Next => AdminInv'
<1> SUFFICES ASSUME AdminInv, Admin!Next PROVE AdminInv'
  OBVIOUS
<1>1. /\ \A r \in asked : IsRequest(r)
      /\ \A r \in asked : Polls(r) => /\ r.tenant = tenantId /\ r.at = instance
                                      /\ r.kind = "metrics" => adminPage = "dashboard"
                                      /\ r.kind = "sessions" => adminPage = "sandbox"
  BY DEF AdminInv
<1>2. \A k, t, i : /\ IsRequest(Admin!Request(k, t, i)) /\ Admin!Request(k, t, i).kind = k
                   /\ Admin!Request(k, t, i).tenant = t /\ Admin!Request(k, t, i).at = i
  BY DEF IsRequest, Admin!Request
<1>3. ASSUME UNCHANGED <<s1, s2, s8, s9>>, \A r \in asked' : IsRequest(r) /\ (Polls(r) => r \in asked)
      PROVE  AdminInv'
  BY <1>1, <1>3 DEF AdminInv, IsRequest, Polls, Admin!ShownIsOfThisPage, Admin!Nothing
<1>4. ASSUME NEW i, Admin!LoginForm(i) PROVE AdminInv'
  <2>1. instance' = i /\ Admin!Mount(s3, i, asked)
    BY <1>4 DEF Admin!LoginForm
  <2> QED BY <1>1, <2>1, MountStep
<1>5. ASSUME NEW p, Admin!NavItem(p) PROVE AdminInv'
  <2>1. instance' = instance /\ Admin!Mount(p, instance, asked)
    BY <1>5 DEF Admin!NavItem
  <2> QED BY <1>1, <2>1, MountStep
<1>6. ASSUME NEW rs, NEW f, rs \subseteq asked, Admin!logout(rs, f) PROVE AdminInv'
  <2>1. instance' = 0 /\ Admin!Mount("login", 0, rs)
    BY <1>6 DEF Admin!logout
  <2>2. \A r \in rs : IsRequest(r)
    BY <1>1, <1>6
  <2> QED BY <2>1, <2>2, MountStep
<1>7. ASSUME NEW i, Admin!handleSave(i) PROVE AdminInv'
  <2>1. adminPage = "settings" /\ UNCHANGED <<s2, s7, s8, s9>>
    BY <1>7 DEF Admin!handleSave
  <2>2. shown = Admin!Nothing /\ \A r \in asked : ~Polls(r)
    BY <1>1, <2>1 DEF AdminInv, Polls
  <2> QED BY <1>1, <2>1, <2>2 DEF AdminInv, IsRequest, Polls, Admin!ShownIsOfThisPage, Admin!Nothing
<1>8. CASE Admin!SearchMatch \/ Admin!Disconnect \/ Admin!useIdleLogout
  BY <1>5, <1>6, <1>8 DEF Admin!SearchMatch, Admin!Disconnect, Admin!useIdleLogout
<1>9. CASE Admin!Poll
  <2>1. UNCHANGED <<s1, s2, s8, s9>>
    BY <1>9 DEF Admin!Poll
  <2>2. \/ adminPage = "dashboard" /\ asked' = asked \cup {Admin!Request("metrics", 0, instance)}
        \/ adminPage = "sandbox" /\ asked' = asked \cup {Admin!Request("sessions", tenantId, instance)}
    BY <1>9 DEF Admin!Poll
  <2>3. \A r \in asked' : Polls(r) => /\ r.tenant = tenantId /\ r.at = instance
                                      /\ r.kind = "metrics" => adminPage = "dashboard"
                                      /\ r.kind = "sessions" => adminPage = "sandbox"
    <3>1. CASE adminPage = "dashboard" /\ asked' = asked \cup {Admin!Request("metrics", 0, instance)}
      <4>1. tenantId = 0
        BY <3>1 DEF AdminInv
      <4> QED BY <1>1, <1>2, <3>1, <4>1
    <3>2. CASE adminPage = "sandbox" /\ asked' = asked \cup {Admin!Request("sessions", tenantId, instance)}
      BY <1>1, <1>2, <3>2
    <3> QED BY <2>2, <3>1, <3>2
  <2>4. \A r \in asked' : IsRequest(r)
    BY <1>1, <1>2, <2>2
  <2> QED BY <2>1, <2>3, <2>4 DEF AdminInv, IsRequest, Polls, Admin!ShownIsOfThisPage, Admin!Nothing
<1>10. ASSUME NEW t, Admin!SelectTenant(t) PROVE AdminInv'
  <2>1. /\ adminPage = "sandbox" /\ tenantId' = t /\ shown' = Admin!Nothing /\ UNCHANGED <<s1, s2>>
        /\ asked' = Admin!Cleaned(asked, {"sessions"}) \cup {Admin!Request("sessions", t, instance)}
    BY <1>10 DEF Admin!SelectTenant
  <2>2. \A q \in Admin!Cleaned(asked, {"sessions"}) : IsRequest(q) /\ ~Polls(q)
    <3>1. ASSUME NEW q \in Admin!Cleaned(asked, {"sessions"}) PROVE IsRequest(q) /\ ~Polls(q)
      <4>1. /\ IsRequest(q) /\ (q.kind \in {"sessions"} => ~q.live)
            /\ q.kind \notin {"sessions"} => q \in asked
        BY <1>1, CleanedUp
      <4> QED BY <1>1, <2>1, <4>1 DEF Polls
    <3> QED BY <3>1
  <2>3. \A r \in asked' : IsRequest(r)
    BY <1>2, <2>1, <2>2
  <2>4. \A r \in asked' : Polls(r) => r.tenant = t /\ r.at = instance /\ r.kind = "sessions"
    BY <1>2, <2>1, <2>2
  <2> QED BY <2>1, <2>3, <2>4 DEF AdminInv, IsRequest, Polls, Admin!ShownIsOfThisPage, Admin!Nothing
<1>11. ASSUME NEW r \in asked, NEW ok \in BOOLEAN, Admin!PollSettles(r, ok) PROVE AdminInv'
  <2>1. r.kind \in {"metrics", "sessions"} /\ asked' = asked \ {r} /\ UNCHANGED <<s1, s2, s8>>
    BY <1>11 DEF Admin!PollSettles
  <2>2. \/ shown' \in {shown, Admin!Nothing}
        \/ r.live /\ shown' = [of |-> r.tenant, at |-> r.at]
    BY <1>11 DEF Admin!PollSettles
  <2>3. CASE shown' \in {shown, Admin!Nothing}
    BY <1>1, <2>1, <2>3 DEF AdminInv, IsRequest, Polls, Admin!ShownIsOfThisPage, Admin!Nothing
  <2>4. CASE r.live /\ shown' = [of |-> r.tenant, at |-> r.at]
    <3>1. Polls(r)
      BY <2>1, <2>4 DEF Polls
    <3>2. r.tenant = tenantId /\ r.at = instance /\ adminPage \in {"dashboard", "sandbox"}
      BY <1>1, <2>1, <3>1
    <3>3. Admin!ShownIsOfThisPage'
      BY <2>1, <2>4, <3>2 DEF Admin!ShownIsOfThisPage
    <3> QED BY <1>1, <2>1, <3>2, <3>3 DEF AdminInv, IsRequest, Polls
  <2> QED BY <2>2, <2>3, <2>4
<1>12. ASSUME \/ \E k, t : Admin!OpenForm(k, t) \/ Admin!RowAction(k, t)
              \/ \E t : Admin!TrackTenantDialog(t)
              \/ Admin!mint
       PROVE  AdminInv'
  <2>1. UNCHANGED <<s1, s2, s7, s8, s9>>
    BY <1>12 DEF Admin!OpenForm, Admin!RowAction, Admin!TrackTenantDialog, Admin!mint
  <2> QED BY <1>1, <1>3, <2>1
<1>13. ASSUME NEW t, Admin!handleRotate(t) PROVE AdminInv'
  <2>1. asked' = asked \cup {Admin!Request("rotate", t, instance)} /\ UNCHANGED <<s1, s2, s8, s9>>
    BY <1>13 DEF Admin!handleRotate
  <2> QED BY <1>1, <1>2, <1>3, <2>1 DEF Polls
<1>14. CASE Admin!Submit
  <2>1. PICK k, t : /\ k \in Admin!FormKinds /\ asked' = asked \cup {Admin!Request(k, t, instance)}
                    /\ UNCHANGED <<s1, s2, s8, s9>>
    BY <1>14 DEF Admin!Submit
  <2>2. k \notin {"metrics", "sessions"}
    BY <2>1 DEF Admin!FormKinds
  <2> QED BY <1>1, <1>2, <1>3, <2>1, <2>2 DEF Polls
<1>15. ASSUME NEW rs, rs \subseteq asked, asked' = Admin!Cleaned(rs, Admin!FormKinds), UNCHANGED <<s1, s2, s8, s9>>
       PROVE  AdminInv'
  <2>1. \A r \in rs : IsRequest(r)
    BY <1>1, <1>15
  <2>2. ASSUME NEW q \in asked' PROVE IsRequest(q) /\ (Polls(q) => q \in asked)
    <3>1. /\ IsRequest(q) /\ (q.kind \in Admin!FormKinds => ~q.live)
          /\ q.kind \notin Admin!FormKinds => q \in rs
      BY <1>15, <2>1, CleanedUp
    <3> QED BY <1>15, <3>1 DEF Polls
  <2> QED BY <1>3, <1>15, <2>2
<1>16. CASE Admin!handleKeydown \/ Admin!Cancel
  <2>1. UNCHANGED <<s1, s2, s8, s9>> /\ (asked' = asked \/ asked' = Admin!Cleaned(asked, Admin!FormKinds))
    BY <1>16 DEF Admin!handleKeydown, Admin!Cancel
  <2> QED BY <1>1, <1>3, <1>15, <2>1
<1>17. ASSUME NEW r \in asked, Admin!CreateSettles(r) \/ Admin!LimitsSettles(r) \/ Admin!RevokeSettles(r)
       PROVE  AdminInv'
  <2>1. UNCHANGED <<s1, s2, s8, s9>> /\ asked' = Admin!Cleaned(asked \ {r}, Admin!FormKinds)
    BY <1>17 DEF Admin!CreateSettles, Admin!LimitsSettles, Admin!RevokeSettles
  <2> QED BY <1>15, <2>1
<1>18. ASSUME NEW r \in asked, Admin!RotateSettles(r) \/ Admin!Fails(r) PROVE AdminInv'
  <2>1. UNCHANGED <<s1, s2, s8, s9>> /\ asked' = asked \ {r}
    BY <1>18 DEF Admin!RotateSettles, Admin!Fails
  <2> QED BY <1>1, <1>3, <2>1
<1>19. ASSUME NEW r \in asked, Admin!Denied(r) PROVE AdminInv'
  BY <1>6, <1>19 DEF Admin!Denied
<1> QED BY <1>4, <1>5, <1>7, <1>8, <1>9, <1>10, <1>11, <1>12, <1>13, <1>14, <1>16, <1>17, <1>18, <1>19
        DEF Admin!Next

-----------------------------------------------------------------------------
(* SandboxSession                                                          *)

mounted   == s1
joins     == s4
clientRef == s5

USE DEF mounted, joins, clientRef

\* At most one run of the effect waits for its token, and only while no client is in
\* use; once the page is gone there is neither.
SandboxInv ==
  /\ joins = [k \in Sandbox!Runs |-> joins[k]]
  /\ \A k \in Sandbox!Runs : joins[k] = "joined" => k = clientRef
  /\ \A k, l \in Sandbox!Runs : joins[k] = "minting" /\ joins[l] \in {"minting", "joined"} => k = l
  /\ ~mounted => \A k \in Sandbox!Runs : joins[k] \notin {"minting", "joined"}

\* The cleanup leaves no run that waits and no client in use.
LEMMA CleanupStops ==
  ASSUME SandboxInv
  PROVE  /\ Sandbox!Cancelled(joins) = [k \in Sandbox!Runs |-> Sandbox!Cancelled(joins)[k]]
         /\ \A k \in Sandbox!Runs : Sandbox!Cancelled(joins)[k] \notin {"minting", "joined"}
<1>1. ASSUME NEW k \in Sandbox!Runs PROVE Sandbox!Cancelled(joins)[k] \notin {"minting", "joined"}
  <2>1. joins[k] = "joined" => k = clientRef
    BY DEF SandboxInv
  <2>2. Sandbox!Cancelled(joins)[k] = CASE joins[k] = "minting" -> "cancelled"
                                        [] joins[k] = "joined" /\ k = clientRef -> "left"
                                        [] OTHER -> joins[k]
    BY DEF Sandbox!Cancelled
  <2> QED BY <2>1, <2>2
<1>2. Sandbox!Cancelled(joins) = [k \in Sandbox!Runs |-> Sandbox!Cancelled(joins)[k]]
  BY DEF Sandbox!Cancelled
<1> QED BY <1>1, <1>2

\* A run of the effect, where none waits and no client is in use, is the only one.
LEMMA EffectStarts ==
  ASSUME NEW js, js = [k \in Sandbox!Runs |-> js[k]],
         \A k \in Sandbox!Runs : js[k] \notin {"minting", "joined"}
  PROVE  /\ Sandbox!RunEffect(js) = [k \in Sandbox!Runs |-> Sandbox!RunEffect(js)[k]]
         /\ \A k \in Sandbox!Runs : Sandbox!RunEffect(js)[k] # "joined"
         /\ \A k, l \in Sandbox!Runs :
              Sandbox!RunEffect(js)[k] = "minting" /\ Sandbox!RunEffect(js)[l] = "minting" => k = l
<1>1. PICK i : Sandbox!RunEffect(js) \in {js, [js EXCEPT ![i] = "minting"]}
  BY DEF Sandbox!RunEffect
<1>2. CASE Sandbox!RunEffect(js) = js
  BY <1>2
<1>3. CASE Sandbox!RunEffect(js) = [js EXCEPT ![i] = "minting"]
  <2>1. PICK m : m = [js EXCEPT ![i] = "minting"]
    OBVIOUS
  <2>2. \A k \in Sandbox!Runs : m[k] = IF k = i THEN "minting" ELSE js[k]
    BY <2>1
  <2>3. m = [k \in Sandbox!Runs |-> m[k]]
    BY <2>1
  <2> QED BY <1>3, <2>1, <2>2, <2>3
<1> QED BY <1>1, <1>2, <1>3

\* Effects, cleanups, tokens and sockets keep the invariant.
LEMMA SandboxStep == SandboxInv /\ Sandbox!Next => SandboxInv'
<1> SUFFICES ASSUME SandboxInv, Sandbox!Next PROVE SandboxInv'
  OBVIOUS
<1>1. ASSUME UNCHANGED <<s1, s4, s5>> PROVE SandboxInv'
  BY <1>1 DEF SandboxInv
<1>2. CASE Sandbox!StrictRemount
  <2>1. joins' = Sandbox!RunEffect(Sandbox!Cancelled(joins)) /\ mounted' = mounted /\ mounted
    BY <1>2 DEF Sandbox!StrictRemount
  <2> QED BY <2>1, CleanupStops, EffectStarts DEF SandboxInv
<1>3. ASSUME joins' = Sandbox!Gone(Sandbox!Cancelled(joins)) PROVE SandboxInv'
  <2>1. /\ joins' = [k \in Sandbox!Runs |-> joins'[k]]
        /\ \A k \in Sandbox!Runs : joins'[k] \in {"gone", Sandbox!Cancelled(joins)[k]}
    BY <1>3 DEF Sandbox!Gone
  <2>2. \A k \in Sandbox!Runs : joins'[k] \notin {"minting", "joined"}
    BY <2>1, CleanupStops
  <2> QED BY <2>1, <2>2 DEF SandboxInv
<1>4. CASE Sandbox!Leave
  BY <1>3, <1>4 DEF Sandbox!Leave, Sandbox!Unmount
<1>5. CASE Sandbox!ComeBack
  <2>1. ~mounted /\ joins' = Sandbox!RunEffect(joins) /\ mounted' = TRUE
    BY <1>5 DEF Sandbox!ComeBack
  <2>2. /\ joins = [k \in Sandbox!Runs |-> joins[k]]
        /\ \A k \in Sandbox!Runs : joins[k] \notin {"minting", "joined"}
    BY <2>1 DEF SandboxInv
  <2> QED BY <2>1, <2>2, EffectStarts DEF SandboxInv
<1>6. CASE Sandbox!LoginForm
  <2>1. ~mounted /\ joins' = joins
    BY <1>6 DEF Sandbox!LoginForm
  <2> QED BY <2>1 DEF SandboxInv
<1>7. ASSUME NEW k \in Sandbox!Runs, Sandbox!Joined(k) PROVE SandboxInv'
  <2>1. /\ joins[k] \in {"minting", "cancelled"} /\ mounted' = mounted
        /\ joins' = [joins EXCEPT ![k] = IF joins[k] = "minting" THEN "joined" ELSE "gone"]
        /\ clientRef' = IF joins[k] = "minting" THEN k ELSE clientRef
    BY <1>7 DEF Sandbox!Joined
  <2>2. CASE joins[k] = "minting"
    <3>1. joins' = [joins EXCEPT ![k] = "joined"] /\ clientRef' = k
      BY <2>1, <2>2
    <3>2. \A l \in Sandbox!Runs : joins'[l] = IF l = k THEN "joined" ELSE joins[l]
      BY <3>1 DEF SandboxInv
    <3>3. joins' = [l \in Sandbox!Runs |-> joins'[l]]
      BY <3>1 DEF SandboxInv
    <3>4. mounted /\ \A l \in Sandbox!Runs : l # k => joins[l] \notin {"minting", "joined"}
      BY <2>2 DEF SandboxInv
    <3> QED BY <2>1, <3>1, <3>2, <3>3, <3>4 DEF SandboxInv
  <2>3. CASE joins[k] # "minting"
    <3>1. joins' = [joins EXCEPT ![k] = "gone"] /\ clientRef' = clientRef
      BY <2>1, <2>3
    <3>2. \A l \in Sandbox!Runs : joins'[l] = IF l = k THEN "gone" ELSE joins[l]
      BY <3>1 DEF SandboxInv
    <3>3. joins' = [l \in Sandbox!Runs |-> joins'[l]]
      BY <3>1 DEF SandboxInv
    <3> QED BY <2>1, <3>1, <3>2, <3>3 DEF SandboxInv
  <2> QED BY <2>2, <2>3
<1>8. ASSUME NEW k \in Sandbox!Runs, Sandbox!MintFails(k) PROVE SandboxInv'
  <2>1. joins' = [joins EXCEPT ![k] = "gone"] /\ UNCHANGED <<s1, s5>>
    BY <1>8 DEF Sandbox!MintFails
  <2>2. \A l \in Sandbox!Runs : joins'[l] = IF l = k THEN "gone" ELSE joins[l]
    BY <2>1 DEF SandboxInv
  <2>3. joins' = [l \in Sandbox!Runs |-> joins'[l]]
    BY <2>1 DEF SandboxInv
  <2> QED BY <2>1, <2>2, <2>3 DEF SandboxInv
<1>9. ASSUME NEW k \in Sandbox!Runs, Sandbox!MintDenied(k) PROVE SandboxInv'
  <2>1. joins' = [Sandbox!Gone(Sandbox!Cancelled(joins)) EXCEPT ![k] = "gone"]
    BY <1>9 DEF Sandbox!MintDenied
  <2>2. /\ joins' = [l \in Sandbox!Runs |-> joins'[l]]
        /\ \A l \in Sandbox!Runs : joins'[l] \in {"gone", Sandbox!Cancelled(joins)[l]}
    BY <2>1 DEF Sandbox!Gone
  <2>3. \A l \in Sandbox!Runs : joins'[l] \notin {"minting", "joined"}
    BY <2>2, CleanupStops
  <2> QED BY <2>2, <2>3 DEF SandboxInv
<1>10. ASSUME \/ Sandbox!handleSend \/ Sandbox!TheySend
              \/ (\E k : Sandbox!SocketOpens(k) \/ Sandbox!SocketCloses(k) \/ Sandbox!Receive(k))
       PROVE  SandboxInv'
  BY <1>1, <1>10 DEF Sandbox!handleSend, Sandbox!TheySend, Sandbox!SocketOpens, Sandbox!SocketCloses,
                     Sandbox!Receive
<1> QED BY <1>2, <1>4, <1>5, <1>6, <1>7, <1>8, <1>9, <1>10 DEF Sandbox!Next

\* What the admin console shows is of the selected tenant and the connected instance,
\* although polls overlap and answers come late; its sandbox tab is on its channel as
\* one agent, and as none once it is left (SandboxPage.tsx, DashboardPage.tsx,
\* SandboxSessionPage.tsx).
THEOREM AdminStaysOnItsPage == Spec => []AdminKeepsToItsPage
<1> DEFINE Inv == (program = "admin" => AdminInv) /\ (program = "sandbox" => SandboxInv)
<1>1. Init => Inv
  <2>1. Admin!Init => AdminInv
    BY DEF Admin!Init, AdminInv, Admin!ShownIsOfThisPage
  <2>2. Sandbox!Init => SandboxInv
    BY DEF Sandbox!Init, SandboxInv
  <2> QED BY <2>1, <2>2 DEF Init
<1>2. Inv /\ [Next]_vars => Inv'
  <2>1. ASSUME Inv, [Next]_vars, program = "admin" PROVE AdminInv'
    <3>1. CASE Admin!Next
      BY <2>1, <3>1, AdminStep
    <3>2. CASE UNCHANGED vars
      BY <2>1, <3>2 DEF vars, AdminInv, IsRequest, Polls, Admin!ShownIsOfThisPage, Admin!Nothing
    <3> QED BY <2>1, <3>1, <3>2 DEF Next
  <2>2. ASSUME Inv, [Next]_vars, program = "sandbox" PROVE SandboxInv'
    <3>1. CASE Sandbox!Next
      BY <2>2, <3>1, SandboxStep
    <3>2. CASE UNCHANGED vars
      BY <2>2, <3>2 DEF vars, SandboxInv
    <3> QED BY <2>2, <3>1, <3>2 DEF Next
  <2> QED BY <2>1, <2>2, SameProgram
<1>3. Inv => AdminKeepsToItsPage
  <2>1. AdminInv => Admin!ShownIsOfThisPage
    BY DEF AdminInv
  <2>2. SandboxInv => Sandbox!OneAgent
    BY DEF SandboxInv, Sandbox!OneAgent, Sandbox!InUse
  <2> QED BY <2>1, <2>2 DEF AdminKeepsToItsPage
<1> QED BY <1>1, <1>2, <1>3, PTL DEF Spec

-----------------------------------------------------------------------------
(* PortalTables                                                            *)

resource   == s1
owner      == s2
gone       == s3
session    == s4
portalPage == s5   \* page
table      == s6
dialog     == s7
requests   == s8
removed    == s9

USE DEF resource, owner, gone, session, portalPage, table, dialog, requests, removed

\* A request of a resource page.
IsPageRequest(c) ==
  c = [kind |-> c.kind, session |-> c.session, row |-> c.row, rows |-> c.rows, mounted |-> c.mounted,
       cancelled |-> c.cancelled, dialog |-> c.dialog, answer |-> c.answer]

IsDialog(d) == d = [kind |-> d.kind, row |-> d.row, mounted |-> d.mounted, busy |-> d.busy]

\* A load whose answer the table will take.
Awaited(c) == c.kind = "load" /\ ~c.cancelled

\* Rows of the tenant that is signed in.
Mine(r)   == session # 0 /\ r \in Row /\ owner[r] = session
Own(rows) == \A d \in rows : Mine(d[1])

\* The page that is mounted offers to remove rows of the session.
Confirms(d) == d.kind = "confirm" /\ d.mounted => Mine(d.row)

\* The records, and a session on every page but the login form.
PageInv ==
  /\ owner \in [Row -> Tenants \cup {0}] /\ session \in Tenants \cup {0}
  /\ session = 0 <=> portalPage = "login"
  /\ table = [data |-> table.data, loading |-> table.loading, error |-> table.error]
  /\ IsDialog(dialog)
  /\ dialog.mounted => portalPage = "table"
  /\ Confirms(dialog)

\* What an awaited load was sent for and brings is of the session there is now, and shows
\* the rows this page has seen removed as they are; a removal that succeeded has happened,
\* and what a mounted page asks to remove is the session's.
Fits(c) ==
  /\ IsPageRequest(c) /\ c.session \in Tenants \cup {0}
  /\ c.mounted => portalPage = "table"
  /\ Awaited(c) => portalPage = "table" /\ c.session = session
  /\ Awaited(c) /\ c.answer = "ok" => Own(c.rows) /\ Resources!Reflects(c.rows)
  /\ c.kind = "remove" /\ c.answer = "ok" => c.row \in gone
  /\ c.kind = "remove" /\ c.mounted => Mine(c.row)

\* Rows of the session that were removed.
Removals(rs) == \A r \in rs : r \in gone /\ Mine(r)

\* What is on the screen.
ScreenInv ==
  /\ Own(table.data)
  /\ Removals(removed)
  /\ Resources!RemovedStaysRemoved

ResourcesInv == PageInv /\ (\A c \in requests : Fits(c)) /\ ScreenInv

\* d is what has become of c when dialogs or loads were given up.
Since(d, c) ==
  /\ IsPageRequest(d)
  /\ d.kind = c.kind /\ d.row = c.row /\ d.answer = c.answer
  /\ d.session = c.session /\ d.rows = c.rows

\* Cancelled loads are not awaited; nothing else changes.
LEMMA Cancelled ==
  ASSUME NEW cs, \A c \in cs : IsPageRequest(c), NEW d \in Resources!Cancel(cs)
  PROVE  \E c \in cs : Since(d, c) /\ d.mounted = c.mounted /\ ~Awaited(d)
<1>1. PICK c \in cs : d = [c EXCEPT !.cancelled = (c.kind = "load")]
  BY DEF Resources!Cancel
<1>2. c = [kind |-> c.kind, session |-> c.session, row |-> c.row, rows |-> c.rows,
           mounted |-> c.mounted, cancelled |-> c.cancelled, dialog |-> c.dialog, answer |-> c.answer]
  BY DEF IsPageRequest
<1>3. d = [kind |-> c.kind, session |-> c.session, row |-> c.row, rows |-> c.rows,
           mounted |-> c.mounted, cancelled |-> (c.kind = "load"), dialog |-> c.dialog,
           answer |-> c.answer]
  BY <1>1, <1>2
<1>4. d.kind = c.kind /\ d.mounted = c.mounted /\ (d.kind = "load" => d.cancelled)
  BY <1>3
<1>5. Since(d, c)
  BY <1>3 DEF Since, IsPageRequest
<1> QED BY <1>4, <1>5 DEF Awaited

\* The requests of a page that was left are not awaited and know it.
LEMMA Unmounted ==
  ASSUME NEW cs, \A c \in cs : IsPageRequest(c), NEW d \in Resources!Unmount(cs)
  PROVE  \E c \in cs : Since(d, c) /\ ~d.mounted /\ ~Awaited(d)
<1>1. PICK e \in Resources!Cancel(cs) : d = [e EXCEPT !.mounted = FALSE]
  BY DEF Resources!Unmount
<1>2. PICK c \in cs : Since(e, c) /\ ~Awaited(e)
  BY Cancelled
<1>3. e = [kind |-> e.kind, session |-> e.session, row |-> e.row, rows |-> e.rows,
           mounted |-> e.mounted, cancelled |-> e.cancelled, dialog |-> e.dialog, answer |-> e.answer]
  BY <1>2 DEF Since, IsPageRequest
<1>4. d = [kind |-> e.kind, session |-> e.session, row |-> e.row, rows |-> e.rows,
           mounted |-> FALSE, cancelled |-> e.cancelled, dialog |-> e.dialog, answer |-> e.answer]
  BY <1>1, <1>3
<1>5. ~d.mounted /\ d.kind = e.kind /\ d.cancelled = e.cancelled
  BY <1>4
<1>6. Since(d, c)
  BY <1>2, <1>4 DEF Since, IsPageRequest
<1> QED BY <1>2, <1>5, <1>6 DEF Awaited

\* A dialog that is closed changes nothing else of its request.
LEMMA Detached ==
  ASSUME NEW cs, \A c \in cs : IsPageRequest(c), NEW d \in Resources!Detach(cs)
  PROVE  \E c \in cs : Since(d, c) /\ d.mounted = c.mounted /\ d.cancelled = c.cancelled
<1>1. PICK c \in cs : d = [c EXCEPT !.dialog = FALSE]
  BY DEF Resources!Detach
<1>2. c = [kind |-> c.kind, session |-> c.session, row |-> c.row, rows |-> c.rows,
           mounted |-> c.mounted, cancelled |-> c.cancelled, dialog |-> c.dialog, answer |-> c.answer]
  BY DEF IsPageRequest
<1>3. d = [kind |-> c.kind, session |-> c.session, row |-> c.row, rows |-> c.rows,
           mounted |-> c.mounted, cancelled |-> c.cancelled, dialog |-> FALSE, answer |-> c.answer]
  BY <1>1, <1>2
<1> QED BY <1>3 DEF Since, IsPageRequest

\* Requests that fit still do when dialogs are closed.
LEMMA DetachedFit ==
  ASSUME NEW cs, \A c \in cs : Fits(c) PROVE \A d \in Resources!Detach(cs) : Fits(d)
<1> TAKE d \in Resources!Detach(cs)
<1>1. PICK c \in cs : Since(d, c) /\ d.mounted = c.mounted /\ d.cancelled = c.cancelled
  BY Detached DEF Fits
<1> QED BY <1>1 DEF Fits, Since, Awaited

\* A page that is left shows nothing and awaits nothing.
LEMMA LeaveStep ==
  ASSUME PageInv, NEW cs, \A c \in cs : Fits(c), NEW d, IsDialog(d), NEW p,
         Resources!LeaveTo(p, cs, d), session' = 0 <=> p = "login", session' \in Tenants \cup {0}, UNCHANGED <<resource, owner, gone>>
  PROVE  ResourcesInv'
<1>1. /\ portalPage' = p /\ table' = [data |-> {}, loading |-> TRUE, error |-> FALSE]
      /\ removed' = {} /\ requests' = Resources!Unmount(cs) /\ dialog' = [d EXCEPT !.mounted = FALSE]
  BY DEF Resources!LeaveTo, Resources!Fresh
<1>2. table'.data = {} /\ table'.loading
      /\ table' = [data |-> table'.data, loading |-> table'.loading, error |-> table'.error]
  BY <1>1
<1>3. IsDialog(dialog') /\ ~dialog'.mounted
  <2>1. d = [kind |-> d.kind, row |-> d.row, mounted |-> d.mounted, busy |-> d.busy]
    BY DEF IsDialog
  <2>2. dialog' = [kind |-> d.kind, row |-> d.row, mounted |-> FALSE, busy |-> d.busy]
    BY <1>1, <2>1
  <2> QED BY <2>2 DEF IsDialog
<1>4. PageInv'
  BY <1>1, <1>2, <1>3 DEF PageInv, IsDialog, Confirms, Mine
<1>5. ASSUME NEW e \in requests' PROVE Fits(e)'
  <2>1. PICK c \in cs : Since(e, c) /\ ~e.mounted /\ ~Awaited(e)
    BY <1>1, Unmounted DEF Fits
  <2>2. c.kind = "remove" /\ c.answer = "ok" => c.row \in gone
    BY DEF Fits
  <2> QED BY <2>1, <2>2 DEF Fits, Since, Awaited
<1>6. ScreenInv'
  BY <1>1, <1>2 DEF ScreenInv, Own, Mine, Removals, Resources!RemovedStaysRemoved, Resources!Reflects
<1> QED BY <1>4, <1>5, <1>6 DEF ResourcesInv

\* A reload awaits no load but its own, which is of the session there is.
LEMMA ReloadStep ==
  ASSUME PageInv, NEW cs, \A c \in cs : Fits(c), NEW t, Resources!Reload(t, cs),
         t = [data |-> t.data, loading |-> t.loading, error |-> t.error], Own(t.data),
         portalPage' = "table", session # 0, UNCHANGED <<resource, owner, gone, session>>,
         Removals(removed'), IsDialog(dialog'),
         Confirms(dialog')
  PROVE  ResourcesInv'
<1>1. PICK q : /\ q = [kind |-> "load", session |-> session, row |-> 0, rows |-> {}, mounted |-> TRUE,
                       cancelled |-> FALSE, dialog |-> FALSE, answer |-> "none"]
               /\ requests' = Resources!Cancel(cs) \cup {q}
               /\ table' = [t EXCEPT !.loading = TRUE, !.error = FALSE]
  BY DEF Resources!Reload, Resources!Request
<1>2. table' = [data |-> t.data, loading |-> TRUE, error |-> FALSE]
  BY <1>1
<1>3. /\ table'.data = t.data /\ table'.loading
      /\ table' = [data |-> table'.data, loading |-> table'.loading, error |-> table'.error]
  BY <1>2
<1>4. PageInv'
  BY <1>3 DEF PageInv, IsDialog, Confirms, Mine
<1>5. ASSUME NEW e \in Resources!Cancel(cs) PROVE Fits(e)'
  <2>1. PICK c \in cs : Since(e, c) /\ e.mounted = c.mounted /\ ~Awaited(e)
    BY Cancelled DEF Fits
  <2>2. /\ c.kind = "remove" /\ c.answer = "ok" => c.row \in gone
        /\ c.kind = "remove" /\ c.mounted => Mine(c.row)
    BY DEF Fits
  <2> QED BY <2>1, <2>2 DEF Fits, Since, Awaited, Mine
<1>6. Fits(q)'
  <2>1. IsPageRequest(q) /\ q.session = session /\ q.answer = "none" /\ q.kind = "load"
    BY <1>1 DEF IsPageRequest
  <2> QED BY <2>1 DEF Fits, Awaited, PageInv
<1>7. ScreenInv'
  BY <1>3 DEF ScreenInv, Own, Mine, Removals, Resources!RemovedStaysRemoved, Resources!Reflects
<1> QED BY <1>1, <1>4, <1>5, <1>6, <1>7 DEF ResourcesInv

\* Requests and dialogs come and go; screen, session and rows stay.
LEMMA CallsStep ==
  ASSUME ResourcesInv, UNCHANGED <<resource, owner, gone, session, portalPage, table, removed>>,
         \A c \in requests' : Fits(c), IsDialog(dialog'), dialog'.mounted => portalPage = "table",
         Confirms(dialog')
  PROVE  ResourcesInv'
<1>1. PageInv'
  BY DEF ResourcesInv, PageInv, IsDialog, Confirms, Mine
<1>2. ScreenInv'
  BY DEF ResourcesInv, ScreenInv, Own, Mine, Removals, Resources!RemovedStaysRemoved, Resources!Reflects
<1>3. \A c \in requests' : Fits(c)'
  BY DEF Fits, Own, Mine, Awaited, IsPageRequest, Resources!Reflects
<1> QED BY <1>1, <1>2, <1>3 DEF ResourcesInv

\* The refresh of a page: a reload where it is mounted, nothing where it is not.
LEMMA RefreshStep ==
  ASSUME ResourcesInv, NEW cs, \A c \in cs : Fits(c), NEW mnt, mnt => portalPage = "table",
         Resources!Refresh(mnt, cs), UNCHANGED <<resource, owner, gone, session, portalPage>>,
         Removals(removed'), ~mnt => removed' = removed,
         dialog' = Resources!NoDialog
  PROVE  ResourcesInv'
<1>1. IsDialog(dialog') /\ ~dialog'.mounted /\ Confirms(dialog')
  BY DEF IsDialog, Confirms, Resources!NoDialog
<1>2. CASE mnt
  <2>1. /\ PageInv /\ Own(table.data) /\ session # 0
        /\ table = [data |-> table.data, loading |-> table.loading, error |-> table.error]
    BY <1>2 DEF ResourcesInv, PageInv, ScreenInv
  <2>2. Resources!Reload(table, cs)
    BY <1>2 DEF Resources!Refresh
  <2>3. portalPage' = "table"
    BY <1>2
  <2> QED BY <1>1, <2>1, <2>2, <2>3, ReloadStep
<1>3. CASE ~mnt
  <2>1. requests' = cs /\ UNCHANGED <<table, removed>>
    BY <1>3 DEF Resources!Refresh
  <2> QED BY <1>1, <2>1, CallsStep
<1> QED BY <1>2, <1>3

\* A request that has just been sent from the page or a dialog.
LEMMA SentFits ==
  ASSUME PageInv, NEW k, NEW r, NEW m, NEW d, k # "load", m => portalPage = "table",
         k = "remove" /\ m => Mine(r)
  PROVE  Fits(Resources!Request(k, r, m, d))
<1>1. PICK q : q = Resources!Request(k, r, m, d)
  OBVIOUS
<1>2. q = [kind |-> k, session |-> session, row |-> r, rows |-> {}, mounted |-> m,
           cancelled |-> FALSE, dialog |-> d, answer |-> "none"]
  BY <1>1 DEF Resources!Request
<1>3. /\ IsPageRequest(q) /\ q.kind = k /\ q.answer = "none" /\ q.mounted = m
      /\ q.session = session /\ q.row = r
  BY <1>2 DEF IsPageRequest
<1> QED BY <1>1, <1>3 DEF Fits, Awaited, PageInv

\* Request c with the answer a, about row r, and with the rows rs.
With(c, a, r, rs) == [c EXCEPT !.answer = a, !.row = r, !.rows = rs]

\* The server's answer to a request: all but answer, row and rows is as it was sent.
LEMMA Answered ==
  ASSUME NEW c, IsPageRequest(c), NEW a, NEW r, NEW rs, NEW d, d = With(c, a, r, rs)
  PROVE  /\ IsPageRequest(d)
         /\ d.kind = c.kind /\ d.session = c.session /\ d.mounted = c.mounted
         /\ d.cancelled = c.cancelled /\ d.answer = a /\ d.row = r /\ d.rows = rs
<1>1. c = [kind |-> c.kind, session |-> c.session, row |-> c.row, rows |-> c.rows,
           mounted |-> c.mounted, cancelled |-> c.cancelled, dialog |-> c.dialog, answer |-> c.answer]
  BY DEF IsPageRequest
<1>2. d = [kind |-> c.kind, session |-> c.session, row |-> r, rows |-> rs,
           mounted |-> c.mounted, cancelled |-> c.cancelled, dialog |-> c.dialog, answer |-> a]
  BY <1>1 DEF With
<1> QED BY <1>2 DEF IsPageRequest

\* The list of the session's tenant shows removed rows as what they are.
LEMMA ListedRight ==
  ASSUME session # 0, Removals(removed)
  PROVE  Own(Resources!Listed(session)) /\ Resources!Reflects(Resources!Listed(session))
<1> DEFINE own == {r \in Row : owner[r] = session}
           old == IF resource = "keys" THEN {<<r, "revoked">> : r \in own \cap gone} ELSE {}
<1>1. Resources!Listed(session) = {<<r, "active">> : r \in own \ gone} \cup old
  BY DEF Resources!Listed
<1>2. Own(Resources!Listed(session))
  BY <1>1 DEF Own, Mine
<1>3. ASSUME NEW r \in removed
      PROVE  /\ <<r, "active">> \notin Resources!Listed(session)
             /\ <<r, "revoked">> \in Resources!Listed(session) <=> resource = "keys"
  <2>1. r \in own /\ r \in gone
    BY <1>3 DEF Removals, Mine
  <2> QED BY <1>1, <2>1
<1> QED BY <1>2, <1>3 DEF Resources!Reflects

\* The server carries out reads and writes, or refuses.
LEMMA ServerStep ==
  ASSUME ResourcesInv, NEW c \in requests,
         Resources!ServeRead(c) \/ Resources!ServeWrite(c) \/ Resources!Refuse(c)
  PROVE  ResourcesInv'
<1>1. PageInv /\ (\A q \in requests : Fits(q)) /\ ScreenInv
  BY DEF ResourcesInv
<1>2. /\ IsPageRequest(c) /\ IsDialog(dialog) /\ Confirms(dialog)
      /\ (dialog.mounted => portalPage = "table")
  BY <1>1 DEF Fits, PageInv
<1>3. CASE Resources!ServeRead(c)
  <2>1. PICK rs : rs = IF c.kind = "load" THEN Resources!Listed(c.session) ELSE {}
    OBVIOUS
  <2>2. PICK d : d = With(c, "ok", c.row, rs)
    OBVIOUS
  <2>3. /\ requests' = (requests \ {c}) \cup {d} /\ c.kind # "remove"
        /\ UNCHANGED <<resource, owner, gone, session, portalPage, table, removed, dialog>>
    <3>1. d = [c EXCEPT !.answer = "ok", !.rows = rs]
      BY <1>2, <2>2 DEF IsPageRequest, With
    <3> QED BY <1>3, <2>1, <3>1 DEF Resources!ServeRead, Resources!Answer, Resources!pageVars
  <2>4. /\ IsPageRequest(d) /\ d.kind = c.kind /\ d.session = c.session /\ d.mounted = c.mounted
        /\ d.cancelled = c.cancelled /\ d.rows = rs /\ d.row = c.row
    BY <1>2, <2>2, Answered
  <2>5. Awaited(d) => portalPage = "table" /\ d.session = session /\ c.kind = "load"
    BY <1>1, <2>4 DEF Fits, Awaited
  <2>6. Awaited(d) => Own(d.rows) /\ Resources!Reflects(d.rows)
    <3>1. SUFFICES ASSUME Awaited(d) PROVE Own(d.rows) /\ Resources!Reflects(d.rows)
      OBVIOUS
    <3>2. d.rows = Resources!Listed(session) /\ session # 0
      BY <1>1, <2>1, <2>4, <2>5, <3>1 DEF PageInv
    <3> QED BY <1>1, <3>2, ListedRight DEF ScreenInv
  <2>7. Fits(d)
    BY <1>1, <2>3, <2>4, <2>5, <2>6 DEF Fits
  <2> QED BY <1>1, <1>2, <2>3, <2>7, CallsStep
<1>4. CASE Resources!Refuse(c)
  <2>1. PICK a \in {"failed", "denied"} : requests' = (requests \ {c}) \cup {[c EXCEPT !.answer = a]}
    BY <1>4 DEF Resources!Refuse, Resources!Answer
  <2>2. PICK d : d = With(c, a, c.row, c.rows)
    OBVIOUS
  <2>3. d = [c EXCEPT !.answer = a]
    BY <1>2, <2>2 DEF IsPageRequest, With
  <2>4. /\ IsPageRequest(d) /\ d.kind = c.kind /\ d.session = c.session /\ d.mounted = c.mounted
        /\ d.cancelled = c.cancelled /\ d.answer = a /\ d.row = c.row
    BY <1>2, <2>2, Answered
  <2>5. Fits(d)
    BY <1>1, <2>1, <2>4 DEF Fits, Awaited
  <2>6. UNCHANGED <<resource, owner, gone, session, portalPage, table, removed, dialog>>
    BY <1>4 DEF Resources!Refuse, Resources!pageVars
  <2> QED BY <1>1, <1>2, <2>1, <2>3, <2>5, <2>6, CallsStep
<1>5. CASE Resources!ServeWrite(c)
  <2>1. PICK a \in {"ok", "failed"} :
          \/ /\ c.kind = "generate" \/ (c.kind = "save" /\ c.row = 0)
             /\ \E r \in Row : /\ owner[r] = 0
                               /\ owner' = [owner EXCEPT ![r] = c.session]
                               /\ requests' = (requests \ {c}) \cup {[c EXCEPT !.answer = a, !.row = r]}
             /\ UNCHANGED gone
          \/ /\ c.kind = "remove"
             /\ gone' = gone \cup {c.row}
             /\ requests' = (requests \ {c}) \cup {[c EXCEPT !.answer = a]}
             /\ UNCHANGED owner
    BY <1>5 DEF Resources!ServeWrite, Resources!Answer
  <2>2. UNCHANGED <<resource, session, portalPage, table, removed, dialog>>
    BY <1>5 DEF Resources!ServeWrite, Resources!pageVars
  <2>3. CASE /\ c.kind = "generate" \/ (c.kind = "save" /\ c.row = 0)
             /\ UNCHANGED gone
             /\ \E r \in Row : /\ owner[r] = 0
                               /\ owner' = [owner EXCEPT ![r] = c.session]
                               /\ requests' = (requests \ {c}) \cup {[c EXCEPT !.answer = a, !.row = r]}
    <3>1. PICK r \in Row : /\ owner[r] = 0
                           /\ owner' = [owner EXCEPT ![r] = c.session]
                           /\ requests' = (requests \ {c}) \cup {[c EXCEPT !.answer = a, !.row = r]}
      BY <2>3
    <3>2. PICK d : d = With(c, a, r, c.rows)
      OBVIOUS
    <3>3. d = [c EXCEPT !.answer = a, !.row = r]
      BY <1>2, <3>2 DEF IsPageRequest, With
    <3>4. IsPageRequest(d) /\ d.kind = c.kind /\ d.mounted = c.mounted /\ d.session = c.session
      BY <1>2, <3>2, Answered
    <3>5. ASSUME NEW r2, Mine(r2) PROVE Mine(r2)'
      BY <1>1, <2>2, <3>1, <3>5 DEF Mine, PageInv
    <3>6. ASSUME NEW q \in requests PROVE Fits(q)'
      BY <1>1, <2>2, <2>3, <3>5 DEF Fits, Own, Awaited, IsPageRequest, Resources!Reflects
    <3>7. Fits(d)'
      BY <1>1, <2>2, <2>3, <3>4 DEF Fits, Awaited, IsPageRequest
    <3>8. ScreenInv'
      BY <1>1, <2>2, <2>3, <3>5
        DEF ScreenInv, Own, Removals, Resources!RemovedStaysRemoved, Resources!Reflects
    <3>9. PageInv'
      <4>1. owner' \in [Row -> Tenants \cup {0}]
        BY <1>1, <3>1 DEF PageInv, Fits
      <4> QED BY <1>1, <2>2, <2>3, <3>5, <4>1 DEF PageInv, IsDialog, Confirms
    <3> QED BY <3>1, <3>3, <3>6, <3>7, <3>8, <3>9 DEF ResourcesInv
  <2>4. CASE /\ c.kind = "remove"
             /\ gone' = gone \cup {c.row}
             /\ requests' = (requests \ {c}) \cup {[c EXCEPT !.answer = a]}
             /\ UNCHANGED owner
    <3>1. PICK d : d = With(c, a, c.row, c.rows)
      OBVIOUS
    <3>2. d = [c EXCEPT !.answer = a]
      BY <1>2, <3>1 DEF IsPageRequest, With
    <3>3. IsPageRequest(d) /\ d.kind = c.kind /\ d.mounted = c.mounted /\ d.row = c.row /\ d.session = c.session
      BY <1>2, <3>1, Answered
    <3>4. ASSUME NEW q \in requests PROVE Fits(q)'
      BY <1>1, <2>2, <2>4 DEF Fits, Own, Mine, Awaited, IsPageRequest, Resources!Reflects
    <3>5. Fits(d)'
      BY <1>1, <2>2, <2>4, <3>3 DEF Fits, Mine, Awaited, IsPageRequest
    <3>6. ScreenInv'
      BY <1>1, <2>2, <2>4 DEF ScreenInv, Own, Mine, Removals, Resources!RemovedStaysRemoved, Resources!Reflects
    <3>7. PageInv'
      BY <1>1, <2>2, <2>4 DEF PageInv, IsDialog, Confirms, Mine
    <3> QED BY <2>4, <3>2, <3>4, <3>5, <3>6, <3>7 DEF ResourcesInv
  <2> QED BY <2>1, <2>3, <2>4
<1> QED BY <1>3, <1>4, <1>5

\* The answers to loads, saves, new keys, removals and tests, and the 401.
LEMMA SettleStep ==
  ASSUME ResourcesInv, NEW c \in requests,
         \/ Resources!LoadSettles(c) \/ Resources!SaveSettles(c) \/ Resources!GenerateSettles(c)
         \/ Resources!RemoveSettles(c) \/ Resources!TestSettles(c) \/ Resources!DeniedSettles(c)
  PROVE  ResourcesInv'
<1> DEFINE rest == requests \ {c}
<1>1. PageInv /\ (\A q \in requests : Fits(q)) /\ ScreenInv /\ Removals(removed)
  BY DEF ResourcesInv, ScreenInv
<1>2. (\A q \in rest : Fits(q)) /\ Fits(c) /\ (c.mounted => portalPage = "table")
  BY <1>1 DEF Fits
<1>3. \A q \in Resources!Detach(rest) : Fits(q)
  BY <1>2, DetachedFit
<1>4. IsDialog(dialog) /\ (dialog.mounted => portalPage = "table") /\ Confirms(dialog)
  BY <1>1 DEF PageInv
<1>5. /\ IsDialog(Resources!Idle(c)) /\ Resources!Idle(c).mounted = dialog.mounted
      /\ Confirms(Resources!Idle(c))
  <2>1. dialog = [kind |-> dialog.kind, row |-> dialog.row, mounted |-> dialog.mounted, busy |-> dialog.busy]
    BY <1>4 DEF IsDialog
  <2>2. CASE c.dialog
    <3>1. Resources!Idle(c) = [kind |-> dialog.kind, row |-> dialog.row, mounted |-> dialog.mounted,
                               busy |-> FALSE]
      BY <2>1, <2>2 DEF Resources!Idle
    <3> QED BY <1>4, <3>1 DEF IsDialog, Confirms
  <2>3. CASE ~c.dialog
    BY <1>4, <2>3 DEF Resources!Idle
  <2> QED BY <2>2, <2>3
<1>6. IsDialog(Resources!NoDialog) /\ ~Resources!NoDialog.mounted /\ Confirms(Resources!NoDialog)
  BY DEF IsDialog, Confirms, Resources!NoDialog
<1>7. CASE Resources!LoadSettles(c)
  <2>1. /\ c.kind = "load" /\ c.answer \in {"ok", "failed"} /\ requests' = rest
        /\ UNCHANGED <<resource, owner, gone, session, portalPage, removed, dialog>>
        /\ table' = IF c.cancelled THEN table
                    ELSE [data |-> IF c.answer = "ok" THEN c.rows ELSE table.data,
                          error |-> (c.answer = "failed"), loading |-> FALSE]
    BY <1>7 DEF Resources!LoadSettles, Resources!Settled
  <2>2. CASE c.cancelled
    BY <1>2, <1>4, <2>1, <2>2, CallsStep
  <2>3. CASE ~c.cancelled
    <3>1. /\ table'.data = IF c.answer = "ok" THEN c.rows ELSE table.data
          /\ table' = [data |-> table'.data, loading |-> table'.loading, error |-> table'.error]
          /\ c.answer = "failed" => table'.error
      BY <2>1, <2>3
    <3>2. PageInv'
      BY <1>1, <2>1, <3>1 DEF PageInv, IsDialog, Confirms, Mine
    <3>3. \A q \in requests' : Fits(q)'
      BY <1>2, <2>1 DEF Fits, Own, Mine, Awaited, IsPageRequest, Resources!Reflects
    <3>4. Awaited(c)
      BY <2>1, <2>3 DEF Awaited
    <3>5. ScreenInv'
      <4>1. CASE c.answer = "ok"
        BY <1>1, <1>2, <2>1, <3>1, <3>4, <4>1 
           DEF ScreenInv, Fits, Own, Mine, Removals, Resources!RemovedStaysRemoved, Resources!Reflects
      <4>2. CASE c.answer = "failed"
        BY <1>1, <2>1, <3>1, <4>2 DEF ScreenInv, Own, Mine, Removals, Resources!RemovedStaysRemoved, Resources!Reflects
      <4> QED BY <2>1, <4>1, <4>2
    <3> QED BY <3>2, <3>3, <3>5 DEF ResourcesInv
  <2> QED BY <2>2, <2>3
<1>8. CASE Resources!SaveSettles(c)
  <2>1. UNCHANGED <<resource, owner, gone, session, portalPage, removed>>
    BY <1>8 DEF Resources!SaveSettles
  <2>2. CASE c.answer = "ok"
    <3>1. dialog' = Resources!NoDialog /\ Resources!Refresh(c.mounted, Resources!Detach(rest))
      BY <1>8, <2>2 DEF Resources!SaveSettles
    <3> HIDE DEF rest
    <3> QED BY <1>1, <1>2, <1>3, <2>1, <3>1, RefreshStep
  <2>3. CASE c.answer # "ok"
    <3>1. dialog' = Resources!Idle(c) /\ requests' = rest /\ UNCHANGED table
      BY <1>8, <2>3 DEF Resources!SaveSettles
    <3> QED BY <1>2, <1>4, <1>5, <2>1, <3>1, CallsStep
  <2> QED BY <2>2, <2>3
<1>9. CASE Resources!GenerateSettles(c)
  <2>1. /\ UNCHANGED <<resource, owner, gone, session, portalPage, removed, table>> /\ requests' = rest
        /\ dialog' = IF c.dialog /\ c.answer = "ok"
                       THEN [Resources!Idle(c) EXCEPT !.kind = "reveal", !.row = c.row]
                       ELSE Resources!Idle(c)
    BY <1>9 DEF Resources!GenerateSettles, Resources!pageVars
  <2>2. PICK d : d = Resources!Idle(c)
    OBVIOUS
  <2>3. d = [kind |-> d.kind, row |-> d.row, mounted |-> d.mounted, busy |-> d.busy]
    BY <1>5, <2>2 DEF IsDialog
  <2>4. IsDialog(dialog') /\ dialog'.mounted = d.mounted /\ Confirms(dialog')
    <3>1. CASE c.dialog /\ c.answer = "ok"
      <4>1. dialog' = [kind |-> "reveal", row |-> c.row, mounted |-> d.mounted, busy |-> d.busy]
        BY <2>1, <2>2, <2>3, <3>1
      <4> QED BY <4>1 DEF IsDialog, Confirms
    <3>2. CASE ~(c.dialog /\ c.answer = "ok")
      BY <1>5, <2>1, <2>2, <3>2
    <3> QED BY <3>1, <3>2
  <2> QED BY <1>2, <1>4, <1>5, <2>1, <2>2, <2>4, CallsStep
<1>10. CASE Resources!RemoveSettles(c)
  <2>1. /\ c.kind = "remove" /\ dialog' = Resources!NoDialog
        /\ UNCHANGED <<resource, owner, gone, session, portalPage>>
    BY <1>10 DEF Resources!RemoveSettles, Resources!Settled
  <2>2. CASE c.answer = "ok"
    <3>1. /\ Resources!Refresh(c.mounted, Resources!Detach(rest))
          /\ removed' = IF c.mounted THEN removed \cup {c.row} ELSE removed
      BY <1>10, <2>2 DEF Resources!RemoveSettles
    <3>2. c.row \in gone /\ (c.mounted => Mine(c.row))
      BY <1>2, <2>1, <2>2 DEF Fits
    <3>3. Removals(removed') /\ (~c.mounted => removed' = removed)
      BY <1>1, <2>1, <3>1, <3>2 DEF Removals, Mine
    <3> HIDE DEF rest
    <3> QED BY <1>2, <1>3, <2>1, <3>1, <3>3, RefreshStep
  <2>3. CASE c.answer # "ok"
    <3>1. requests' = Resources!Detach(rest) /\ UNCHANGED <<table, removed>>
      BY <1>10, <2>3 DEF Resources!RemoveSettles
    <3> HIDE DEF rest
    <3> QED BY <1>3, <1>6, <2>1, <3>1, CallsStep
  <2> QED BY <2>2, <2>3
<1>11. CASE Resources!TestSettles(c)
  <2>1. UNCHANGED <<resource, owner, gone, session, portalPage, removed, table, dialog>> /\ requests' = rest
    BY <1>11 DEF Resources!TestSettles, Resources!pageVars
  <2> QED BY <1>2, <1>4, <2>1, CallsStep
<1>12. CASE Resources!DeniedSettles(c)
  <2>1. PICK left, d :
          /\ left = IF c.kind = "remove" THEN Resources!Detach(rest) ELSE rest
          /\ d = IF c.kind = "remove" THEN Resources!NoDialog ELSE Resources!Idle(c)
    OBVIOUS
  <2>2. /\ session' = 0 /\ UNCHANGED <<resource, owner, gone>>
        /\ IF session # 0 THEN Resources!LeaveTo("login", left, d)
                          ELSE requests' = left /\ dialog' = d /\ UNCHANGED <<portalPage, table, removed>>
    BY <1>12, <2>1 DEF Resources!DeniedSettles, Resources!ProtectedRoute, Resources!pageVars
  <2>3. \A q \in left : Fits(q)
    BY <1>2, <1>3, <2>1
  <2>4. IsDialog(d) /\ (d.mounted => dialog.mounted) /\ Confirms(d)
    BY <1>5, <1>6, <2>1
  <2>5. CASE session # 0
    <3>1. Resources!LeaveTo("login", left, d)
      BY <2>2, <2>5
    <3>2. session' = 0 <=> "login" = "login"
      BY <2>2
    <3>3. session' \in Tenants \cup {0}
      BY <2>2
    <3> HIDE DEF rest
    <3> QED BY <1>1, <2>2, <2>3, <2>4, <3>1, <3>2, <3>3, LeaveStep
  <2>6. CASE session = 0
    <3>1. requests' = left /\ dialog' = d /\ UNCHANGED <<resource, owner, gone, session, portalPage, table, removed>>
      BY <2>2, <2>6
    <3>2. dialog'.mounted => portalPage = "table"
      BY <1>4, <2>4, <3>1
    <3> HIDE DEF rest
    <3> QED BY <2>3, <2>4, <3>1, <3>2, CallsStep
  <2> QED BY <2>5, <2>6
<1> QED BY <1>7, <1>8, <1>9, <1>10, <1>11, <1>12

\* Acts of the user: the session, the pages and the dialogs.
LEMMA UserStep ==
  ASSUME ResourcesInv,
         \/ \E t \in Tenants : Resources!SignIn(t)
         \/ Resources!SignOut \/ Resources!OpenPage \/ Resources!LeavePage \/ Resources!PollChannels
         \/ \E r \in Row \cup {0} : Resources!OpenTemplateForm(r)
         \/ \E r \in Row : Resources!ConfirmRemove(r) \/ Resources!SendTest(r)
         \/ Resources!OpenGenerateDialog \/ Resources!CloseDialog
         \/ Resources!SubmitTemplate \/ Resources!SubmitGenerate \/ Resources!SubmitRemove
         \/ Resources!GeneratedKeyDone
  PROVE  ResourcesInv'
<1>1. PageInv /\ (\A q \in requests : Fits(q)) /\ ScreenInv /\ Removals(removed)
  BY DEF ResourcesInv, ScreenInv
<1>2. /\ IsDialog(dialog) /\ (dialog.mounted => portalPage = "table") /\ Confirms(dialog)
      /\ session \in Tenants \cup {0}
  BY <1>1 DEF PageInv
<1>3. IsDialog(Resources!NoDialog) /\ ~Resources!NoDialog.mounted /\ Confirms(Resources!NoDialog)
  BY DEF IsDialog, Confirms, Resources!NoDialog
<1>4. \A q \in Resources!Detach(requests) : Fits(q)
  BY <1>1, DetachedFit
<1>5. ASSUME NEW t \in Tenants, Resources!SignIn(t) PROVE ResourcesInv'
  <2>1. /\ portalPage = "login" /\ session' = t /\ portalPage' = "overview"
        /\ UNCHANGED <<resource, owner, gone, table, removed, dialog, requests>>
    BY <1>5 DEF Resources!SignIn
  <2>2. session = 0 /\ t # 0 /\ ~dialog.mounted
    BY <1>1, <2>1, ConsolesAssumption DEF PageInv
  <2>3. \A q \in requests : ~Awaited(q) /\ ~q.mounted
    BY <1>1, <2>1 DEF Fits
  <2>4. table.data = {} /\ removed = {}
    BY <1>1, <2>2 DEF ScreenInv, Own, Mine, Removals
  <2>5. \A q \in requests' : Fits(q)'
    BY <1>1, <2>1, <2>3 DEF Fits, Awaited, IsPageRequest
  <2>6. PageInv'
    BY <1>1, <2>1, <2>2 DEF PageInv, IsDialog, Confirms, Mine
  <2>7. ScreenInv'
    BY <1>1, <2>1, <2>4 DEF ScreenInv, Own, Mine, Removals, Resources!RemovedStaysRemoved, Resources!Reflects
  <2> QED BY <2>5, <2>6, <2>7 DEF ResourcesInv
<1>6. CASE Resources!SignOut
  <2>1. session' = 0 /\ Resources!LeaveTo("login", requests, dialog) /\ UNCHANGED <<resource, owner, gone>>
    BY <1>6 DEF Resources!SignOut, Resources!ProtectedRoute
  <2>2. session' = 0 <=> "login" = "login"
    BY <2>1
  <2>3. session' \in Tenants \cup {0}
    BY <2>1
  <2> QED BY <1>1, <1>2, <2>1, <2>2, <2>3, LeaveStep
<1>7. CASE Resources!LeavePage
  <2>1. /\ portalPage = "table" /\ Resources!LeaveTo("overview", requests, dialog)
        /\ UNCHANGED <<resource, owner, gone, session>>
    BY <1>7 DEF Resources!LeavePage
  <2>2. session' = 0 <=> "overview" = "login"
    BY <1>1, <2>1 DEF PageInv
  <2>3. session' \in Tenants \cup {0}
    BY <1>2, <2>1
  <2> QED BY <1>1, <1>2, <2>1, <2>2, <2>3, LeaveStep
<1>8. CASE Resources!OpenPage
  <2>1. /\ portalPage = "overview" /\ portalPage' = "table"
        /\ Resources!Reload(Resources!Fresh, requests)
        /\ UNCHANGED <<resource, owner, gone, session, removed, dialog>>
    BY <1>8 DEF Resources!OpenPage
  <2>2. PICK t : t = Resources!Fresh
    OBVIOUS
  <2>3. t = [data |-> t.data, loading |-> t.loading, error |-> t.error] /\ t.data = {}
    BY <2>2 DEF Resources!Fresh
  <2>4. session # 0 /\ Own(t.data)
    BY <1>1, <2>1, <2>3 DEF PageInv, Own
  <2>5. IsDialog(dialog') /\ Removals(removed') /\ Confirms(dialog')
    BY <1>1, <1>2, <2>1 DEF Removals, Confirms, Mine
  <2> QED BY <1>1, <2>1, <2>2, <2>3, <2>4, <2>5, ReloadStep
<1>9. CASE Resources!PollChannels
  <2>1. /\ portalPage = "table" /\ portalPage' = "table" /\ Resources!Reload(table, requests)
        /\ UNCHANGED <<resource, owner, gone, session, removed, dialog>>
    BY <1>9 DEF Resources!PollChannels
  <2>2. /\ session # 0 /\ Own(table.data)
        /\ table = [data |-> table.data, loading |-> table.loading, error |-> table.error]
    BY <1>1, <2>1 DEF PageInv, ScreenInv
  <2>3. IsDialog(dialog') /\ Removals(removed') /\ Confirms(dialog')
    BY <1>1, <1>2, <2>1 DEF Removals, Confirms, Mine
  <2> QED BY <1>1, <2>1, <2>2, <2>3, ReloadStep
<1>10. ASSUME NEW k, NEW r, Resources!OpenDialog(k, r), k = "confirm" => Mine(r) PROVE ResourcesInv'
  <2>1. /\ portalPage = "table" /\ dialog' = [kind |-> k, row |-> r, mounted |-> TRUE, busy |-> FALSE]
        /\ UNCHANGED <<resource, owner, gone, session, portalPage, table, removed, requests>>
    BY <1>10 DEF Resources!OpenDialog, Resources!pageVars
  <2>2. IsDialog(dialog') /\ Confirms(dialog')
    BY <1>10, <2>1 DEF IsDialog, Confirms
  <2> QED BY <1>1, <2>1, <2>2, CallsStep
<1>11. ASSUME NEW r, Resources!SendTest(r) PROVE ResourcesInv'
  <2>1. /\ requests' = requests \cup {Resources!Request("test", r, TRUE, FALSE)}
        /\ UNCHANGED <<resource, owner, gone, session, portalPage, table, removed, dialog>> /\ portalPage = "table"
    BY <1>11 DEF Resources!SendTest, Resources!pageVars
  <2>2. Fits(Resources!Request("test", r, TRUE, FALSE))
    BY <1>1, <2>1, SentFits
  <2> QED BY <1>1, <1>2, <2>1, <2>2, CallsStep
<1>12. CASE Resources!CloseDialog
  <2>1. /\ dialog' = Resources!NoDialog /\ requests' = Resources!Detach(requests)
        /\ UNCHANGED <<resource, owner, gone, session, portalPage, table, removed>>
    BY <1>12 DEF Resources!CloseDialog, Resources!pageVars
  <2> QED BY <1>3, <1>4, <2>1, CallsStep
<1>13. ASSUME NEW k, NEW call, call # "load", call = "remove" => k = "confirm",
              Resources!Submit(k, call)
       PROVE  ResourcesInv'
  <2>1. /\ dialog' = [dialog EXCEPT !.busy = TRUE] /\ dialog.kind = k
        /\ requests' = requests \cup {Resources!Request(call, dialog.row, dialog.mounted, TRUE)}
        /\ UNCHANGED <<resource, owner, gone, session, portalPage, table, removed>>
    BY <1>13 DEF Resources!Submit, Resources!pageVars
  <2>2. dialog = [kind |-> dialog.kind, row |-> dialog.row, mounted |-> dialog.mounted, busy |-> dialog.busy]
    BY <1>2 DEF IsDialog
  <2>3. dialog' = [kind |-> dialog.kind, row |-> dialog.row, mounted |-> dialog.mounted, busy |-> TRUE]
    BY <2>1, <2>2
  <2>4. IsDialog(dialog') /\ dialog'.mounted = dialog.mounted /\ Confirms(dialog')
    BY <1>2, <2>3 DEF IsDialog, Confirms
  <2>5. PICK row, m : row = dialog.row /\ m = dialog.mounted
    OBVIOUS
  <2>6. call = "remove" /\ m => Mine(row)
    BY <1>2, <1>13, <2>1, <2>5 DEF Confirms
  <2>7. Fits(Resources!Request(call, row, m, TRUE))
    BY <1>1, <1>2, <1>13, <2>5, <2>6, SentFits
  <2> QED BY <1>1, <1>2, <2>1, <2>4, <2>5, <2>7, CallsStep
<1>14. CASE Resources!GeneratedKeyDone
  <2>1. /\ dialog' = Resources!NoDialog /\ Resources!Refresh(dialog.mounted, Resources!Detach(requests))
        /\ UNCHANGED <<resource, owner, gone, session, portalPage, removed>>
    BY <1>14 DEF Resources!GeneratedKeyDone
  <2>2. PICK m : m = dialog.mounted
    OBVIOUS
  <2> QED BY <1>1, <1>2, <1>4, <2>1, <2>2, RefreshStep
<1>15. "save" # "load" /\ "generate" # "load" /\ "remove" # "load"
  OBVIOUS
<1>16. ASSUME NEW r, Resources!RowAction(r) PROVE Mine(r)
  <2>1. <<r, "active">> \in table.data
    BY <1>16 DEF Resources!RowAction
  <2>2. Mine(<<r, "active">>[1])
    BY <1>1, <2>1 DEF ScreenInv, Own
  <2> QED BY <2>2
<1> QED BY <1>5, <1>6, <1>7, <1>8, <1>9, <1>10, <1>11, <1>12, <1>13, <1>14, <1>15, <1>16
        DEF Resources!OpenTemplateForm, Resources!ConfirmRemove, Resources!OpenGenerateDialog,
            Resources!SubmitTemplate, Resources!SubmitGenerate, Resources!SubmitRemove

\* The user's acts, the server's and the answers keep the invariant.
LEMMA ResourcesStep == ResourcesInv /\ Resources!Next => ResourcesInv'
BY UserStep, ServerStep, SettleStep DEF Resources!Next

\* At first the login form is shown and nothing is under way.
LEMMA ResourcesStart == Resources!Init => ResourcesInv
<1> SUFFICES ASSUME Resources!Init PROVE ResourcesInv
  OBVIOUS
<1>1. /\ owner = Owned /\ gone = {} /\ session = 0 /\ portalPage = "login" /\ removed = {}
      /\ requests = {} /\ table = [data |-> {}, loading |-> TRUE, error |-> FALSE]
      /\ dialog = Resources!NoDialog
  BY DEF Resources!Init, Resources!Fresh
<1>2. IsDialog(dialog) /\ ~dialog.mounted
  BY <1>1 DEF IsDialog, Resources!NoDialog
<1>3. PageInv
  BY <1>1, <1>2, ConsolesAssumption DEF PageInv, Confirms
<1>4. ScreenInv
  BY <1>1 DEF ScreenInv, Own, Mine, Removals, Resources!RemovedStaysRemoved, Resources!Reflects
<1> QED BY <1>1, <1>3, <1>4 DEF ResourcesInv

\* The invariant of the resource pages holds.
LEMMA ResourcesInvariant == Spec => [](program = "resources" => ResourcesInv)
<1> DEFINE Inv == program = "resources" => ResourcesInv
<1>1. Init => Inv
  BY ResourcesStart DEF Init
<1>2. Inv /\ [Next]_vars => Inv'
  <2>1. ASSUME Inv, [Next]_vars, program = "resources" PROVE ResourcesInv'
    <3>1. CASE Resources!Next
      BY <2>1, <3>1, ResourcesStep
    <3>2. CASE UNCHANGED vars
      BY <2>1, <3>2 DEF vars, ResourcesInv, PageInv, Fits, ScreenInv, Own, Mine, Confirms, Removals,
                        Awaited, IsPageRequest, IsDialog, Resources!RemovedStaysRemoved, Resources!Reflects
    <3> QED BY <2>1, <3>1, <3>2 DEF Next
  <2> QED BY <2>1, SameProgram
<1> QED BY <1>1, <1>2, PTL DEF Spec

\* The rows on the screen, those a row action would use, are the signed-in tenant's,
\* through sign-outs, expired sessions and answers that come late (http.ts,
\* ProtectedRoute.tsx, DataTable.tsx).
THEOREM TablesShowOwnRows == Spec => []OwnRowsOnly
<1>1. (program = "resources" => ResourcesInv) => OwnRowsOnly
  BY DEF OwnRowsOnly, ResourcesInv, ScreenInv, Own, Mine, Resources!OwnRowsOnly
<1> QED BY <1>1, ResourcesInvariant, PTL

\* A row whose removal the page was told of is not offered again, however loads,
\* removals and answers cross (DataTable.tsx and the pages' remove handlers).
THEOREM RemovedRowsStayAway == Spec => []RemovedStaysRemoved
<1>1. (program = "resources" => ResourcesInv) => RemovedStaysRemoved
  BY DEF RemovedStaysRemoved, ResourcesInv, ScreenInv
<1> QED BY <1>1, ResourcesInvariant, PTL

-----------------------------------------------------------------------------
(* AppFrame and AssistantWidget                                            *)

storage == s1
frames  == s2

USE DEF storage, frames

\* f holds all that a tab does.
IsFrame(f) ==
  DOMAIN f = {"path", "focusMode", "mobileNavOpen", "ui", "prefs", "dismissed", "htmlClass", "lang",
              "isDark", "guide"}

\* A tab in which the guide was dismissed has said so to the store.
ChromeInv ==
  /\ DOMAIN storage = {"ui", "prefs", "dismissed"}
  /\ frames = [t \in Windows |-> frames[t]]
  /\ \A t \in Windows : IsFrame(frames[t]) /\ (frames[t].dismissed => storage.dismissed)

\* One tab becomes f and the store forgets no dismissal.
LEMMA SetStep ==
  ASSUME ChromeInv, NEW t \in Windows, NEW f, IsFrame(f), Chrome!Set(t, f),
         DOMAIN storage' = {"ui", "prefs", "dismissed"},
         storage.dismissed => storage'.dismissed, f.dismissed => storage'.dismissed
  PROVE  ChromeInv'
<1>1. frames' = [frames EXCEPT ![t] = f]
  BY DEF Chrome!Set
<1>2. frames' = [u \in Windows |-> IF u = t THEN f ELSE frames[u]]
  BY <1>1 DEF ChromeInv
<1> QED BY <1>2 DEF ChromeInv, IsFrame

\* A tab on another route, and one that has just loaded.
LEMMA FramesMade ==
  /\ \A f, path : IsFrame(f) =>
       IsFrame(Chrome!At(f, path)) /\ Chrome!At(f, path).dismissed = f.dismissed
  /\ \A path, focusMode :
       /\ IsFrame(Chrome!Loaded(path, focusMode))
       /\ Chrome!Loaded(path, focusMode).dismissed = storage.dismissed
       /\ Chrome!Loaded(path, focusMode).path = path
       /\ Chrome!Loaded(path, focusMode).focusMode = focusMode
<1>1. ASSUME NEW f, NEW path, IsFrame(f)
      PROVE  IsFrame(Chrome!At(f, path)) /\ Chrome!At(f, path).dismissed = f.dismissed
  BY <1>1 DEF Chrome!At, IsFrame
<1>2. ASSUME NEW path, NEW focusMode
      PROVE  /\ IsFrame(Chrome!Loaded(path, focusMode))
             /\ Chrome!Loaded(path, focusMode).dismissed = storage.dismissed
             /\ Chrome!Loaded(path, focusMode).path = path
             /\ Chrome!Loaded(path, focusMode).focusMode = focusMode
  BY DEF Chrome!Loaded, IsFrame
<1> QED BY <1>1, <1>2

\* Whatever is done in a tab, to the stores or to the workspace keeps the invariant.
LEMMA ChromeStep == ChromeInv /\ Chrome!Next => ChromeInv'
<1> SUFFICES ASSUME ChromeInv, Chrome!Next PROVE ChromeInv'
  OBVIOUS
<1>1. ASSUME UNCHANGED <<storage, frames>> PROVE ChromeInv'
  BY <1>1 DEF ChromeInv, IsFrame
<1>2. ASSUME NEW t \in Windows, NEW f, Chrome!Set(t, f), UNCHANGED storage, IsFrame(f),
             f.dismissed = frames[t].dismissed \/ f.dismissed = storage.dismissed
      PROVE  ChromeInv'
  <2>1. /\ DOMAIN storage' = {"ui", "prefs", "dismissed"}
        /\ storage.dismissed => storage'.dismissed
        /\ f.dismissed => storage'.dismissed
    BY <1>2 DEF ChromeInv
  <2> QED BY <1>2, <2>1, SetStep
<1>3. CASE Chrome!ColorSchemeChanges \/ (\E s \in Step : Chrome!StepTaken(s))
  BY <1>1, <1>3 DEF Chrome!ColorSchemeChanges, Chrome!StepTaken
<1>4. ASSUME NEW t \in Windows, Chrome!OpenMenu(t) \/ Chrome!CloseMenu(t) PROVE ChromeInv'
  <2>1. PICK b : Chrome!Set(t, [frames[t] EXCEPT !.mobileNavOpen = b]) /\ UNCHANGED storage
    BY <1>4 DEF Chrome!OpenMenu, Chrome!CloseMenu
  <2>2. PICK f : f = [frames[t] EXCEPT !.mobileNavOpen = b]
    OBVIOUS
  <2>3. IsFrame(f) /\ f.dismissed = frames[t].dismissed
    BY <2>2 DEF ChromeInv, IsFrame
  <2> QED BY <1>2, <2>1, <2>2, <2>3
<1>5. ASSUME NEW t \in Windows, NEW path, Chrome!Navigate(t, path) PROVE ChromeInv'
  <2>1. PICK f : f = [frames[t] EXCEPT !.mobileNavOpen = FALSE]
    OBVIOUS
  <2>2. IsFrame(f) /\ f.dismissed = frames[t].dismissed
    BY <2>1 DEF ChromeInv, IsFrame
  <2>3. Chrome!Set(t, Chrome!At(f, path)) /\ UNCHANGED storage
    BY <1>5, <2>1 DEF Chrome!Navigate
  <2> QED BY <1>2, <2>2, <2>3, FramesMade
<1>6. ASSUME NEW t \in Windows, NEW path, Chrome!Set(t, Chrome!At(frames[t], path)), UNCHANGED storage
      PROVE  ChromeInv'
  <2>1. IsFrame(frames[t])
    BY DEF ChromeInv
  <2> QED BY <1>2, <1>6, <2>1, FramesMade
<1>7. ASSUME NEW t \in Windows,
             \/ Chrome!BackToApp(t) \/ Chrome!Logout(t) \/ Chrome!Login(t) \/ Chrome!FollowStep(t)
             \/ \E path \in {"overview", "settings", "docs"} : Chrome!History(t, path)
      PROVE  ChromeInv'
  BY <1>6, <1>7 DEF Chrome!BackToApp, Chrome!Logout, Chrome!Login, Chrome!FollowStep, Chrome!History
<1>8. ASSUME NEW t \in Windows, Chrome!Reload(t) PROVE ChromeInv'
  BY <1>2, <1>8, FramesMade DEF Chrome!Reload
<1>9. ASSUME NEW t \in Windows, NEW ui, Chrome!SetUi(t, ui) PROVE ChromeInv'
  <2>1. PICK f : f = [frames[t] EXCEPT !.ui = ui]
    OBVIOUS
  <2>2. IsFrame(f) /\ f.dismissed = frames[t].dismissed
    BY <2>1 DEF ChromeInv, IsFrame
  <2>3. Chrome!Set(t, f) /\ storage' = [storage EXCEPT !.ui = ui]
    BY <1>9, <2>1 DEF Chrome!SetUi
  <2>4. DOMAIN storage' = {"ui", "prefs", "dismissed"} /\ storage'.dismissed = storage.dismissed
    BY <2>3 DEF ChromeInv
  <2>5. f.dismissed => storage'.dismissed
    BY <2>2, <2>4 DEF ChromeInv
  <2> QED BY <2>2, <2>3, <2>4, <2>5, SetStep
<1>10. ASSUME NEW t \in Windows, NEW prefs, Chrome!SetPreferences(t, prefs) PROVE ChromeInv'
  <2>1. PICK f : /\ f = [frames[t] EXCEPT
                           !.prefs = prefs, !.lang = prefs.language,
                           !.htmlClass = IF prefs.theme # frames[t].prefs.theme
                                           THEN Chrome!HtmlClass(prefs.theme) ELSE @,
                           !.isDark = Chrome!IsDark(prefs.theme)]
                 /\ Chrome!Set(t, f) /\ storage' = [storage EXCEPT !.prefs = prefs]
    BY <1>10 DEF Chrome!SetPreferences
  <2>2. IsFrame(f) /\ f.dismissed = frames[t].dismissed
    BY <2>1 DEF ChromeInv, IsFrame
  <2>3. DOMAIN storage' = {"ui", "prefs", "dismissed"} /\ storage'.dismissed = storage.dismissed
    BY <2>1 DEF ChromeInv
  <2>4. f.dismissed => storage'.dismissed
    BY <2>2, <2>3 DEF ChromeInv
  <2> QED BY <2>1, <2>2, <2>3, <2>4, SetStep
<1>11. ASSUME NEW t \in Windows, Chrome!toggleFocusMode(t) PROVE ChromeInv'
  <2>1. PICK f : /\ f = [frames[t] EXCEPT !.focusMode = ~@, !.guide = {"none"}]
                 /\ Chrome!Set(t, f) /\ UNCHANGED storage
    BY <1>11 DEF Chrome!toggleFocusMode
  <2>2. IsFrame(f) /\ f.dismissed = frames[t].dismissed
    BY <2>1 DEF ChromeInv, IsFrame
  <2> QED BY <1>2, <2>1, <2>2
<1>12. ASSUME NEW t \in Windows, Chrome!Renders(t) PROVE ChromeInv'
  <2>1. PICK f : /\ f = [frames[t] EXCEPT !.isDark = Chrome!IsDark(frames[t].prefs.theme)]
                 /\ Chrome!Set(t, f) /\ UNCHANGED storage
    BY <1>12 DEF Chrome!Renders
  <2>2. IsFrame(f) /\ f.dismissed = frames[t].dismissed
    BY <2>1 DEF ChromeInv, IsFrame
  <2> QED BY <1>2, <2>1, <2>2
<1>13. ASSUME NEW t \in Windows, NEW failed, Chrome!GuideLoads(t, failed) PROVE ChromeInv'
  <2>1. PICK g, f : f = [frames[t] EXCEPT !.guide = g] /\ Chrome!Set(t, f) /\ UNCHANGED storage
    BY <1>13 DEF Chrome!GuideLoads
  <2>2. IsFrame(f) /\ f.dismissed = frames[t].dismissed
    BY <2>1 DEF ChromeInv, IsFrame
  <2> QED BY <1>2, <2>1, <2>2
<1>14. ASSUME NEW t \in Windows, Chrome!dismissSetupGuide(t) PROVE ChromeInv'
  <2>1. PICK f : /\ f = [frames[t] EXCEPT !.dismissed = TRUE]
                 /\ Chrome!Set(t, f) /\ storage' = [storage EXCEPT !.dismissed = TRUE]
    BY <1>14 DEF Chrome!dismissSetupGuide
  <2>2. IsFrame(f) /\ DOMAIN storage' = {"ui", "prefs", "dismissed"} /\ storage'.dismissed
    BY <2>1 DEF ChromeInv, IsFrame
  <2> QED BY <2>1, <2>2, SetStep
<1>15. ASSUME NEW t \in Windows,
              Chrome!toggleSidebar(t) \/ Chrome!setPageSize(t) \/ Chrome!ToggleTheme(t) \/ Chrome!setLanguage(t)
       PROVE  ChromeInv'
  BY <1>9, <1>10, <1>15 DEF Chrome!toggleSidebar, Chrome!setPageSize, Chrome!ToggleTheme, Chrome!setLanguage
<1> QED BY <1>3, <1>4, <1>5, <1>7, <1>8, <1>11, <1>12, <1>13, <1>14, <1>15 DEF Chrome!Next

\* A reload in a state of the invariant gives back the navigation and the dismissal.
LEMMA ReloadStepRestores ==
  ASSUME ChromeInv PROVE Chrome!ReloadBringsChromeBackStep
<1> SUFFICES ASSUME NEW t \in Windows, Chrome!Reload(t)
             PROVE  /\ Chrome!InApp(t) => Chrome!NavReachable(t)'
                    /\ frames[t].dismissed => frames'[t].dismissed
  BY DEF Chrome!ReloadBringsChromeBackStep
<1>1. PICK f : f = Chrome!Loaded(frames[t].path, FALSE) /\ frames' = [frames EXCEPT ![t] = f]
  BY DEF Chrome!Reload, Chrome!Set, Chrome!Rehydrated
<1>2. f.path = frames[t].path /\ f.focusMode = FALSE /\ f.dismissed = storage.dismissed
  BY <1>1, FramesMade
<1>3. frames'[t] = f
  BY <1>1 DEF ChromeInv
<1>4. Chrome!InApp(t) => Chrome!NavReachable(t)'
  BY <1>2, <1>3 DEF Chrome!InApp, Chrome!NavReachable
<1>5. frames[t].dismissed => frames'[t].dismissed
  BY <1>2, <1>3 DEF ChromeInv
<1> QED BY <1>4, <1>5

storageKey   == s1
storedDocked == s2
docked       == s4

USE DEF storageKey, storedDocked, docked

\* What is stored under a storageKey is where the blob is.
BlobInv ==
  /\ storageKey \in BOOLEAN /\ docked \in BOOLEAN
  /\ storageKey => (docked <=> storedDocked = "1")

\* Clicks, pointers and reloads keep the invariant.
LEMMA BlobStep == BlobInv /\ Assistant!Next => BlobInv'
<1> SUFFICES ASSUME BlobInv, Assistant!Next PROVE BlobInv'
  OBVIOUS
<1>1. ASSUME UNCHANGED <<storageKey, storedDocked, docked>> PROVE BlobInv'
  BY <1>1 DEF BlobInv
<1>2. ASSUME NEW d \in BOOLEAN, Assistant!SetDocked(d), UNCHANGED storageKey PROVE BlobInv'
  BY <1>2 DEF BlobInv, Assistant!SetDocked, Assistant!writeDocked
<1>3. CASE Assistant!Remount
  BY <1>3 DEF BlobInv, Assistant!Remount, Assistant!readDocked, Assistant!writeDocked
<1>4. CASE Assistant!handleBlobClick
  BY <1>1, <1>2, <1>4 DEF Assistant!handleBlobClick
<1>5. CASE Assistant!handleKeepAside
  BY <1>2, <1>5 DEF Assistant!handleKeepAside
<1>6. CASE \/ Assistant!CloseButton \/ Assistant!handleClickOutside \/ Assistant!handleEscape
           \/ Assistant!FollowCta \/ Assistant!TypeTask \/ Assistant!handleTaskSubmit
           \/ Assistant!handleMouseMove \/ Assistant!Frame
  BY <1>1, <1>6 DEF Assistant!CloseButton, Assistant!handleClickOutside, Assistant!handleEscape,
                    Assistant!FollowCta, Assistant!ClosePanel, Assistant!TypeTask,
                    Assistant!handleTaskSubmit, Assistant!handleMouseMove, Assistant!Frame
<1> QED BY <1>3, <1>4, <1>5, <1>6 DEF Assistant!Next

\* A reload of the portal gives back its navigation and keeps a dismissed guide away,
\* whatever two tabs did to the store they share (ui.store.ts); the assistant comes
\* back where the visitor left it (AiAssistantBlob.tsx).
THEOREM ReloadsRestore == Spec => ReloadRestores
<1> DEFINE Inv == (program = "frame" => ChromeInv) /\ (program = "assistant" => BlobInv)
<1>1. Init => Inv
  <2>1. Chrome!Init => ChromeInv
    <3> SUFFICES ASSUME Chrome!Init PROVE ChromeInv
      OBVIOUS
    <3>1. storage.dismissed = FALSE /\ DOMAIN storage = {"ui", "prefs", "dismissed"}
      BY DEF Chrome!Init, Chrome!Stored
    <3>2. PICK f : f = Chrome!Loaded("overview", FALSE)
      OBVIOUS
    <3>3. IsFrame(f) /\ f.dismissed = FALSE
      BY <3>1, <3>2, FramesMade
    <3>4. frames = [t \in Windows |-> f]
      BY <3>2 DEF Chrome!Init
    <3> QED BY <3>1, <3>3, <3>4 DEF ChromeInv
  <2>2. Assistant!Init => BlobInv
    BY DEF Assistant!Init, BlobInv
  <2> QED BY <2>1, <2>2 DEF Init
<1>2. Inv /\ [Next]_vars => Inv'
  <2>1. ASSUME Inv, [Next]_vars, program = "frame" PROVE ChromeInv'
    <3>1. CASE Chrome!Next
      BY <2>1, <3>1, ChromeStep
    <3>2. CASE UNCHANGED vars
      BY <2>1, <3>2 DEF vars, ChromeInv, IsFrame
    <3> QED BY <2>1, <3>1, <3>2 DEF Next
  <2>2. ASSUME Inv, [Next]_vars, program = "assistant" PROVE BlobInv'
    <3>1. CASE Assistant!Next
      BY <2>2, <3>1, BlobStep
    <3>2. CASE UNCHANGED vars
      BY <2>2, <3>2 DEF vars, BlobInv
    <3> QED BY <2>2, <3>1, <3>2 DEF Next
  <2> QED BY <2>1, <2>2, SameProgram
<1>3. Inv => /\ program = "frame" => Chrome!ReloadBringsChromeBackStep
             /\ program = "assistant" => Assistant!DockingIsKeptStep
  <2>1. BlobInv => Assistant!DockingIsKeptStep
    BY DEF BlobInv, Assistant!DockingIsKeptStep, Assistant!Remount, Assistant!readDocked
  <2> QED BY <2>1, ReloadStepRestores
<1> QED BY <1>1, <1>2, <1>3, PTL DEF Spec, ReloadRestores
=============================================================================
