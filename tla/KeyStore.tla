------------------------------ MODULE KeyStore ------------------------------
(***************************************************************************)
(* The keys of one tenant on the server.  TokenService holds them in       *)
(* memory, where every token is checked: one primary secret and any number *)
(* of extra keys.  Two tables hold what survives a restart.  The handlers  *)
(* of the portal write both, one after the other and with an await between;*)
(* the handlers of the Admin API write memory only; main() fills memory    *)
(* from the tables, table by table, and serves the Admin API meanwhile.    *)
(***************************************************************************)
EXTENDS Naturals, FiniteSets

CONSTANTS
  Key,          \* extra keys, each with its secret; numbers above MaxSecrets
  MaxSecrets,   \* bound: primary secrets that are generated
  MaxOps,       \* bound: portal requests that are under way at once
  MaxTokens     \* bound: client tokens that have not expired

VARIABLES
  server,         \* "down"; how far main() is; "up" once it serves the portal
  demo,           \* the tenant's secret in the environment, 0 for none
  primary,        \* TenantSecretRepository: the primary secret, 0 for none
  extra,          \* ExtraTenantKeysRepository: the extra keys
  stored,         \* the tenant's row of tenant_secrets, 0 for none
  rows,           \* api_keys: "none", "active" or "revoked" for each key
  ops,            \* portal requests that wait for a statement or have just had one
  issued,         \* how many primary secrets have been generated
  tokens,         \* client tokens: the secret one is signed with, and shown for it
  account,        \* the tenant has a user in tenant_users
  \* What the properties excuse; no guard reads them.
  secretApart,    \* a secret without a row, a failed statement or two crossing writers
  keysForgotten,  \* the tenant was revoked, or the keys could not be read at boot
  overtaken       \* keys that were revoked before their generation was through

vars == <<server, demo, primary, extra, stored, rows, ops, issued, tokens, account,
          secretApart, keysForgotten, overtaken>>

\* A request: the statement or call it comes to next, and the primary secret, the
\* key or (0) nothing it has in hand.  Of two that are equal the second has no effect.
Op == [todo : {"store", "store-signup", "create-user"}, on : 0..MaxSecrets]
        \cup [todo : {"add", "mark", "drop"}, on : Key]

TypeOK ==
  /\ server \in {"down", "load-secrets", "load-keys", "up"}
  /\ demo \in {0, 1}
  /\ primary \in 0..MaxSecrets /\ stored \in 0..MaxSecrets /\ issued \in 0..MaxSecrets
  /\ extra \subseteq Key /\ overtaken \subseteq Key
  /\ rows \in [Key -> {"none", "active", "revoked"}]
  /\ ops \subseteq Op
  /\ tokens \subseteq [signed : 1..MaxSecrets, shown : 0..MaxSecrets \cup Key]
  /\ {account, secretApart, keysForgotten} \subseteq BOOLEAN

Init ==
  /\ server = "down" /\ primary = 0 /\ extra = {} /\ stored = 0
  /\ demo \in {0, 1} /\ issued = demo
  /\ rows = [k \in Key |-> "none"]
  /\ ops = {} /\ tokens = {} /\ account = FALSE
  /\ secretApart = FALSE /\ keysForgotten = FALSE /\ overtaken = {}

-----------------------------------------------------------------------------
(* TokenService                                                            *)

\* find_valid_secret finds the secret: in the primary store or among the extra keys.
find_valid_secret(s) == s # 0 /\ (s = primary \/ s \in extra)

\* validate of a token that has not expired: any secret that is live will do.
validate(t) == find_valid_secret(t.signed)

\* register_tenant overwrites.
register_tenant(s) == primary' = s

\* generate_secret.
Fresh == issued + 1
Generate == issued < MaxSecrets /\ issued' = Fresh

\* issue_token signs with the primary secret, whatever the caller has shown.
issue_token(shown) ==
  /\ primary # 0
  /\ Cardinality(tokens) < MaxTokens
  /\ tokens' = tokens \cup {[signed |-> primary, shown |-> shown]}
  /\ UNCHANGED <<server, demo, primary, extra, stored, rows, ops, issued, account,
                 secretApart, keysForgotten, overtaken>>

-----------------------------------------------------------------------------
(* Requests of the portal                                                  *)

Begin(op) == server = "up" /\ Cardinality(ops) < MaxOps /\ ops' = ops \cup {op}

\* One request goes on, to `next' if it does not end with this step.
Continue(op, next) == server = "up" /\ op \in ops /\ ops' = (ops \ {op}) \cup next

\* The requests that are about to write a secret to its table.
Storing == {op \in ops : op.todo \in {"store", "store-signup"}}

\* SignupTenantUseCase up to its first await that follows a change: memory first.
\* The tenant is a new one, hence not the one of the environment.
Signup ==
  /\ Generate /\ issued = 0
  /\ Begin([todo |-> "store-signup", on |-> Fresh])
  /\ register_tenant(Fresh)
  /\ UNCHANGED <<server, demo, extra, stored, rows, tokens, account,
                 secretApart, keysForgotten, overtaken>>

\* RotateMySecretUseCase up to its await: memory first.
RotateMySecret ==
  /\ Generate /\ account
  /\ Begin([todo |-> "store", on |-> Fresh])
  /\ register_tenant(Fresh)
  /\ secretApart' = (Storing # {})
  /\ UNCHANGED <<server, demo, extra, stored, rows, tokens, account, keysForgotten, overtaken>>

\* upsert has written the row; a rotation is answered, a signup goes on to its user.
Upsert(op) ==
  /\ op.todo \in {"store", "store-signup"}
  /\ Continue(op, IF op.todo = "store" THEN {} ELSE {[todo |-> "create-user", on |-> 0]})
  /\ stored' = op.on
  /\ UNCHANGED <<server, demo, primary, extra, rows, issued, tokens, account,
                 secretApart, keysForgotten, overtaken>>

\* upsert fails and the request with it; memory keeps the secret.
UpsertFails(op) ==
  /\ op.todo \in {"store", "store-signup"}
  /\ Continue(op, {})
  /\ secretApart' = TRUE
  /\ UNCHANGED <<server, demo, primary, extra, stored, rows, issued, tokens, account,
                 keysForgotten, overtaken>>

\* RegisterTenantUserUseCase: who shows a live secret may have an account.
\* A second one would change nothing here.
RegisterTenantUser(s) ==
  /\ find_valid_secret(s) /\ ~account
  /\ Begin([todo |-> "create-user", on |-> 0])
  /\ UNCHANGED <<server, demo, primary, extra, stored, rows, issued, tokens, account,
                 secretApart, keysForgotten, overtaken>>

\* tenant_users.create, or its failure.
CreateUser(op) ==
  /\ op.todo = "create-user"
  /\ Continue(op, {})
  /\ account' \in {TRUE, account}
  /\ UNCHANGED <<server, demo, primary, extra, stored, rows, issued, tokens,
                 secretApart, keysForgotten, overtaken>>

\* GenerateApiKeyUseCase up to the end of its await: the row first.  A create that
\* fails changes nothing.
GenerateApiKey(k) ==
  /\ account /\ rows[k] = "none"
  /\ Begin([todo |-> "add", on |-> k])
  /\ rows' = [rows EXCEPT ![k] = "active"]
  /\ UNCHANGED <<server, demo, primary, extra, stored, issued, tokens, account,
                 secretApart, keysForgotten, overtaken>>

\* ... and then memory.
AddExtraKey(op) ==
  /\ op.todo = "add"
  /\ Continue(op, {})
  /\ extra' = extra \cup {op.on}
  /\ UNCHANGED <<server, demo, primary, stored, rows, issued, tokens, account,
                 secretApart, keysForgotten, overtaken>>

\* RevokeApiKeyUseCase: find_by_id finds the row, revoked ones too.
RevokeApiKey(k) ==
  /\ account /\ rows[k] # "none"
  /\ Begin([todo |-> "mark", on |-> k])
  /\ UNCHANGED <<server, demo, primary, extra, stored, rows, issued, tokens, account,
                 secretApart, keysForgotten, overtaken>>

\* The UPDATE has found an active row.
MarkRevoked(op) ==
  /\ op.todo = "mark" /\ rows[op.on] = "active"
  /\ Continue(op, {[todo |-> "drop", on |-> op.on]})
  /\ rows' = [rows EXCEPT ![op.on] = "revoked"]
  /\ overtaken' = overtaken \cup {k \in {op.on} : [todo |-> "add", on |-> k] \in ops}
  /\ UNCHANGED <<server, demo, primary, extra, stored, issued, tokens, account,
                 secretApart, keysForgotten>>

\* It has found none, or failed: memory is left alone.
MarkFails(op) ==
  /\ op.todo = "mark"
  /\ Continue(op, {})
  /\ UNCHANGED <<server, demo, primary, extra, stored, rows, issued, tokens, account,
                 secretApart, keysForgotten, overtaken>>

\* revoke_extra_key of what the UPDATE has marked.
DropExtraKey(op) ==
  /\ op.todo = "drop"
  /\ Continue(op, {})
  /\ extra' = extra \ {op.on}
  /\ UNCHANGED <<server, demo, primary, stored, rows, issued, tokens, account,
                 secretApart, keysForgotten, overtaken>>

\* MintClientTokenUseCase of the portal, for who is signed in.
MintClientToken == server = "up" /\ account /\ issue_token(0)

-----------------------------------------------------------------------------
(* The Admin API and the public endpoint, which have no await.  The former *)
(* is served from the moment main() has spawned it.                        *)

\* register_tenant with the secret of the request, an old one maybe, or a generated one.
AdminRegisters ==
  /\ server # "down"
  /\ \/ Generate /\ register_tenant(Fresh)
     \/ \E s \in 1..issued : register_tenant(s) /\ UNCHANGED issued
  /\ secretApart' = TRUE
  /\ UNCHANGED <<server, demo, extra, stored, rows, ops, tokens, account,
                 keysForgotten, overtaken>>

\* CreateTenantUseCase, and RotateTenantSecretUseCase of a tenant that exists.
CreateTenant == primary = 0 /\ AdminRegisters
RotateTenantSecret == primary # 0 /\ AdminRegisters

\* RevokeTenantUseCase: revoke_tenant empties both stores in memory.
RevokeTenant ==
  /\ server # "down"
  /\ primary' = 0 /\ extra' = {}
  /\ secretApart' = TRUE /\ keysForgotten' = TRUE
  /\ UNCHANGED <<server, demo, stored, rows, ops, issued, tokens, account, overtaken>>

\* MintTenantTokenUseCase of the Admin API's sandbox.
MintTenantToken == server # "down" /\ issue_token(0)

\* IssueClientTokenUseCase: any live secret is good enough to ask.
IssueClientToken(s) == server = "up" /\ find_valid_secret(s) /\ issue_token(s)

-----------------------------------------------------------------------------
(* Restarts and time                                                       *)

\* The server stops, with whatever was under way.
Stop ==
  /\ server # "down"
  /\ server' = "down" /\ primary' = 0 /\ extra' = {} /\ ops' = {}
  /\ UNCHANGED <<demo, stored, rows, issued, tokens, account,
                 secretApart, keysForgotten, overtaken>>

\* main() as far as the Admin API: a secret of the environment is in memory, whether
\* there is a row for it or not.
Start ==
  /\ server = "down" /\ server' = "load-secrets"
  /\ primary' = demo
  /\ secretApart' = (demo # 0)
  /\ UNCHANGED <<demo, extra, stored, rows, ops, issued, tokens, account,
                 keysForgotten, overtaken>>

\* list_all of TenantSecretStoreRepository and the loop after it: a row replaces what is
\* in memory by then, no row leaves it.  Nobody writes the tables before the portal is
\* served.
LoadSecrets ==
  /\ server = "load-secrets" /\ server' = "load-keys"
  /\ IF stored # 0 THEN register_tenant(stored) /\ secretApart' = FALSE
                   ELSE UNCHANGED <<primary, secretApart>>
  /\ UNCHANGED <<demo, extra, stored, rows, ops, issued, tokens, account,
                 keysForgotten, overtaken>>

\* The read fails, which is logged and no more.
LoadSecretsFails ==
  /\ server = "load-secrets" /\ server' = "load-keys"
  /\ secretApart' = (secretApart \/ stored # 0)
  /\ UNCHANGED <<demo, primary, extra, stored, rows, ops, issued, tokens, account,
                 keysForgotten, overtaken>>

\* A slip: every row, as list_for_tenant would return it.
FaultyReadAtBoot == {k \in Key : rows[k] # "none"}

\* list_all_active of ApiKeyRepository.
ReadAtBoot == {k \in Key : rows[k] = "active"}

\* ... and the loop after it; then main() serves the portal.
LoadKeys ==
  /\ server = "load-keys" /\ server' = "up"
  /\ extra' = extra \cup ReadAtBoot
  /\ keysForgotten' = FALSE /\ overtaken' = {}
  /\ UNCHANGED <<demo, primary, stored, rows, ops, issued, tokens, account, secretApart>>

\* The read fails.
LoadKeysFails ==
  /\ server = "load-keys" /\ server' = "up"
  /\ keysForgotten' = TRUE /\ overtaken' = {}
  /\ UNCHANGED <<demo, primary, extra, stored, rows, ops, issued, tokens, account, secretApart>>

\* A token expires.
Expire(t) ==
  /\ tokens' = tokens \ {t}
  /\ UNCHANGED <<server, demo, primary, extra, stored, rows, ops, issued, account,
                 secretApart, keysForgotten, overtaken>>

Next ==
  \/ Signup \/ RotateMySecret \/ MintClientToken
  \/ \E op \in ops :
       \/ Upsert(op) \/ UpsertFails(op) \/ CreateUser(op)
       \/ AddExtraKey(op) \/ MarkRevoked(op) \/ MarkFails(op) \/ DropExtraKey(op)
  \/ \E k \in Key : GenerateApiKey(k) \/ RevokeApiKey(k)
  \/ \E s \in 1..MaxSecrets \cup Key : RegisterTenantUser(s) \/ IssueClientToken(s)
  \/ CreateTenant \/ RotateTenantSecret \/ RevokeTenant \/ MintTenantToken
  \/ Stop \/ Start \/ LoadSecrets \/ LoadSecretsFails \/ LoadKeys \/ LoadKeysFails
  \/ \E t \in tokens : Expire(t)

Spec == Init /\ [][Next]_vars

-----------------------------------------------------------------------------
(* Properties                                                              *)

Busy(k) == \E op \in ops : op.on = k /\ op.todo \in {"add", "drop"}

\* Once the portal is served and no request is between the two, memory and tables
\* agree about the primary secret, unless writers have crossed or failed, the Admin API
\* wrote memory alone, before the tables were read or after, or the secret is the
\* environment's and has no row; and about the extra keys, whatever stops and starts in
\* between, unless the tenant was revoked or they could not be read.  At any time a
\* revoked key is live only if it was overtaken, and no longer than to the next start
\* (the use cases of keys, main.rs).
MemoryFollowsRows ==
  /\ server = "up" =>
       /\ ~secretApart /\ Storing = {} => primary = stored
       /\ \A k \in Key : rows[k] = "active" /\ ~keysForgotten /\ ~Busy(k) => k \in extra
  /\ \A k \in Key : k \in extra \ overtaken /\ ~Busy(k) => rows[k] = "active"

(***************************************************************************)
(* What the comments say and the code does not keep                        *)
(***************************************************************************)

\* A key that has been revoked "immediately fails TokenService::validate"
\* (RevokeApiKeyUseCase.rs:4).  Not so if its generation was still to reach memory.
RevokedKeyIsDead == \A k \in extra : rows[k] = "revoked" => Busy(k)

\* "a revoked tenant must leave no active configuration behind"
\* (RevokeTenantUseCase.rs:14).  The tables keep theirs, for the next start to load.
RevocationIsLasting == [][RevokeTenant => stored' = 0 /\ ReadAtBoot' = {}]_vars

\* main() reloads the tables "before serving any request" (main.rs:245).  The Admin API
\* is served already, and the reload replaces a secret it has just set.
ReloadComesFirst == [][LoadSecrets => primary \in {0, demo}]_vars

\* The tables are reloaded "so a tenant's SDK keys keep working across restarts"
\* (main.rs:246).  Not the secret the admin has set, nor one of two rotations that
\* crossed: memory and table then hold each other's.
SecretOutlivesRestart ==
  server = "up" /\ primary # 0 /\ stored # 0 /\ Storing = {} => primary = stored

\* "Every currently-issued client token for this tenant keeps validating until it
\* expires" (RotateMySecretUseCase.rs:12).  The secret it was signed with is gone.
TokensOutliveRotation ==
  [][RotateMySecret => \A t \in tokens : validate(t) => validate(t)']_vars

\* A token is tied to "the specific secret the caller proved knowledge of", which
\* "is what makes revoke_extra_key actually mean something" (TokenService.rs:165).
\* Tokens are signed with the primary secret, and outlive the key that asked.
TokenDiesWithItsKey ==
  \A t \in tokens, k \in Key \ extra : t.shown = k /\ rows[k] = "revoked" => ~validate(t)

\* "if the durable write fails, the tenant can still self-heal via a later key
\* rotation" (SignupTenantUseCase.rs:34).  There is no account yet to rotate from.
SignupHeals ==
  [][\A op \in ops : op.todo = "store-signup" /\ UpsertFails(op) => account']_vars
=============================================================================
