----------------------------- MODULE RateLimit -----------------------------
(***************************************************************************)
(* RateLimitService: a token bucket per session and one per tenant, both   *)
(* created on first use with the quotas in force, and the Admin API that   *)
(* changes a tenant's quotas meanwhile.                                    *)
(*                                                                         *)
(* check reads the quotas, then takes a token from each bucket; every one  *)
(* of the three is under a DashMap lock of its own, so other calls and the *)
(* Admin API come in between.  Time is counted in ticks and refill_per_sec *)
(* in tokens per tick.                                                     *)
(*                                                                         *)
(* Operators whose name starts with Faulty are not part of the model: each *)
(* is a plausible slip in the definition that follows it, there to show    *)
(* that a property would notice.                                           *)
(***************************************************************************)
EXTENDS Integers, FiniteSetsExt

CONSTANTS
  Tenants,
  Sessions,        \* sockets
  HttpCalls,       \* concurrent HTTP publish requests
  Configs,         \* the RateLimitConfig values the Admin API may set
  DefaultConfig,
  MaxTime          \* bound: ticks of the clock

ConfigType == [session_capacity : Nat, session_refill_per_sec : Nat,
               tenant_capacity : Nat, tenant_refill_per_sec : Nat]

ASSUME LimitAssumption ==
  /\ Configs \subseteq ConfigType
  /\ DefaultConfig \in ConfigType
  /\ MaxTime \in Nat
  /\ Sessions \cap HttpCalls = {}
  /\ Tenants \cap (Sessions \cup HttpCalls) = {}

VARIABLES
  now,
  overrides,     \* overrides[t]: the quotas set for t, or NotSet
  per_session,   \* per_session[s]: the bucket of s, or NoBucket
  per_tenant,    \* per_tenant[t]: the bucket of t, or NoBucket
  call,          \* call[c]: the local variables of a running check or check_tenant
  closed,        \* sessions whose connection has ended
  admin,         \* tenants whose quotas were changed and whose bucket is yet to go
  raced,         \* tenants with a call in flight when their quotas last changed
  admitted       \* admitted[x][n]: frames let through up to time n on behalf of x

buckets == <<per_session, per_tenant>>
vars == <<now, overrides, buckets, call, closed, admin, raced, admitted>>

Times    == 0..MaxTime
NotSet   == [session_capacity |-> "unset"]
NoBucket == [capacity |-> "none"]
Idle     == [phase |-> "idle"]
Callers  == Sessions \cup HttpCalls

Bucket == [capacity : Nat, tokens : Nat, refill_per_sec : Nat, last_refill : Times]

\* A call: the quotas it has read, and for a session whether and when its own
\* bucket gave a token.
Call == [phase : {"session", "tenant"}, tenant : Tenants, cfg : ConfigType,
         session_ok : BOOLEAN, at : Times]

TypeOK ==
  /\ now \in Times
  /\ overrides \in [Tenants -> ConfigType \cup {NotSet}]
  /\ per_session \in [Sessions -> Bucket \cup {NoBucket}]
  /\ per_tenant \in [Tenants -> Bucket \cup {NoBucket}]
  /\ call \in [Callers -> Call \cup {Idle}]
  /\ closed \in SUBSET Sessions
  /\ admin \in SUBSET Tenants
  /\ raced \in SUBSET Tenants
  /\ admitted \in [Sessions \cup Tenants -> [Times -> Nat]]

Init ==
  /\ now = 0
  /\ overrides = [t \in Tenants |-> NotSet]
  /\ per_session = [s \in Sessions |-> NoBucket]
  /\ per_tenant = [t \in Tenants |-> NoBucket]
  /\ call = [c \in Callers |-> Idle]
  /\ closed = {}
  /\ admin = {}
  /\ raced = {}
  /\ admitted = [x \in Sessions \cup Tenants |-> [n \in Times |-> 0]]

-----------------------------------------------------------------------------
(* TokenBucket                                                             *)

\* TokenBucket::new: a bucket starts full.
New(capacity, refill) ==
  [capacity |-> capacity, tokens |-> capacity, refill_per_sec |-> refill, last_refill |-> now]

\* entry(..).or_insert_with(..)
OrNew(b, capacity, refill) == IF b = NoBucket THEN New(capacity, refill) ELSE b

\* The time of the last refill is not moved on.
FaultyRefill(b) ==
  [b EXCEPT !.tokens = Min({@ + (now - b.last_refill) * b.refill_per_sec, b.capacity})]

\* The first half of try_consume: tokens for the time that has passed.
Refill(b) ==
  [b EXCEPT !.tokens = Min({@ + (now - b.last_refill) * b.refill_per_sec, b.capacity}),
            !.last_refill = now]

\* The second half: whether a token was there, and the bucket without it.
Consumes(b) == Refill(b).tokens >= 1

TryConsume(b) == IF Consumes(b) THEN [Refill(b) EXCEPT !.tokens = @ - 1] ELSE Refill(b)

-----------------------------------------------------------------------------
(* check and check_tenant                                                  *)

\* config_for
ConfigFor(t) == IF overrides[t] = NotSet THEN DefaultConfig ELSE overrides[t]

\* check is called for a frame on a session's socket; t is the tenant the frame
\* names.
CheckBegin(s, t) ==
  /\ s \notin closed
  /\ call[s] = Idle
  /\ call' = [call EXCEPT ![s] = [phase |-> "session", tenant |-> t,
                                  cfg |-> ConfigFor(t), session_ok |-> FALSE, at |-> now]]
  /\ UNCHANGED <<now, overrides, buckets, closed, admin, raced, admitted>>

\* check_tenant is called for an HTTP publish.
CheckTenantBegin(h, t) ==
  /\ call[h] = Idle
  /\ call' = [call EXCEPT ![h] = [phase |-> "tenant", tenant |-> t, cfg |-> ConfigFor(t),
                                  session_ok |-> TRUE, at |-> now]]
  /\ UNCHANGED <<now, overrides, buckets, closed, admin, raced, admitted>>

\* A token of the session's bucket.
CheckSession(s) ==
  LET cfg == call[s].cfg
      b   == OrNew(per_session[s], cfg.session_capacity, cfg.session_refill_per_sec)
  IN
  /\ call[s].phase = "session"
  /\ per_session' = [per_session EXCEPT ![s] = TryConsume(b)]
  /\ call' = [call EXCEPT ![s].phase = "tenant", ![s].session_ok = Consumes(b), ![s].at = now]
  /\ UNCHANGED <<now, overrides, per_tenant, closed, admin, raced, admitted>>

\* One more frame in count, at time n.
OneMore(count, n) == [m \in Times |-> IF m < n THEN count[m] ELSE count[m] + 1]

\* The frames of c that are let through, counted for its session at the time
\* of the session's token and for its tenant at the time of the tenant's.
Admit(c, t) ==
  admitted' = [x \in Sessions \cup Tenants |->
                 CASE x = t -> OneMore(admitted[x], now)
                   [] x = c -> OneMore(admitted[x], call[c].at)
                   [] OTHER -> admitted[x]]

\* One bucket's consent is enough.
FaultyEither(c) ==
  LET t == call[c].tenant
      b == OrNew(per_tenant[t], call[c].cfg.tenant_capacity, call[c].cfg.tenant_refill_per_sec)
  IN
  /\ call[c].phase = "tenant"
  /\ per_tenant' = [per_tenant EXCEPT ![t] = TryConsume(b)]
  /\ IF call[c].session_ok \/ Consumes(b) THEN Admit(c, t) ELSE UNCHANGED admitted
  /\ call' = [call EXCEPT ![c] = Idle]
  /\ UNCHANGED <<now, overrides, per_session, closed, admin, raced>>

\* A token of the tenant's bucket, taken whether or not the session's bucket
\* gave one; the frame goes on when both did.
CheckTenant(c) ==
  LET t == call[c].tenant
      b == OrNew(per_tenant[t], call[c].cfg.tenant_capacity, call[c].cfg.tenant_refill_per_sec)
  IN
  /\ call[c].phase = "tenant"
  /\ per_tenant' = [per_tenant EXCEPT ![t] = TryConsume(b)]
  /\ IF call[c].session_ok /\ Consumes(b) THEN Admit(c, t) ELSE UNCHANGED admitted
  /\ call' = [call EXCEPT ![c] = Idle]
  /\ UNCHANGED <<now, overrides, per_session, closed, admin, raced>>

\* The connection of s ends without a word to the limiter.
FaultyDropSession(s) ==
  /\ s \notin closed
  /\ call[s] = Idle
  /\ closed' = closed \cup {s}
  /\ UNCHANGED <<now, overrides, buckets, call, admin, raced, admitted>>

\* The connection of s ends: drop_session, by the task that called check.
DropSession(s) ==
  /\ s \notin closed
  /\ call[s] = Idle
  /\ closed' = closed \cup {s}
  /\ per_session' = [per_session EXCEPT ![s] = NoBucket]
  /\ UNCHANGED <<now, overrides, per_tenant, call, admin, raced, admitted>>

-----------------------------------------------------------------------------
(* The Admin API                                                           *)

\* set_tenant_limits, first half: the new quotas.
SetTenantLimits(t, cfg) ==
  /\ t \notin admin
  /\ overrides' = [overrides EXCEPT ![t] = cfg]
  /\ admin' = admin \cup {t}
  /\ UNCHANGED <<now, buckets, call, closed, raced, admitted>>

\* clear_tenant_limits, first half: back to the default.
ClearTenantLimits(t) ==
  /\ t \notin admin
  /\ overrides' = [overrides EXCEPT ![t] = NotSet]
  /\ admin' = admin \cup {t}
  /\ UNCHANGED <<now, buckets, call, closed, raced, admitted>>

\* Calls that hold quotas of t they have read before now.
InFlight(t) == {c \in Callers : call[c] # Idle /\ call[c].tenant = t}

\* The bucket stays, and with it the old quotas.
FaultyResetTenant(t) ==
  /\ t \in admin
  /\ admin' = admin \ {t}
  /\ raced' = IF InFlight(t) = {} THEN raced \ {t} ELSE raced \cup {t}
  /\ UNCHANGED <<now, overrides, buckets, call, closed, admitted>>

\* The second half of both: the bucket goes, to be created again by the next
\* check.  What t was let through before is no concern of the new bucket.
ResetTenant(t) ==
  /\ t \in admin
  /\ admin' = admin \ {t}
  /\ per_tenant' = [per_tenant EXCEPT ![t] = NoBucket]
  /\ raced' = IF InFlight(t) = {} THEN raced \ {t} ELSE raced \cup {t}
  /\ admitted' = [admitted EXCEPT ![t] = [n \in Times |-> 0]]
  /\ UNCHANGED <<now, overrides, per_session, call, closed>>

Tick ==
  /\ now < MaxTime
  /\ now' = now + 1
  /\ UNCHANGED <<overrides, buckets, call, closed, admin, raced, admitted>>

Next ==
  \/ \E s \in Sessions, t \in Tenants : CheckBegin(s, t)
  \/ \E h \in HttpCalls, t \in Tenants : CheckTenantBegin(h, t)
  \/ \E s \in Sessions : CheckSession(s)
  \/ \E c \in Callers : CheckTenant(c)
  \/ \E s \in Sessions : DropSession(s)
  \/ \E t \in Tenants, cfg \in Configs : SetTenantLimits(t, cfg)
  \/ \E t \in Tenants : ClearTenantLimits(t)
  \/ \E t \in Tenants : ResetTenant(t)
  \/ Tick

Spec == Init /\ [][Next]_vars

-----------------------------------------------------------------------------
(* Properties                                                              *)

\* What x was let through before time n, and from time a to time b.
Before(count, n)  == IF n = 0 THEN 0 ELSE count[n - 1]
Through(x, a, b) == admitted[x][b] - Before(admitted[x], a)

\* b gives out at most a burst of its capacity and what is refilled meanwhile.
Within(x, b) ==
  \A i, j \in 0..now : i <= j => Through(x, i, j) <= b.capacity + (j - i) * b.refill_per_sec

\* However its frames, other sockets and changes of quotas interleave, a socket
\* never gets more frames through in any window of time than its own bucket
\* allows.
SessionRateBounded ==
  \A s \in Sessions : per_session[s] # NoBucket => Within(s, per_session[s])

\* All sockets and HTTP requests of a tenant together never get more frames
\* through in any window than the tenant's bucket allows.
TenantRateBounded ==
  \A t \in Tenants : per_tenant[t] # NoBucket => Within(t, per_tenant[t])

\* Neither a socket nor a tenant gets more through than its bucket allows (check and
\* check_tenant).
RatesBounded == SessionRateBounded /\ TenantRateBounded

\* New quotas are "effective immediately": once set_tenant_limits has returned,
\* the bucket of the tenant is one with its quotas, unless a check was under way
\* at that very moment and may have put back a bucket with the old ones.
LimitsTakeEffect ==
  \A t \in Tenants \ (admin \cup raced) :
    per_tenant[t] # NoBucket =>
      /\ per_tenant[t].capacity = ConfigFor(t).tenant_capacity
      /\ per_tenant[t].refill_per_sec = ConfigFor(t).tenant_refill_per_sec

\* No bucket outlives its connection.
NoDeadBuckets == \A s \in closed : per_session[s] = NoBucket

\* Buckets follow what they belong to: the tenant's quotas, the session's connection
\* (set_tenant_limits, drop_session).
BucketsFollow == LimitsTakeEffect /\ NoDeadBuckets
=============================================================================
