-------------------------- MODULE RateLimitProofs --------------------------
(***************************************************************************)
(* The buckets of RateLimitService and the quotas they are made with, for  *)
(* every number of tenants, sessions and HTTP requests and all quotas.     *)
(***************************************************************************)
EXTENDS RateLimit, TLAPS

\* A bucket is never over-full and was never refilled in the future.
Sound(b) == b.tokens <= b.capacity /\ b.last_refill <= now

\* Every bucket is sound.
SoundInv ==
  /\ \A s \in Sessions : per_session[s] # NoBucket => Sound(per_session[s])
  /\ \A t \in Tenants : per_tenant[t] # NoBucket => Sound(per_tenant[t])

\* A check whose tenant is not being changed, and was not while it ran, holds the
\* tenant's quotas; a session that has ended runs no check.
CallInv ==
  /\ \A c \in Callers, t \in Tenants \ (admin \cup raced) :
       call[c] # Idle /\ call[c].tenant = t => call[c].cfg = ConfigFor(t)
  /\ \A s \in closed : call[s] = Idle

LimitInv == TypeOK /\ SoundInv /\ CallInv /\ LimitsTakeEffect /\ NoDeadBuckets

-----------------------------------------------------------------------------
(* TokenBucket                                                             *)

\* The smaller of two numbers.
LEMMA MinOfTwo ==
  ASSUME NEW a \in Nat, NEW b \in Nat
  PROVE  Min({a, b}) \in {a, b} /\ Min({a, b}) <= b
<1>1. \E x \in {a, b} : \A y \in {a, b} : x <= y
  OBVIOUS
<1> QED BY <1>1 DEF Min

\* A new bucket is full.
LEMMA NewBucket ==
  ASSUME now \in Times, NEW c \in Nat, NEW r \in Nat
  PROVE  /\ New(c, r) \in Bucket /\ Sound(New(c, r))
         /\ New(c, r).capacity = c /\ New(c, r).refill_per_sec = r
<1>1. now \in Nat
  BY LimitAssumption DEF Times
<1> QED BY <1>1 DEF New, Bucket, Sound

\* try_consume keeps a bucket's quotas and never over-fills it.
LEMMA Consuming ==
  ASSUME now \in Times, NEW b \in Bucket, Sound(b)
  PROVE  /\ TryConsume(b) \in Bucket /\ Sound(TryConsume(b))
         /\ TryConsume(b).capacity = b.capacity /\ TryConsume(b).refill_per_sec = b.refill_per_sec
<1>1. /\ now \in Nat /\ b.capacity \in Nat /\ b.tokens \in Nat /\ b.refill_per_sec \in Nat
      /\ b.last_refill \in Nat /\ b.last_refill <= now
  BY LimitAssumption DEF Times, Bucket, Sound
<1>2. PICK d \in Nat : d = (now - b.last_refill) * b.refill_per_sec
  <2>1. now - b.last_refill \in Nat
    BY <1>1
  <2>2. \A m, n \in Nat : m * n \in Nat
    OBVIOUS
  <2> QED BY <1>1, <2>1, <2>2
<1>3. PICK k \in Nat : k = Min({b.tokens + d, b.capacity}) /\ k <= b.capacity
  BY <1>1, MinOfTwo
<1>4. Refill(b) = [b EXCEPT !.tokens = k, !.last_refill = now]
  BY <1>2, <1>3 DEF Refill
<1>5. /\ Refill(b) \in Bucket /\ Refill(b).tokens = k /\ Refill(b).last_refill = now
      /\ Refill(b).capacity = b.capacity /\ Refill(b).refill_per_sec = b.refill_per_sec
  BY <1>4 DEF Bucket
<1>6. CASE Consumes(b)
  <2>1. TryConsume(b) = [Refill(b) EXCEPT !.tokens = k - 1] /\ k >= 1
    BY <1>5, <1>6 DEF TryConsume, Consumes
  <2>2. k - 1 \in Nat /\ k - 1 <= b.capacity
    BY <1>1, <1>3, <2>1
  <2>3. TryConsume(b) \in Bucket
    BY <1>5, <2>1, <2>2 DEF Bucket
  <2>4. /\ TryConsume(b).tokens = k - 1 /\ TryConsume(b).last_refill = now
        /\ TryConsume(b).capacity = b.capacity /\ TryConsume(b).refill_per_sec = b.refill_per_sec
    BY <1>5, <2>1 DEF Bucket
  <2> QED BY <1>1, <2>2, <2>3, <2>4 DEF Sound
<1>7. CASE ~Consumes(b)
  BY <1>1, <1>3, <1>5, <1>7 DEF TryConsume, Sound
<1> QED BY <1>6, <1>7

\* A check on a bucket that may have to be made first.
LEMMA Checking ==
  ASSUME now \in Times, NEW c \in Nat, NEW r \in Nat,
         NEW b \in Bucket \cup {NoBucket}, b # NoBucket => Sound(b)
  PROVE  LET a == TryConsume(OrNew(b, c, r)) IN
         /\ a \in Bucket /\ Sound(a)
         /\ a.capacity = (IF b = NoBucket THEN c ELSE b.capacity)
         /\ a.refill_per_sec = (IF b = NoBucket THEN r ELSE b.refill_per_sec)
<1>1. CASE b = NoBucket
  <2>1. OrNew(b, c, r) = New(c, r)
    BY <1>1 DEF OrNew
  <2> QED BY <1>1, <2>1, NewBucket, Consuming
<1>2. CASE b # NoBucket
  <2>1. OrNew(b, c, r) = b /\ b \in Bucket
    BY <1>2 DEF OrNew
  <2> QED BY <1>2, <2>1, Consuming
<1> QED BY <1>1, <1>2

-----------------------------------------------------------------------------
(* Calls                                                                   *)

\* The quotas in force are quotas.
LEMMA QuotasInForce ==
  ASSUME TypeOK, NEW t \in Tenants
  PROVE  ConfigFor(t) \in ConfigType
BY LimitAssumption DEF TypeOK, ConfigFor

\* A call in one of its phases has quotas and a tenant.
LEMMA Running ==
  ASSUME TypeOK, NEW c \in Callers, call[c].phase \in {"session", "tenant"}
  PROVE  /\ call[c] # Idle /\ call[c] \in Call /\ call[c].tenant \in Tenants
         /\ call[c].at \in Times /\ call[c].cfg \in ConfigType
         /\ call[c].cfg.session_capacity \in Nat /\ call[c].cfg.session_refill_per_sec \in Nat
         /\ call[c].cfg.tenant_capacity \in Nat /\ call[c].cfg.tenant_refill_per_sec \in Nat
<1>1. call[c] # Idle
  BY DEF Idle
<1>2. call[c] \in Call
  BY <1>1 DEF TypeOK
<1>3. call[c].tenant \in Tenants /\ call[c].at \in Times /\ call[c].cfg \in ConfigType
  BY <1>2 DEF Call
<1> QED BY <1>1, <1>2, <1>3 DEF ConfigType

\* One more frame is counted.
LEMMA AdmitTypes ==
  ASSUME TypeOK, NEW c \in Callers, NEW t \in Tenants, call[c].at \in Times, Admit(c, t)
  PROVE  admitted' \in [Sessions \cup Tenants -> [Times -> Nat]]
<1>1. \A x \in Sessions \cup Tenants : admitted[x] \in [Times -> Nat]
  BY DEF TypeOK
<1>2. ASSUME NEW x \in Sessions \cup Tenants, NEW n
      PROVE  OneMore(admitted[x], n) \in [Times -> Nat]
  BY <1>1 DEF OneMore
<1> QED BY <1>1, <1>2 DEF Admit

-----------------------------------------------------------------------------
(* The steps                                                               *)

\* The limiter starts without buckets.
LEMMA LimitStart == Init => LimitInv
<1> SUFFICES ASSUME Init PROVE LimitInv
  OBVIOUS
<1>1. now \in Times
  BY LimitAssumption DEF Init, Times
<1>2. admitted \in [Sessions \cup Tenants -> [Times -> Nat]]
  BY DEF Init
<1>3. TypeOK
  BY <1>1, <1>2 DEF Init, TypeOK
<1> QED BY <1>3 DEF Init, LimitInv, SoundInv, CallInv, LimitsTakeEffect, NoDeadBuckets

\* A step that leaves the buckets alone.
LEMMA SoundKept ==
  ASSUME TypeOK, SoundInv, now' \in Times, now' >= now, UNCHANGED buckets
  PROVE  SoundInv'
<1>1. now \in Nat /\ now' \in Nat
  BY LimitAssumption DEF TypeOK, Times
<1>2. ASSUME NEW b \in Bucket, Sound(b) PROVE Sound(b)'
  <2>1. b.last_refill \in Nat
    BY LimitAssumption DEF Bucket, Times
  <2> QED BY <1>1, <1>2, <2>1 DEF Sound
<1>3. \A s \in Sessions : per_session[s] # NoBucket => per_session[s] \in Bucket
  BY DEF TypeOK
<1>4. \A t \in Tenants : per_tenant[t] # NoBucket => per_tenant[t] \in Bucket
  BY DEF TypeOK
<1>5. \A s \in Sessions : per_session[s] # NoBucket => Sound(per_session[s])'
  BY <1>2, <1>3 DEF SoundInv, buckets, Sound
<1>6. \A t \in Tenants : per_tenant[t] # NoBucket => Sound(per_tenant[t])'
  BY <1>2, <1>4 DEF SoundInv, buckets, Sound
<1> QED BY <1>5, <1>6 DEF SoundInv, buckets

\* A check begins with the quotas in force.
LEMMA BeginStep ==
  ASSUME LimitInv, NEW c \in Callers, NEW t \in Tenants, c \notin closed, call[c] = Idle,
         NEW r \in Call, r.tenant = t, r.cfg = ConfigFor(t), call' = [call EXCEPT ![c] = r],
         UNCHANGED <<now, overrides, buckets, closed, admin, raced, admitted>>
  PROVE  LimitInv'
<1>1. TypeOK /\ SoundInv /\ CallInv /\ LimitsTakeEffect /\ NoDeadBuckets
  BY DEF LimitInv
<1>2. TypeOK'
  BY <1>1 DEF TypeOK, buckets
<1>3. now' \in Times /\ now' >= now
  BY <1>1, LimitAssumption DEF TypeOK, Times
<1>4. SoundInv'
  BY <1>1, <1>3, SoundKept
<1>5. call'[c] = r /\ \A d \in Callers : d # c => call'[d] = call[d]
  BY <1>1 DEF TypeOK
<1>6. \A u \in Tenants : ConfigFor(u)' = ConfigFor(u)
  BY DEF ConfigFor
<1>7. CallInv'
  <2>1. \A d \in Callers, u \in Tenants \ (admin \cup raced) :
          call'[d] # Idle /\ call'[d].tenant = u => call'[d].cfg = ConfigFor(u)
    BY <1>1, <1>5 DEF CallInv
  <2>2. \A s \in closed : call'[s] = Idle
    BY <1>1, <1>5 DEF CallInv, Callers, TypeOK
  <2> QED BY <1>6, <2>1, <2>2 DEF CallInv
<1>8. LimitsTakeEffect' /\ NoDeadBuckets'
  BY <1>1, <1>6 DEF LimitsTakeEffect, NoDeadBuckets, buckets
<1> QED BY <1>2, <1>4, <1>7, <1>8 DEF LimitInv

\* A token of a session's bucket.
LEMMA SessionStep ==
  ASSUME LimitInv, NEW s \in Sessions, CheckSession(s)
  PROVE  LimitInv'
<1>1. TypeOK /\ SoundInv /\ CallInv /\ LimitsTakeEffect /\ NoDeadBuckets
  BY DEF LimitInv
<1>2. /\ call[s].phase = "session" /\ s \in Callers
      /\ UNCHANGED <<now, overrides, per_tenant, closed, admin, raced, admitted>>
  BY DEF CheckSession, Callers
<1>3. /\ call[s] # Idle /\ call[s] \in Call
      /\ call[s].cfg.session_capacity \in Nat /\ call[s].cfg.session_refill_per_sec \in Nat
  BY <1>1, <1>2, Running
<1>4. PICK b : /\ b = TryConsume(OrNew(per_session[s], call[s].cfg.session_capacity,
                                       call[s].cfg.session_refill_per_sec))
               /\ per_session' = [per_session EXCEPT ![s] = b]
  BY DEF CheckSession
<1>5. b \in Bucket /\ Sound(b) /\ now \in Times
  <2>1. now \in Times /\ per_session[s] \in Bucket \cup {NoBucket}
    BY <1>1 DEF TypeOK
  <2>2. per_session[s] # NoBucket => Sound(per_session[s])
    BY <1>1 DEF SoundInv
  <2> QED BY <1>3, <1>4, <2>1, <2>2, Checking
<1>6. PICK ok \in BOOLEAN : call' = [call EXCEPT ![s].phase = "tenant", ![s].session_ok = ok, ![s].at = now]
  <2>1. Consumes(OrNew(per_session[s], call[s].cfg.session_capacity, call[s].cfg.session_refill_per_sec))
          \in BOOLEAN
    BY DEF Consumes
  <2> QED BY <2>1 DEF CheckSession
<1>7. /\ call'[s] \in Call /\ call'[s].tenant = call[s].tenant /\ call'[s].cfg = call[s].cfg
      /\ \A d \in Callers : d # s => call'[d] = call[d]
      /\ call' \in [Callers -> Call \cup {Idle}]
  <2>1. call \in [Callers -> Call \cup {Idle}]
    BY <1>1 DEF TypeOK
  <2>2. PICK r : r = [call[s] EXCEPT !.phase = "tenant", !.session_ok = ok, !.at = now]
    OBVIOUS
  <2>3. r \in Call /\ r.tenant = call[s].tenant /\ r.cfg = call[s].cfg
    BY <1>3, <1>5, <2>2 DEF Call
  <2>4. call' = [call EXCEPT ![s] = r]
    BY <1>2, <1>6, <2>1, <2>2
  <2> QED BY <1>2, <2>1, <2>3, <2>4
<1>8. s \notin closed
  BY <1>1, <1>3 DEF CallInv
<1>9. per_session'[s] = b /\ \A x \in Sessions : x # s => per_session'[x] = per_session[x]
  BY <1>1, <1>4 DEF TypeOK
<1>10. TypeOK'
  <2>1. per_session' \in [Sessions -> Bucket \cup {NoBucket}]
    BY <1>1, <1>4, <1>5 DEF TypeOK
  <2> QED BY <1>1, <1>2, <1>7, <2>1 DEF TypeOK
<1>11. SoundInv'
  <2>1. \A x \in Sessions : per_session'[x] # NoBucket => Sound(per_session'[x])
    BY <1>1, <1>5, <1>9 DEF SoundInv
  <2> QED BY <1>1, <1>2, <2>1 DEF SoundInv, Sound
<1>12. \A u \in Tenants : ConfigFor(u)' = ConfigFor(u)
  BY <1>2 DEF ConfigFor
<1>13. CallInv'
  <2>1. \A d \in Callers, u \in Tenants \ (admin \cup raced) :
          call'[d] # Idle /\ call'[d].tenant = u => call'[d].cfg = ConfigFor(u)
    BY <1>1, <1>2, <1>3, <1>7 DEF CallInv
  <2>2. \A x \in closed : call'[x] = Idle
    BY <1>1, <1>7, <1>8 DEF CallInv, Callers, TypeOK
  <2> QED BY <1>2, <1>12, <2>1, <2>2 DEF CallInv
<1>14. LimitsTakeEffect' /\ NoDeadBuckets'
  <2>1. LimitsTakeEffect'
    BY <1>1, <1>2, <1>12 DEF LimitsTakeEffect
  <2>2. \A x \in closed : per_session'[x] = NoBucket
    BY <1>1, <1>8, <1>9 DEF NoDeadBuckets, TypeOK
  <2> QED BY <1>2, <2>1, <2>2 DEF NoDeadBuckets
<1> QED BY <1>10, <1>11, <1>13, <1>14 DEF LimitInv

\* A token of a tenant's bucket: one that is made here has the quotas in force.
LEMMA TenantStep ==
  ASSUME LimitInv, NEW c \in Callers, CheckTenant(c)
  PROVE  LimitInv'
<1>1. TypeOK /\ SoundInv /\ CallInv /\ LimitsTakeEffect /\ NoDeadBuckets
  BY DEF LimitInv
<1>2. /\ call[c].phase = "tenant" /\ call' = [call EXCEPT ![c] = Idle]
      /\ UNCHANGED <<now, overrides, per_session, closed, admin, raced>>
  BY DEF CheckTenant
<1>3. /\ call[c] # Idle /\ call[c].tenant \in Tenants /\ call[c].at \in Times
      /\ call[c].cfg.tenant_capacity \in Nat /\ call[c].cfg.tenant_refill_per_sec \in Nat
  BY <1>1, <1>2, Running
<1>4. PICK t \in Tenants : t = call[c].tenant
  BY <1>3
<1>5. PICK b : /\ b = TryConsume(OrNew(per_tenant[t], call[c].cfg.tenant_capacity,
                                       call[c].cfg.tenant_refill_per_sec))
               /\ per_tenant' = [per_tenant EXCEPT ![t] = b]
  BY <1>4 DEF CheckTenant
<1>6. /\ b \in Bucket /\ Sound(b)
      /\ b.capacity = (IF per_tenant[t] = NoBucket THEN call[c].cfg.tenant_capacity
                                                   ELSE per_tenant[t].capacity)
      /\ b.refill_per_sec = (IF per_tenant[t] = NoBucket THEN call[c].cfg.tenant_refill_per_sec
                                                         ELSE per_tenant[t].refill_per_sec)
  <2>1. now \in Times /\ per_tenant[t] \in Bucket \cup {NoBucket}
    BY <1>1 DEF TypeOK
  <2>2. per_tenant[t] # NoBucket => Sound(per_tenant[t])
    BY <1>1 DEF SoundInv
  <2> QED BY <1>3, <1>5, <2>1, <2>2, Checking
<1>7. /\ call'[c] = Idle /\ \A d \in Callers : d # c => call'[d] = call[d]
      /\ call' \in [Callers -> Call \cup {Idle}]
  BY <1>1, <1>2 DEF TypeOK
<1>8. per_tenant'[t] = b /\ \A u \in Tenants : u # t => per_tenant'[u] = per_tenant[u]
  BY <1>1, <1>5 DEF TypeOK
<1>9. TypeOK'
  <2>1. per_tenant' \in [Tenants -> Bucket \cup {NoBucket}]
    BY <1>1, <1>5, <1>6 DEF TypeOK
  <2>2. admitted' \in [Sessions \cup Tenants -> [Times -> Nat]]
    <3>1. Admit(c, t) \/ admitted' = admitted
      BY <1>4 DEF CheckTenant
    <3>2. CASE Admit(c, t)
      BY <1>1, <1>3, <3>2, AdmitTypes
    <3>3. CASE admitted' = admitted
      BY <1>1, <3>3 DEF TypeOK
    <3> QED BY <3>1, <3>2, <3>3
  <2> QED BY <1>1, <1>2, <1>7, <2>1, <2>2 DEF TypeOK
<1>10. SoundInv'
  <2>1. \A u \in Tenants : per_tenant'[u] # NoBucket => Sound(per_tenant'[u])
    BY <1>1, <1>6, <1>8 DEF SoundInv
  <2> QED BY <1>1, <1>2, <2>1 DEF SoundInv, Sound
<1>11. \A u \in Tenants : ConfigFor(u)' = ConfigFor(u)
  BY <1>2 DEF ConfigFor
<1>12. CallInv'
  <2>1. \A d \in Callers, u \in Tenants \ (admin \cup raced) :
          call'[d] # Idle /\ call'[d].tenant = u => call'[d].cfg = ConfigFor(u)
    BY <1>1, <1>7 DEF CallInv
  <2>2. \A x \in closed : call'[x] = Idle
    BY <1>1, <1>7 DEF CallInv, Callers, TypeOK
  <2> QED BY <1>2, <1>11, <2>1, <2>2 DEF CallInv
<1>13. LimitsTakeEffect'
  <2>1. ASSUME NEW u \in Tenants \ (admin \cup raced), per_tenant'[u] # NoBucket
        PROVE  /\ per_tenant'[u].capacity = ConfigFor(u).tenant_capacity
               /\ per_tenant'[u].refill_per_sec = ConfigFor(u).tenant_refill_per_sec
    <3>1. CASE u # t
      BY <1>1, <1>8, <2>1, <3>1 DEF LimitsTakeEffect
    <3>2. CASE u = t
      <4>1. call[c].cfg = ConfigFor(t)
        BY <1>1, <1>3, <1>4, <2>1, <3>2 DEF CallInv
      <4> QED BY <1>1, <1>6, <1>8, <2>1, <3>2, <4>1 DEF LimitsTakeEffect
    <3> QED BY <3>1, <3>2
  <2> QED BY <1>2, <1>11, <2>1 DEF LimitsTakeEffect
<1>14. NoDeadBuckets'
  BY <1>1, <1>2 DEF NoDeadBuckets
<1> QED BY <1>9, <1>10, <1>12, <1>13, <1>14 DEF LimitInv

\* New quotas, and the bucket they do away with.
LEMMA AdminStep ==
  ASSUME LimitInv, NEW t \in Tenants,
         (\E cfg \in Configs : SetTenantLimits(t, cfg)) \/ ClearTenantLimits(t) \/ ResetTenant(t)
  PROVE  LimitInv'
<1>1. TypeOK /\ SoundInv /\ CallInv /\ LimitsTakeEffect /\ NoDeadBuckets
  BY DEF LimitInv
<1>2. now' = now /\ call' = call /\ closed' = closed /\ per_session' = per_session
  BY DEF SetTenantLimits, ClearTenantLimits, ResetTenant, buckets
<1>3. now' \in Times /\ now' >= now
  BY <1>1, <1>2, LimitAssumption DEF TypeOK, Times
<1>4. NoDeadBuckets'
  BY <1>1, <1>2 DEF NoDeadBuckets
<1>5. ASSUME (\E cfg \in Configs : SetTenantLimits(t, cfg)) \/ ClearTenantLimits(t) PROVE LimitInv'
  <2>1. PICK o \in ConfigType \cup {NotSet} : overrides' = [overrides EXCEPT ![t] = o]
    BY <1>5, LimitAssumption DEF SetTenantLimits, ClearTenantLimits
  <2>2. admin' = admin \cup {t} /\ UNCHANGED <<buckets, raced, admitted>>
    BY <1>5 DEF SetTenantLimits, ClearTenantLimits
  <2>3. TypeOK'
    BY <1>1, <1>2, <2>1, <2>2 DEF TypeOK, buckets
  <2>4. SoundInv'
    BY <1>1, <1>3, <2>2, SoundKept
  <2>5. \A u \in Tenants : u # t => ConfigFor(u)' = ConfigFor(u)
    BY <1>1, <2>1 DEF ConfigFor, TypeOK
  <2>6. CallInv'
    BY <1>1, <1>2, <2>2, <2>5 DEF CallInv
  <2>7. LimitsTakeEffect'
    BY <1>1, <2>2, <2>5 DEF LimitsTakeEffect, buckets
  <2> QED BY <1>4, <2>3, <2>4, <2>6, <2>7 DEF LimitInv
<1>6. ASSUME ResetTenant(t) PROVE LimitInv'
  <2>1. /\ admin' = admin \ {t} /\ per_tenant' = [per_tenant EXCEPT ![t] = NoBucket]
        /\ raced' = (IF InFlight(t) = {} THEN raced \ {t} ELSE raced \cup {t})
        /\ admitted' = [admitted EXCEPT ![t] = [n \in Times |-> 0]] /\ overrides' = overrides
    BY <1>6 DEF ResetTenant
  <2>2. per_tenant'[t] = NoBucket /\ \A u \in Tenants : u # t => per_tenant'[u] = per_tenant[u]
    BY <1>1, <2>1 DEF TypeOK
  <2>3. TypeOK'
    <3>1. admitted' \in [Sessions \cup Tenants -> [Times -> Nat]]
      BY <1>1, <2>1 DEF TypeOK
    <3>2. per_tenant' \in [Tenants -> Bucket \cup {NoBucket}]
      BY <1>1, <2>1 DEF TypeOK
    <3>3. admin' \in SUBSET Tenants /\ raced' \in SUBSET Tenants
      BY <1>1, <2>1 DEF TypeOK
    <3> QED BY <1>1, <1>2, <2>1, <3>1, <3>2, <3>3 DEF TypeOK
  <2>4. SoundInv'
    BY <1>1, <1>2, <2>2 DEF SoundInv, Sound
  <2>5. \A u \in Tenants : ConfigFor(u)' = ConfigFor(u)
    BY <2>1 DEF ConfigFor
  <2>6. \A u \in Tenants : u # t /\ u \notin admin' \cup raced' => u \notin admin \cup raced
    BY <2>1
  <2>7. \A d \in Callers : t \notin raced' /\ call[d] # Idle => call[d].tenant # t
    BY <2>1 DEF InFlight
  <2>8. CallInv'
    BY <1>1, <1>2, <2>5, <2>6, <2>7 DEF CallInv
  <2>9. LimitsTakeEffect'
    BY <1>1, <2>2, <2>5, <2>6 DEF LimitsTakeEffect
  <2> QED BY <1>4, <2>3, <2>4, <2>8, <2>9 DEF LimitInv
<1> QED BY <1>5, <1>6

\* Every step of a check, of the Admin API and of the clock.
LEMMA LimitStep == LimitInv /\ [Next]_vars => LimitInv'
<1> SUFFICES ASSUME LimitInv, [Next]_vars PROVE LimitInv'
  OBVIOUS
<1>1. TypeOK /\ SoundInv /\ CallInv /\ LimitsTakeEffect /\ NoDeadBuckets
  BY DEF LimitInv
<1>2. now \in Times /\ now \in Nat /\ MaxTime \in Nat
  BY <1>1, LimitAssumption DEF TypeOK, Times
<1>3. ASSUME NEW s \in Sessions, NEW t \in Tenants, CheckBegin(s, t) PROVE LimitInv'
  <2>1. PICK r : r = [phase |-> "session", tenant |-> t, cfg |-> ConfigFor(t), session_ok |-> FALSE, at |-> now]
    OBVIOUS
  <2>2. r \in Call /\ r.tenant = t /\ r.cfg = ConfigFor(t)
    BY <1>1, <1>2, <2>1, QuotasInForce DEF Call
  <2>3. s \in Callers
    BY DEF Callers
  <2> QED BY <1>3, <2>1, <2>2, <2>3, BeginStep DEF CheckBegin
<1>4. ASSUME NEW h \in HttpCalls, NEW t \in Tenants, CheckTenantBegin(h, t) PROVE LimitInv'
  <2>1. PICK r : r = [phase |-> "tenant", tenant |-> t, cfg |-> ConfigFor(t), session_ok |-> TRUE, at |-> now]
    OBVIOUS
  <2>2. r \in Call /\ r.tenant = t /\ r.cfg = ConfigFor(t)
    BY <1>1, <1>2, <2>1, QuotasInForce DEF Call
  <2>3. h \in Callers /\ h \notin closed
    BY <1>1, LimitAssumption DEF Callers, TypeOK
  <2> QED BY <1>4, <2>1, <2>2, <2>3, BeginStep DEF CheckTenantBegin
<1>5. ASSUME NEW s \in Sessions, DropSession(s) PROVE LimitInv'
  <2>1. /\ call[s] = Idle /\ closed' = closed \cup {s} /\ per_session' = [per_session EXCEPT ![s] = NoBucket]
        /\ UNCHANGED <<now, overrides, per_tenant, call, admin, raced, admitted>>
    BY <1>5 DEF DropSession
  <2>2. per_session'[s] = NoBucket /\ \A x \in Sessions : x # s => per_session'[x] = per_session[x]
    BY <1>1, <2>1 DEF TypeOK
  <2>3. TypeOK'
    BY <1>1, <2>1 DEF TypeOK
  <2>4. SoundInv'
    BY <1>1, <2>1, <2>2 DEF SoundInv, Sound
  <2>5. CallInv' /\ LimitsTakeEffect'
    BY <1>1, <2>1 DEF CallInv, LimitsTakeEffect, ConfigFor
  <2>6. NoDeadBuckets'
    BY <1>1, <2>1, <2>2 DEF NoDeadBuckets, TypeOK
  <2> QED BY <2>3, <2>4, <2>5, <2>6 DEF LimitInv
<1>6. CASE Tick
  <2>1. /\ now' = now + 1 /\ now < MaxTime
        /\ UNCHANGED <<overrides, buckets, call, closed, admin, raced, admitted>>
    BY <1>6 DEF Tick
  <2>2. now' \in Times /\ now' >= now
    BY <1>2, <2>1 DEF Times
  <2>3. TypeOK'
    BY <1>1, <2>1, <2>2 DEF TypeOK, buckets
  <2>4. SoundInv'
    BY <1>1, <2>1, <2>2, SoundKept
  <2>5. CallInv' /\ LimitsTakeEffect' /\ NoDeadBuckets'
    BY <1>1, <2>1 DEF CallInv, LimitsTakeEffect, NoDeadBuckets, ConfigFor, buckets
  <2> QED BY <2>3, <2>4, <2>5 DEF LimitInv
<1>7. CASE UNCHANGED vars
  <2>1. now' \in Times /\ now' >= now /\ UNCHANGED buckets
    BY <1>2, <1>7 DEF vars
  <2>2. TypeOK'
    BY <1>1, <1>7 DEF vars, buckets, TypeOK
  <2>3. SoundInv'
    BY <1>1, <2>1, SoundKept
  <2>4. CallInv' /\ LimitsTakeEffect' /\ NoDeadBuckets'
    BY <1>1, <1>7 DEF vars, buckets, CallInv, LimitsTakeEffect, NoDeadBuckets, ConfigFor
  <2> QED BY <2>2, <2>3, <2>4 DEF LimitInv
<1>8. ASSUME NEW s \in Sessions, CheckSession(s) PROVE LimitInv'
  BY <1>8, SessionStep
<1>9. ASSUME NEW c \in Callers, CheckTenant(c) PROVE LimitInv'
  BY <1>9, TenantStep
<1>10. ASSUME NEW t \in Tenants, NEW cfg \in Configs, SetTenantLimits(t, cfg) PROVE LimitInv'
  BY <1>10, AdminStep
<1>11. ASSUME NEW t \in Tenants, ClearTenantLimits(t) \/ ResetTenant(t) PROVE LimitInv'
  BY <1>11, AdminStep
<1> QED BY <1>3, <1>4, <1>5, <1>6, <1>7, <1>8, <1>9, <1>10, <1>11 DEF Next

-----------------------------------------------------------------------------
(* Rates                                                                   *)

\* The frames that `count' holds are within what bucket b has given: since its last
\* refill it gave none; up to then it gave, in any window, no more than a burst and what
\* was refilled, and the tokens it still has are within that too.
Budget(count, b) ==
  /\ \A n \in Times : n >= b.last_refill => count[n] = count[b.last_refill]
  /\ \A i \in Times : i <= b.last_refill =>
       count[b.last_refill] + b.tokens <= Before(count, i) + b.capacity + (b.last_refill - i) * b.refill_per_sec
  /\ \A i, j \in Times : i <= j => count[j] <= Before(count, i) + b.capacity + (j - i) * b.refill_per_sec

\* A check of s has its session's token and not yet the tenant's.
Pending(s) == call[s].phase = "tenant" /\ call[s].session_ok

\* The frames of s that were let through, and the one that still may be.
Accounted(s) == IF Pending(s) THEN OneMore(admitted[s], call[s].at) ELSE admitted[s]

\* Nothing was let through.
Zero(count) == \A n \in Times : count[n] = 0

TenantRates ==
  \A t \in Tenants : IF per_tenant[t] = NoBucket THEN Zero(admitted[t]) ELSE Budget(admitted[t], per_tenant[t])

SessionRate(s) ==
  /\ per_session[s] # NoBucket => Budget(Accounted(s), per_session[s])
  /\ per_session[s] = NoBucket /\ s \notin closed => Zero(admitted[s])
  /\ Pending(s) => per_session[s] # NoBucket /\ call[s].at = per_session[s].last_refill

RateInv == TenantRates /\ \A s \in Sessions : SessionRate(s)

\* Products of numbers.
LEMMA Products ==
  ASSUME NEW a \in Nat, NEW b \in Nat, NEW r \in Nat
  PROVE  a * r \in Nat /\ (a + b) * r = a * r + b * r
OBVIOUS

\* What was let through before a time.
LEMMA BeforeIs ==
  ASSUME NEW f \in [Times -> Nat], NEW i \in Times
  PROVE  /\ Before(f, i) \in Nat /\ i \in Nat
         /\ i = 0 => Before(f, i) = 0
         /\ i # 0 => i - 1 \in Times /\ Before(f, i) = f[i - 1]
BY LimitAssumption DEF Before, Times

\* What a bucket has when it was just refilled.
LEMMA Refilled ==
  ASSUME now \in Times, NEW b \in Bucket, Sound(b)
  PROVE  LET a == TryConsume(b)
             got == (now - b.last_refill) * b.refill_per_sec IN
         /\ a \in Bucket /\ a.last_refill = now /\ a.capacity = b.capacity /\ a.refill_per_sec = b.refill_per_sec
         /\ got \in Nat
         /\ a.tokens + (IF Consumes(b) THEN 1 ELSE 0) <= b.tokens + got
         /\ a.tokens + (IF Consumes(b) THEN 1 ELSE 0) <= b.capacity
<1>1. /\ now \in Nat /\ b.capacity \in Nat /\ b.tokens \in Nat /\ b.refill_per_sec \in Nat
      /\ b.last_refill \in Nat /\ b.last_refill <= now
  BY LimitAssumption DEF Times, Bucket, Sound
<1>2. PICK d \in Nat : d = (now - b.last_refill) * b.refill_per_sec
  <2>1. now - b.last_refill \in Nat
    BY <1>1
  <2> QED BY <1>1, <2>1, Products
<1>3. PICK k \in Nat : k = Min({b.tokens + d, b.capacity}) /\ k <= b.capacity /\ k <= b.tokens + d
  <2>1. Min({b.tokens + d, b.capacity}) \in {b.tokens + d, b.capacity} /\ Min({b.tokens + d, b.capacity}) <= b.capacity
    BY <1>1, MinOfTwo
  <2>2. Min({b.capacity, b.tokens + d}) <= b.tokens + d
    BY <1>1, MinOfTwo
  <2>3. {b.capacity, b.tokens + d} = {b.tokens + d, b.capacity}
    OBVIOUS
  <2> QED BY <1>1, <2>1, <2>2, <2>3
<1>4. Refill(b) = [b EXCEPT !.tokens = k, !.last_refill = now]
  BY <1>2, <1>3 DEF Refill
<1>5. /\ Refill(b) \in Bucket /\ Refill(b).tokens = k /\ Refill(b).last_refill = now
      /\ Refill(b).capacity = b.capacity /\ Refill(b).refill_per_sec = b.refill_per_sec
  BY <1>4 DEF Bucket
<1>6. CASE Consumes(b)
  <2>1. TryConsume(b) = [Refill(b) EXCEPT !.tokens = k - 1] /\ k >= 1
    BY <1>5, <1>6 DEF TryConsume, Consumes
  <2>2. k - 1 \in Nat
    BY <1>3, <2>1
  <2>3. TryConsume(b) \in Bucket
    BY <1>5, <2>1, <2>2 DEF Bucket
  <2>4. /\ TryConsume(b).tokens = k - 1 /\ TryConsume(b).last_refill = now
        /\ TryConsume(b).capacity = b.capacity /\ TryConsume(b).refill_per_sec = b.refill_per_sec
    BY <1>5, <2>1 DEF Bucket
  <2> QED BY <1>2, <1>3, <1>6, <2>3, <2>4
<1>7. CASE ~Consumes(b)
  <2>1. TryConsume(b) = Refill(b)
    BY <1>7 DEF TryConsume
  <2> QED BY <1>2, <1>3, <1>5, <1>7, <2>1
<1> QED BY <1>6, <1>7

\* A bucket that is tried keeps to its budget: what it gives it had.
LEMMA TakeToken ==
  ASSUME now \in Times, NEW b \in Bucket, Sound(b), NEW f \in [Times -> Nat], Budget(f, b),
         NEW g \in [Times -> Nat], g = f \/ (Consumes(b) /\ g = OneMore(f, now))
  PROVE  Budget(g, TryConsume(b))
<1>1. PICK a : a = TryConsume(b)
  OBVIOUS
<1>2. PICK got \in Nat : got = (now - b.last_refill) * b.refill_per_sec
  BY Refilled
<1>3. PICK one \in {0, 1} : one = IF Consumes(b) THEN 1 ELSE 0
  OBVIOUS
<1>4. /\ a \in Bucket /\ a.last_refill = now /\ a.capacity = b.capacity /\ a.refill_per_sec = b.refill_per_sec
      /\ a.tokens + one <= b.tokens + got /\ a.tokens + one <= b.capacity
  BY <1>1, <1>2, <1>3, Refilled
<1>5. /\ now \in Nat /\ b.capacity \in Nat /\ b.tokens \in Nat /\ b.refill_per_sec \in Nat /\ a.tokens \in Nat
      /\ b.last_refill \in Nat /\ b.last_refill <= now /\ b.last_refill \in Times
  BY <1>4, LimitAssumption DEF Times, Bucket, Sound
<1>6. Times \subseteq Nat
  BY LimitAssumption DEF Times
<1>7. PICK last \in Times : last = b.last_refill
  BY <1>5
<1>8. PICK r \in Nat : r = b.refill_per_sec
  BY <1>5
<1>9. \A n \in Times : n >= last => f[n] = f[last]
  BY <1>7 DEF Budget
<1>10. \A n \in Times : g[n] <= f[n] + (IF n < now THEN 0 ELSE one)
  BY <1>3, <1>5, <1>6 DEF OneMore
<1>11. \A n \in Times : n < now => g[n] = f[n]
  BY <1>5, <1>6 DEF OneMore
<1>12. \A i \in Times : i <= now => Before(g, i) = Before(f, i)
  BY <1>5, <1>6, <1>11, BeforeIs DEF Before
<1>13. \A n \in Times : n >= now => g[n] = g[now]
  <2>1. \A n \in Times : n >= now => f[n] = f[now]
    BY <1>5, <1>6, <1>7, <1>9
  <2> QED BY <1>5, <1>6, <2>1 DEF OneMore
<1>14. ASSUME NEW i \in Times, i <= now
       PROVE  g[now] + a.tokens <= Before(f, i) + b.capacity + (now - i) * r
  <2>1. f[now] = f[last] /\ f[last] \in Nat /\ f[now] \in Nat /\ g[now] \in Nat /\ g[now] <= f[now] + one
    BY <1>5, <1>7, <1>9, <1>10
  <2>2. Before(f, i) \in Nat /\ i \in Nat
    BY BeforeIs
  <2>3. CASE i <= last
    <3>1. PICK x \in Nat : x = last - i
      BY <1>5, <1>7, <2>2, <2>3
    <3>2. PICK y \in Nat : y = now - last
      BY <1>5, <1>7
    <3>3. x * r \in Nat /\ y * r \in Nat /\ (x + y) * r = x * r + y * r
      BY <3>1, <3>2, Products
    <3>4. now - i = x + y
      BY <1>5, <1>7, <2>2, <3>1, <3>2
    <3>5. f[last] + b.tokens <= Before(f, i) + b.capacity + x * r
      BY <1>7, <1>8, <2>3, <3>1 DEF Budget
    <3>6. got = y * r
      BY <1>2, <1>7, <1>8, <3>2
    <3>7. PICK xr \in Nat : xr = x * r
      BY <3>3
    <3>8. (now - i) * r = xr + got
      BY <3>3, <3>4, <3>6, <3>7
    <3> QED BY <1>3, <1>4, <1>5, <2>1, <2>2, <3>5, <3>7, <3>8
  <2>4. CASE i > last
    <3>1. Before(f, i) = f[last]
      <4>1. i - 1 \in Times /\ Before(f, i) = f[i - 1] /\ i - 1 >= last
        BY <1>5, <1>7, <2>2, <2>4, BeforeIs
      <4> QED BY <1>9, <4>1
    <3>2. (now - i) * r \in Nat
      BY <1>5, <1>14, <2>2, Products
    <3>3. PICK z \in Nat : z = (now - i) * r
      BY <3>2
    <3>4. f[last] + one + a.tokens <= f[last] + b.capacity + z
      BY <1>3, <1>4, <1>5, <2>1, <3>3
    <3> QED BY <1>3, <1>5, <2>1, <3>1, <3>3, <3>4
  <2> QED BY <1>5, <1>7, <2>2, <2>3, <2>4
<1>15. ASSUME NEW i \in Times, NEW j \in Times, i <= j
       PROVE  g[j] <= Before(g, i) + b.capacity + (j - i) * r
  <2>1. Before(g, i) \in Nat /\ i \in Nat /\ j \in Nat /\ g[j] \in Nat /\ g[now] \in Nat
    BY <1>6, BeforeIs
  <2>2. PICK z \in Nat : z = (j - i) * r
    BY <1>15, <2>1, Products
  <2>3. CASE j < now
    BY <1>5, <1>8, <1>11, <1>12, <1>15, <2>1, <2>3 DEF Budget
  <2>4. CASE j >= now /\ i <= now
    <3>1. g[now] + a.tokens <= Before(g, i) + b.capacity + (now - i) * r
      BY <1>12, <1>14, <2>4
    <3>2. PICK x \in Nat : x = now - i
      BY <1>5, <2>1, <2>4
    <3>3. PICK y \in Nat : y = j - now
      BY <1>5, <2>1, <2>4
    <3>4. x * r \in Nat /\ y * r \in Nat /\ (x + y) * r = x * r + y * r /\ j - i = x + y
      BY <1>5, <2>1, <3>2, <3>3, Products
    <3>5. PICK xr \in Nat : xr = x * r
      BY <3>4
    <3>6. z >= xr
      BY <2>2, <3>4, <3>5
    <3>7. g[j] = g[now]
      BY <1>13, <2>4
    <3> QED BY <1>5, <2>1, <2>2, <3>1, <3>2, <3>5, <3>6, <3>7
  <2>5. CASE i > now
    <3>1. i - 1 \in Times /\ Before(g, i) = g[i - 1] /\ i - 1 >= now /\ j >= now
      BY <1>5, <1>15, <2>1, <2>5, BeforeIs
    <3>2. g[j] = g[now] /\ Before(g, i) = g[now]
      BY <1>13, <3>1
    <3> QED BY <1>5, <2>1, <2>2, <3>2
  <2> QED BY <1>5, <2>1, <2>3, <2>4, <2>5
<1>16. \A i \in Times : i <= now => g[now] + a.tokens <= Before(g, i) + b.capacity + (now - i) * r
  BY <1>12, <1>14
<1> QED BY <1>1, <1>4, <1>8, <1>13, <1>15, <1>16 DEF Budget

\* A new bucket has given nothing.
LEMMA NewBudget ==
  ASSUME now \in Times, NEW c \in Nat, NEW r \in Nat, NEW f \in [Times -> Nat], Zero(f)
  PROVE  Budget(f, New(c, r))
<1>1. Times \subseteq Nat
  BY LimitAssumption DEF Times
<1>2. \A i \in Times : Before(f, i) = 0
  BY BeforeIs DEF Zero
<1>3. \A i, j \in Times : i <= j => (j - i) * r \in Nat
  <2>1. \A i, j \in Times : i <= j => j - i \in Nat
    BY <1>1
  <2> QED BY <2>1, Products
<1> QED BY <1>1, <1>2, <1>3 DEF Budget, New, Zero

\* A frame that the other bucket refused need not be counted.
LEMMA Forget ==
  ASSUME NEW b \in Bucket, NEW f \in [Times -> Nat], Budget(OneMore(f, b.last_refill), b)
  PROVE  Budget(f, b)
<1>1. PICK g : g = OneMore(f, b.last_refill)
  OBVIOUS
<1>2. Times \subseteq Nat /\ b.last_refill \in Times
  BY LimitAssumption DEF Times, Bucket
<1>3. PICK last \in Times : last = b.last_refill
  BY <1>2
<1>4. g \in [Times -> Nat] /\ \A n \in Times : g[n] = IF n < last THEN f[n] ELSE f[n] + 1
  BY <1>1, <1>2, <1>3 DEF OneMore
<1>5. \A i \in Times : /\ Before(g, i) \in Nat /\ Before(f, i) \in Nat
                       /\ i <= last => Before(g, i) = Before(f, i)
                       /\ i > last => Before(g, i) = Before(f, i) + 1
  BY <1>2, <1>4, BeforeIs
<1>6. PICK r \in Nat, cap \in Nat, k \in Nat : r = b.refill_per_sec /\ cap = b.capacity /\ k = b.tokens
  BY DEF Bucket
<1>7. \A n \in Times : n >= last => f[n] = f[last]
  BY <1>1, <1>2, <1>3, <1>4 DEF Budget
<1>8. ASSUME NEW i \in Times, i <= last PROVE f[last] + k <= Before(f, i) + cap + (last - i) * r
  <2>1. g[last] + k <= Before(g, i) + cap + (last - i) * r
    BY <1>1, <1>3, <1>6, <1>8 DEF Budget
  <2>2. PICK z \in Nat : z = (last - i) * r
    BY <1>2, <1>8, Products
  <2>3. g[last] = f[last] + 1 /\ f[last] \in Nat
    BY <1>2, <1>4
  <2> QED BY <1>5, <1>6, <1>8, <2>1, <2>2, <2>3
<1>9. ASSUME NEW i \in Times, NEW j \in Times, i <= j PROVE f[j] <= Before(f, i) + cap + (j - i) * r
  <2>1. g[j] <= Before(g, i) + cap + (j - i) * r
    BY <1>1, <1>6, <1>9 DEF Budget
  <2>2. PICK z \in Nat : z = (j - i) * r
    BY <1>2, <1>9, Products
  <2>3. f[j] \in Nat /\ g[j] \in Nat /\ (g[j] = f[j] \/ g[j] = f[j] + 1) /\ (i > last => g[j] = f[j] + 1)
    BY <1>2, <1>4, <1>9
  <2> QED BY <1>2, <1>5, <1>6, <2>1, <2>2, <2>3
<1> QED BY <1>3, <1>6, <1>7, <1>8, <1>9 DEF Budget

\* A check on a bucket that may have to be made first.
LEMMA TryBudget ==
  ASSUME now \in Times, NEW c \in Nat, NEW r \in Nat, NEW b \in Bucket \cup {NoBucket}, b # NoBucket => Sound(b),
         NEW f \in [Times -> Nat], b = NoBucket => Zero(f), b # NoBucket => Budget(f, b),
         NEW g \in [Times -> Nat], g = f \/ (Consumes(OrNew(b, c, r)) /\ g = OneMore(f, now))
  PROVE  /\ TryConsume(OrNew(b, c, r)) \in Bucket /\ TryConsume(OrNew(b, c, r)).last_refill = now
         /\ Budget(g, TryConsume(OrNew(b, c, r)))
<1>1. PICK a : a = OrNew(b, c, r)
  OBVIOUS
<1>2. a \in Bucket /\ Sound(a) /\ Budget(f, a)
  <2>1. CASE b = NoBucket
    BY <1>1, <2>1, NewBucket, NewBudget DEF OrNew
  <2>2. CASE b # NoBucket
    BY <1>1, <2>2 DEF OrNew
  <2> QED BY <2>1, <2>2
<1> QED BY <1>1, <1>2, Refilled, TakeToken

\* What the next state's budgets mean.
LEMMA NextBudget ==
  ASSUME NEW s, NEW t
  PROVE  /\ Budget(admitted[t], per_tenant[t])' <=> Budget(admitted'[t], per_tenant'[t])
         /\ Zero(admitted[t])' <=> Zero(admitted'[t])
         /\ Budget(Accounted(s), per_session[s])' <=> Budget(Accounted(s)', per_session'[s])
BY DEF Budget, Zero, Before

\* A session whose bucket, call and frames stay.
LEMMA SameSession ==
  ASSUME NEW s \in Sessions, SessionRate(s), s \in closed => s \in closed',
         per_session'[s] = per_session[s], call'[s] = call[s], admitted'[s] = admitted[s]
  PROVE  SessionRate(s)'
<1>1. Pending(s)' <=> Pending(s)
  BY DEF Pending
<1>2. Accounted(s)' = Accounted(s)
  BY <1>1 DEF Accounted, OneMore
<1>3. Budget(Accounted(s), per_session[s])' <=> Budget(Accounted(s), per_session[s])
  BY <1>2, NextBudget
<1>4. Zero(admitted[s])' <=> Zero(admitted[s])
  BY NextBudget
<1> QED BY <1>1, <1>3, <1>4 DEF SessionRate

\* A token of a session's bucket.
LEMMA SessionRates ==
  ASSUME LimitInv, RateInv, NEW s \in Sessions, CheckSession(s)
  PROVE  RateInv'
<1>1. TypeOK /\ SoundInv /\ CallInv /\ TenantRates /\ SessionRate(s)
  BY DEF LimitInv, RateInv
<1>2. /\ call[s].phase = "session" /\ s \in Callers
      /\ UNCHANGED <<now, per_tenant, closed, admitted>>
  BY DEF CheckSession, Callers
<1>3. /\ call[s] # Idle /\ call[s] \in Call
      /\ call[s].cfg.session_capacity \in Nat /\ call[s].cfg.session_refill_per_sec \in Nat
  BY <1>1, <1>2, Running
<1>4. PICK b : b = OrNew(per_session[s], call[s].cfg.session_capacity, call[s].cfg.session_refill_per_sec)
  OBVIOUS
<1>5. per_session' = [per_session EXCEPT ![s] = TryConsume(b)]
  BY <1>4 DEF CheckSession
<1>6. call' = [call EXCEPT ![s].phase = "tenant", ![s].session_ok = Consumes(b), ![s].at = now]
  BY <1>4 DEF CheckSession
<1>7. call'[s].phase = "tenant" /\ (call'[s].session_ok <=> Consumes(b)) /\ call'[s].at = now
  <2>1. call \in [Callers -> Call \cup {Idle}]
    BY <1>1 DEF TypeOK
  <2>2. PICK ok \in BOOLEAN : ok = Consumes(b)
    <3>1. Consumes(b) \in BOOLEAN
      BY DEF Consumes
    <3> QED BY <3>1
  <2>3. PICK c : c = [call[s] EXCEPT !.phase = "tenant", !.session_ok = ok, !.at = now]
    OBVIOUS
  <2>4. c.phase = "tenant" /\ c.session_ok = ok /\ c.at = now
    BY <1>3, <2>3 DEF Call
  <2>5. call'[s] = c
    BY <1>2, <1>6, <2>1, <2>2, <2>3
  <2> QED BY <2>2, <2>4, <2>5
<1>8. \A x \in Sessions : x # s => call'[x] = call[x] /\ per_session'[x] = per_session[x]
  BY <1>1, <1>5, <1>6 DEF TypeOK, Callers
<1>9. per_session'[s] = TryConsume(b)
  BY <1>1, <1>5 DEF TypeOK
<1>10. s \notin closed /\ ~Pending(s) /\ Accounted(s) = admitted[s]
  BY <1>1, <1>2, <1>3 DEF CallInv, Pending, Accounted
<1>11. PICK f \in [Times -> Nat] : f = admitted[s]
  BY <1>1 DEF TypeOK
<1>12. PICK g \in [Times -> Nat] : g = IF Consumes(b) THEN OneMore(f, now) ELSE f
  <2>1. OneMore(f, now) \in [Times -> Nat]
    BY <1>11 DEF OneMore
  <2> QED BY <1>11, <2>1
<1>13. Accounted(s)' = g
  BY <1>2, <1>7, <1>11, <1>12 DEF Accounted, Pending, OneMore
<1>14. per_session'[s] \in Bucket /\ per_session'[s].last_refill = now /\ Budget(g, per_session'[s])
  <2>1. now \in Times /\ per_session[s] \in Bucket \cup {NoBucket}
    BY <1>1 DEF TypeOK
  <2>2. per_session[s] # NoBucket => Sound(per_session[s]) /\ Budget(f, per_session[s])
    BY <1>1, <1>10, <1>11 DEF SoundInv, SessionRate
  <2>3. per_session[s] = NoBucket => Zero(f)
    BY <1>1, <1>10, <1>11 DEF SessionRate
  <2>4. PICK o \in Bucket \cup {NoBucket}, c \in Nat, r \in Nat :
          o = per_session[s] /\ c = call[s].cfg.session_capacity /\ r = call[s].cfg.session_refill_per_sec
    BY <1>3, <2>1
  <2>5. /\ o # NoBucket => Sound(o)
        /\ o = NoBucket => Zero(f)
        /\ o # NoBucket => Budget(f, o)
        /\ b = OrNew(o, c, r)
        /\ g = f \/ (Consumes(b) /\ g = OneMore(f, now))
    BY <1>4, <1>12, <2>2, <2>3, <2>4
  <2>6. TryConsume(b) \in Bucket /\ TryConsume(b).last_refill = now /\ Budget(g, TryConsume(b))
    BY <2>1, <2>5, TryBudget
  <2> QED BY <1>9, <2>6
<1>15. per_session'[s] # NoBucket
  <2>1. per_session'[s].capacity \in Nat
    BY <1>14 DEF Bucket
  <2>2. NoBucket \notin Bucket
    BY DEF NoBucket, Bucket
  <2> QED BY <1>14, <2>2
<1>16. SessionRate(s)'
  <2>1. Budget(Accounted(s), per_session[s])'
    BY <1>13, <1>14, NextBudget
  <2>2. call'[s].at = per_session'[s].last_refill
    BY <1>7, <1>14
  <2> QED BY <1>15, <2>1, <2>2 DEF SessionRate
<1>17. \A x \in Sessions : x # s => SessionRate(x)'
  BY <1>2, <1>8, SameSession DEF RateInv
<1>18. TenantRates'
  BY <1>1, <1>2, NextBudget DEF TenantRates
<1> QED BY <1>16, <1>17, <1>18 DEF RateInv

\* A token of a tenant's bucket: a frame is let through, or refused.
LEMMA TenantRatesStep ==
  ASSUME LimitInv, RateInv, NEW c \in Callers, CheckTenant(c)
  PROVE  RateInv'
<1>1. TypeOK /\ SoundInv /\ CallInv /\ TenantRates
  BY DEF LimitInv, RateInv
<1>2. /\ call[c].phase = "tenant" /\ call' = [call EXCEPT ![c] = Idle]
      /\ UNCHANGED <<now, per_session, closed>>
  BY DEF CheckTenant
<1>3. /\ call[c] # Idle /\ call[c].tenant \in Tenants /\ call[c].at \in Times
      /\ call[c].cfg.tenant_capacity \in Nat /\ call[c].cfg.tenant_refill_per_sec \in Nat
  BY <1>1, <1>2, Running
<1>4. PICK t \in Tenants : t = call[c].tenant
  BY <1>3
<1>5. PICK b : b = OrNew(per_tenant[t], call[c].cfg.tenant_capacity, call[c].cfg.tenant_refill_per_sec)
  OBVIOUS
<1>6. per_tenant' = [per_tenant EXCEPT ![t] = TryConsume(b)]
  BY <1>4, <1>5 DEF CheckTenant
<1>7. \/ call[c].session_ok /\ Consumes(b) /\ Admit(c, t)
      \/ admitted' = admitted
  BY <1>4, <1>5 DEF CheckTenant
<1>8. per_tenant'[t] = TryConsume(b) /\ \A u \in Tenants : u # t => per_tenant'[u] = per_tenant[u]
  BY <1>1, <1>6 DEF TypeOK
<1>9. call'[c] = Idle /\ \A d \in Callers : d # c => call'[d] = call[d]
  BY <1>1, <1>2 DEF TypeOK
<1>10. \A x \in Callers : x \notin Tenants
  BY LimitAssumption DEF Callers
<1>11. \A x \in Sessions \cup Tenants : x # t /\ x # c => admitted'[x] = admitted[x]
  BY <1>7 DEF Admit
<1>12. admitted'[t] = admitted[t] \/ (Consumes(b) /\ admitted'[t] = OneMore(admitted[t], now))
  <2>1. ASSUME Admit(c, t) PROVE admitted'[t] = OneMore(admitted[t], now)
    BY <1>10, <2>1 DEF Admit
  <2> QED BY <1>7, <2>1
<1>13. c \in Sessions => admitted'[c] = admitted[c] \/ (Pending(c) /\ admitted'[c] = OneMore(admitted[c], call[c].at))
  BY <1>2, <1>4, <1>7, <1>10 DEF Admit, Pending
<1>14. TenantRates'
  <2>1. ASSUME NEW u \in Tenants, u # t
        PROVE  IF per_tenant'[u] = NoBucket THEN Zero(admitted'[u]) ELSE Budget(admitted'[u], per_tenant'[u])
    BY <1>1, <1>8, <1>10, <1>11, <2>1 DEF TenantRates
  <2>2. Budget(admitted'[t], per_tenant'[t]) /\ per_tenant'[t] \in Bucket
    <3>1. now \in Times /\ per_tenant[t] \in Bucket \cup {NoBucket} /\ admitted[t] \in [Times -> Nat]
      BY <1>1 DEF TypeOK
    <3>2. admitted'[t] \in [Times -> Nat]
      BY <1>12, <3>1 DEF OneMore
    <3>3. per_tenant[t] # NoBucket => Sound(per_tenant[t])
      BY <1>1 DEF SoundInv
    <3>4. IF per_tenant[t] = NoBucket THEN Zero(admitted[t]) ELSE Budget(admitted[t], per_tenant[t])
      BY <1>1 DEF TenantRates
    <3> QED BY <1>3, <1>5, <1>8, <1>12, <3>1, <3>2, <3>3, <3>4, TryBudget
  <2>3. NoBucket \notin Bucket
    BY DEF NoBucket, Bucket
  <2> QED BY <2>1, <2>2, <2>3, NextBudget DEF TenantRates
<1>15. ASSUME NEW s \in Sessions, s # c PROVE SessionRate(s)'
  <2>1. s \in Callers /\ s # t
    BY <1>10 DEF Callers
  <2>2. admitted'[s] = admitted[s] /\ call'[s] = call[s]
    BY <1>9, <1>11, <1>15, <2>1
  <2> QED BY <1>2, <2>2, SameSession DEF RateInv
<1>16. ASSUME c \in Sessions PROVE SessionRate(c)'
  <2>1. SessionRate(c)
    BY <1>16 DEF RateInv
  <2>2. ~Pending(c)' /\ Accounted(c)' = admitted'[c]
    BY <1>9 DEF Pending, Accounted, Idle
  <2>3. admitted[c] \in [Times -> Nat] /\ per_session[c] \in Bucket \cup {NoBucket}
    BY <1>1, <1>16 DEF TypeOK
  <2>4. per_session[c] # NoBucket => Budget(admitted'[c], per_session[c])
    <3>1. CASE Pending(c) /\ admitted'[c] = admitted[c]
      BY <2>1, <2>3, <3>1, Forget DEF SessionRate, Accounted
    <3>2. CASE ~(Pending(c) /\ admitted'[c] = admitted[c])
      BY <1>13, <1>16, <2>1, <3>2 DEF SessionRate, Accounted
    <3> QED BY <3>1, <3>2
  <2>5. per_session[c] = NoBucket => admitted'[c] = admitted[c]
    BY <1>13, <1>16, <2>1 DEF SessionRate
  <2>6. Budget(Accounted(c), per_session[c])' <=> Budget(admitted'[c], per_session[c])
    BY <1>2, <2>2, NextBudget
  <2>7. Zero(admitted[c])' <=> Zero(admitted'[c])
    BY NextBudget
  <2> QED BY <1>2, <2>1, <2>2, <2>4, <2>5, <2>6, <2>7 DEF SessionRate
<1> QED BY <1>14, <1>15, <1>16 DEF RateInv

\* Every step keeps the budgets.
LEMMA RateStep == LimitInv /\ RateInv /\ [Next]_vars => RateInv'
<1> SUFFICES ASSUME LimitInv, RateInv, [Next]_vars PROVE RateInv'
  OBVIOUS
<1>1. TypeOK /\ SoundInv /\ CallInv /\ NoDeadBuckets /\ TenantRates /\ \A s \in Sessions : SessionRate(s)
  BY DEF LimitInv, RateInv
<1>2. ASSUME UNCHANGED <<per_tenant, admitted>> PROVE TenantRates'
  BY <1>1, <1>2, NextBudget DEF TenantRates
<1>3. ASSUME NEW c \in Callers, NEW r, r.phase # "tenant" \/ c \notin Sessions, call[c] = Idle, call' = [call EXCEPT ![c] = r],
             UNCHANGED <<buckets, closed, admitted>>
      PROVE  RateInv'
  <2>1. call'[c] = r /\ \A d \in Callers : d # c => call'[d] = call[d]
    BY <1>1, <1>3 DEF TypeOK
  <2>2. ASSUME NEW s \in Sessions, s # c PROVE SessionRate(s)'
    BY <1>1, <1>3, <2>1, <2>2, SameSession DEF Callers, buckets
  <2>3. ASSUME c \in Sessions PROVE SessionRate(c)'
    <3>1. ~Pending(c) /\ ~Pending(c)'
      BY <1>3, <2>1, <2>3 DEF Pending, Idle
    <3>2. Accounted(c)' = Accounted(c) /\ per_session' = per_session
      BY <1>3, <3>1 DEF Accounted, buckets
    <3>3. Budget(Accounted(c), per_session[c])' <=> Budget(Accounted(c), per_session[c])
      BY <3>2, NextBudget
    <3>4. Zero(admitted[c])' <=> Zero(admitted[c])
      BY <1>3, NextBudget
    <3> QED BY <1>1, <1>3, <2>3, <3>1, <3>2, <3>3, <3>4 DEF SessionRate
  <2> QED BY <1>2, <1>3, <2>2, <2>3 DEF RateInv, buckets
<1>4. ASSUME NEW s \in Sessions, NEW t \in Tenants, CheckBegin(s, t) PROVE RateInv'
  <2>1. PICK r : r = [phase |-> "session", tenant |-> t, cfg |-> ConfigFor(t), session_ok |-> FALSE, at |-> now]
    OBVIOUS
  <2>2. r.phase # "tenant" /\ s \in Callers
    BY <2>1 DEF Callers
  <2> QED BY <1>3, <1>4, <2>1, <2>2 DEF CheckBegin
<1>5. ASSUME NEW h \in HttpCalls, NEW t \in Tenants, CheckTenantBegin(h, t) PROVE RateInv'
  <2>1. h \in Callers /\ h \notin Sessions
    BY LimitAssumption DEF Callers
  <2> QED BY <1>3, <1>5, <2>1 DEF CheckTenantBegin
<1>6. ASSUME NEW s \in Sessions, DropSession(s) PROVE RateInv'
  <2>1. /\ call[s] = Idle /\ closed' = closed \cup {s} /\ per_session' = [per_session EXCEPT ![s] = NoBucket]
        /\ UNCHANGED <<now, per_tenant, call, admitted>>
    BY <1>6 DEF DropSession
  <2>2. per_session'[s] = NoBucket /\ \A x \in Sessions : x # s => per_session'[x] = per_session[x]
    BY <1>1, <2>1 DEF TypeOK
  <2>3. ~Pending(s)'
    BY <2>1 DEF Pending, Idle
  <2>4. SessionRate(s)'
    BY <2>1, <2>2, <2>3 DEF SessionRate
  <2>5. \A x \in Sessions : x # s => SessionRate(x)'
    BY <1>1, <2>1, <2>2, SameSession
  <2> QED BY <1>2, <2>1, <2>4, <2>5 DEF RateInv
<1>7. ASSUME UNCHANGED <<buckets, call, closed, admitted>> PROVE RateInv'
  <2>1. \A s \in Sessions : SessionRate(s)'
    BY <1>1, <1>7, SameSession DEF buckets
  <2> QED BY <1>2, <1>7, <2>1 DEF RateInv, buckets
<1>8. ASSUME NEW t \in Tenants, ResetTenant(t) PROVE RateInv'
  <2>1. /\ per_tenant' = [per_tenant EXCEPT ![t] = NoBucket] /\ admitted' = [admitted EXCEPT ![t] = [n \in Times |-> 0]]
        /\ UNCHANGED <<per_session, call, closed>>
    BY <1>8 DEF ResetTenant
  <2>2. per_tenant'[t] = NoBucket /\ \A u \in Tenants : u # t => per_tenant'[u] = per_tenant[u]
    BY <1>1, <2>1 DEF TypeOK
  <2>3. Zero(admitted'[t]) /\ \A x \in Sessions \cup Tenants : x # t => admitted'[x] = admitted[x]
    BY <1>1, <2>1 DEF TypeOK, Zero
  <2>4. \A s \in Sessions : s # t
    BY LimitAssumption
  <2>5. \A s \in Sessions : SessionRate(s)'
    BY <1>1, <2>1, <2>3, <2>4, SameSession
  <2>6. TenantRates'
    BY <1>1, <2>2, <2>3, NextBudget DEF TenantRates
  <2> QED BY <2>5, <2>6 DEF RateInv
<1>9. ASSUME NEW s \in Sessions, CheckSession(s) PROVE RateInv'
  BY <1>9, SessionRates
<1>10. ASSUME NEW c \in Callers, CheckTenant(c) PROVE RateInv'
  BY <1>10, TenantRatesStep
<1>11. ASSUME NEW t \in Tenants, (\E cfg \in Configs : SetTenantLimits(t, cfg)) \/ ClearTenantLimits(t) PROVE RateInv'
  BY <1>7, <1>11 DEF SetTenantLimits, ClearTenantLimits
<1>12. CASE Tick \/ UNCHANGED vars
  BY <1>7, <1>12 DEF Tick, vars
<1> QED BY <1>4, <1>5, <1>6, <1>8, <1>9, <1>10, <1>11, <1>12 DEF Next

\* What the budgets say of any window of time.
LEMMA BudgetsBound == TypeOK /\ RateInv => RatesBounded
<1> SUFFICES ASSUME TypeOK, RateInv PROVE RatesBounded
  OBVIOUS
<1>1. ASSUME NEW x \in Sessions \cup Tenants, NEW b \in Bucket, Budget(admitted[x], b) PROVE Within(x, b)
  <2> SUFFICES ASSUME NEW i \in 0..now, NEW j \in 0..now, i <= j
               PROVE  Through(x, i, j) <= b.capacity + (j - i) * b.refill_per_sec
    BY DEF Within
  <2>1. i \in Times /\ j \in Times /\ i \in Nat /\ j \in Nat
    BY LimitAssumption DEF TypeOK, Times
  <2>2. PICK f \in [Times -> Nat] : f = admitted[x]
    BY DEF TypeOK
  <2>3. PICK z \in Nat : z = (j - i) * b.refill_per_sec
    BY <2>1, Products DEF Bucket
  <2>4. Before(f, i) \in Nat /\ f[j] \in Nat /\ b.capacity \in Nat
    BY <2>1, <2>2, BeforeIs DEF Bucket
  <2>5. f[j] <= Before(f, i) + b.capacity + z
    BY <1>1, <2>1, <2>2, <2>3 DEF Budget
  <2>6. Through(x, i, j) = f[j] - Before(f, i)
    BY <2>2 DEF Through
  <2> QED BY <2>3, <2>4, <2>5, <2>6
<1>2. TenantRateBounded
  BY <1>1 DEF TenantRateBounded, RateInv, TenantRates, TypeOK
<1>3. SessionRateBounded
  <2> SUFFICES ASSUME NEW s \in Sessions, per_session[s] # NoBucket PROVE Within(s, per_session[s])
    BY DEF SessionRateBounded
  <2>1. per_session[s] \in Bucket /\ admitted[s] \in [Times -> Nat]
    BY DEF TypeOK
  <2>2. Budget(admitted[s], per_session[s])
    BY <2>1, Forget DEF RateInv, SessionRate, Accounted
  <2> QED BY <1>1, <2>1, <2>2
<1> QED BY <1>2, <1>3 DEF RatesBounded

-----------------------------------------------------------------------------
(* Theorems                                                                *)

\* Types, sound buckets, quotas of the running checks and of the buckets, through any
\* interleaving of checks, changes of quotas, closing sessions and time.
THEOREM LimitInvariant == Spec => []LimitInv
BY LimitStart, LimitStep, PTL DEF Spec

\* Once set_tenant_limits or clear_tenant_limits has returned the tenant's bucket has
\* the quotas in force, but for a check that raced with it, and drop_session leaves no
\* bucket behind.
THEOREM BucketsFollowTheirOwners == Spec => []BucketsFollow
<1>1. LimitInv => BucketsFollow
  BY DEF LimitInv, BucketsFollow
<1> QED BY <1>1, LimitInvariant, PTL

\* In no window of time does a socket get more frames through than its own bucket allows,
\* or all sockets and HTTP requests of a tenant together more than the tenant's, whatever
\* the quotas, however checks interleave and whoever changes the quotas meanwhile
\* (check, check_tenant and try_consume).
THEOREM RatesStayBounded == Spec => []RatesBounded
<1>1. Init => RateInv
  <2> SUFFICES ASSUME Init PROVE RateInv
    OBVIOUS
  <2>1. \A x \in Sessions \cup Tenants : Zero(admitted[x])
    BY DEF Init, Zero
  <2>2. \A s \in Sessions : ~Pending(s)
    BY DEF Init, Pending, Idle, Callers
  <2> QED BY <2>1, <2>2 DEF Init, RateInv, TenantRates, SessionRate
<1>2. LimitInv /\ RateInv => RatesBounded
  BY BudgetsBound DEF LimitInv
<1> QED BY <1>1, <1>2, LimitStart, LimitStep, RateStep, PTL DEF Spec
=============================================================================
