------------------------- MODULE RateLimits_proofs -------------------------
(***************************************************************************)
(* What the three limiters guarantee for any number of threads, tenants    *)
(* and protocols, any rate, burst and window.                              *)
(***************************************************************************)
EXTENDS RateLimits, FiniteSetTheorems, TLAPS

\* The clock the limiters share, and the readings taken of it.
ClockOK == now \in Nat /\ reading \in [Threads -> Nat \cup {-1}]
           /\ \A th \in Threads : reading[th] <= now

(***************************************************************************)
(* The invariants.                                                         *)
(***************************************************************************)

\* The ticks a bucket whose last taker was h, at time T, may have refilled,
\* each charged to a thread: those up to its own reading to h, and to every
\* other thread those up to the reading it still holds.
Granted(h, T) ==
    {p \in Threads \X (1 .. T) :
        IF p[1] = h THEN p[2] <= last_refill
        ELSE reading[p[1]] = -1 \/ p[2] <= reading[p[1]]}

\* What was admitted and what is left was there at the start or is granted.
AdapterInv ==
    /\ tokens \in 0 .. Burst /\ last_refill \in 0 .. now /\ taken \in Nat
    /\ limiter # "adapter" \/ Threads = {} => taken = 0
    /\ limiter = "adapter" /\ Threads # {} =>
          \E h \in Threads, T \in last_refill .. now :
              /\ reading[h] = -1 \/ reading[h] >= T
              /\ taken * Cost + tokens <= Burst + Rate * Cardinality(Granted(h, T))

\* A tracked tenant had its burst and what its bucket refilled; one that is
\* not tracked could have been refilled entirely.
TenantInv ==
    /\ tracked \in SUBSET Tenants
    /\ bucket \in [Tenants -> [tokens : 0 .. Burst, last : Nat]]
    /\ admitted \in [Tenants -> Nat]
    /\ \A t \in Tenants : bucket[t].last <= now
    /\ \A t \in tracked : admitted[t] * Cost + bucket[t].tokens <= Burst + Rate * bucket[t].last
    /\ \A t \in Tenants \ tracked : admitted[t] * Cost <= Rate * now

\* Two lines are a window apart, so the last of n lines came n - 1 windows
\* after the clock started.
WindowInv ==
    /\ opened \in [Keys -> Nat \cup {-1}]
    /\ suppressed \in [Keys -> Nat] /\ seen \in [Keys -> Nat]
    /\ emitted \in [Keys -> Nat] /\ reported \in [Keys -> Nat]
    /\ \A k \in Keys : opened[k] <= now
    /\ Window > 0 => \A k \in Keys :
          IF opened[k] = -1 THEN emitted[k] = 0
          ELSE (emitted[k] - 1) * Window <= opened[k]
    /\ Coalesce!Honest

(***************************************************************************)
(* Arithmetic.                                                             *)
(***************************************************************************)

\* Lemma: multiplication by a natural keeps the order.
LEMMA TimesMonotone ==
    ASSUME NEW a \in Nat, NEW b \in Int, NEW c \in Int, b <= c
    PROVE  a * b \in Int /\ a * c \in Int /\ a * b <= a * c
  OBVIOUS

\* Lemma: what is refilled in two spans is what is refilled in their sum.
LEMMA TimesSum ==
    ASSUME NEW a \in Int, NEW b \in Int, NEW c \in Int
    PROVE  a * b \in Int /\ a * c \in Int /\ a * (b + c) = a * b + a * c
  OBVIOUS

\* Lemma: one more request costs Cost more.
LEMMA OneMore ==
    ASSUME NEW a \in Int, NEW b \in Int
    PROVE  a * b \in Int /\ (a + 1) * b = a * b + b
  OBVIOUS

\* Lemma: the clock of the limiters goes on, and a thread reads it or lets go
\* of its reading.
LEMMA ClockStep == ClockOK /\ [Next]_vars => ClockOK' /\ now' \in {now, now + 1}
<1> SUFFICES ASSUME ClockOK, [Next]_vars PROVE ClockOK' /\ now' \in {now, now + 1}
  OBVIOUS
<1>1. \/ now' = now /\ \E th \in Threads : reading' = [reading EXCEPT ![th] = now]
      \/ now' = now /\ \E th \in Threads : reading' = [reading EXCEPT ![th] = -1]
      \/ now' = now + 1 /\ reading' = reading
      \/ now' = now /\ reading' = reading
  <2>1. CASE Adapter!Next
    BY <2>1 DEF Adapter!Next, Adapter!ReadClock, Adapter!Take, Adapter!Tick
  <2>2. CASE Tenant!Next
    BY <2>2 DEF Tenant!Next, Tenant!ReadClock, Tenant!Take, Tenant!TakeEvicting,
                Tenant!RefuseFull, Tenant!Charge, Tenant!Tick
  <2>3. CASE Coalesce!Next
    BY <2>3 DEF Coalesce!Next, Coalesce!ReadClock, Coalesce!Swallow, Coalesce!Emit, Coalesce!Tick
  <2> QED BY <2>1, <2>2, <2>3 DEF Next, vars
<1> QED BY <1>1 DEF ClockOK

(***************************************************************************)
(* RejectionWindow.                                                        *)
(***************************************************************************)

\* Lemma: a rejection is counted by the window's step that decides it, and a
\* line is a window after the one before.
LEMMA WindowStep == ClockOK /\ WindowInv /\ [Next]_vars => WindowInv'
<1> SUFFICES ASSUME ClockOK, WindowInv, [Next]_vars PROVE WindowInv'
  OBVIOUS
<1>0. now' \in Nat /\ now <= now'
  BY ClockStep DEF ClockOK
<1>1. ASSUME UNCHANGED ofWindow PROVE WindowInv'
  <2>1. \A k \in Keys : opened[k] <= now'
    BY <1>0 DEF WindowInv, ClockOK
  <2> QED BY <1>1, <2>1 DEF ofWindow, WindowInv, Coalesce!Honest
<1>2. ASSUME NEW th \in Threads, NEW k \in Keys, Coalesce!Swallow(th, k) PROVE WindowInv'
  <2>1. Coalesce!Honest'
    BY <1>2 DEF Coalesce!Swallow, WindowInv, Coalesce!Honest
  <2> QED BY <1>2, <2>1 DEF Coalesce!Swallow, WindowInv
<1>3. ASSUME NEW th \in Threads, NEW k \in Keys, Coalesce!Emit(th, k) PROVE WindowInv'
  <2>1. Window \in Nat
    BY LimitConstants DEF Coalesce!WindowConstants
  <2>2. reading[th] \in Nat /\ reading[th] <= now
    BY <1>3 DEF ClockOK, Coalesce!Emit
  <2>3. Coalesce!Honest'
    BY <1>3 DEF Coalesce!Emit, WindowInv, Coalesce!Honest
  <2>4. /\ opened' \in [Keys -> Nat \cup {-1}]
        /\ suppressed' \in [Keys -> Nat] /\ seen' \in [Keys -> Nat]
        /\ emitted' \in [Keys -> Nat] /\ reported' \in [Keys -> Nat]
        /\ \A j \in Keys : opened'[j] <= now'
    BY <1>3, <2>2 DEF Coalesce!Emit, WindowInv
  <2>5. ASSUME Window > 0
        PROVE  \A j \in Keys : IF opened'[j] = -1 THEN emitted'[j] = 0
                               ELSE (emitted'[j] - 1) * Window <= opened'[j]
    <3>1. /\ opened'[k] = reading[th] /\ emitted'[k] = emitted[k] + 1
          /\ emitted[k] \in Nat
          /\ \A j \in Keys \ {k} : opened'[j] = opened[j] /\ emitted'[j] = emitted[j]
      BY <1>3, <2>5 DEF Coalesce!Emit, WindowInv
    <3>2. emitted[k] * Window <= reading[th]
      <4>1. CASE opened[k] = -1
        BY <2>1, <2>2, <2>5, <4>1 DEF WindowInv
      <4>2. CASE opened[k] # -1
        <5>1. reading[th] - opened[k] >= Window /\ opened[k] \in Nat
          BY <1>3, <2>1, <2>2, <2>5, <4>2 DEF Coalesce!Emit, Coalesce!InForce, WindowInv
        <5>2. (emitted[k] - 1) * Window <= opened[k]
          BY <2>5, <4>2 DEF WindowInv
        <5>3. emitted[k] * Window = (emitted[k] - 1) * Window + Window
          BY <2>1, <3>1
        <5>4. (emitted[k] - 1) * Window \in Int
          BY <2>1, <3>1
        <5> QED BY <2>1, <2>2, <5>1, <5>2, <5>3, <5>4
      <4> QED BY <4>1, <4>2
    <3>3. opened'[k] # -1 /\ (emitted'[k] - 1) * Window <= opened'[k]
      BY <2>2, <3>1, <3>2
    <3> QED BY <2>5, <3>1, <3>3 DEF WindowInv
  <2> QED BY <2>3, <2>4, <2>5 DEF WindowInv
<1>4. Coalesce!Next => \/ \E th \in Threads, k \in Keys : Coalesce!Swallow(th, k) \/ Coalesce!Emit(th, k)
                       \/ UNCHANGED ofWindow
  BY DEF Coalesce!Next, Coalesce!ReadClock, Coalesce!Tick, ofWindow
<1> QED BY <1>1, <1>2, <1>3, <1>4 DEF Next, vars

\* The anonymous rejections that RejectionWindow swallows are all counted, once
\* each, and it writes at most one line per window and protocol, however late
\* the threads come with the clock readings they took before the lock.
THEOREM RejectionsCounted == Spec => []Honest
<1>1. Init => ClockOK
  BY DEF Init, ClockOK, Adapter!Init
<1>2. Init => WindowInv
  BY DEF Init, WindowInv, Coalesce!Init, Coalesce!Honest
<1>3. ClockOK /\ [Next]_vars => ClockOK'
  BY ClockStep
<1>4. ClockOK /\ WindowInv => Honest
  <2> SUFFICES ASSUME ClockOK, WindowInv, Window > 0, NEW k \in Keys
               PROVE  (emitted[k] - 1) * Window <= now
    BY DEF Honest, WindowInv, Coalesce!Coalesced
  <2>1. Window \in Nat
    BY LimitConstants DEF Coalesce!WindowConstants
  <2>2. CASE opened[k] = -1
    BY <2>1, <2>2 DEF WindowInv, ClockOK
  <2>3. CASE opened[k] # -1
    <3>1. (emitted[k] - 1) * Window <= opened[k] /\ opened[k] <= now /\ opened[k] \in Nat
      BY <2>3 DEF WindowInv
    <3>2. (emitted[k] - 1) * Window \in Int
      BY <2>1 DEF WindowInv
    <3> QED BY <3>1, <3>2 DEF ClockOK
  <2> QED BY <2>2, <2>3
<1> QED BY <1>1, <1>2, <1>3, <1>4, WindowStep, PTL DEF Spec

(***************************************************************************)
(* TenantBuckets.                                                          *)
(***************************************************************************)

\* A tenant's bucket.
Bucket == [tokens : 0 .. Burst, last : Nat]

\* Lemma: bringing a bucket up to date refills it by no more than the time
\* that passed.
LEMMA RefilledShare ==
    ASSUME ClockOK, NEW b \in Bucket, b.last <= now, NEW spent \in Int,
           spent + b.tokens <= Burst + Rate * b.last
    PROVE  LET r == Tenant!Refilled(b) IN
           r \in Bucket /\ r.last = now /\ spent + r.tokens <= Burst + Rate * now
<1> DEFINE more == (now - b.last) * Rate
           r == Tenant!Refilled(b)
<1>1. Rate \in Nat /\ Burst \in Nat
  BY LimitConstants DEF Adapter!BucketConstants
<1>2. b.tokens \in Nat /\ b.tokens <= Burst /\ b.last \in Nat /\ now \in Nat
  BY <1>1 DEF Bucket, ClockOK
<1>3. more \in Nat /\ Rate * b.last \in Int /\ Rate * now = Rate * b.last + more
  <2>1. Rate * (b.last + (now - b.last)) = Rate * b.last + Rate * (now - b.last)
    BY <1>1, <1>2, TimesSum
  <2>2. b.last + (now - b.last) = now /\ Rate * (now - b.last) = more
    BY <1>1, <1>2
  <2>3. Rate * b.last \in Int /\ Rate * 0 <= Rate * (now - b.last) /\ Rate * (now - b.last) \in Int
    BY <1>1, <1>2, TimesMonotone
  <2> QED BY <2>1, <2>2, <2>3, <1>1
<1>4. r = [tokens |-> IF b.tokens + more < Burst THEN b.tokens + more ELSE Burst, last |-> now]
  BY DEF Tenant!Refilled
<1> HIDE DEF more, r
<1>5. r.tokens \in 0 .. Burst /\ r.last = now /\ r.tokens <= b.tokens + more
  BY <1>1, <1>2, <1>3, <1>4
<1>6. r \in Bucket
  BY <1>2, <1>4, <1>5 DEF Bucket
<1> QED BY <1>1, <1>2, <1>3, <1>5, <1>6 DEF r

\* What the buckets of a map owe, when they are as in `buckets`.
Shares(map, buckets) ==
    /\ \A u \in Tenants : buckets[u].last <= now
    /\ \A u \in map : admitted[u] * Cost + buckets[u].tokens <= Burst + Rate * buckets[u].last
    /\ \A u \in Tenants \ map : admitted[u] * Cost <= Rate * now

\* Lemma: try_take charges the tenant's own bucket, a new one if it has none.
LEMMA ChargeShare ==
    ASSUME ClockOK, admitted \in [Tenants -> Nat],
           NEW th \in Threads, NEW t \in Tenants, NEW map \in SUBSET Tenants,
           NEW buckets \in [Tenants -> Bucket], NEW used, Shares(map, buckets),
           Tenant!Charge(th, t, map, buckets, used), now' = now
    PROVE  TenantInv'
<1> DEFINE b0 == IF t \in map THEN buckets[t] ELSE [Tenant!Full EXCEPT !.last = now]
           b == Tenant!Refilled(b0)
           spent == admitted[t] * Cost
<1>1. Rate \in Nat /\ Burst \in Nat /\ Cost \in Nat /\ now \in Nat
  BY LimitConstants DEF Adapter!BucketConstants, ClockOK
<1>2. spent \in Int /\ (admitted[t] + 1) * Cost = spent + Cost
  BY <1>1, OneMore
<1>3. b0 \in Bucket /\ b0.last <= now /\ spent + b0.tokens <= Burst + Rate * b0.last
  <2>1. CASE t \in map
    BY <2>1 DEF Shares
  <2>2. CASE t \notin map
    <3>1. b0 = [tokens |-> Burst, last |-> now]
      BY <2>2 DEF Tenant!Full
    <3>2. b0 \in Bucket /\ b0.last = now /\ b0.tokens = Burst
      BY <1>1, <3>1 DEF Bucket
    <3>3. spent <= Rate * now /\ Rate * now \in Int
      BY <1>1, <2>2 DEF Shares
    <3> QED BY <1>1, <1>2, <3>2, <3>3
  <2> QED BY <2>1, <2>2
<1> HIDE DEF spent, b0
<1>4. b \in Bucket /\ b.last = now /\ spent + b.tokens <= Burst + Rate * now
  BY <1>2, <1>3, RefilledShare
<1> HIDE DEF b
<1>5. /\ tracked' = map \cup {t}
      /\ IF b.tokens >= Cost
         THEN /\ bucket' = [buckets EXCEPT ![t] = [b EXCEPT !.tokens = @ - Cost]]
              /\ admitted' = [admitted EXCEPT ![t] = @ + 1]
         ELSE bucket' = [buckets EXCEPT ![t] = b] /\ admitted' = admitted
  BY DEF Tenant!Charge, b, b0
<1>6. b.tokens \in Nat /\ b.tokens <= Burst /\ Rate * now \in Int
  BY <1>1, <1>4 DEF Bucket
<1>7. /\ bucket' \in [Tenants -> Bucket] /\ admitted' \in [Tenants -> Nat]
      /\ \A u \in Tenants \ {t} : bucket'[u] = buckets[u] /\ admitted'[u] = admitted[u]
      /\ bucket'[t].last = now
      /\ admitted'[t] * Cost + bucket'[t].tokens <= Burst + Rate * now
  <2>1. CASE b.tokens >= Cost
    <3>1. /\ [b EXCEPT !.tokens = @ - Cost] \in Bucket
          /\ [b EXCEPT !.tokens = @ - Cost].last = now
          /\ [b EXCEPT !.tokens = @ - Cost].tokens = b.tokens - Cost
      BY <1>1, <1>4, <1>6, <2>1 DEF Bucket
    <3>2. admitted'[t] = admitted[t] + 1 /\ bucket'[t] = [b EXCEPT !.tokens = @ - Cost]
      BY <1>5, <2>1
    <3>3. admitted'[t] * Cost + bucket'[t].tokens <= Burst + Rate * now
      BY <1>1, <1>2, <1>4, <1>6, <3>1, <3>2
    <3> QED BY <1>5, <2>1, <3>1, <3>2, <3>3
  <2>2. CASE ~(b.tokens >= Cost)
    BY <1>4, <1>5, <2>2 DEF spent
  <2> QED BY <2>1, <2>2
<1>8. \A u \in tracked' : admitted'[u] * Cost + bucket'[u].tokens <= Burst + Rate * bucket'[u].last
  BY <1>5, <1>7 DEF Shares
<1>9. \A u \in Tenants \ tracked' : admitted'[u] * Cost <= Rate * now
  BY <1>5, <1>7 DEF Shares
<1>10. \A u \in Tenants : bucket'[u].last <= now
  BY <1>1, <1>7 DEF Shares
<1> QED BY <1>5, <1>7, <1>8, <1>9, <1>10 DEF TenantInv, Bucket

\* Lemma: is_replenished brings the tracked buckets up to date and no tenant
\* gains by it; a replenished one owes nothing.
LEMMA SurveyShare ==
    ASSUME ClockOK, TenantInv
    PROVE  /\ Tenant!Surveyed \in [Tenants -> Bucket]
           /\ Shares(tracked, Tenant!Surveyed)
           /\ \A v \in Tenant!Replenished(tracked) : admitted[v] * Cost <= Rate * now
<1>1. Rate \in Nat /\ Burst \in Nat /\ Cost \in Nat /\ now \in Nat
  BY LimitConstants DEF Adapter!BucketConstants, ClockOK
<1>2. bucket \in [Tenants -> Bucket] /\ tracked \in SUBSET Tenants
  BY DEF TenantInv, Bucket
<1>3. ASSUME NEW u \in tracked
      PROVE  LET r == Tenant!Refilled(bucket[u]) IN
             r \in Bucket /\ r.last = now /\ admitted[u] * Cost + r.tokens <= Burst + Rate * now
  <2>1. admitted[u] * Cost \in Int
    BY <1>1, <1>2 DEF TenantInv
  <2>2. /\ bucket[u] \in Bucket /\ bucket[u].last <= now
        /\ admitted[u] * Cost + bucket[u].tokens <= Burst + Rate * bucket[u].last
    BY <1>2 DEF TenantInv
  <2> QED BY <2>1, <2>2, RefilledShare
<1>4. /\ \A u \in tracked : Tenant!Surveyed[u] = Tenant!Refilled(bucket[u])
      /\ \A u \in Tenants \ tracked : Tenant!Surveyed[u] = bucket[u]
  BY <1>2 DEF Tenant!Surveyed
<1>5. Tenant!Surveyed \in [Tenants -> Bucket]
  BY <1>2, <1>3 DEF Tenant!Surveyed
<1>6. Shares(tracked, Tenant!Surveyed)
  BY <1>1, <1>3, <1>4 DEF Shares, TenantInv
<1>7. ASSUME NEW v \in Tenant!Replenished(tracked) PROVE admitted[v] * Cost <= Rate * now
  <2>1. v \in tracked /\ Tenant!Refilled(bucket[v]).tokens >= Burst
    BY DEF Tenant!Replenished
  <2>2. Tenant!Refilled(bucket[v]).tokens \in Int
    BY <1>1, <1>3, <2>1 DEF Bucket
  <2>3. admitted[v] * Cost \in Int /\ Rate * now \in Int
    BY <1>1, <1>2, <2>1 DEF TenantInv
  <2>4. admitted[v] * Cost + Tenant!Refilled(bucket[v]).tokens <= Burst + Rate * now
    BY <1>3, <2>1
  <2> QED BY <1>1, <2>1, <2>2, <2>3, <2>4
<1> QED BY <1>5, <1>6, <1>7

\* Lemma: neither a take, nor an eviction, nor the clock gives a tenant more
\* than its share.
LEMMA TenantStep == ClockOK /\ TenantInv /\ [Next]_vars => TenantInv'
<1> SUFFICES ASSUME ClockOK, TenantInv, [Next]_vars PROVE TenantInv'
  OBVIOUS
<1>1. /\ bucket \in [Tenants -> Bucket] /\ admitted \in [Tenants -> Nat]
      /\ tracked \in SUBSET Tenants /\ Shares(tracked, bucket)
  BY DEF TenantInv, Bucket, Shares
<1>2. Rate \in Nat /\ Burst \in Nat /\ Cost \in Nat /\ now \in Nat
  BY LimitConstants DEF Adapter!BucketConstants, ClockOK
<1>3. ASSUME NEW th \in Threads, NEW t \in Tenants, Tenant!Take(th, t) PROVE TenantInv'
  <2>1. Tenant!Charge(th, t, tracked, bucket, lastUsed) /\ now' = now
    BY <1>3 DEF Tenant!Take
  <2> QED BY <1>1, <2>1, ChargeShare
<1>4. ASSUME NEW th \in Threads, NEW t \in Tenants, Tenant!TakeEvicting(th, t) PROVE TenantInv'
  <2> DEFINE Kept(v) == [Tenant!Surveyed EXCEPT ![v] = Tenant!Full]
  <2>1. PICK v \in Tenant!Replenished(tracked) :
           Tenant!Charge(th, t, tracked \ {v}, Kept(v), [lastUsed EXCEPT ![v] = 0])
    BY <1>4 DEF Tenant!TakeEvicting, Tenant!Oldest
  <2>2. now' = now
    BY <1>4 DEF Tenant!TakeEvicting
  <2>3. Tenant!Full \in Bucket /\ Tenant!Full.last = 0
    BY <1>2 DEF Tenant!Full, Bucket
  <2>4. v \in Tenants
    BY <1>1 DEF Tenant!Replenished
  <2>5. Kept(v) \in [Tenants -> Bucket]
    BY <2>3, <2>4, SurveyShare
  <2>6. Shares(tracked \ {v}, Kept(v))
    <3>1. Kept(v)[v] = Tenant!Full /\ \A u \in Tenants \ {v} : Kept(v)[u] = Tenant!Surveyed[u]
      BY <2>4, SurveyShare
    <3>2. Shares(tracked, Tenant!Surveyed) /\ admitted[v] * Cost <= Rate * now
      BY SurveyShare
    <3> HIDE DEF Kept
    <3> QED BY <1>1, <1>2, <2>3, <3>1, <3>2 DEF Shares
  <2>7. tracked \ {v} \in SUBSET Tenants
    BY <1>1
  <2> HIDE DEF Kept
  <2> QED BY <1>1, <2>1, <2>2, <2>5, <2>6, <2>7, ChargeShare
<1>5. ASSUME NEW th \in Threads, NEW t \in Tenants, Tenant!RefuseFull(th, t) PROVE TenantInv'
  <2>1. bucket' = Tenant!Surveyed /\ UNCHANGED <<now, tracked, admitted>>
    BY <1>5 DEF Tenant!RefuseFull
  <2> QED BY <1>1, <2>1, SurveyShare DEF TenantInv, Bucket, Shares
<1>6. ASSUME UNCHANGED ofTenants PROVE TenantInv'
  <2>1. now' \in Nat /\ now <= now'
    BY <1>2, ClockStep DEF ClockOK
  <2>2. \A u \in Tenants \ tracked : admitted[u] * Cost <= Rate * now'
    <3> SUFFICES ASSUME NEW u \in Tenants \ tracked PROVE admitted[u] * Cost <= Rate * now'
      OBVIOUS
    <3>1. \A n \in Nat : now <= n => /\ Rate * now \in Int /\ Rate * n \in Int
                                     /\ Rate * now <= Rate * n
      BY <1>2, TimesMonotone
    <3>2. admitted[u] * Cost \in Int /\ admitted[u] * Cost <= Rate * now
      BY <1>1, <1>2 DEF Shares
    <3> QED BY <2>1, <3>1, <3>2
  <2>3. \A u \in Tenants : bucket[u].last <= now'
    BY <1>1, <1>2, <2>1 DEF Shares, Bucket
  <2> QED BY <1>1, <1>6, <2>2, <2>3 DEF ofTenants, TenantInv, Shares, Bucket
<1>7. Tenant!Next =>
        \/ \E th \in Threads, t \in Tenants :
              Tenant!Take(th, t) \/ Tenant!TakeEvicting(th, t) \/ Tenant!RefuseFull(th, t)
        \/ UNCHANGED ofTenants
  BY DEF Tenant!Next, Tenant!ReadClock, Tenant!Tick, ofTenants
<1> QED BY <1>3, <1>4, <1>5, <1>6, <1>7 DEF Next, vars

\* PerTenantBuckets evicts a bucket only when it is full again, so a tenant
\* that is evicted and comes back, any number of times, is admitted no more
\* than its burst and rate allow since boot.
THEOREM TenantsKeepTheirShare == Spec => []TenantShare
<1>1. Init => ClockOK /\ TenantInv
  <2> SUFFICES ASSUME Init PROVE ClockOK /\ TenantInv
    OBVIOUS
  <2>1. Rate \in Nat /\ Burst \in Nat /\ Cost \in Nat
    BY LimitConstants DEF Adapter!BucketConstants
  <2>2. ClockOK
    BY DEF Init, ClockOK, Adapter!Init
  <2>3. TenantInv
    BY <2>1 DEF Init, TenantInv, Tenant!Init, Tenant!Full
  <2> QED BY <2>2, <2>3
<1>2. ClockOK /\ [Next]_vars => ClockOK'
  BY ClockStep
<1>3. ClockOK /\ TenantInv => TenantShare
  <2> SUFFICES ASSUME ClockOK, TenantInv, NEW t \in Tenants
               PROVE  admitted[t] * Cost <= Burst + Rate * now
    BY DEF TenantShare, Tenant!TenantShare
  <2>1. Rate \in Nat /\ Burst \in Nat /\ Cost \in Nat /\ now \in Nat
    BY LimitConstants DEF Adapter!BucketConstants, ClockOK
  <2>2. admitted[t] * Cost \in Int /\ Rate * now \in Int
    BY <2>1 DEF TenantInv
  <2>3. CASE t \in tracked
    <3>1. bucket[t].tokens \in Nat /\ bucket[t].last \in Nat /\ bucket[t].last <= now
      BY <2>1 DEF TenantInv
    <3>2. Rate * bucket[t].last \in Int /\ Rate * bucket[t].last <= Rate * now
      BY <2>1, <3>1, TimesMonotone
    <3>3. admitted[t] * Cost + bucket[t].tokens <= Burst + Rate * bucket[t].last
      BY <2>3 DEF TenantInv
    <3> QED BY <2>1, <2>2, <3>1, <3>2, <3>3
  <2>4. CASE t \notin tracked
    BY <2>1, <2>2, <2>4 DEF TenantInv
  <2> QED BY <2>3, <2>4
<1> QED BY <1>1, <1>2, <1>3, TenantStep, PTL DEF Spec

(***************************************************************************)
(* TokenBucket.                                                            *)
(***************************************************************************)

\* Lemma: TokenBucket counts threads as this module does.
LEMMA SameCounting ==
    ASSUME NEW S
    PROVE  /\ Adapter!IsFiniteSet(S) <=> IsFiniteSet(S)
           /\ Adapter!Cardinality(S) = Cardinality(S)
  BY DEF IsFiniteSet, Adapter!IsFiniteSet, Cardinality, Adapter!Cardinality

\* Lemma: a set that gains the pairs of x with an interval gains as many
\* elements as the interval has.
LEMMA GainsInterval ==
    ASSUME NEW K, NEW L, IsFiniteSet(L), NEW x, NEW a \in Int, NEW b \in Int, a <= b + 1,
           K \subseteq L, {x} \X (a .. b) \subseteq L, K \cap ({x} \X (a .. b)) = {}
    PROVE  /\ Cardinality(K) \in Nat /\ Cardinality(L) \in Nat
           /\ Cardinality(K) + (b - a + 1) <= Cardinality(L)
<1> DEFINE E == {x} \X (a .. b)
<1>1. IsFiniteSet(K) /\ Cardinality(K) \in Nat /\ Cardinality(L) \in Nat
  BY FS_Subset, FS_CardinalityType
<1>2. IsFiniteSet(a .. b) /\ Cardinality(a .. b) = b - a + 1
  <2>1. IsFiniteSet(a .. b) /\ Cardinality(a .. b) = IF a > b THEN 0 ELSE b - a + 1
    BY FS_Interval
  <2> QED BY <2>1
<1>3. IsFiniteSet({x}) /\ Cardinality({x}) = 1
  BY FS_Singleton
<1>4. IsFiniteSet(E) /\ Cardinality(E) = 1 * (b - a + 1)
  <2>1. IsFiniteSet(E) /\ Cardinality(E) = Cardinality({x}) * Cardinality(a .. b)
    BY <1>2, <1>3, FS_Product
  <2> HIDE DEF E
  <2> QED BY <1>2, <1>3, <2>1
<1> HIDE DEF E
<1>5. Cardinality(K \cup E) = Cardinality(K) + Cardinality(E) - Cardinality({})
  <2>1. K \cap E = {}
    BY DEF E
  <2> QED BY <1>1, <1>4, <2>1, FS_Union
<1>6. Cardinality({}) = 0
  BY FS_EmptySet
<1>7. Cardinality(K \cup E) <= Cardinality(L)
  <2>1. K \cup E \in SUBSET L
    BY DEF E
  <2> QED BY <2>1, FS_Subset
<1>8. Cardinality(K \cup E) = Cardinality(K) + (b - a + 1)
  BY <1>1, <1>4, <1>5, <1>6
<1> QED BY <1>1, <1>7, <1>8

\* Lemma: there are at most as many granted ticks as the threads have lived
\* through.
LEMMA GrantedBound ==
    ASSUME IsFiniteSet(Threads), NEW h, NEW T \in Nat
    PROVE  /\ IsFiniteSet(Granted(h, T)) /\ Cardinality(Granted(h, T)) \in Nat
           /\ Cardinality(Threads) \in Nat
           /\ Cardinality(Granted(h, T)) <= Cardinality(Threads) * T
<1>1. IsFiniteSet(1 .. T) /\ Cardinality(1 .. T) = T
  <2>1. IsFiniteSet(1 .. T) /\ Cardinality(1 .. T) = IF 1 > T THEN 0 ELSE T - 1 + 1
    BY FS_Interval
  <2> QED BY <2>1
<1>2. /\ IsFiniteSet(Threads \X (1 .. T))
      /\ Cardinality(Threads \X (1 .. T)) = Cardinality(Threads) * T
  BY <1>1, FS_Product
<1>3. Granted(h, T) \in SUBSET (Threads \X (1 .. T))
  BY DEF Granted
<1>4. /\ IsFiniteSet(Granted(h, T))
      /\ Cardinality(Granted(h, T)) <= Cardinality(Threads \X (1 .. T))
  BY <1>2, <1>3, FS_Subset
<1> QED BY <1>2, <1>4, FS_CardinalityType

\* The units of time a take refills: none when the reading is late.
Elapsed(th) == IF reading[th] > last_refill THEN reading[th] - last_refill ELSE 0

\* Lemma: every tick that a take refills is granted, to a thread it was not
\* granted to before: to the last taker, whose next reading is later, or to
\* the thread that takes.
LEMMA TakeGrants ==
    ASSUME IsFiniteSet(Threads), ClockOK, last_refill \in 0 .. now,
           NEW h \in Threads, NEW T \in last_refill .. now,
           reading[h] = -1 \/ reading[h] >= T,
           NEW th \in Threads, Adapter!Take(th), NEW n \in Nat, n = now
    PROVE  Cardinality(Granted(h, T)) + Elapsed(th) <= Cardinality(Granted(th, n)')
<1> DEFINE r == reading[th]
           K == Granted(h, T)
           L == Granted(th, n)'
<1>1. now \in Nat /\ T \in Nat /\ last_refill \in Nat /\ r \in 0 .. now /\ last_refill <= T /\ T <= now
  BY DEF ClockOK, Adapter!Take
<1>2. /\ last_refill' = r /\ now' = now
      /\ reading'[th] = -1 /\ \A x \in Threads \ {th} : reading'[x] = reading[x]
  BY DEF ClockOK, Adapter!Take
<1>3. \A x \in Threads, i \in 1 .. T :
         <<x, i>> \in K <=> IF x = h THEN i <= last_refill ELSE reading[x] = -1 \/ i <= reading[x]
  BY DEF Granted
<1>4. \A x \in Threads, i \in 1 .. now :
         <<x, i>> \in L <=> IF x = th THEN i <= r ELSE reading[x] = -1 \/ i <= reading[x]
  BY <1>2 DEF Granted
<1>5. K \subseteq Threads \X (1 .. T) /\ L \subseteq Threads \X (1 .. now)
  BY <1>2 DEF Granted
<1>6. IsFiniteSet(K) /\ Cardinality(K) \in Nat /\ IsFiniteSet(L) /\ Cardinality(L) \in Nat
  <2>1. IsFiniteSet(Threads \X (1 .. now))
    <3>1. IsFiniteSet(1 .. now)
      BY <1>1, FS_Interval
    <3> QED BY <3>1, FS_Product
  <2>2. IsFiniteSet(L)
    BY <1>5, <2>1, FS_Subset
  <2> QED BY <1>1, <2>2, GrantedBound, FS_CardinalityType
<1> HIDE DEF K, L
<1>7. K \subseteq L
  <2> SUFFICES ASSUME NEW x \in Threads, NEW i \in 1 .. T, <<x, i>> \in K PROVE <<x, i>> \in L
    BY <1>5
  <2>1. i \in 1 .. now
    BY <1>1
  <2>2. CASE x = th
    BY <1>1, <1>3, <1>4, <2>1, <2>2 DEF ClockOK
  <2>3. CASE x # th /\ x = h
    BY <1>1, <1>3, <1>4, <2>1, <2>3 DEF ClockOK
  <2>4. CASE x # th /\ x # h
    BY <1>3, <1>4, <2>1, <2>4
  <2> QED BY <2>2, <2>3, <2>4
<1>8. CASE r <= last_refill
  <2>1. Elapsed(th) = 0
    BY <1>1, <1>8 DEF Elapsed
  <2>2. Cardinality(K) <= Cardinality(L)
    BY <1>6, <1>7, FS_Subset
  <2> QED BY <1>6, <2>1, <2>2 DEF K, L
<1>9. CASE r > last_refill /\ (th = h \/ r <= T)
  <2> DEFINE E == {h} \X (last_refill + 1 .. r)
  <2>1. E \subseteq L
    <3> SUFFICES ASSUME NEW i \in last_refill + 1 .. r PROVE <<h, i>> \in L
      OBVIOUS
    <3>1. i \in 1 .. now /\ i <= r
      BY <1>1
    <3> QED BY <1>1, <1>4, <1>9, <3>1 DEF ClockOK
  <2>2. K \cap E = {}
    <3> SUFFICES ASSUME NEW i \in last_refill + 1 .. r, <<h, i>> \in K PROVE FALSE
      OBVIOUS
    <3>1. i \in 1 .. T
      BY <1>5
    <3> QED BY <1>1, <1>3, <3>1
  <2>3. Cardinality(K) + (r - (last_refill + 1) + 1) <= Cardinality(L)
    <3>1. last_refill + 1 \in Int /\ r \in Int /\ last_refill + 1 <= r + 1
      BY <1>1, <1>9
    <3> HIDE DEF r
    <3> QED BY <1>6, <1>7, <2>1, <2>2, <3>1, GainsInterval
  <2> QED BY <1>1, <1>6, <1>9, <2>3 DEF Elapsed, K, L
<1>10. CASE r > T /\ th # h
  <2> DEFINE E == {h} \X (last_refill + 1 .. T)
             F == {th} \X (T + 1 .. r)
             M == K \cup E
  <2>1. E \subseteq L
    <3> SUFFICES ASSUME NEW i \in last_refill + 1 .. T PROVE <<h, i>> \in L
      OBVIOUS
    <3>1. i \in 1 .. now
      BY <1>1
    <3> QED BY <1>1, <1>4, <1>10, <3>1 DEF ClockOK
  <2>2. K \cap E = {}
    <3> SUFFICES ASSUME NEW i \in last_refill + 1 .. T, <<h, i>> \in K PROVE FALSE
      OBVIOUS
    <3>1. i \in 1 .. T
      BY <1>5
    <3> QED BY <1>1, <1>3, <3>1
  <2>3. F \subseteq L
    <3> SUFFICES ASSUME NEW i \in T + 1 .. r PROVE <<th, i>> \in L
      OBVIOUS
    <3>1. i \in 1 .. now /\ i <= r
      BY <1>1
    <3> QED BY <1>4, <3>1
  <2>4. M \cap F = {}
    <3> SUFFICES ASSUME NEW i \in T + 1 .. r, <<th, i>> \in K PROVE FALSE
      BY <1>10
    <3>1. i \in 1 .. T
      BY <1>5
    <3> QED BY <1>1, <3>1
  <2>5. Cardinality(K) + (T - (last_refill + 1) + 1) <= Cardinality(M) /\ Cardinality(M) \in Nat
    <3>1. last_refill + 1 \in Int /\ T \in Int /\ last_refill + 1 <= T + 1
      BY <1>1
    <3>2. IsFiniteSet(M)
      BY <1>6, <1>7, <2>1, FS_Subset
    <3>3. K \subseteq M /\ E \subseteq M
      OBVIOUS
    <3> HIDE DEF M
    <3> QED BY <2>2, <3>1, <3>2, <3>3, GainsInterval
  <2>6. Cardinality(M) + (r - (T + 1) + 1) <= Cardinality(L)
    <3>1. T + 1 \in Int /\ r \in Int /\ T + 1 <= r + 1
      BY <1>1, <1>10
    <3>2. M \subseteq L
      BY <1>7, <2>1
    <3> HIDE DEF r, M
    <3> QED BY <1>6, <2>3, <2>4, <3>1, <3>2, GainsInterval
  <2> HIDE DEF M
  <2> QED BY <1>1, <1>6, <1>10, <2>5, <2>6 DEF Elapsed, K, L
<1> QED BY <1>1, <1>8, <1>9, <1>10

\* Lemma: what a take adds to what was admitted and is left is what it
\* refilled.
LEMMA TakeSpends ==
    ASSUME ClockOK, tokens \in 0 .. Burst, last_refill \in 0 .. now, taken \in Nat,
           NEW th \in Threads, Adapter!Take(th)
    PROVE  /\ tokens' \in 0 .. Burst /\ taken' \in Nat
           /\ taken' * Cost + tokens' <= taken * Cost + tokens + Rate * Elapsed(th)
<1> DEFINE more == Elapsed(th) * Rate
           filled == IF tokens + more < Burst THEN tokens + more ELSE Burst
<1>1. Rate \in Nat /\ Burst \in Nat /\ Cost \in Nat /\ now \in Nat
  BY LimitConstants DEF Adapter!BucketConstants, ClockOK
<1>2. Elapsed(th) \in Nat
  BY <1>1 DEF Elapsed, ClockOK
<1>3. more \in Nat /\ more = Rate * Elapsed(th)
  <2>1. Rate * 0 <= Rate * Elapsed(th) /\ Rate * Elapsed(th) \in Int
    BY <1>1, <1>2, TimesMonotone
  <2>2. Elapsed(th) * Rate = Rate * Elapsed(th)
    BY <1>1, <1>2
  <2> QED BY <1>1, <2>1, <2>2
<1>4. taken * Cost \in Int /\ (taken + 1) * Cost = taken * Cost + Cost
  BY <1>1, OneMore
<1>5. IF filled >= Cost THEN tokens' = filled - Cost /\ taken' = taken + 1
      ELSE tokens' = filled /\ taken' = taken
  BY DEF Adapter!Take, Adapter!Refilled, Elapsed
<1>6. filled \in 0 .. Burst /\ filled <= tokens + more
  BY <1>1, <1>3
<1> HIDE DEF filled, more
<1>7. CASE filled >= Cost
  <2>1. tokens' = filled - Cost /\ taken' = taken + 1 /\ tokens' \in 0 .. Burst
    BY <1>1, <1>5, <1>6, <1>7
  <2>2. taken' * Cost = taken * Cost + Cost
    BY <1>4, <2>1
  <2> QED BY <1>1, <1>3, <1>4, <1>6, <2>1, <2>2
<1>8. CASE ~(filled >= Cost)
  <2>1. tokens' = filled /\ taken' = taken
    BY <1>5, <1>8
  <2> QED BY <1>3, <1>4, <1>6, <2>1
<1> QED BY <1>7, <1>8

\* Lemma: every step keeps the account of the adapter's bucket.
LEMMA AdapterStep == ClockOK /\ AdapterInv /\ [Next]_vars => AdapterInv'
<1> SUFFICES ASSUME ClockOK, AdapterInv, [Next]_vars PROVE AdapterInv'
  OBVIOUS
<1>1. /\ Rate \in Nat /\ Burst \in Nat /\ Cost \in Nat /\ now \in Nat
      /\ IsFiniteSet(Threads)
  BY LimitConstants, SameCounting DEF Adapter!BucketConstants, ClockOK
<1>2. tokens \in 0 .. Burst /\ last_refill \in 0 .. now /\ taken \in Nat
  BY DEF AdapterInv
<1>3. now' \in Nat /\ now <= now' /\ limiter' = limiter
  BY <1>1, ClockStep DEF Next, vars
<1>4. ASSUME limiter = "adapter", NEW th \in Threads, Adapter!Take(th) PROVE AdapterInv'
  <2>0. PICK n \in Nat : n = now
    BY <1>1
  <2>1. PICK h \in Threads, T \in last_refill .. now :
           /\ reading[h] = -1 \/ reading[h] >= T
           /\ taken * Cost + tokens <= Burst + Rate * Cardinality(Granted(h, T))
    BY <1>4 DEF AdapterInv
  <2> DEFINE g == Cardinality(Granted(h, T))
             k == Cardinality(Granted(th, n)')
             e == Elapsed(th)
  <2>2. g + e <= k
    BY <1>1, <1>2, <1>4, <2>0, <2>1, TakeGrants
  <2>3. g \in Nat
    BY <1>1, <1>2, GrantedBound
  <2>4. k \in Nat
    <3>1. Granted(th, n)' \in SUBSET (Threads \X (1 .. n))
      BY DEF Granted
    <3>2. IsFiniteSet(1 .. n)
      BY FS_Interval
    <3>3. IsFiniteSet(Threads \X (1 .. n))
      BY <1>1, <3>2, FS_Product
    <3>4. IsFiniteSet(Granted(th, n)')
      BY <3>1, <3>3, FS_Subset
    <3> QED BY <3>4, FS_CardinalityType
  <2>5. e \in Nat
    BY <1>1, <1>2 DEF Elapsed, ClockOK
  <2>6. /\ tokens' \in 0 .. Burst /\ taken' \in Nat
        /\ taken' * Cost + tokens' <= taken * Cost + tokens + Rate * e
    BY <1>2, <1>4, TakeSpends
  <2> HIDE DEF g, k, e
  <2>7. Rate * g + Rate * e <= Rate * k /\ Rate * g \in Int /\ Rate * e \in Int /\ Rate * k \in Int
    <3>1. Rate * (g + e) <= Rate * k /\ Rate * k \in Int
      BY <1>1, <2>2, <2>3, <2>4, <2>5, TimesMonotone
    <3>2. Rate * g \in Int /\ Rate * e \in Int /\ Rate * (g + e) = Rate * g + Rate * e
      BY <1>1, <2>3, <2>5, TimesSum
    <3> QED BY <3>1, <3>2
  <2>8. taken * Cost + tokens <= Burst + Rate * g
    BY <2>1 DEF g
  <2>9. taken * Cost \in Int /\ taken' * Cost \in Int
    BY <1>1, <1>2, <2>6
  <2>10. taken' * Cost + tokens' <= Burst + Rate * k
    BY <1>1, <1>2, <2>6, <2>7, <2>8, <2>9
  <2>11. /\ last_refill' \in 0 .. now /\ now' = now
         /\ reading'[th] = -1
    BY <1>4 DEF Adapter!Take, ClockOK
  <2>12. n \in last_refill' .. now'
    BY <1>1, <2>0, <2>11
  <2>13. \E h2 \in Threads, T2 \in last_refill' .. now' :
            /\ reading'[h2] = -1 \/ reading'[h2] >= T2
            /\ taken' * Cost + tokens' <= Burst + Rate * Cardinality(Granted(h2, T2)')
    BY <2>10, <2>11, <2>12 DEF k
  <2> QED BY <1>3, <1>4, <2>6, <2>11, <2>13 DEF AdapterInv
<1>5. ASSUME UNCHANGED ofAdapter,
             \A th \in Threads : reading'[th] \in {reading[th], now},
             \A th \in Threads : reading'[th] # reading[th] => reading[th] = -1
      PROVE  AdapterInv'
  <2>1. ASSUME limiter = "adapter", Threads # {}
        PROVE  \E h \in Threads, T \in last_refill .. now' :
                  /\ reading'[h] = -1 \/ reading'[h] >= T
                  /\ taken * Cost + tokens <= Burst + Rate * Cardinality(Granted(h, T)')
    <3>1. PICK h \in Threads, T \in last_refill .. now :
             /\ reading[h] = -1 \/ reading[h] >= T
             /\ taken * Cost + tokens <= Burst + Rate * Cardinality(Granted(h, T))
      BY <2>1 DEF AdapterInv
    <3>2. T \in last_refill .. now' /\ T \in Nat /\ T <= now
      BY <1>1, <1>2, <1>3
    <3>3. reading'[h] = -1 \/ reading'[h] >= T
      BY <1>5, <3>1, <3>2
    <3>4. \A x \in Threads, i \in 1 .. T :
             (reading'[x] = -1 \/ i <= reading'[x]) <=> (reading[x] = -1 \/ i <= reading[x])
      BY <1>1, <1>5, <3>2
    <3>5. Granted(h, T)' = Granted(h, T)
      BY <1>5, <3>4 DEF Granted, ofAdapter
    <3> QED BY <3>1, <3>2, <3>3, <3>5
  <2>2. /\ tokens' = tokens /\ last_refill' = last_refill /\ taken' = taken
        /\ last_refill' \in 0 .. now'
    BY <1>1, <1>2, <1>3, <1>5 DEF ofAdapter
  <2>3. limiter # "adapter" \/ Threads = {} => taken = 0
    BY DEF AdapterInv
  <2> QED BY <1>2, <1>3, <2>1, <2>2, <2>3 DEF AdapterInv
<1>6. ASSUME limiter # "adapter", UNCHANGED ofAdapter PROVE AdapterInv'
  <2>1. /\ tokens' = tokens /\ last_refill' = last_refill /\ taken' = taken
        /\ last_refill' \in 0 .. now'
    BY <1>1, <1>2, <1>3, <1>6 DEF ofAdapter
  <2>2. taken = 0
    BY <1>6 DEF AdapterInv
  <2> QED BY <1>2, <1>3, <1>6, <2>1, <2>2 DEF AdapterInv
<1>7. ASSUME limiter = "adapter", Adapter!Next PROVE AdapterInv'
  <2>1. ASSUME NEW th \in Threads, Adapter!ReadClock(th) PROVE AdapterInv'
    BY <1>5, <2>1 DEF Adapter!ReadClock, ClockOK, ofAdapter
  <2>2. ASSUME Adapter!Tick PROVE AdapterInv'
    BY <1>5, <2>2 DEF Adapter!Tick, ofAdapter
  <2> QED BY <1>4, <1>7, <2>1, <2>2 DEF Adapter!Next
<1>8. CASE UNCHANGED vars
  BY <1>5, <1>8 DEF vars
<1> QED BY <1>6, <1>7, <1>8 DEF Next

\* try_take reads the clock before it locks the bucket.  Whatever threads come
\* late with their readings, and however often, the requests let through never
\* exceed the burst by more than one refill of the time since boot per thread.
THEOREM ExcessStaysBounded == Spec => []ExcessBounded
<1>1. Init => ClockOK /\ AdapterInv
  <2> SUFFICES ASSUME Init PROVE ClockOK /\ AdapterInv
    OBVIOUS
  <2>1. Rate \in Nat /\ Burst \in Nat /\ Cost \in Nat /\ IsFiniteSet(Threads)
    BY LimitConstants, SameCounting DEF Adapter!BucketConstants
  <2>2. ClockOK
    BY DEF Init, ClockOK, Adapter!Init
  <2>3. /\ tokens = Burst /\ taken = 0 /\ last_refill = 0 /\ now = 0
        /\ \A th \in Threads : reading[th] = -1
    BY DEF Init, Adapter!Init
  <2>4. ASSUME NEW h \in Threads
        PROVE  taken * Cost + tokens <= Burst + Rate * Cardinality(Granted(h, 0))
    <3>1. Rate * 0 <= Rate * Cardinality(Granted(h, 0)) /\ Rate * Cardinality(Granted(h, 0)) \in Int
      BY <2>1, GrantedBound, TimesMonotone
    <3> QED BY <2>1, <2>3, <3>1
  <2> QED BY <2>1, <2>2, <2>3, <2>4 DEF AdapterInv
<1>2. ClockOK /\ [Next]_vars => ClockOK'
  BY ClockStep
<1>3. ClockOK /\ AdapterInv => ExcessBounded
  <2> SUFFICES ASSUME ClockOK, AdapterInv
               PROVE  taken * Cost <= Burst + Rate * now * Cardinality(Threads)
    BY SameCounting DEF ExcessBounded, Adapter!ExcessBounded
  <2>1. /\ Rate \in Nat /\ Burst \in Nat /\ Cost \in Nat /\ now \in Nat
        /\ IsFiniteSet(Threads)
    BY LimitConstants, SameCounting DEF Adapter!BucketConstants, ClockOK
  <2> DEFINE c == Cardinality(Threads)
             most == c * now
  <2>2. c \in Nat /\ most \in Nat /\ Rate * now * c = Rate * most
    BY <2>1, FS_CardinalityType
  <2>3. Rate * most \in Nat
    BY <2>1, <2>2
  <2>4. CASE limiter # "adapter" \/ Threads = {}
    BY <2>1, <2>2, <2>3, <2>4 DEF AdapterInv
  <2>5. CASE limiter = "adapter" /\ Threads # {}
    <3>1. PICK h \in Threads, T \in last_refill .. now :
             taken * Cost + tokens <= Burst + Rate * Cardinality(Granted(h, T))
      BY <2>5 DEF AdapterInv
    <3>2. T \in Nat /\ T <= now
      BY <2>1 DEF AdapterInv
    <3> DEFINE g == Cardinality(Granted(h, T))
    <3>3. g \in Nat /\ g <= c * T
      BY <2>1, <3>2, GrantedBound
    <3>4. c * T <= most /\ c * T \in Int
      BY <2>1, <2>2, <3>2, TimesMonotone
    <3> HIDE DEF g, most
    <3>5. Rate * g <= Rate * most /\ Rate * g \in Int
      BY <2>1, <2>2, <3>3, <3>4, TimesMonotone
    <3>6. taken * Cost \in Int /\ tokens \in Nat
      BY <2>1 DEF AdapterInv
    <3>7. taken * Cost + tokens <= Burst + Rate * g
      BY <3>1 DEF g
    <3> QED BY <2>1, <2>2, <2>3, <3>5, <3>6, <3>7
  <2> QED BY <2>4, <2>5
<1> QED BY <1>1, <1>2, <1>3, AdapterStep, PTL DEF Spec
=============================================================================
