--------------------------- MODULE TenantBuckets ---------------------------
(***************************************************************************)
(* PerTenantBuckets of triton-core: one token bucket per tenant seen, at   *)
(* most MaxBuckets of them, the least recently used replenished one        *)
(* evicted to make room.  The whole of try_take runs under the map's lock, *)
(* the bucket's own clock reading included; only the reading kept as       *)
(* last_used is taken before the lock.                                     *)
(***************************************************************************)
EXTENDS Integers, FiniteSets

CONSTANTS
    Tenants,
    Threads,     \* concurrent callers of try_take
    MaxBuckets,  \* MAX_TENANT_BUCKETS
    Rate,        \* units per tick
    Burst,       \* units
    Cost,        \* units in a token
    MaxTime      \* bound on the clock

TenantConstants == /\ Rate \in Nat
                   /\ Cost \in Nat \ {0}
                   /\ Burst \in Nat /\ Burst >= Cost
                   /\ MaxBuckets \in Nat \ {0}
                   /\ MaxTime \in Nat

VARIABLES
    now,
    tracked,   \* the tenants in the map
    bucket,    \* bucket[t]: tokens and last_refill of t's bucket
    lastUsed,  \* lastUsed[t]: Tracked::last_used
    reading,   \* reading[th]: the clock read before the map lock, or -1
    admitted   \* history: admitted[t], requests of t let through

vars == <<now, tracked, bucket, lastUsed, reading, admitted>>

TypeOK ==
    /\ now \in Nat
    /\ tracked \in SUBSET Tenants
    /\ Cardinality(tracked) <= MaxBuckets
    /\ bucket \in [Tenants -> [tokens : 0 .. Burst, last : 0 .. now]]
    /\ lastUsed \in [Tenants -> Nat]
    /\ reading \in [Threads -> Nat \cup {-1}]
    /\ admitted \in [Tenants -> Nat]

Full == [tokens |-> Burst, last |-> 0]

Init ==
    /\ now = 0
    /\ tracked = {}
    /\ bucket = [t \in Tenants |-> Full]
    /\ lastUsed = [t \in Tenants |-> 0]
    /\ reading = [th \in Threads |-> -1]
    /\ admitted = [t \in Tenants |-> 0]

\* A bucket brought up to date, by try_take or is_replenished.
Refilled(b) ==
    LET filled == b.tokens + (now - b.last) * Rate
    IN  [tokens |-> IF filled < Burst THEN filled ELSE Burst, last |-> now]

\* let now = Instant::now(), before the lock.
ReadClock(th) ==
    /\ reading[th] = -1
    /\ reading' = [reading EXCEPT ![th] = now]
    /\ UNCHANGED <<now, tracked, bucket, lastUsed, admitted>>

\* Mutant: any bucket may go, depleted ones too.
AnyOf(S) == S

\* is_replenished, over the buckets of S.
Replenished(S) == {t \in S : Refilled(bucket[t]).tokens >= Burst}

\* The victims min_by_key may pick: the least recently used of them.
Oldest(S) == {t \in S : \A u \in S : lastUsed[t] <= lastUsed[u]}

Crowded == Cardinality(tracked) >= MaxBuckets

\* The bucket of t at the end of try_take: refilled, and charged if it can
\* pay.  is_replenished has brought the others up to date when it ran.
Charge(th, t, map, buckets, used) ==
    LET b == Refilled(IF t \in map THEN buckets[t] ELSE [Full EXCEPT !.last = now]) IN
    /\ tracked' = map \cup {t}
    /\ lastUsed' = [used EXCEPT ![t] = reading[th]]
    /\ reading' = [reading EXCEPT ![th] = -1]
    /\ IF b.tokens >= Cost
       THEN /\ bucket' = [buckets EXCEPT ![t] = [b EXCEPT !.tokens = @ - Cost]]
            /\ admitted' = [admitted EXCEPT ![t] = @ + 1]
       ELSE /\ bucket' = [buckets EXCEPT ![t] = b]
            /\ UNCHANGED admitted

Surveyed == [t \in Tenants |-> IF t \in tracked THEN Refilled(bucket[t]) ELSE bucket[t]]

\* try_take of a tenant that is tracked, or while there is room.
Take(th, t) ==
    /\ reading[th] # -1
    /\ t \in tracked \/ ~Crowded
    /\ Charge(th, t, tracked, bucket, lastUsed)
    /\ UNCHANGED now

\* try_take of a new tenant with the map full: evict, then admit.
TakeEvicting(th, t) ==
    /\ reading[th] # -1
    /\ t \notin tracked /\ Crowded
    /\ \E v \in Oldest(Replenished(tracked)) :
         Charge(th, t, tracked \ {v}, [Surveyed EXCEPT ![v] = Full], [lastUsed EXCEPT ![v] = 0])
    /\ UNCHANGED now

\* Every tracked tenant is still owed tokens: the newcomer is refused.
RefuseFull(th, t) ==
    /\ reading[th] # -1
    /\ t \notin tracked /\ Crowded
    /\ Replenished(tracked) = {}
    /\ bucket' = Surveyed
    /\ reading' = [reading EXCEPT ![th] = -1]
    /\ UNCHANGED <<now, tracked, lastUsed, admitted>>

Tick ==
    /\ now < MaxTime
    /\ now' = now + 1
    /\ UNCHANGED <<tracked, bucket, lastUsed, reading, admitted>>

Next ==
    \/ \E th \in Threads : ReadClock(th)
    \/ \E th \in Threads, t \in Tenants : Take(th, t) \/ TakeEvicting(th, t) \/ RefuseFull(th, t)
    \/ Tick

Spec == Init /\ [][Next]_vars

(***************************************************************************)
(* Properties.                                                             *)
(***************************************************************************)

\* "Evicting a depleted bucket would be a reset": however often a tenant is
\* evicted and comes back, it is admitted no more than its one bucket would
\* have allowed it since boot.
TenantShare == \A t \in Tenants : admitted[t] * Cost <= Burst + Rate * now
=============================================================================
