----------------------------- MODULE RateLimits -----------------------------
(***************************************************************************)
(* The three limiters every inbound path of the gateway passes             *)
(* (triton-core's ratelimit.rs), under one clock and one set of threads:   *)
(* the adapter's bucket, the tenants' buckets and the window that          *)
(* coalesces anonymous rejections.  They share no state, so a behaviour    *)
(* exercises one of them, chosen at the start: every behaviour of all      *)
(* three together is one of each side by side.                             *)
(***************************************************************************)
EXTENDS Integers

CONSTANTS
    Threads,     \* threads that serve requests
    Tenants,
    Keys,        \* protocols
    Rate, Burst, Cost,  \* of a bucket, see TokenBucket
    MaxBuckets,  \* MAX_TENANT_BUCKETS
    Window,      \* the rejection window
    Limiters,    \* the limiters to exercise
    MaxTime,     \* bound on the clock
    MaxSeen      \* bound on the rejections of a key

VARIABLES
    limiter,                                        \* which one is exercised
    now, reading,                                   \* shared
    tokens, last_refill, taken,                     \* TokenBucket
    tracked, bucket, lastUsed, admitted,            \* TenantBuckets
    opened, suppressed, seen, emitted, reported     \* RejectionWindow

ofAdapter == <<tokens, last_refill, taken>>
ofTenants == <<tracked, bucket, lastUsed, admitted>>
ofWindow  == <<opened, suppressed, seen, emitted, reported>>
vars == <<limiter, now, reading, ofAdapter, ofTenants, ofWindow>>

Adapter == INSTANCE TokenBucket WITH admitted <- taken
Tenant  == INSTANCE TenantBuckets
Coalesce == INSTANCE RejectionWindow

ASSUME LimitConstants ==
    /\ Adapter!BucketConstants /\ Tenant!TenantConstants /\ Coalesce!WindowConstants
    /\ Limiters \subseteq {"adapter", "tenants", "window"}

Init ==
    /\ limiter \in Limiters
    /\ Adapter!Init /\ Tenant!Init /\ Coalesce!Init

Next ==
    /\ UNCHANGED limiter
    /\ \/ limiter = "adapter" /\ Adapter!Next /\ UNCHANGED <<ofTenants, ofWindow>>
       \/ limiter = "tenants" /\ Tenant!Next /\ UNCHANGED <<ofAdapter, ofWindow>>
       \/ limiter = "window" /\ Coalesce!Next /\ UNCHANGED <<ofAdapter, ofTenants>>

Spec == Init /\ [][Next]_vars

(***************************************************************************)
(* Properties.                                                             *)
(***************************************************************************)

\* try_take with the clock read before the lock: a late thread can have an
\* interval refilled again, but the excess over burst and rate stays below one
\* more refill of the same time per thread.
ExcessBounded == Adapter!ExcessBounded

\* PerTenantBuckets evicts and recreates buckets: no tenant is admitted more
\* often than its one bucket would have allowed since boot.
TenantShare == Tenant!TenantShare

\* RejectionWindow::admit swallows lines, never rejections: each one is a line
\* or is counted, once, by a line or by the count still open, and there is
\* at most one line per window and protocol.
Honest == Coalesce!Honest /\ Coalesce!Coalesced
=============================================================================
