---------------------------- MODULE TokenBucket ----------------------------
(***************************************************************************)
(* The adapter-wide rate limiter of triton-core: one TokenBucket shared by *)
(* the threads that serve an adapter's webhook.                            *)
(*                                                                         *)
(* try_take reads the clock BEFORE it locks the bucket, so the reading may *)
(* be older than the one another thread has already stored.  Instant's     *)
(* duration_since saturates at zero.  Tokens are counted in units: Cost    *)
(* units make a token, Rate units are refilled per tick.                   *)
(***************************************************************************)
EXTENDS Integers, FiniteSets

CONSTANTS
    Threads,   \* concurrent callers of try_take
    Rate,      \* messages_per_sec, in units per tick
    Burst,     \* burst.max(1), in units
    Cost,      \* units in a token
    MaxTime    \* bound on the clock

BucketConstants == /\ IsFiniteSet(Threads)
                   /\ Rate \in Nat
                   /\ Cost \in Nat \ {0}
                   /\ Burst \in Nat /\ Burst >= Cost
                   /\ MaxTime \in Nat

VARIABLES
    now,          \* the monotonic clock
    tokens,       \* State::tokens
    last_refill,  \* State::last_refill
    reading,      \* reading[th]: the clock as the thread read it, or -1
    admitted      \* history: requests let through

vars == <<now, tokens, last_refill, reading, admitted>>

TypeOK ==
    /\ now \in Nat
    /\ tokens \in 0 .. Burst
    /\ last_refill \in 0 .. now
    /\ reading \in [Threads -> Nat \cup {-1}]
    /\ admitted \in Nat

Init ==
    /\ now = 0
    /\ tokens = Burst
    /\ last_refill = 0
    /\ reading = [th \in Threads |-> -1]
    /\ admitted = 0

\* tokens + elapsed * rate, capped at burst.
Refilled(at) ==
    LET elapsed == IF at > last_refill THEN at - last_refill ELSE 0
        filled  == tokens + elapsed * Rate
    IN  IF filled < Burst THEN filled ELSE Burst

\* let now = Instant::now();
ReadClock(th) ==
    /\ reading[th] = -1
    /\ reading' = [reading EXCEPT ![th] = now]
    /\ UNCHANGED <<now, tokens, last_refill, admitted>>

\* Mutant: last_refill is only stored when a token is taken.
TakeForgetful(th) ==
    /\ reading[th] # -1
    /\ LET filled == Refilled(reading[th]) IN
       IF filled >= Cost
       THEN tokens' = filled - Cost /\ admitted' = admitted + 1
       ELSE tokens' = filled /\ UNCHANGED admitted
    /\ reading' = [reading EXCEPT ![th] = -1]
    /\ UNCHANGED <<now, last_refill>>

\* The rest of try_take, under the lock.
Take(th) ==
    /\ reading[th] # -1
    /\ LET filled == Refilled(reading[th]) IN
       IF filled >= Cost
       THEN tokens' = filled - Cost /\ admitted' = admitted + 1
       ELSE tokens' = filled /\ UNCHANGED admitted      \* Err(retry_after)
    /\ last_refill' = reading[th]
    /\ reading' = [reading EXCEPT ![th] = -1]
    /\ UNCHANGED now

Tick ==
    /\ now < MaxTime
    /\ now' = now + 1
    /\ UNCHANGED <<tokens, last_refill, reading, admitted>>

Next ==
    \/ \E th \in Threads : ReadClock(th) \/ Take(th)
    \/ Tick

Spec == Init /\ [][Next]_vars

(***************************************************************************)
(* Properties.                                                             *)
(***************************************************************************)

\* What holds with the clock read outside the lock: a late thread can have
\* an interval refilled again, but only the interval it was late by, so the
\* excess is at most one more refill of the same time per thread.
ExcessBounded == admitted * Cost <= Burst + Rate * now * Cardinality(Threads)
=============================================================================
