-------------------------- MODULE RejectionWindow --------------------------
(***************************************************************************)
(* The coalescing window for anonymous rejections (RejectionWindow of      *)
(* triton-core): per protocol, the first rejection of a window is audited  *)
(* and the rest are counted.  admit reads the clock before it takes the    *)
(* lock.                                                                   *)
(***************************************************************************)
EXTENDS Integers, FiniteSets

CONSTANTS
    Keys,     \* the protocols rejections are keyed on
    Threads,  \* concurrent callers of admit
    Window,   \* RejectionWindow::window; 0 disables coalescing
    MaxTime,  \* bound on the clock
    MaxSeen   \* bound on the rejections of a key

WindowConstants == Window \in Nat /\ MaxTime \in Nat /\ MaxSeen \in Nat

VARIABLES
    now,
    opened,      \* opened[k]: the clock reading of the last emission, -1: none
    suppressed,  \* suppressed[k]: rejections swallowed since then
    reading,     \* reading[th]: the clock read before the lock, or -1
    seen,        \* history: rejections decided
    emitted,     \* history: audit lines written
    reported     \* history: the sum of the counts those lines carry

vars == <<now, opened, suppressed, reading, seen, emitted, reported>>

TypeOK ==
    /\ now \in Nat
    /\ opened \in [Keys -> -1 .. now]
    /\ suppressed \in [Keys -> Nat]
    /\ reading \in [Threads -> -1 .. now]
    /\ seen \in [Keys -> Nat]
    /\ emitted \in [Keys -> Nat]
    /\ reported \in [Keys -> Nat]

Init ==
    /\ now = 0
    /\ opened = [k \in Keys |-> -1]
    /\ suppressed = [k \in Keys |-> 0]
    /\ reading = [th \in Threads |-> -1]
    /\ seen = [k \in Keys |-> 0]
    /\ emitted = [k \in Keys |-> 0]
    /\ reported = [k \in Keys |-> 0]

ReadClock(th) ==
    /\ reading[th] = -1
    /\ reading' = [reading EXCEPT ![th] = now]
    /\ UNCHANGED <<now, opened, suppressed, seen, emitted, reported>>

\* now.duration_since(opened) < window, with the subtraction saturating.
InForce(th, k) ==
    /\ Window > 0
    /\ opened[k] # -1
    /\ (IF reading[th] > opened[k] THEN reading[th] - opened[k] ELSE 0) < Window

Swallow(th, k) ==
    /\ reading[th] # -1 /\ seen[k] < MaxSeen
    /\ InForce(th, k)
    /\ suppressed' = [suppressed EXCEPT ![k] = @ + 1]
    /\ reading' = [reading EXCEPT ![th] = -1]
    /\ seen' = [seen EXCEPT ![k] = @ + 1]
    /\ UNCHANGED <<now, opened, emitted, reported>>

\* Mutant: the count is reported and kept.
EmitKeepsCount(th, k) ==
    /\ reading[th] # -1 /\ seen[k] < MaxSeen
    /\ ~InForce(th, k)
    /\ opened' = [opened EXCEPT ![k] = reading[th]]
    /\ reported' = [reported EXCEPT ![k] = @ + suppressed[k]]
    /\ reading' = [reading EXCEPT ![th] = -1]
    /\ seen' = [seen EXCEPT ![k] = @ + 1]
    /\ emitted' = [emitted EXCEPT ![k] = @ + 1]
    /\ UNCHANGED <<now, suppressed>>

\* The first rejection of a key, one after the window lapsed, or any one when
\* coalescing is off.
Emit(th, k) ==
    /\ reading[th] # -1 /\ seen[k] < MaxSeen
    /\ ~InForce(th, k)
    /\ opened' = [opened EXCEPT ![k] = IF Window = 0 THEN @ ELSE reading[th]]
    /\ reported' = [reported EXCEPT ![k] = @ + suppressed[k]]
    /\ suppressed' = [suppressed EXCEPT ![k] = 0]
    /\ reading' = [reading EXCEPT ![th] = -1]
    /\ seen' = [seen EXCEPT ![k] = @ + 1]
    /\ emitted' = [emitted EXCEPT ![k] = @ + 1]
    /\ UNCHANGED now

Tick ==
    /\ now < MaxTime
    /\ now' = now + 1
    /\ UNCHANGED <<opened, suppressed, reading, seen, emitted, reported>>

Next ==
    \/ \E th \in Threads : ReadClock(th)
    \/ \E th \in Threads, k \in Keys : Swallow(th, k) \/ Emit(th, k)
    \/ Tick

Spec == Init /\ [][Next]_vars

(***************************************************************************)
(* Properties.                                                             *)
(***************************************************************************)

\* "The surviving line stays honest about what it stands for": every
\* rejection is a line, is counted by one, or is in the count still open.
Honest == \A k \in Keys : seen[k] = emitted[k] + reported[k] + suppressed[k]

\* A scanner writes at most one line per window and key, so it cannot evict
\* the audit history, however the threads are scheduled.
Coalesced == Window > 0 => \A k \in Keys : (emitted[k] - 1) * Window <= now
=============================================================================
