------------------------------ MODULE Breaker ------------------------------
(***************************************************************************)
(* The circuit breaker of one upstream tool (StaticUpstream of             *)
(* triton-upstream) and the calls that pass it: buffered calls (invoke,    *)
(* read_resource, update_model_context) and streaming ones (open_stream).  *)
(* A call is admitted under the breaker's lock, waits for the agent        *)
(* without it, and settles the breaker when the agent's answer is known.   *)
(* The buffered client bounds the whole request; the streaming one only    *)
(* the connect, so the wait for a stream's headers has no limit.           *)
(* The breakers of different tools share nothing.                          *)
(***************************************************************************)
EXTENDS Integers, FiniteSets

CONSTANTS
    Clients,    \* callers, one call in flight each
    OpenAfter,  \* circuit_open_after: consecutive failures that open
    Cooldown,   \* circuit_cooldown, in ticks
    Unsigned,   \* callers whose claims validate_signed_field refuses
    Impatient   \* callers that may drop a call the agent has not answered

ASSUME BreakerConstants ==
    /\ OpenAfter \in Nat \ {0}
    /\ Cooldown \in Nat
    /\ Unsigned \subseteq Clients
    /\ Impatient \subseteq Clients

\* opened_at is None, and the age of a breaker that was never opened.
None == -1

VARIABLES
    state,     \* Breaker::state
    failures,  \* Breaker::failures
    age,       \* opened_at.elapsed(), up to Cooldown, or None
    call,      \* call[c].at: "idle", "sent" (buffered), "opening" (streaming,
               \* no headers yet), "reading" (a plain answer to a streaming
               \* call), "streaming";
               \* call[c].probe: BreakerPermission::was_half_open
    streak,    \* history: agent faults since the last success, up to OpenAfter
    abandoned, \* history: since the last arming, a probe left unsettled
    overtaken  \* history: a call of before was still in flight when a probe
               \* was armed, or a probe it met still is

vars == <<state, failures, age, call, streak, abandoned, overtaken>>
history == <<abandoned, overtaken>>

Idle == [at |-> "idle", probe |-> FALSE]
Places == {"idle", "sent", "opening", "reading", "streaming"}
InFlight(c) == call[c].at # "idle"
Probes == {c \in Clients : InFlight(c) /\ call[c].probe}

\* An open breaker knows since when: check_and_arm's unwrap_or(false), which
\* would keep it open for ever, is never taken.
TypeOK ==
    /\ state \in {"Closed", "Open", "HalfOpen"}
    /\ failures \in Nat
    /\ age \in None .. Cooldown
    /\ call \in [Clients -> [at : Places, probe : BOOLEAN]]
    /\ streak \in 0 .. OpenAfter
    /\ abandoned \in BOOLEAN /\ overtaken \in BOOLEAN
    /\ age = None <=> state = "Closed"

Init ==
    /\ state = "Closed"
    /\ failures = 0
    /\ age = None
    /\ call = [c \in Clients |-> Idle]
    /\ streak = 0
    /\ abandoned = FALSE /\ overtaken = FALSE

(***************************************************************************)
(* Breaker::check_and_arm, for the calls it lets pass.  The others return  *)
(* circuit_open and change nothing.                                        *)
(***************************************************************************)

\* A permitted call goes out, through the buffered or the streaming client.
Send(c, probe) ==
    \E at \in {"sent", "opening"} :
        call' = [call EXCEPT ![c] = [at |-> at, probe |-> probe]]

\* The history of an arming.
Armed ==
    /\ abandoned' = FALSE
    /\ overtaken' = \/ overtaken /\ Probes # {}
                    \/ \E d \in Clients : InFlight(d) /\ ~call[d].probe

\* Mutant: a second caller may probe while the first probe is in flight.
ArmAgain(c) ==
    /\ state # "Closed" /\ age = Cooldown
    /\ state' = "HalfOpen"
    /\ Send(c, TRUE)
    /\ Armed

Pass(c) ==
    /\ state = "Closed"
    /\ Send(c, FALSE)
    /\ UNCHANGED <<state, history>>

Arm(c) ==
    /\ state = "Open" /\ age = Cooldown
    /\ state' = "HalfOpen"
    /\ Send(c, TRUE)
    /\ Armed

Admit(c) ==
    /\ call[c].at = "idle"
    /\ Pass(c) \/ Arm(c)
    /\ UNCHANGED <<failures, age, streak>>

(***************************************************************************)
(* Breaker::observe.                                                       *)
(***************************************************************************)

\* Mutant: a probe that failed opens the breaker without stamping it.
ReopenUnstamped ==
    /\ state' = "Open"
    /\ age' = None

Close ==
    /\ state' = "Closed"
    /\ failures' = 0
    /\ age' = None
    /\ streak' = 0

Reopen ==
    /\ state' = "Open"
    /\ age' = 0

\* The history of an agent fault.
Fault == streak' = IF streak < OpenAfter THEN streak + 1 ELSE streak

\* Mutant: the breaker opens one failure too late.
OrdinaryFailureLate ==
    /\ failures' = failures + 1
    /\ \/ failures + 1 > OpenAfter /\ Reopen
       \/ failures + 1 <= OpenAfter /\ UNCHANGED <<state, age>>

ProbeFailure == Reopen /\ UNCHANGED failures

OrdinaryFailure ==
    /\ failures' = failures + 1
    /\ \/ failures + 1 >= OpenAfter /\ Reopen
       \/ failures + 1 < OpenAfter /\ UNCHANGED <<state, age>>

Failure(c) ==
    \/ call[c].probe /\ ProbeFailure
    \/ ~call[c].probe /\ OrdinaryFailure

(***************************************************************************)
(* The calls.                                                              *)
(***************************************************************************)

Over(c) == call' = [call EXCEPT ![c] = Idle]

\* The agent's 200 answer to a buffered call, or the body of its plain JSON
\* answer to a streaming one.
Answered(c) ==
    /\ call[c].at \in {"sent", "reading"}
    /\ Close
    /\ Over(c)
    /\ UNCHANGED history

\* Unreachable, timed out, refused with a status, or not decodable.
Failed(c) ==
    /\ call[c].at \in {"sent", "opening", "reading"}
    /\ Failure(c) /\ Fault
    /\ Over(c)
    /\ UNCHANGED history

\* The headers of a 200 answer: with an event stream settling moves to the
\* finalizer, a plain body is read within the idle timeout.
OpenStream(c) ==
    /\ call[c].at = "opening"
    /\ \E at \in {"streaming", "reading"} : call' = [call EXCEPT ![c].at = at]
    /\ UNCHANGED <<state, failures, age, streak, history>>

Completed(c) ==
    /\ call[c].at = "streaming"
    /\ Close
    /\ Over(c)
    /\ UNCHANGED history

\* Termination::Failed and Termination::Truncated.
StreamFailed(c) ==
    /\ call[c].at = "streaming"
    /\ Failure(c) /\ Fault
    /\ Over(c)
    /\ UNCHANGED history

\* Mutant: a client's disconnect leaves the breaker alone, probe or not.
DisconnectedUnsettled(c) ==
    /\ call[c].at = "streaming"
    /\ Over(c)
    /\ UNCHANGED <<state, failures, age, streak, history>>

\* Termination::Disconnected: not the agent's fault, but a probe settles.
Disconnected(c) ==
    /\ call[c].at = "streaming"
    /\ \/ call[c].probe /\ ProbeFailure
       \/ ~call[c].probe /\ UNCHANGED <<state, failures, age>>
    /\ Over(c)
    /\ UNCHANGED <<streak, history>>

\* Nothing is observed of a call that ends before the agent's answer.
Unobserved(c) ==
    /\ Over(c)
    /\ abandoned' = (abandoned \/ call[c].probe)
    /\ UNCHANGED <<state, failures, age, streak, overtaken>>

\* bearer fails after the breaker was armed, with an error that is no Tool
\* error.
Refused(c) ==
    /\ c \in Unsigned
    /\ call[c].at \in {"sent", "opening"}
    /\ Unobserved(c)

\* The caller's future is dropped at the await of the agent's answer: its
\* client disconnected, or the task's deadline passed.
Dropped(c) ==
    /\ c \in Impatient
    /\ call[c].at \in {"sent", "opening", "reading"}
    /\ Unobserved(c)

Tick ==
    /\ age \in 0 .. Cooldown - 1
    /\ age' = age + 1
    /\ UNCHANGED <<state, failures, call, streak, history>>

Next ==
    \/ \E c \in Clients : \/ Admit(c) \/ Answered(c) \/ Failed(c) \/ OpenStream(c)
                          \/ Completed(c) \/ StreamFailed(c) \/ Disconnected(c)
                          \/ Refused(c) \/ Dropped(c)
    \/ Tick

Spec == Init /\ [][Next]_vars

\* What has a limit of its own ends: a buffered call by its client's timeout,
\* the body of a plain answer by the idle timeout, a stream by that and by the
\* maximal duration.  The wait for a stream's headers has none.
Finish(c) ==
    /\ call[c].at # "opening"
    /\ Answered(c) \/ Failed(c) \/ Completed(c) \/ StreamFailed(c)

\* What is bounded ends, and time passes.
Fairness == WF_vars(Tick) /\ \A c \in Clients : WF_vars(Finish(c))

FairSpec == Spec /\ Fairness

(***************************************************************************)
(* Properties.                                                             *)
(***************************************************************************)

\* After circuit_open_after agent faults and no success the breaker is not
\* closed, however the calls overlapped.
TrippedInTime == state = "Closed" => streak < OpenAfter

\* A half-open breaker has its probe in flight, unless a probe was abandoned
\* before the agent's answer: no other way of ending a call, and no late result
\* of an older call, takes away what is to settle it.
HalfOpenHasProbe == state = "HalfOpen" => Probes # {} \/ abandoned

\* Nobody is left to settle the breaker: every later call fails fast.
Wedged == state = "HalfOpen" /\ Probes = {}

\* What open_stream's finalizer says of a probe: its end is observed "so it
\* can't wedge the breaker half-open".
NeverWedged == ~Wedged

\* An ordinary call opens a closed breaker only as the last of
\* circuit_open_after agent faults without a success: a caller's fault, a
\* disconnect and what came before a success never count.  (A probe that
\* outlived its half-open phase does reopen it at once.)
TripsOnAgentFaults ==
    [][state = "Closed" /\ state' = "Open" /\ Probes' = Probes
          => streak' = OpenAfter]_vars

\* check_and_arm's "another concurrent probe already in flight": while no call
\* of before meets the probe, half-open ends with its one probe and with
\* nothing else.  (A late failure or success of an older call ends it too.)
ProbeDecides ==
    [][state = "HalfOpen" /\ state' # "HalfOpen" /\ ~overtaken
          => Probes # {} /\ Probes' = {}]_vars

\* What may open the breaker, and what may end its half-open phase.
MovesExplained == TripsOnAgentFaults /\ ProbeDecides

\* If callers keep calling, and from some time on no call fails and no stream
\* is disconnected, the breaker closes for good, unless it stays half-open
\* because its probes were abandoned, or wait for a stream's headers: that wait
\* has no limit, and while it lasts every other call fails fast.
Recovers ==
    /\ WF_vars(\E c \in Clients : Admit(c))
    /\ <>[][~ \E c \in Clients : Failed(c) \/ StreamFailed(c) \/ Disconnected(c)]_vars
    => \/ <>[](state = "Closed")
       \/ <>[](state = "HalfOpen" /\ \A c \in Probes : call[c].at = "opening")
=============================================================================
